--------------------------- MODULE StorageProofs ---------------------------
(***************************************************************************)
(* What the drivers' arithmetic of shapes computes, for every rank and     *)
(* every extent, and what the calls of netCDF-C do to a file.              *)
(*                                                                         *)
(* Shapes are treated by induction over the dimensions.  Induction is the  *)
(* least-element principle for a set of numbers (NatInduct), and that a    *)
(* recursive function exists is itself shown by it.                        *)
(***************************************************************************)
EXTENDS NetcdfLibrary, FiniteSetTheorems, SequenceTheorems, WellFoundedInduction, TLAPS

-----------------------------------------------------------------------------
(* Induction.                                                              *)

\* A set of natural numbers that is not empty has a least element.
LEMMA LeastNat ==
  ASSUME NEW S \in SUBSET Nat, S # {}
  PROVE  \E x \in S : \A y \in S : x <= y
<1> DEFINE R == OpToRel(<, Nat)
<1>1. IsWellFoundedOn(R, Nat)
  BY NatLessThanWellFounded
<1>2. R = {ss \in Nat \X Nat : ss[1] < ss[2]}
  BY Zenon DEF OpToRel
<1> HIDE DEF R
<1>3. \A x, y \in Nat : y < x => <<y, x>> \in R
  BY <1>2
<1>4. PICK x \in S : \A y \in S : ~(<<y, x>> \in R)
  BY <1>1, WFMin
<1>5. ASSUME NEW y \in S PROVE x <= y
  <2>1. ~(y < x)
    BY <1>3, <1>4
  <2>2. QED
    BY <2>1
<1>6. QED
  BY <1>4, <1>5

\* A set that has 0 and the successor of each of its numbers has all of them.
LEMMA NatInduct ==
  ASSUME NEW S, 0 \in S, \A n \in Nat : n \in S => n + 1 \in S
  PROVE  \A n \in Nat : n \in S
<1> SUFFICES ASSUME NEW m \in Nat, m \notin S PROVE FALSE
  OBVIOUS
<1> DEFINE T == {n \in Nat : n \notin S}
<1>1. T \in SUBSET Nat /\ m \in T
  OBVIOUS
<1>2. PICK x \in T : \A y \in T : x <= y
  BY <1>1, LeastNat, Zenon
<1>3. x \in Nat /\ x # 0 /\ x \notin S
  OBVIOUS
<1>4. x - 1 \in Nat /\ (x - 1) + 1 = x /\ ~(x <= x - 1)
  BY <1>3
<1>5. x - 1 \in S
  BY <1>2, <1>4
<1>6. QED
  BY <1>3, <1>4, <1>5

-----------------------------------------------------------------------------
(* Division.                                                               *)

\* A quotient and a remainder are the only ones.
LEMMA DivUnique ==
  ASSUME NEW b \in Nat \ {0}, NEW q \in Nat, NEW r \in 0 .. b - 1
  PROVE  (q * b + r) \div b = q /\ (q * b + r) % b = r
BY SMT

\* And there are such.
LEMMA DivMod ==
  ASSUME NEW a \in Nat, NEW b \in Nat \ {0}
  PROVE  /\ a \div b \in Nat /\ a % b \in 0 .. b - 1
         /\ a = (a \div b) * b + (a % b)
BY SMT

\* The product of natural numbers.
LEMMA Times ==
  ASSUME NEW a \in Nat, NEW b \in Nat
  PROVE  a * b \in Nat /\ (a # 0 /\ b # 0 => a * b # 0 /\ a <= a * b)
BY SMT

\* It grows with its factors.
LEMMA TimesMonotone ==
  ASSUME NEW a \in Nat, NEW b \in Nat, NEW c \in Nat, a <= b
  PROVE  a * c <= b * c /\ c * a <= b * c
BY SMT

\* Dividing twice.
LEMMA DivDiv ==
  ASSUME NEW k \in Nat, NEW s \in Nat \ {0}, NEW e \in Nat \ {0}
  PROVE  k \div (s * e) = (k \div s) \div e
<1> DEFINE q == k \div s
           r == k % s
           p == q \div e
           u == q % e
<1>1. q \in Nat /\ r \in 0 .. s - 1 /\ k = q * s + r
  BY DivMod
<1>2. p \in Nat /\ u \in 0 .. e - 1 /\ q = p * e + u
  BY <1>1, DivMod
<1> HIDE DEF q, r, p, u
<1>3. s * e \in Nat \ {0}
  BY Times
<1>4. k = p * (s * e) + (u * s + r)
  BY <1>1, <1>2, SMT
<1>5. u * s <= (e - 1) * s
  BY <1>2, SMT
<1>6. u * s + r \in 0 .. s * e - 1
  <2>1. u * s \in Nat /\ (e - 1) * s = s * e - s
    BY <1>2, SMT
  <2>2. QED
    BY <1>1, <1>3, <1>5, <2>1
<1> DEFINE b == s * e
           v == u * s + r
<1>7. b \in Nat \ {0} /\ v \in 0 .. b - 1 /\ k = p * b + v
  BY <1>3, <1>4, <1>6
<1>8. k \div b = p
  <2> HIDE DEF b, v
  <2>1. QED
    BY <1>2, <1>7, DivUnique
<1>9. QED
  BY <1>8 DEF p, q

-----------------------------------------------------------------------------
(* Strides and offsets.                                                    *)

Shape(ext) == ext \in Seq(Nat \ {0}) /\ ext # <<>>

\* A shape as a function.
LEMMA ShapeFacts ==
  ASSUME NEW ext, Shape(ext)
  PROVE  /\ Len(ext) \in Nat \ {0} /\ Dims(ext) = 1 .. Len(ext) /\ DOMAIN ext = Dims(ext)
         /\ \A d \in Dims(ext) : ext[d] \in Nat \ {0}
BY DEF Shape, Dims

\* The recursive function of RowMajorStrides exists.
LEMMA StridesExist ==
  ASSUME NEW ext, Shape(ext)
  PROVE  \E s : s = [d \in Dims(ext) |-> IF d = Len(ext) THEN 1 ELSE s[d + 1] * ext[d + 1]]
<1> DEFINE n == Len(ext)
           Upto(m, s) ==
             s = [d \in n - m .. n |-> IF d = n THEN 1 ELSE s[d + 1] * ext[d + 1]]
           S == {m \in Nat : \E s : Upto(m, s)}
<1>1. n \in Nat \ {0} /\ Dims(ext) = 1 .. n
  BY ShapeFacts
<1> HIDE DEF n
<1>2. 0 \in S
  <2> DEFINE s == [d \in n .. n |-> 1]
  <2>1. Upto(0, s)
    BY <1>1
  <2>2. QED
    BY <2>1
<1>3. ASSUME NEW m \in Nat, m \in S PROVE m + 1 \in S
  <2>1. PICK s : Upto(m, s)
    BY <1>3
  <2> DEFINE k == n - (m + 1)
             t == [d \in k .. n |-> IF d = k THEN s[k + 1] * ext[k + 1] ELSE s[d]]
  <2>2. k \in Int /\ k < n /\ k + 1 = n - m
    BY <1>1
  <2> HIDE DEF k
  <2>3. ASSUME NEW d \in k .. n
        PROVE  t[d] = IF d = n THEN 1 ELSE t[d + 1] * ext[d + 1]
    <3>1. CASE d = k
      <4>1. k + 1 \in k .. n /\ k + 1 # k
        BY <1>1, <2>2
      <4>2. t[k + 1] = s[k + 1]
        BY <4>1
      <4>3. QED
        BY <3>1, <4>2, <2>2
    <3>2. CASE d # k
      <4>1. d \in n - m .. n /\ (d # n => d + 1 \in k .. n /\ d + 1 # k)
        BY <3>2, <1>1, <2>2
      <4>2. s[d] = IF d = n THEN 1 ELSE s[d + 1] * ext[d + 1]
        BY <2>1, <4>1
      <4>3. t[d] = s[d] /\ (d # n => t[d + 1] = s[d + 1])
        BY <3>2, <4>1
      <4>4. QED
        BY <4>2, <4>3
    <3>3. QED
      BY <3>1, <3>2
  <2>4. t = [d \in k .. n |-> IF d = n THEN 1 ELSE t[d + 1] * ext[d + 1]]
    BY <2>3
  <2> HIDE DEF t
  <2>5. Upto(m + 1, t)
    BY <2>4 DEF k
  <2> HIDE DEF Upto
  <2>6. QED
    BY <2>5
<1>4. n - 1 \in S
  <2> HIDE DEF S
  <2>1. n - 1 \in Nat
    BY <1>1
  <2>2. QED
    BY <1>2, <1>3, <2>1, NatInduct
<1>5. PICK s : Upto(n - 1, s)
  BY <1>4
<1>6. n - (n - 1) = 1
  BY <1>1
<1>7. QED
  BY <1>1, <1>5, <1>6 DEF n

\* The strides, from the last dimension to the first.
LEMMA StridesDef ==
  ASSUME NEW ext, Shape(ext)
  PROVE  LET s == RowMajorStrides(ext) IN
         /\ s = [d \in Dims(ext) |-> s[d]]
         /\ s[Len(ext)] = 1
         /\ \A d \in 1 .. Len(ext) - 1 : s[d] = s[d + 1] * ext[d + 1]
<1> DEFINE s == RowMajorStrides(ext)
<1>1. s = [d \in Dims(ext) |-> IF d = Len(ext) THEN 1 ELSE s[d + 1] * ext[d + 1]]
  BY StridesExist DEF RowMajorStrides
<1> HIDE DEF s
<1>2. Len(ext) \in Nat \ {0} /\ Dims(ext) = 1 .. Len(ext)
  BY ShapeFacts
<1>3. Len(ext) \in Dims(ext)
  BY <1>2
<1>4. s[Len(ext)] = 1
  BY <1>1, <1>3
<1>5. ASSUME NEW d \in 1 .. Len(ext) - 1 PROVE s[d] = s[d + 1] * ext[d + 1]
  <2>1. d \in Dims(ext) /\ d # Len(ext)
    BY <1>2
  <2>2. QED
    BY <1>1, <2>1
<1>6. s = [d \in Dims(ext) |-> s[d]]
  BY <1>1
<1>7. QED
  BY <1>4, <1>5, <1>6 DEF s

\* Strides are positive.
LEMMA StridesPositive ==
  ASSUME NEW ext, Shape(ext)
  PROVE  /\ RowMajorStrides(ext) \in [Dims(ext) -> Nat \ {0}]
         /\ RowMajorStrides(ext) \in Seq(Nat) /\ Len(RowMajorStrides(ext)) = Len(ext)
         /\ Size(ext) = RowMajorStrides(ext)[1] * ext[1] /\ Size(ext) \in Nat \ {0}
<1> DEFINE s == RowMajorStrides(ext)
           n == Len(ext)
           S == {m \in Nat : m < n => s[n - m] \in Nat \ {0}}
<1>1. /\ s = [d \in Dims(ext) |-> s[d]] /\ s[n] = 1
      /\ \A d \in 1 .. n - 1 : s[d] = s[d + 1] * ext[d + 1]
  BY StridesDef
<1>2. n \in Nat \ {0} /\ Dims(ext) = 1 .. n /\ \A d \in 1 .. n : ext[d] \in Nat \ {0}
  BY ShapeFacts
<1>3. Size(ext) = s[1] * ext[1]
  BY DEF Size
<1> HIDE DEF s, n
<1>4. 0 \in S
  BY <1>1, <1>2
<1>5. ASSUME NEW m \in Nat, m \in S PROVE m + 1 \in S
  <2>1. SUFFICES ASSUME m + 1 < n PROVE s[n - (m + 1)] \in Nat \ {0}
    OBVIOUS
  <2> DEFINE k == n - (m + 1)
  <2>2. k \in 1 .. n - 1 /\ k + 1 \in 1 .. n /\ k + 1 = n - m
    BY <1>2, <2>1
  <2>3. s[n - m] \in Nat \ {0}
    BY <1>2, <1>5, <2>1
  <2> HIDE DEF k
  <2>4. s[k] = s[k + 1] * ext[k + 1] /\ s[k + 1] \in Nat \ {0} /\ ext[k + 1] \in Nat \ {0}
    BY <1>1, <1>2, <2>2, <2>3
  <2>5. s[k] \in Nat \ {0}
    BY <2>4, Times
  <2>6. QED
    BY <2>5 DEF k
<1>6. \A m \in Nat : m \in S
  <2> HIDE DEF S
  <2>1. QED
    BY <1>4, <1>5, NatInduct
<1>7. ASSUME NEW d \in Dims(ext) PROVE s[d] \in Nat \ {0}
  <2>1. n - d \in Nat /\ n - d < n /\ n - (n - d) = d
    BY <1>2
  <2>2. n - d \in S
    BY <1>6, <2>1
  <2>3. QED
    BY <2>1, <2>2
<1>8. s \in [Dims(ext) -> Nat \ {0}]
  BY <1>1, <1>7
<1>9. s \in Seq(Nat) /\ Len(s) = n
  BY <1>2, <1>8
<1>10. s[1] \in Nat \ {0} /\ ext[1] \in Nat \ {0}
  BY <1>2, <1>7
<1>11. s[1] * ext[1] \in Nat \ {0}
  BY <1>10, Times
<1>12. QED
  BY <1>3, <1>8, <1>9, <1>11 DEF s, n

\* The recursive function of Offset exists.
LEMMA SumsExist ==
  ASSUME NEW i, NEW str, Len(str) \in Nat
  PROVE  \E sum : sum = [d \in 0 .. Len(str) |-> IF d = 0 THEN 0 ELSE sum[d - 1] + i[d] * str[d]]
<1> DEFINE Upto(m, s) == s = [d \in 0 .. m |-> IF d = 0 THEN 0 ELSE s[d - 1] + i[d] * str[d]]
           S == {m \in Nat : \E s : Upto(m, s)}
<1>1. 0 \in S
  <2> DEFINE s == [d \in 0 .. 0 |-> 0]
  <2>1. Upto(0, s)
    OBVIOUS
  <2>2. QED
    BY <2>1
<1>2. ASSUME NEW m \in Nat, m \in S PROVE m + 1 \in S
  <2>1. PICK s : Upto(m, s)
    BY <1>2
  <2> DEFINE t == [d \in 0 .. m + 1 |->
                     IF d = m + 1 THEN s[m] + i[m + 1] * str[m + 1] ELSE s[d]]
  <2>2. ASSUME NEW d \in 0 .. m + 1
        PROVE  t[d] = IF d = 0 THEN 0 ELSE t[d - 1] + i[d] * str[d]
    <3>1. CASE d = m + 1
      <4>1. m \in 0 .. m + 1 /\ m # m + 1 /\ (m + 1) - 1 = m /\ m + 1 # 0
        OBVIOUS
      <4>2. t[m] = s[m]
        BY <4>1
      <4>3. QED
        BY <3>1, <4>1, <4>2
    <3>2. CASE d # m + 1
      <4>1. d \in 0 .. m /\ (d # 0 => d - 1 \in 0 .. m + 1 /\ d - 1 # m + 1)
        BY <3>2
      <4>2. s[d] = IF d = 0 THEN 0 ELSE s[d - 1] + i[d] * str[d]
        BY <2>1, <4>1
      <4>3. t[d] = s[d] /\ (d # 0 => t[d - 1] = s[d - 1])
        BY <3>2, <4>1
      <4>4. QED
        BY <4>2, <4>3
    <3>3. QED
      BY <3>1, <3>2
  <2>3. t = [d \in 0 .. m + 1 |-> IF d = 0 THEN 0 ELSE t[d - 1] + i[d] * str[d]]
    BY <2>2
  <2> HIDE DEF t
  <2>4. Upto(m + 1, t)
    BY <2>3
  <2> HIDE DEF Upto
  <2>5. QED
    BY <2>4
<1>3. Len(str) \in S
  <2> HIDE DEF S
  <2>1. QED
    BY <1>1, <1>2, NatInduct
<1>4. QED
  BY <1>3

\* An offset is the last of the partial sums.
LEMMA OffsetSums ==
  ASSUME NEW i, NEW str \in Seq(Nat), \A d \in Dims(str) : i[d] \in Nat
  PROVE  \E sum \in [0 .. Len(str) -> Nat] :
           /\ sum[0] = 0 /\ Offset(i, str) = sum[Len(str)]
           /\ \A d \in Dims(str) : sum[d] = sum[d - 1] + i[d] * str[d]
<1> DEFINE n == Len(str)
<1>1. n \in Nat /\ Dims(str) = 1 .. n /\ \A d \in 1 .. n : str[d] \in Nat /\ i[d] \in Nat
  BY DEF Dims
<1> DEFINE sum == CHOOSE s : s = [d \in 0 .. n |-> IF d = 0 THEN 0 ELSE s[d - 1] + i[d] * str[d]]
<1>2. Offset(i, str) = sum[n]
  BY DEF Offset
<1>3. sum = [d \in 0 .. n |-> IF d = 0 THEN 0 ELSE sum[d - 1] + i[d] * str[d]]
  BY SumsExist, <1>1
<1> HIDE DEF sum, n
<1>4. sum[0] = 0
  BY <1>1, <1>3
<1>5. ASSUME NEW d \in 1 .. n PROVE sum[d] = sum[d - 1] + i[d] * str[d]
  <2>1. d \in 0 .. n /\ d # 0
    BY <1>1
  <2>2. QED
    BY <1>3, <2>1
<1> DEFINE S == {m \in Nat : m <= n => sum[m] \in Nat}
<1>6. 0 \in S
  BY <1>4
<1>7. ASSUME NEW m \in Nat, m \in S PROVE m + 1 \in S
  <2>1. SUFFICES ASSUME m + 1 <= n PROVE sum[m + 1] \in Nat
    OBVIOUS
  <2>2. m + 1 \in 1 .. n /\ (m + 1) - 1 = m /\ sum[m] \in Nat
    BY <1>1, <1>7, <2>1
  <2>3. sum[m + 1] = sum[m] + i[m + 1] * str[m + 1]
    BY <1>5, <2>2
  <2>4. i[m + 1] * str[m + 1] \in Nat
    BY <1>1, <2>2, Times
  <2>5. QED
    BY <2>2, <2>3, <2>4
<1>8. \A m \in Nat : m \in S
  <2> HIDE DEF S
  <2>1. QED
    BY <1>6, <1>7, NatInduct
<1>9. \A m \in 0 .. n : sum[m] \in Nat
  <2>1. ASSUME NEW m \in 0 .. n PROVE sum[m] \in Nat
    <3>1. m \in Nat /\ m <= n
      BY <1>1
    <3>2. QED
      BY <1>8, <3>1
  <2>2. QED
    BY <2>1
<1>10. sum \in [0 .. n -> Nat]
  <2>1. sum = [d \in 0 .. n |-> sum[d]]
    BY <1>3
  <2>2. QED
    BY <1>9, <2>1
<1>11. QED
  BY <1>1, <1>2, <1>4, <1>5, <1>10 DEF n

\* An index within a shape.
Bounded(ext) == {i \in [Dims(ext) -> Nat] : \A d \in Dims(ext) : i[d] < ext[d]}

\* What IndexAt yields lies in the shape.
LEMMA IndexAtBounded ==
  ASSUME NEW ext, Shape(ext), NEW k \in Nat
  PROVE  IndexAt(k, ext) \in Bounded(ext)
<1>1. ASSUME NEW d \in Dims(ext)
      PROVE  LET x == (k \div RowMajorStrides(ext)[d]) % ext[d] IN x \in Nat /\ x < ext[d]
  <2>1. RowMajorStrides(ext)[d] \in Nat \ {0}
    BY StridesPositive
  <2>2. k \div RowMajorStrides(ext)[d] \in Nat
    BY <2>1, DivMod
  <2>3. ext[d] \in Nat \ {0}
    BY ShapeFacts
  <2>4. (k \div RowMajorStrides(ext)[d]) % ext[d] \in 0 .. ext[d] - 1
    BY <2>2, <2>3, DivMod
  <2>5. QED
    BY <2>3, <2>4
<1>2. QED
  BY <1>1 DEF IndexAt, Bounded

\* The index at position k has the offset k: the positions of a shape are all told
\* apart by their indices.
LEMMA OffsetOfIndexAt ==
  ASSUME NEW ext, Shape(ext), NEW k \in 0 .. Size(ext) - 1
  PROVE  Offset(IndexAt(k, ext), RowMajorStrides(ext)) = k
<1> DEFINE s == RowMajorStrides(ext)
           n == Len(ext)
           i == IndexAt(k, ext)
<1>1. /\ s[n] = 1 /\ \A d \in 1 .. n - 1 : s[d] = s[d + 1] * ext[d + 1]
  BY StridesDef
<1>2. n \in Nat \ {0} /\ Dims(ext) = 1 .. n /\ \A d \in 1 .. n : ext[d] \in Nat \ {0}
  BY ShapeFacts
<1>3. /\ \A d \in 1 .. n : s[d] \in Nat \ {0}
      /\ s \in Seq(Nat) /\ Len(s) = n /\ Size(ext) = s[1] * ext[1] /\ Size(ext) \in Nat
  BY <1>2, StridesPositive
<1>4. k \in Nat /\ k < s[1] * ext[1]
  BY <1>3
<1>5. \A d \in 1 .. n : i[d] = (k \div s[d]) % ext[d] /\ i[d] \in Nat
  BY <1>2, <1>4, IndexAtBounded DEF IndexAt, Bounded
<1>6. Dims(s) = 1 .. n
  BY <1>3 DEF Dims
<1> HIDE DEF s, n, i
<1>7. PICK sum \in [0 .. n -> Nat] :
        /\ sum[0] = 0 /\ Offset(i, s) = sum[n]
        /\ \A d \in 1 .. n : sum[d] = sum[d - 1] + i[d] * s[d]
  <2>1. \A d \in Dims(s) : i[d] \in Nat
    BY <1>5, <1>6
  <2>2. \E sum \in [0 .. Len(s) -> Nat] :
          /\ sum[0] = 0 /\ Offset(i, s) = sum[Len(s)]
          /\ \A d \in Dims(s) : sum[d] = sum[d - 1] + i[d] * s[d]
    BY <1>3, <2>1, OffsetSums
  <2>3. QED
    BY <1>3, <1>6, <2>2
<1> DEFINE S == {m \in Nat : m < n => sum[m + 1] = (k \div s[m + 1]) * s[m + 1]}
<1>8. 0 \in S
  <2>1. 1 \in 1 .. n /\ 1 - 1 = 0
    BY <1>2
  <2> DEFINE q == k \div s[1]
  <2>2. q \in Nat /\ k = q * s[1] + (k % s[1]) /\ k % s[1] \in 0 .. s[1] - 1
    BY <1>3, <1>4, <2>1, DivMod
  <2>3. sum[1] = i[1] * s[1] /\ i[1] = q % ext[1]
    <3>1. i[1] * s[1] \in Nat
      BY <1>3, <1>5, <2>1, Times
    <3>2. QED
      BY <1>5, <1>7, <2>1, <3>1
  <2> HIDE DEF q
  <2>4. q < ext[1]
    <3>1. s[1] \in Nat \ {0} /\ ext[1] \in Nat
      BY <1>2, <1>3, <2>1
    <3>2. CASE q >= ext[1]
      <4>1. q * s[1] >= s[1] * ext[1] /\ q * s[1] \in Nat /\ s[1] * ext[1] \in Nat
        BY <3>1, <3>2, <2>2, TimesMonotone, Times
      <4>2. QED
        BY <4>1, <2>2, <1>4
    <3>3. QED
      BY <2>2, <3>1, <3>2
  <2>5. q % ext[1] = q
    <3>1. ext[1] \in Nat \ {0} /\ q \in 0 .. ext[1] - 1 /\ 0 * ext[1] + q = q
      BY <1>2, <2>1, <2>2, <2>4
    <3>2. QED
      BY <3>1, DivUnique
  <2>6. QED
    BY <2>3, <2>5 DEF q
<1>9. ASSUME NEW m \in Nat, m \in S PROVE m + 1 \in S
  <2>1. SUFFICES ASSUME m + 1 < n
                 PROVE  sum[(m + 1) + 1] = (k \div s[(m + 1) + 1]) * s[(m + 1) + 1]
    OBVIOUS
  <2> DEFINE d == m + 1
  <2>2. d \in 1 .. n - 1 /\ d \in 1 .. n /\ d + 1 \in 1 .. n /\ (d + 1) - 1 = d /\ m < n
    BY <1>2, <2>1
  <2>3. sum[d] = (k \div s[d]) * s[d]
    BY <1>9, <2>2
  <2> HIDE DEF d
  <2> DEFINE e == ext[d + 1]
             u == s[d + 1]
             q == k \div u
  <2>4. s[d] = u * e /\ u \in Nat \ {0} /\ e \in Nat \ {0}
    BY <1>1, <1>2, <1>3, <2>2
  <2>5. sum[d + 1] = sum[d] + i[d + 1] * u /\ i[d + 1] = q % e
    BY <1>5, <1>7, <2>2
  <2> HIDE DEF e, u
  <2>6. q \in Nat
    BY <1>4, <2>4, DivMod
  <2>7. k \div (u * e) = q \div e
    BY <1>4, <2>4, DivDiv
  <2> HIDE DEF q
  <2>8. q \div e \in Nat /\ q % e \in 0 .. e - 1 /\ q = (q \div e) * e + (q % e)
    BY <2>4, <2>6, DivMod, Zenon
  <2> DEFINE a == q \div e
             b == q % e
  <2>9. sum[d + 1] = a * (u * e) + b * u
    <3>1. sum[d] = a * (u * e)
      BY <2>3, <2>4, <2>7, Zenon
    <3>2. QED
      BY <2>5, <3>1, Zenon
  <2>10. a \in Nat /\ b \in Nat /\ q = a * e + b
    <3>1. b \in 0 .. e - 1
      BY <2>8
    <3>2. b \in Nat
      <4> HIDE DEF b
      <4>1. QED
        BY <2>4, <3>1
    <3>3. QED
      BY <2>8, <3>2, Zenon
  <2> HIDE DEF a, b
  <2>11. a * (u * e) + b * u = (a * e + b) * u
    BY <2>4, <2>10, SMT
  <2>12. sum[d + 1] = q * u
    BY <2>9, <2>10, <2>11
  <2>13. QED
    BY <2>12 DEF d, q, u
<1>10. n - 1 \in S
  <2> HIDE DEF S
  <2>1. n - 1 \in Nat
    BY <1>2
  <2>2. QED
    BY <1>8, <1>9, <2>1, NatInduct
<1>11. sum[n] = (k \div 1) * 1
  <2>1. n - 1 < n /\ (n - 1) + 1 = n
    BY <1>2
  <2>2. sum[n] = (k \div s[n]) * s[n]
    BY <1>10, <2>1
  <2>3. QED
    BY <1>1, <2>2
<1>12. (k \div 1) * 1 = k
  BY <1>4, SMT
<1>13. QED
  BY <1>7, <1>11, <1>12 DEF i, s

\* Conversely an index within the shape is the one at its offset, which lies before
\* the end of the field.
LEMMA IndexAtOfOffset ==
  ASSUME NEW ext, Shape(ext), NEW i \in Bounded(ext)
  PROVE  /\ Offset(i, RowMajorStrides(ext)) \in 0 .. Size(ext) - 1
         /\ IndexAt(Offset(i, RowMajorStrides(ext)), ext) = i
<1> DEFINE s == RowMajorStrides(ext)
           n == Len(ext)
           k == Offset(i, s)
<1>1. /\ s[n] = 1 /\ \A d \in 1 .. n - 1 : s[d] = s[d + 1] * ext[d + 1]
  BY StridesDef
<1>2. n \in Nat \ {0} /\ Dims(ext) = 1 .. n /\ \A d \in 1 .. n : ext[d] \in Nat \ {0}
  BY ShapeFacts
<1>3. /\ \A d \in 1 .. n : s[d] \in Nat \ {0}
      /\ s \in Seq(Nat) /\ Len(s) = n /\ Size(ext) = s[1] * ext[1] /\ Size(ext) \in Nat
  BY <1>2, StridesPositive
<1>4. i = [d \in 1 .. n |-> i[d]] /\ \A d \in 1 .. n : i[d] \in Nat /\ i[d] < ext[d]
  BY <1>2 DEF Bounded
<1>5. Dims(s) = 1 .. n
  BY <1>3 DEF Dims
<1> HIDE DEF s, n
<1>6. PICK sum \in [0 .. n -> Nat] :
        /\ sum[0] = 0 /\ k = sum[n]
        /\ \A d \in 1 .. n : sum[d] = sum[d - 1] + i[d] * s[d]
  <2>1. \A d \in Dims(s) : i[d] \in Nat
    BY <1>4, <1>5
  <2>2. \E sum \in [0 .. Len(s) -> Nat] :
          /\ sum[0] = 0 /\ Offset(i, s) = sum[Len(s)]
          /\ \A d \in Dims(s) : sum[d] = sum[d - 1] + i[d] * s[d]
    BY <1>3, <2>1, OffsetSums
  <2>3. QED
    BY <1>3, <1>5, <2>2
<1> HIDE DEF k
<1> DEFINE Multiple(d) == \E c \in Nat : sum[d - 1] + i[d] * s[d] = (c * ext[d] + i[d]) * s[d]
           S == {m \in Nat : m < n => Multiple(m + 1)}
<1>7. 0 \in S
  <2>1. 1 \in 1 .. n /\ 1 - 1 = 0
    BY <1>2
  <2>2. i[1] \in Nat /\ s[1] \in Nat /\ ext[1] \in Nat
    BY <1>2, <1>3, <1>4, <2>1
  <2>3. i[1] * s[1] \in Nat
    BY <2>2, Times
  <2>4. sum[1 - 1] + i[1] * s[1] = (0 * ext[1] + i[1]) * s[1]
    BY <1>6, <2>1, <2>2, <2>3
  <2>5. QED
    BY <2>4
<1>8. ASSUME NEW m \in Nat, m \in S PROVE m + 1 \in S
  <2>1. SUFFICES ASSUME m + 1 < n PROVE Multiple((m + 1) + 1)
    OBVIOUS
  <2> DEFINE d == m + 1
  <2>2. d \in 1 .. n - 1 /\ d \in 1 .. n /\ d + 1 \in 1 .. n /\ (d + 1) - 1 = d /\ m < n
    BY <1>2, <2>1
  <2>3. Multiple(d)
    BY <1>8, <2>2
  <2> HIDE DEF d
  <2>4. PICK c \in Nat : sum[d - 1] + i[d] * s[d] = (c * ext[d] + i[d]) * s[d]
    BY <2>3
  <2> DEFINE a == c * ext[d] + i[d]
             e == ext[d + 1]
             u == s[d + 1]
             x == i[d + 1]
  <2>5. a \in Nat
    <3>1. ext[d] \in Nat /\ i[d] \in Nat
      BY <1>2, <1>4, <2>2
    <3>2. c * ext[d] \in Nat
      BY <3>1, Times
    <3>3. QED
      BY <3>1, <3>2
  <2>6. sum[d] = a * s[d]
    BY <1>6, <2>2, <2>4
  <2>7. s[d] = u * e /\ u \in Nat /\ e \in Nat /\ x \in Nat
    BY <1>1, <1>2, <1>3, <1>4, <2>2
  <2> HIDE DEF a, e, u, x
  <2>8. a * (u * e) + x * u = (a * e + x) * u
    BY <2>5, <2>7, SMT
  <2>9. sum[d] + x * u = (a * e + x) * u
    BY <2>6, <2>7, <2>8, Zenon
  <2>10. sum[(d + 1) - 1] + i[d + 1] * s[d + 1] = (a * ext[d + 1] + i[d + 1]) * s[d + 1]
    BY <2>2, <2>9 DEF e, u, x
  <2>11. Multiple(d + 1)
    BY <2>5, <2>10
  <2>12. QED
    BY <2>11 DEF d
<1>9. \A m \in Nat : m \in S
  <2> HIDE DEF S
  <2>1. QED
    BY <1>7, <1>8, NatInduct
<1>10. ASSUME NEW d \in 1 .. n
       PROVE  \E c \in Nat : sum[d] = (c * ext[d] + i[d]) * s[d]
  <2>1. d - 1 \in Nat /\ d - 1 < n /\ (d - 1) + 1 = d
    BY <1>2
  <2>2. d - 1 \in S
    BY <1>9, <2>1
  <2>3. Multiple(d)
    BY <2>1, <2>2
  <2>4. QED
    BY <1>6, <2>3
<1> HIDE DEF S, Multiple
<1> DEFINE T == {m \in Nat : m < n => /\ sum[n - m] <= k /\ k - sum[n - m] < s[n - m]}
<1>11. k \in Nat /\ \A d \in 0 .. n : sum[d] \in Nat
  BY <1>2, <1>6
<1>12. 0 \in T
  <2>1. n - 0 = n
    BY <1>2
  <2>2. QED
    BY <1>1, <1>6, <1>11, <2>1
<1>13. ASSUME NEW d \in 1 .. n, sum[d] <= k, k - sum[d] < s[d]
       PROVE  sum[d - 1] <= k /\ k - sum[d - 1] < s[d] * ext[d]
  <2> DEFINE x == i[d]
             u == s[d]
             e == ext[d]
  <2>1. d - 1 \in 0 .. n /\ d \in 0 .. n
    BY <1>2
  <2>2. x \in Nat /\ u \in Nat /\ e \in Nat /\ x + 1 <= e
    BY <1>2, <1>3, <1>4
  <2>3. sum[d] = sum[d - 1] + x * u /\ sum[d] \in Nat /\ sum[d - 1] \in Nat
    BY <1>6, <1>11, <2>1
  <2>4. k - sum[d] < u /\ sum[d] <= k
    BY <1>13
  <2> HIDE DEF x, u, e
  <2>5. x * u \in Nat /\ (x + 1) * u <= e * u /\ e * u = u * e /\ u * e \in Nat
        /\ (x + 1) * u = x * u + u
    <3>1. x * u \in Nat /\ e * u = u * e /\ u * e \in Nat
      BY <2>2, Times
    <3>2. (x + 1) * u <= e * u
      BY <2>2, TimesMonotone
    <3>3. (x + 1) * u = x * u + u
      BY <2>2, SMT
    <3>4. QED
      BY <3>1, <3>2, <3>3
  <2> DEFINE p == x * u
             q == u * e
  <2>6. sum[d] = sum[d - 1] + p /\ p \in Nat /\ q \in Nat /\ p + u <= q
    BY <2>3, <2>5
  <2> HIDE DEF p, q
  <2>7. sum[d - 1] <= k /\ k - sum[d - 1] < q
    BY <1>11, <2>2, <2>3, <2>4, <2>6
  <2>8. QED
    BY <2>7 DEF q, u, e
<1>14. ASSUME NEW m \in Nat, m \in T PROVE m + 1 \in T
  <2>1. SUFFICES ASSUME m + 1 < n
                 PROVE  sum[n - (m + 1)] <= k /\ k - sum[n - (m + 1)] < s[n - (m + 1)]
    OBVIOUS
  <2> DEFINE d == n - m
  <2>2. d \in 1 .. n /\ d - 1 \in 1 .. n - 1 /\ (d - 1) + 1 = d /\ d - 1 = n - (m + 1) /\ m < n
    BY <1>2, <2>1
  <2>3. sum[d] <= k /\ k - sum[d] < s[d]
    BY <1>14, <2>2
  <2> HIDE DEF d
  <2>4. s[d - 1] = s[d] * ext[d]
    BY <1>1, <2>2
  <2>5. sum[d - 1] <= k /\ k - sum[d - 1] < s[d - 1]
    BY <1>13, <2>2, <2>3, <2>4
  <2>6. QED
    BY <2>2, <2>5
<1>15. \A m \in Nat : m \in T
  <2> HIDE DEF T
  <2>1. QED
    BY <1>12, <1>14, NatInduct
<1>16. ASSUME NEW d \in 1 .. n PROVE sum[d] <= k /\ k - sum[d] < s[d]
  <2>1. n - d \in Nat /\ n - d < n /\ n - (n - d) = d
    BY <1>2
  <2>2. n - d \in T
    BY <1>15, <2>1
  <2>3. QED
    BY <2>1, <2>2
<1> HIDE DEF T
<1>17. k < s[1] * ext[1]
  <2>1. 1 \in 1 .. n /\ 1 - 1 = 0
    BY <1>2
  <2>2. k - sum[0] < s[1] * ext[1]
    BY <1>13, <1>16, <2>1
  <2>3. QED
    BY <1>6, <1>11, <2>2
<1>18. ASSUME NEW d \in 1 .. n PROVE (k \div s[d]) % ext[d] = i[d]
  <2>1. PICK c \in Nat : sum[d] = (c * ext[d] + i[d]) * s[d]
    BY <1>10
  <2> DEFINE a == c * ext[d] + i[d]
             r == k - sum[d]
  <2>2. ext[d] \in Nat \ {0} /\ s[d] \in Nat \ {0} /\ i[d] \in 0 .. ext[d] - 1 /\ sum[d] \in Nat
    BY <1>2, <1>3, <1>4, <1>11
  <2>3. a \in Nat
    <3>1. c * ext[d] \in Nat
      BY <2>2, Times
    <3>2. QED
      BY <2>2, <3>1
  <2>4. r \in 0 .. s[d] - 1 /\ k = sum[d] + r
    BY <1>11, <1>16, <2>2
  <2>5. a % ext[d] = i[d]
    BY <2>2, DivUnique
  <2>6. k = a * s[d] + r
    BY <2>1, <2>4
  <2> HIDE DEF a, r
  <2>7. k \div s[d] = a
    BY <2>2, <2>3, <2>4, <2>6, DivUnique
  <2>8. QED
    BY <2>5, <2>7
<1>19. IndexAt(k, ext) = [d \in 1 .. n |-> (k \div s[d]) % ext[d]]
  BY <1>2 DEF IndexAt, s
<1>20. IndexAt(k, ext) = i
  BY <1>4, <1>18, <1>19
<1>21. k \in 0 .. Size(ext) - 1
  BY <1>3, <1>11, <1>17
<1>22. QED
  BY <1>20, <1>21 DEF k, s

\* The cells of a shape are the indices within it.
LEMMA CellsAre ==
  ASSUME NEW ext, Shape(ext)
  PROVE  Cells(ext) = Bounded(ext)
<1>1. ASSUME NEW i \in Cells(ext) PROVE i \in Bounded(ext)
  <2>1. PICK k \in 0 .. Size(ext) - 1 : i = IndexAt(k, ext)
    BY DEF Cells
  <2>2. k \in Nat
    BY StridesPositive
  <2>3. QED
    BY <2>1, <2>2, IndexAtBounded
<1>2. ASSUME NEW i \in Bounded(ext) PROVE i \in Cells(ext)
  <2> DEFINE k == Offset(i, RowMajorStrides(ext))
  <2>1. k \in 0 .. Size(ext) - 1 /\ IndexAt(k, ext) = i
    BY IndexAtOfOffset
  <2> HIDE DEF k
  <2>2. QED
    BY <2>1 DEF Cells
<1>3. QED
  BY <1>1, <1>2

\* No two cells have the same row-major offset.
LEMMA OffsetInjective ==
  ASSUME NEW ext, Shape(ext), NEW i \in Cells(ext), NEW j \in Cells(ext),
         Offset(i, RowMajorStrides(ext)) = Offset(j, RowMajorStrides(ext))
  PROVE  i = j
<1>1. i \in Bounded(ext) /\ j \in Bounded(ext)
  BY CellsAre
<1>2. IndexAt(Offset(i, RowMajorStrides(ext)), ext) = i
      /\ IndexAt(Offset(j, RowMajorStrides(ext)), ext) = j
  BY <1>1, IndexAtOfOffset
<1>3. QED
  BY <1>2


-----------------------------------------------------------------------------
(* What amio_write copied.                                                 *)

\* An element of the copy is from outside the field or has the number of the
\* write.
LEMMA SnapshotElement ==
  ASSUME NEW l, NEW n, NEW k \in 1 .. Size(l.ext)
  PROVE  Snapshot(l, n)[k] = Junk \/ Snapshot(l, n)[k][1] = n
BY DEF Snapshot

\* The copy of a row-major layout has every element at its row-major offset.
LEMMA SnapshotRowMajor ==
  ASSUME NEW l, Shape(l.ext), RowMajorLayout(l), NEW n, NEW i \in Cells(l.ext)
  PROVE  /\ Offset(i, RowMajorStrides(l.ext)) + 1 \in 1 .. Size(l.ext)
         /\ Snapshot(l, n)[Offset(i, RowMajorStrides(l.ext)) + 1] = <<n, i>>
<1> DEFINE s == RowMajorStrides(l.ext)
           k == Offset(i, s) + 1
           at == {j \in Cells(l.ext) : Offset(j, s) = k - 1}
<1>1. Offset(i, s) \in 0 .. Size(l.ext) - 1 /\ Size(l.ext) \in Nat
  BY CellsAre, IndexAtOfOffset, StridesPositive
<1>2. k \in 1 .. Size(l.ext) /\ k - 1 = Offset(i, s)
  BY <1>1
<1>3. at = {i}
  BY <1>2, OffsetInjective
<1>4. ActualStrides(l) = s
  BY DEF RowMajorLayout
<1> HIDE DEF k, s
<1>5. Snapshot(l, n)[k] = IF at = {} THEN Junk ELSE <<n, CHOOSE j \in at : TRUE>>
  BY <1>2, <1>4 DEF Snapshot
<1>6. (CHOOSE j \in at : TRUE) = i
  BY <1>3
<1>7. Snapshot(l, n)[k] = <<n, i>>
  BY <1>3, <1>5, <1>6
<1>8. QED
  BY <1>2, <1>7 DEF k, s

-----------------------------------------------------------------------------
(* Bounding boxes.                                                         *)

\* A box that validate_bbox lets through has the rank of the shape and selects
\* elements of it.
LEMMA BoxFacts ==
  ASSUME NEW shape, Shape(shape), NEW b \in Boxes(shape)
  PROVE  /\ Shape(b.ext) /\ Len(b.ext) = Len(shape)
         /\ \A d \in Dims(shape) :
              /\ b.off[d] \in Nat /\ b.str[d] \in Nat
              /\ b.off[d] + (b.ext[d] - 1) * b.str[d] < shape[d]
<1> DEFINE Spans(n) == {x \in (0 .. n - 1) \X (1 .. n) \X {1, 2} :
                          /\ x[1] + (x[2] - 1) * x[3] < n
                          /\ x[2] = 1 => x[3] = 1}
<1>1. PICK q : /\ \A d \in Dims(shape) : q[d] \in Spans(shape[d])
               /\ b = [off |-> [d \in Dims(shape) |-> q[d][1]],
                       ext |-> [d \in Dims(shape) |-> q[d][2]],
                       str |-> [d \in Dims(shape) |-> q[d][3]]]
  BY Zenon DEF Boxes
<1>2. ASSUME NEW d \in Dims(shape)
      PROVE  /\ b.off[d] \in Nat /\ b.ext[d] \in Nat \ {0} /\ b.str[d] \in Nat
             /\ b.off[d] + (b.ext[d] - 1) * b.str[d] < shape[d]
  <2>1. b.off[d] = q[d][1] /\ b.ext[d] = q[d][2] /\ b.str[d] = q[d][3]
    BY <1>1
  <2>2. /\ q[d] \in (0 .. shape[d] - 1) \X (1 .. shape[d]) \X {1, 2}
        /\ q[d][1] + (q[d][2] - 1) * q[d][3] < shape[d]
    BY <1>1
  <2>3. QED
    BY <2>1, <2>2
<1>3. b.ext \in [1 .. Len(shape) -> Nat \ {0}] /\ Len(shape) \in Nat \ {0}
  BY <1>1, <1>2, ShapeFacts DEF Dims
<1>4. b.ext \in Seq(Nat \ {0}) /\ Len(b.ext) = Len(shape) /\ b.ext # <<>>
  BY <1>3
<1>5. QED
  BY <1>2, <1>4 DEF Shape

\* And so does the box that selects everything, in the order of the shape.
LEMMA FullBoxFacts ==
  ASSUME NEW shape, Shape(shape), NEW k \in 1 .. Size(shape)
  PROVE  BoxIndex(FullBox(shape), k) = IndexAt(k - 1, shape)
<1> DEFINE i == IndexAt(k - 1, shape)
           b == FullBox(shape)
<1>1. b.ext = shape /\ \A d \in Dims(shape) : b.off[d] = 0 /\ b.str[d] = 1
  BY DEF FullBox
<1>2. k - 1 \in Nat
  BY StridesPositive
<1>3. i \in [Dims(shape) -> Nat]
  BY <1>2, IndexAtBounded DEF Bounded
<1>4. BoxIndex(b, k) = [d \in Dims(shape) |-> b.off[d] + i[d] * b.str[d]]
  BY <1>1 DEF BoxIndex
<1> HIDE DEF i, b
<1>5. \A d \in Dims(shape) : b.off[d] + i[d] * b.str[d] = i[d]
  BY <1>1, <1>3
<1>6. BoxIndex(b, k) = i
  BY <1>3, <1>4, <1>5
<1>7. QED
  BY <1>6 DEF i, b

\* The elements a box selects are elements of the shape.
LEMMA BoxIndexInside ==
  ASSUME NEW shape, Shape(shape), NEW b \in Boxes(shape), NEW k \in 1 .. Size(b.ext)
  PROVE  BoxIndex(b, k) \in Cells(shape)
<1> DEFINE i == IndexAt(k - 1, b.ext)
<1>1. /\ Shape(b.ext) /\ Dims(b.ext) = Dims(shape)
      /\ \A d \in Dims(shape) :
           /\ b.off[d] \in Nat /\ b.str[d] \in Nat /\ shape[d] \in Nat /\ b.ext[d] \in Nat
           /\ b.off[d] + (b.ext[d] - 1) * b.str[d] < shape[d]
  BY BoxFacts, ShapeFacts DEF Dims
<1>2. k - 1 \in Nat
  BY <1>1, StridesPositive
<1>3. i \in Bounded(b.ext)
  BY <1>1, <1>2, IndexAtBounded
<1>4. \A d \in Dims(shape) : i[d] \in Nat /\ i[d] < b.ext[d]
  BY <1>1, <1>3 DEF Bounded
<1> HIDE DEF i
<1>5. ASSUME NEW d \in Dims(shape)
      PROVE  LET x == b.off[d] + i[d] * b.str[d] IN x \in Nat /\ x < shape[d]
  <2> DEFINE m == b.ext[d] - 1
             s == b.str[d]
             x == i[d]
             o == b.off[d]
  <2>1. m \in Nat /\ s \in Nat /\ x \in Nat /\ o \in Nat /\ x <= m /\ o + m * s < shape[d]
    BY <1>1, <1>4
  <2> HIDE DEF m, s, x, o
  <2>2. x * s <= m * s /\ x * s \in Nat /\ m * s \in Nat
    BY <2>1, Times, TimesMonotone
  <2> DEFINE p == x * s
             r == m * s
  <2>3. p <= r /\ p \in Nat /\ r \in Nat /\ o + r < shape[d]
    BY <2>1, <2>2
  <2> HIDE DEF p, r
  <2>4. o + p \in Nat /\ o + p < shape[d]
    BY <1>1, <2>1, <2>3
  <2>5. QED
    BY <2>4 DEF p, x, s, o
<1>6. BoxIndex(b, k) = [d \in Dims(shape) |-> b.off[d] + i[d] * b.str[d]]
  BY <1>1 DEF BoxIndex, i
<1>7. BoxIndex(b, k) \in Bounded(shape)
  BY <1>5, <1>6 DEF Bounded
<1>8. QED
  BY <1>7, CellsAre

\* An index with the timestep in front.
LEMMA Prefixed ==
  \A n \in Nat : \A i \in [1 .. n -> Nat] : \A t \in Nat :
    /\ <<t>> \o i \in [1 .. n + 1 -> Nat] /\ (<<t>> \o i)[1] = t
    /\ \A d \in 1 .. n : (<<t>> \o i)[d + 1] = i[d]
<1> TAKE n \in Nat
<1> TAKE i \in [1 .. n -> Nat]
<1> TAKE t \in Nat
<1>1. Len(i) = n /\ i \in Seq(Nat)
  OBVIOUS
<1>2. <<t>> \o i \in Seq(Nat) /\ Len(<<t>> \o i) = n + 1
  BY <1>1
<1>3. (<<t>> \o i)[1] = t /\ \A d \in 1 .. n : (<<t>> \o i)[d + 1] = i[d]
  BY <1>1
<1>4. \A s \in Seq(Nat) : s \in [1 .. Len(s) -> Nat]
  OBVIOUS
<1>5. <<t>> \o i \in [1 .. n + 1 -> Nat]
  BY <1>2, <1>4, Zenon
<1>6. QED
  BY <1>1, <1>3, <1>5, Zenon


-----------------------------------------------------------------------------
(* The greatest of a set of numbers.                                       *)

\* A set of numbers with a bound has a greatest element, and Max is it.
LEMMA MaxOfBounded ==
  ASSUME NEW S \in SUBSET Nat, S # {}, NEW b \in Nat, \A y \in S : y <= b
  PROVE  Max(S) \in S /\ \A y \in S : y <= Max(S)
<1> DEFINE T == {b - y : y \in S}
<1>1. T \in SUBSET Nat /\ T # {}
  <2>1. \A y \in S : b - y \in Nat
    OBVIOUS
  <2>2. QED
    BY <2>1
<1>2. PICK x \in T : \A y \in T : x <= y
  BY <1>1, LeastNat, Zenon
<1>3. PICK m \in S : x = b - m
  OBVIOUS
<1>4. \A y \in S : m >= y
  <2>1. SUFFICES ASSUME NEW y \in S PROVE m >= y
    OBVIOUS
  <2>2. b - m <= b - y
    BY <1>2, <1>3
  <2>3. QED
    BY <2>2
<1>5. Max(S) \in S /\ \A y \in S : Max(S) >= y
  BY <1>4 DEF Max
<1>6. QED
  BY <1>5

\* The numbers of a sequence have a bound.
LEMMA SeqBound ==
  ASSUME NEW s \in Seq(Nat)
  PROVE  \E b \in Nat : \A d \in Dims(s) : s[d] <= b
<1> DEFINE Bound(n, b) == \A d \in 1 .. n : s[d] <= b
           R == {n \in Nat : n <= Len(s) => \E b \in Nat : Bound(n, b)}
<1>1. 0 \in R
  OBVIOUS
<1>2. ASSUME NEW n \in Nat, n \in R PROVE n + 1 \in R
  <2>1. SUFFICES ASSUME n + 1 <= Len(s) PROVE \E b \in Nat : Bound(n + 1, b)
    OBVIOUS
  <2>2. PICK b \in Nat : Bound(n, b)
    BY <1>2, <2>1
  <2> DEFINE x == s[n + 1]
             c == IF b < x THEN x ELSE b
  <2>3. x \in Nat
    BY <2>1
  <2>4. ASSUME NEW d \in 1 .. n + 1 PROVE s[d] <= c
    <3>1. d \in 1 .. n \/ d = n + 1
      OBVIOUS
    <3>2. s[d] \in Nat
      BY <2>1
    <3>3. QED
      BY <2>2, <2>3, <3>1, <3>2
  <2>5. c \in Nat /\ Bound(n + 1, c)
    BY <2>3, <2>4
  <2> HIDE DEF c, Bound
  <2>6. QED
    BY <2>5
<1>3. \A n \in Nat : n \in R
  <2> HIDE DEF R
  <2>1. QED
    BY <1>1, <1>2, NatInduct
<1>4. Len(s) \in Nat
  OBVIOUS
<1>5. \E b \in Nat : Bound(Len(s), b)
  <2> HIDE DEF Bound
  <2>1. Len(s) \in R /\ Len(s) <= Len(s)
    BY <1>3, <1>4
  <2>2. QED
    BY <2>1
<1>6. QED
  BY <1>5 DEF Dims

-----------------------------------------------------------------------------
(* The calls of netCDF-C.                                                  *)

IsDim(d) == DOMAIN d = {"name", "len", "unlimited"} /\ d.len \in Nat

IsVar(x) ==
  DOMAIN x = {"dims", "attrs", "filter", "committed", "cells"} /\ Len(x.dims) \in Nat

IsFile(f) ==
  /\ DOMAIN f = {"exists", "classic", "define", "dims", "vars"}
  /\ Len(f.dims) \in Nat /\ f.dims = [i \in 1 .. Len(f.dims) |-> f.dims[i]]
  /\ \A i \in DOMAIN f.dims : IsDim(f.dims[i])
  /\ \A v \in DOMAIN f.vars : IsVar(f.vars[v])

\* No call removes a dimension or shortens one.
Grows(f, g) ==
  \A i \in DOMAIN f.dims :
    /\ i \in DOMAIN g.dims
    /\ f.dims[i].len <= g.dims[i].len /\ g.dims[i].unlimited = f.dims[i].unlimited

\* What the calls for other variables leave of v: all but that it gets committed.
Keeps(f, g, v) ==
  /\ v \in DOMAIN g.vars <=> v \in DOMAIN f.vars
  /\ v \in DOMAIN f.vars =>
       /\ g.vars[v].dims = f.vars[v].dims /\ g.vars[v].attrs = f.vars[v].attrs
       /\ g.vars[v].filter = f.vars[v].filter /\ g.vars[v].cells = f.vars[v].cells
       /\ f.vars[v].committed => g.vars[v].committed

\* The effect of a call on everything but v.
Changes(f, g, v) ==
  /\ IsFile(g) /\ g.exists = f.exists /\ g.classic = f.classic
  /\ Grows(f, g) /\ \A w : w # v => Keeps(f, g, w)

\* A file just created.
LEMMA CreateFacts ==
  ASSUME NEW c
  PROVE  IsFile(nc_create(c)) /\ nc_create(c).exists /\ DOMAIN nc_create(c).vars = {}
BY DEF nc_create, IsFile

\* Effects add up.
LEMMA ChangesTransitive ==
  ASSUME NEW f, NEW g, NEW h, NEW v, IsFile(f), Changes(f, g, v), Changes(g, h, v)
  PROVE  Changes(f, h, v)
<1>1. IsFile(g) /\ IsFile(h) /\ h.exists = f.exists /\ h.classic = f.classic
  BY DEF Changes
<1>2. Grows(f, h)
  <2>1. SUFFICES ASSUME NEW i \in DOMAIN f.dims
                 PROVE  /\ i \in DOMAIN h.dims /\ f.dims[i].len <= h.dims[i].len
                        /\ h.dims[i].unlimited = f.dims[i].unlimited
    BY DEF Grows
  <2>2. /\ i \in DOMAIN g.dims /\ f.dims[i].len <= g.dims[i].len
        /\ g.dims[i].unlimited = f.dims[i].unlimited
    BY DEF Changes, Grows
  <2>3. /\ i \in DOMAIN h.dims /\ g.dims[i].len <= h.dims[i].len
        /\ h.dims[i].unlimited = g.dims[i].unlimited
    BY <2>2 DEF Changes, Grows
  <2>4. f.dims[i].len \in Nat /\ g.dims[i].len \in Nat /\ h.dims[i].len \in Nat
    BY <1>1, <2>2, <2>3 DEF IsFile, IsDim
  <2>5. QED
    BY <2>2, <2>3, <2>4
<1>3. ASSUME NEW w, w # v PROVE Keeps(f, h, w)
  <2>1. Keeps(f, g, w) /\ Keeps(g, h, w)
    BY <1>3 DEF Changes
  <2>2. QED
    BY <2>1 DEF Keeps
<1>4. QED
  BY <1>1, <1>2, <1>3 DEF Changes

\* A call that fails changes nothing.
LEMMA ChangesNothing ==
  ASSUME NEW f, IsFile(f), NEW v
  PROVE  Changes(f, f, v) /\ Keeps(f, f, v)
<1>1. Grows(f, f)
  BY DEF IsFile, IsDim, Grows
<1>2. \A w : Keeps(f, f, w)
  BY DEF Keeps
<1>3. QED
  BY <1>1, <1>2 DEF Changes

\* nc_redef.
LEMMA RedefFacts ==
  ASSUME NEW f, IsFile(f), NEW v
  PROVE  LET g == nc_redef(f) IN
         Changes(f, g, v) /\ g.vars = f.vars /\ g.dims = f.dims /\ g.define
<1> DEFINE g == nc_redef(f)
<1>1. /\ DOMAIN g = DOMAIN f /\ g.vars = f.vars /\ g.dims = f.dims /\ g.define
      /\ g.exists = f.exists /\ g.classic = f.classic
  BY DEF nc_redef, IsFile
<1> HIDE DEF g
<1>2. IsFile(g)
  BY <1>1 DEF IsFile
<1>3. Grows(f, g)
  BY <1>1 DEF IsFile, IsDim, Grows
<1>4. \A w : Keeps(f, g, w)
  BY <1>1 DEF Keeps
<1>5. QED
  BY <1>1, <1>2, <1>3, <1>4 DEF Changes, g

\* nc_def_dim.
LEMMA DefDimFacts ==
  ASSUME NEW f, IsFile(f), NEW name, NEW len \in Nat, NEW unlimited, NEW v
  PROVE  LET g == nc_def_dim(f, name, len, unlimited) IN
         /\ Changes(f, g, v) /\ g.vars = f.vars /\ g.define = f.define
         /\ Len(f.dims) + 1 \in DOMAIN g.dims
<1> DEFINE g == nc_def_dim(f, name, len, unlimited)
           new == [name |-> name, len |-> IF unlimited THEN 0 ELSE len, unlimited |-> unlimited]
<1>1. /\ DOMAIN g = DOMAIN f /\ g.vars = f.vars /\ g.dims = Append(f.dims, new)
      /\ g.define = f.define /\ g.exists = f.exists /\ g.classic = f.classic
  BY DEF nc_def_dim, IsFile
<1>2. IsDim(new)
  BY DEF IsDim
<1> DEFINE s == f.dims
           n == Len(f.dims)
<1>3. n \in Nat /\ s = [i \in 1 .. n |-> s[i]] /\ \A i \in 1 .. n : IsDim(s[i])
  BY DEF IsFile
<1> HIDE DEF g, new, s
<1>4. s \in Seq({s[i] : i \in 1 .. n} \cup {new})
  BY <1>3
<1>5. Len(Append(s, new)) = n + 1 /\ DOMAIN Append(s, new) = 1 .. n + 1
      /\ Append(s, new)[n + 1] = new /\ \A i \in 1 .. n : Append(s, new)[i] = s[i]
  BY <1>4 DEF s
<1>6. /\ Len(g.dims) = n + 1 /\ DOMAIN g.dims = 1 .. n + 1 /\ g.dims[n + 1] = new
      /\ \A i \in 1 .. n : g.dims[i] = s[i]
  BY <1>1, <1>5 DEF s
<1> HIDE DEF n
<1>7. g.dims = [i \in 1 .. n + 1 |-> g.dims[i]] /\ n + 1 \in Nat
  BY <1>1, <1>3, <1>4, <1>6 DEF s
<1>8. \A i \in 1 .. n + 1 : IsDim(g.dims[i])
  BY <1>2, <1>3, <1>6
<1>9. IsFile(g)
  BY <1>1, <1>6, <1>7, <1>8 DEF IsFile
<1>10. Grows(f, g)
  <2>1. \A i \in 1 .. n : g.dims[i] = f.dims[i] /\ i \in 1 .. n + 1 /\ f.dims[i].len \in Nat
    BY <1>3, <1>6 DEF s, IsDim
  <2>2. DOMAIN f.dims = 1 .. n
    BY <1>3 DEF s
  <2>3. QED
    BY <1>6, <2>1, <2>2 DEF Grows
<1>11. \A w : Keeps(f, g, w)
  BY <1>1 DEF Keeps
<1>12. QED
  BY <1>1, <1>3, <1>6, <1>9, <1>10, <1>11 DEF Changes, g, n

\* nc_def_var.
LEMMA DefVarFacts ==
  ASSUME NEW f, IsFile(f), NEW v, NEW ids, Len(ids) \in Nat
  PROVE  LET g == nc_def_var(f, v, ids) IN
         /\ Changes(f, g, v) /\ g.dims = f.dims /\ g.define = f.define
         /\ v \in DOMAIN g.vars /\ g.vars[v].dims = ids /\ DOMAIN g.vars[v].cells = {}
<1> DEFINE g == nc_def_var(f, v, ids)
           new == [dims |-> ids, attrs |-> FALSE, filter |-> FALSE, committed |-> FALSE,
                   cells |-> [i \in {} |-> Fill]]
<1>1. /\ DOMAIN g = DOMAIN f /\ g.dims = f.dims /\ g.define = f.define
      /\ g.exists = f.exists /\ g.classic = f.classic
      /\ g.vars = [w \in DOMAIN f.vars \cup {v} |-> IF w = v THEN new ELSE f.vars[w]]
  BY DEF nc_def_var, IsFile
<1>2. IsVar(new) /\ new.dims = ids /\ DOMAIN new.cells = {}
  BY DEF IsVar
<1> HIDE DEF g, new
<1>3. /\ DOMAIN g.vars = DOMAIN f.vars \cup {v} /\ g.vars[v] = new
      /\ \A w \in DOMAIN f.vars : w # v => g.vars[w] = f.vars[w]
  BY <1>1
<1>4. IsFile(g)
  BY <1>1, <1>2, <1>3 DEF IsFile
<1>5. Grows(f, g)
  BY <1>1 DEF IsFile, IsDim, Grows
<1>6. \A w : w # v => Keeps(f, g, w)
  BY <1>3 DEF Keeps
<1>7. QED
  BY <1>1, <1>2, <1>3, <1>4, <1>5, <1>6 DEF Changes, g

\* nc_put_att and nc_def_var_filter.
LEMMA AttributeFacts ==
  ASSUME NEW f, IsFile(f), NEW v \in DOMAIN f.vars
  PROVE  LET g == nc_put_att(f, v) IN
         /\ Changes(f, g, v) /\ g.dims = f.dims /\ g.define
         /\ v \in DOMAIN g.vars /\ g.vars[v].dims = f.vars[v].dims
         /\ g.vars[v].attrs /\ g.vars[v].filter = f.vars[v].filter
         /\ g.vars[v].cells = f.vars[v].cells /\ g.vars[v].committed = f.vars[v].committed
<1> DEFINE g == nc_put_att(f, v)
<1>1. /\ DOMAIN g = DOMAIN f /\ g.dims = f.dims /\ g.define
      /\ g.exists = f.exists /\ g.classic = f.classic
      /\ g.vars = [f.vars EXCEPT ![v].attrs = TRUE]
  BY DEF nc_put_att, IsFile
<1> HIDE DEF g
<1>2. /\ DOMAIN g.vars = DOMAIN f.vars /\ g.vars[v] = [f.vars[v] EXCEPT !.attrs = TRUE]
      /\ \A w \in DOMAIN f.vars : w # v => g.vars[w] = f.vars[w]
  BY <1>1
<1>3. /\ IsVar(g.vars[v]) /\ g.vars[v].dims = f.vars[v].dims
      /\ g.vars[v].attrs /\ g.vars[v].filter = f.vars[v].filter
      /\ g.vars[v].cells = f.vars[v].cells /\ g.vars[v].committed = f.vars[v].committed
  BY <1>2 DEF IsFile, IsVar
<1>4. IsFile(g)
  BY <1>1, <1>2, <1>3 DEF IsFile
<1>5. Grows(f, g)
  BY <1>1 DEF IsFile, IsDim, Grows
<1>6. \A w : w # v => Keeps(f, g, w)
  BY <1>2 DEF Keeps
<1>7. QED
  BY <1>1, <1>2, <1>3, <1>4, <1>5, <1>6 DEF Changes, g

\* The same of the filter.
LEMMA FilterFacts ==
  ASSUME NEW f, IsFile(f), NEW v \in DOMAIN f.vars
  PROVE  LET g == nc_def_var_filter(f, v) IN
         /\ Changes(f, g, v) /\ g.dims = f.dims /\ g.define
         /\ v \in DOMAIN g.vars /\ g.vars[v].dims = f.vars[v].dims
         /\ g.vars[v].attrs = f.vars[v].attrs /\ g.vars[v].filter
         /\ g.vars[v].cells = f.vars[v].cells /\ g.vars[v].committed = f.vars[v].committed
<1> DEFINE g == nc_def_var_filter(f, v)
<1>1. /\ DOMAIN g = DOMAIN f /\ g.dims = f.dims /\ g.define
      /\ g.exists = f.exists /\ g.classic = f.classic
      /\ g.vars = [f.vars EXCEPT ![v].filter = TRUE]
  BY DEF nc_def_var_filter, IsFile
<1> HIDE DEF g
<1>2. /\ DOMAIN g.vars = DOMAIN f.vars /\ g.vars[v] = [f.vars[v] EXCEPT !.filter = TRUE]
      /\ \A w \in DOMAIN f.vars : w # v => g.vars[w] = f.vars[w]
  BY <1>1
<1>3. /\ IsVar(g.vars[v]) /\ g.vars[v].dims = f.vars[v].dims
      /\ g.vars[v].attrs = f.vars[v].attrs /\ g.vars[v].filter
      /\ g.vars[v].cells = f.vars[v].cells /\ g.vars[v].committed = f.vars[v].committed
  BY <1>2 DEF IsFile, IsVar
<1>4. IsFile(g)
  BY <1>1, <1>2, <1>3 DEF IsFile
<1>5. Grows(f, g)
  BY <1>1 DEF IsFile, IsDim, Grows
<1>6. \A w : w # v => Keeps(f, g, w)
  BY <1>2 DEF Keeps
<1>7. QED
  BY <1>1, <1>2, <1>3, <1>4, <1>5, <1>6 DEF Changes, g

\* nc_enddef commits every variable and changes nothing else.
LEMMA EndDefFacts ==
  ASSUME NEW f, IsFile(f), NEW v
  PROVE  LET g == nc_enddef(f) IN
         /\ Changes(f, g, v) /\ Keeps(f, g, v) /\ g.dims = f.dims
         /\ \A w \in DOMAIN g.vars : g.vars[w].committed
<1> DEFINE g == nc_enddef(f)
<1>1. /\ DOMAIN g = DOMAIN f /\ g.dims = f.dims
      /\ g.exists = f.exists /\ g.classic = f.classic
      /\ g.vars = [w \in DOMAIN f.vars |-> [f.vars[w] EXCEPT !.committed = TRUE]]
  BY DEF nc_enddef, IsFile
<1> HIDE DEF g
<1>2. /\ DOMAIN g.vars = DOMAIN f.vars
      /\ \A w \in DOMAIN f.vars : g.vars[w] = [f.vars[w] EXCEPT !.committed = TRUE]
  BY <1>1
<1>3. ASSUME NEW w \in DOMAIN f.vars
      PROVE  /\ IsVar(g.vars[w]) /\ g.vars[w].committed
             /\ g.vars[w].dims = f.vars[w].dims /\ g.vars[w].attrs = f.vars[w].attrs
             /\ g.vars[w].filter = f.vars[w].filter /\ g.vars[w].cells = f.vars[w].cells
  BY <1>2 DEF IsFile, IsVar
<1>4. IsFile(g)
  BY <1>1, <1>2, <1>3 DEF IsFile
<1>5. Grows(f, g)
  BY <1>1 DEF IsFile, IsDim, Grows
<1>6. \A w : Keeps(f, g, w)
  BY <1>2, <1>3 DEF Keeps
<1>7. QED
  BY <1>1, <1>2, <1>3, <1>4, <1>5, <1>6 DEF Changes, g

\* Nor does leaving define mode, by nc_sync or nc_close, lose anything.
LEMMA DataModeFacts ==
  ASSUME NEW f, IsFile(f), NEW v
  PROVE  LET g == DataMode(f) IN Changes(f, g, v) /\ Keeps(f, g, v) /\ g.dims = f.dims
<1>1. CASE f.define
  BY <1>1, EndDefFacts DEF DataMode
<1>2. CASE ~f.define
  BY <1>2, ChangesNothing DEF DataMode
<1>3. QED
  BY <1>1, <1>2

\* What nc_put_vara takes for start and count.
IsRegion(g, r) ==
  /\ DOMAIN g.start = 1 .. r /\ \A d \in 1 .. r : g.start[d] \in Nat /\ g.count[d] \in Nat

\* The drivers lead it to such regions, whatever lies behind their vectors; to the
\* whole field if it has the rank of the variable.
LEMMA RegionFacts ==
  ASSUME NEW f, NEW v, Len(f.vars[v].dims) \in Nat, NEW ext, Shape(ext),
         NEW g \in Regions(f, v, ext)
  PROVE  /\ IsRegion(g, Len(f.vars[v].dims))
         /\ Len(ext) = Len(f.vars[v].dims) =>
              /\ g.count = ext /\ DOMAIN g.start = Dims(ext)
              /\ \A d \in Dims(ext) : g.start[d] = 0
              /\ Area(g) = Cells(ext)
<1> DEFINE r == Len(f.vars[v].dims)
           behind == [Len(ext) + 1 .. r -> 0 .. MaxStray]
<1>1. /\ Len(ext) \in Nat \ {0} /\ Dims(ext) = 1 .. Len(ext) /\ DOMAIN ext = Dims(ext)
      /\ ext = [d \in Dims(ext) |-> ext[d]]
      /\ \A d \in Dims(ext) : ext[d] \in Nat
  BY ShapeFacts DEF Shape
<1>2. PICK s \in behind, c \in behind :
        g = [start |-> [d \in 1 .. r |-> IF d <= Len(ext) THEN 0 ELSE s[d]],
             count |-> [d \in 1 .. r |-> IF d <= Len(ext) THEN ext[d] ELSE c[d]]]
  <2>1. PICK z \in behind \X behind :
          g = [start |-> [d \in 1 .. r |-> IF d <= Len(ext) THEN 0 ELSE z[1][d]],
               count |-> [d \in 1 .. r |-> IF d <= Len(ext) THEN ext[d] ELSE z[2][d]]]
    BY DEF Regions
  <2>2. z[1] \in behind /\ z[2] \in behind
    OBVIOUS
  <2>3. QED
    BY <2>1, <2>2
<1>3. /\ g.start = [d \in 1 .. r |-> IF d <= Len(ext) THEN 0 ELSE s[d]]
      /\ g.count = [d \in 1 .. r |-> IF d <= Len(ext) THEN ext[d] ELSE c[d]]
  BY <1>2
<1>4. MaxStray \in Nat /\ r \in Nat
  BY DriverAssumption
<1> HIDE DEF r
<1>5. ASSUME NEW d \in 1 .. r PROVE g.start[d] \in Nat /\ g.count[d] \in Nat
  <2>1. CASE d <= Len(ext)
    BY <1>1, <1>3, <1>4, <1>5, <2>1
  <2>2. CASE ~(d <= Len(ext))
    <3>1. d \in Len(ext) + 1 .. r
      BY <1>1, <1>4, <1>5, <2>2
    <3>2. s[d] \in 0 .. MaxStray /\ c[d] \in 0 .. MaxStray
      BY <3>1
    <3>3. QED
      BY <1>3, <1>4, <1>5, <2>2, <3>2
  <2>3. QED
    BY <2>1, <2>2
<1>6. IsRegion(g, r)
  BY <1>3, <1>5 DEF IsRegion
<1>7. ASSUME Len(ext) = r
      PROVE  /\ g.count = ext /\ DOMAIN g.start = Dims(ext)
             /\ \A d \in Dims(ext) : g.start[d] = 0
             /\ Area(g) = Cells(ext)
  <2>1. \A d \in 1 .. r : d <= Len(ext)
    BY <1>4, <1>7
  <2>2. /\ g.count = [d \in 1 .. r |-> ext[d]] /\ DOMAIN g.start = 1 .. r
        /\ \A d \in 1 .. r : g.start[d] = 0
    BY <1>3, <2>1
  <2>3. g.count = ext /\ DOMAIN g.start = Dims(ext) /\ \A d \in Dims(ext) : g.start[d] = 0
    BY <1>1, <1>7, <2>2
  <2>4. ASSUME NEW i \in Cells(ext) PROVE [d \in DOMAIN g.start |-> g.start[d] + i[d]] = i
    <3>1. i \in [Dims(ext) -> Nat]
      BY CellsAre DEF Bounded
    <3>2. QED
      BY <2>3, <3>1
  <2>5. QED
    BY <2>3, <2>4 DEF Area
<1>8. QED
  BY <1>6, <1>7 DEF r

\* What it puts at index i of a region.
ElementOf(g, data, i) ==
  LET at == Offset([d \in DOMAIN i |-> i[d] - g.start[d]], RowMajorStrides(g.count)) + 1
  IN  IF at \in DOMAIN data THEN data[at] ELSE Junk

\* nc_put_vara changes the elements of its region, keeps the others, and extends the
\* unlimited dimensions as far as the region reaches.
LEMMA PutRegion ==
  ASSUME NEW f, IsFile(f), NEW v \in DOMAIN f.vars, NEW g,
         IsRegion(g, Len(f.vars[v].dims)), NEW data
  PROVE  LET h == nc_put_vara(f, v, g, data) IN
         /\ Changes(f, h, v) /\ v \in DOMAIN h.vars
         /\ h.vars[v].dims = f.vars[v].dims /\ h.vars[v].attrs = f.vars[v].attrs
         /\ h.vars[v].filter = f.vars[v].filter
         /\ f.vars[v].committed => h.vars[v].committed
         /\ DOMAIN h.vars[v].cells = Area(g) \cup DOMAIN f.vars[v].cells
         /\ \A i \in Area(g) :
              h.vars[v].cells[i] = ElementOf(g, data, i)
         /\ \A i \in DOMAIN f.vars[v].cells \ Area(g) :
              h.vars[v].cells[i] = f.vars[v].cells[i]
         /\ Area(g) # {} /\ Fits(f, v, g) =>
              \A d \in DOMAIN g.start : f.vars[v].dims[d] \in DOMAIN f.dims =>
                g.start[d] + g.count[d] <= h.dims[f.vars[v].dims[d]].len
<1> DEFINE m == DataMode(f)
           h == nc_put_vara(f, v, g, data)
           r == Len(f.vars[v].dims)
           reach(k) == {f.dims[k].len} \cup
                       {g.start[d] + g.count[d] :
                          d \in {d \in DOMAIN g.start : Area(g) # {} /\ m.vars[v].dims[d] = k}}
           cells == [i \in Area(g) \cup DOMAIN m.vars[v].cells |->
                       IF i \in Area(g) THEN ElementOf(g, data, i) ELSE m.vars[v].cells[i]]
           dims == [k \in DOMAIN m.dims |-> IF m.dims[k].unlimited
                                            THEN [m.dims[k] EXCEPT !.len = Max(reach(k))]
                                            ELSE m.dims[k]]
<1>1. Changes(f, m, v) /\ Keeps(f, m, v) /\ m.dims = f.dims /\ IsFile(m)
  BY DataModeFacts DEF Changes
<1>2. /\ v \in DOMAIN m.vars /\ m.vars[v].dims = f.vars[v].dims
      /\ m.vars[v].attrs = f.vars[v].attrs /\ m.vars[v].filter = f.vars[v].filter
      /\ m.vars[v].cells = f.vars[v].cells /\ (f.vars[v].committed => m.vars[v].committed)
  BY <1>1 DEF Keeps
<1>3. h = [m EXCEPT !.vars[v].cells = cells, !.dims = dims]
  BY DEF nc_put_vara, ElementOf
<1> HIDE DEF m, h, cells, dims
<1>4. /\ DOMAIN h = DOMAIN m /\ h.exists = m.exists /\ h.classic = m.classic
      /\ h.dims = dims /\ h.vars = [m.vars EXCEPT ![v].cells = cells]
  BY <1>1, <1>3 DEF IsFile
<1>5. /\ DOMAIN h.vars = DOMAIN m.vars /\ h.vars[v] = [m.vars[v] EXCEPT !.cells = cells]
      /\ \A w \in DOMAIN m.vars : w # v => h.vars[w] = m.vars[w]
  BY <1>2, <1>4
<1>6. /\ IsVar(h.vars[v]) /\ h.vars[v].dims = f.vars[v].dims
      /\ h.vars[v].attrs = f.vars[v].attrs /\ h.vars[v].filter = f.vars[v].filter
      /\ f.vars[v].committed => h.vars[v].committed
      /\ h.vars[v].cells = cells
  BY <1>1, <1>2, <1>5 DEF IsFile, IsVar
<1>7. /\ DOMAIN cells = Area(g) \cup DOMAIN f.vars[v].cells
      /\ \A i \in Area(g) : cells[i] = ElementOf(g, data, i)
      /\ \A i \in DOMAIN f.vars[v].cells \ Area(g) : cells[i] = f.vars[v].cells[i]
  BY <1>2 DEF cells
<1>8. /\ r \in Nat /\ DOMAIN g.start = 1 .. r
      /\ \A d \in 1 .. r : g.start[d] + g.count[d] \in Nat
  BY DEF IsRegion, IsFile, IsVar
<1> HIDE DEF r
<1>9. PICK b \in Nat : \A d \in 1 .. r : g.start[d] + g.count[d] <= b
  <2> DEFINE sum == [d \in 1 .. r |-> g.start[d] + g.count[d]]
  <2>1. sum \in Seq(Nat) /\ Len(sum) = r
    BY <1>8
  <2>2. \E b \in Nat : \A d \in Dims(sum) : sum[d] <= b
    <3> HIDE DEF sum
    <3>1. QED
      BY <2>1, SeqBound
  <2>3. QED
    BY <2>1, <2>2 DEF Dims
<1>10. ASSUME NEW k \in DOMAIN f.dims
       PROVE  /\ Max(reach(k)) \in Nat /\ f.dims[k].len <= Max(reach(k))
              /\ Area(g) # {} => \A d \in 1 .. r : f.vars[v].dims[d] = k =>
                                   g.start[d] + g.count[d] <= Max(reach(k))
  <2>1. f.dims[k].len \in Nat
    BY DEF IsFile, IsDim
  <2> DEFINE c == IF f.dims[k].len <= b THEN b ELSE f.dims[k].len
             R == reach(k)
  <2>2. c \in Nat /\ f.dims[k].len <= c /\ \A x \in Nat : x <= b => x <= c
    BY <2>1
  <2> HIDE DEF c
  <2>3. R \in SUBSET Nat /\ R # {} /\ \A y \in R : y <= c
    BY <1>8, <1>9, <2>1, <2>2
  <2>4. /\ f.dims[k].len \in R
        /\ Area(g) # {} => \A d \in 1 .. r : f.vars[v].dims[d] = k => g.start[d] + g.count[d] \in R
    BY <1>2, <1>8
  <2> HIDE DEF R
  <2>5. Max(R) \in R /\ \A y \in R : y <= Max(R)
    BY <2>2, <2>3, MaxOfBounded
  <2>6. /\ Max(R) \in Nat /\ f.dims[k].len <= Max(R)
        /\ Area(g) # {} => \A d \in 1 .. r : f.vars[v].dims[d] = k =>
                             g.start[d] + g.count[d] <= Max(R)
    BY <2>3, <2>4, <2>5
  <2>7. QED
    BY <2>6 DEF R
<1> HIDE DEF reach
<1>11. DOMAIN dims = DOMAIN f.dims /\ Len(f.dims) \in Nat /\ DOMAIN f.dims = 1 .. Len(f.dims)
  BY <1>1 DEF dims, IsFile
<1>12. ASSUME NEW k \in DOMAIN f.dims
       PROVE  /\ IsDim(dims[k]) /\ f.dims[k].len <= dims[k].len
              /\ dims[k].unlimited = f.dims[k].unlimited
              /\ dims[k].len = IF f.dims[k].unlimited THEN Max(reach(k)) ELSE f.dims[k].len
  <2>1. IsDim(f.dims[k])
    BY DEF IsFile
  <2>2. dims[k] = IF f.dims[k].unlimited THEN [f.dims[k] EXCEPT !.len = Max(reach(k))]
                  ELSE f.dims[k]
    BY <1>1 DEF dims
  <2>3. QED
    BY <1>10, <2>1, <2>2 DEF IsDim
<1>13. IsFile(h)
  <2>1. DOMAIN h = {"exists", "classic", "define", "dims", "vars"}
    BY <1>1, <1>4 DEF IsFile
  <2>2. dims = [i \in 1 .. Len(f.dims) |-> dims[i]] /\ Len(dims) = Len(f.dims)
    <3>1. dims = [i \in 1 .. Len(f.dims) |-> dims[i]]
      BY <1>1, <1>11 DEF dims
    <3>2. QED
      BY <1>11, <3>1
  <2>3. \A w \in DOMAIN h.vars : IsVar(h.vars[w])
    BY <1>1, <1>5, <1>6 DEF IsFile
  <2>4. QED
    BY <1>4, <1>11, <1>12, <2>1, <2>2, <2>3 DEF IsFile
<1>14. Grows(f, h)
  BY <1>4, <1>11, <1>12 DEF Grows
<1>15. \A w : w # v => Keeps(f, h, w)
  BY <1>1, <1>5 DEF Changes, Keeps
<1>16. Changes(f, h, v)
  BY <1>1, <1>4, <1>13, <1>14, <1>15 DEF Changes
<1>17. ASSUME Area(g) # {}, Fits(f, v, g), NEW d \in 1 .. r, f.vars[v].dims[d] \in DOMAIN f.dims
       PROVE  g.start[d] + g.count[d] <= h.dims[f.vars[v].dims[d]].len
  <2> DEFINE k == f.vars[v].dims[d]
  <2>1. f.dims[k].unlimited \/ g.start[d] + g.count[d] <= f.dims[k].len
    BY <1>8, <1>17 DEF Fits, VarDim
  <2>2. g.start[d] + g.count[d] <= dims[k].len
    BY <1>10, <1>12, <1>17, <2>1
  <2>3. QED
    BY <1>4, <2>2
<1>18. /\ DOMAIN h.vars[v].cells = Area(g) \cup DOMAIN f.vars[v].cells
       /\ \A i \in Area(g) : h.vars[v].cells[i] = ElementOf(g, data, i)
       /\ \A i \in DOMAIN f.vars[v].cells \ Area(g) : h.vars[v].cells[i] = f.vars[v].cells[i]
  BY <1>6, <1>7
<1>19. QED
  BY <1>2, <1>5, <1>6, <1>8, <1>16, <1>17, <1>18 DEF h

\* What a put of a field of shape ext into the variable v makes of file f: of the
\* variable's rank it stores the whole field, of any other it changes nothing but
\* elements of this variable.
PutOf(f, v, ext, data, h) ==
  /\ Changes(f, h, v) /\ v \in DOMAIN h.vars
  /\ h.vars[v].dims = f.vars[v].dims /\ h.vars[v].attrs = f.vars[v].attrs
  /\ h.vars[v].filter = f.vars[v].filter
  /\ f.vars[v].committed => h.vars[v].committed
  /\ DOMAIN f.vars[v].cells \subseteq DOMAIN h.vars[v].cells
  /\ Len(ext) = Len(f.vars[v].dims) =>
       /\ DOMAIN h.vars[v].cells = Cells(ext) \cup DOMAIN f.vars[v].cells
       /\ \A i \in Cells(ext) : h.vars[v].cells[i] = data[Offset(i, RowMajorStrides(ext)) + 1]
       /\ \A i \in DOMAIN f.vars[v].cells \ Cells(ext) :
            h.vars[v].cells[i] = f.vars[v].cells[i]
       /\ \A d \in Dims(ext) : f.vars[v].dims[d] \in DOMAIN f.dims =>
            ext[d] <= h.dims[f.vars[v].dims[d]].len

\* A put that the library accepts does that, whichever region it finds.
LEMMA PutVaraFacts ==
  ASSUME NEW f, IsFile(f), NEW v \in DOMAIN f.vars, NEW ext, Shape(ext),
         NEW g \in Regions(f, v, ext), Fits(f, v, g), NEW data, DOMAIN data = 1 .. Size(ext)
  PROVE  PutOf(f, v, ext, data, nc_put_vara(f, v, g, data))
<1> DEFINE h == nc_put_vara(f, v, g, data)
<1>1. Len(f.vars[v].dims) \in Nat
  BY DEF IsFile, IsVar
<1>2. /\ IsRegion(g, Len(f.vars[v].dims))
      /\ Len(ext) = Len(f.vars[v].dims) =>
           /\ g.count = ext /\ DOMAIN g.start = Dims(ext)
           /\ \A d \in Dims(ext) : g.start[d] = 0
           /\ Area(g) = Cells(ext)
  BY <1>1, RegionFacts
<1>3. /\ Changes(f, h, v) /\ v \in DOMAIN h.vars
      /\ h.vars[v].dims = f.vars[v].dims /\ h.vars[v].attrs = f.vars[v].attrs
      /\ h.vars[v].filter = f.vars[v].filter
      /\ f.vars[v].committed => h.vars[v].committed
      /\ DOMAIN h.vars[v].cells = Area(g) \cup DOMAIN f.vars[v].cells
      /\ \A i \in Area(g) : h.vars[v].cells[i] = ElementOf(g, data, i)
      /\ \A i \in DOMAIN f.vars[v].cells \ Area(g) : h.vars[v].cells[i] = f.vars[v].cells[i]
      /\ Area(g) # {} =>
           \A d \in DOMAIN g.start : f.vars[v].dims[d] \in DOMAIN f.dims =>
             g.start[d] + g.count[d] <= h.dims[f.vars[v].dims[d]].len
  BY <1>2, PutRegion
<1> HIDE DEF h
<1>4. ASSUME Len(ext) = Len(f.vars[v].dims)
      PROVE  /\ DOMAIN h.vars[v].cells = Cells(ext) \cup DOMAIN f.vars[v].cells
             /\ \A i \in Cells(ext) :
                  h.vars[v].cells[i] = data[Offset(i, RowMajorStrides(ext)) + 1]
             /\ \A i \in DOMAIN f.vars[v].cells \ Cells(ext) :
                  h.vars[v].cells[i] = f.vars[v].cells[i]
             /\ \A d \in Dims(ext) : f.vars[v].dims[d] \in DOMAIN f.dims =>
                  ext[d] <= h.dims[f.vars[v].dims[d]].len
  <2>1. /\ g.count = ext /\ DOMAIN g.start = Dims(ext)
        /\ \A d \in Dims(ext) : g.start[d] = 0
        /\ Area(g) = Cells(ext)
    BY <1>2, <1>4
  <2>2. ASSUME NEW i \in Cells(ext)
        PROVE  h.vars[v].cells[i] = data[Offset(i, RowMajorStrides(ext)) + 1]
    <3>1. i \in Bounded(ext) /\ i \in [Dims(ext) -> Nat]
      BY <2>2, CellsAre DEF Bounded
    <3>2. [d \in DOMAIN i |-> i[d] - g.start[d]] = i
      BY <2>1, <3>1
    <3>3. Offset(i, RowMajorStrides(ext)) \in 0 .. Size(ext) - 1 /\ Size(ext) \in Nat
      BY <3>1, IndexAtOfOffset, StridesPositive
    <3>4. Offset(i, RowMajorStrides(ext)) + 1 \in DOMAIN data
      BY <3>3
    <3>5. ElementOf(g, data, i) = data[Offset(i, RowMajorStrides(ext)) + 1]
      BY <2>1, <3>2, <3>4 DEF ElementOf
    <3>6. QED
      BY <1>3, <2>1, <3>5
  <2>3. Cells(ext) # {}
    <3>1. Size(ext) \in Nat \ {0}
      BY StridesPositive
    <3>2. 0 \in 0 .. Size(ext) - 1
      BY <3>1
    <3>3. QED
      BY <3>2 DEF Cells
  <2>4. ASSUME NEW d \in Dims(ext), f.vars[v].dims[d] \in DOMAIN f.dims
        PROVE  ext[d] <= h.dims[f.vars[v].dims[d]].len
    <3>1. g.start[d] + g.count[d] <= h.dims[f.vars[v].dims[d]].len
      BY <1>3, <2>1, <2>3, <2>4
    <3>2. g.start[d] + g.count[d] = ext[d]
      <4>1. ext[d] \in Nat
        BY ShapeFacts
      <4>2. QED
        BY <2>1, <4>1
    <3>3. QED
      BY <3>1, <3>2
  <2>5. QED
    BY <1>3, <2>1, <2>2, <2>4
<1>5. QED
  BY <1>3, <1>4 DEF h, PutOf
=============================================================================
