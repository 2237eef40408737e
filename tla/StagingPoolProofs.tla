------------------------- MODULE StagingPoolProofs --------------------------
(***************************************************************************)
(* Proofs about StagingPool, for every number of threads and buffers and   *)
(* every set of request sizes.  ListFor says what makes a free list right; *)
(* the list a turn of acquire works on, old or grown by one slot, is right *)
(* and stays so when a slot is taken out, and the binary search of release *)
(* puts one back in its place.                                             *)
(***************************************************************************)
EXTENDS StagingPool, FiniteSetTheorems, SequenceTheorems, WellFoundedInduction, TLAPS

Elems(s) == {s[i] : i \in DOMAIN s}
Distinct(s) == \A i, j \in DOMAIN s : s[i] = s[j] => i = j
Sorted(s) == \A i, j \in DOMAIN s : i < j => cap[s[i]] <= cap[s[j]]

\* fl is a right free list for a pool of n slots.
ListFor(fl, n) ==
  /\ fl \in Seq(Slots) /\ n \in BufferCount .. Ceiling
  /\ Elems(fl) = {b \in 1 .. n : ref[b] = 0}
  /\ Distinct(fl) /\ Sorted(fl)
  /\ \A b \in Slots : b > n => cap[b] = 0 /\ ref[b] = 0

\* A thread waits only in a pool that has all the slots it may have.
WaitsWhenFull == (\E t \in Threads : pc[t] # "idle") => size = Ceiling

Inv == TypeOK /\ ListFor(free_list, size) /\ CapacityPromised /\ WaitsWhenFull /\ NoLostWakeup

-----------------------------------------------------------------------------
(* Least elements and sequences.                                           *)

\* A set of natural numbers that is not empty has a least element, which Min gives.
LEMMA MinLeast ==
  ASSUME NEW S \in SUBSET Nat, S # {}
  PROVE  Min(S) \in S /\ \A x \in S : Min(S) <= x
<1> DEFINE R == OpToRel(<, Nat)
<1>1. IsWellFoundedOn(R, Nat)
  BY NatLessThanWellFounded
<1>2. R = {ss \in Nat \X Nat : ss[1] < ss[2]}
  BY Zenon DEF OpToRel
<1> HIDE DEF R
<1>3. \A x, y \in Nat : y < x => <<y, x>> \in R
  BY <1>2
<1>4. PICK x \in S : \A y \in S : ~(<<y, x>> \in R)
  BY <1>1, WFMin
<1>5. ASSUME NEW y \in S PROVE x <= y
  <2>1. ~(y < x)
    BY <1>3, <1>4
  <2>2. QED
    BY <2>1
<1>6. QED
  BY <1>4, <1>5 DEF Min

\* RemoveAt, element by element.
LEMMA RemoveAtShape ==
  ASSUME NEW S, NEW s \in Seq(S), NEW i \in 1 .. Len(s)
  PROVE  /\ RemoveAt(s, i) \in Seq(S)
         /\ Len(RemoveAt(s, i)) = Len(s) - 1
         /\ \A k \in 1 .. Len(s) - 1 : RemoveAt(s, i)[k] = IF k < i THEN s[k] ELSE s[k + 1]
<1> DEFINE a == SubSeq(s, 1, i - 1)
           b == SubSeq(s, i + 1, Len(s))
<1>1. Len(s) \in Nat /\ i \in Nat /\ 1 <= i /\ i <= Len(s)
  OBVIOUS
<1>2. a \in Seq(S) /\ Len(a) = i - 1 /\ \A k \in 1 .. i - 1 : a[k] = s[k]
  BY <1>1
<1>3. b \in Seq(S) /\ Len(b) = Len(s) - i /\ \A k \in 1 .. Len(s) - i : b[k] = s[k + i]
  BY <1>1
<1>4. RemoveAt(s, i) = a \o b
  BY DEF RemoveAt
<1> HIDE DEF a, b
<1>5. /\ a \o b \in Seq(S) /\ Len(a \o b) = Len(a) + Len(b)
      /\ \A k \in 1 .. Len(a) + Len(b) : (a \o b)[k] = IF k <= Len(a) THEN a[k] ELSE b[k - Len(a)]
  BY <1>2, <1>3, ConcatProperties
<1>6. Len(a \o b) = Len(s) - 1
  BY <1>1, <1>2, <1>3, <1>5
<1>7. ASSUME NEW k \in 1 .. Len(s) - 1
      PROVE  (a \o b)[k] = IF k < i THEN s[k] ELSE s[k + 1]
  <2>1. k \in Nat /\ k \in 1 .. Len(a) + Len(b)
    BY <1>1, <1>2, <1>3
  <2>2. CASE k < i
    BY <1>1, <1>2, <1>5, <2>1, <2>2
  <2>3. CASE ~(k < i)
    <3> DEFINE j == k - (i - 1)
    <3>1. j \in 1 .. Len(s) - i /\ j + i = k + 1
      BY <1>1, <2>1, <2>3
    <3>2. (a \o b)[k] = b[j]
      BY <1>1, <1>2, <1>5, <2>1, <2>3
    <3> HIDE DEF j
    <3>3. QED
      BY <1>3, <2>3, <3>1, <3>2
  <2>4. QED
    BY <2>2, <2>3
<1>8. QED
  BY <1>4, <1>5, <1>6, <1>7

\* InsertAt, element by element.
LEMMA InsertAtShape ==
  ASSUME NEW S, NEW s \in Seq(S), NEW i \in 1 .. Len(s) + 1, NEW e \in S
  PROVE  /\ InsertAt(s, i, e) \in Seq(S)
         /\ Len(InsertAt(s, i, e)) = Len(s) + 1
         /\ \A k \in 1 .. Len(s) + 1 :
              InsertAt(s, i, e)[k] = IF k < i THEN s[k] ELSE IF k = i THEN e ELSE s[k - 1]
<1> DEFINE a == SubSeq(s, 1, i - 1)
           m == a \o <<e>>
           b == SubSeq(s, i, Len(s))
<1>1. Len(s) \in Nat /\ i \in Nat /\ 1 <= i /\ i <= Len(s) + 1
  OBVIOUS
<1>2. a \in Seq(S) /\ Len(a) = i - 1 /\ \A k \in 1 .. i - 1 : a[k] = s[k]
  BY <1>1
<1>3. /\ b \in Seq(S) /\ Len(b) = Len(s) - i + 1
      /\ \A k \in 1 .. Len(s) - i + 1 : b[k] = s[k + i - 1]
  BY <1>1
<1>4. InsertAt(s, i, e) = m \o b
  BY DEF InsertAt
<1>5. m \in Seq(S) /\ Len(m) = i /\ (\A k \in 1 .. i - 1 : m[k] = s[k]) /\ m[i] = e
  BY <1>1, <1>2
<1> HIDE DEF a, m, b
<1>6. /\ m \o b \in Seq(S) /\ Len(m \o b) = Len(m) + Len(b)
      /\ \A k \in 1 .. Len(m) + Len(b) : (m \o b)[k] = IF k <= Len(m) THEN m[k] ELSE b[k - Len(m)]
  BY <1>3, <1>5, ConcatProperties
<1>7. Len(m \o b) = Len(s) + 1
  BY <1>1, <1>3, <1>5, <1>6
<1>8. ASSUME NEW k \in 1 .. Len(s) + 1
      PROVE  (m \o b)[k] = IF k < i THEN s[k] ELSE IF k = i THEN e ELSE s[k - 1]
  <2>1. k \in Nat /\ k \in 1 .. Len(m) + Len(b)
    BY <1>1, <1>3, <1>5
  <2>2. CASE k < i
    <3>1. k \in 1 .. i - 1 /\ k <= Len(m)
      BY <1>1, <1>5, <2>1, <2>2
    <3>2. (m \o b)[k] = m[k]
      BY <1>6, <2>1, <3>1
    <3>3. QED
      BY <1>5, <2>2, <3>1, <3>2
  <2>3. CASE k = i
    BY <1>1, <1>5, <1>6, <2>1, <2>3
  <2>4. CASE k > i
    <3> DEFINE j == k - i
    <3>1. j \in 1 .. Len(s) - i + 1 /\ j + i - 1 = k - 1 /\ ~(k < i) /\ k # i
      BY <1>1, <2>1, <2>4
    <3>2. (m \o b)[k] = b[j]
      BY <1>1, <1>5, <1>6, <2>1, <2>4
    <3> HIDE DEF j
    <3>3. QED
      BY <1>3, <3>1, <3>2
  <2>5. k < i \/ k = i \/ k > i
    BY <1>1, <2>1
  <2>6. QED
    BY <2>2, <2>3, <2>4, <2>5
<1>9. QED
  BY <1>4, <1>6, <1>7, <1>8

\* Taking one element out of a list without repetitions.
LEMMA RemoveAtElems ==
  ASSUME NEW S, NEW s \in Seq(S), NEW i \in 1 .. Len(s), Distinct(s)
  PROVE  /\ Elems(RemoveAt(s, i)) = Elems(s) \ {s[i]}
         /\ Distinct(RemoveAt(s, i))
<1> DEFINE f == RemoveAt(s, i)
<1>1. Len(s) \in Nat /\ DOMAIN s = 1 .. Len(s) /\ i \in Nat /\ 1 <= i /\ i <= Len(s)
  OBVIOUS
<1>2. /\ DOMAIN f = 1 .. Len(s) - 1
      /\ \A k \in 1 .. Len(s) - 1 : f[k] = IF k < i THEN s[k] ELSE s[k + 1]
  <2>1. /\ f \in Seq(S) /\ Len(f) = Len(s) - 1
        /\ \A k \in 1 .. Len(s) - 1 : f[k] = IF k < i THEN s[k] ELSE s[k + 1]
    BY RemoveAtShape
  <2> HIDE DEF f
  <2>2. QED
    BY <2>1
<1> HIDE DEF f
<1>3. Elems(f) \subseteq Elems(s) \ {s[i]}
  <2>1. SUFFICES ASSUME NEW k \in 1 .. Len(s) - 1
                 PROVE  f[k] \in Elems(s) \ {s[i]}
    BY <1>2 DEF Elems
  <2>2. CASE k < i
    BY <1>1, <1>2, <2>2 DEF Elems, Distinct
  <2>3. CASE ~(k < i)
    BY <1>1, <1>2, <2>3 DEF Elems, Distinct
  <2>4. QED
    BY <2>2, <2>3
<1>4. Elems(s) \ {s[i]} \subseteq Elems(f)
  <2>1. SUFFICES ASSUME NEW k \in 1 .. Len(s), k # i
                 PROVE  s[k] \in Elems(f)
    BY <1>1 DEF Elems
  <2>2. CASE k < i
    BY <1>1, <1>2, <2>2 DEF Elems
  <2>3. CASE k > i
    <3>1. k - 1 \in 1 .. Len(s) - 1 /\ ~(k - 1 < i) /\ (k - 1) + 1 = k
      BY <1>1, <2>3
    <3>2. f[k - 1] = s[k]
      BY <1>2, <3>1
    <3>3. QED
      BY <1>2, <3>1, <3>2 DEF Elems
  <2>4. QED
    BY <1>1, <2>1, <2>2, <2>3
<1>5. Distinct(f)
  <2>1. SUFFICES ASSUME NEW j \in 1 .. Len(s) - 1, NEW k \in 1 .. Len(s) - 1, f[j] = f[k]
                 PROVE  j = k
    BY <1>2 DEF Distinct
  <2> DEFINE o(n) == IF n < i THEN n ELSE n + 1
  <2>2. o(j) \in 1 .. Len(s) /\ o(k) \in 1 .. Len(s) /\ f[j] = s[o(j)] /\ f[k] = s[o(k)]
    BY <1>1, <1>2
  <2>3. o(j) = o(k)
    BY <1>1, <2>1, <2>2, Zenon DEF Distinct
  <2>4. QED
    BY <1>1, <2>3
<1>6. QED
  BY <1>3, <1>4, <1>5 DEF f

\* Putting a new element into a list without repetitions.
LEMMA InsertAtElems ==
  ASSUME NEW S, NEW s \in Seq(S), NEW i \in 1 .. Len(s) + 1, NEW e \in S,
         Distinct(s), e \notin Elems(s)
  PROVE  /\ Elems(InsertAt(s, i, e)) = Elems(s) \cup {e}
         /\ Distinct(InsertAt(s, i, e))
<1> DEFINE f == InsertAt(s, i, e)
<1>1. Len(s) \in Nat /\ DOMAIN s = 1 .. Len(s) /\ i \in Nat /\ 1 <= i /\ i <= Len(s) + 1
  OBVIOUS
<1>2. /\ DOMAIN f = 1 .. Len(s) + 1
      /\ \A k \in 1 .. Len(s) + 1 : f[k] = IF k < i THEN s[k] ELSE IF k = i THEN e ELSE s[k - 1]
  <2>1. /\ f \in Seq(S) /\ Len(f) = Len(s) + 1
        /\ \A k \in 1 .. Len(s) + 1 : f[k] = IF k < i THEN s[k] ELSE IF k = i THEN e ELSE s[k - 1]
    BY InsertAtShape
  <2> HIDE DEF f
  <2>2. QED
    BY <2>1
<1> HIDE DEF f
<1>3. Elems(f) \subseteq Elems(s) \cup {e}
  <2>1. SUFFICES ASSUME NEW k \in 1 .. Len(s) + 1
                 PROVE  f[k] \in Elems(s) \cup {e}
    BY <1>2 DEF Elems
  <2>2. CASE k <= i
    BY <1>1, <1>2, <2>2 DEF Elems
  <2>3. CASE k > i
    BY <1>1, <1>2, <2>3 DEF Elems
  <2>4. QED
    BY <1>1, <2>2, <2>3
<1>4. Elems(s) \cup {e} \subseteq Elems(f)
  <2>1. e \in Elems(f)
    BY <1>1, <1>2 DEF Elems
  <2>2. ASSUME NEW k \in 1 .. Len(s) PROVE s[k] \in Elems(f)
    <3>1. CASE k < i
      BY <1>1, <1>2, <3>1 DEF Elems
    <3>2. CASE ~(k < i)
      <4>1. k + 1 \in 1 .. Len(s) + 1 /\ ~(k + 1 < i) /\ k + 1 # i /\ (k + 1) - 1 = k
        BY <1>1, <3>2
      <4>2. f[k + 1] = s[k]
        BY <1>2, <4>1
      <4>3. QED
        BY <1>2, <4>1, <4>2 DEF Elems
    <3>3. QED
      BY <3>1, <3>2
  <2>3. QED
    BY <1>1, <2>1, <2>2 DEF Elems
<1>5. Distinct(f)
  <2>1. SUFFICES ASSUME NEW j \in 1 .. Len(s) + 1, NEW k \in 1 .. Len(s) + 1, f[j] = f[k]
                 PROVE  j = k
    BY <1>2 DEF Distinct
  <2> DEFINE o(n) == IF n < i THEN n ELSE n - 1
  <2>2. \A n \in 1 .. Len(s) + 1 : n # i => o(n) \in 1 .. Len(s) /\ f[n] = s[o(n)]
    BY <1>1, <1>2
  <2>3. \A n \in 1 .. Len(s) + 1 : f[n] = e => n = i
    BY <1>1, <2>2, Zenon DEF Elems
  <2>4. f[i] = e
    BY <1>1, <1>2
  <2>5. CASE j = i \/ k = i
    BY <2>1, <2>3, <2>4, <2>5
  <2>6. CASE j # i /\ k # i
    <3>1. o(j) = o(k)
      BY <1>1, <2>1, <2>2, <2>6, Zenon DEF Distinct
    <3>2. QED
      BY <1>1, <2>6, <3>1
  <2>7. QED
    BY <2>5, <2>6
<1>6. QED
  BY <1>3, <1>4, <1>5 DEF f

-----------------------------------------------------------------------------
(* The choice of a slot and the place of a slot.                           *)

\* The ceiling is at least the number of slots at construction.
LEMMA CeilingBounds ==
  /\ Ceiling \in Nat /\ BufferCount \in Nat /\ 0 < BufferCount /\ BufferCount <= Ceiling
  /\ Slots \subseteq Nat
BY PoolAssumption DEF Ceiling, Slots

\* find_best_fit finds a slot of a list that is not empty.
LEMMA FindBestFitInList ==
  ASSUME NEW fl \in Seq(Slots), fl # <<>>, NEW r
  PROVE  FindBestFit(fl, r) \in 1 .. Len(fl)
<1>1. Len(fl) \in Nat /\ Len(fl) > 0 /\ DOMAIN fl = 1 .. Len(fl)
  OBVIOUS
<1>2. CommittedFit(fl, r) \subseteq 1 .. Len(fl) /\ Uncommitted(fl) \subseteq 1 .. Len(fl)
  BY <1>1 DEF CommittedFit, Uncommitted
<1>3. CommittedFit(fl, r) \in SUBSET Nat /\ Uncommitted(fl) \in SUBSET Nat
  BY <1>1, <1>2
<1>4. CommittedFit(fl, r) # {} => Min(CommittedFit(fl, r)) \in 1 .. Len(fl)
  BY <1>2, <1>3, MinLeast
<1>5. Uncommitted(fl) # {} => Min(Uncommitted(fl)) \in 1 .. Len(fl)
  BY <1>2, <1>3, MinLeast
<1>6. Len(fl) \in 1 .. Len(fl)
  BY <1>1
<1>7. QED
  BY <1>4, <1>5, <1>6 DEF FindBestFit

\* ensure_storage leaves room for the request and never less than the nominal size.
LEMMA EnsureStorageFits ==
  ASSUME NEW c \in Nat, NEW r \in Nat
  PROVE  /\ EnsureStorage(c, r) \in Nat
         /\ EnsureStorage(c, r) >= r /\ EnsureStorage(c, r) >= BufferCapacity
BY PoolAssumption DEF EnsureStorage, Target

\* lower_bound on a sorted list: nothing larger before the place, nothing smaller after.
LEMMA LowerBoundPlace ==
  ASSUME TypeOK, Sorted(free_list), NEW b \in Slots
  PROVE  /\ LowerBound(b) \in 1 .. Len(free_list) + 1
         /\ \A k \in 1 .. Len(free_list) :
              k < LowerBound(b) => cap[free_list[k]] <= cap[b]
         /\ \A k \in 1 .. Len(free_list) :
              k >= LowerBound(b) => cap[b] <= cap[free_list[k]]
<1> DEFINE n == Len(free_list)
           P == {i \in 1 .. n + 1 : i \in DOMAIN free_list => cap[free_list[i]] >= cap[b]}
           m == Min(P)
<1>1. n \in Nat /\ DOMAIN free_list = 1 .. n /\ LowerBound(b) = m
  BY DEF LowerBound, TypeOK
<1>2. \A k \in 1 .. n : free_list[k] \in Slots /\ cap[free_list[k]] \in Nat
  BY DEF TypeOK
<1>3. cap[b] \in Nat
  BY DEF TypeOK
<1>4. P \in SUBSET Nat /\ n + 1 \in P
  BY <1>1
<1>5. m \in P /\ \A x \in P : m <= x
  BY <1>4, MinLeast
<1> HIDE DEF m
<1>6. m \in 1 .. n + 1 /\ m \in Nat
  BY <1>1, <1>5
<1>7. ASSUME NEW k \in 1 .. n, k < m PROVE cap[free_list[k]] <= cap[b]
  <2>1. k \notin P
    BY <1>1, <1>5, <1>6, <1>7
  <2>2. ~(cap[free_list[k]] >= cap[b])
    BY <1>1, <2>1
  <2>3. QED
    BY <1>2, <1>3, <2>2
<1>8. ASSUME NEW k \in 1 .. n, k >= m PROVE cap[b] <= cap[free_list[k]]
  <2>1. m \in 1 .. n
    BY <1>1, <1>6, <1>8
  <2>2. cap[b] <= cap[free_list[m]]
    BY <1>1, <1>2, <1>3, <1>5, <2>1
  <2>3. cap[free_list[m]] <= cap[free_list[k]]
    BY <1>1, <1>2, <1>6, <1>8, <2>1 DEF Sorted
  <2>4. QED
    BY <1>2, <1>3, <2>1, <2>2, <2>3
<1>9. QED
  BY <1>1, <1>6, <1>7, <1>8

\* Taking a slot out of a sorted list leaves it sorted, whatever its new capacity.
LEMMA RemoveAtSorted ==
  ASSUME TypeOK, NEW s \in Seq(Slots), NEW i \in 1 .. Len(s), Sorted(s)
  PROVE  Sorted(RemoveAt(s, i))
<1> DEFINE f == RemoveAt(s, i)
           o(n) == IF n < i THEN n ELSE n + 1
<1>1. Len(s) \in Nat /\ DOMAIN s = 1 .. Len(s) /\ i \in Nat
  OBVIOUS
<1>2. DOMAIN f = 1 .. Len(s) - 1 /\ \A k \in 1 .. Len(s) - 1 : f[k] = s[o(k)]
  <2>1. /\ f \in Seq(Slots) /\ Len(f) = Len(s) - 1
        /\ \A k \in 1 .. Len(s) - 1 : f[k] = IF k < i THEN s[k] ELSE s[k + 1]
    BY RemoveAtShape
  <2> HIDE DEF f
  <2>2. QED
    BY <2>1
<1> HIDE DEF f
<1>3. SUFFICES ASSUME NEW j \in 1 .. Len(s) - 1, NEW k \in 1 .. Len(s) - 1, j < k
               PROVE  cap[f[j]] <= cap[f[k]]
  BY <1>2 DEF Sorted, f
<1>4. o(j) \in 1 .. Len(s) /\ o(k) \in 1 .. Len(s) /\ o(j) < o(k)
  BY <1>1, <1>3
<1>5. cap[s[o(j)]] <= cap[s[o(k)]]
  <2> HIDE DEF o
  <2>1. QED
    BY <1>1, <1>4 DEF Sorted
<1>6. QED
  BY <1>2, <1>5

\* Inserting a slot at its lower bound leaves the list sorted.
LEMMA InsertAtSorted ==
  ASSUME TypeOK, Sorted(free_list), NEW b \in Slots
  PROVE  Sorted(InsertAt(free_list, LowerBound(b), b))
<1> DEFINE m == LowerBound(b)
           f == InsertAt(free_list, m, b)
           n == Len(free_list)
           o(k) == IF k < m THEN k ELSE k - 1
<1>1. n \in Nat /\ DOMAIN free_list = 1 .. n /\ m \in 1 .. n + 1 /\ free_list \in Seq(Slots)
  BY LowerBoundPlace DEF TypeOK
<1>2. /\ DOMAIN f = 1 .. n + 1 /\ f[m] = b
      /\ \A k \in 1 .. n + 1 : k # m => f[k] = free_list[o(k)]
  <2>1. /\ f \in Seq(Slots) /\ Len(f) = n + 1
        /\ \A k \in 1 .. n + 1 :
             f[k] = IF k < m THEN free_list[k] ELSE IF k = m THEN b ELSE free_list[k - 1]
    <3> HIDE DEF m
    <3>1. QED
      BY <1>1, InsertAtShape
  <2> HIDE DEF f, m, n
  <2>2. QED
    BY <1>1, <2>1
<1>3. /\ \A k \in 1 .. n : k < m => cap[free_list[k]] <= cap[b]
      /\ \A k \in 1 .. n : k >= m => cap[b] <= cap[free_list[k]]
  BY LowerBoundPlace
<1> HIDE DEF f, m, n
<1>4. SUFFICES ASSUME NEW j \in 1 .. n + 1, NEW k \in 1 .. n + 1, j < k
               PROVE  cap[f[j]] <= cap[f[k]]
  BY <1>2 DEF Sorted, f, m
<1>5. CASE j = m
  <2>1. k # m /\ o(k) \in 1 .. n /\ o(k) >= m
    BY <1>1, <1>4, <1>5
  <2>2. QED
    BY <1>2, <1>3, <1>5, <2>1
<1>6. CASE k = m
  <2>1. j # m /\ o(j) \in 1 .. n /\ o(j) < m
    BY <1>1, <1>4, <1>6
  <2>2. QED
    BY <1>2, <1>3, <1>6, <2>1
<1>7. CASE j # m /\ k # m
  <2>1. o(j) \in 1 .. n /\ o(k) \in 1 .. n /\ o(j) < o(k)
    BY <1>1, <1>4, <1>7
  <2>2. f[j] = free_list[o(j)] /\ f[k] = free_list[o(k)]
    BY <1>2, <1>7
  <2> HIDE DEF o
  <2>3. QED
    BY <1>1, <2>1, <2>2 DEF Sorted
<1>8. QED
  BY <1>5, <1>6, <1>7

-----------------------------------------------------------------------------
(* A turn of acquire that ends the call.                                   *)

\* What such a turn establishes, on a list fl for n slots: Parts hold afterwards,
\* and the list is one slot shorter, or one more allocation has failed.
Parts == TypeOK /\ ListFor(free_list, size) /\ CapacityPromised

TurnDone(t, fl) ==
  /\ pc' = [pc EXCEPT ![t] = "idle"]
  /\ \/ Len(free_list') = Len(fl) - 1 /\ allocFailures' = allocFailures
     \/ Len(free_list') = Len(fl) /\ allocFailures' = allocFailures + 1
  /\ UNCHANGED <<ref, allocFailures>> => FALSE
  /\ \A b \in Slots : ref[b] > 0 => cap'[b] = cap[b]

\* The slot is taken: it leaves the list, large enough and with one reference.
LEMMA TakeDone ==
  ASSUME TypeOK, CapacityPromised, NEW t \in Threads, NEW r \in Nat, NEW fl, NEW n,
         ListFor(fl, n), fl # <<>>, size' = n, Take(t, r, fl)
  PROVE  Parts' /\ TurnDone(t, fl)
<1> DEFINE i == FindBestFit(fl, r)
<1>1. fl \in Seq(Slots) /\ n \in BufferCount .. Ceiling /\ Distinct(fl) /\ Sorted(fl)
  BY DEF ListFor
<1>2. i \in 1 .. Len(fl) /\ Len(fl) \in Nat /\ DOMAIN fl = 1 .. Len(fl)
  BY <1>1, FindBestFitInList
<1>3. PICK b \in Slots : b = fl[i]
  BY <1>1, <1>2
<1>4. /\ cap' = [cap EXCEPT ![b] = EnsureStorage(@, r)]
      /\ ref' = [ref EXCEPT ![b] = 1]
      /\ want' = [want EXCEPT ![b] = r]
      /\ free_list' = RemoveAt(fl, i)
      /\ pc' = [pc EXCEPT ![t] = "idle"]
      /\ req' = [req EXCEPT ![t] = 0]
      /\ expired' = [expired EXCEPT ![t] = FALSE]
      /\ allocFailures' = allocFailures
  BY <1>3 DEF Take, Return
<1>5. b \in Elems(fl)
  BY <1>2, <1>3 DEF Elems
<1>6. b \in 1 .. n /\ ref[b] = 0
  BY <1>5 DEF ListFor
<1>7. /\ EnsureStorage(cap[b], r) \in Nat
      /\ EnsureStorage(cap[b], r) >= r /\ EnsureStorage(cap[b], r) >= BufferCapacity
  BY EnsureStorageFits DEF TypeOK
<1> HIDE DEF i
<1>8. /\ free_list' \in Seq(Slots) /\ Len(free_list') = Len(fl) - 1
      /\ Elems(free_list') = Elems(fl) \ {b}
      /\ Distinct(free_list') /\ Sorted(free_list')
  <2> DEFINE f == RemoveAt(fl, i)
  <2>1. /\ f \in Seq(Slots) /\ Len(f) = Len(fl) - 1
        /\ Elems(f) = Elems(fl) \ {fl[i]} /\ Distinct(f) /\ Sorted(f)
    BY <1>1, <1>2, RemoveAtShape, RemoveAtElems, RemoveAtSorted
  <2> HIDE DEF f
  <2>2. f = free_list'
    BY <1>4 DEF f
  <2>3. QED
    BY <1>3, <2>1, <2>2
<1>9. TypeOK'
  BY <1>1, <1>4, <1>7, <1>8 DEF TypeOK
<1>10. ListFor(free_list, size)'
  <2>1. n \in Nat /\ n <= Ceiling /\ 1 .. n \subseteq Slots
    BY <1>1, CeilingBounds DEF Slots
  <2>2. \A c \in Slots : (ref'[c] = 0 <=> ref[c] = 0 /\ c # b) /\ (c # b => cap'[c] = cap[c])
    BY <1>4, <1>6 DEF TypeOK
  <2>3. Elems(free_list') = {c \in 1 .. n : ref'[c] = 0}
    BY <1>8, <2>1, <2>2 DEF ListFor
  <2>4. Sorted(free_list)'
    <3> DEFINE f == free_list'
    <3>1. f \in Seq(Slots) /\ Sorted(f) /\ \A j \in DOMAIN f : f[j] \in Slots /\ f[j] # b
      BY <1>8 DEF Elems
    <3> HIDE DEF f
    <3>2. \A j, k \in DOMAIN f : j < k => cap'[f[j]] <= cap'[f[k]]
      BY <2>2, <3>1 DEF Sorted
    <3>3. QED
      BY <3>2 DEF Sorted, f
  <2>5. \A c \in Slots : c > n => cap'[c] = 0 /\ ref'[c] = 0
    BY <1>6, <2>1, <2>2 DEF ListFor
  <2>6. QED
    BY <1>1, <1>8, <2>3, <2>4, <2>5 DEF ListFor, Elems, Distinct
<1>11. CapacityPromised'
  BY <1>4, <1>7 DEF CapacityPromised, TypeOK
<1>12. TurnDone(t, fl)
  BY <1>4, <1>6, <1>8 DEF TurnDone, TypeOK
<1>13. QED
  BY <1>9, <1>10, <1>11, <1>12 DEF Parts

\* The allocation throws: the slot stays on the list as it was.
LEMMA ThrowsDone ==
  ASSUME TypeOK, CapacityPromised, NEW t \in Threads, NEW r \in Nat, NEW fl, NEW n,
         ListFor(fl, n), size' = n, AllocationThrows(t, r, fl)
  PROVE  Parts' /\ TurnDone(t, fl)
<1>1. /\ allocFailures < MaxAllocFailures
      /\ allocFailures' = allocFailures + 1 /\ free_list' = fl
      /\ pc' = [pc EXCEPT ![t] = "idle"]
      /\ req' = [req EXCEPT ![t] = 0]
      /\ expired' = [expired EXCEPT ![t] = FALSE]
      /\ UNCHANGED <<cap, ref, want>>
  BY DEF AllocationThrows, Return
<1>2. ListFor(free_list, size)'
  BY <1>1 DEF ListFor, Elems, Distinct, Sorted
<1>3. TypeOK'
  BY <1>1, PoolAssumption DEF TypeOK, ListFor
<1>4. CapacityPromised'
  BY <1>1 DEF CapacityPromised
<1>5. TurnDone(t, fl)
  BY <1>1 DEF TurnDone, TypeOK
<1>6. QED
  BY <1>2, <1>3, <1>4, <1>5 DEF Parts

\* A fresh slot makes a right list of one for a pool with one slot more.
LEMMA GrownList ==
  ASSUME TypeOK, ListFor(free_list, size), free_list = <<>>, size < Ceiling
  PROVE  ListFor(<<size + 1>>, size + 1)
<1> DEFINE n == size + 1
<1>0. size \in Nat /\ BufferCount <= size
  BY CeilingBounds DEF TypeOK
<1>1. n \in BufferCount .. Ceiling /\ n \in Slots /\ 1 .. n = (1 .. size) \cup {n}
  BY <1>0, CeilingBounds DEF Slots
<1>2. Elems(free_list) = {}
  BY DEF Elems
<1>3. Elems(<<n>>) = {n} /\ Distinct(<<n>>) /\ Sorted(<<n>>) /\ <<n>> \in Seq(Slots)
  BY <1>1 DEF Elems, Distinct, Sorted
<1>4. ref[n] = 0 /\ \A b \in 1 .. size : ref[b] # 0
  BY <1>1, <1>2 DEF ListFor
<1>5. \A b \in Slots : b > n => cap[b] = 0 /\ ref[b] = 0
  BY <1>1, CeilingBounds DEF ListFor, Slots
<1>6. QED
  BY <1>1, <1>3, <1>4, <1>5 DEF ListFor

-----------------------------------------------------------------------------
(* The invariant is inductive.                                             *)

\* The woken threads can be counted.
LEMMA NotifiedFinite == IsFiniteSet(Notified) /\ Cardinality(Notified) \in Nat
<1>1. Notified \in SUBSET Threads
  BY DEF Notified
<1>2. QED
  BY <1>1, PoolAssumption, FS_Subset, FS_CardinalityType

\* A call that ends accounts for its wake-up: it takes a slot off the list or counts
\* as a failed allocation.
LEMMA WakeAfterTurn ==
  ASSUME TypeOK, NoLostWakeup, NEW t \in Threads, TurnDone(t, free_list)
  PROVE  NoLostWakeup'
<1>1. pc' = [pc EXCEPT ![t] = "idle"]
  BY DEF TurnDone
<1>2. Waiting' \subseteq Waiting /\ Notified' = Notified \ {t}
  BY <1>1 DEF Waiting, Notified, TypeOK
<1>3. /\ Cardinality(Notified') \in Nat /\ Cardinality(Notified) \in Nat
      /\ Cardinality(Notified') >= Cardinality(Notified) - 1
  <2>1. IsFiniteSet(Notified \ {t}) /\ Cardinality(Notified \ {t}) =
          IF t \in Notified THEN Cardinality(Notified) - 1 ELSE Cardinality(Notified)
    BY NotifiedFinite, FS_RemoveElement
  <2>2. Cardinality(Notified \ {t}) \in Nat
    BY <2>1, FS_CardinalityType
  <2>3. QED
    BY <1>2, <2>1, <2>2, NotifiedFinite
<1>4. Len(free_list) \in Nat /\ allocFailures \in Nat
  BY PoolAssumption DEF TypeOK
<1>5. CASE Len(free_list') = Len(free_list) - 1 /\ allocFailures' = allocFailures
  BY <1>2, <1>3, <1>4, <1>5 DEF NoLostWakeup
<1>6. CASE Len(free_list') = Len(free_list) /\ allocFailures' = allocFailures + 1
  BY <1>2, <1>3, <1>4, <1>6 DEF NoLostWakeup
<1>7. QED
  BY <1>5, <1>6 DEF TurnDone

\* A turn on the free list as it is.
LEMMA TurnOnList ==
  ASSUME Inv, NEW t \in Threads, NEW r \in Nat, free_list # <<>>, size' = size,
         Take(t, r, free_list) \/ AllocationThrows(t, r, free_list)
  PROVE  Inv' /\ TurnDone(t, free_list)
<1>1. PICK fl, n : fl = free_list /\ n = size
  OBVIOUS
<1>2. TypeOK /\ CapacityPromised /\ ListFor(fl, n) /\ fl # <<>> /\ size' = n
  BY <1>1 DEF Inv
<1>3. Take(t, r, fl) \/ AllocationThrows(t, r, fl)
  BY <1>1
<1>4. Parts' /\ TurnDone(t, fl)
  BY <1>2, <1>3, TakeDone, ThrowsDone
<1>5. TurnDone(t, free_list)
  BY <1>1, <1>4
<1>6. NoLostWakeup'
  BY <1>2, <1>5, WakeAfterTurn DEF Inv
<1>7. WaitsWhenFull'
  BY <1>2, <1>4 DEF Inv, WaitsWhenFull, TurnDone, TypeOK
<1>8. QED
  BY <1>4, <1>5, <1>6, <1>7 DEF Inv, Parts

\* A turn that appends a slot and takes it.
LEMMA TurnOnGrown ==
  ASSUME Inv, NEW t \in Threads, NEW r \in Nat, free_list = <<>>, CanGrow, size' = size + 1,
         Take(t, r, <<size + 1>>) \/ AllocationThrows(t, r, <<size + 1>>)
  PROVE  Inv' /\ TurnDone(t, <<size + 1>>)
<1>1. PICK fl, n : fl = <<size + 1>> /\ n = size + 1
  OBVIOUS
<1>2. TypeOK /\ CapacityPromised /\ ListFor(fl, n) /\ fl # <<>> /\ size' = n
  BY <1>1, GrownList DEF Inv, CanGrow
<1>3. Take(t, r, fl) \/ AllocationThrows(t, r, fl)
  BY <1>1
<1>4. Parts' /\ TurnDone(t, fl)
  BY <1>2, <1>3, TakeDone, ThrowsDone
<1>5. TurnDone(t, <<size + 1>>) /\ Len(fl) = 1
  BY <1>1, <1>4
<1>6. \A u \in Threads : pc'[u] = "idle"
  BY <1>2, <1>4, CeilingBounds DEF Inv, CanGrow, WaitsWhenFull, TurnDone, TypeOK
<1>7. WaitsWhenFull' /\ NoLostWakeup'
  BY <1>6 DEF WaitsWhenFull, NoLostWakeup, Waiting
<1>8. QED
  BY <1>4, <1>5, <1>7 DEF Inv, Parts

\* A turn that ends the call, on either list.
LEMMA FinishTurnKeeps ==
  ASSUME Inv, NEW t \in Threads, NEW r \in Nat, FinishTurn(t, r)
  PROVE  Inv' /\ (TurnDone(t, free_list) \/ TurnDone(t, <<size + 1>>))
BY TurnOnList, TurnOnGrown DEF FinishTurn

\* A thread blocks beside an empty list in a pool that cannot grow.
LEMMA BlockKeeps ==
  ASSUME Inv, NEW t \in Threads, NEW r \in Nat, Block(t, r)
  PROVE  Inv'
<1>1. /\ pc' = [pc EXCEPT ![t] = "waiting"] /\ req' = [req EXCEPT ![t] = r]
      /\ UNCHANGED <<cap, ref, size, free_list, expired, want, allocFailures>>
      /\ free_list = <<>> /\ ~CanGrow
  BY DEF Block
<1>2. TypeOK'
  BY <1>1 DEF Inv, TypeOK
<1>3. ListFor(free_list, size)' /\ CapacityPromised'
  BY <1>1 DEF Inv, ListFor, Elems, Distinct, Sorted, CapacityPromised
<1>4. WaitsWhenFull'
  <2>1. size = Ceiling
    BY <1>1, PoolAssumption DEF Inv, TypeOK, CanGrow, Ceiling
  <2>2. QED
    BY <1>1, <2>1 DEF WaitsWhenFull
<1>5. NoLostWakeup'
  <2>1. Notified' \in SUBSET Threads
    BY DEF Notified
  <2>2. Cardinality(Notified') \in Nat
    BY <2>1, PoolAssumption, FS_Subset, FS_CardinalityType
  <2>3. Len(free_list') = 0 /\ allocFailures' \in Nat
    BY <1>1, PoolAssumption DEF Inv, TypeOK
  <2>4. QED
    BY <2>2, <2>3 DEF NoLostWakeup
<1>6. QED
  BY <1>2, <1>3, <1>4, <1>5 DEF Inv

\* The last look after a timeout.
LEMMA FinalCheckKeeps ==
  ASSUME Inv, NEW t \in Threads, FinalCheck(t)
  PROVE  /\ Inv'
         /\ \/ TurnDone(t, free_list)
            \/ free_list = <<>> /\ UNCHANGED <<cap, ref>>
<1>1. req[t] \in Nat
  BY DEF Inv, TypeOK
<1>2. CASE free_list # <<>>
  BY <1>1, <1>2, TurnOnList DEF FinalCheck
<1>3. CASE free_list = <<>>
  <2>1. /\ Return(t) /\ UNCHANGED <<cap, ref, free_list, want, allocFailures, size>>
    BY <1>3 DEF FinalCheck
  <2>2. TypeOK' /\ WaitsWhenFull'
    BY <2>1 DEF Inv, TypeOK, WaitsWhenFull, Return
  <2>3. ListFor(free_list, size)' /\ CapacityPromised'
    BY <2>1 DEF Inv, ListFor, Elems, Distinct, Sorted, CapacityPromised
  <2>4. NoLostWakeup'
    <3>1. Notified' \in SUBSET Threads
      BY DEF Notified
    <3>2. Cardinality(Notified') \in Nat
      BY <3>1, PoolAssumption, FS_Subset, FS_CardinalityType
    <3>3. Len(free_list') = 0 /\ allocFailures' \in Nat
      BY <1>3, <2>1, PoolAssumption DEF Inv, TypeOK
    <3>4. QED
      BY <3>2, <3>3 DEF NoLostWakeup
  <2>5. QED
    BY <1>3, <2>1, <2>2, <2>3, <2>4 DEF Inv
<1>4. QED
  BY <1>2, <1>3

\* The clock and spurious wake-ups touch the waiting threads only.
LEMMA WakeupsKeep ==
  ASSUME Inv, NEW t \in Threads, DeadlinePasses(t) \/ SpuriousWakeup(t)
  PROVE  Inv'
<1>1. UNCHANGED <<cap, ref, size, free_list, req, want, allocFailures>>
  BY DEF DeadlinePasses, SpuriousWakeup
<1>2. TypeOK' /\ WaitsWhenFull'
  BY DEF Inv, TypeOK, WaitsWhenFull, DeadlinePasses, SpuriousWakeup
<1>3. ListFor(free_list, size)' /\ CapacityPromised'
  BY <1>1 DEF Inv, ListFor, Elems, Distinct, Sorted, CapacityPromised
<1>4. Waiting' \subseteq Waiting /\ Notified \subseteq Notified' /\ Notified' \in SUBSET Threads
  BY DEF Inv, TypeOK, Waiting, Notified, DeadlinePasses, SpuriousWakeup
<1>5. /\ Cardinality(Notified) <= Cardinality(Notified')
      /\ Cardinality(Notified) \in Nat /\ Cardinality(Notified') \in Nat
  BY <1>4, NotifiedFinite, PoolAssumption, FS_Subset, FS_CardinalityType
<1>6. Len(free_list) \in Nat /\ allocFailures \in Nat
  BY PoolAssumption DEF Inv, TypeOK
<1>7. NoLostWakeup'
  BY <1>1, <1>4, <1>5, <1>6 DEF Inv, NoLostWakeup
<1>8. QED
  BY <1>2, <1>3, <1>7 DEF Inv

\* notify_one wakes a waiting thread if there is one.
LEMMA NotifyWakes ==
  ASSUME TypeOK, NotifyOne
  PROVE  /\ pc' \in [Threads -> {"idle", "waiting", "notified"}]
         /\ (\E t \in Threads : pc'[t] # "idle") => \E t \in Threads : pc[t] # "idle"
         /\ \/ Waiting' = {}
            \/ /\ Waiting # {}
               /\ Cardinality(Notified') = Cardinality(Notified) + 1
<1>1. CASE Waiting = {} /\ UNCHANGED pc
  BY <1>1 DEF TypeOK, Waiting
<1>2. ASSUME NEW t \in Waiting, pc' = [pc EXCEPT ![t] = "notified"]
      PROVE  /\ pc' \in [Threads -> {"idle", "waiting", "notified"}]
             /\ (\E u \in Threads : pc'[u] # "idle") => \E u \in Threads : pc[u] # "idle"
             /\ Cardinality(Notified') = Cardinality(Notified) + 1
  <2>1. t \in Threads /\ pc[t] = "waiting"
    BY <1>2 DEF Waiting
  <2>2. Notified' = Notified \cup {t} /\ t \notin Notified
    BY <1>2, <2>1 DEF Notified, TypeOK
  <2>3. Cardinality(Notified') = Cardinality(Notified) + 1
    BY <2>2, NotifiedFinite, FS_AddElement
  <2>4. QED
    BY <1>2, <2>1, <2>3 DEF TypeOK
<1>3. QED
  BY <1>1, <1>2 DEF NotifyOne

\* release of the last reference puts the slot back in its place and wakes a thread.
LEMMA LastReleaseKeeps ==
  ASSUME Inv, NEW b \in Slots, Release(b), ref[b] = 1
  PROVE  Inv'
<1> USE DEF Inv
<1>1. /\ ref' = [ref EXCEPT ![b] = 0]
      /\ free_list' = InsertAt(free_list, LowerBound(b), b)
      /\ want' = [want EXCEPT ![b] = 0]
      /\ NotifyOne
      /\ UNCHANGED <<cap, size, req, expired, allocFailures>>
  BY DEF Release, LastReference, TypeOK
<1>2. free_list \in Seq(Slots) /\ Distinct(free_list) /\ Sorted(free_list)
  BY DEF ListFor
<1>3. size \in Nat /\ size <= Ceiling /\ 1 .. size \subseteq Slots /\ b \in 1 .. size
  BY CeilingBounds DEF TypeOK, Slots, ListFor
<1>4. b \notin Elems(free_list)
  BY DEF ListFor
<1>5. /\ free_list' \in Seq(Slots) /\ Len(free_list') = Len(free_list) + 1
      /\ Elems(free_list') = Elems(free_list) \cup {b}
      /\ Distinct(free_list') /\ Sorted(free_list')
  <2> DEFINE m == LowerBound(b)
             f == InsertAt(free_list, m, b)
  <2>1. m \in 1 .. Len(free_list) + 1
    BY <1>2, LowerBoundPlace
  <2>2. Sorted(f)
    BY <1>2, InsertAtSorted
  <2>3. f = free_list'
    BY <1>1
  <2> HIDE DEF m
  <2>4. /\ f \in Seq(Slots) /\ Len(f) = Len(free_list) + 1
        /\ Elems(f) = Elems(free_list) \cup {b} /\ Distinct(f)
    BY <1>2, <1>4, <2>1, InsertAtShape, InsertAtElems
  <2> HIDE DEF f
  <2>5. QED
    BY <2>2, <2>3, <2>4
<1>6. \A c \in Slots : ref'[c] = 0 <=> ref[c] = 0 \/ c = b
  BY <1>1 DEF TypeOK
<1>7. TypeOK'
  BY <1>1, <1>5, NotifyWakes DEF TypeOK
<1>8. ListFor(free_list, size)'
  <2>1. Elems(free_list') = {c \in 1 .. size : ref'[c] = 0}
    BY <1>3, <1>5, <1>6 DEF ListFor
  <2>2. Sorted(free_list)'
    BY <1>1, <1>5 DEF Sorted
  <2>3. \A c \in Slots : c > size => cap'[c] = 0 /\ ref'[c] = 0
    BY <1>1, <1>6 DEF ListFor
  <2>4. QED
    BY <1>1, <1>5, <2>1, <2>2, <2>3 DEF ListFor, Elems, Distinct
<1>9. CapacityPromised'
  BY <1>1 DEF CapacityPromised, TypeOK
<1>10. WaitsWhenFull'
  BY <1>1, NotifyWakes DEF WaitsWhenFull
<1>11. NoLostWakeup'
  <2>1. Len(free_list) \in Nat /\ allocFailures \in Nat /\ Cardinality(Notified) \in Nat
    BY PoolAssumption, NotifiedFinite DEF TypeOK
  <2>2. CASE Waiting' = {}
    BY <2>2 DEF NoLostWakeup
  <2>3. CASE Waiting # {} /\ Cardinality(Notified') = Cardinality(Notified) + 1
    BY <1>1, <1>5, <2>1, <2>3 DEF NoLostWakeup
  <2>4. QED
    BY <1>1, <2>2, <2>3, NotifyWakes
<1>12. QED
  BY <1>7, <1>8, <1>9, <1>10, <1>11

\* One reference more, or one less of several, changes no list.
LEMMA SharedRefKeeps ==
  ASSUME Inv, NEW b \in Slots, AddRef(b) \/ (Release(b) /\ ref[b] # 1)
  PROVE  Inv'
<1>1. /\ UNCHANGED <<cap, size, free_list, pc, req, expired, want, allocFailures>>
      /\ ref' \in [Slots -> Nat]
      /\ \A c \in Slots : ref'[c] = 0 <=> ref[c] = 0
  <2>1. CASE AddRef(b)
    BY <2>1 DEF Inv, TypeOK, AddRef, Referenced
  <2>2. CASE Release(b) /\ ref[b] # 1
    BY <2>2 DEF Inv, TypeOK, Release, Referenced, LastReference
  <2>3. QED
    BY <2>1, <2>2
<1>2. TypeOK'
  BY <1>1 DEF Inv, TypeOK
<1>3. ListFor(free_list, size)'
  <2>1. 1 .. size \subseteq Slots
    BY CeilingBounds DEF Inv, TypeOK, Slots
  <2>2. {c \in 1 .. size : ref'[c] = 0} = {c \in 1 .. size : ref[c] = 0}
    BY <1>1, <2>1
  <2>3. QED
    BY <1>1, <2>2 DEF Inv, ListFor, Elems, Distinct, Sorted
<1>4. CapacityPromised'
  BY <1>1 DEF Inv, CapacityPromised, TypeOK
<1>5. WaitsWhenFull' /\ NoLostWakeup'
  BY <1>1 DEF Inv, WaitsWhenFull, NoLostWakeup, Waiting, Notified
<1>6. QED
  BY <1>2, <1>3, <1>4, <1>5 DEF Inv

\* The pool as constructed satisfies the invariant.
LEMMA InitInv == Init => Inv
<1>1. SUFFICES ASSUME Init PROVE Inv
  OBVIOUS
<1>2. /\ BufferCount \in Nat /\ Ceiling \in Nat /\ BufferCount <= Ceiling
      /\ 1 .. BufferCount \subseteq Slots
  BY CeilingBounds DEF Slots
<1>3. /\ free_list = [k \in 1 .. BufferCount |-> k] /\ size = BufferCount
      /\ cap = [b \in Slots |-> 0] /\ ref = [b \in Slots |-> 0]
  BY <1>1 DEF Init
<1>4. free_list \in Seq(Slots) /\ DOMAIN free_list = 1 .. BufferCount
  BY <1>2, <1>3
<1>5. TypeOK
  <2>1. size \in BufferCount .. Ceiling /\ allocFailures \in 0 .. MaxAllocFailures
    BY <1>1, <1>2, <1>3, PoolAssumption DEF Init
  <2>2. QED
    BY <1>1, <1>4, <2>1 DEF Init, TypeOK
<1>6. ListFor(free_list, size)
  BY <1>2, <1>3, <1>4 DEF ListFor, Elems, Distinct, Sorted
<1>7. CapacityPromised /\ WaitsWhenFull /\ NoLostWakeup
  BY <1>1 DEF Init, CapacityPromised, WaitsWhenFull, NoLostWakeup, Waiting
<1>8. QED
  BY <1>5, <1>6, <1>7 DEF Inv

\* What a step may do to the slots and to a call: it keeps the storage of a slot that
\* is referenced, and a call that ends took a slot, failed to allocate, or found the
\* list empty.
StepKeeps ==
  /\ \A b \in Slots : ref[b] > 0 => cap'[b] = cap[b]
  /\ \A t \in Threads :
       pc[t] # "idle" /\ pc'[t] = "idle" /\ UNCHANGED <<ref, allocFailures>> => free_list = <<>>

\* Every step keeps the invariant, the storage in use and the reason for a null.
LEMMA NextKeeps ==
  ASSUME Inv, Next
  PROVE  Inv' /\ StepKeeps
<1>1. TypeOK
  BY DEF Inv
<1>2. ASSUME NEW t \in Threads, NEW fl, TurnDone(t, fl) PROVE StepKeeps
  BY <1>1, <1>2 DEF TurnDone, StepKeeps, TypeOK
<1>3. ASSUME NEW t \in Threads, TurnDone(t, free_list) \/ TurnDone(t, <<size + 1>>)
      PROVE  StepKeeps
  <2>1. PICK fl : TurnDone(t, fl)
    BY <1>3
  <2>2. QED
    BY <1>2, <2>1
<1>4. ASSUME NEW t \in Threads, NEW r \in Nat, FinishTurn(t, r) \/ Block(t, r)
      PROVE  Inv' /\ StepKeeps
  <2>1. CASE FinishTurn(t, r)
    BY <1>3, <2>1, FinishTurnKeeps
  <2>2. CASE Block(t, r)
    BY <1>1, <2>2, BlockKeeps DEF Block, StepKeeps, TypeOK
  <2>3. QED
    BY <1>4, <2>1, <2>2
<1>5. ASSUME NEW t \in Threads, NEW r \in Requests, Acquire(t, r) PROVE Inv' /\ StepKeeps
  BY <1>4, <1>5, PoolAssumption DEF Acquire
<1>6. ASSUME NEW t \in Threads, Retry(t) PROVE Inv' /\ StepKeeps
  BY <1>1, <1>4, <1>6 DEF Retry, TypeOK
<1>7. ASSUME NEW t \in Threads, FinalCheck(t) PROVE Inv' /\ StepKeeps
  <2>1. CASE TurnDone(t, free_list)
    BY <1>3, <1>7, <2>1, FinalCheckKeeps
  <2>2. CASE free_list = <<>> /\ UNCHANGED <<cap, ref>>
    BY <1>7, <2>2, FinalCheckKeeps DEF StepKeeps
  <2>3. QED
    BY <1>7, <2>1, <2>2, FinalCheckKeeps
<1>8. ASSUME NEW t \in Threads, DeadlinePasses(t) \/ SpuriousWakeup(t)
      PROVE  Inv' /\ StepKeeps
  BY <1>1, <1>8, WakeupsKeep DEF DeadlinePasses, SpuriousWakeup, StepKeeps, TypeOK
<1>9. ASSUME NEW b \in Slots, Release(b) \/ AddRef(b) PROVE Inv' /\ StepKeeps
  <2>1. Inv'
    BY <1>9, LastReleaseKeeps, SharedRefKeeps
  <2>2. cap' = cap /\ \A t \in Threads : pc[t] # "idle" => pc'[t] # "idle"
    BY <1>1, <1>9 DEF Release, AddRef, NotifyOne, Waiting, TypeOK
  <2>3. QED
    BY <2>1, <2>2 DEF StepKeeps
<1>10. QED
  BY <1>5, <1>6, <1>7, <1>8, <1>9 DEF Next

\* A stuttering step keeps the invariant.
LEMMA StutterKeeps ==
  ASSUME Inv, UNCHANGED vars
  PROVE  Inv'
BY DEF vars, Inv, TypeOK, ListFor, Elems, Distinct, Sorted, CapacityPromised, WaitsWhenFull,
       NoLostWakeup, Waiting, Notified

-----------------------------------------------------------------------------
(* The theorems.                                                           *)

\* The inductive invariant of the staging pool.
THEOREM StagingInvariant == Spec => []Inv
<1>1. Inv /\ [Next]_vars => Inv'
  BY NextKeeps, StutterKeeps
<1>2. QED
  BY <1>1, InitInv, PTL DEF Spec

\* Every variable keeps its type; the pool never outgrows its ceiling.
THEOREM StagingTypeCorrect == Spec => []TypeOK
<1>1. Inv => TypeOK
  BY DEF Inv
<1>2. QED
  BY <1>1, StagingInvariant, PTL

\* A slot is on the free list exactly when nobody references it, and once: no order of
\* acquire, add_ref and release loses a buffer or hands one out twice.
THEOREM SlotsConserved == Spec => []FreeIffUnreferenced
<1>1. Inv => FreeIffUnreferenced
  BY DEF Inv, ListFor, Elems, Distinct, FreeIffUnreferenced, FreeSet
<1>2. QED
  BY <1>1, StagingInvariant, PTL

\* The free list stays sorted by capacity, so the binary search of release is valid.
THEOREM FreeListStaysSorted == Spec => []FreeListSorted
<1>1. Inv => FreeListSorted
  BY DEF Inv, ListFor, Sorted, FreeListSorted
<1>2. QED
  BY <1>1, StagingInvariant, PTL

\* Whoever holds a buffer has the bytes it asked for.
THEOREM HoldersHaveRoom == Spec => []CapacityPromised
<1>1. Inv => CapacityPromised
  BY DEF Inv
<1>2. QED
  BY <1>1, StagingInvariant, PTL

\* notify_one under the lock loses no wake-up: while a thread waits, each free buffer
\* has a woken thread on its way, or a failed allocation to blame.
THEOREM WakeupsNotLost == Spec => []NoLostWakeup
<1>1. Inv => NoLostWakeup
  BY DEF Inv
<1>2. QED
  BY <1>1, StagingInvariant, PTL

\* The storage under a reference is never replaced.
THEOREM StorageUnderReference == Spec => StorageStable
<1>1. Inv /\ [Next]_vars => [\A b \in Slots : ref[b] > 0 => cap'[b] = cap[b]]_vars
  BY NextKeeps DEF StepKeeps
<1>2. QED
  BY <1>1, StagingInvariant, PTL DEF Spec, StorageStable

\* acquire gives up with null only while every slot up to the ceiling is referenced,
\* although the last look does not try to grow the pool.
THEOREM NullMeansSaturated == Spec => NullOnlyWhenSaturated
<1>1. ASSUME Inv, Next, NEW t \in Threads, pc[t] # "idle", pc'[t] = "idle",
             UNCHANGED <<ref, allocFailures>>
      PROVE  \A b \in Slots : ref[b] > 0
  <2>1. free_list = <<>>
    BY <1>1, NextKeeps DEF StepKeeps
  <2>2. size = Ceiling /\ ref \in [Slots -> Nat]
    BY <1>1 DEF Inv, WaitsWhenFull, TypeOK
  <2>3. Elems(free_list) = {}
    BY <2>1 DEF Elems
  <2>4. \A b \in 1 .. size : ref[b] # 0
    BY <1>1, <2>3 DEF Inv, ListFor
  <2>5. QED
    BY <2>2, <2>4 DEF Slots
<1>2. Inv /\ [Next]_vars =>
        [\A t \in Threads :
           pc[t] # "idle" /\ pc'[t] = "idle" /\ UNCHANGED <<ref, allocFailures>>
             => \A b \in Slots : ref[b] > 0]_vars
  BY <1>1
<1>3. QED
  BY <1>2, StagingInvariant, PTL DEF Spec, NullOnlyWhenSaturated

=============================================================================
