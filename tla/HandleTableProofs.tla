------------------------- MODULE HandleTableProofs --------------------------
(***************************************************************************)
(* Proofs about HandleTable, for every number of slots and every width of  *)
(* the generation field.  SlotInv ties the outstanding handles to the live *)
(* slots, one to one; StaleInv says how far the generation of a slot has   *)
(* moved on from that of a token released, and is what makes a stale token *)
(* fail the test of lookup whatever its slot was used for since.           *)
(***************************************************************************)
EXTENDS HandleTable, FiniteSetTheorems, TLAPS

\* A minted handle is its slot: generation, kind and object are the slot's.
HandlesOfSlots ==
  \A h \in handles :
    LET s == UnpackSlot(h.token) IN
    /\ s \in SlotIndex /\ s < count /\ live[s]
    /\ generation[s] = UnpackGeneration(h.token)
    /\ kind[s] = h.kind /\ payload[s] = h.payload

SlotsOfHandles ==
  \A s \in SlotIndex : live[s] => \E h \in handles : UnpackSlot(h.token) = s

SlotInv == HandlesOfSlots /\ SlotsOfHandles /\ IsFiniteSet(handles) /\ FreeListExact

\* d releases after the one that made token r stale, the generation of its slot is
\* d + 1 steps ahead of r's, round the cycle of GenLimit - 1 generations.
Ahead(r) ==
  LET s == UnpackSlot(r.token)
      u == UnpackGeneration(r.token)
      d == releases[s] - r.since
  IN  d < GenLimit - 2 =>
        generation[s] = IF u + d + 1 < GenLimit THEN u + d + 1 ELSE u + d + 2 - GenLimit

StaleInv ==
  \A r \in stale :
    /\ UnpackSlot(r.token) \in SlotIndex
    /\ UnpackGeneration(r.token) \in Generations
    /\ r.since <= releases[UnpackSlot(r.token)]
    /\ Ahead(r)

Inv == TypeOK /\ SlotInv /\ StaleInv

-----------------------------------------------------------------------------
(* Tokens and generations.                                                 *)

\* Unpacking gives back what was packed; a packed token is never 0.
LEMMA PackUnpack ==
  ASSUME NEW s \in SlotIndex, NEW g \in Generations
  PROVE  /\ Pack(s, g) \in Tokens \ {0}
         /\ UnpackSlot(Pack(s, g)) = s
         /\ UnpackGeneration(Pack(s, g)) = g
<1> DEFINE G == GenLimit
<1>1. G \in Nat /\ G > 1 /\ s \in Nat /\ SlotLimit \in Nat /\ s < SlotLimit /\ g \in 1 .. G - 1
  BY HandleAssumption DEF SlotIndex, Generations
<1> HIDE DEF G
<1>2. (s * G + g) \div G = s /\ (s * G + g) % G = g
  BY <1>1
<1>3. s * G + g <= SlotLimit * G + G - 1 /\ s * G + g >= 1 /\ s * G + g \in Nat
      /\ SlotLimit * G + G - 1 \in Int
  BY <1>1
<1>4. s * G + g \in Tokens
  BY <1>3 DEF Tokens, G
<1>5. QED
  BY <1>2, <1>3, <1>4 DEF G, Pack, UnpackSlot, UnpackGeneration

\* A token is determined by its slot and its generation.
LEMMA UnpackParts ==
  ASSUME NEW t \in Tokens
  PROVE  /\ UnpackSlot(t) \in Nat
         /\ UnpackGeneration(t) \in 0 .. GenLimit - 1
         /\ t = Pack(UnpackSlot(t), UnpackGeneration(t))
<1> DEFINE G == GenLimit
<1>1. G \in Nat /\ G > 1 /\ t \in Nat
  BY HandleAssumption DEF Tokens
<1> HIDE DEF G
<1>2. t = (t \div G) * G + (t % G) /\ t \div G \in Nat /\ t % G \in 0 .. G - 1
  BY <1>1
<1>3. QED
  BY <1>2 DEF G, Pack, UnpackSlot, UnpackGeneration

\* The generation counter steps by one and goes from the last value to 1.
LEMMA NextGenerationSteps ==
  ASSUME NEW g \in Generations
  PROVE  NextGeneration(g) = IF g + 1 = GenLimit THEN 1 ELSE g + 1
<1> DEFINE G == GenLimit
<1>1. G \in Nat /\ G > 1 /\ g \in 1 .. G - 1
  BY HandleAssumption DEF Generations
<1>2. NextGeneration(g) = IF (g + 1) % G = 0 THEN 1 ELSE (g + 1) % G
  BY DEF NextGeneration, kMinGeneration
<1> HIDE DEF G
<1>3. CASE g + 1 = G
  <2>1. G % G = 0
    BY <1>1
  <2>2. QED
    BY <1>1, <1>2, <1>3, <2>1 DEF G
<1>4. CASE g + 1 # G
  <2>1. g + 1 \in 1 .. G - 1
    BY <1>1, <1>4
  <2>2. (g + 1) % G = g + 1
    BY <1>1, <2>1
  <2>3. QED
    BY <1>1, <1>2, <1>4, <2>1, <2>2 DEF G
<1>5. QED
  BY <1>3, <1>4

\* The successor of a generation is a generation.
LEMMA NextGenerationType ==
  ASSUME NEW g \in Generations
  PROVE  NextGeneration(g) \in Generations
BY NextGenerationSteps, HandleAssumption DEF Generations

\* Taking the last element off a free list without repetitions.
LEMMA FrontElems ==
  ASSUME NEW S, NEW q \in Seq(S), q # <<>>,
         \A i, j \in DOMAIN q : q[i] = q[j] => i = j
  PROVE  LET f == SubSeq(q, 1, Len(q) - 1)
             s == q[Len(q)]
         IN  /\ s \in S /\ f \in Seq(S)
             /\ Len(f) = Len(q) - 1
             /\ {f[i] : i \in DOMAIN f} = {q[i] : i \in DOMAIN q} \ {s}
             /\ s \in {q[i] : i \in DOMAIN q}
             /\ \A i, j \in DOMAIN f : f[i] = f[j] => i = j
<1> DEFINE f == SubSeq(q, 1, Len(q) - 1)
           s == q[Len(q)]
<1>1. Len(q) \in Nat /\ Len(q) > 0 /\ DOMAIN q = 1 .. Len(q)
  OBVIOUS
<1>2. /\ f \in Seq(S) /\ Len(f) = Len(q) - 1 /\ DOMAIN f = 1 .. Len(q) - 1
      /\ \A i \in 1 .. Len(q) - 1 : f[i] = q[i]
  BY <1>1
<1>3. s \in S /\ s \in {q[i] : i \in DOMAIN q}
  BY <1>1
<1> HIDE DEF f
<1>4. {f[i] : i \in DOMAIN f} = {q[i] : i \in DOMAIN q} \ {s}
  BY <1>1, <1>2
<1>5. \A i, j \in DOMAIN f : f[i] = f[j] => i = j
  BY <1>1, <1>2
<1>6. QED
  BY <1>2, <1>3, <1>4, <1>5 DEF f

\* Putting a new element at the end of a list without repetitions.
LEMMA AppendElems ==
  ASSUME NEW S, NEW q \in Seq(S), NEW s \in S, s \notin {q[i] : i \in DOMAIN q},
         \A i, j \in DOMAIN q : q[i] = q[j] => i = j
  PROVE  LET f == Append(q, s)
         IN  /\ f \in Seq(S)
             /\ Len(f) = Len(q) + 1
             /\ {f[i] : i \in DOMAIN f} = {q[i] : i \in DOMAIN q} \cup {s}
             /\ \A i, j \in DOMAIN f : f[i] = f[j] => i = j
<1> DEFINE f == Append(q, s)
<1>1. Len(q) \in Nat /\ DOMAIN q = 1 .. Len(q)
  OBVIOUS
<1>2. /\ f \in Seq(S) /\ Len(f) = Len(q) + 1 /\ DOMAIN f = 1 .. Len(q) + 1
      /\ \A i \in 1 .. Len(q) : f[i] = q[i]
      /\ f[Len(q) + 1] = s
  BY <1>1
<1> HIDE DEF f
<1>3. {f[i] : i \in DOMAIN f} \subseteq {q[i] : i \in DOMAIN q} \cup {s}
  BY <1>1, <1>2
<1>4. {q[i] : i \in DOMAIN q} \cup {s} \subseteq {f[i] : i \in DOMAIN f}
  BY <1>1, <1>2
<1>5. \A i, j \in DOMAIN f : f[i] = f[j] => i = j
  BY <1>1, <1>2
<1>6. QED
  BY <1>2, <1>3, <1>4, <1>5 DEF f

-----------------------------------------------------------------------------
(* The invariant is inductive.                                             *)

\* An empty table satisfies the invariant.
LEMMA InitInv == Init => Inv
<1>1. SUFFICES ASSUME Init PROVE Inv
  OBVIOUS
<1>2. PICK k \in Kinds : kind = [s \in SlotIndex |-> k]
  BY <1>1 DEF Init
<1>3. TypeOK
  BY <1>1, <1>2, HandleAssumption
  DEF Init, TypeOK, SlotIndex, Generations, kMinGeneration
<1>4. IsFiniteSet(handles) /\ Cardinality(handles) = 0
  BY <1>1, FS_EmptySet DEF Init
<1>5. FreeListExact
  BY <1>1, <1>4 DEF Init, FreeListExact, Free
<1>6. HandlesOfSlots /\ SlotsOfHandles /\ StaleInv
  BY <1>1 DEF Init, HandlesOfSlots, SlotsOfHandles, StaleInv
<1>7. QED
  BY <1>3, <1>4, <1>5, <1>6 DEF Inv, SlotInv

\* insert hands out a slot that no handle names.
LEMMA InsertKeeps ==
  ASSUME Inv, NEW k \in Kinds, NEW p \in Payloads, Insert(k, p)
  PROVE  Inv'
<1> DEFINE s == ChosenSlot
           h == [token |-> Pack(s, generation[s]), kind |-> k, payload |-> p]
<1> USE DEF Inv, SlotInv
<1>1. /\ s \in SlotIndex /\ ~live[s] /\ s < count'
      /\ count' \in 0 .. SlotLimit /\ count <= count'
      /\ free_list' \in Seq(SlotIndex)
      /\ Free' = Free \ {s}
      /\ \A i, j \in DOMAIN free_list' : free_list'[i] = free_list'[j] => i = j
      /\ count' - Len(free_list') = count - Len(free_list) + 1
      /\ \A t \in SlotIndex : t # s => (t < count' <=> t < count)
  <2>1. CASE free_list # <<>>
    <3>1. /\ s = free_list[Len(free_list)]
          /\ free_list' = SubSeq(free_list, 1, Len(free_list) - 1) /\ count' = count
      BY <2>1 DEF Insert, ChosenSlot
    <3>2. /\ s \in SlotIndex /\ free_list' \in Seq(SlotIndex)
          /\ Len(free_list') = Len(free_list) - 1
          /\ Free' = Free \ {s} /\ s \in Free
          /\ \A i, j \in DOMAIN free_list' : free_list'[i] = free_list'[j] => i = j
      <4>1. /\ free_list \in Seq(SlotIndex)
            /\ \A i, j \in DOMAIN free_list : free_list[i] = free_list[j] => i = j
        BY DEF TypeOK, FreeListExact
      <4> HIDE DEF s, Inv, SlotInv
      <4> DEFINE f == SubSeq(free_list, 1, Len(free_list) - 1)
                 e == free_list[Len(free_list)]
      <4>2. /\ e \in SlotIndex /\ f \in Seq(SlotIndex)
            /\ Len(f) = Len(free_list) - 1
            /\ {f[i] : i \in DOMAIN f} = {free_list[i] : i \in DOMAIN free_list} \ {e}
            /\ e \in {free_list[i] : i \in DOMAIN free_list}
            /\ \A i, j \in DOMAIN f : f[i] = f[j] => i = j
        <5> HIDE <3>1
        <5>1. QED
          BY <2>1, <4>1, FrontElems, Zenon
      <4>3. f = free_list' /\ e = s
        BY <3>1
      <4>4. Free = {free_list[i] : i \in DOMAIN free_list}
        BY DEF Free
      <4>5. Free' = {f[i] : i \in DOMAIN f}
        BY <4>3 DEF Free
      <4> HIDE DEF f, e
      <4>6. QED
        BY <4>2, <4>3, <4>4, <4>5
    <3>3. s \in 0 .. count - 1 /\ ~live[s]
      BY <3>2 DEF FreeListExact
    <3>4. count \in 0 .. SlotLimit /\ Len(free_list) \in Nat
      BY DEF TypeOK
    <3>5. QED
      <4> HIDE DEF s, Inv, SlotInv
      <4>1. SlotLimit \in Nat /\ Len(free_list') \in Nat
        BY <3>2, HandleAssumption
      <4>2. \A t \in SlotIndex : t \in Nat
        BY DEF SlotIndex
      <4>3. QED
        <5>1. s < count' /\ count' \in 0 .. SlotLimit /\ count <= count'
          BY <3>1, <3>3, <3>4, <4>1
        <5>2. count' - Len(free_list') = count - Len(free_list) + 1
          <6>1. /\ count \in Nat /\ Len(free_list) \in Nat
                /\ count' = count /\ Len(free_list') = Len(free_list) - 1
            BY <3>1, <3>2, <3>4, <4>1
          <6>2. QED
            BY <6>1
        <5>3. QED
          BY <3>1, <3>2, <3>3, <5>1, <5>2
  <2>2. CASE free_list = <<>>
    <3>1. s = count /\ count < SlotLimit /\ count' = count + 1 /\ free_list' = free_list
      BY <2>2 DEF Insert, ChosenSlot
    <3>2. count \in 0 .. SlotLimit /\ Len(free_list) \in Nat
      BY DEF TypeOK
    <3>3. s \in SlotIndex /\ count' \in 0 .. SlotLimit
      BY <3>1, <3>2, HandleAssumption DEF SlotIndex
    <3>4. ~live[s] /\ s \notin Free
      BY <3>1, <3>2, <3>3 DEF FreeListExact
    <3>5. Free' = Free \ {s}
      BY <3>1, <3>4 DEF Free
    <3>6. QED
      BY <3>1, <3>2, <3>3, <3>4, <3>5, HandleAssumption DEF SlotIndex, TypeOK, FreeListExact
  <2>3. QED
    BY <2>1, <2>2
<1>2. /\ live' = [live EXCEPT ![s] = TRUE] /\ kind' = [kind EXCEPT ![s] = k]
      /\ payload' = [payload EXCEPT ![s] = p] /\ handles' = handles \cup {h}
      /\ UNCHANGED <<generation, stale, releases>>
  BY DEF Insert
<1>3. /\ h.token \in Tokens \ {0} /\ h.kind = k /\ h.payload = p
      /\ UnpackSlot(h.token) = s /\ UnpackGeneration(h.token) = generation[s]
  BY <1>1, PackUnpack DEF TypeOK
<1> HIDE DEF s, h
<1>4. h \in [token : Tokens \ {0}, kind : Kinds, payload : Payloads]
  BY <1>3 DEF h
<1>5. TypeOK'
  BY <1>1, <1>2, <1>4 DEF TypeOK
<1>6. h \notin handles
  BY <1>1, <1>3 DEF HandlesOfSlots
<1>7. IsFiniteSet(handles') /\ Cardinality(handles') = Cardinality(handles) + 1
  BY <1>2, <1>6, FS_AddElement
<1>8. HandlesOfSlots'
  <2>1. ASSUME NEW g \in handles
        PROVE  LET t == UnpackSlot(g.token) IN
               /\ t \in SlotIndex /\ t < count' /\ live'[t]
               /\ generation'[t] = UnpackGeneration(g.token)
               /\ kind'[t] = g.kind /\ payload'[t] = g.payload
    <3>1. UnpackSlot(g.token) \in SlotIndex /\ UnpackSlot(g.token) # s
      BY <1>1 DEF HandlesOfSlots
    <3>2. QED
      BY <1>1, <1>2, <3>1 DEF HandlesOfSlots, TypeOK
  <2>2. /\ s \in SlotIndex /\ s < count' /\ live'[s]
        /\ generation'[s] = UnpackGeneration(h.token)
        /\ kind'[s] = h.kind /\ payload'[s] = h.payload
    BY <1>1, <1>2, <1>3 DEF TypeOK
  <2>3. QED
    BY <1>2, <1>3, <2>1, <2>2 DEF HandlesOfSlots
<1>9. SlotsOfHandles'
  BY <1>1, <1>2, <1>3 DEF SlotsOfHandles, TypeOK
<1>10. FreeListExact'
  <2>1. \A t \in SlotIndex : t # s => live'[t] = live[t]
    BY <1>2 DEF TypeOK
  <2>2. live'[s] /\ s < count'
    BY <1>1, <1>2 DEF TypeOK
  <2>3. /\ SlotLimit \in Nat /\ count \in Nat /\ count' \in Nat
        /\ count <= SlotLimit /\ count' <= SlotLimit
    BY <1>1, HandleAssumption DEF TypeOK
  <2>4. 0 .. count - 1 \subseteq SlotIndex
    BY <2>3 DEF SlotIndex
  <2> DEFINE c == count'
  <2>9. c \in Nat /\ c <= SlotLimit /\ count <= c
    BY <1>1, <2>3
  <2> HIDE DEF c
  <2>10. 0 .. c - 1 \subseteq SlotIndex /\ 0 .. count - 1 \subseteq 0 .. c - 1
    BY <2>3, <2>9 DEF SlotIndex
  <2>5. Free' = {t \in 0 .. c - 1 : ~live'[t]}
    <3>1. Free = {t \in 0 .. count - 1 : ~live[t]}
      BY DEF FreeListExact
    <3>2. \A t \in SlotIndex : t # s => (t < c <=> t < count)
      BY <1>1 DEF c
    <3>3. \A t \in 0 .. c - 1 : t # s => t \in 0 .. count - 1
      BY <2>3, <2>9, <2>10, <3>2
    <3>4. Free' \subseteq {t \in 0 .. c - 1 : ~live'[t]}
      BY <1>1, <2>1, <2>4, <2>10, <3>1
    <3>5. {t \in 0 .. c - 1 : ~live'[t]} \subseteq Free'
      BY <1>1, <2>1, <2>2, <2>10, <3>1, <3>3
    <3>6. QED
      BY <3>4, <3>5
  <2>6. \A t \in SlotIndex : live'[t] => t < count'
    BY <1>1, <2>1, <2>2 DEF FreeListExact
  <2>7. count' - Len(free_list') = Cardinality(handles')
    BY <1>1, <1>7 DEF FreeListExact
  <2>8. QED
    BY <1>1, <2>5, <2>6, <2>7 DEF FreeListExact, c
<1>11. StaleInv'
  BY <1>2 DEF StaleInv, Ahead
<1>12. QED
  BY <1>5, <1>7, <1>8, <1>9, <1>10, <1>11

\* release of a token that resolves removes the one handle of its slot.
LEMMA ReleasedHandle ==
  ASSUME Inv, NEW token \in Tokens, NEW k \in Kinds, Resolves(token, k)
  PROVE  /\ UnpackSlot(token) \in SlotIndex
         /\ UnpackGeneration(token) \in Generations
         /\ \E h \in handles : /\ h.token = token
                               /\ \A g \in handles : UnpackSlot(g.token) = UnpackSlot(token) => g = h
<1> DEFINE s == UnpackSlot(token)
<1> USE DEF Inv, SlotInv
<1>1. s \in Nat /\ s < count /\ live[s] /\ generation[s] = UnpackGeneration(token)
  BY UnpackParts DEF Resolves
<1>2. s \in SlotIndex
  BY <1>1, HandleAssumption DEF SlotIndex, TypeOK
<1>3. generation[s] \in Generations
  BY <1>2 DEF TypeOK
<1>4. PICK h \in handles : UnpackSlot(h.token) = s
  BY <1>1, <1>2 DEF SlotsOfHandles
<1>5. \A g \in handles : g \in [token : Tokens \ {0}, kind : Kinds, payload : Payloads]
  BY DEF TypeOK
<1>6. ASSUME NEW g \in handles, UnpackSlot(g.token) = s
      PROVE  g = [token |-> token, kind |-> kind[s], payload |-> payload[s]]
  <2>1. /\ generation[s] = UnpackGeneration(g.token)
        /\ kind[s] = g.kind /\ payload[s] = g.payload
    BY <1>6 DEF HandlesOfSlots
  <2>2. g.token = token
    BY <1>1, <1>5, <1>6, <2>1, UnpackParts
  <2>3. QED
    BY <1>5, <1>6, <2>1, <2>2
<1>7. h.token = token
  BY <1>4, <1>6
<1>8. QED
  BY <1>1, <1>2, <1>3, <1>4, <1>6, <1>7

\* release takes the slot's handle away, lists the slot as free, and moves its
\* generation one step.
LEMMA ReleaseKeeps ==
  ASSUME Inv, NEW token \in Tokens, NEW k \in Kinds, Release(token, k)
  PROVE  Inv'
<1> DEFINE s == UnpackSlot(token)
<1> USE DEF Inv, SlotInv
<1>1. /\ Resolves(token, k)
      /\ live' = [live EXCEPT ![s] = FALSE]
      /\ payload' = [payload EXCEPT ![s] = Null]
      /\ generation' = [generation EXCEPT ![s] = NextGeneration(@)]
      /\ free_list' = Append(free_list, s)
      /\ releases' = [releases EXCEPT ![s] = @ + 1]
      /\ handles' = {h \in handles : h.token # token}
      /\ stale' = stale \cup {[token |-> token, since |-> releases[s] + 1]}
      /\ count' = count /\ kind' = kind
  BY DEF Release, ClearLive
<1>2. /\ token \in Tokens \ {0} /\ live[s] /\ s < count
      /\ generation[s] = UnpackGeneration(token)
  BY <1>1 DEF Resolves
<1>3. s \in SlotIndex /\ UnpackGeneration(token) \in Generations
  BY <1>1, ReleasedHandle
<1>4. PICK h \in handles : /\ h.token = token
                           /\ \A g \in handles : UnpackSlot(g.token) = s => g = h
  BY <1>1, ReleasedHandle
<1> HIDE DEF s
<1>5. handles' = handles \ {h}
  BY <1>1, <1>4 DEF s
<1>6. IsFiniteSet(handles') /\ Cardinality(handles') = Cardinality(handles) - 1
  BY <1>4, <1>5, FS_RemoveElement
<1>7. /\ free_list' \in Seq(SlotIndex)
      /\ Len(free_list') = Len(free_list) + 1
      /\ Free' = Free \cup {s}
      /\ \A i, j \in DOMAIN free_list' : free_list'[i] = free_list'[j] => i = j
  <2> DEFINE f == Append(free_list, s)
  <2>1. /\ free_list \in Seq(SlotIndex)
        /\ \A i, j \in DOMAIN free_list : free_list[i] = free_list[j] => i = j
        /\ s \notin {free_list[i] : i \in DOMAIN free_list}
    BY <1>2 DEF TypeOK, FreeListExact, Free
  <2>2. /\ f \in Seq(SlotIndex)
        /\ Len(f) = Len(free_list) + 1
        /\ {f[i] : i \in DOMAIN f} = {free_list[i] : i \in DOMAIN free_list} \cup {s}
        /\ \A i, j \in DOMAIN f : f[i] = f[j] => i = j
    BY <1>3, <2>1, AppendElems, Zenon
  <2>3. f = free_list'
    BY <1>1
  <2>4. Free = {free_list[i] : i \in DOMAIN free_list}
    BY DEF Free
  <2>5. Free' = {f[i] : i \in DOMAIN f}
    BY <2>3 DEF Free
  <2> HIDE DEF f
  <2>6. QED
    BY <2>2, <2>3, <2>4, <2>5
<1>8. TypeOK'
  <2>1. generation' \in [SlotIndex -> Generations]
    BY <1>1, <1>3, NextGenerationType DEF TypeOK
  <2>2. releases' \in [SlotIndex -> Nat] /\ releases[s] + 1 \in Nat
    BY <1>1, <1>3 DEF TypeOK
  <2>3. stale' \in SUBSET [token : Tokens \ {0}, since : Nat]
    BY <1>1, <1>2, <2>2 DEF TypeOK
  <2>4. QED
    BY <1>1, <1>3, <1>5, <1>7, <2>1, <2>2, <2>3 DEF TypeOK
<1>9. HandlesOfSlots'
  <2>1. SUFFICES ASSUME NEW g \in handles, g # h
                 PROVE  LET t == UnpackSlot(g.token) IN
                        /\ t \in SlotIndex /\ t < count' /\ live'[t]
                        /\ generation'[t] = UnpackGeneration(g.token)
                        /\ kind'[t] = g.kind /\ payload'[t] = g.payload
    BY <1>5 DEF HandlesOfSlots
  <2>2. UnpackSlot(g.token) \in SlotIndex /\ UnpackSlot(g.token) # s
    BY <1>4, <2>1 DEF HandlesOfSlots
  <2>3. QED
    BY <1>1, <2>2 DEF HandlesOfSlots, TypeOK
<1>10. SlotsOfHandles'
  <2>1. SUFFICES ASSUME NEW t \in SlotIndex, live'[t]
                 PROVE  \E g \in handles' : UnpackSlot(g.token) = t
    BY DEF SlotsOfHandles
  <2>2. t # s /\ live[t]
    BY <1>1, <1>3, <2>1 DEF TypeOK
  <2>3. PICK g \in handles : UnpackSlot(g.token) = t
    BY <2>2 DEF SlotsOfHandles
  <2>4. g # h
    BY <1>4, <2>2, <2>3 DEF s
  <2>5. QED
    BY <1>5, <2>3, <2>4
<1>11. FreeListExact'
  <2>1. \A t \in SlotIndex : live'[t] <=> live[t] /\ t # s
    BY <1>1, <1>3 DEF TypeOK
  <2>2. SlotLimit \in Nat /\ count \in Nat /\ count <= SlotLimit
    BY HandleAssumption DEF TypeOK
  <2>3. 0 .. count - 1 \subseteq SlotIndex
    BY <2>2 DEF SlotIndex
  <2>4. s \in 0 .. count - 1
    BY <1>2, <1>3, <2>2 DEF SlotIndex
  <2>5. Free = {t \in 0 .. count - 1 : ~live[t]}
    BY DEF FreeListExact
  <2>6. Free' = {t \in 0 .. count - 1 : ~live'[t]}
    BY <1>7, <2>1, <2>3, <2>4, <2>5
  <2>7. \A t \in SlotIndex : live'[t] => t < count
    BY <2>1 DEF FreeListExact
  <2>8. count - Len(free_list') = Cardinality(handles')
    <3>1. count \in Nat /\ Len(free_list) \in Nat /\ Cardinality(handles) \in Nat
          /\ count - Len(free_list) = Cardinality(handles)
      BY <2>2, FS_CardinalityType DEF FreeListExact, TypeOK
    <3>2. QED
      BY <1>6, <1>7, <3>1
  <2>9. QED
    BY <1>1, <1>7, <2>6, <2>7, <2>8 DEF FreeListExact
<1>12. StaleInv'
  <2> DEFINE G == GenLimit
  <2>1. G \in Nat /\ G > 1 /\ \A g \in Generations : g \in 1 .. G - 1
    BY HandleAssumption DEF Generations
  <2>2. /\ generation[s] \in Generations
        /\ generation'[s] = IF generation[s] + 1 = G THEN 1 ELSE generation[s] + 1
        /\ releases'[s] = releases[s] + 1 /\ releases[s] \in Nat
        /\ \A t \in SlotIndex : t # s => generation'[t] = generation[t] /\ releases'[t] = releases[t]
    BY <1>1, <1>3, NextGenerationSteps DEF TypeOK
  <2>3. ASSUME NEW r \in stale
        PROVE  r.since <= releases'[UnpackSlot(r.token)] /\ Ahead(r)'
    <3>1. r.since \in Nat
      BY DEF TypeOK
    <3>2. /\ UnpackSlot(r.token) \in SlotIndex
          /\ UnpackGeneration(r.token) \in Generations
          /\ r.since <= releases[UnpackSlot(r.token)]
          /\ Ahead(r)
      BY DEF StaleInv
    <3>3. CASE UnpackSlot(r.token) # s
      BY <2>2, <3>2, <3>3 DEF Ahead
    <3>4. CASE UnpackSlot(r.token) = s
      <4> DEFINE u == UnpackGeneration(r.token)
                 d == releases[s] - r.since
      <4>1. d \in Nat /\ releases'[s] - r.since = d + 1 /\ r.since <= releases'[s]
        BY <2>2, <3>1, <3>2, <3>4
      <4>2. u \in 1 .. G - 1
        BY <2>1, <3>2
      <4>3. d < G - 2 => generation[s] = IF u + d + 1 < G THEN u + d + 1 ELSE u + d + 2 - G
        BY <3>2, <3>4 DEF Ahead
      <4> HIDE DEF u, d, G
      <4>4. d + 1 < G - 2 =>
              generation'[s] = IF u + (d + 1) + 1 < G THEN u + (d + 1) + 1 ELSE u + (d + 1) + 2 - G
        BY <2>1, <2>2, <4>1, <4>2, <4>3
      <4>5. QED
        BY <3>4, <4>1, <4>4 DEF Ahead, u, G
    <3>5. QED
      BY <3>3, <3>4
  <2>4. ASSUME NEW r, r = [token |-> token, since |-> releases[s] + 1]
        PROVE  r.since <= releases'[s] /\ Ahead(r)'
    <3> DEFINE u == UnpackGeneration(token)
    <3>1. r.token = token /\ r.since = releases[s] + 1 /\ releases'[s] - r.since = 0
      BY <2>2, <2>4
    <3>2. u \in 1 .. G - 1 /\ u = generation[s]
      BY <1>2, <1>3, <2>1
    <3>3. releases'[UnpackSlot(token)] = releases'[s] /\ generation'[UnpackSlot(token)] = generation'[s]
      BY DEF s
    <3> HIDE DEF G, u
    <3>4. 0 < G - 2 => generation'[s] = IF u + 0 + 1 < G THEN u + 0 + 1 ELSE u + 0 + 2 - G
      BY <2>1, <2>2, <3>2
    <3>5. Ahead(r)'
      <4>1. releases'[UnpackSlot(token)] - r.since = 0
        BY <3>1, <3>3
      <4>2. QED
        BY <3>1, <3>3, <3>4, <4>1 DEF Ahead, u, G
    <3>6. r.since <= releases'[s]
      BY <2>2, <3>1
    <3>7. QED
      BY <3>5, <3>6
  <2>5. \A r \in stale' : /\ UnpackSlot(r.token) \in SlotIndex
                          /\ UnpackGeneration(r.token) \in Generations
    BY <1>1, <1>3 DEF StaleInv, s
  <2>6. \A r \in stale' : r.since <= releases'[UnpackSlot(r.token)] /\ Ahead(r)'
    BY <1>1, <2>3, <2>4 DEF s
  <2>7. QED
    BY <2>5, <2>6 DEF StaleInv
<1>13. QED
  BY <1>6, <1>8, <1>9, <1>10, <1>11, <1>12

\* No step of the table leaves the invariant.
LEMMA NextKeeps == Inv /\ [Next]_vars => Inv'
<1>1. SUFFICES ASSUME Inv, [Next]_vars PROVE Inv'
  OBVIOUS
<1>2. CASE UNCHANGED vars
  BY <1>1, <1>2
  DEF vars, slotVars, Inv, TypeOK, SlotInv, HandlesOfSlots, SlotsOfHandles, FreeListExact, Free,
      StaleInv, Ahead
<1>3. CASE Next
  BY <1>1, <1>3, InsertKeeps, ReleaseKeeps DEF Next
<1>4. QED
  BY <1>1, <1>2, <1>3

-----------------------------------------------------------------------------
(* The theorems.                                                           *)

\* The inductive invariant of the handle table: live slots and outstanding handles
\* correspond one to one, and generations run ahead of the stale tokens.
THEOREM TableInvariant == Spec => []Inv
BY InitInv, NextKeeps, PTL DEF Spec

\* Every field of every slot keeps its type; no minted or released token is 0, the
\* value insert returns when it has no slot.
THEOREM TableTypeCorrect == Spec => []TypeOK
<1>1. Inv => TypeOK
  BY DEF Inv
<1>2. QED
  BY <1>1, TableInvariant, PTL

\* A handle passes the tests of lookup because its slot is as it was minted.
LEMMA InvResolves == Inv => HandlesResolve
<1>1. ASSUME Inv, NEW h \in handles
      PROVE  /\ Lookup(h.token, h.kind) = h.payload
             /\ \A k \in Kinds \ {h.kind} : ~Resolves(h.token, k)
             /\ \A g \in handles : g.token = h.token => g = h
  <2>1. \A g \in handles : g \in [token : Tokens \ {0}, kind : Kinds, payload : Payloads]
    BY <1>1 DEF Inv, TypeOK
  <2>2. HandlesOfSlots
    BY <1>1 DEF Inv, SlotInv
  <2>3. h.token # 0
    BY <1>1, <2>1
  <2>4. Lookup(h.token, h.kind) = h.payload
    BY <1>1, <2>2, <2>3 DEF HandlesOfSlots, Lookup, Resolves
  <2>5. \A k \in Kinds \ {h.kind} : ~Resolves(h.token, k)
    BY <1>1, <2>2 DEF HandlesOfSlots, Resolves
  <2>6. ASSUME NEW g \in handles, g.token = h.token PROVE g = h
    <3>1. g.kind = h.kind /\ g.payload = h.payload
      BY <1>1, <2>2, <2>6 DEF HandlesOfSlots
    <3>2. QED
      BY <1>1, <2>1, <2>6, <3>1
  <2>7. QED
    BY <2>4, <2>5, <2>6
<1>2. QED
  BY <1>1 DEF HandlesResolve

\* lookup of an outstanding handle gives the object it was minted for, under its own
\* kind only, and no two outstanding handles share a token (R10.5).
THEOREM OutstandingHandlesResolve == Spec => []HandlesResolve
BY InvResolves, TableInvariant, PTL

\* A stale token fails them because the generation has moved on.
LEMMA InvRejects == Inv => StaleRejected
<1>1. ASSUME Inv, NEW r \in stale, NEW k \in Kinds,
             releases[UnpackSlot(r.token)] - r.since < GenLimit - 2
      PROVE  ~Resolves(r.token, k)
  <2> DEFINE s == UnpackSlot(r.token)
             u == UnpackGeneration(r.token)
             d == releases[s] - r.since
             G == GenLimit
  <2>1. r.since \in Nat /\ s \in SlotIndex /\ releases[s] \in Nat
        /\ u \in Generations /\ r.since <= releases[s]
    BY <1>1 DEF Inv, TypeOK, StaleInv
  <2>2. d \in Nat /\ d < G - 2
    BY <1>1, <2>1
  <2>3. generation[s] = IF u + d + 1 < G THEN u + d + 1 ELSE u + d + 2 - G
    BY <1>1 DEF Inv, StaleInv, Ahead
  <2>4. G \in Nat /\ u \in 1 .. G - 1
    BY <2>1, HandleAssumption DEF Generations
  <2> HIDE DEF u, d, G
  <2>5. generation[s] # u
    BY <2>2, <2>3, <2>4
  <2>6. QED
    BY <2>5 DEF Resolves, u
<1>2. QED
  BY <1>1 DEF StaleRejected

\* A released token is refused for every kind, whatever its slot is used for, until
\* the slot was released GenLimit - 1 times in all since the token was minted (R10.6):
\* the wrap of the generation counter, which skips 0, never shortens the cycle.
THEOREM StaleTokensRejected == Spec => []StaleRejected
BY InvRejects, TableInvariant, PTL

\* The free list holds each slot that exists and is not live, once, and the other
\* slots are as many as the outstanding handles: no slot is handed out twice or lost.
THEOREM FreeSlotsExact == Spec => []FreeListExact
<1>1. Inv => FreeListExact
  BY DEF Inv, SlotInv
<1>2. QED
  BY <1>1, TableInvariant, PTL

=============================================================================
