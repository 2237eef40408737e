---------------------------- MODULE HandleTable ----------------------------
(***************************************************************************)
(* The table behind every opaque handle of the C API                       *)
(* (src/src/c_boundary/handle_table.{hpp,cpp}): generation-stamped slots   *)
(* recycled through a LIFO free list.  All methods run under mu_, so an    *)
(* operation is one action.  A token is the number slot * GenLimit +       *)
(* generation; GenLimit stands for 2^32 and SlotLimit for 2^32 - 1.  A     *)
(* call that is refused changes nothing and is a stuttering step.          *)
(***************************************************************************)
EXTENDS Integers, Sequences, FiniteSets

CONSTANTS
  Kinds,        \* HandleKind
  Payloads,     \* the objects handles are bound to
  GenLimit,     \* generations are taken modulo this
  SlotLimit,    \* slots the index field can name
  MaxReleases,  \* bound: releases of one slot
  Null          \* nullptr

ASSUME HandleAssumption ==
  /\ GenLimit \in Nat /\ GenLimit > 1
  /\ SlotLimit \in Nat
  /\ MaxReleases \in Nat
  /\ Kinds # {}
  /\ Null \notin Payloads

VARIABLES
  count,        \* slots_.size()
  generation, live, kind, payload,   \* the fields of each slot
  free_list,    \* free_list_
  handles,      \* the handles minted and not yet released (history)
  stale,        \* the handles released, each with the count of releases then (history)
  releases      \* how often each slot was released (history)

slotVars == <<count, generation, live, kind, payload, free_list>>
vars == <<slotVars, handles, stale, releases>>

SlotIndex == 0 .. SlotLimit - 1
Generations == 1 .. GenLimit - 1
kMinGeneration == 1

Pack(slot, gen) == slot * GenLimit + gen
UnpackSlot(token) == token \div GenLimit
UnpackGeneration(token) == token % GenLimit

\* Every value a host may present as a handle.
Tokens == 0 .. SlotLimit * GenLimit + GenLimit - 1

Free == {free_list[i] : i \in DOMAIN free_list}

TypeOK ==
  /\ count \in 0 .. SlotLimit
  /\ generation \in [SlotIndex -> Generations]
  /\ live \in [SlotIndex -> BOOLEAN]
  /\ kind \in [SlotIndex -> Kinds]
  /\ payload \in [SlotIndex -> Payloads \cup {Null}]
  /\ free_list \in Seq(SlotIndex)
  /\ handles \in SUBSET [token : Tokens \ {0}, kind : Kinds, payload : Payloads]
  /\ stale \in SUBSET [token : Tokens \ {0}, since : Nat]
  /\ releases \in [SlotIndex -> Nat]

\* Slots beyond count do not exist yet; emplace_back gives them these values.
Init ==
  /\ count = 0
  /\ generation = [s \in SlotIndex |-> kMinGeneration]
  /\ live = [s \in SlotIndex |-> FALSE]
  /\ \E k \in Kinds : kind = [s \in SlotIndex |-> k]
  /\ payload = [s \in SlotIndex |-> Null]
  /\ free_list = <<>>
  /\ handles = {} /\ stale = {}
  /\ releases = [s \in SlotIndex |-> 0]

-----------------------------------------------------------------------------
\* Wrong on purpose: a view handle passes for a dataset handle.
ResolvesAnyKind(token, k) ==
  LET s == UnpackSlot(token) IN
  token # 0 /\ s < count /\ live[s] /\ generation[s] = UnpackGeneration(token)

\* Wrong on purpose: a stale token passes for the handle its slot was given to.
ResolvesAnyGeneration(token, k) ==
  LET s == UnpackSlot(token) IN token # 0 /\ s < count /\ live[s] /\ kind[s] = k

\* The tests of lookup and of release, in their order.
Resolves(token, k) ==
  LET s == UnpackSlot(token) IN
  /\ token # 0
  /\ s < count
  /\ live[s] /\ generation[s] = UnpackGeneration(token)
  /\ kind[s] = k

\* lookup: the payload, or Null with AMIO_ERR_NULL_HANDLE or AMIO_ERR_INVALID_HANDLE.
Lookup(token, k) == IF Resolves(token, k) THEN payload[UnpackSlot(token)] ELSE Null

\* The slot insert uses: the last one released, else a new one.
ChosenSlot == IF free_list # <<>> THEN free_list[Len(free_list)] ELSE count

\* insert, when there is a slot to give; otherwise it returns 0.
Insert(k, p) ==
  LET s == ChosenSlot IN
  /\ free_list # <<>> \/ count < SlotLimit
  /\ \/ /\ free_list # <<>>
        /\ free_list' = SubSeq(free_list, 1, Len(free_list) - 1)
        /\ UNCHANGED count
     \/ /\ free_list = <<>>
        /\ count' = count + 1
        /\ UNCHANGED free_list
  /\ live' = [live EXCEPT ![s] = TRUE]
  /\ kind' = [kind EXCEPT ![s] = k]
  /\ payload' = [payload EXCEPT ![s] = p]
  /\ handles' = handles \cup
       {[token |-> Pack(s, generation[s]), kind |-> k, payload |-> p]}
  /\ UNCHANGED <<generation, stale, releases>>

\* Wrong on purpose: a wrap that does not skip 0; no step at all.
NextGenerationZero(g) == (g + 1) % GenLimit
NextGenerationSame(g) == g

\* The generation counter wraps at its width and skips 0.
NextGeneration(g) == IF (g + 1) % GenLimit = 0 THEN kMinGeneration ELSE (g + 1) % GenLimit

\* Wrong on purpose: the slot is listed as free while its handle stays live.
KeepLive(s) == live

ClearLive(s) == [live EXCEPT ![s] = FALSE]

\* release of any token whatever, also one that was released before.
Release(token, k) ==
  LET s == UnpackSlot(token) IN
  /\ Resolves(token, k)
  /\ releases[s] < MaxReleases
  /\ live' = ClearLive(s)
  /\ payload' = [payload EXCEPT ![s] = Null]
  /\ generation' = [generation EXCEPT ![s] = NextGeneration(@)]
  /\ free_list' = Append(free_list, s)
  /\ releases' = [releases EXCEPT ![s] = @ + 1]
  /\ handles' = {h \in handles : h.token # token}
  /\ stale' = stale \cup {[token |-> token, since |-> releases[s] + 1]}
  /\ UNCHANGED <<count, kind>>

-----------------------------------------------------------------------------
Next ==
  \/ \E k \in Kinds, p \in Payloads : Insert(k, p)
  \/ \E token \in Tokens, k \in Kinds : Release(token, k)

Spec == Init /\ [][Next]_vars

-----------------------------------------------------------------------------
(* Properties.                                                             *)

\* A handle that was minted and not released resolves to the object it was minted
\* for and to no handle of another kind, whatever was released and recycled around
\* it; no two outstanding handles share a token (R10.5).
HandlesResolve ==
  \A h \in handles :
    /\ Lookup(h.token, h.kind) = h.payload
    /\ \A k \in Kinds \ {h.kind} : ~Resolves(h.token, k)
    /\ \A g \in handles : g.token = h.token => g = h

\* Use after release is detected (R10.6): a released token is refused for every
\* kind, also when its slot was handed out again, until the slot has been released
\* often enough for its generation to come round.
StaleRejected ==
  \A r \in stale : \A k \in Kinds :
    releases[UnpackSlot(r.token)] - r.since < GenLimit - 2 => ~Resolves(r.token, k)

\* The free list holds each slot that is not live, once, so the count of live
\* slots is size_for_test and no slot is handed out twice.
FreeListExact ==
  /\ Free = {s \in 0 .. count - 1 : ~live[s]}
  /\ \A i, j \in DOMAIN free_list : free_list[i] = free_list[j] => i = j
  /\ \A s \in SlotIndex : live[s] => s < count
  /\ count - Len(free_list) = Cardinality(handles)

=============================================================================
