---------------------------- MODULE StagingPool ----------------------------
(***************************************************************************)
(* The pool of staging buffers shared by the write path, the prefetch      *)
(* workers and the read path (src/src/staging/staging_pool.{hpp,cpp}).     *)
(*                                                                         *)
(* Every public method runs under the mutex mu_, which acquire gives up    *)
(* only inside cv_.wait_until.  One action is therefore one critical       *)
(* section, and a thread inside acquire is either waiting on cv_ or has    *)
(* been woken and not yet re-taken mu_.  Byte counts are small naturals; a *)
(* slot whose data pointer is null is a slot of capacity 0.                *)
(***************************************************************************)
EXTENDS Naturals, FiniteSets, SequencesExt

CONSTANTS
  Threads,           \* threads that call acquire
  Requests,          \* the required_bytes they ask for
  BufferCount,       \* buffer_count_: slots at construction
  MaxBufferCount,    \* max_buffer_count: the ceiling in Grow mode
  BufferCapacity,    \* buffer_capacity_: nominal bytes of a slot
  GrowMode,          \* TRUE for GrowMode::Grow, FALSE for GrowMode::Bounded
  MaxRefs,           \* bound: references one buffer collects through add_ref
  MaxAllocFailures   \* bound: allocations that throw std::bad_alloc

ASSUME PoolAssumption ==
  /\ Threads # {} /\ IsFiniteSet(Threads)
  /\ Requests \subseteq Nat \ {0}
  /\ BufferCount \in Nat \ {0} /\ MaxBufferCount \in Nat
  /\ BufferCount <= MaxBufferCount
  /\ BufferCapacity \in Nat \ {0}
  /\ GrowMode \in BOOLEAN
  /\ MaxRefs \in Nat \ {0} /\ MaxAllocFailures \in Nat

VARIABLES
  cap,            \* buffers_[b].capacity_bytes, 0 while data is null
  ref,            \* buffers_[b].ref_count
  size,           \* buffers_.size()
  free_list,      \* free_list_: slots in ascending order of capacity
  pc,             \* where thread t is in acquire
  req,            \* required_bytes of the call thread t is in
  expired,        \* the deadline of the call thread t is in has passed
  want,           \* bytes promised to the holder of slot b (history; 0 if none)
  allocFailures   \* allocations that have thrown so far

vars == <<cap, ref, size, free_list, pc, req, expired, want, allocFailures>>

\* Bounded mode: the configured count is the hard limit.
Ceiling == IF GrowMode THEN MaxBufferCount ELSE BufferCount
Slots == 1 .. Ceiling

Waiting == {t \in Threads : pc[t] = "waiting"}
Notified == {t \in Threads : pc[t] = "notified"}
FreeSet == {free_list[i] : i \in DOMAIN free_list}

TypeOK ==
  /\ cap \in [Slots -> Nat]
  /\ ref \in [Slots -> Nat]
  /\ size \in BufferCount .. Ceiling
  /\ free_list \in Seq(Slots)
  /\ pc \in [Threads -> {"idle", "waiting", "notified"}]
  /\ req \in [Threads -> Nat]
  /\ expired \in [Threads -> BOOLEAN]
  /\ want \in [Slots -> Nat]
  /\ allocFailures \in 0 .. MaxAllocFailures

Init ==
  /\ cap = [b \in Slots |-> 0]
  /\ ref = [b \in Slots |-> 0]
  /\ size = BufferCount
  /\ free_list = [i \in 1 .. BufferCount |-> i]
  /\ pc = [t \in Threads |-> "idle"]
  /\ req = [t \in Threads |-> 0]
  /\ expired = [t \in Threads |-> FALSE]
  /\ want = [b \in Slots |-> 0]
  /\ allocFailures = 0

-----------------------------------------------------------------------------
(* Choosing and provisioning a slot.                                       *)

CommittedFit(fl, r) == {i \in DOMAIN fl : cap[fl[i]] # 0 /\ cap[fl[i]] >= r}
Uncommitted(fl) == {i \in DOMAIN fl : cap[fl[i]] = 0}

\* Pass A reuses the first committed slot that is large enough, pass B takes
\* an uncommitted one, pass C the last (largest) one.
FindBestFit(fl, r) ==
  IF CommittedFit(fl, r) # {} THEN Min(CommittedFit(fl, r))
  ELSE IF Uncommitted(fl) # {} THEN Min(Uncommitted(fl))
  ELSE Len(fl)

Target(r) == IF r > BufferCapacity THEN r ELSE BufferCapacity

\* Wrong on purpose: a committed slot is never enlarged.
EnsureStorageOnce(c, r) == IF c # 0 THEN c ELSE Target(r)

\* The capacity of a slot of capacity c after ensure_storage for r bytes.
EnsureStorage(c, r) == IF c # 0 /\ c >= Target(r) THEN c ELSE Target(r)

\* Wrong on purpose: push_back instead of the sorted insertion.
PushBack(b) == Len(free_list) + 1

\* std::lower_bound: the first position whose slot is not smaller than b.
LowerBound(b) ==
  Min({i \in 1 .. Len(free_list) + 1 :
         i \in DOMAIN free_list => cap[free_list[i]] >= cap[b]})

-----------------------------------------------------------------------------
(* acquire.                                                                *)

Return(t) ==
  /\ pc' = [pc EXCEPT ![t] = "idle"]
  /\ req' = [req EXCEPT ![t] = 0]
  /\ expired' = [expired EXCEPT ![t] = FALSE]

\* ensure_storage and remove_from_free_list on the free list fl.
Take(t, r, fl) ==
  LET i == FindBestFit(fl, r)
      b == fl[i]
  IN  /\ cap' = [cap EXCEPT ![b] = EnsureStorage(@, r)]
      /\ ref' = [ref EXCEPT ![b] = 1]
      /\ want' = [want EXCEPT ![b] = r]
      /\ free_list' = RemoveAt(fl, i)
      /\ Return(t)
      /\ UNCHANGED allocFailures

\* ensure_storage allocates and make_unique throws: the exception leaves
\* acquire with the slot still on the free list.
AllocationThrows(t, r, fl) ==
  LET b == fl[FindBestFit(fl, r)]
  IN  /\ EnsureStorage(cap[b], r) # cap[b]
      /\ allocFailures < MaxAllocFailures
      /\ allocFailures' = allocFailures + 1
      /\ free_list' = fl
      /\ Return(t)
      /\ UNCHANGED <<cap, ref, want>>

\* Wrong on purpose: no growth at all.
CanGrowNever == FALSE

CanGrow == GrowMode /\ size < Ceiling

\* One turn of acquire's loop that leaves the loop: a free slot is taken, or
\* a fresh one is appended and taken in the next turn under the same lock.
FinishTurn(t, r) ==
  \/ /\ free_list # <<>>
     /\ Take(t, r, free_list) \/ AllocationThrows(t, r, free_list)
     /\ UNCHANGED size
  \/ /\ free_list = <<>> /\ CanGrow
     /\ size' = size + 1
     /\ Take(t, r, <<size + 1>>) \/ AllocationThrows(t, r, <<size + 1>>)

\* The turn that ends in cv_.wait_until.
Block(t, r) ==
  /\ free_list = <<>> /\ ~CanGrow
  /\ pc' = [pc EXCEPT ![t] = "waiting"]
  /\ req' = [req EXCEPT ![t] = r]
  /\ UNCHANGED <<cap, ref, size, free_list, expired, want, allocFailures>>

Acquire(t, r) ==
  /\ pc[t] = "idle"
  /\ FinishTurn(t, r) \/ Block(t, r)

Retry(t) ==
  /\ pc[t] = "notified"
  /\ FinishTurn(t, req[t]) \/ Block(t, req[t])

\* Wrong on purpose: cv_.wait, which has no deadline.
FinalCheckIfFree(t) ==
  /\ pc[t] # "idle" /\ expired[t]
  /\ UNCHANGED size
  /\ free_list # <<>>
  /\ Take(t, req[t], free_list)

\* wait_until reports a timeout: one last look at the free list, no growth.
FinalCheck(t) ==
  /\ pc[t] # "idle" /\ expired[t]
  /\ UNCHANGED size
  /\ \/ /\ free_list # <<>>
        /\ Take(t, req[t], free_list) \/ AllocationThrows(t, req[t], free_list)
     \/ /\ free_list = <<>>
        /\ Return(t)
        /\ UNCHANGED <<cap, ref, free_list, want, allocFailures>>

-----------------------------------------------------------------------------
(* The clock, spurious wake-ups, release and add_ref.                      *)

DeadlinePasses(t) ==
  /\ pc[t] # "idle" /\ ~expired[t]
  /\ expired' = [expired EXCEPT ![t] = TRUE]
  /\ UNCHANGED <<cap, ref, size, free_list, pc, req, want, allocFailures>>

SpuriousWakeup(t) ==
  /\ pc[t] = "waiting" /\ ~expired[t]
  /\ pc' = [pc EXCEPT ![t] = "notified"]
  /\ UNCHANGED <<cap, ref, size, free_list, req, expired, want, allocFailures>>

\* Wrong on purpose: notify only when the free list was empty.
NotifyIfWasEmpty ==
  \/ (free_list # <<>> \/ Waiting = {}) /\ UNCHANGED pc
  \/ free_list = <<>> /\ \E t \in Waiting : pc' = [pc EXCEPT ![t] = "notified"]

NotifyOne ==
  \/ Waiting = {} /\ UNCHANGED pc
  \/ \E t \in Waiting : pc' = [pc EXCEPT ![t] = "notified"]

\* Wrong on purpose: the first release of a shared buffer frees it.
FirstReference(b) == TRUE

\* The reference being dropped is the last one.
LastReference(b) == ref[b] = 1

\* Wrong on purpose: a buffer may be released once more.
AnyBuffer(b) == TRUE

\* What release and add_ref assert of their argument.
Referenced(b) == ref[b] > 0

Release(b) ==
  /\ Referenced(b)
  /\ ref' = [ref EXCEPT ![b] = @ - 1]
  /\ \/ /\ LastReference(b)
        /\ free_list' = InsertAt(free_list, LowerBound(b), b)
        /\ want' = [want EXCEPT ![b] = 0]
        /\ NotifyOne
     \/ /\ ~LastReference(b)
        /\ UNCHANGED <<free_list, pc, want>>
  /\ UNCHANGED <<cap, size, req, expired, allocFailures>>

AddRef(b) ==
  /\ Referenced(b) /\ ref[b] < MaxRefs
  /\ ref' = [ref EXCEPT ![b] = @ + 1]
  /\ UNCHANGED <<cap, size, free_list, pc, req, expired, want, allocFailures>>

-----------------------------------------------------------------------------
Next ==
  \/ \E t \in Threads :
       \/ \E r \in Requests : Acquire(t, r)
       \/ Retry(t)
       \/ FinalCheck(t)
       \/ DeadlinePasses(t)
       \/ SpuriousWakeup(t)
  \/ \E b \in Slots : Release(b) \/ AddRef(b)

Spec == Init /\ [][Next]_vars

\* Time passes, and a thread that could take mu_ and return does so.
Fairness ==
  \A t \in Threads :
    /\ WF_vars(DeadlinePasses(t))
    /\ WF_vars(FinalCheck(t))

FairSpec == Spec /\ Fairness

-----------------------------------------------------------------------------
(* Properties.                                                             *)

\* Conservation (release, remove_from_free_list): a constructed slot is on the
\* free list exactly when nobody references it, and never twice; a slot that
\* was not constructed yet is untouched.
FreeIffUnreferenced ==
  /\ FreeSet = {b \in 1 .. size : ref[b] = 0}
  /\ \A i, j \in DOMAIN free_list : free_list[i] = free_list[j] => i = j
  /\ \A b \in Slots : b > size => cap[b] = 0 /\ ref[b] = 0

\* The free list stays in ascending order of capacity although slots are
\* provisioned and enlarged while they are on it: find_best_fit and the binary
\* search of release both depend on it.
FreeListSorted ==
  \A i, j \in DOMAIN free_list : i < j => cap[free_list[i]] <= cap[free_list[j]]

\* A holder of a buffer has at least the bytes it asked acquire for, however
\* often the slot was reused and enlarged for others before.
CapacityPromised ==
  \A b \in Slots : ref[b] > 0 => cap[b] >= want[b] /\ cap[b] >= BufferCapacity

\* A lost wake-up would leave a thread in cv_.wait_until beside a free buffer:
\* while somebody waits, each free buffer has a thread on its way to take it.
\* Only a notified thread whose allocation throws wastes its notification.
NoLostWakeup ==
  Waiting # {} => Cardinality(Notified) + allocFailures >= Len(free_list)

\* ensure_storage replaces the storage of unreferenced slots only: the data
\* pointer under an outstanding view or a queued write is never invalidated.
StorageStable ==
  [][\A b \in Slots : ref[b] > 0 => cap'[b] = cap[b]]_vars

\* acquire returns null (AMIO_ERR_STAGING_BACKPRESSURE) only when every slot up
\* to the ceiling is referenced at that very moment.  (A call that ends without
\* taking a reference and without an exception returned null.)
NullOnlyWhenSaturated ==
  [][\A t \in Threads :
       pc[t] # "idle" /\ pc'[t] = "idle" /\ UNCHANGED <<ref, allocFailures>>
         => \A b \in Slots : ref[b] > 0]_vars

\* Every call of acquire returns, because the deadline is absolute.
AcquireReturns ==
  \A t \in Threads : pc[t] # "idle" ~> pc[t] = "idle"

=============================================================================
