--------------------------- MODULE PrefetchQueue ---------------------------
(***************************************************************************)
(* The look-ahead queue of one variable of a dataset open for reading      *)
(* (src/src/prefetch/prefetch_queue.{hpp,cpp}) with its callers in         *)
(* src/src/c_boundary/amio_core.cpp: amio_read (get_buffer, then           *)
(* schedule_next), amio_release_view, amio_close (cancel_pending) and      *)
(* amio_finalize (the destructor).                                         *)
(*                                                                         *)
(* An action is one critical section of mu_, or one step of a worker       *)
(* between two of them.  A fetch that was given to the worker pool is a    *)
(* process of its own, which starts at any later moment.  A buffer is the  *)
(* selection it was filled with.                                           *)
(***************************************************************************)
EXTENDS Naturals, FiniteSets

CONSTANTS
  Readers,        \* host threads inside amio_read
  TotalTimesteps, \* total_timesteps_
  Depth,          \* depth_
  Selections,     \* the bounding boxes hosts ask for
  Full,           \* the selection nullopt: the full record
  NoBuffer,       \* no entry in completed_
  MaxViews,       \* bound: views outstanding at a time
  MaxThrows       \* bound: acquisitions that throw std::bad_alloc

ASSUME PrefetchAssumption ==
  /\ IsFiniteSet(Readers)
  /\ TotalTimesteps \in Nat \ {0} /\ Depth \in Nat \ {0}
  /\ Full \in Selections /\ NoBuffer \notin Selections
  /\ MaxViews \in Nat /\ MaxThrows \in Nat

VARIABLES
  completed,      \* completed_: the contents of the buffer of each timestep
  fetched_bbox,   \* fetched_bbox_: Full where there is no entry
  pending,        \* pending_
  failed,         \* the keys of failed_
  latched_bbox, kicked_off, cancelled,
  stage,          \* how far amio_close or amio_finalize has got
  fetch, fsel,    \* the fetch task of each timestep, and its captured selection
  pc, rt, rsel,   \* where each reader is, and its timestep and selection
  todo,           \* timesteps the reader has yet to schedule
  expired,        \* the deadline of the reader's call has passed
  views,          \* outstanding_views
  held,           \* buffers acquired from the pool and not given back (history)
  throws          \* acquisitions that have thrown so far

queueVars == <<completed, fetched_bbox, pending, failed, latched_bbox, kicked_off, cancelled,
               stage>>
fetchVars == <<fetch, fsel, throws>>
readVars == <<pc, rt, rsel, todo, expired>>
bufferVars == <<views, held>>
vars == <<queueVars, fetchVars, readVars, bufferVars>>

Timesteps == 0 .. TotalTimesteps - 1
Completed == {t \in Timesteps : completed[t] # NoBuffer}

\* Wrong on purpose: one timestep too many.
WindowPastEnd(t) == t .. t + Depth

\* min(depth_, total_timesteps_ - t) timesteps from t.
Window(t) == {u \in Timesteps : t <= u /\ u < t + Depth}
Outside == {"idle", "entering", "warming", "kicking", "fetching", "wrapping", "replenishing"}
InLoop == {"looping", "refetching", "rechecking", "asleep", "woken"}

TypeOK ==
  /\ completed \in [Timesteps -> Selections \cup {NoBuffer}]
  /\ fetched_bbox \in [Timesteps -> Selections]
  /\ pending \subseteq Timesteps /\ failed \subseteq Timesteps
  /\ latched_bbox \in Selections
  /\ kicked_off \in BOOLEAN /\ cancelled \in BOOLEAN
  /\ stage \in {"open", "closing", "closed", "destroyed"}
  /\ fetch \in [Timesteps -> {"none", "queued", "acquiring", "reading"}]
  /\ fsel \in [Timesteps -> Selections]
  /\ pc \in [Readers -> Outside \cup InLoop]
  /\ rt \in [Readers -> Timesteps] /\ rsel \in [Readers -> Selections]
  /\ todo \in [Readers -> SUBSET Timesteps]
  /\ expired \in [Readers -> BOOLEAN]
  /\ views \in 0 .. MaxViews /\ held \in Nat /\ throws \in 0 .. MaxThrows

Init ==
  /\ completed = [t \in Timesteps |-> NoBuffer]
  /\ fetched_bbox = [t \in Timesteps |-> Full]
  /\ pending = {} /\ failed = {}
  /\ latched_bbox = Full /\ kicked_off = FALSE /\ cancelled = FALSE
  /\ stage = "open"
  /\ fetch = [t \in Timesteps |-> "none"] /\ fsel = [t \in Timesteps |-> Full]
  /\ pc = [r \in Readers |-> "idle"]
  /\ rt = [r \in Readers |-> 0] /\ rsel = [r \in Readers |-> Full]
  /\ todo = [r \in Readers |-> {}]
  /\ expired = [r \in Readers |-> FALSE]
  /\ views = 0 /\ held = 0 /\ throws = 0

-----------------------------------------------------------------------------
(* schedule_fetch: nothing for a timestep that is tracked already.         *)

\* Wrong on purpose: a timestep whose buffer is staged is fetched again.
TrackedPending(t) == t \in pending \/ t \in failed

Tracked(t) == t \in pending \/ t \in Completed \/ t \in failed

ScheduleFetch(t) ==
  \/ /\ cancelled \/ Tracked(t)
     /\ UNCHANGED <<pending, fetch, fsel>>
  \/ /\ ~(cancelled \/ Tracked(t))
     /\ pending' = pending \cup {t}
     /\ fetch' = [fetch EXCEPT ![t] = "queued"]
     /\ fsel' = [fsel EXCEPT ![t] = latched_bbox]

-----------------------------------------------------------------------------
(* get_buffer.  Each of the following ends a critical section with lock    *)
(* held by reader r, for timestep t and selection s.                       *)

Goto(r, where) == pc' = [pc EXCEPT ![r] = where] /\ UNCHANGED <<rt, rsel, expired>>

Return(r) ==
  /\ pc' = [pc EXCEPT ![r] = "idle"]
  /\ rt' = [rt EXCEPT ![r] = 0] /\ rsel' = [rsel EXCEPT ![r] = Full]
  /\ expired' = [expired EXCEPT ![r] = FALSE]

\* The selection get_buffer believes the buffer of t was filled with.
Have(t) == fetched_bbox[t]

\* Hand the buffer of t to the caller, who is going to wrap it in a view.
TakeBuffer(r, t) ==
  /\ t \in Completed
  /\ completed' = [completed EXCEPT ![t] = NoBuffer]
  /\ Goto(r, "wrapping")
  /\ UNCHANGED <<pending, failed, bufferVars>>

TakeMatching(r, t, s) ==
  /\ Have(t) = s
  /\ TakeBuffer(r, t)
  /\ fetched_bbox' = [fetched_bbox EXCEPT ![t] = Full]

\* Wrong on purpose: the stale buffer is forgotten instead of released.
DropStaleLeak(r, t, s) ==
  /\ t \in Completed /\ Have(t) # s
  /\ completed' = [completed EXCEPT ![t] = NoBuffer]
  /\ fetched_bbox' = [fetched_bbox EXCEPT ![t] = Full]
  /\ UNCHANGED <<pending, failed, views, held>>

\* A buffer with another selection goes back to the pool.
DropStale(r, t, s) ==
  /\ t \in Completed /\ Have(t) # s
  /\ completed' = [completed EXCEPT ![t] = NoBuffer]
  /\ fetched_bbox' = [fetched_bbox EXCEPT ![t] = Full]
  /\ held' = held - 1
  /\ UNCHANGED <<pending, failed, views>>

ReturnFailure(r, t) ==
  /\ t \in failed
  /\ failed' = failed \ {t}
  /\ Return(r)
  /\ UNCHANGED <<completed, fetched_bbox, pending, bufferVars>>

\* The rest of a turn of the loop after the test for a completed buffer.
FailCancelOrSleep(r, t) ==
  \/ ReturnFailure(r, t)
  \/ /\ t \notin failed
     /\ IF cancelled THEN Return(r) ELSE Goto(r, "asleep")
     /\ UNCHANGED <<completed, fetched_bbox, pending, failed, bufferVars>>

\* The tests before the loop.
FirstLook(r, t, s) ==
  \/ ReturnFailure(r, t)
  \/ t \notin failed /\ TakeMatching(r, t, s)
  \/ /\ t \notin failed /\ DropStale(r, t, s)
     /\ Goto(r, IF t \in pending THEN "looping" ELSE "fetching")
  \/ /\ t \notin failed /\ t \notin Completed /\ t \notin pending
     /\ Goto(r, "fetching")
     /\ UNCHANGED <<completed, fetched_bbox, pending, failed, bufferVars>>
  \/ /\ t \notin Completed /\ t \in pending
     /\ FailCancelOrSleep(r, t)

\* amio_read has validated its timestep and its bounding box.
Read(r, t, s) ==
  /\ pc[r] = "idle" /\ stage # "destroyed"
  /\ views + Cardinality({q \in Readers : pc[q] # "idle"}) < MaxViews
  /\ pc' = [pc EXCEPT ![r] = "entering"]
  /\ rt' = [rt EXCEPT ![r] = t] /\ rsel' = [rsel EXCEPT ![r] = s]
  /\ UNCHANGED <<queueVars, fetchVars, todo, expired, bufferVars>>

\* get_buffer latches the selection, and the first call opens the window.
GetBuffer(r) ==
  /\ pc[r] = "entering"
  /\ latched_bbox' = rsel[r] /\ kicked_off' = TRUE
  /\ \/ /\ ~kicked_off
        /\ todo' = [todo EXCEPT ![r] = Window(rt[r])]
        /\ Goto(r, "kicking")
        /\ UNCHANGED <<completed, fetched_bbox, pending, failed, bufferVars>>
     \/ /\ kicked_off
        /\ FirstLook(r, rt[r], rsel[r])
        /\ UNCHANGED todo
  /\ UNCHANGED <<cancelled, stage, fetchVars>>

\* schedule_initial, which tests and callers that warm the window use.
ScheduleInitial(r) ==
  /\ pc[r] = "idle" /\ stage # "destroyed"
  /\ kicked_off' = TRUE
  /\ todo' = [todo EXCEPT ![r] = Window(0)]
  /\ Goto(r, "warming")
  /\ UNCHANGED <<completed, fetched_bbox, pending, failed, latched_bbox, cancelled, stage, fetchVars,
                 bufferVars>>

\* One round of the loops over schedule_fetch.
ScheduleWindow(r) ==
  /\ pc[r] \in {"kicking", "warming"} /\ todo[r] # {}
  /\ \E t \in todo[r] :
       /\ \A u \in todo[r] : t <= u
       /\ ScheduleFetch(t)
       /\ todo' = [todo EXCEPT ![r] = @ \ {t}]
  /\ UNCHANGED <<completed, fetched_bbox, failed, latched_bbox, kicked_off, cancelled, stage, throws,
                 pc, rt, rsel, expired, bufferVars>>

EndWindow(r) ==
  /\ todo[r] = {}
  /\ \/ /\ pc[r] = "warming"
        /\ Return(r)
        /\ UNCHANGED <<completed, fetched_bbox, pending, failed, bufferVars>>
     \/ pc[r] = "kicking" /\ FirstLook(r, rt[r], rsel[r])
  /\ UNCHANGED <<latched_bbox, kicked_off, cancelled, stage, fetchVars, todo>>

\* schedule_fetch between two critical sections of get_buffer; the deadline is
\* set after the first of them.
ScheduleOne(r) ==
  /\ \/ pc[r] = "fetching" /\ Goto(r, "looping")
     \/ pc[r] = "refetching" /\ Goto(r, "rechecking")
  /\ ScheduleFetch(rt[r])
  /\ UNCHANGED <<completed, fetched_bbox, failed, latched_bbox, kicked_off, cancelled, stage, throws,
                 todo, bufferVars>>

\* Wrong on purpose: a stale buffer is dropped and nothing is fetched in its place.
TurnForgets(r) ==
  LET t == rt[r] IN
  /\ pc[r] \in {"looping", "woken"}
  /\ \/ TakeMatching(r, t, rsel[r])
     \/ DropStale(r, t, rsel[r]) /\ Goto(r, "rechecking")
     \/ t \notin Completed /\ FailCancelOrSleep(r, t)
  /\ UNCHANGED <<latched_bbox, kicked_off, cancelled, stage, fetchVars, todo>>

\* One turn of the loop up to cv_.wait_until.
Turn(r) ==
  LET t == rt[r] IN
  /\ pc[r] \in {"looping", "woken"}
  /\ \/ TakeMatching(r, t, rsel[r])
     \/ DropStale(r, t, rsel[r]) /\ Goto(r, "refetching")
     \/ t \notin Completed /\ FailCancelOrSleep(r, t)
  /\ UNCHANGED <<latched_bbox, kicked_off, cancelled, stage, fetchVars, todo>>

\* The turn goes on after a re-fetch without another look at completed_.
Recheck(r) ==
  /\ pc[r] = "rechecking"
  /\ FailCancelOrSleep(r, rt[r])
  /\ UNCHANGED <<latched_bbox, kicked_off, cancelled, stage, fetchVars, todo>>

DeadlinePasses(r) ==
  /\ pc[r] \in InLoop /\ ~expired[r]
  /\ expired' = [expired EXCEPT ![r] = TRUE]
  /\ UNCHANGED <<queueVars, fetchVars, pc, rt, rsel, todo, bufferVars>>

\* Wrong on purpose: a caller with no answer goes back to sleep.
ReadTimeoutNever(r) ==
  LET t == rt[r] IN
  /\ pc[r] \in {"asleep", "woken"} /\ expired[r]
  /\ \/ TakeBuffer(r, t) /\ UNCHANGED fetched_bbox
     \/ t \notin Completed /\ ReturnFailure(r, t)
  /\ UNCHANGED <<latched_bbox, kicked_off, cancelled, stage, fetchVars, todo>>

\* wait_until reports a timeout: a completed buffer is taken as it is, and its
\* entry in fetched_bbox_ stays behind.
ReadTimeout(r) ==
  LET t == rt[r] IN
  /\ pc[r] \in {"asleep", "woken"} /\ expired[r]
  /\ \/ TakeBuffer(r, t) /\ UNCHANGED fetched_bbox
     \/ t \notin Completed /\ ReturnFailure(r, t)
     \/ /\ t \notin Completed /\ t \notin failed
        /\ Return(r)
        /\ UNCHANGED <<completed, fetched_bbox, pending, failed, bufferVars>>
  /\ UNCHANGED <<latched_bbox, kicked_off, cancelled, stage, fetchVars, todo>>

SpuriousWakeup(r) ==
  /\ pc[r] = "asleep" /\ ~expired[r]
  /\ Goto(r, "woken")
  /\ UNCHANGED <<queueVars, fetchVars, todo, bufferVars>>

\* amio_read counts the view it has made.
CountView(r) ==
  /\ pc[r] = "wrapping"
  /\ views' = views + 1
  /\ Goto(r, "replenishing")
  /\ UNCHANGED <<queueVars, fetchVars, todo, held>>

\* The end of amio_read: schedule_next.
ScheduleNext(r) ==
  /\ pc[r] = "replenishing"
  /\ \/ rt[r] + Depth \in Timesteps /\ ScheduleFetch(rt[r] + Depth)
     \/ rt[r] + Depth \notin Timesteps /\ UNCHANGED <<pending, fetch, fsel>>
  /\ Return(r)
  /\ UNCHANGED <<completed, fetched_bbox, failed, latched_bbox, kicked_off, cancelled, stage, throws,
                 todo, bufferVars>>

\* amio_release_view gives the view's buffer back.
ReleaseView ==
  /\ views > Cardinality({r \in Readers : pc[r] = "replenishing"}) /\ stage # "destroyed"
  /\ views' = views - 1
  /\ held' = held - 1
  /\ UNCHANGED <<queueVars, fetchVars, readVars>>

-----------------------------------------------------------------------------
(* The fetch task of a timestep (sync_fetch on a worker).                  *)

NotifyAll == pc' = [r \in Readers |-> IF pc[r] = "asleep" THEN "woken" ELSE pc[r]]

EndFetch(t) ==
  /\ fetch' = [fetch EXCEPT ![t] = "none"]
  /\ fsel' = [fsel EXCEPT ![t] = Full]
  /\ UNCHANGED <<latched_bbox, kicked_off, cancelled, stage, rt, rsel, todo, expired, views>>

MarkFailed(t) ==
  /\ pending' = pending \ {t}
  /\ failed' = failed \cup {t}
  /\ NotifyAll
  /\ EndFetch(t)
  /\ UNCHANGED <<completed, fetched_bbox, throws>>

\* Wrong on purpose: the entry of an earlier fetch stays for a full record.
RecordedSelectionKept(t) == IF fsel[t] = Full THEN fetched_bbox[t] ELSE fsel[t]

RecordedSelection(t) == fsel[t]

MarkComplete(t) ==
  /\ pending' = pending \ {t}
  /\ completed' = [completed EXCEPT ![t] = fsel[t]]
  /\ fetched_bbox' = [fetched_bbox EXCEPT ![t] = RecordedSelection(t)]
  /\ NotifyAll
  /\ EndFetch(t)
  /\ UNCHANGED <<failed, throws>>

\* A worker picks the task up and tests cancelled_.
StartFetch(t) ==
  /\ fetch[t] = "queued"
  /\ \/ /\ cancelled
        /\ pending' = pending \ {t}
        /\ EndFetch(t)
        /\ UNCHANGED <<completed, fetched_bbox, failed, pc, held, throws>>
     \/ /\ ~cancelled
        /\ fetch' = [fetch EXCEPT ![t] = "acquiring"]
        /\ UNCHANGED <<queueVars, fsel, throws, readVars, bufferVars>>

\* The pool gives a buffer, gives none in time, or throws; the exception ends in
\* the worker's cordon and nothing tells the queue.
AcquireBuffer(t) ==
  /\ fetch[t] = "acquiring"
  /\ \/ /\ fetch' = [fetch EXCEPT ![t] = "reading"]
        /\ held' = held + 1
        /\ UNCHANGED <<queueVars, fsel, throws, readVars, views>>
     \/ MarkFailed(t) /\ UNCHANGED held
     \/ /\ throws < MaxThrows /\ throws' = throws + 1
        /\ EndFetch(t)
        /\ UNCHANGED <<completed, fetched_bbox, pending, failed, pc, held>>

\* The driver fills the buffer, or fails and the buffer is released.
ReadRecord(t) ==
  /\ fetch[t] = "reading"
  /\ \/ MarkComplete(t) /\ UNCHANGED held
     \/ MarkFailed(t) /\ held' = held - 1

FetchStep(t) == StartFetch(t) \/ AcquireBuffer(t) \/ ReadRecord(t)

\* amio_close refuses while views are counted; between this test and cancel_pending
\* readers go on.
CloseDataset ==
  /\ stage = "open" /\ views = 0
  /\ stage' = "closing"
  /\ UNCHANGED <<completed, fetched_bbox, pending, failed, latched_bbox, kicked_off, cancelled,
                 fetchVars, readVars, bufferVars>>

EmptyQueue ==
  /\ cancelled' = TRUE
  /\ pending' = {} /\ failed' = {}
  /\ completed' = [t \in Timesteps |-> NoBuffer]
  /\ fetched_bbox' = [t \in Timesteps |-> Full]
  /\ held' = held - Cardinality(Completed)
  /\ UNCHANGED <<latched_bbox, kicked_off, fetchVars, rt, rsel, todo, expired, views>>

\* Wrong on purpose: sleeping readers are not told.
CancelPendingSilent ==
  /\ stage = "closing" /\ stage' = "closed"
  /\ EmptyQueue
  /\ UNCHANGED pc

CancelPending ==
  /\ stage = "closing" /\ stage' = "closed"
  /\ EmptyQueue
  /\ NotifyAll

\* amio_finalize: the destructor cancels once more, when the workers are joined and
\* no call is under way.
Destroy ==
  /\ stage \in {"open", "closed"} /\ stage' = "destroyed"
  /\ \A t \in Timesteps : fetch[t] = "none"
  /\ \A r \in Readers : pc[r] = "idle"
  /\ EmptyQueue
  /\ NotifyAll

-----------------------------------------------------------------------------
ReaderStep(r) ==
  \/ GetBuffer(r) \/ ScheduleWindow(r) \/ EndWindow(r) \/ ScheduleOne(r) \/ Turn(r) \/ Recheck(r)
  \/ ReadTimeout(r) \/ CountView(r) \/ ScheduleNext(r)

Next ==
  \/ \E r \in Readers :
       \/ \E t \in Timesteps, s \in Selections : Read(r, t, s)
       \/ ScheduleInitial(r)
       \/ ReaderStep(r)
       \/ DeadlinePasses(r)
       \/ SpuriousWakeup(r)
  \/ \E t \in Timesteps : FetchStep(t)
  \/ ReleaseView
  \/ CloseDataset \/ CancelPending \/ Destroy

Spec == Init /\ [][Next]_vars

\* A thread inside a call runs; the worker pool executes what it accepted.  Nothing
\* is assumed of the clock.
Fairness ==
  /\ \A r \in Readers : WF_vars(ReaderStep(r))
  /\ \A t \in Timesteps : WF_vars(FetchStep(t))

FairSpec == Spec /\ Fairness

-----------------------------------------------------------------------------
(* Properties.                                                             *)

\* A timestep is in at most one of pending_, completed_ and failed_, and has one
\* fetch at most: mark_complete never overwrites a staged buffer, and a pending
\* timestep has a task that will end it unless the task's acquisition threw.
TrackedOnce ==
  /\ pending \cap Completed = {} /\ pending \cap failed = {} /\ Completed \cap failed = {}
  /\ \A t \in Timesteps :
       /\ fetch[t] # "none" => t \notin Completed \cup failed /\ (cancelled \/ t \in pending)
       /\ t \in pending => fetch[t] # "none" \/ throws > 0

\* Every buffer the queue acquired is in the hands of one fetch, staged once, in
\* a reader's hands or under one view: none is leaked and none is given back twice,
\* through stale selections, failures, timeouts and cancellation.
BuffersConserved ==
  held = Cardinality({t \in Timesteps : fetch[t] = "reading"}) + Cardinality(Completed)
         + Cardinality({r \in Readers : pc[r] = "wrapping"}) + views

\* A buffer handed out before the deadline really holds the requested selection,
\* although fetched_bbox_ keeps entries of buffers long gone.
SelectionHonoured ==
  [][\A r \in Readers :
       pc[r] # "wrapping" /\ pc'[r] = "wrapping"
         => expired[r] \/ completed[rt[r]] = rsel[r]]_vars

\* With one reader a sleeping caller is never forgotten: its timestep has a fetch
\* under way or an answer waiting.
SleeperTracked ==
  \A r \in Readers : pc[r] = "asleep" => Tracked(rt[r])

\* A call of get_buffer whose deadline has passed returns, however often it is woken
\* for other timesteps.
DeadlineEndsRead == \A r \in Readers : expired[r] ~> ~expired[r]

\* Closing the dataset lets go of readers without help from the clock.
CancelFreesReaders ==
  \A r \in Readers : (cancelled /\ pc[r] # "idle") ~> pc[r] = "idle"

\* prefetch_queue.hpp of get_buffer: "The returned buffer ALWAYS matches `bbox`
\* exactly."
AlwaysMatches ==
  [][\A r \in Readers :
       pc[r] # "wrapping" /\ pc'[r] = "wrapping"
         => completed[rt[r]] = rsel[r]]_vars

=============================================================================
