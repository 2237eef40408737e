----------------------------- MODULE WritePath -----------------------------
(***************************************************************************)
(* The asynchronous write path of one dataset (amio_write, amio_wait,      *)
(* amio_flush, amio_close and amio_finalize in                             *)
(* src/src/c_boundary/amio_core.cpp), with the atomics its callback and    *)
(* the host threads share: pending_writes, has_failure, IoRecord.          *)
(*                                                                         *)
(* An action is one atomic access, or a call into the staging pool, the    *)
(* worker pool or the driver.  The writes go to different variables, so    *)
(* the worker pool may run their callbacks in any order and at the same    *)
(* time; its capacity test is kept.  The staging pool is shared with other *)
(* datasets, so acquire may fail whenever it is called; the buffers this   *)
(* dataset holds are counted.                                              *)
(***************************************************************************)
EXTENDS Integers, FiniteSets

CONSTANTS
  Hosts,          \* threads of the host model
  Writes,         \* the amio_write calls of a behaviour
  QueueCapacity,  \* write tasks the worker pool accepts
  PendingLimit,   \* pending_writes is taken modulo this (2^64)
  None            \* no write

ASSUME WritePathAssumption ==
  /\ IsFiniteSet(Hosts) /\ IsFiniteSet(Writes) /\ None \notin Writes
  /\ QueueCapacity \in Nat
  /\ PendingLimit \in Nat /\ PendingLimit > 2 * Cardinality(Writes)

VARIABLES
  task,             \* how far each write is
  completed, failed,                 \* IoRecord: writes whose flag is set
  has_failure, first_failure_code,   \* DatasetRecord
  pending_writes,   \* DatasetRecord
  buffers,          \* staging buffers handed out
  driver,           \* "open" or "closed"
  open,             \* the dataset handle resolves
  finalized,        \* amio_finalize has returned
  hpc, hio,         \* where each host is, and the write of its call
  answer,           \* what the host's last call returned
  returned,         \* writes whose amio_write returned AMIO_OK (history)
  written,          \* writes the driver has stored (history)
  excused,          \* hosts whose answer is not to be relied on (history)
  base              \* writes that had returned when the host's call began (history)

ioVars == <<completed, failed, written>>
recordVars == <<has_failure, first_failure_code, pending_writes>>
stateVars == <<driver, open, finalized>>
hostVars == <<hpc, hio, answer, excused, base>>
vars == <<task, buffers, returned, ioVars, recordVars, stateVars, hostVars>>

InTask(S) == {w \in Writes : task[w] \in S}
Dropped == InTask({"dropped"})
InCallback == {"writing", "failing", "flagged", "releasing", "uncounted"}
HoldsBuffer == {"staged", "queued", "writing", "failing", "flagged", "releasing"}

TypeOK ==
  /\ task \in [Writes -> {"unused", "done", "dropped"} \cup InCallback \cup HoldsBuffer]
  /\ completed \subseteq Writes /\ failed \subseteq Writes
  /\ has_failure \in BOOLEAN /\ first_failure_code \in {"ok", "error"}
  /\ pending_writes \in 0 .. PendingLimit - 1
  /\ buffers \in Nat
  /\ driver \in {"open", "closed"} /\ open \in BOOLEAN /\ finalized \in BOOLEAN
  /\ hpc \in [Hosts -> {"idle", "submitting", "counting", "waiting", "flushing", "surfacing",
                        "draining", "collecting", "closing"}]
  /\ hio \in [Hosts -> Writes \cup {None}]
  /\ answer \in [Hosts -> {"none", "ok", "error", "timeout"}]
  /\ returned \subseteq Writes /\ written \subseteq Writes
  /\ excused \subseteq Hosts /\ base \in [Hosts -> SUBSET Writes]

Init ==
  /\ task = [w \in Writes |-> "unused"]
  /\ completed = {} /\ failed = {}
  /\ has_failure = FALSE /\ first_failure_code = "ok"
  /\ pending_writes = 0 /\ buffers = 0
  /\ driver = "open" /\ open = TRUE /\ finalized = FALSE
  /\ hpc = [h \in Hosts |-> "idle"] /\ hio = [h \in Hosts |-> None]
  /\ answer = [h \in Hosts |-> "none"]
  /\ returned = {} /\ written = {}
  /\ excused = {} /\ base = [h \in Hosts |-> {}]

-----------------------------------------------------------------------------
(* The host's calls.                                                       *)

Goto(h, where) == hpc' = [hpc EXCEPT ![h] = where] /\ UNCHANGED <<hio, answer, excused, base>>

Return(h, status) ==
  /\ hpc' = [hpc EXCEPT ![h] = "idle"]
  /\ hio' = [hio EXCEPT ![h] = None]
  /\ answer' = [answer EXCEPT ![h] = status]
  /\ excused' = excused \ {h} /\ base' = [base EXCEPT ![h] = {}]

\* A call begins; it is about write w, or about the whole dataset.
Begin(h, where, w) ==
  /\ hpc[h] = "idle" /\ ~finalized
  /\ hpc' = [hpc EXCEPT ![h] = where]
  /\ hio' = [hio EXCEPT ![h] = w]
  /\ answer' = [answer EXCEPT ![h] = "none"]
  /\ base' = [base EXCEPT ![h] = returned]
  /\ UNCHANGED excused

\* amio_write up to the snapshot; without a buffer it returns
\* AMIO_ERR_STAGING_BACKPRESSURE.
Write(h, w) ==
  /\ open /\ task[w] = "unused"
  /\ \/ /\ Begin(h, "submitting", w)
        /\ buffers' = buffers + 1
        /\ task' = [task EXCEPT ![w] = "staged"]
     \/ /\ hpc[h] = "idle" /\ ~finalized
        /\ Return(h, "error")
        /\ UNCHANGED <<buffers, task>>
  /\ UNCHANGED <<returned, ioVars, recordVars, stateVars>>

\* submit_write; amio_write does not look at what it returns.
SubmitWrite(h) ==
  /\ hpc[h] = "submitting"
  /\ task' = [task EXCEPT ![hio[h]] =
       IF Cardinality(InTask({"queued"})) >= QueueCapacity THEN "dropped" ELSE "queued"]
  /\ Goto(h, "counting")
  /\ UNCHANGED <<buffers, returned, ioVars, recordVars, stateVars>>

\* Wrong on purpose: the counter is raised for tasks that were queued only.
AddPendingQueued(h) ==
  IF task[hio[h]] = "dropped" THEN pending_writes ELSE (pending_writes + 1) % PendingLimit

AddPending(h) == (pending_writes + 1) % PendingLimit

\* pending_writes.fetch_add, after the task was queued.
CountWrite(h) ==
  /\ hpc[h] = "counting"
  /\ pending_writes' = AddPending(h)
  /\ returned' = returned \cup {hio[h]}
  /\ Return(h, "ok")
  /\ UNCHANGED <<task, buffers, ioVars, has_failure, first_failure_code, stateVars>>

\* amio_wait.
Wait(h, w) ==
  /\ w \in returned
  /\ Begin(h, "waiting", w)
  /\ UNCHANGED <<task, buffers, returned, ioVars, recordVars, stateVars>>

WaitEnds(h) ==
  /\ hpc[h] = "waiting" /\ hio[h] \in completed
  /\ Return(h, IF hio[h] \in failed THEN "error" ELSE "ok")
  /\ UNCHANGED <<task, buffers, returned, ioVars, recordVars, stateVars>>

\* amio_flush.
Flush(h) ==
  /\ open
  /\ Begin(h, "flushing", None)
  /\ UNCHANGED <<task, buffers, returned, ioVars, recordVars, stateVars>>

\* The polling loops of amio_flush and amio_close find pending_writes at zero.  The
\* answer is excused if another host has queued a write and not counted it yet.
Drained(h) ==
  /\ pending_writes = 0
  /\ \/ hpc[h] = "flushing" /\ hpc' = [hpc EXCEPT ![h] = "surfacing"]
     \/ hpc[h] = "draining" /\ hpc' = [hpc EXCEPT ![h] = "collecting"]
  /\ excused' = IF \E g \in Hosts : hpc[g] = "counting" THEN excused \cup {h} ELSE excused
  /\ UNCHANGED <<hio, answer, base>>
  /\ UNCHANGED <<task, buffers, returned, ioVars, recordVars, stateVars>>

\* Wrong on purpose: recorded failures are not looked at.
RecordedStatusIgnored == "ok"

RecordedStatus == IF has_failure THEN first_failure_code ELSE "ok"

FlushEnds(h) ==
  /\ hpc[h] = "surfacing"
  /\ Return(h, RecordedStatus)
  /\ UNCHANGED <<task, buffers, returned, ioVars, recordVars, stateVars>>

\* amio_close: drain, collect the recorded failure, close the driver, release
\* the handle.
Close(h) ==
  /\ open
  /\ Begin(h, "draining", None)
  /\ UNCHANGED <<task, buffers, returned, ioVars, recordVars, stateVars>>

\* The result amio_close keeps in a local is kept in answer.
CollectFailure(h) ==
  /\ hpc[h] = "collecting"
  /\ hpc' = [hpc EXCEPT ![h] = "closing"]
  /\ answer' = [answer EXCEPT ![h] = RecordedStatus]
  /\ UNCHANGED <<hio, excused, base, task, buffers, returned, ioVars, recordVars, stateVars>>

\* The driver's flush or close may throw.
CloseDriver(h) ==
  /\ hpc[h] = "closing"
  /\ \E status \in {answer[h], "error"} :
       Return(h, IF answer[h] = "ok" THEN status ELSE answer[h])
  /\ driver' = "closed" /\ open' = FALSE
  /\ UNCHANGED <<task, buffers, returned, ioVars, recordVars, finalized>>

\* The deadline of a polling loop: amio_close goes on, the others give up.
Deadline(h) ==
  /\ \/ hpc[h] \in {"waiting", "flushing"} /\ Return(h, "timeout")
     \/ /\ hpc[h] = "draining"
        /\ hpc' = [hpc EXCEPT ![h] = "collecting"]
        /\ excused' = excused \cup {h}
        /\ UNCHANGED <<hio, answer, base>>
  /\ UNCHANGED <<task, buffers, returned, ioVars, recordVars, stateVars>>

-----------------------------------------------------------------------------
(* The callback, on a worker thread.                                       *)

Advance(w, where) == task' = [task EXCEPT ![w] = where]

StartCallback(w) ==
  /\ task[w] = "queued"
  /\ Advance(w, "writing")
  /\ UNCHANGED <<buffers, returned, ioVars, recordVars, stateVars, hostVars>>

\* driver->write stores the buffer or throws; a closed driver throws.
DriverWrite(w) ==
  /\ task[w] = "writing"
  /\ \/ /\ driver = "open"
        /\ Advance(w, "releasing")
        /\ written' = written \cup {w}
        /\ completed' = completed \cup {w}
        /\ UNCHANGED failed
     \/ /\ Advance(w, "failing")
        /\ failed' = failed \cup {w}
        /\ UNCHANGED <<completed, written>>
  /\ UNCHANGED <<buffers, returned, recordVars, stateVars, hostVars>>

RaiseFlag(w) ==
  /\ task[w] = "failing"
  /\ Advance(w, "flagged")
  /\ has_failure' = TRUE
  /\ UNCHANGED <<buffers, returned, ioVars, first_failure_code, pending_writes, stateVars,
                 hostVars>>

RecordCode(w) ==
  /\ task[w] = "flagged"
  /\ Advance(w, "releasing")
  /\ first_failure_code' = "error"
  /\ UNCHANGED <<buffers, returned, ioVars, has_failure, pending_writes, stateVars, hostVars>>

\* Wrong on purpose: a failed write keeps its buffer.
AfterReleaseIfStored(w) == IF w \in failed THEN buffers ELSE buffers - 1

AfterRelease(w) == buffers - 1

ReleaseBuffer(w) ==
  /\ task[w] = "releasing"
  /\ Advance(w, "uncounted")
  /\ buffers' = AfterRelease(w)
  /\ UNCHANGED <<returned, ioVars, recordVars, stateVars, hostVars>>

\* Wrong on purpose: a failed write is never counted off.
SubtractPendingIfStored(w) ==
  IF w \in failed THEN pending_writes ELSE (pending_writes - 1) % PendingLimit

\* Wrong on purpose: a signed counter.
SubtractPendingSigned(w) == pending_writes - 1

SubtractPending(w) == (pending_writes - 1) % PendingLimit

\* pending_writes.fetch_sub.
UncountWrite(w) ==
  /\ task[w] = "uncounted"
  /\ Advance(w, "done")
  /\ pending_writes' = SubtractPending(w)
  /\ UNCHANGED <<buffers, returned, ioVars, has_failure, first_failure_code, stateVars,
                 hostVars>>

CallbackStep(w) ==
  \/ StartCallback(w) \/ DriverWrite(w) \/ RaiseFlag(w) \/ RecordCode(w)
  \/ ReleaseBuffer(w) \/ UncountWrite(w)

\* amio_finalize, called when no other call is under way: joining the worker
\* pool executes what is queued, then datasets and pool are torn down.
Finalize ==
  /\ ~finalized /\ \A h \in Hosts : hpc[h] = "idle"
  /\ InTask({"queued"} \cup InCallback) = {}
  /\ driver' = "closed" /\ open' = FALSE /\ finalized' = TRUE
  /\ UNCHANGED <<task, buffers, returned, ioVars, recordVars, hostVars>>

-----------------------------------------------------------------------------
HostReturns(h) ==
  \/ SubmitWrite(h) \/ CountWrite(h) \/ WaitEnds(h) \/ Drained(h) \/ FlushEnds(h)
  \/ CollectFailure(h) \/ CloseDriver(h)

Next ==
  \/ \E h \in Hosts :
       \/ \E w \in Writes : Write(h, w) \/ Wait(h, w)
       \/ Flush(h) \/ Close(h) \/ HostReturns(h) \/ Deadline(h)
  \/ \E w \in Writes : CallbackStep(w)
  \/ Finalize

Spec == Init /\ [][Next]_vars

\* A thread inside a call runs and the worker pool executes what it accepted.
\* Nothing is assumed of the clock: a timeout of 0 stands for 24 hours.
Fairness ==
  /\ \A h \in Hosts : WF_vars(HostReturns(h))
  /\ \A w \in Writes : WF_vars(CallbackStep(w))

FairSpec == Spec /\ Fairness

-----------------------------------------------------------------------------
(* Properties.                                                             *)

\* amio_flush and amio_close: when either returns AMIO_OK, every write that had
\* returned before the call is stored by the driver.  Excused are an amio_close that
\* stopped waiting and a call that polled in another host's window between
\* submit_write and fetch_add.
FlushMeansWritten ==
  [][\A h \in Hosts \ excused :
       hpc[h] \in {"surfacing", "closing"} /\ hpc'[h] = "idle" /\ answer'[h] = "ok"
         => base[h] \subseteq written]_vars

\* Each staging buffer handed out is under a write that still needs it, or under
\* one that the full queue refused (those are lost for good).
BuffersAccounted == buffers = Cardinality(InTask(HoldsBuffer)) + Cardinality(Dropped)

\* Outside the window between submit_write and fetch_add pending_writes counts the
\* writes that have returned and are not finished, the refused ones for ever: it
\* passes below zero on the way, and comes back, also over failed writes.
PendingExact ==
  (\A h \in Hosts : hpc[h] # "counting")
    => pending_writes = Cardinality({w \in returned : task[w] # "done"})

\* amio_flush ends without help from its timeout, unless the queue refused a write.
FlushReturns ==
  \A h \in Hosts : hpc[h] = "flushing" ~> (hpc[h] # "flushing" \/ Dropped # {})

\* amio.h of amio_flush: "Block until all pending writes for a dataset complete or
\* timeout": AMIO_OK says that they are complete.
FlushBlocks ==
  [][\A h \in Hosts :
       hpc[h] = "surfacing" /\ hpc'[h] = "idle" /\ answer'[h] = "ok"
         => base[h] \subseteq written]_vars

\* amio.h of amio_write: "AMIO_ERR_QUEUE_FULL - write queue at capacity", so a write
\* that returned AMIO_OK is queued.
QueueFullReported == returned \cap Dropped = {}

\* c-api.md: "amio_wait blocks until the specific write operation completes, fails,
\* or the timeout expires".
WaitEndsOnFailure ==
  \A h \in Hosts, w \in Writes :
    (hpc[h] = "waiting" /\ hio[h] = w /\ w \in failed) ~> hpc[h] # "waiting"

=============================================================================
