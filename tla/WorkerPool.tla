----------------------------- MODULE WorkerPool -----------------------------
(***************************************************************************)
(* The background thread pool (src/src/workers/worker_pool.{hpp,cpp}):     *)
(* a FIFO of write tasks, a heap of prefetch tasks, per-(dataset,          *)
(* variable) ordering, admission control, drain and shutdown.              *)
(*                                                                         *)
(* An action is one critical section of mu_, or one step taken without it. *)
(* cv_ and the 50 ms poll of worker_loop are not state: a worker at the    *)
(* top of its loop looks at the queues again whatever woke it.  exec_seq   *)
(* is written under the pair's own mutex and read under mu_, so a reader   *)
(* may see it before or after the update; the interleaving of EndCallback  *)
(* with TryExecuteOne gives both.                                          *)
(***************************************************************************)
EXTENDS Naturals, Sequences, FiniteSets

CONSTANTS
  Workers,              \* worker threads
  Hosts,                \* threads that submit tasks
  Datasets, Variables,  \* a DatasetVariableKey is a pair of these
  Distances,            \* distances of prefetch tasks
  BackpressureModes,    \* the values of backpressure_.enabled to consider
  LowWatermark, HighWatermark, QueueCapacity,
  MaxWrites,            \* bound: write tasks accepted for one pair
  MaxPrefetches,        \* bound: prefetch tasks accepted
  None                  \* no worker, no task

Keys == Datasets \X Variables

ASSUME WorkerPoolAssumption ==
  /\ IsFiniteSet(Workers) /\ None \notin Workers
  /\ None \notin Keys /\ None \notin Keys \X Nat
  /\ Distances \subseteq Nat
  /\ BackpressureModes \subseteq BOOLEAN
  /\ LowWatermark \in Nat /\ HighWatermark \in Nat /\ QueueCapacity \in Nat
  /\ LowWatermark < HighWatermark /\ HighWatermark <= QueueCapacity
  /\ MaxWrites \in Nat /\ MaxPrefetches \in Nat

VARIABLES
  write_queue,           \* <<key, dv_seq>> of each queued write task
  prefetch_queue,        \* [id, distance] of each queued prefetch task
  next_seq, exec_seq,    \* DvOrderState of each key
  dv_owner,              \* holder of DvOrderState::mu of each key
  backpressure,          \* backpressure_.enabled, fixed by the constructor
  shutdown,              \* shutdown_
  in_flight,             \* in_flight_
  writes_completed, prefetches_completed,
  wpc,                   \* where each worker is
  wtask,                 \* the write task a worker took off the queue
  hpc,                   \* where each host thread is in a submit call
  hkey, hdist,           \* the key or the distance of that call
  prefetches,            \* prefetch tasks accepted so far (their ids)
  started,               \* 1 + dv_seq of the last write callback entered (history)
  drain                  \* where the thread that calls drain is

queueVars == <<write_queue, prefetch_queue, next_seq, prefetches>>
countVars == <<in_flight, writes_completed, prefetches_completed>>
hostVars == <<hpc, hkey, hdist>>
workVars == <<exec_seq, dv_owner, wpc, wtask, started>>
callVars == <<backpressure, shutdown, drain>>
vars == <<queueVars, countVars, hostVars, workVars, callVars>>

WriteTasks == Keys \X Nat
PrefetchTasks == [id : Nat, distance : Distances]
Key(task) == task[1]
Seqno(task) == task[2]

WorkerStates == {"loop", "locking", "running", "unlocking", "prefetching",
                 "finishing", "exited"}
HoldsWrite == {"locking", "running", "unlocking"}
HasTask == HoldsWrite \cup {"prefetching", "finishing"}

TypeOK ==
  /\ write_queue \in Seq(WriteTasks)
  /\ prefetch_queue \in SUBSET PrefetchTasks
  /\ next_seq \in [Keys -> Nat] /\ exec_seq \in [Keys -> Nat]
  /\ dv_owner \in [Keys -> Workers \cup {None}]
  /\ backpressure \in BackpressureModes /\ shutdown \in BOOLEAN
  /\ in_flight \in Nat /\ writes_completed \in Nat /\ prefetches_completed \in Nat
  /\ wpc \in [Workers -> WorkerStates]
  /\ wtask \in [Workers -> WriteTasks \cup {None}]
  /\ hpc \in [Hosts -> {"idle", "writing", "blocked", "prefetching"}]
  /\ hkey \in [Hosts -> Keys \cup {None}]
  /\ hdist \in [Hosts -> Distances \cup {None}]
  /\ prefetches \in Nat
  /\ started \in [Keys -> Nat]
  /\ drain \in {"idle", "waiting", "drained"}

Init ==
  /\ write_queue = <<>> /\ prefetch_queue = {}
  /\ next_seq = [k \in Keys |-> 0] /\ exec_seq = [k \in Keys |-> 0]
  /\ dv_owner = [k \in Keys |-> None]
  /\ backpressure \in BackpressureModes /\ shutdown = FALSE
  /\ in_flight = 0 /\ writes_completed = 0 /\ prefetches_completed = 0
  /\ wpc = [w \in Workers |-> "loop"] /\ wtask = [w \in Workers |-> None]
  /\ hpc = [h \in Hosts |-> "idle"]
  /\ hkey = [h \in Hosts |-> None] /\ hdist = [h \in Hosts |-> None]
  /\ prefetches = 0
  /\ started = [k \in Keys |-> 0]
  /\ drain = "idle"

-----------------------------------------------------------------------------
(* submit_write and submit_prefetch.  shutdown_ is tested before mu_ is    *)
(* taken: a call that saw FALSE goes on whatever happens in between, and   *)
(* one that saw TRUE returns at once (no step here).  The three overloads  *)
(* of submit_write differ in how they report a rejection.                  *)

BeginWrite(h, k) ==
  /\ hpc[h] = "idle" /\ ~shutdown
  /\ next_seq[k] + Cardinality({g \in Hosts : hkey[g] = k}) < MaxWrites
  /\ hpc' = [hpc EXCEPT ![h] = "writing"]
  /\ hkey' = [hkey EXCEPT ![h] = k]
  /\ UNCHANGED <<hdist, queueVars, countVars, workVars, callVars>>

BeginPrefetch(h, d) ==
  /\ hpc[h] = "idle" /\ ~shutdown
  /\ prefetches + Cardinality({g \in Hosts : hpc[g] = "prefetching"}) < MaxPrefetches
  /\ hpc' = [hpc EXCEPT ![h] = "prefetching"]
  /\ hdist' = [hdist EXCEPT ![h] = d]
  /\ UNCHANGED <<hkey, queueVars, countVars, workVars, callVars>>

Returns(h) ==
  /\ hpc' = [hpc EXCEPT ![h] = "idle"]
  /\ hkey' = [hkey EXCEPT ![h] = None]
  /\ hdist' = [hdist EXCEPT ![h] = None]

\* The call numbers the task and appends it.
Enqueue(h) ==
  LET k == hkey[h] IN
  /\ next_seq' = [next_seq EXCEPT ![k] = @ + 1]
  /\ write_queue' = Append(write_queue, <<k, next_seq[k]>>)
  /\ Returns(h)
  /\ UNCHANGED <<prefetch_queue, prefetches>>

\* The call returns without having queued anything.
Reject(h) == Returns(h) /\ UNCHANGED queueVars

QueueFull == Len(write_queue) >= QueueCapacity

SubmitWrite(h) ==
  /\ hpc[h] = "writing"
  /\ \/ /\ ~backpressure
        /\ \/ QueueFull /\ Reject(h)
           \/ ~QueueFull /\ Enqueue(h)
     \/ /\ backpressure
        /\ \/ /\ Len(write_queue) >= HighWatermark
              /\ hpc' = [hpc EXCEPT ![h] = "blocked"]
              /\ UNCHANGED <<queueVars, hkey, hdist>>
           \/ /\ Len(write_queue) < HighWatermark
              /\ \/ shutdown /\ Reject(h)
                 \/ ~shutdown /\ Enqueue(h)
  /\ UNCHANGED <<countVars, workVars, callVars>>

\* Wrong on purpose: a blocked caller does not look at shutdown_ when it wakes.
LeaveWaitOpen(h) ==
  /\ hpc[h] = "blocked"
  /\ ~shutdown /\ Enqueue(h)
  /\ UNCHANGED <<countVars, workVars, callVars>>

\* backpressure_cv_.wait_for ends, by its predicate or after one second; the
\* result is not looked at.
LeaveWait(h) ==
  /\ hpc[h] = "blocked"
  /\ \/ shutdown /\ Reject(h)
     \/ ~shutdown /\ Enqueue(h)
  /\ UNCHANGED <<countVars, workVars, callVars>>

BelowLowWatermark == Len(write_queue) < LowWatermark

BackpressureWake(h) == (BelowLowWatermark \/ shutdown) /\ LeaveWait(h)
BackpressureTimeout(h) == ~(BelowLowWatermark \/ shutdown) /\ LeaveWait(h)

SubmitPrefetch(h) ==
  /\ hpc[h] = "prefetching"
  /\ prefetches' = prefetches + 1
  /\ prefetch_queue' = prefetch_queue \cup {[id |-> prefetches, distance |-> hdist[h]]}
  /\ Returns(h)
  /\ UNCHANGED <<write_queue, next_seq, countVars, workVars, callVars>>

-----------------------------------------------------------------------------
(* The worker threads.                                                     *)

\* Wrong on purpose: any write task may run.
ReadyAlways(task) == TRUE

\* A write task may run when its predecessors of the same pair have run.
Ready(task) == Seqno(task) = exec_seq[Key(task)]

\* Wrong on purpose: in_flight_ is not raised.
TakePrefetchUncounted(w) ==
  /\ \E p \in prefetch_queue : prefetch_queue' = prefetch_queue \ {p}
  /\ wpc' = [wpc EXCEPT ![w] = "prefetching"]
  /\ UNCHANGED <<next_seq, prefetches, countVars, hostVars, exec_seq, dv_owner, wtask,
                 started, callVars>>

\* Pop the prefetch task with the least distance and leave mu_ with it.
TakePrefetch(w) ==
  /\ \E p \in prefetch_queue :
       /\ \A q \in prefetch_queue : p.distance <= q.distance
       /\ prefetch_queue' = prefetch_queue \ {p}
  /\ wpc' = [wpc EXCEPT ![w] = "prefetching"]
  /\ in_flight' = in_flight + 1
  /\ UNCHANGED <<next_seq, prefetches, writes_completed, prefetches_completed, hostVars,
                 exec_seq, dv_owner, wtask, started, callVars>>

\* Pop the first write task and leave mu_ with it.
TakeWrite(w) ==
  /\ write_queue' = Tail(write_queue)
  /\ wtask' = [wtask EXCEPT ![w] = Head(write_queue)]
  /\ wpc' = [wpc EXCEPT ![w] = "locking"]
  /\ in_flight' = in_flight + 1
  /\ UNCHANGED <<prefetch_queue, next_seq, prefetches, writes_completed,
                 prefetches_completed, hostVars, exec_seq, dv_owner, started, callVars>>

\* Wrong on purpose: the popped task is forgotten.
RequeueLost == Tail(write_queue)

\* The queue after its first task, popped and found not ready, is pushed back.
Requeue == Append(Tail(write_queue), Head(write_queue))

\* One round of worker_loop that finds a queue non-empty.
TryExecuteOne(w) ==
  /\ wpc[w] = "loop"
  /\ \/ /\ write_queue # <<>> /\ Ready(Head(write_queue))
        /\ TakeWrite(w)
     \/ /\ write_queue # <<>> /\ ~Ready(Head(write_queue))
        /\ write_queue' = Requeue
        /\ \/ prefetch_queue # {} /\ TakePrefetch(w)
           \/ /\ prefetch_queue = {}
              /\ UNCHANGED <<prefetch_queue, next_seq, prefetches, countVars, hostVars,
                             workVars, callVars>>
     \/ /\ write_queue = <<>> /\ prefetch_queue # {}
        /\ TakePrefetch(w)
        /\ UNCHANGED write_queue

\* The worker locks the pair's mutex and enters the callback.
BeginCallback(w) ==
  LET k == Key(wtask[w]) IN
  /\ wpc[w] = "locking" /\ dv_owner[k] = None
  /\ dv_owner' = [dv_owner EXCEPT ![k] = w]
  /\ wpc' = [wpc EXCEPT ![w] = "running"]
  /\ started' = [started EXCEPT ![k] = Seqno(wtask[w]) + 1]
  /\ UNCHANGED <<queueVars, countVars, hostVars, exec_seq, wtask, callVars>>

\* Wrong on purpose: a callback that throws leaves exec_seq behind.
EndCallbackStuck(w) ==
  /\ wpc[w] = "running"
  /\ wpc' = [wpc EXCEPT ![w] = "unlocking"]
  /\ UNCHANGED <<queueVars, countVars, hostVars, exec_seq, dv_owner, wtask, started,
                 callVars>>

\* The callback returns or throws into the cordon; exec_seq advances either way.
EndCallback(w) ==
  /\ wpc[w] = "running"
  /\ wpc' = [wpc EXCEPT ![w] = "unlocking"]
  /\ exec_seq' = [exec_seq EXCEPT ![Key(wtask[w])] = @ + 1]
  /\ UNCHANGED <<queueVars, countVars, hostVars, dv_owner, wtask, started, callVars>>

\* The lock guard goes out of scope and the completion is counted.
UnlockPair(w) ==
  /\ wpc[w] = "unlocking"
  /\ dv_owner' = [dv_owner EXCEPT ![Key(wtask[w])] = None]
  /\ wpc' = [wpc EXCEPT ![w] = "finishing"]
  /\ wtask' = [wtask EXCEPT ![w] = None]
  /\ writes_completed' = writes_completed + 1
  /\ UNCHANGED <<queueVars, in_flight, prefetches_completed, hostVars, exec_seq, started,
                 callVars>>

EndPrefetch(w) ==
  /\ wpc[w] = "prefetching"
  /\ wpc' = [wpc EXCEPT ![w] = "finishing"]
  /\ prefetches_completed' = prefetches_completed + 1
  /\ UNCHANGED <<queueVars, in_flight, writes_completed, hostVars, exec_seq, dv_owner,
                 wtask, started, callVars>>

FinishTask(w) ==
  /\ wpc[w] = "finishing"
  /\ wpc' = [wpc EXCEPT ![w] = "loop"]
  /\ in_flight' = in_flight - 1
  /\ UNCHANGED <<queueVars, writes_completed, prefetches_completed, hostVars, exec_seq,
                 dv_owner, wtask, started, callVars>>

\* A worker leaves its loop only when both queues are empty.
NothingQueued == write_queue = <<>> /\ prefetch_queue = {}

\* Wrong on purpose: the loop ends as soon as shutdown_ is seen.
ExitLoopAtOnce(w) ==
  /\ wpc[w] = "loop" /\ shutdown
  /\ wpc' = [wpc EXCEPT ![w] = "exited"]
  /\ UNCHANGED <<queueVars, countVars, hostVars, exec_seq, dv_owner, wtask, started,
                 callVars>>

ExitLoop(w) ==
  /\ wpc[w] = "loop" /\ shutdown /\ NothingQueued
  /\ wpc' = [wpc EXCEPT ![w] = "exited"]
  /\ UNCHANGED <<queueVars, countVars, hostVars, exec_seq, dv_owner, wtask, started,
                 callVars>>

Shutdown ==
  /\ ~shutdown
  /\ shutdown' = TRUE
  /\ UNCHANGED <<queueVars, countVars, hostVars, workVars, backpressure, drain>>

\* Wrong on purpose: tasks that workers hold are not waited for.
QuiescentQueues == NothingQueued

\* drain waits for an idle pool, five seconds at most, and returns either way.
Quiescent == NothingQueued /\ in_flight = 0

Drain ==
  /\ \/ drain # "waiting" /\ drain' = "waiting"
     \/ drain = "waiting" /\ Quiescent /\ drain' = "drained"
     \/ drain = "waiting" /\ ~Quiescent /\ drain' = "idle"
  /\ UNCHANGED <<queueVars, countVars, hostVars, workVars, backpressure, shutdown>>

-----------------------------------------------------------------------------
WorkerStep(w) ==
  \/ TryExecuteOne(w) \/ BeginCallback(w) \/ EndCallback(w) \/ UnlockPair(w)
  \/ EndPrefetch(w) \/ FinishTask(w) \/ ExitLoop(w)

HostStep(h) ==
  \/ \E k \in Keys : BeginWrite(h, k)
  \/ \E d \in Distances : BeginPrefetch(h, d)
  \/ SubmitWrite(h) \/ BackpressureWake(h) \/ BackpressureTimeout(h)
  \/ SubmitPrefetch(h)

Next ==
  \/ \E w \in Workers : WorkerStep(w)
  \/ \E h \in Hosts : HostStep(h)
  \/ Shutdown
  \/ Drain

Spec == Init /\ [][Next]_vars

\* The operating system runs every worker thread and every thread inside a call.
Fairness ==
  /\ \A w \in Workers : WF_vars(WorkerStep(w))
  /\ \A h \in Hosts : WF_vars(hpc[h] # "idle" /\ HostStep(h))

FairSpec == Spec /\ Fairness

-----------------------------------------------------------------------------
(* Properties.                                                             *)

QueuedWrites == {write_queue[i] : i \in DOMAIN write_queue}
HeldWrites == {wtask[w] : w \in {v \in Workers : wpc[v] \in {"locking", "running"}}}

OW == INSTANCE OrderedWrites WITH
  submitted <- next_seq, started <- started, done <- exec_seq

\* The pool implements ordered writes: whatever the number of workers and however
\* tasks are popped, found not ready and pushed back, the callbacks of one pair
\* are entered in submission order, one at a time, each once (R6.2, R6.3).
ImplementsOrderedWrites == OW!OrderedSpec

\* Popping a task that is not ready and pushing it back neither loses nor
\* duplicates it: a write accepted and not executed yet is in the queue once, or
\* in the hands of one worker.
EveryTaskInOnePlace ==
  /\ \A k \in Keys, n \in 0 .. MaxWrites :
       exec_seq[k] <= n /\ n < next_seq[k] <=> <<k, n>> \in QueuedWrites \cup HeldWrites
  /\ \A i, j \in DOMAIN write_queue : write_queue[i] = write_queue[j] => i = j
  /\ QueuedWrites \cap HeldWrites = {}
  /\ \A v, w \in Workers : v # w /\ wtask[v] # None => wtask[v] # wtask[w]

\* Callbacks of one (dataset, variable) pair never overlap, although exec_seq is
\* read without the pair's mutex.
OneCallbackPerPair ==
  \A v, w \in Workers :
    v # w /\ wpc[v] = "running" /\ wpc[w] = "running" => Key(wtask[v]) # Key(wtask[w])

\* When drain returns because its predicate held, every task accepted so far has
\* been executed and counted.
DrainedMeansExecuted ==
  [][drain = "waiting" /\ drain' = "drained" =>
       /\ exec_seq = next_seq
       /\ prefetches_completed = prefetches]_vars

\* A write accepted before shutdown is executed, also when shutdown comes while
\* it is queued behind tasks that are not ready.
AcceptedIsExecuted ==
  \A k \in Keys, n \in 1 .. MaxWrites :
    (next_seq[k] >= n /\ ~shutdown) ~> (exec_seq[k] >= n)

\* Shutdown ends: every worker leaves its loop and can be joined.
ShutdownJoins == shutdown ~> \A w \in Workers : wpc[w] = "exited"

\* submit_write never keeps its caller for ever.
SubmitReturns == \A h \in Hosts : hpc[h] # "idle" ~> hpc[h] = "idle"

=============================================================================
