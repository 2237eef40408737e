-------------------------- MODULE WorkerPoolProofs --------------------------
(***************************************************************************)
(* Proofs about WorkerPool, for every number of workers, hosts, pairs and  *)
(* tasks.  TypeInv holds the counters, WriteInv the write tasks; their     *)
(* conjunction is inductive.  WriteInv says where each task is and why a   *)
(* worker that passed the dv_seq test may enter the callback without       *)
(* testing again: nobody else can advance the pair in between.             *)
(***************************************************************************)
EXTENDS WorkerPool, FiniteSetTheorems, TLAPS

Executing == {"locking", "running"}
Busy == {w \in Workers : wpc[w] \in HasTask}
Fetching == {w \in Workers : wpc[w] = "prefetching"}

Elems(s) == {s[i] : i \in DOMAIN s}
Distinct(s) == \A i, j \in DOMAIN s : s[i] = s[j] => i = j

\* in_flight_ counts the workers that have a task.
InFlightExact == in_flight = Cardinality(Busy)

\* An accepted prefetch is queued, running or counted as completed.
PrefetchExact ==
  /\ \A p \in prefetch_queue : p.id < prefetches
  /\ IsFiniteSet(prefetch_queue)
  /\ prefetches = prefetches_completed + Cardinality(prefetch_queue) + Cardinality(Fetching)

\* A host inside a submit call knows what it submits.
CallsTyped ==
  \A h \in Hosts :
    /\ hpc[h] \in {"writing", "blocked"} => hkey[h] \in Keys
    /\ hpc[h] = "prefetching" => hdist[h] \in Distances

TypeInv == TypeOK /\ CallsTyped /\ InFlightExact /\ PrefetchExact

\* A worker keeps a task while it is in one of the three states of a write.
TasksHeld == \A w \in Workers : wpc[w] \in HoldsWrite <=> wtask[w] # None

\* The task a worker is about to run or runs is the next one of its pair; one that
\* has run is behind.
HeldInTurn ==
  \A w \in Workers :
    /\ wpc[w] \in Executing => Seqno(wtask[w]) = exec_seq[Key(wtask[w])]
    /\ wpc[w] = "unlocking" => Seqno(wtask[w]) < exec_seq[Key(wtask[w])]

OnePerPair ==
  \A v, w \in Workers :
    v # w /\ wpc[v] \in Executing /\ wpc[w] \in Executing => Key(wtask[v]) # Key(wtask[w])

OwnerHolds ==
  \A k \in Keys, w \in Workers :
    dv_owner[k] = w <=> wpc[w] \in {"running", "unlocking"} /\ Key(wtask[w]) = k

Running(k) == \E w \in Workers : wpc[w] = "running" /\ Key(wtask[w]) = k

StartedExact ==
  \A k \in Keys : started[k] = IF Running(k) THEN exec_seq[k] + 1 ELSE exec_seq[k]

\* The tasks accepted and not executed are those queued or held.
Placed ==
  \A t \in WriteTasks :
    exec_seq[Key(t)] <= Seqno(t) /\ Seqno(t) < next_seq[Key(t)]
      <=> t \in Elems(write_queue) \/ t \in HeldWrites

Apart == Distinct(write_queue) /\ Elems(write_queue) \cap HeldWrites = {}

WriteInv ==
  /\ TasksHeld /\ HeldInTurn /\ OnePerPair /\ OwnerHolds /\ StartedExact
  /\ Placed /\ Apart
  /\ \A k \in Keys : exec_seq[k] <= next_seq[k]

Inv == TypeInv /\ WriteInv

-----------------------------------------------------------------------------
(* Tasks and sequences of tasks.                                           *)

\* A write task is its pair and its dv_seq.
LEMMA TaskParts ==
  /\ \A t \in WriteTasks : Key(t) \in Keys /\ Seqno(t) \in Nat
  /\ \A s, t \in WriteTasks : Key(s) = Key(t) /\ Seqno(s) = Seqno(t) => s = t
  /\ \A k \in Keys, n \in Nat :
       <<k, n>> \in WriteTasks /\ Key(<<k, n>>) = k /\ Seqno(<<k, n>>) = n
BY DEF WriteTasks, Key, Seqno

\* What Append does to the elements of a queue without repetitions.
LEMMA AppendElems ==
  ASSUME NEW S, NEW s \in Seq(S), NEW x \in S, Distinct(s), x \notin Elems(s)
  PROVE  /\ Elems(Append(s, x)) = Elems(s) \cup {x}
         /\ Distinct(Append(s, x))
<1>1. /\ Len(Append(s, x)) = Len(s) + 1
      /\ Append(s, x)[Len(s) + 1] = x
      /\ \A i \in 1 .. Len(s) : Append(s, x)[i] = s[i]
      /\ DOMAIN Append(s, x) = 1 .. Len(s) + 1
      /\ DOMAIN s = 1 .. Len(s)
      /\ Len(s) \in Nat
  OBVIOUS
<1>2. Elems(Append(s, x)) \subseteq Elems(s) \cup {x}
  BY <1>1 DEF Elems
<1>3. Elems(s) \cup {x} \subseteq Elems(Append(s, x))
  BY <1>1 DEF Elems
<1>4. Distinct(Append(s, x))
  BY <1>1 DEF Elems, Distinct
<1>5. QED
  BY <1>2, <1>3, <1>4

\* What Head and Tail do to the elements of a queue without repetitions.
LEMMA TailElems ==
  ASSUME NEW S, NEW s \in Seq(S), Distinct(s), s # <<>>
  PROVE  /\ Head(s) \in S /\ Tail(s) \in Seq(S)
         /\ Elems(s) = Elems(Tail(s)) \cup {Head(s)}
         /\ Head(s) \notin Elems(Tail(s))
         /\ Distinct(Tail(s))
<1>1. /\ Len(s) \in Nat /\ Len(s) > 0
      /\ DOMAIN s = 1 .. Len(s)
      /\ Head(s) = s[1]
      /\ Head(s) \in S /\ Tail(s) \in Seq(S)
      /\ DOMAIN Tail(s) = 1 .. Len(s) - 1
      /\ \A i \in 1 .. Len(s) - 1 : Tail(s)[i] = s[i + 1]
  OBVIOUS
<1>2. Elems(s) \subseteq Elems(Tail(s)) \cup {Head(s)}
  <2>1. SUFFICES ASSUME NEW i \in 1 .. Len(s), i # 1
                 PROVE  s[i] \in Elems(Tail(s))
    BY <1>1 DEF Elems
  <2>2. i - 1 \in DOMAIN Tail(s) /\ Tail(s)[i - 1] = s[i]
    BY <1>1, <2>1
  <2>3. QED
    BY <2>2 DEF Elems
<1>3. Elems(Tail(s)) \cup {Head(s)} \subseteq Elems(s)
  <2>1. Head(s) \in Elems(s)
    BY <1>1 DEF Elems
  <2>2. \A i \in 1 .. Len(s) - 1 : Tail(s)[i] \in Elems(s)
    BY <1>1 DEF Elems
  <2>3. QED
    BY <1>1, <2>1, <2>2 DEF Elems
<1>4. Head(s) \notin Elems(Tail(s)) /\ Distinct(Tail(s))
  BY <1>1 DEF Elems, Distinct
<1>5. QED
  BY <1>1, <1>2, <1>3, <1>4

-----------------------------------------------------------------------------
(* The write tasks.                                                        *)

\* A worker in one of the states of a write has a task.
LEMMA HeldIsTask ==
  ASSUME TypeOK, TasksHeld, NEW w \in Workers, wpc[w] \in HoldsWrite
  PROVE  wtask[w] \in WriteTasks /\ Key(wtask[w]) \in Keys /\ Seqno(wtask[w]) \in Nat
BY TaskParts DEF TypeOK, TasksHeld

\* A step that moves workers between states without a write, and at most reorders
\* the queue, keeps WriteInv.
LEMMA QuietStep ==
  ASSUME TypeOK, WriteInv,
         wpc' \in [Workers -> WorkerStates],
         \A v \in Workers : wpc'[v] = wpc[v]
                            \/ (wpc[v] \notin HoldsWrite /\ wpc'[v] \notin HoldsWrite),
         UNCHANGED <<next_seq, exec_seq, dv_owner, wtask, started>>,
         Elems(write_queue') = Elems(write_queue), Distinct(write_queue')
  PROVE  WriteInv'
<1>1. \A v \in Workers : /\ wpc'[v] \in HoldsWrite <=> wpc[v] \in HoldsWrite
                         /\ wpc[v] \in HoldsWrite => wpc'[v] = wpc[v]
                         /\ wpc'[v] \in Executing <=> wpc[v] \in Executing
                         /\ wpc'[v] = "running" <=> wpc[v] = "running"
                         /\ wpc'[v] = "unlocking" <=> wpc[v] = "unlocking"
  BY DEF HoldsWrite, Executing
<1>2. TasksHeld' /\ HeldInTurn' /\ OnePerPair'
  BY <1>1 DEF WriteInv, TasksHeld, HeldInTurn, OnePerPair
<1>3. OwnerHolds'
  BY <1>1 DEF WriteInv, OwnerHolds
<1>4. StartedExact'
  BY <1>1 DEF WriteInv, StartedExact, Running
<1>5. HeldWrites' = HeldWrites
  BY <1>1 DEF HeldWrites, Executing
<1>6. Placed' /\ Apart'
  BY <1>5 DEF WriteInv, Placed, Apart
<1>7. QED
  BY <1>2, <1>3, <1>4, <1>6 DEF WriteInv

\* A popped task that is pushed back leaves the same tasks in the queue.
LEMMA RequeueElems ==
  ASSUME TypeOK, WriteInv, write_queue # <<>>, write_queue' = Requeue
  PROVE  Elems(write_queue') = Elems(write_queue) /\ Distinct(write_queue')
         /\ write_queue' \in Seq(WriteTasks)
<1>1. Distinct(write_queue) /\ write_queue \in Seq(WriteTasks)
  BY DEF WriteInv, Apart, TypeOK
<1>2. /\ Head(write_queue) \in WriteTasks /\ Tail(write_queue) \in Seq(WriteTasks)
      /\ Elems(write_queue) = Elems(Tail(write_queue)) \cup {Head(write_queue)}
      /\ Head(write_queue) \notin Elems(Tail(write_queue))
      /\ Distinct(Tail(write_queue))
  BY <1>1, TailElems
<1>3. write_queue' = Append(Tail(write_queue), Head(write_queue))
  BY DEF Requeue
<1>4. /\ Elems(Append(Tail(write_queue), Head(write_queue)))
           = Elems(Tail(write_queue)) \cup {Head(write_queue)}
      /\ Distinct(Append(Tail(write_queue), Head(write_queue)))
  BY <1>2, AppendElems
<1>5. QED
  BY <1>2, <1>3, <1>4

\* Accepting a write keeps WriteInv: the new task is the youngest of its pair.
LEMMA EnqueueKeeps ==
  ASSUME TypeOK, WriteInv, NEW h \in Hosts, hkey[h] \in Keys, Enqueue(h),
         UNCHANGED workVars
  PROVE  WriteInv'
<1> DEFINE k == hkey[h]
           new == <<k, next_seq[k]>>
<1>1. /\ k \in Keys /\ next_seq[k] \in Nat /\ exec_seq[k] \in Nat /\ exec_seq[k] <= next_seq[k]
      /\ new \in WriteTasks /\ Key(new) = k /\ Seqno(new) = next_seq[k]
  BY TaskParts DEF TypeOK, WriteInv
<1>2. /\ next_seq' = [next_seq EXCEPT ![k] = @ + 1]
      /\ write_queue' = Append(write_queue, new)
      /\ UNCHANGED <<exec_seq, dv_owner, wpc, wtask, started>>
  BY DEF Enqueue, workVars
<1>3. new \notin Elems(write_queue) /\ new \notin HeldWrites
  BY <1>1 DEF WriteInv, Placed
<1>4. Elems(write_queue') = Elems(write_queue) \cup {new} /\ Distinct(write_queue')
  BY <1>1, <1>2, <1>3, AppendElems DEF WriteInv, Apart, TypeOK
<1>5. HeldWrites' = HeldWrites
  BY <1>2 DEF HeldWrites
<1>6. Apart'
  BY <1>3, <1>4, <1>5 DEF WriteInv, Apart
<1>7. Placed'
  <2>1. SUFFICES ASSUME NEW t \in WriteTasks
                 PROVE  exec_seq[Key(t)] <= Seqno(t) /\ Seqno(t) < next_seq'[Key(t)]
                          <=> t \in Elems(write_queue) \cup {new} \/ t \in HeldWrites
    BY <1>2, <1>4, <1>5 DEF Placed
  <2>2. Key(t) \in Keys /\ Seqno(t) \in Nat
    BY TaskParts
  <2>3. exec_seq[Key(t)] <= Seqno(t) /\ Seqno(t) < next_seq[Key(t)]
          <=> t \in Elems(write_queue) \/ t \in HeldWrites
    BY DEF WriteInv, Placed
  <2>4. CASE Key(t) # k
    <3>1. next_seq'[Key(t)] = next_seq[Key(t)] /\ t # new
      BY <1>1, <1>2, <2>2, <2>4 DEF TypeOK
    <3>2. QED
      BY <2>3, <3>1
  <2>5. CASE Key(t) = k
    <3>1. next_seq'[Key(t)] = next_seq[k] + 1
      BY <1>1, <1>2, <2>5 DEF TypeOK
    <3>2. t = new <=> Seqno(t) = next_seq[k]
      BY <1>1, <2>5, TaskParts
    <3>3. QED
      BY <1>1, <2>2, <2>3, <2>5, <3>1, <3>2
  <2>6. QED
    BY <2>4, <2>5
<1>8. TasksHeld' /\ HeldInTurn' /\ OnePerPair' /\ OwnerHolds'
  BY <1>2 DEF WriteInv, TasksHeld, HeldInTurn, OnePerPair, OwnerHolds
<1>9. StartedExact'
  BY <1>2 DEF WriteInv, StartedExact, Running
<1>10. \A j \in Keys : exec_seq'[j] <= next_seq'[j]
  BY <1>1, <1>2 DEF WriteInv, TypeOK
<1>11. QED
  BY <1>6, <1>7, <1>8, <1>9, <1>10 DEF WriteInv

\* Taking a ready task keeps WriteInv: no other worker holds a task of its pair,
\* since that task would have the same dv_seq.
LEMMA TakeWriteKeeps ==
  ASSUME TypeOK, WriteInv, NEW w \in Workers, wpc[w] = "loop",
         write_queue # <<>>, Ready(Head(write_queue)), TakeWrite(w)
  PROVE  WriteInv'
<1> DEFINE t == Head(write_queue)
<1>1. Distinct(write_queue) /\ write_queue \in Seq(WriteTasks)
  BY DEF WriteInv, Apart, TypeOK
<1>2. /\ t \in WriteTasks
      /\ Elems(write_queue) = Elems(Tail(write_queue)) \cup {t}
      /\ t \notin Elems(Tail(write_queue))
      /\ Distinct(Tail(write_queue))
  BY <1>1, TailElems
<1>3. Key(t) \in Keys /\ Seqno(t) = exec_seq[Key(t)] /\ t # None
  BY <1>2, TaskParts, WorkerPoolAssumption DEF Ready, WriteTasks
<1>4. /\ write_queue' = Tail(write_queue)
      /\ wtask' = [wtask EXCEPT ![w] = t]
      /\ wpc' = [wpc EXCEPT ![w] = "locking"]
      /\ UNCHANGED <<next_seq, exec_seq, dv_owner, started>>
  BY DEF TakeWrite
<1>5. /\ wpc'[w] = "locking" /\ wtask'[w] = t
      /\ \A v \in Workers \ {w} : wpc'[v] = wpc[v] /\ wtask'[v] = wtask[v]
  BY <1>4 DEF TypeOK
<1>6. \A v \in Workers \ {w} : wpc[v] \in Executing => Key(wtask[v]) # Key(t)
  <2>1. SUFFICES ASSUME NEW v \in Workers, wpc[v] \in Executing, Key(wtask[v]) = Key(t)
                 PROVE  FALSE
    OBVIOUS
  <2>2. wtask[v] \in WriteTasks /\ Seqno(wtask[v]) = Seqno(t)
    BY <1>3, <2>1, HeldIsTask DEF WriteInv, HeldInTurn, Executing, HoldsWrite
  <2>3. wtask[v] = t
    BY <1>2, <2>1, <2>2, TaskParts
  <2>4. t \in HeldWrites /\ t \in Elems(write_queue)
    BY <1>2, <2>1, <2>3 DEF HeldWrites, Executing
  <2>5. QED
    BY <2>4 DEF WriteInv, Apart
<1>7. HeldWrites' = HeldWrites \cup {t}
  BY <1>5 DEF HeldWrites
<1>8. Placed'
  BY <1>2, <1>4, <1>7 DEF WriteInv, Placed
<1>9. Apart'
  BY <1>2, <1>4, <1>7 DEF WriteInv, Apart
<1>10. TasksHeld'
  BY <1>3, <1>5 DEF WriteInv, TasksHeld, HoldsWrite
<1>11. HeldInTurn'
  BY <1>3, <1>4, <1>5 DEF WriteInv, HeldInTurn
<1>12. OnePerPair'
  BY <1>5, <1>6 DEF WriteInv, OnePerPair
<1>13. OwnerHolds'
  BY <1>4, <1>5 DEF WriteInv, OwnerHolds
<1>14. StartedExact'
  BY <1>4, <1>5 DEF WriteInv, StartedExact, Running
<1>15. \A k \in Keys : exec_seq'[k] <= next_seq'[k]
  BY <1>4 DEF WriteInv
<1>16. QED
  BY <1>8, <1>9, <1>10, <1>11, <1>12, <1>13, <1>14, <1>15 DEF WriteInv

\* Entering the callback keeps WriteInv.
LEMMA BeginCallbackKeeps ==
  ASSUME TypeOK, WriteInv, NEW w \in Workers, BeginCallback(w)
  PROVE  WriteInv'
<1> DEFINE k == Key(wtask[w])
<1>1. /\ wpc[w] = "locking" /\ dv_owner[k] = None
      /\ dv_owner' = [dv_owner EXCEPT ![k] = w]
      /\ wpc' = [wpc EXCEPT ![w] = "running"]
      /\ started' = [started EXCEPT ![k] = Seqno(wtask[w]) + 1]
      /\ UNCHANGED <<write_queue, next_seq, exec_seq, wtask>>
  BY DEF BeginCallback, queueVars
<1>2. /\ wtask[w] \in WriteTasks /\ k \in Keys /\ Seqno(wtask[w]) \in Nat
      /\ Seqno(wtask[w]) = exec_seq[k]
  BY <1>1, HeldIsTask DEF WriteInv, HeldInTurn, HoldsWrite, Executing
<1>3. /\ wpc'[w] = "running"
      /\ \A v \in Workers \ {w} : wpc'[v] = wpc[v]
  BY <1>1 DEF TypeOK
<1>4. HeldWrites' = HeldWrites
  BY <1>1, <1>3 DEF HeldWrites
<1>5. Placed' /\ Apart'
  BY <1>1, <1>4 DEF WriteInv, Placed, Apart
<1>6. TasksHeld' /\ HeldInTurn' /\ OnePerPair'
  BY <1>1, <1>3 DEF WriteInv, TasksHeld, HeldInTurn, OnePerPair, HoldsWrite, Executing
<1>7. OwnerHolds'
  <2>1. SUFFICES ASSUME NEW j \in Keys, NEW v \in Workers
                 PROVE  dv_owner'[j] = v
                          <=> wpc'[v] \in {"running", "unlocking"} /\ Key(wtask[v]) = j
    BY <1>1 DEF OwnerHolds
  <2>2. dv_owner[j] = v <=> wpc[v] \in {"running", "unlocking"} /\ Key(wtask[v]) = j
    BY DEF WriteInv, OwnerHolds
  <2>3. CASE j = k
    BY <1>1, <1>2, <1>3, <2>2, <2>3, WorkerPoolAssumption DEF TypeOK
  <2>4. CASE j # k
    BY <1>1, <1>2, <1>3, <2>2, <2>4 DEF TypeOK
  <2>5. QED
    BY <2>3, <2>4
<1>8. StartedExact'
  <2>1. SUFFICES ASSUME NEW j \in Keys
                 PROVE  started'[j] = IF Running(j)' THEN exec_seq[j] + 1 ELSE exec_seq[j]
    BY <1>1 DEF StartedExact
  <2>2. CASE j = k
    BY <1>1, <1>2, <1>3, <2>2 DEF TypeOK, Running
  <2>3. CASE j # k
    <3>1. started'[j] = started[j]
      BY <1>1, <1>2, <2>3 DEF TypeOK
    <3>2. Running(j)' <=> Running(j)
      BY <1>1, <1>3, <2>3 DEF Running
    <3>3. QED
      BY <3>1, <3>2 DEF WriteInv, StartedExact
  <2>4. QED
    BY <2>2, <2>3
<1>9. \A j \in Keys : exec_seq'[j] <= next_seq'[j]
  BY <1>1 DEF WriteInv
<1>10. QED
  BY <1>5, <1>6, <1>7, <1>8, <1>9 DEF WriteInv

\* Leaving the callback keeps WriteInv: the task that has run was the only one of
\* its pair in a worker's hands, so nobody else's test of dv_seq becomes stale.
LEMMA EndCallbackKeeps ==
  ASSUME TypeOK, WriteInv, NEW w \in Workers, EndCallback(w)
  PROVE  WriteInv'
<1> DEFINE t == wtask[w]
           k == Key(wtask[w])
<1>1. /\ wpc[w] = "running"
      /\ wpc' = [wpc EXCEPT ![w] = "unlocking"]
      /\ exec_seq' = [exec_seq EXCEPT ![k] = @ + 1]
      /\ UNCHANGED <<write_queue, next_seq, dv_owner, wtask, started>>
  BY DEF EndCallback, queueVars
<1>2. t \in WriteTasks /\ k \in Keys /\ Seqno(t) \in Nat /\ Seqno(t) = exec_seq[k]
  BY <1>1, HeldIsTask DEF WriteInv, HeldInTurn, HoldsWrite, Executing
<1>3. /\ wpc'[w] = "unlocking"
      /\ \A v \in Workers \ {w} : wpc'[v] = wpc[v]
      /\ exec_seq'[k] = exec_seq[k] + 1
      /\ \A j \in Keys \ {k} : exec_seq'[j] = exec_seq[j]
  BY <1>1, <1>2 DEF TypeOK
<1>4. t \in HeldWrites /\ t \notin Elems(write_queue)
  BY <1>1 DEF HeldWrites, WriteInv, Apart
<1>5. \A v \in Workers \ {w} : wpc[v] \in Executing => Key(wtask[v]) # k
  BY <1>1 DEF WriteInv, OnePerPair, Executing
<1>6. HeldWrites' = HeldWrites \ {t}
  <2>1. HeldWrites' \subseteq HeldWrites \ {t}
    BY <1>1, <1>3, <1>5 DEF HeldWrites, Executing
  <2>2. HeldWrites \ {t} \subseteq HeldWrites'
    BY <1>1, <1>3 DEF HeldWrites, Executing
  <2>3. QED
    BY <2>1, <2>2
<1>7. Placed'
  <2>1. SUFFICES ASSUME NEW u \in WriteTasks
                 PROVE  exec_seq'[Key(u)] <= Seqno(u) /\ Seqno(u) < next_seq[Key(u)]
                          <=> u \in Elems(write_queue) \/ u \in HeldWrites \ {t}
    BY <1>1, <1>6 DEF Placed
  <2>2. Key(u) \in Keys /\ Seqno(u) \in Nat
        /\ (u = t <=> Key(u) = k /\ Seqno(u) = exec_seq[k])
    BY <1>2, TaskParts
  <2>3. exec_seq[Key(u)] <= Seqno(u) /\ Seqno(u) < next_seq[Key(u)]
          <=> u \in Elems(write_queue) \/ u \in HeldWrites
    BY DEF WriteInv, Placed
  <2>4. exec_seq[Key(u)] \in Nat /\ next_seq[Key(u)] \in Nat
    BY <2>2 DEF TypeOK
  <2>5. CASE u = t
    BY <1>2, <1>3, <1>4, <2>5
  <2>6. CASE u # t
    BY <1>3, <2>2, <2>3, <2>4, <2>6
  <2>7. QED
    BY <2>5, <2>6
<1>8. Apart'
  BY <1>1, <1>6 DEF WriteInv, Apart
<1>9. TasksHeld' /\ OnePerPair'
  BY <1>1, <1>3 DEF WriteInv, TasksHeld, OnePerPair, HoldsWrite, Executing
<1>10. HeldInTurn'
  <2>1. SUFFICES ASSUME NEW v \in Workers
                 PROVE  /\ wpc'[v] \in Executing => Seqno(wtask[v]) = exec_seq'[Key(wtask[v])]
                        /\ wpc'[v] = "unlocking" => Seqno(wtask[v]) < exec_seq'[Key(wtask[v])]
    BY <1>1 DEF HeldInTurn
  <2>2. CASE v = w
    BY <1>2, <1>3, <2>2 DEF Executing
  <2>3. CASE v # w /\ wpc[v] \in HoldsWrite
    <3>1. Key(wtask[v]) \in Keys /\ Seqno(wtask[v]) \in Nat /\ exec_seq[Key(wtask[v])] \in Nat
      BY <2>3, HeldIsTask DEF WriteInv, TypeOK
    <3>2. QED
      BY <1>2, <1>3, <1>5, <2>3, <3>1 DEF WriteInv, HeldInTurn
  <2>4. CASE v # w /\ wpc[v] \notin HoldsWrite
    BY <1>3, <2>4 DEF Executing, HoldsWrite
  <2>5. QED
    BY <2>2, <2>3, <2>4
<1>11. OwnerHolds'
  BY <1>1, <1>3 DEF WriteInv, OwnerHolds
<1>12. StartedExact'
  <2>1. SUFFICES ASSUME NEW j \in Keys
                 PROVE  started[j] = IF Running(j)' THEN exec_seq'[j] + 1 ELSE exec_seq'[j]
    BY <1>1 DEF StartedExact
  <2>2. CASE j = k
    <3>1. Running(j) /\ ~Running(j)'
      BY <1>1, <1>3, <1>5, <2>2 DEF Running, Executing
    <3>2. QED
      BY <1>2, <1>3, <2>2, <3>1 DEF WriteInv, StartedExact
  <2>3. CASE j # k
    <3>1. Running(j)' <=> Running(j)
      BY <1>1, <1>3, <2>3 DEF Running
    <3>2. QED
      BY <1>3, <2>3, <3>1 DEF WriteInv, StartedExact
  <2>4. QED
    BY <2>2, <2>3
<1>13. \A j \in Keys : exec_seq'[j] <= next_seq'[j]
  <2>1. Seqno(t) < next_seq[k]
    BY <1>2, <1>4 DEF WriteInv, Placed
  <2>2. QED
    BY <1>1, <1>2, <1>3, <2>1 DEF WriteInv, TypeOK
<1>14. QED
  BY <1>7, <1>8, <1>9, <1>10, <1>11, <1>12, <1>13 DEF WriteInv

\* Giving the pair's mutex back keeps WriteInv.
LEMMA UnlockPairKeeps ==
  ASSUME TypeOK, WriteInv, NEW w \in Workers, UnlockPair(w)
  PROVE  WriteInv'
<1> DEFINE k == Key(wtask[w])
<1>1. /\ wpc[w] = "unlocking"
      /\ dv_owner' = [dv_owner EXCEPT ![k] = None]
      /\ wpc' = [wpc EXCEPT ![w] = "finishing"]
      /\ wtask' = [wtask EXCEPT ![w] = None]
      /\ UNCHANGED <<write_queue, next_seq, exec_seq, started>>
  BY DEF UnlockPair, queueVars
<1>2. k \in Keys
  BY <1>1, HeldIsTask DEF WriteInv, HoldsWrite
<1>3. /\ wpc'[w] = "finishing" /\ wtask'[w] = None
      /\ \A v \in Workers \ {w} : wpc'[v] = wpc[v] /\ wtask'[v] = wtask[v]
  BY <1>1 DEF TypeOK
<1>4. HeldWrites' = HeldWrites
  BY <1>1, <1>3 DEF HeldWrites
<1>5. Placed' /\ Apart'
  BY <1>1, <1>4 DEF WriteInv, Placed, Apart
<1>6. TasksHeld' /\ OnePerPair'
  BY <1>1, <1>3 DEF WriteInv, TasksHeld, OnePerPair, HoldsWrite, Executing
<1>7. HeldInTurn'
  BY <1>1, <1>3 DEF WriteInv, HeldInTurn, Executing
<1>8. OwnerHolds'
  <2>1. SUFFICES ASSUME NEW j \in Keys, NEW v \in Workers
                 PROVE  dv_owner'[j] = v
                          <=> wpc'[v] \in {"running", "unlocking"} /\ Key(wtask'[v]) = j
    BY DEF OwnerHolds
  <2>2. dv_owner[j] = v <=> wpc[v] \in {"running", "unlocking"} /\ Key(wtask[v]) = j
    BY DEF WriteInv, OwnerHolds
  <2>3. dv_owner[k] = w
    BY <1>1, <1>2 DEF WriteInv, OwnerHolds
  <2>4. CASE j = k
    BY <1>1, <1>2, <1>3, <2>2, <2>3, <2>4, WorkerPoolAssumption DEF TypeOK
  <2>5. CASE j # k
    BY <1>1, <1>2, <1>3, <2>2, <2>5 DEF TypeOK
  <2>6. QED
    BY <2>4, <2>5
<1>9. StartedExact'
  BY <1>1, <1>3 DEF WriteInv, StartedExact, Running
<1>10. \A j \in Keys : exec_seq'[j] <= next_seq'[j]
  BY <1>1 DEF WriteInv
<1>11. QED
  BY <1>5, <1>6, <1>7, <1>8, <1>9, <1>10 DEF WriteInv

-----------------------------------------------------------------------------
(* Types and counters.                                                     *)

\* The sets of workers that are counted are finite.
LEMMA CountedFinite ==
  /\ IsFiniteSet(Busy) /\ Cardinality(Busy) \in Nat
  /\ IsFiniteSet(Fetching) /\ Cardinality(Fetching) \in Nat
<1>1. Busy \in SUBSET Workers /\ Fetching \in SUBSET Workers /\ IsFiniteSet(Workers)
  BY WorkerPoolAssumption DEF Busy, Fetching
<1>2. QED
  BY <1>1, FS_Subset, FS_CardinalityType

\* A step that moves no worker and leaves the prefetch tasks alone keeps the counts.
LEMMA CountsFrame ==
  ASSUME InFlightExact, PrefetchExact,
         UNCHANGED <<wpc, in_flight, prefetch_queue, prefetches, prefetches_completed>>
  PROVE  InFlightExact' /\ PrefetchExact'
BY DEF InFlightExact, PrefetchExact, Busy, Fetching

\* The end of a submit call, with or without a task queued.
LEMMA SubmitTyped ==
  ASSUME TypeInv, NEW h \in Hosts, hkey[h] \in Keys, Enqueue(h) \/ Reject(h),
         UNCHANGED <<countVars, workVars, callVars>>
  PROVE  TypeInv'
<1>1. Returns(h) /\ UNCHANGED <<prefetch_queue, prefetches>>
  BY DEF Enqueue, Reject, queueVars
<1>2. write_queue' \in Seq(WriteTasks) /\ next_seq' \in [Keys -> Nat]
  <2>1. CASE Reject(h)
    BY <2>1 DEF Reject, queueVars, TypeInv, TypeOK
  <2>2. CASE Enqueue(h)
    <3>1. <<hkey[h], next_seq[hkey[h]]>> \in WriteTasks
      BY TaskParts DEF TypeInv, TypeOK
    <3>2. QED
      BY <2>2, <3>1 DEF Enqueue, TypeInv, TypeOK
  <2>3. QED
    BY <2>1, <2>2
<1>3. hpc' \in [Hosts -> {"idle", "writing", "blocked", "prefetching"}]
      /\ hkey' \in [Hosts -> Keys \cup {None}] /\ hdist' \in [Hosts -> Distances \cup {None}]
  BY <1>1 DEF Returns, TypeInv, TypeOK
<1>4. TypeOK'
  BY <1>1, <1>2, <1>3 DEF TypeInv, TypeOK, countVars, workVars, callVars
<1>5. CallsTyped'
  BY <1>1 DEF Returns, TypeInv, TypeOK, CallsTyped
<1>6. InFlightExact' /\ PrefetchExact'
  BY <1>1, CountsFrame DEF TypeInv, countVars, workVars
<1>7. QED
  BY <1>4, <1>5, <1>6 DEF TypeInv

\* Each step of a submitting thread keeps TypeInv.
LEMMA HostTyped ==
  ASSUME TypeInv, NEW h \in Hosts, HostStep(h)
  PROVE  TypeInv'
<1>1. CASE \E k \in Keys : BeginWrite(h, k)
  <2>1. PICK k \in Keys : BeginWrite(h, k)
    BY <1>1
  <2>2. TypeOK' /\ CallsTyped'
    BY <2>1 DEF BeginWrite, TypeInv, TypeOK, CallsTyped, queueVars, countVars, workVars, callVars
  <2>3. InFlightExact' /\ PrefetchExact'
    BY <2>1, CountsFrame DEF BeginWrite, TypeInv, queueVars, countVars, workVars
  <2>4. QED
    BY <2>2, <2>3 DEF TypeInv
<1>2. CASE \E d \in Distances : BeginPrefetch(h, d)
  <2>1. PICK d \in Distances : BeginPrefetch(h, d)
    BY <1>2
  <2>2. TypeOK' /\ CallsTyped'
    BY <2>1 DEF BeginPrefetch, TypeInv, TypeOK, CallsTyped, queueVars, countVars, workVars, callVars
  <2>3. InFlightExact' /\ PrefetchExact'
    BY <2>1, CountsFrame DEF BeginPrefetch, TypeInv, queueVars, countVars, workVars
  <2>4. QED
    BY <2>2, <2>3 DEF TypeInv
<1>3. CASE SubmitWrite(h)
  <2>1. hkey[h] \in Keys
    BY <1>3 DEF SubmitWrite, TypeInv, CallsTyped
  <2>2. CASE Enqueue(h) \/ Reject(h)
    BY <1>3, <2>1, <2>2, SubmitTyped DEF SubmitWrite
  <2>3. CASE hpc' = [hpc EXCEPT ![h] = "blocked"] /\ UNCHANGED <<queueVars, hkey, hdist>>
    <3>1. TypeOK' /\ CallsTyped'
      BY <1>3, <2>1, <2>3 DEF SubmitWrite, TypeInv, TypeOK, CallsTyped, queueVars, countVars,
                              workVars, callVars
    <3>2. InFlightExact' /\ PrefetchExact'
      BY <1>3, <2>3, CountsFrame DEF SubmitWrite, TypeInv, queueVars, countVars, workVars
    <3>3. QED
      BY <3>1, <3>2 DEF TypeInv
  <2>4. QED
    BY <1>3, <2>2, <2>3 DEF SubmitWrite
<1>4. CASE LeaveWait(h)
  <2>1. hkey[h] \in Keys
    BY <1>4 DEF LeaveWait, TypeInv, CallsTyped
  <2>2. QED
    BY <1>4, <2>1, SubmitTyped DEF LeaveWait
<1>5. CASE SubmitPrefetch(h)
  <2> DEFINE p == [id |-> prefetches, distance |-> hdist[h]]
  <2>1. hdist[h] \in Distances
    BY <1>5 DEF SubmitPrefetch, TypeInv, CallsTyped
  <2>2. /\ prefetches' = prefetches + 1 /\ prefetch_queue' = prefetch_queue \cup {p}
        /\ p \in PrefetchTasks /\ p.id = prefetches /\ prefetches \in Nat
    BY <1>5, <2>1 DEF SubmitPrefetch, TypeInv, TypeOK, PrefetchTasks
  <2>3. TypeOK' /\ CallsTyped'
    BY <1>5, <2>2 DEF SubmitPrefetch, Returns, TypeInv, TypeOK, CallsTyped, countVars, workVars,
                      callVars
  <2>4. p \notin prefetch_queue
    BY <2>2 DEF TypeInv, PrefetchExact
  <2>5. /\ IsFiniteSet(prefetch_queue')
        /\ Cardinality(prefetch_queue') = Cardinality(prefetch_queue) + 1
        /\ Cardinality(prefetch_queue) \in Nat
    BY <2>2, <2>4, FS_AddElement, FS_CardinalityType DEF TypeInv, PrefetchExact
  <2>6. \A q \in prefetch_queue' : q.id < prefetches'
    BY <2>2 DEF TypeInv, TypeOK, PrefetchExact, PrefetchTasks
  <2>7. UNCHANGED <<wpc, in_flight, prefetches_completed>>
    BY <1>5 DEF SubmitPrefetch, countVars, workVars
  <2>8. Busy' = Busy /\ Fetching' = Fetching
    BY <2>7 DEF Busy, Fetching
  <2>9. InFlightExact'
    BY <2>7, <2>8 DEF TypeInv, InFlightExact
  <2>10. PrefetchExact'
    BY <2>2, <2>5, <2>6, <2>7, <2>8, CountedFinite DEF TypeInv, TypeOK, PrefetchExact
  <2>11. QED
    BY <2>3, <2>9, <2>10 DEF TypeInv
<1>6. QED
  BY <1>1, <1>2, <1>3, <1>4, <1>5 DEF HostStep, BackpressureWake, BackpressureTimeout

\* A worker that takes a task is counted.
LEMMA BusyGrows ==
  ASSUME TypeInv, NEW w \in Workers, NEW x \in HasTask, wpc[w] = "loop",
         wpc' = [wpc EXCEPT ![w] = x], in_flight' = in_flight + 1
  PROVE  InFlightExact'
<1>1. w \notin Busy
  BY DEF Busy, HasTask, HoldsWrite
<1>2. Busy' = Busy \cup {w}
  BY DEF Busy, TypeInv, TypeOK
<1>3. Cardinality(Busy') = Cardinality(Busy) + 1
  BY <1>1, <1>2, CountedFinite, FS_AddElement
<1>4. QED
  BY <1>3 DEF TypeInv, InFlightExact

\* A worker that keeps a task, or stays without one, changes no count of tasks.
LEMMA BusyStays ==
  ASSUME TypeInv, NEW w \in Workers, NEW x,
         wpc[w] \in HasTask <=> x \in HasTask,
         wpc' = [wpc EXCEPT ![w] = x], UNCHANGED in_flight
  PROVE  InFlightExact'
<1>1. Busy' = Busy
  BY DEF Busy, TypeInv, TypeOK
<1>2. QED
  BY <1>1 DEF TypeInv, InFlightExact

\* A worker that neither starts nor ends a prefetch changes no count of prefetches.
LEMMA FetchingStays ==
  ASSUME TypeInv, NEW w \in Workers, NEW x,
         wpc[w] # "prefetching", x # "prefetching",
         wpc' = [wpc EXCEPT ![w] = x],
         UNCHANGED <<prefetch_queue, prefetches, prefetches_completed>>
  PROVE  PrefetchExact'
<1>1. Fetching' = Fetching
  BY DEF Fetching, TypeInv, TypeOK
<1>2. QED
  BY <1>1 DEF TypeInv, PrefetchExact

\* Popping the nearest prefetch keeps TypeInv, whatever became of the write queue.
LEMMA TakePrefetchTyped ==
  ASSUME TypeInv, NEW w \in Workers, wpc[w] = "loop", TakePrefetch(w),
         write_queue' \in Seq(WriteTasks)
  PROVE  TypeInv'
<1>1. PICK p \in prefetch_queue : prefetch_queue' = prefetch_queue \ {p}
  BY DEF TakePrefetch
<1>2. /\ wpc' = [wpc EXCEPT ![w] = "prefetching"] /\ in_flight' = in_flight + 1
      /\ UNCHANGED <<next_seq, prefetches, writes_completed, prefetches_completed, hpc, hkey,
                     hdist, exec_seq, dv_owner, wtask, started, backpressure, shutdown, drain>>
  BY DEF TakePrefetch, hostVars, callVars
<1>3. TypeOK' /\ CallsTyped'
  BY <1>1, <1>2 DEF TypeInv, TypeOK, CallsTyped, WorkerStates
<1>4. InFlightExact'
  BY <1>2, BusyGrows DEF HasTask
<1>5. /\ IsFiniteSet(prefetch_queue')
      /\ Cardinality(prefetch_queue') = Cardinality(prefetch_queue) - 1
      /\ Cardinality(prefetch_queue) \in Nat
  BY <1>1, FS_RemoveElement, FS_CardinalityType DEF TypeInv, PrefetchExact
<1>6. Fetching' = Fetching \cup {w} /\ w \notin Fetching
  BY <1>2 DEF Fetching, TypeInv, TypeOK
<1>7. Cardinality(Fetching') = Cardinality(Fetching) + 1
  BY <1>6, CountedFinite, FS_AddElement
<1>8. PrefetchExact'
  BY <1>1, <1>2, <1>5, <1>7, CountedFinite DEF TypeInv, TypeOK, PrefetchExact
<1>9. QED
  BY <1>3, <1>4, <1>8 DEF TypeInv

\* Each step of a worker keeps TypeInv.
LEMMA WorkerTyped ==
  ASSUME TypeInv, WriteInv, NEW w \in Workers, WorkerStep(w)
  PROVE  TypeInv'
<1>1. CASE TryExecuteOne(w)
  <2>1. wpc[w] = "loop" /\ write_queue \in Seq(WriteTasks)
    BY <1>1 DEF TryExecuteOne, TypeInv, TypeOK
  <2>2. write_queue # <<>> /\ write_queue' = Requeue => write_queue' \in Seq(WriteTasks)
    BY RequeueElems DEF TypeInv
  <2>3. CASE write_queue # <<>> /\ TakeWrite(w)
    <3>1. Head(write_queue) \in WriteTasks /\ Tail(write_queue) \in Seq(WriteTasks)
      BY <2>1, <2>3
    <3>2. TypeOK' /\ CallsTyped'
      BY <2>3, <3>1 DEF TakeWrite, TypeInv, TypeOK, CallsTyped, WorkerStates, hostVars, callVars
    <3>3. InFlightExact'
      BY <2>1, <2>3, BusyGrows DEF TakeWrite, HasTask, HoldsWrite
    <3>4. PrefetchExact'
      BY <2>1, <2>3, FetchingStays DEF TakeWrite
    <3>5. QED
      BY <3>2, <3>3, <3>4 DEF TypeInv
  <2>4. CASE TakePrefetch(w) /\ write_queue' \in Seq(WriteTasks)
    BY <2>1, <2>4, TakePrefetchTyped
  <2>5. CASE /\ write_queue' \in Seq(WriteTasks)
             /\ UNCHANGED <<prefetch_queue, next_seq, prefetches, countVars, hostVars, workVars,
                            callVars>>
    <3>1. TypeOK' /\ CallsTyped'
      BY <2>5 DEF TypeInv, TypeOK, CallsTyped, countVars, hostVars, workVars, callVars
    <3>2. InFlightExact' /\ PrefetchExact'
      BY <2>5, CountsFrame DEF TypeInv, countVars, workVars
    <3>3. QED
      BY <3>1, <3>2 DEF TypeInv
  <2>6. QED
    BY <1>1, <2>1, <2>2, <2>3, <2>4, <2>5 DEF TryExecuteOne
<1>2. CASE BeginCallback(w)
  <2>1. /\ wpc[w] = "locking"
        /\ Key(wtask[w]) \in Keys /\ Seqno(wtask[w]) \in Nat
    BY <1>2, HeldIsTask DEF BeginCallback, TypeInv, WriteInv, HoldsWrite
  <2>2. TypeOK' /\ CallsTyped'
    BY <1>2, <2>1 DEF BeginCallback, TypeInv, TypeOK, CallsTyped, WorkerStates, queueVars,
                      countVars, hostVars, callVars
  <2>3. InFlightExact'
    BY <1>2, <2>1, BusyStays DEF BeginCallback, HasTask, HoldsWrite, countVars
  <2>4. PrefetchExact'
    BY <1>2, <2>1, FetchingStays DEF BeginCallback, queueVars, countVars
  <2>5. QED
    BY <2>2, <2>3, <2>4 DEF TypeInv
<1>3. CASE EndCallback(w)
  <2>1. wpc[w] = "running" /\ Key(wtask[w]) \in Keys
    BY <1>3, HeldIsTask DEF EndCallback, TypeInv, WriteInv, HoldsWrite
  <2>2. TypeOK' /\ CallsTyped'
    BY <1>3, <2>1 DEF EndCallback, TypeInv, TypeOK, CallsTyped, WorkerStates, queueVars,
                      countVars, hostVars, callVars
  <2>3. InFlightExact'
    BY <1>3, <2>1, BusyStays DEF EndCallback, HasTask, HoldsWrite, countVars
  <2>4. PrefetchExact'
    BY <1>3, <2>1, FetchingStays DEF EndCallback, queueVars, countVars
  <2>5. QED
    BY <2>2, <2>3, <2>4 DEF TypeInv
<1>4. CASE UnlockPair(w)
  <2>1. wpc[w] = "unlocking" /\ Key(wtask[w]) \in Keys
    BY <1>4, HeldIsTask DEF UnlockPair, TypeInv, WriteInv, HoldsWrite
  <2>2. TypeOK' /\ CallsTyped'
    BY <1>4, <2>1 DEF UnlockPair, TypeInv, TypeOK, CallsTyped, WorkerStates, queueVars, hostVars,
                      callVars
  <2>3. InFlightExact'
    BY <1>4, <2>1, BusyStays DEF UnlockPair, HasTask, HoldsWrite
  <2>4. PrefetchExact'
    BY <1>4, <2>1, FetchingStays DEF UnlockPair, queueVars
  <2>5. QED
    BY <2>2, <2>3, <2>4 DEF TypeInv
<1>5. CASE EndPrefetch(w)
  <2>1. TypeOK' /\ CallsTyped'
    BY <1>5 DEF EndPrefetch, TypeInv, TypeOK, CallsTyped, WorkerStates, queueVars, hostVars,
                callVars
  <2>2. InFlightExact'
    BY <1>5, BusyStays DEF EndPrefetch, HasTask
  <2>3. Fetching' = Fetching \ {w} /\ w \in Fetching
    BY <1>5 DEF EndPrefetch, Fetching, TypeInv, TypeOK
  <2>4. Cardinality(Fetching') = Cardinality(Fetching) - 1
    BY <2>3, CountedFinite, FS_RemoveElement
  <2>5. Cardinality(prefetch_queue) \in Nat
    BY FS_CardinalityType DEF TypeInv, PrefetchExact
  <2>6. PrefetchExact'
    BY <1>5, <2>4, <2>5, CountedFinite DEF EndPrefetch, queueVars, TypeInv, TypeOK, PrefetchExact
  <2>7. QED
    BY <2>1, <2>2, <2>6 DEF TypeInv
<1>6. CASE FinishTask(w)
  <2>1. Busy' = Busy \ {w} /\ w \in Busy
    BY <1>6 DEF FinishTask, Busy, HasTask, HoldsWrite, TypeInv, TypeOK
  <2>2. IsFiniteSet(Busy') /\ Cardinality(Busy') = Cardinality(Busy) - 1
    BY <2>1, CountedFinite, FS_RemoveElement
  <2>3. Cardinality(Busy') \in Nat
    BY <2>2, FS_CardinalityType
  <2>4. InFlightExact' /\ in_flight' \in Nat
    BY <1>6, <2>2, <2>3 DEF FinishTask, TypeInv, InFlightExact
  <2>5. TypeOK' /\ CallsTyped'
    BY <1>6, <2>4 DEF FinishTask, TypeInv, TypeOK, CallsTyped, WorkerStates, queueVars, hostVars,
                      callVars
  <2>6. PrefetchExact'
    BY <1>6, FetchingStays DEF FinishTask, queueVars
  <2>7. QED
    BY <2>4, <2>5, <2>6 DEF TypeInv
<1>7. CASE ExitLoop(w)
  <2>1. TypeOK' /\ CallsTyped'
    BY <1>7 DEF ExitLoop, TypeInv, TypeOK, CallsTyped, WorkerStates, queueVars, countVars,
                hostVars, callVars
  <2>2. InFlightExact'
    BY <1>7, BusyStays DEF ExitLoop, HasTask, HoldsWrite, countVars
  <2>3. PrefetchExact'
    BY <1>7, FetchingStays DEF ExitLoop, queueVars, countVars
  <2>4. QED
    BY <2>1, <2>2, <2>3 DEF TypeInv
<1>8. QED
  BY <1>1, <1>2, <1>3, <1>4, <1>5, <1>6, <1>7 DEF WorkerStep

-----------------------------------------------------------------------------
(* The invariant is inductive.                                             *)

\* Each step of a submitting thread keeps WriteInv.
LEMMA HostKeeps ==
  ASSUME TypeInv, WriteInv, NEW h \in Hosts, HostStep(h)
  PROVE  WriteInv'
<1>1. Distinct(write_queue) /\ wpc \in [Workers -> WorkerStates] /\ TypeOK
  BY DEF WriteInv, Apart, TypeInv, TypeOK
<1>2. CASE UNCHANGED <<write_queue, next_seq, workVars>>
  BY <1>1, <1>2, QuietStep DEF workVars
<1>3. CASE hkey[h] \in Keys /\ Enqueue(h) /\ UNCHANGED workVars
  BY <1>1, <1>3, EnqueueKeeps
<1>4. CASE \E k \in Keys : BeginWrite(h, k)
  BY <1>2, <1>4 DEF BeginWrite, queueVars
<1>5. CASE \E d \in Distances : BeginPrefetch(h, d)
  BY <1>2, <1>5 DEF BeginPrefetch, queueVars
<1>6. CASE SubmitWrite(h)
  <2>1. hkey[h] \in Keys /\ UNCHANGED workVars
    BY <1>6 DEF SubmitWrite, TypeInv, CallsTyped
  <2>2. Enqueue(h) \/ UNCHANGED queueVars
    BY <1>6 DEF SubmitWrite, Reject
  <2>3. QED
    BY <1>2, <1>3, <2>1, <2>2 DEF queueVars
<1>7. CASE LeaveWait(h)
  <2>1. hkey[h] \in Keys /\ UNCHANGED workVars
    BY <1>7 DEF LeaveWait, TypeInv, CallsTyped
  <2>2. Enqueue(h) \/ UNCHANGED queueVars
    BY <1>7 DEF LeaveWait, Reject
  <2>3. QED
    BY <1>2, <1>3, <2>1, <2>2 DEF queueVars
<1>8. CASE SubmitPrefetch(h)
  BY <1>2, <1>8 DEF SubmitPrefetch
<1>9. QED
  BY <1>4, <1>5, <1>6, <1>7, <1>8 DEF HostStep, BackpressureWake, BackpressureTimeout

\* Each step of a worker keeps WriteInv.
LEMMA WorkerKeeps ==
  ASSUME TypeInv, WriteInv, TypeInv', NEW w \in Workers, WorkerStep(w)
  PROVE  WriteInv'
<1>1. TypeOK /\ wpc' \in [Workers -> WorkerStates] /\ Distinct(write_queue)
  BY DEF TypeInv, TypeOK, WriteInv, Apart
<1>2. ASSUME wpc[w] \notin HoldsWrite, wpc'[w] \notin HoldsWrite,
             \A v \in Workers \ {w} : wpc'[v] = wpc[v],
             UNCHANGED <<next_seq, exec_seq, dv_owner, wtask, started>>,
             Elems(write_queue') = Elems(write_queue), Distinct(write_queue')
      PROVE  WriteInv'
  <2>1. \A v \in Workers : wpc'[v] = wpc[v]
                           \/ (wpc[v] \notin HoldsWrite /\ wpc'[v] \notin HoldsWrite)
    BY <1>2
  <2>2. QED
    BY <1>1, <1>2, <2>1, QuietStep
<1>3. CASE TryExecuteOne(w)
  <2>1. wpc[w] = "loop" /\ wpc[w] \notin HoldsWrite
    BY <1>3 DEF TryExecuteOne, HoldsWrite
  <2>2. CASE write_queue # <<>> /\ Ready(Head(write_queue)) /\ TakeWrite(w)
    BY <1>1, <2>1, <2>2, TakeWriteKeeps
  <2>3. ASSUME Elems(write_queue') = Elems(write_queue), Distinct(write_queue'),
               TakePrefetch(w)
        PROVE  WriteInv'
    <3>1. wpc'[w] = "prefetching" /\ \A v \in Workers \ {w} : wpc'[v] = wpc[v]
      BY <2>3 DEF TakePrefetch, TypeInv, TypeOK
    <3>2. QED
      BY <1>2, <2>1, <2>3, <3>1 DEF TakePrefetch, HoldsWrite
  <2>4. CASE write_queue # <<>> /\ write_queue' = Requeue /\ TakePrefetch(w)
    BY <1>1, <2>3, <2>4, RequeueElems
  <2>5. CASE write_queue # <<>> /\ write_queue' = Requeue
             /\ UNCHANGED <<next_seq, workVars>>
    <3>1. Elems(write_queue') = Elems(write_queue) /\ Distinct(write_queue')
      BY <1>1, <2>5, RequeueElems
    <3>2. QED
      BY <1>2, <2>1, <2>5, <3>1 DEF workVars
  <2>6. CASE TakePrefetch(w) /\ UNCHANGED write_queue
    BY <1>1, <2>3, <2>6
  <2>7. QED
    BY <1>3, <2>2, <2>4, <2>5, <2>6 DEF TryExecuteOne
<1>4. CASE BeginCallback(w)
  BY <1>1, <1>4, BeginCallbackKeeps
<1>5. CASE EndCallback(w)
  BY <1>1, <1>5, EndCallbackKeeps
<1>6. CASE UnlockPair(w)
  BY <1>1, <1>6, UnlockPairKeeps
<1>7. CASE EndPrefetch(w)
  <2>1. wpc'[w] = "finishing" /\ \A v \in Workers \ {w} : wpc'[v] = wpc[v]
    BY <1>7 DEF EndPrefetch, TypeInv, TypeOK
  <2>2. QED
    BY <1>1, <1>2, <1>7, <2>1 DEF EndPrefetch, HoldsWrite, queueVars
<1>8. CASE FinishTask(w)
  <2>1. wpc'[w] = "loop" /\ \A v \in Workers \ {w} : wpc'[v] = wpc[v]
    BY <1>8 DEF FinishTask, TypeInv, TypeOK
  <2>2. QED
    BY <1>1, <1>2, <1>8, <2>1 DEF FinishTask, HoldsWrite, queueVars
<1>9. CASE ExitLoop(w)
  <2>1. wpc'[w] = "exited" /\ \A v \in Workers \ {w} : wpc'[v] = wpc[v]
    BY <1>9 DEF ExitLoop, TypeInv, TypeOK
  <2>2. QED
    BY <1>1, <1>2, <1>9, <2>1 DEF ExitLoop, HoldsWrite, queueVars
<1>10. QED
  BY <1>3, <1>4, <1>5, <1>6, <1>7, <1>8, <1>9 DEF WorkerStep

\* The pool as its constructor leaves it satisfies the invariant.
LEMMA InitInv == Init => Inv
<1> SUFFICES ASSUME Init PROVE Inv
  OBVIOUS
<1>1. TypeOK /\ CallsTyped
  <2>1. write_queue \in Seq(WriteTasks) /\ prefetch_queue \in SUBSET PrefetchTasks
    BY DEF Init
  <2>2. /\ wpc \in [Workers -> WorkerStates]
        /\ wtask \in [Workers -> WriteTasks \cup {None}]
        /\ dv_owner \in [Keys -> Workers \cup {None}]
    BY DEF Init, WorkerStates
  <2>3. /\ hpc \in [Hosts -> {"idle", "writing", "blocked", "prefetching"}]
        /\ hkey \in [Hosts -> Keys \cup {None}]
        /\ hdist \in [Hosts -> Distances \cup {None}]
        /\ CallsTyped
    BY DEF Init, CallsTyped
  <2>4. QED
    BY <2>1, <2>2, <2>3 DEF Init, TypeOK
<1>2. Busy = {} /\ Fetching = {} /\ HeldWrites = {}
  BY DEF Init, Busy, Fetching, HeldWrites, HasTask, HoldsWrite
<1>3. Cardinality({}) = 0 /\ IsFiniteSet({})
  BY FS_EmptySet
<1>4. InFlightExact /\ PrefetchExact
  BY <1>2, <1>3 DEF Init, InFlightExact, PrefetchExact
<1>5. Elems(write_queue) = {} /\ Distinct(write_queue)
  BY DEF Init, Elems, Distinct
<1>6. Placed
  <2>1. \A t \in WriteTasks : next_seq[Key(t)] = 0 /\ Seqno(t) \in Nat
    BY TaskParts DEF Init
  <2>2. QED
    BY <1>2, <1>5, <2>1 DEF Placed
<1>7. TasksHeld /\ HeldInTurn /\ OnePerPair
  BY DEF Init, TasksHeld, HeldInTurn, OnePerPair, HoldsWrite, Executing
<1>8. OwnerHolds
  BY WorkerPoolAssumption DEF Init, OwnerHolds
<1>9. StartedExact
  BY DEF Init, StartedExact, Running
<1>10. \A k \in Keys : exec_seq[k] <= next_seq[k]
  BY DEF Init
<1>11. WriteInv
  BY <1>2, <1>5, <1>6, <1>7, <1>8, <1>9, <1>10 DEF WriteInv, Apart
<1>12. QED
  BY <1>1, <1>4, <1>11 DEF Inv, TypeInv

\* A step that leaves everything but the calls of shutdown and drain alone keeps Inv.
LEMMA IdleKeeps ==
  ASSUME Inv, UNCHANGED <<queueVars, countVars, hostVars, workVars>>,
         backpressure' \in BackpressureModes, shutdown' \in BOOLEAN,
         drain' \in {"idle", "waiting", "drained"}
  PROVE  Inv'
<1>1. TypeOK' /\ CallsTyped'
  BY DEF Inv, TypeInv, TypeOK, CallsTyped, queueVars, countVars, hostVars, workVars
<1>2. InFlightExact' /\ PrefetchExact'
  BY CountsFrame DEF Inv, TypeInv, queueVars, countVars, workVars
<1>3. WriteInv'
  <2>1. TypeOK /\ WriteInv /\ wpc' \in [Workers -> WorkerStates] /\ wpc' = wpc
        /\ write_queue' = write_queue /\ Distinct(write_queue)
    BY DEF Inv, TypeInv, TypeOK, WriteInv, Apart, queueVars, workVars
  <2>2. QED
    BY <2>1, QuietStep DEF queueVars, workVars
<1>4. QED
  BY <1>1, <1>2, <1>3 DEF Inv, TypeInv

\* Every step of the pool keeps the invariant.
LEMMA NextKeeps == Inv /\ [Next]_vars => Inv'
<1> SUFFICES ASSUME Inv, [Next]_vars PROVE Inv'
  OBVIOUS
<1>1. CASE \E w \in Workers : WorkerStep(w)
  BY <1>1, WorkerTyped, WorkerKeeps DEF Inv
<1>2. CASE \E h \in Hosts : HostStep(h)
  BY <1>2, HostTyped, HostKeeps DEF Inv
<1>3. CASE Shutdown
  BY <1>3, IdleKeeps DEF Shutdown, Inv, TypeInv, TypeOK
<1>4. CASE Drain
  BY <1>4, IdleKeeps DEF Drain, Inv, TypeInv, TypeOK
<1>5. CASE UNCHANGED vars
  BY <1>5, IdleKeeps DEF vars, callVars, Inv, TypeInv, TypeOK
<1>6. QED
  BY <1>1, <1>2, <1>3, <1>4, <1>5 DEF Next

\* The invariant holds in every reachable state of the pool.
THEOREM PoolInvariant == Spec => []Inv
BY InitInv, NextKeeps, PTL DEF Spec

-----------------------------------------------------------------------------
(* What follows from it.                                                   *)

\* Every variable of the pool keeps its type; in_flight_, an unsigned counter that
\* FinishTask decrements, never goes below zero.
THEOREM PoolTypeCorrect == Spec => []TypeOK
<1>1. Inv => TypeOK
  BY DEF Inv, TypeInv
<1>2. QED
  BY <1>1, PoolInvariant, PTL

\* try_execute_one neither loses nor duplicates a write, however many workers pop
\* and push back: an accepted write not executed yet is queued once or held once.
THEOREM NoTaskLostOrDuplicated == Spec => []EveryTaskInOnePlace
<1>1. ASSUME Inv PROVE EveryTaskInOnePlace
  <2>1. QueuedWrites = Elems(write_queue) /\ WriteInv /\ TypeOK
    BY <1>1 DEF QueuedWrites, Elems, Inv, TypeInv
  <2>2. \A k \in Keys, n \in 0 .. MaxWrites :
          exec_seq[k] <= n /\ n < next_seq[k] <=> <<k, n>> \in QueuedWrites \cup HeldWrites
    <3>1. SUFFICES ASSUME NEW k \in Keys, NEW n \in 0 .. MaxWrites
                   PROVE  exec_seq[k] <= n /\ n < next_seq[k]
                            <=> <<k, n>> \in QueuedWrites \cup HeldWrites
      OBVIOUS
    <3>2. <<k, n>> \in WriteTasks /\ Key(<<k, n>>) = k /\ Seqno(<<k, n>>) = n
      BY TaskParts, WorkerPoolAssumption
    <3>3. exec_seq[Key(<<k, n>>)] <= Seqno(<<k, n>>) /\ Seqno(<<k, n>>) < next_seq[Key(<<k, n>>)]
            <=> <<k, n>> \in Elems(write_queue) \/ <<k, n>> \in HeldWrites
      BY <2>1, <3>2 DEF WriteInv, Placed
    <3>4. QED
      BY <2>1, <3>2, <3>3
  <2>3. \A i, j \in DOMAIN write_queue : write_queue[i] = write_queue[j] => i = j
    BY <2>1 DEF WriteInv, Apart, Distinct
  <2>4. QueuedWrites \cap HeldWrites = {}
    BY <2>1 DEF WriteInv, Apart
  <2>5. \A v, w \in Workers : v # w /\ wtask[v] # None => wtask[v] # wtask[w]
    <3>1. SUFFICES ASSUME NEW v \in Workers, NEW w \in Workers, v # w, wtask[v] # None,
                          wtask[v] = wtask[w]
                   PROVE  FALSE
      OBVIOUS
    <3>2. /\ wpc[v] \in HoldsWrite /\ wpc[w] \in HoldsWrite
          /\ Key(wtask[v]) \in Keys /\ Seqno(wtask[v]) \in Nat
          /\ exec_seq[Key(wtask[v])] \in Nat
      BY <2>1, <3>1, HeldIsTask DEF WriteInv, TasksHeld, TypeOK
    <3>3. CASE wpc[v] \in Executing /\ wpc[w] \in Executing
      BY <2>1, <3>1, <3>3 DEF WriteInv, OnePerPair
    <3>4. CASE wpc[v] = "unlocking" /\ wpc[w] = "unlocking"
      BY <2>1, <3>1, <3>2, <3>4 DEF WriteInv, OwnerHolds
    <3>5. CASE \/ wpc[v] = "unlocking" /\ wpc[w] \in Executing
               \/ wpc[w] = "unlocking" /\ wpc[v] \in Executing
      BY <2>1, <3>1, <3>2, <3>5 DEF WriteInv, HeldInTurn
    <3>6. QED
      BY <3>2, <3>3, <3>4, <3>5 DEF HoldsWrite, Executing
  <2>6. QED
    BY <2>2, <2>3, <2>4, <2>5 DEF EveryTaskInOnePlace
<1>2. QED
  BY <1>1, PoolInvariant, PTL

\* Two callbacks of one (dataset, variable) pair never run at the same time (R6.3).
THEOREM CallbacksOfAPairExclude == Spec => []OneCallbackPerPair
<1>1. Inv => OneCallbackPerPair
  BY DEF Inv, WriteInv, OnePerPair, OneCallbackPerPair, Executing
<1>2. QED
  BY <1>1, PoolInvariant, PTL

\* A pool with empty queues and in_flight_ at zero has executed all it accepted.
LEMMA QuiescentIsDone ==
  ASSUME Inv, Quiescent
  PROVE  exec_seq = next_seq /\ prefetches_completed = prefetches
<1>1. Cardinality(Busy) = 0 /\ write_queue = <<>> /\ prefetch_queue = {}
  BY DEF Inv, TypeInv, InFlightExact, Quiescent, NothingQueued
<1>2. Busy = {}
  BY <1>1, CountedFinite, FS_EmptySet
<1>3. HeldWrites = {} /\ Fetching = {}
  BY <1>2 DEF Busy, HeldWrites, Fetching, HasTask, HoldsWrite
<1>4. Elems(write_queue) = {}
  BY <1>1 DEF Elems
<1>5. ASSUME NEW k \in Keys PROVE exec_seq[k] = next_seq[k]
  <2>1. exec_seq[k] \in Nat /\ next_seq[k] \in Nat /\ exec_seq[k] <= next_seq[k]
    BY DEF Inv, TypeInv, TypeOK, WriteInv
  <2> DEFINE t == <<k, exec_seq[k]>>
  <2>2. t \in WriteTasks /\ Key(t) = k /\ Seqno(t) = exec_seq[k]
    BY <2>1, TaskParts
  <2>3. ~(exec_seq[k] <= exec_seq[k] /\ exec_seq[k] < next_seq[k])
    BY <1>3, <1>4, <2>2 DEF Inv, WriteInv, Placed
  <2>4. QED
    BY <2>1, <2>3
<1>6. exec_seq = next_seq
  BY <1>5 DEF Inv, TypeInv, TypeOK
<1>7. Cardinality({}) = 0
  BY FS_EmptySet
<1>8. prefetches_completed = prefetches
  BY <1>1, <1>3, <1>7 DEF Inv, TypeInv, TypeOK, PrefetchExact
<1>9. QED
  BY <1>6, <1>8

\* drain's predicate is the right one: when it holds, every accepted write and
\* every accepted prefetch has been executed, none is in a worker's hands.
THEOREM DrainIsExact == Spec => DrainedMeansExecuted
<1>1. ASSUME Inv, [Next]_vars, drain = "waiting", drain' = "drained"
      PROVE  exec_seq = next_seq /\ prefetches_completed = prefetches
  <2>1. drain' # drain
    BY <1>1
  <2>2. ASSUME NEW w \in Workers PROVE ~WorkerStep(w)
    BY <2>1 DEF WorkerStep, TryExecuteOne, TakeWrite, TakePrefetch, BeginCallback, EndCallback,
                UnlockPair, EndPrefetch, FinishTask, ExitLoop, callVars
  <2>3. ASSUME NEW h \in Hosts PROVE ~HostStep(h)
    BY <2>1 DEF HostStep, BeginWrite, BeginPrefetch, SubmitWrite, BackpressureWake,
                BackpressureTimeout, LeaveWait, SubmitPrefetch, callVars
  <2>4. ~Shutdown /\ ~UNCHANGED vars
    BY <2>1 DEF Shutdown, vars, callVars
  <2>5. Drain
    BY <1>1, <2>2, <2>3, <2>4 DEF Next
  <2>6. Quiescent
    BY <1>1, <2>5 DEF Drain
  <2>7. QED
    BY <1>1, <2>6, QuiescentIsDone
<1>2. Inv /\ [Next]_vars =>
        [drain = "waiting" /\ drain' = "drained" =>
           exec_seq = next_seq /\ prefetches_completed = prefetches]_vars
  BY <1>1
<1>3. QED
  BY <1>2, PoolInvariant, PTL DEF Spec, DrainedMeansExecuted

-----------------------------------------------------------------------------
(* Refinement of OrderedWrites.                                            *)

\* A worker's step starts or ends the callback of one task, or is invisible.
LEMMA WorkerRefines ==
  ASSUME Inv, NEW w \in Workers, WorkerStep(w)
  PROVE  OW!OrderedNext \/ UNCHANGED <<next_seq, started, exec_seq>>
<1> DEFINE k == Key(wtask[w])
<1>1. wpc[w] \in HoldsWrite => k \in Keys /\ wtask[w] \in WriteTasks
  BY HeldIsTask DEF Inv, TypeInv, WriteInv
<1>2. CASE BeginCallback(w)
  <2>1. wpc[w] = "locking" /\ k \in Keys /\ wtask[w] \in WriteTasks
    BY <1>1, <1>2 DEF BeginCallback, HoldsWrite
  <2>2. Seqno(wtask[w]) = exec_seq[k] /\ exec_seq[k] < next_seq[k]
    <3>1. Seqno(wtask[w]) = exec_seq[k] /\ wtask[w] \in HeldWrites
      BY <2>1 DEF Inv, WriteInv, HeldInTurn, Executing, HeldWrites
    <3>2. QED
      BY <2>1, <3>1 DEF Inv, WriteInv, Placed
  <2>3. started[k] = exec_seq[k]
    <3>1. ~Running(k)
      BY <2>1 DEF Inv, WriteInv, OnePerPair, Running, Executing
    <3>2. QED
      BY <2>1, <3>1 DEF Inv, WriteInv, StartedExact
  <2>4. started' = [started EXCEPT ![k] = started[k] + 1] /\ UNCHANGED <<next_seq, exec_seq>>
    BY <1>2, <2>2, <2>3 DEF BeginCallback, queueVars
  <2>5. OW!StartTask(k)
    BY <2>2, <2>3, <2>4 DEF OW!StartTask
  <2>6. QED
    BY <2>1, <2>5 DEF OW!OrderedNext
<1>3. CASE EndCallback(w)
  <2>1. wpc[w] = "running" /\ k \in Keys
    BY <1>1, <1>3 DEF EndCallback, HoldsWrite
  <2>2. started[k] = exec_seq[k] + 1 /\ exec_seq[k] \in Nat
    BY <2>1 DEF Inv, TypeInv, TypeOK, WriteInv, StartedExact, Running
  <2>3. exec_seq' = [exec_seq EXCEPT ![k] = exec_seq[k] + 1] /\ UNCHANGED <<next_seq, started>>
    BY <1>3 DEF EndCallback, queueVars
  <2>4. OW!EndTask(k)
    BY <2>2, <2>3 DEF OW!EndTask
  <2>5. QED
    BY <2>1, <2>4 DEF OW!OrderedNext
<1>4. CASE TryExecuteOne(w)
  BY <1>4 DEF TryExecuteOne, TakeWrite, TakePrefetch, workVars
<1>5. CASE UnlockPair(w) \/ EndPrefetch(w) \/ FinishTask(w) \/ ExitLoop(w)
  BY <1>5 DEF UnlockPair, EndPrefetch, FinishTask, ExitLoop, queueVars
<1>6. QED
  BY <1>2, <1>3, <1>4, <1>5 DEF WorkerStep

\* A submitting thread's step submits one task of a pair, or is invisible.
LEMMA HostRefines ==
  ASSUME Inv, NEW h \in Hosts, HostStep(h)
  PROVE  OW!OrderedNext \/ UNCHANGED <<next_seq, started, exec_seq>>
<1>1. CASE hkey[h] \in Keys /\ Enqueue(h) /\ UNCHANGED workVars
  <2>1. OW!SubmitTask(hkey[h])
    BY <1>1 DEF Enqueue, workVars, OW!SubmitTask
  <2>2. QED
    BY <1>1, <2>1 DEF OW!OrderedNext
<1>2. CASE UNCHANGED <<next_seq, workVars>>
  BY <1>2 DEF workVars
<1>3. CASE SubmitWrite(h) \/ LeaveWait(h)
  <2>1. hkey[h] \in Keys /\ UNCHANGED workVars
    BY <1>3 DEF SubmitWrite, LeaveWait, Inv, TypeInv, CallsTyped
  <2>2. Enqueue(h) \/ UNCHANGED next_seq
    BY <1>3 DEF SubmitWrite, LeaveWait, Reject, queueVars
  <2>3. QED
    BY <1>1, <1>2, <2>1, <2>2
<1>4. QED
  BY <1>2, <1>3 DEF HostStep, BeginWrite, BeginPrefetch, SubmitPrefetch, BackpressureWake,
                    BackpressureTimeout, queueVars

\* The pool implements OrderedWrites for any number of workers: the callbacks of a
\* pair are entered in submission order, one at a time, each once (R6.2, R6.3).
THEOREM PoolRefinesOrderedWrites == Spec => ImplementsOrderedWrites
<1>1. Init => OW!OrderedInit
  BY DEF Init, OW!OrderedInit
<1>2. Inv /\ [Next]_vars => [OW!OrderedNext]_(OW!orderedVars)
  <2> SUFFICES ASSUME Inv, [Next]_vars
               PROVE  OW!OrderedNext \/ UNCHANGED <<next_seq, started, exec_seq>>
    BY DEF OW!orderedVars
  <2>1. CASE \E w \in Workers : WorkerStep(w)
    BY <2>1, WorkerRefines
  <2>2. CASE \E h \in Hosts : HostStep(h)
    BY <2>2, HostRefines
  <2>3. CASE Shutdown \/ Drain \/ UNCHANGED vars
    BY <2>3 DEF Shutdown, Drain, vars, queueVars, workVars
  <2>4. QED
    BY <2>1, <2>2, <2>3 DEF Next
<1>3. QED
  BY <1>1, <1>2, PoolInvariant, PTL DEF Spec, ImplementsOrderedWrites, OW!OrderedSpec

=============================================================================
