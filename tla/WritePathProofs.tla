-------------------------- MODULE WritePathProofs ---------------------------
(***************************************************************************)
(* Proofs about WritePath, for every number of hosts and writes and every  *)
(* queue capacity.  Places says which host or worker a write is with;      *)
(* Counted gives pending_writes also inside the window between             *)
(* submit_write and fetch_add, where a callback may finish before its      *)
(* write is counted; FlushInv carries what a polling loop saw to the point *)
(* where the call returns.                                                 *)
(***************************************************************************)
EXTENDS WritePath, FiniteSetTheorems, TLAPS

Accepted(w) == task[w] \notin {"unused", "staged"}
InWrite == {"submitting", "counting"}

\* A write is under one host from the snapshot until it is counted; then it has
\* returned.
Places ==
  /\ \A h \in Hosts : hpc[h] \in InWrite => hio[h] \in Writes \ returned
  /\ \A h \in Hosts : hpc[h] = "submitting" => task[hio[h]] = "staged"
  /\ \A h \in Hosts : hpc[h] = "counting" => Accepted(hio[h])
  /\ \A g, h \in Hosts : hpc[g] \in InWrite /\ hpc[h] \in InWrite /\ hio[g] = hio[h] => g = h
  /\ \A w \in returned : Accepted(w)
  /\ \A w \in Writes \ returned :
       Accepted(w) => \E h \in Hosts : hpc[h] = "counting" /\ hio[h] = w

Unfinished == {w \in returned : task[w] # "done"}
Early == {w \in Writes \ returned : task[w] = "done"}

\* pending_writes is the writes that returned and are not finished, less those that
\* finished before they were counted, modulo the width of the counter.
Counted ==
  LET d == Cardinality(Unfinished) - Cardinality(Early)
  IN  pending_writes = IF d >= 0 THEN d ELSE d + PendingLimit

\* A buffer is handed out for each write that was staged and has not released it.
Charged == InTask(HoldsBuffer \cup {"dropped"})
BuffersInv == buffers = Cardinality(Charged)

\* A callback past the driver has stored the write or left a failure to be found.
Surfaced ==
  \A w \in Writes :
    /\ task[w] \in {"releasing", "uncounted", "done"} =>
         w \in written \/ (has_failure /\ first_failure_code = "error")
    /\ task[w] = "flagged" => has_failure

PastDrain == {"surfacing", "collecting", "closing"}

\* What a host that saw pending_writes at zero outside the window may rely on.
FlushInv ==
  /\ \A h \in Hosts : base[h] \subseteq returned
  /\ \A h \in Hosts \ excused : hpc[h] \in PastDrain =>
       \A w \in base[h] : task[w] = "done"
  /\ \A h \in Hosts \ excused : hpc[h] = "closing" /\ answer[h] = "ok" => base[h] \subseteq written

Inv == TypeOK /\ Places /\ Counted /\ BuffersInv /\ Surfaced /\ FlushInv

-----------------------------------------------------------------------------
(* Where the writes are.                                                   *)

\* A step keeps every write under the one host or worker that is to move it on.
LEMMA PlacesKept ==
  ASSUME TypeOK, Places, [Next]_vars
  PROVE  Places'
<1> USE DEF TypeOK, Places, Accepted, InWrite, ioVars, recordVars, stateVars, hostVars
<1>1. ASSUME NEW h \in Hosts, NEW w \in Writes, Write(h, w) PROVE Places'
  BY <1>1 DEF Write, Begin, Return
<1>2. ASSUME NEW h \in Hosts, NEW w \in Writes, Wait(h, w) PROVE Places'
  BY <1>2 DEF Wait, Begin
<1>3. ASSUME NEW h \in Hosts, Flush(h) PROVE Places'
  BY <1>3 DEF Flush, Begin
<1>4. ASSUME NEW h \in Hosts, Close(h) PROVE Places'
  BY <1>4 DEF Close, Begin
<1>5. ASSUME NEW h \in Hosts, SubmitWrite(h) PROVE Places'
  BY <1>5 DEF SubmitWrite, Goto
<1>6. ASSUME NEW h \in Hosts, CountWrite(h) PROVE Places'
  BY <1>6 DEF CountWrite, Return
<1>7. ASSUME NEW h \in Hosts, WaitEnds(h) PROVE Places'
  BY <1>7 DEF WaitEnds, Return
<1>8. ASSUME NEW h \in Hosts, Drained(h) PROVE Places'
  BY <1>8 DEF Drained
<1>9. ASSUME NEW h \in Hosts, FlushEnds(h) PROVE Places'
  BY <1>9 DEF FlushEnds, Return
<1>10. ASSUME NEW h \in Hosts, CollectFailure(h) PROVE Places'
  BY <1>10 DEF CollectFailure
<1>11. ASSUME NEW h \in Hosts, CloseDriver(h) PROVE Places'
  BY <1>11 DEF CloseDriver, Return
<1>12. ASSUME NEW h \in Hosts, Deadline(h) PROVE Places'
  BY <1>12 DEF Deadline, Return
<1>13. ASSUME NEW w \in Writes, StartCallback(w) PROVE Places'
  BY <1>13 DEF StartCallback, Advance
<1>14. ASSUME NEW w \in Writes, DriverWrite(w) PROVE Places'
  BY <1>14 DEF DriverWrite, Advance
<1>15. ASSUME NEW w \in Writes, RaiseFlag(w) PROVE Places'
  BY <1>15 DEF RaiseFlag, Advance
<1>16. ASSUME NEW w \in Writes, RecordCode(w) PROVE Places'
  BY <1>16 DEF RecordCode, Advance
<1>17. ASSUME NEW w \in Writes, ReleaseBuffer(w) PROVE Places'
  BY <1>17 DEF ReleaseBuffer, Advance
<1>18. ASSUME NEW w \in Writes, UncountWrite(w) PROVE Places'
  BY <1>18 DEF UncountWrite, Advance
<1>19. ASSUME Finalize PROVE Places'
  BY <1>19 DEF Finalize
<1>20. CASE UNCHANGED vars
  BY <1>20 DEF vars
<1>21. QED
  BY <1>1, <1>2, <1>3, <1>4, <1>5, <1>6, <1>7, <1>8, <1>9, <1>10,
     <1>11, <1>12, <1>13, <1>14, <1>15, <1>16, <1>17, <1>18, <1>19, <1>20
  DEF Next, HostReturns, CallbackStep

-----------------------------------------------------------------------------
(* The counters.                                                           *)

\* One more, or one less, of a counter of PendingLimit values.
LEMMA CounterSteps ==
  ASSUME NEW n \in 0 .. PendingLimit - 1
  PROVE  /\ (n + 1) % PendingLimit = IF n + 1 = PendingLimit THEN 0 ELSE n + 1
         /\ (n - 1) % PendingLimit = IF n = 0 THEN PendingLimit - 1 ELSE n - 1
<1> DEFINE L == PendingLimit
<1>1. L \in Nat /\ L > 0 /\ n \in 0 .. L - 1
  <2>1. Cardinality(Writes) \in Nat
    BY WritePathAssumption, FS_CardinalityType
  <2>2. QED
    BY <2>1, WritePathAssumption
<1> HIDE DEF L
<1>2. \A m \in 0 .. L - 1 : m % L = m
  BY <1>1
<1>3. L % L = 0 /\ (0 - 1) % L = L - 1
  BY <1>1
<1>4. (n + 1) % L = IF n + 1 = L THEN 0 ELSE n + 1
  BY <1>1, <1>2, <1>3
<1>5. (n - 1) % L = IF n = 0 THEN L - 1 ELSE n - 1
  BY <1>1, <1>2, <1>3
<1>6. QED
  BY <1>4, <1>5 DEF L

\* Both sets that Counted compares are finite, and together smaller than the counter.
LEMMA CountedFinite ==
  ASSUME NEW R \in SUBSET Writes
  PROVE  /\ IsFiniteSet(R) /\ Cardinality(R) \in Nat
         /\ 2 * Cardinality(R) < PendingLimit /\ PendingLimit \in Nat
<1>1. /\ IsFiniteSet(R) /\ Cardinality(R) <= Cardinality(Writes)
      /\ Cardinality(R) \in Nat /\ Cardinality(Writes) \in Nat
  BY WritePathAssumption, FS_Subset, FS_CardinalityType
<1>2. QED
  BY <1>1, WritePathAssumption

\* A step that changes neither the counter nor which writes returned or finished.
LEMMA CountUntouched ==
  ASSUME TypeOK, Counted, returned' = returned, pending_writes' = pending_writes,
         \A w \in Writes : task'[w] = "done" <=> task[w] = "done"
  PROVE  Counted'
<1>1. Unfinished' = Unfinished /\ Early' = Early
  BY DEF Unfinished, Early, TypeOK
<1>2. QED
  BY <1>1 DEF Counted

\* fetch_add: the write joins the unfinished ones or, finished already, leaves the
\* early ones.
LEMMA CountWriteCounts ==
  ASSUME TypeOK, Places, Counted, NEW h \in Hosts, CountWrite(h)
  PROVE  Counted'
<1> DEFINE w == hio[h]
           u == Cardinality(Unfinished)
           e == Cardinality(Early)
           L == PendingLimit
<1>1. /\ w \in Writes \ returned /\ returned' = returned \cup {w} /\ task' = task
      /\ pending_writes' = (pending_writes + 1) % L
  BY DEF CountWrite, AddPending, Places, InWrite
<1>2. Unfinished \in SUBSET Writes /\ Early \in SUBSET Writes
  BY DEF Unfinished, Early, TypeOK
<1>3. /\ IsFiniteSet(Unfinished) /\ IsFiniteSet(Early)
      /\ u \in Nat /\ e \in Nat /\ 2 * u < L /\ 2 * e < L /\ L \in Nat /\ L > 2
  <2>1. {w} \in SUBSET Writes /\ Cardinality({w}) = 1
    BY <1>1, FS_Singleton
  <2>2. 2 * Cardinality({w}) < PendingLimit
    BY <2>1, CountedFinite
  <2>3. QED
    BY <1>2, <2>1, <2>2, CountedFinite
<1>4. pending_writes = IF u - e >= 0 THEN u - e ELSE u - e + L
  BY DEF Counted
<1>5. pending_writes' = IF pending_writes + 1 = L THEN 0 ELSE pending_writes + 1
  BY <1>1, CounterSteps DEF TypeOK
<1>6. CASE task[w] = "done"
  <2>1. Unfinished' = Unfinished /\ Early' = Early \ {w} /\ w \in Early
    BY <1>1, <1>6 DEF Unfinished, Early
  <2>2. Cardinality(Early') = e - 1 /\ Cardinality(Unfinished') = u
    BY <1>3, <2>1, FS_RemoveElement
  <2> HIDE DEF u, e, L
  <2>3. pending_writes' = IF u - (e - 1) >= 0 THEN u - (e - 1) ELSE u - (e - 1) + L
    BY <1>3, <1>4, <1>5
  <2>4. QED
    BY <2>2, <2>3 DEF Counted, L
<1>7. CASE task[w] # "done"
  <2>1. Unfinished' = Unfinished \cup {w} /\ Early' = Early /\ w \notin Unfinished
    BY <1>1, <1>7 DEF Unfinished, Early
  <2>2. Cardinality(Unfinished') = u + 1 /\ Cardinality(Early') = e
    BY <1>3, <2>1, FS_AddElement
  <2> HIDE DEF u, e, L
  <2>3. pending_writes' = IF (u + 1) - e >= 0 THEN (u + 1) - e ELSE (u + 1) - e + L
    BY <1>3, <1>4, <1>5
  <2>4. QED
    BY <2>2, <2>3 DEF Counted, L
<1>8. QED
  BY <1>6, <1>7

\* fetch_sub: the write leaves the unfinished ones or, not counted yet, joins the
\* early ones; the counter may pass below zero.
LEMMA UncountWriteCounts ==
  ASSUME TypeOK, Places, Counted, NEW w \in Writes, UncountWrite(w)
  PROVE  Counted'
<1> DEFINE u == Cardinality(Unfinished)
           e == Cardinality(Early)
           L == PendingLimit
<1>1. /\ task[w] = "uncounted" /\ task' = [task EXCEPT ![w] = "done"] /\ returned' = returned
      /\ pending_writes' = (pending_writes - 1) % L
  BY DEF UncountWrite, Advance, SubtractPending
<1>2. Unfinished \in SUBSET Writes /\ Early \in SUBSET Writes
  BY DEF Unfinished, Early, TypeOK
<1>3. /\ IsFiniteSet(Unfinished) /\ IsFiniteSet(Early)
      /\ u \in Nat /\ e \in Nat /\ 2 * u < L /\ 2 * e < L /\ L \in Nat
  BY <1>2, CountedFinite
<1>4. pending_writes = IF u - e >= 0 THEN u - e ELSE u - e + L
  BY DEF Counted
<1>5. pending_writes' = IF pending_writes = 0 THEN L - 1 ELSE pending_writes - 1
  BY <1>1, CounterSteps DEF TypeOK
<1>6. CASE w \in returned
  <2>1. Unfinished' = Unfinished \ {w} /\ Early' = Early /\ w \in Unfinished
    BY <1>1, <1>6 DEF Unfinished, Early, TypeOK
  <2>2. Cardinality(Unfinished') = u - 1 /\ Cardinality(Early') = e
    BY <1>3, <2>1, FS_RemoveElement
  <2> HIDE DEF u, e, L
  <2>3. pending_writes' = IF (u - 1) - e >= 0 THEN (u - 1) - e ELSE (u - 1) - e + L
    BY <1>3, <1>4, <1>5
  <2>4. QED
    BY <2>2, <2>3 DEF Counted, L
<1>7. CASE w \notin returned
  <2>1. Unfinished' = Unfinished /\ Early' = Early \cup {w} /\ w \notin Early
    BY <1>1, <1>7 DEF Unfinished, Early, TypeOK
  <2>2. Cardinality(Early') = e + 1 /\ Cardinality(Unfinished') = u
    BY <1>3, <2>1, FS_AddElement
  <2> HIDE DEF u, e, L
  <2>3. pending_writes' = IF u - (e + 1) >= 0 THEN u - (e + 1) ELSE u - (e + 1) + L
    BY <1>3, <1>4, <1>5
  <2>4. QED
    BY <2>2, <2>3 DEF Counted, L
<1>8. QED
  BY <1>6, <1>7

\* No other step disturbs the count.
LEMMA CountedKept ==
  ASSUME TypeOK, Places, Counted, [Next]_vars
  PROVE  Counted'
<1> USE DEF TypeOK, Places, Accepted, InWrite, ioVars, recordVars, stateVars, hostVars
<1>1. ASSUME NEW h \in Hosts, NEW w \in Writes, Write(h, w) PROVE Counted'
  BY <1>1, CountUntouched DEF Write, Begin, Return
<1>2. ASSUME NEW h \in Hosts, NEW w \in Writes, Wait(h, w) PROVE Counted'
  BY <1>2, CountUntouched DEF Wait, Begin
<1>3. ASSUME NEW h \in Hosts, Flush(h) PROVE Counted'
  BY <1>3, CountUntouched DEF Flush, Begin
<1>4. ASSUME NEW h \in Hosts, Close(h) PROVE Counted'
  BY <1>4, CountUntouched DEF Close, Begin
<1>5. ASSUME NEW h \in Hosts, SubmitWrite(h) PROVE Counted'
  BY <1>5, CountUntouched DEF SubmitWrite, Goto
<1>6. ASSUME NEW h \in Hosts, CountWrite(h) PROVE Counted'
  BY <1>6, CountWriteCounts
<1>7. ASSUME NEW h \in Hosts, WaitEnds(h) PROVE Counted'
  BY <1>7, CountUntouched DEF WaitEnds, Return
<1>8. ASSUME NEW h \in Hosts, Drained(h) PROVE Counted'
  BY <1>8, CountUntouched DEF Drained
<1>9. ASSUME NEW h \in Hosts, FlushEnds(h) PROVE Counted'
  BY <1>9, CountUntouched DEF FlushEnds, Return
<1>10. ASSUME NEW h \in Hosts, CollectFailure(h) PROVE Counted'
  BY <1>10, CountUntouched DEF CollectFailure
<1>11. ASSUME NEW h \in Hosts, CloseDriver(h) PROVE Counted'
  BY <1>11, CountUntouched DEF CloseDriver, Return
<1>12. ASSUME NEW h \in Hosts, Deadline(h) PROVE Counted'
  BY <1>12, CountUntouched DEF Deadline, Return
<1>13. ASSUME NEW w \in Writes, StartCallback(w) PROVE Counted'
  BY <1>13, CountUntouched DEF StartCallback, Advance
<1>14. ASSUME NEW w \in Writes, DriverWrite(w) PROVE Counted'
  BY <1>14, CountUntouched DEF DriverWrite, Advance
<1>15. ASSUME NEW w \in Writes, RaiseFlag(w) PROVE Counted'
  BY <1>15, CountUntouched DEF RaiseFlag, Advance
<1>16. ASSUME NEW w \in Writes, RecordCode(w) PROVE Counted'
  BY <1>16, CountUntouched DEF RecordCode, Advance
<1>17. ASSUME NEW w \in Writes, ReleaseBuffer(w) PROVE Counted'
  BY <1>17, CountUntouched DEF ReleaseBuffer, Advance
<1>18. ASSUME NEW w \in Writes, UncountWrite(w) PROVE Counted'
  BY <1>18, UncountWriteCounts
<1>19. ASSUME Finalize PROVE Counted'
  BY <1>19, CountUntouched DEF Finalize
<1>20. CASE UNCHANGED vars
  BY <1>20, CountUntouched DEF vars
<1>21. QED
  BY <1>1, <1>2, <1>3, <1>4, <1>5, <1>6, <1>7, <1>8, <1>9, <1>10,
     <1>11, <1>12, <1>13, <1>14, <1>15, <1>16, <1>17, <1>18, <1>19, <1>20
  DEF Next, HostReturns, CallbackStep

\* The charged writes are finitely many.
LEMMA ChargedFinite ==
  IsFiniteSet(Charged) /\ Cardinality(Charged) \in Nat
<1>1. Charged \in SUBSET Writes
  BY DEF Charged, InTask
<1>2. QED
  BY <1>1, CountedFinite

\* A step that neither takes nor gives back a buffer.
LEMMA BuffersUntouched ==
  ASSUME BuffersInv, buffers' = buffers,
         \A w \in Writes : task'[w] \in HoldsBuffer \cup {"dropped"}
                             <=> task[w] \in HoldsBuffer \cup {"dropped"}
  PROVE  BuffersInv'
<1>1. Charged' = Charged
  BY DEF Charged, InTask
<1>2. QED
  BY <1>1 DEF BuffersInv

\* amio_write takes a buffer for the write it stages, or fails and takes none.
LEMMA WriteCharges ==
  ASSUME TypeOK, BuffersInv, NEW h \in Hosts, NEW w \in Writes, Write(h, w)
  PROVE  BuffersInv'
<1>1. CASE buffers' = buffers + 1 /\ task' = [task EXCEPT ![w] = "staged"]
  <2>1. task[w] = "unused"
    BY DEF Write
  <2>2. Charged' = Charged \cup {w} /\ w \notin Charged
    BY <1>1, <2>1 DEF Charged, InTask, HoldsBuffer, TypeOK
  <2>3. Cardinality(Charged') = Cardinality(Charged) + 1
    BY <2>2, ChargedFinite, FS_AddElement
  <2>4. QED
    BY <1>1, <2>3 DEF BuffersInv
<1>2. CASE UNCHANGED <<buffers, task>>
  BY <1>2, BuffersUntouched
<1>3. QED
  BY <1>1, <1>2 DEF Write

\* The callback gives the buffer back, of a failed write too.
LEMMA ReleaseDischarges ==
  ASSUME TypeOK, BuffersInv, NEW w \in Writes, ReleaseBuffer(w)
  PROVE  BuffersInv'
<1>1. /\ task[w] = "releasing" /\ task' = [task EXCEPT ![w] = "uncounted"]
      /\ buffers' = buffers - 1
  BY DEF ReleaseBuffer, Advance, AfterRelease
<1>2. Charged' = Charged \ {w} /\ w \in Charged
  BY <1>1 DEF Charged, InTask, HoldsBuffer, TypeOK
<1>3. Cardinality(Charged') = Cardinality(Charged) - 1
  BY <1>2, ChargedFinite, FS_RemoveElement
<1>4. QED
  BY <1>1, <1>3 DEF BuffersInv

\* No other step moves a buffer.
LEMMA BuffersKept ==
  ASSUME TypeOK, Places, BuffersInv, [Next]_vars
  PROVE  BuffersInv'
<1> USE DEF TypeOK, Places, InWrite, HoldsBuffer, ioVars, recordVars, stateVars, hostVars
<1>1. ASSUME NEW h \in Hosts, NEW w \in Writes, Write(h, w) PROVE BuffersInv'
  BY <1>1, WriteCharges
<1>2. ASSUME NEW h \in Hosts, NEW w \in Writes, Wait(h, w) PROVE BuffersInv'
  BY <1>2, BuffersUntouched DEF Wait, Begin
<1>3. ASSUME NEW h \in Hosts, Flush(h) PROVE BuffersInv'
  BY <1>3, BuffersUntouched DEF Flush, Begin
<1>4. ASSUME NEW h \in Hosts, Close(h) PROVE BuffersInv'
  BY <1>4, BuffersUntouched DEF Close, Begin
<1>5. ASSUME NEW h \in Hosts, SubmitWrite(h) PROVE BuffersInv'
  BY <1>5, BuffersUntouched DEF SubmitWrite, Goto
<1>6. ASSUME NEW h \in Hosts, CountWrite(h) PROVE BuffersInv'
  BY <1>6, BuffersUntouched DEF CountWrite, Return
<1>7. ASSUME NEW h \in Hosts, WaitEnds(h) PROVE BuffersInv'
  BY <1>7, BuffersUntouched DEF WaitEnds, Return
<1>8. ASSUME NEW h \in Hosts, Drained(h) PROVE BuffersInv'
  BY <1>8, BuffersUntouched DEF Drained
<1>9. ASSUME NEW h \in Hosts, FlushEnds(h) PROVE BuffersInv'
  BY <1>9, BuffersUntouched DEF FlushEnds, Return
<1>10. ASSUME NEW h \in Hosts, CollectFailure(h) PROVE BuffersInv'
  BY <1>10, BuffersUntouched DEF CollectFailure
<1>11. ASSUME NEW h \in Hosts, CloseDriver(h) PROVE BuffersInv'
  BY <1>11, BuffersUntouched DEF CloseDriver, Return
<1>12. ASSUME NEW h \in Hosts, Deadline(h) PROVE BuffersInv'
  BY <1>12, BuffersUntouched DEF Deadline, Return
<1>13. ASSUME NEW w \in Writes, StartCallback(w) PROVE BuffersInv'
  BY <1>13, BuffersUntouched DEF StartCallback, Advance
<1>14. ASSUME NEW w \in Writes, DriverWrite(w) PROVE BuffersInv'
  BY <1>14, BuffersUntouched DEF DriverWrite, Advance
<1>15. ASSUME NEW w \in Writes, RaiseFlag(w) PROVE BuffersInv'
  BY <1>15, BuffersUntouched DEF RaiseFlag, Advance
<1>16. ASSUME NEW w \in Writes, RecordCode(w) PROVE BuffersInv'
  BY <1>16, BuffersUntouched DEF RecordCode, Advance
<1>17. ASSUME NEW w \in Writes, ReleaseBuffer(w) PROVE BuffersInv'
  BY <1>17, ReleaseDischarges
<1>18. ASSUME NEW w \in Writes, UncountWrite(w) PROVE BuffersInv'
  BY <1>18, BuffersUntouched DEF UncountWrite, Advance
<1>19. ASSUME Finalize PROVE BuffersInv'
  BY <1>19, BuffersUntouched DEF Finalize
<1>20. CASE UNCHANGED vars
  BY <1>20, BuffersUntouched DEF vars
<1>21. QED
  BY <1>1, <1>2, <1>3, <1>4, <1>5, <1>6, <1>7, <1>8, <1>9, <1>10,
     <1>11, <1>12, <1>13, <1>14, <1>15, <1>16, <1>17, <1>18, <1>19, <1>20
  DEF Next, HostReturns, CallbackStep

\* A step keeps the types; the counters stay natural numbers because they count.
LEMMA TypeKept ==
  ASSUME TypeOK, Places, BuffersInv, BuffersInv', [Next]_vars
  PROVE  TypeOK'
<1>b. buffers' \in Nat
  <2>1. Charged' \in SUBSET Writes
    BY DEF Charged, InTask
  <2>2. QED
    BY <2>1, CountedFinite DEF BuffersInv
<1>p. \A n \in 0 .. PendingLimit - 1 :
        /\ (n + 1) % PendingLimit \in 0 .. PendingLimit - 1
        /\ (n - 1) % PendingLimit \in 0 .. PendingLimit - 1
  BY CounterSteps, WritePathAssumption
<1> USE DEF TypeOK, Places, InWrite, HoldsBuffer, InCallback, AddPending, SubtractPending,
            RecordedStatus, ioVars, recordVars, stateVars, hostVars
<1>1. ASSUME NEW h \in Hosts, NEW w \in Writes, Write(h, w) PROVE TypeOK'
  BY <1>1, <1>b, <1>p DEF Write, Begin, Return
<1>2. ASSUME NEW h \in Hosts, NEW w \in Writes, Wait(h, w) PROVE TypeOK'
  BY <1>2, <1>b, <1>p DEF Wait, Begin
<1>3. ASSUME NEW h \in Hosts, Flush(h) PROVE TypeOK'
  BY <1>3, <1>b, <1>p DEF Flush, Begin
<1>4. ASSUME NEW h \in Hosts, Close(h) PROVE TypeOK'
  BY <1>4, <1>b, <1>p DEF Close, Begin
<1>5. ASSUME NEW h \in Hosts, SubmitWrite(h) PROVE TypeOK'
  BY <1>5, <1>b, <1>p DEF SubmitWrite, Goto
<1>6. ASSUME NEW h \in Hosts, CountWrite(h) PROVE TypeOK'
  BY <1>6, <1>b, <1>p DEF CountWrite, Return
<1>7. ASSUME NEW h \in Hosts, WaitEnds(h) PROVE TypeOK'
  BY <1>7, <1>b, <1>p DEF WaitEnds, Return
<1>8. ASSUME NEW h \in Hosts, Drained(h) PROVE TypeOK'
  BY <1>8, <1>b, <1>p DEF Drained
<1>9. ASSUME NEW h \in Hosts, FlushEnds(h) PROVE TypeOK'
  BY <1>9, <1>b, <1>p DEF FlushEnds, Return
<1>10. ASSUME NEW h \in Hosts, CollectFailure(h) PROVE TypeOK'
  BY <1>10, <1>b, <1>p DEF CollectFailure
<1>11. ASSUME NEW h \in Hosts, CloseDriver(h) PROVE TypeOK'
  <2>1. PICK status \in {answer[h], "error"} :
               Return(h, IF answer[h] = "ok" THEN status ELSE answer[h])
    BY <1>11 DEF CloseDriver
  <2>2. status \in {"none", "ok", "error", "timeout"}
    BY <2>1
  <2>3. QED
    BY <1>11, <1>b, <2>1, <2>2 DEF CloseDriver, Return
<1>12. ASSUME NEW h \in Hosts, Deadline(h) PROVE TypeOK'
  BY <1>12, <1>b, <1>p DEF Deadline, Return
<1>13. ASSUME NEW w \in Writes, StartCallback(w) PROVE TypeOK'
  BY <1>13, <1>b, <1>p DEF StartCallback, Advance
<1>14. ASSUME NEW w \in Writes, DriverWrite(w) PROVE TypeOK'
  BY <1>14, <1>b, <1>p DEF DriverWrite, Advance
<1>15. ASSUME NEW w \in Writes, RaiseFlag(w) PROVE TypeOK'
  BY <1>15, <1>b, <1>p DEF RaiseFlag, Advance
<1>16. ASSUME NEW w \in Writes, RecordCode(w) PROVE TypeOK'
  BY <1>16, <1>b, <1>p DEF RecordCode, Advance
<1>17. ASSUME NEW w \in Writes, ReleaseBuffer(w) PROVE TypeOK'
  BY <1>17, <1>b, <1>p DEF ReleaseBuffer, Advance
<1>18. ASSUME NEW w \in Writes, UncountWrite(w) PROVE TypeOK'
  BY <1>18, <1>b, <1>p DEF UncountWrite, Advance
<1>19. ASSUME Finalize PROVE TypeOK'
  BY <1>19, <1>b, <1>p DEF Finalize
<1>20. CASE UNCHANGED vars
  BY <1>20, <1>b, <1>p DEF vars
<1>21. QED
  BY <1>1, <1>2, <1>3, <1>4, <1>5, <1>6, <1>7, <1>8, <1>9, <1>10,
     <1>11, <1>12, <1>13, <1>14, <1>15, <1>16, <1>17, <1>18, <1>19, <1>20
  DEF Next, HostReturns, CallbackStep

-----------------------------------------------------------------------------
(* What a flush that returns relies on.                                    *)

\* A callback that is past the driver has stored its write or left the failure.
LEMMA SurfacedKept ==
  ASSUME TypeOK, Places, Surfaced, [Next]_vars
  PROVE  Surfaced'
<1> USE DEF TypeOK, Places, InWrite, Surfaced, ioVars, recordVars, stateVars, hostVars
<1>1. ASSUME NEW h \in Hosts, NEW w \in Writes, Write(h, w) PROVE Surfaced'
  BY <1>1 DEF Write, Begin, Return
<1>2. ASSUME NEW h \in Hosts, NEW w \in Writes, Wait(h, w) PROVE Surfaced'
  BY <1>2 DEF Wait, Begin
<1>3. ASSUME NEW h \in Hosts, Flush(h) PROVE Surfaced'
  BY <1>3 DEF Flush, Begin
<1>4. ASSUME NEW h \in Hosts, Close(h) PROVE Surfaced'
  BY <1>4 DEF Close, Begin
<1>5. ASSUME NEW h \in Hosts, SubmitWrite(h) PROVE Surfaced'
  BY <1>5 DEF SubmitWrite, Goto
<1>6. ASSUME NEW h \in Hosts, CountWrite(h) PROVE Surfaced'
  BY <1>6 DEF CountWrite, Return
<1>7. ASSUME NEW h \in Hosts, WaitEnds(h) PROVE Surfaced'
  BY <1>7 DEF WaitEnds, Return
<1>8. ASSUME NEW h \in Hosts, Drained(h) PROVE Surfaced'
  BY <1>8 DEF Drained
<1>9. ASSUME NEW h \in Hosts, FlushEnds(h) PROVE Surfaced'
  BY <1>9 DEF FlushEnds, Return
<1>10. ASSUME NEW h \in Hosts, CollectFailure(h) PROVE Surfaced'
  BY <1>10 DEF CollectFailure
<1>11. ASSUME NEW h \in Hosts, CloseDriver(h) PROVE Surfaced'
  BY <1>11 DEF CloseDriver, Return
<1>12. ASSUME NEW h \in Hosts, Deadline(h) PROVE Surfaced'
  BY <1>12 DEF Deadline, Return
<1>13. ASSUME NEW w \in Writes, StartCallback(w) PROVE Surfaced'
  BY <1>13 DEF StartCallback, Advance
<1>14. ASSUME NEW w \in Writes, DriverWrite(w) PROVE Surfaced'
  BY <1>14 DEF DriverWrite, Advance
<1>15. ASSUME NEW w \in Writes, RaiseFlag(w) PROVE Surfaced'
  BY <1>15 DEF RaiseFlag, Advance
<1>16. ASSUME NEW w \in Writes, RecordCode(w) PROVE Surfaced'
  BY <1>16 DEF RecordCode, Advance
<1>17. ASSUME NEW w \in Writes, ReleaseBuffer(w) PROVE Surfaced'
  BY <1>17 DEF ReleaseBuffer, Advance
<1>18. ASSUME NEW w \in Writes, UncountWrite(w) PROVE Surfaced'
  BY <1>18 DEF UncountWrite, Advance
<1>19. ASSUME Finalize PROVE Surfaced'
  BY <1>19 DEF Finalize
<1>20. CASE UNCHANGED vars
  BY <1>20 DEF vars
<1>21. QED
  BY <1>1, <1>2, <1>3, <1>4, <1>5, <1>6, <1>7, <1>8, <1>9, <1>10,
     <1>11, <1>12, <1>13, <1>14, <1>15, <1>16, <1>17, <1>18, <1>19, <1>20
  DEF Next, HostReturns, CallbackStep

\* With no host in the window, pending_writes is the number of unfinished writes.
LEMMA CountedOutsideWindow ==
  ASSUME TypeOK, Places, Counted, \A h \in Hosts : hpc[h] # "counting"
  PROVE  pending_writes = Cardinality(Unfinished) /\ IsFiniteSet(Unfinished)
<1>1. Early = {}
  BY DEF Places, Early, Accepted
<1>2. Cardinality(Early) = 0
  BY <1>1, FS_EmptySet
<1>3. Unfinished \in SUBSET Writes
  BY DEF Unfinished, TypeOK
<1>4. IsFiniteSet(Unfinished) /\ Cardinality(Unfinished) \in Nat
  BY <1>3, CountedFinite
<1>5. QED
  BY <1>2, <1>4 DEF Counted

\* A poll that finds zero outside the window finds every returned write finished.
LEMMA DrainedSees ==
  ASSUME TypeOK, Places, Counted, FlushInv, NEW h \in Hosts, Drained(h)
  PROVE  FlushInv'
<1>1. CASE \E g \in Hosts : hpc[g] = "counting"
  BY <1>1 DEF Drained, FlushInv, PastDrain, TypeOK, ioVars
<1>2. CASE \A g \in Hosts : hpc[g] # "counting"
  <2>1. Unfinished = {}
    BY <1>2, CountedOutsideWindow, FS_EmptySet DEF Drained
  <2>2. \A w \in returned : task[w] = "done"
    BY <2>1 DEF Unfinished
  <2>3. QED
    BY <1>2, <2>2 DEF Drained, FlushInv, PastDrain, TypeOK, ioVars
<1>3. QED
  BY <1>1, <1>2

\* What a polling host saw stays true until its call returns.
LEMMA FlushKept ==
  ASSUME TypeOK, Places, Counted, Surfaced, FlushInv, [Next]_vars
  PROVE  FlushInv'
<1> USE DEF TypeOK, Places, InWrite, Accepted, Surfaced, FlushInv, PastDrain, RecordedStatus,
            ioVars, recordVars, stateVars, hostVars
<1>1. ASSUME NEW h \in Hosts, NEW w \in Writes, Write(h, w) PROVE FlushInv'
  BY <1>1 DEF Write, Begin, Return
<1>2. ASSUME NEW h \in Hosts, NEW w \in Writes, Wait(h, w) PROVE FlushInv'
  BY <1>2 DEF Wait, Begin
<1>3. ASSUME NEW h \in Hosts, Flush(h) PROVE FlushInv'
  BY <1>3 DEF Flush, Begin
<1>4. ASSUME NEW h \in Hosts, Close(h) PROVE FlushInv'
  BY <1>4 DEF Close, Begin
<1>5. ASSUME NEW h \in Hosts, SubmitWrite(h) PROVE FlushInv'
  BY <1>5 DEF SubmitWrite, Goto
<1>6. ASSUME NEW h \in Hosts, CountWrite(h) PROVE FlushInv'
  BY <1>6 DEF CountWrite, Return
<1>7. ASSUME NEW h \in Hosts, WaitEnds(h) PROVE FlushInv'
  BY <1>7 DEF WaitEnds, Return
<1>8. ASSUME NEW h \in Hosts, Drained(h) PROVE FlushInv'
  BY <1>8, DrainedSees
<1>9. ASSUME NEW h \in Hosts, FlushEnds(h) PROVE FlushInv'
  BY <1>9 DEF FlushEnds, Return
<1>10. ASSUME NEW h \in Hosts, CollectFailure(h) PROVE FlushInv'
  BY <1>10 DEF CollectFailure
<1>11. ASSUME NEW h \in Hosts, CloseDriver(h) PROVE FlushInv'
  BY <1>11 DEF CloseDriver, Return
<1>12. ASSUME NEW h \in Hosts, Deadline(h) PROVE FlushInv'
  BY <1>12 DEF Deadline, Return
<1>13. ASSUME NEW w \in Writes, StartCallback(w) PROVE FlushInv'
  BY <1>13 DEF StartCallback, Advance
<1>14. ASSUME NEW w \in Writes, DriverWrite(w) PROVE FlushInv'
  BY <1>14 DEF DriverWrite, Advance
<1>15. ASSUME NEW w \in Writes, RaiseFlag(w) PROVE FlushInv'
  BY <1>15 DEF RaiseFlag, Advance
<1>16. ASSUME NEW w \in Writes, RecordCode(w) PROVE FlushInv'
  BY <1>16 DEF RecordCode, Advance
<1>17. ASSUME NEW w \in Writes, ReleaseBuffer(w) PROVE FlushInv'
  BY <1>17 DEF ReleaseBuffer, Advance
<1>18. ASSUME NEW w \in Writes, UncountWrite(w) PROVE FlushInv'
  BY <1>18 DEF UncountWrite, Advance
<1>19. ASSUME Finalize PROVE FlushInv'
  BY <1>19 DEF Finalize
<1>20. CASE UNCHANGED vars
  BY <1>20 DEF vars
<1>21. QED
  BY <1>1, <1>2, <1>3, <1>4, <1>5, <1>6, <1>7, <1>8, <1>9, <1>10,
     <1>11, <1>12, <1>13, <1>14, <1>15, <1>16, <1>17, <1>18, <1>19, <1>20
  DEF Next, HostReturns, CallbackStep

-----------------------------------------------------------------------------
(* The theorems.                                                           *)

\* A dataset that was just opened satisfies the invariant.
LEMMA InitInv == Init => Inv
<1>1. SUFFICES ASSUME Init PROVE Inv
  OBVIOUS
<1>2. TypeOK
  <2>1. 0 \in 0 .. PendingLimit - 1
    <3>1. Cardinality(Writes) \in Nat
      BY WritePathAssumption, FS_CardinalityType
    <3>2. QED
      BY <3>1, WritePathAssumption
  <2>2. QED
    BY <1>1, <2>1 DEF Init, TypeOK
<1>3. Places /\ Surfaced /\ FlushInv
  BY <1>1 DEF Init, Places, Accepted, InWrite, Surfaced, FlushInv, PastDrain
<1>4. Unfinished = {} /\ Early = {} /\ Charged = {}
  BY <1>1 DEF Init, Unfinished, Early, Charged, InTask, HoldsBuffer
<1>5. Counted /\ BuffersInv
  BY <1>1, <1>4, FS_EmptySet DEF Init, Counted, BuffersInv
<1>6. QED
  BY <1>2, <1>3, <1>5 DEF Inv

\* No step leaves it.
LEMMA NextKeeps == Inv /\ [Next]_vars => Inv'
BY PlacesKept, CountedKept, BuffersKept, TypeKept, SurfacedKept, FlushKept DEF Inv

\* The inductive invariant of the write path.
THEOREM WriteInvariant == Spec => []Inv
BY InitInv, NextKeeps, PTL DEF Spec

\* Every variable keeps its type; pending_writes stays within its width.
THEOREM WriteTypeCorrect == Spec => []TypeOK
<1>1. Inv => TypeOK
  BY DEF Inv
<1>2. QED
  BY <1>1, WriteInvariant, PTL

\* No staging buffer is lost on the way of a write through snapshot, queue and
\* callback, of a failed one too, except those of the writes a full queue refused.
THEOREM NoBufferLost == Spec => []BuffersAccounted
<1>1. ASSUME Inv PROVE BuffersAccounted
  <2> DEFINE A == InTask(HoldsBuffer)
             B == Dropped
  <2>1. Charged = A \cup B /\ A \cap B = {}
    BY DEF Charged, Dropped, InTask, HoldsBuffer
  <2>2. A \in SUBSET Writes /\ B \in SUBSET Writes
    BY DEF Dropped, InTask
  <2>3. IsFiniteSet(A) /\ IsFiniteSet(B) /\ Cardinality(A) \in Nat /\ Cardinality(B) \in Nat
    BY <2>2, CountedFinite
  <2> HIDE DEF A, B
  <2>4. Cardinality(Charged) = Cardinality(A) + Cardinality(B)
    BY <2>1, <2>3, FS_Union, FS_EmptySet
  <2>5. QED
    BY <1>1, <2>4 DEF Inv, BuffersInv, BuffersAccounted, A, B
<1>2. QED
  BY <1>1, WriteInvariant, PTL

\* Whenever no host is between submit_write and fetch_add, pending_writes is the
\* number of writes that returned and are not finished, although callbacks count off
\* writes that were not counted yet and take the counter below zero.
THEOREM PendingCountsUnfinished == Spec => []PendingExact
<1>1. Inv => PendingExact
  BY CountedOutsideWindow DEF Inv, PendingExact, Unfinished
<1>2. QED
  BY <1>1, WriteInvariant, PTL

\* An amio_flush or amio_close that returns AMIO_OK, did not give up waiting and did
\* not poll inside another host's window has every write that returned before the
\* call in the driver.
THEOREM FlushIsDurable == Spec => FlushMeansWritten
<1>1. ASSUME Inv, Next, NEW h \in Hosts \ excused,
             hpc[h] \in {"surfacing", "closing"}, hpc'[h] = "idle", answer'[h] = "ok"
      PROVE  base[h] \subseteq written
  <2>1. TypeOK /\ Surfaced /\ FlushInv
    BY <1>1 DEF Inv
  <2>2. \/ FlushEnds(h) \/ CloseDriver(h)
    BY <1>1, <2>1
    DEF Next, HostReturns, CallbackStep, TypeOK, Write, Wait, Flush, Close, SubmitWrite, CountWrite,
        WaitEnds, Drained, FlushEnds, CollectFailure, CloseDriver, Deadline, StartCallback,
        DriverWrite, RaiseFlag, RecordCode, ReleaseBuffer, UncountWrite, Finalize, Begin, Return,
        Goto, hostVars
  <2>3. CASE FlushEnds(h)
    BY <1>1, <2>1, <2>3
    DEF FlushEnds, Return, RecordedStatus, TypeOK, Surfaced, FlushInv, PastDrain
  <2>4. CASE CloseDriver(h)
    BY <1>1, <2>1, <2>4 DEF CloseDriver, Return, TypeOK, FlushInv
  <2>5. QED
    BY <2>2, <2>3, <2>4
<1>2. Inv /\ [Next]_vars =>
        [\A h \in Hosts \ excused :
           hpc[h] \in {"surfacing", "closing"} /\ hpc'[h] = "idle" /\ answer'[h] = "ok"
             => base[h] \subseteq written]_vars
  BY <1>1
<1>3. QED
  BY <1>2, WriteInvariant, PTL DEF Spec, FlushMeansWritten

=============================================================================
