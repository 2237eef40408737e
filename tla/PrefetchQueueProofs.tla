------------------------- MODULE PrefetchQueueProofs --------------------------
(***************************************************************************)
(* Proofs about PrefetchQueue, for every number of readers, timesteps and  *)
(* selections, every depth and every number of throwing acquisitions.      *)
(* ViewsBounded keeps room for the views of calls under way; BoxesAgree    *)
(* makes the test of fetched_bbox_ one of the buffer itself; Answered is   *)
(* what a lone reader may rely on while it waits.                          *)
(***************************************************************************)
EXTENDS PrefetchQueue, FiniteSetTheorems, TLAPS

QueueTyped ==
  /\ completed \in [Timesteps -> Selections \cup {NoBuffer}]
  /\ fetched_bbox \in [Timesteps -> Selections]
  /\ pending \subseteq Timesteps /\ failed \subseteq Timesteps
  /\ latched_bbox \in Selections
  /\ kicked_off \in BOOLEAN /\ cancelled \in BOOLEAN
  /\ stage \in {"open", "closing", "closed", "destroyed"}

FetchTyped ==
  /\ fetch \in [Timesteps -> {"none", "queued", "acquiring", "reading"}]
  /\ fsel \in [Timesteps -> Selections]
  /\ throws \in 0 .. MaxThrows

ReadTyped ==
  /\ pc \in [Readers -> Outside \cup InLoop]
  /\ rt \in [Readers -> Timesteps] /\ rsel \in [Readers -> Selections]
  /\ todo \in [Readers -> SUBSET Timesteps]
  /\ expired \in [Readers -> BOOLEAN]

Typed == QueueTyped /\ FetchTyped /\ ReadTyped

\* The calls that may still make a view leave room for it among MaxViews.
Busy == {r \in Readers : pc[r] \notin {"idle", "warming", "replenishing"}}
ViewsBounded == views \in Nat /\ views + Cardinality(Busy) <= MaxViews

\* fetched_bbox_ is right about every buffer that is staged; of others it may keep
\* an entry of a buffer long gone.
BoxesAgree == \A t \in Completed : fetched_bbox[t] = completed[t]

Inv == TypeOK /\ TrackedOnce /\ BuffersConserved /\ ViewsBounded /\ BoxesAgree

\* The first timestep.
LEMMA FirstTimestep == 0 \in Timesteps
BY PrefetchAssumption DEF Timesteps

-----------------------------------------------------------------------------
(* Types.                                                                  *)

\* The queue's own state.
LEMMA QueueTypedKept ==
  ASSUME Typed, [Next]_vars
  PROVE  QueueTyped'
<1> USE PrefetchAssumption DEF Typed, QueueTyped, FetchTyped, ReadTyped, queueVars, fetchVars,
   readVars, bufferVars
<1>1. ASSUME NEW r \in Readers, NEW t \in Timesteps, NEW s \in Selections, Read(r, t, s)
      PROVE  QueueTyped'
  BY <1>1 DEF Read
<1>2. ASSUME NEW r \in Readers, ScheduleInitial(r) PROVE QueueTyped'
  BY <1>2 DEF ScheduleInitial, Goto, Window
<1>3. ASSUME NEW r \in Readers, GetBuffer(r) PROVE QueueTyped'
  BY <1>3 DEF GetBuffer, Goto, Window, FirstLook, TakeMatching, TakeBuffer, Have, DropStale,
     FailCancelOrSleep, ReturnFailure, Return
<1>4. ASSUME NEW r \in Readers, ScheduleWindow(r) PROVE QueueTyped'
  BY <1>4 DEF ScheduleWindow, ScheduleFetch, Tracked
<1>5. ASSUME NEW r \in Readers, EndWindow(r) PROVE QueueTyped'
  BY <1>5 DEF EndWindow, Goto, FirstLook, TakeMatching, TakeBuffer, Have, DropStale,
     FailCancelOrSleep, ReturnFailure, Return
<1>6. ASSUME NEW r \in Readers, ScheduleOne(r) PROVE QueueTyped'
  BY <1>6 DEF ScheduleOne, Goto, ScheduleFetch, Tracked
<1>7. ASSUME NEW r \in Readers, Turn(r) PROVE QueueTyped'
  BY <1>7 DEF Turn, Goto, TakeMatching, TakeBuffer, Have, DropStale, FailCancelOrSleep,
     ReturnFailure, Return
<1>8. ASSUME NEW r \in Readers, Recheck(r) PROVE QueueTyped'
  BY <1>8 DEF Recheck, Goto, FailCancelOrSleep, ReturnFailure, Return
<1>9. ASSUME NEW r \in Readers, ReadTimeout(r) PROVE QueueTyped'
  BY <1>9 DEF ReadTimeout, Goto, TakeBuffer, ReturnFailure, Return
<1>10. ASSUME NEW r \in Readers, CountView(r) PROVE QueueTyped'
  BY <1>10 DEF CountView, Goto
<1>11. ASSUME NEW r \in Readers, ScheduleNext(r) PROVE QueueTyped'
  BY <1>11 DEF ScheduleNext, ScheduleFetch, Tracked, Return
<1>12. ASSUME NEW r \in Readers, DeadlinePasses(r) PROVE QueueTyped'
  BY <1>12 DEF DeadlinePasses
<1>13. ASSUME NEW r \in Readers, SpuriousWakeup(r) PROVE QueueTyped'
  BY <1>13 DEF SpuriousWakeup, Goto
<1>14. ASSUME NEW t \in Timesteps, StartFetch(t) PROVE QueueTyped'
  BY <1>14 DEF StartFetch, EndFetch
<1>15. ASSUME NEW t \in Timesteps, AcquireBuffer(t) PROVE QueueTyped'
  BY <1>15 DEF AcquireBuffer, MarkFailed, EndFetch, NotifyAll
<1>16. ASSUME NEW t \in Timesteps, ReadRecord(t) PROVE QueueTyped'
  BY <1>16 DEF ReadRecord, MarkFailed, MarkComplete, RecordedSelection, EndFetch, NotifyAll
<1>17. ASSUME ReleaseView PROVE QueueTyped'
  BY <1>17 DEF ReleaseView
<1>18. ASSUME CloseDataset PROVE QueueTyped'
  BY <1>18 DEF CloseDataset
<1>19. ASSUME CancelPending PROVE QueueTyped'
  BY <1>19 DEF CancelPending, EmptyQueue, NotifyAll
<1>20. ASSUME Destroy PROVE QueueTyped'
  BY <1>20 DEF Destroy, EmptyQueue, NotifyAll
<1>21. CASE UNCHANGED vars
  BY <1>21 DEF vars
<1>22. QED
  BY <1>1, <1>2, <1>3, <1>4, <1>5, <1>6, <1>7, <1>8, <1>9, <1>10, <1>11, <1>12, <1>13, <1>14,
     <1>15, <1>16, <1>17, <1>18, <1>19, <1>20, <1>21
  DEF Next, ReaderStep, FetchStep

\* The fetch tasks.
LEMMA FetchTypedKept ==
  ASSUME Typed, [Next]_vars
  PROVE  FetchTyped'
<1> USE PrefetchAssumption DEF Typed, QueueTyped, FetchTyped, ReadTyped, queueVars, fetchVars,
   readVars, bufferVars
<1>1. ASSUME NEW r \in Readers, NEW t \in Timesteps, NEW s \in Selections, Read(r, t, s)
      PROVE  FetchTyped'
  BY <1>1 DEF Read
<1>2. ASSUME NEW r \in Readers, ScheduleInitial(r) PROVE FetchTyped'
  BY <1>2 DEF ScheduleInitial, Goto, Window
<1>3. ASSUME NEW r \in Readers, GetBuffer(r) PROVE FetchTyped'
  BY <1>3 DEF GetBuffer, Goto, Window, FirstLook, TakeMatching, TakeBuffer, Have, DropStale,
     FailCancelOrSleep, ReturnFailure, Return
<1>4. ASSUME NEW r \in Readers, ScheduleWindow(r) PROVE FetchTyped'
  BY <1>4 DEF ScheduleWindow, ScheduleFetch, Tracked
<1>5. ASSUME NEW r \in Readers, EndWindow(r) PROVE FetchTyped'
  BY <1>5 DEF EndWindow, Goto, FirstLook, TakeMatching, TakeBuffer, Have, DropStale,
     FailCancelOrSleep, ReturnFailure, Return
<1>6. ASSUME NEW r \in Readers, ScheduleOne(r) PROVE FetchTyped'
  BY <1>6 DEF ScheduleOne, Goto, ScheduleFetch, Tracked
<1>7. ASSUME NEW r \in Readers, Turn(r) PROVE FetchTyped'
  BY <1>7 DEF Turn, Goto, TakeMatching, TakeBuffer, Have, DropStale, FailCancelOrSleep,
     ReturnFailure, Return
<1>8. ASSUME NEW r \in Readers, Recheck(r) PROVE FetchTyped'
  BY <1>8 DEF Recheck, Goto, FailCancelOrSleep, ReturnFailure, Return
<1>9. ASSUME NEW r \in Readers, ReadTimeout(r) PROVE FetchTyped'
  BY <1>9 DEF ReadTimeout, Goto, TakeBuffer, ReturnFailure, Return
<1>10. ASSUME NEW r \in Readers, CountView(r) PROVE FetchTyped'
  BY <1>10 DEF CountView, Goto
<1>11. ASSUME NEW r \in Readers, ScheduleNext(r) PROVE FetchTyped'
  BY <1>11 DEF ScheduleNext, ScheduleFetch, Tracked, Return
<1>12. ASSUME NEW r \in Readers, DeadlinePasses(r) PROVE FetchTyped'
  BY <1>12 DEF DeadlinePasses
<1>13. ASSUME NEW r \in Readers, SpuriousWakeup(r) PROVE FetchTyped'
  BY <1>13 DEF SpuriousWakeup, Goto
<1>14. ASSUME NEW t \in Timesteps, StartFetch(t) PROVE FetchTyped'
  BY <1>14 DEF StartFetch, EndFetch
<1>15. ASSUME NEW t \in Timesteps, AcquireBuffer(t) PROVE FetchTyped'
  BY <1>15 DEF AcquireBuffer, MarkFailed, EndFetch, NotifyAll
<1>16. ASSUME NEW t \in Timesteps, ReadRecord(t) PROVE FetchTyped'
  BY <1>16 DEF ReadRecord, MarkFailed, MarkComplete, RecordedSelection, EndFetch, NotifyAll
<1>17. ASSUME ReleaseView PROVE FetchTyped'
  BY <1>17 DEF ReleaseView
<1>18. ASSUME CloseDataset PROVE FetchTyped'
  BY <1>18 DEF CloseDataset
<1>19. ASSUME CancelPending PROVE FetchTyped'
  BY <1>19 DEF CancelPending, EmptyQueue, NotifyAll
<1>20. ASSUME Destroy PROVE FetchTyped'
  BY <1>20 DEF Destroy, EmptyQueue, NotifyAll
<1>21. CASE UNCHANGED vars
  BY <1>21 DEF vars
<1>22. QED
  BY <1>1, <1>2, <1>3, <1>4, <1>5, <1>6, <1>7, <1>8, <1>9, <1>10, <1>11, <1>12, <1>13, <1>14,
     <1>15, <1>16, <1>17, <1>18, <1>19, <1>20, <1>21
  DEF Next, ReaderStep, FetchStep

\* A reader that goes on inside its call or returns from it.
LEMMA ReaderMoves ==
  ASSUME ReadTyped, NEW r \in Readers,
         todo' \in [Readers -> SUBSET Timesteps],
         Return(r) \/ \E w \in Outside \cup InLoop : Goto(r, w)
  PROVE  ReadTyped'
<1>1. CASE Return(r)
  <2>1. pc' \in [Readers -> Outside \cup InLoop]
    BY <1>1 DEF Return, ReadTyped, Outside
  <2>2. rt' \in [Readers -> Timesteps] /\ rsel' \in [Readers -> Selections]
    BY <1>1, FirstTimestep, PrefetchAssumption DEF Return, ReadTyped
  <2>3. expired' \in [Readers -> BOOLEAN]
    BY <1>1 DEF Return, ReadTyped
  <2>4. QED
    BY <2>1, <2>2, <2>3 DEF ReadTyped
<1>2. CASE \E w \in Outside \cup InLoop : Goto(r, w)
  BY <1>2 DEF Goto, ReadTyped
<1>3. QED
  BY <1>1, <1>2

\* The readers.
LEMMA ReadTypedKept ==
  ASSUME Typed, [Next]_vars
  PROVE  ReadTyped'
<1> USE PrefetchAssumption, FirstTimestep DEF Typed, QueueTyped, FetchTyped, ReadTyped,
   Outside, InLoop, queueVars, fetchVars, readVars, bufferVars
<1>1. ASSUME NEW r \in Readers, NEW t \in Timesteps, NEW s \in Selections, Read(r, t, s)
      PROVE  ReadTyped'
  BY <1>1 DEF Read
<1>2. ASSUME NEW r \in Readers, ScheduleInitial(r) PROVE ReadTyped'
  BY <1>2 DEF ScheduleInitial, Goto, Window
<1>3. ASSUME NEW r \in Readers, GetBuffer(r) PROVE ReadTyped'
  <2>1. Return(r) \/ \E w \in Outside \cup InLoop : Goto(r, w)
    BY <1>3 DEF GetBuffer, FirstLook, TakeMatching, TakeBuffer, DropStale, FailCancelOrSleep,
       ReturnFailure
  <2>2. todo' \in [Readers -> SUBSET Timesteps]
    BY <1>3 DEF GetBuffer, Window
  <2>3. QED
    BY <2>1, <2>2, ReaderMoves
<1>4. ASSUME NEW r \in Readers, ScheduleWindow(r) PROVE ReadTyped'
  BY <1>4 DEF ScheduleWindow, ScheduleFetch, Tracked
<1>5. ASSUME NEW r \in Readers, EndWindow(r) PROVE ReadTyped'
  <2>1. Return(r) \/ \E w \in Outside \cup InLoop : Goto(r, w)
    BY <1>5 DEF EndWindow, FirstLook, TakeMatching, TakeBuffer, DropStale, FailCancelOrSleep,
       ReturnFailure
  <2>2. todo' \in [Readers -> SUBSET Timesteps]
    BY <1>5 DEF EndWindow, Window
  <2>3. QED
    BY <2>1, <2>2, ReaderMoves
<1>6. ASSUME NEW r \in Readers, ScheduleOne(r) PROVE ReadTyped'
  BY <1>6 DEF ScheduleOne, Goto, ScheduleFetch, Tracked
<1>7. ASSUME NEW r \in Readers, Turn(r) PROVE ReadTyped'
  <2>1. Return(r) \/ \E w \in Outside \cup InLoop : Goto(r, w)
    BY <1>7 DEF Turn, TakeMatching, TakeBuffer, DropStale, FailCancelOrSleep, ReturnFailure
  <2>2. todo' \in [Readers -> SUBSET Timesteps]
    BY <1>7 DEF Turn, Window
  <2>3. QED
    BY <2>1, <2>2, ReaderMoves
<1>8. ASSUME NEW r \in Readers, Recheck(r) PROVE ReadTyped'
  <2>1. Return(r) \/ \E w \in Outside \cup InLoop : Goto(r, w)
    BY <1>8 DEF Recheck, FailCancelOrSleep, ReturnFailure
  <2>2. todo' \in [Readers -> SUBSET Timesteps]
    BY <1>8 DEF Recheck, Window
  <2>3. QED
    BY <2>1, <2>2, ReaderMoves
<1>9. ASSUME NEW r \in Readers, ReadTimeout(r) PROVE ReadTyped'
  <2>1. Return(r) \/ \E w \in Outside \cup InLoop : Goto(r, w)
    BY <1>9 DEF ReadTimeout, TakeBuffer, ReturnFailure
  <2>2. todo' \in [Readers -> SUBSET Timesteps]
    BY <1>9 DEF ReadTimeout, Window
  <2>3. QED
    BY <2>1, <2>2, ReaderMoves
<1>10. ASSUME NEW r \in Readers, CountView(r) PROVE ReadTyped'
  BY <1>10 DEF CountView, Goto
<1>11. ASSUME NEW r \in Readers, ScheduleNext(r) PROVE ReadTyped'
  BY <1>11 DEF ScheduleNext, ScheduleFetch, Tracked, Return
<1>12. ASSUME NEW r \in Readers, DeadlinePasses(r) PROVE ReadTyped'
  BY <1>12 DEF DeadlinePasses
<1>13. ASSUME NEW r \in Readers, SpuriousWakeup(r) PROVE ReadTyped'
  BY <1>13 DEF SpuriousWakeup, Goto
<1>14. ASSUME NEW t \in Timesteps, StartFetch(t) PROVE ReadTyped'
  BY <1>14 DEF StartFetch, EndFetch
<1>15. ASSUME NEW t \in Timesteps, AcquireBuffer(t) PROVE ReadTyped'
  BY <1>15 DEF AcquireBuffer, MarkFailed, EndFetch, NotifyAll
<1>16. ASSUME NEW t \in Timesteps, ReadRecord(t) PROVE ReadTyped'
  BY <1>16 DEF ReadRecord, MarkFailed, MarkComplete, RecordedSelection, EndFetch, NotifyAll
<1>17. ASSUME ReleaseView PROVE ReadTyped'
  BY <1>17 DEF ReleaseView
<1>18. ASSUME CloseDataset PROVE ReadTyped'
  BY <1>18 DEF CloseDataset
<1>19. ASSUME CancelPending PROVE ReadTyped'
  BY <1>19 DEF CancelPending, EmptyQueue, NotifyAll
<1>20. ASSUME Destroy PROVE ReadTyped'
  BY <1>20 DEF Destroy, EmptyQueue, NotifyAll
<1>21. CASE UNCHANGED vars
  BY <1>21 DEF vars
<1>22. QED
  BY <1>1, <1>2, <1>3, <1>4, <1>5, <1>6, <1>7, <1>8, <1>9, <1>10, <1>11, <1>12, <1>13, <1>14,
     <1>15, <1>16, <1>17, <1>18, <1>19, <1>20, <1>21
  DEF Next, ReaderStep, FetchStep

\* A fetch starts for a timestep that is not tracked, and ends where it is pending.
LEMMA TrackedOnceKept ==
  ASSUME Typed, TrackedOnce, [Next]_vars
  PROVE  TrackedOnce'
<1> USE PrefetchAssumption DEF Typed, QueueTyped, FetchTyped, ReadTyped, TrackedOnce,
   Completed, queueVars, fetchVars, readVars, bufferVars
<1>1. ASSUME NEW r \in Readers, NEW t \in Timesteps, NEW s \in Selections, Read(r, t, s)
      PROVE  TrackedOnce'
  BY <1>1 DEF Read
<1>2. ASSUME NEW r \in Readers, ScheduleInitial(r) PROVE TrackedOnce'
  BY <1>2 DEF ScheduleInitial, Goto, Window
<1>3. ASSUME NEW r \in Readers, GetBuffer(r) PROVE TrackedOnce'
  BY <1>3 DEF GetBuffer, Goto, Window, FirstLook, TakeMatching, TakeBuffer, Have, DropStale,
     FailCancelOrSleep, ReturnFailure, Return
<1>4. ASSUME NEW r \in Readers, ScheduleWindow(r) PROVE TrackedOnce'
  BY <1>4 DEF ScheduleWindow, ScheduleFetch, Tracked
<1>5. ASSUME NEW r \in Readers, EndWindow(r) PROVE TrackedOnce'
  BY <1>5 DEF EndWindow, Goto, FirstLook, TakeMatching, TakeBuffer, Have, DropStale,
     FailCancelOrSleep, ReturnFailure, Return
<1>6. ASSUME NEW r \in Readers, ScheduleOne(r) PROVE TrackedOnce'
  BY <1>6 DEF ScheduleOne, Goto, ScheduleFetch, Tracked
<1>7. ASSUME NEW r \in Readers, Turn(r) PROVE TrackedOnce'
  BY <1>7 DEF Turn, Goto, TakeMatching, TakeBuffer, Have, DropStale, FailCancelOrSleep,
     ReturnFailure, Return
<1>8. ASSUME NEW r \in Readers, Recheck(r) PROVE TrackedOnce'
  BY <1>8 DEF Recheck, Goto, FailCancelOrSleep, ReturnFailure, Return
<1>9. ASSUME NEW r \in Readers, ReadTimeout(r) PROVE TrackedOnce'
  BY <1>9 DEF ReadTimeout, Goto, TakeBuffer, ReturnFailure, Return
<1>10. ASSUME NEW r \in Readers, CountView(r) PROVE TrackedOnce'
  BY <1>10 DEF CountView, Goto
<1>11. ASSUME NEW r \in Readers, ScheduleNext(r) PROVE TrackedOnce'
  BY <1>11 DEF ScheduleNext, ScheduleFetch, Tracked, Return
<1>12. ASSUME NEW r \in Readers, DeadlinePasses(r) PROVE TrackedOnce'
  BY <1>12 DEF DeadlinePasses
<1>13. ASSUME NEW r \in Readers, SpuriousWakeup(r) PROVE TrackedOnce'
  BY <1>13 DEF SpuriousWakeup, Goto
<1>14. ASSUME NEW t \in Timesteps, StartFetch(t) PROVE TrackedOnce'
  BY <1>14 DEF StartFetch, EndFetch
<1>15. ASSUME NEW t \in Timesteps, AcquireBuffer(t) PROVE TrackedOnce'
  BY <1>15 DEF AcquireBuffer, MarkFailed, EndFetch, NotifyAll
<1>16. ASSUME NEW t \in Timesteps, ReadRecord(t) PROVE TrackedOnce'
  BY <1>16 DEF ReadRecord, MarkFailed, MarkComplete, RecordedSelection, EndFetch, NotifyAll
<1>17. ASSUME ReleaseView PROVE TrackedOnce'
  BY <1>17 DEF ReleaseView
<1>18. ASSUME CloseDataset PROVE TrackedOnce'
  BY <1>18 DEF CloseDataset
<1>19. ASSUME CancelPending PROVE TrackedOnce'
  BY <1>19 DEF CancelPending, EmptyQueue, NotifyAll
<1>20. ASSUME Destroy PROVE TrackedOnce'
  BY <1>20 DEF Destroy, EmptyQueue, NotifyAll
<1>21. CASE UNCHANGED vars
  BY <1>21 DEF vars
<1>22. QED
  BY <1>1, <1>2, <1>3, <1>4, <1>5, <1>6, <1>7, <1>8, <1>9, <1>10, <1>11, <1>12, <1>13, <1>14,
     <1>15, <1>16, <1>17, <1>18, <1>19, <1>20, <1>21
  DEF Next, ReaderStep, FetchStep

\* mark_complete writes both maps, and whoever empties an entry of completed_ may leave
\* one of fetched_bbox_ behind.
LEMMA BoxesAgreeKept ==
  ASSUME Typed, BoxesAgree, [Next]_vars
  PROVE  BoxesAgree'
<1> USE PrefetchAssumption DEF Typed, QueueTyped, FetchTyped, ReadTyped, BoxesAgree, Completed,
   queueVars, fetchVars, readVars, bufferVars
<1>1. ASSUME NEW r \in Readers, NEW t \in Timesteps, NEW s \in Selections, Read(r, t, s)
      PROVE  BoxesAgree'
  BY <1>1 DEF Read
<1>2. ASSUME NEW r \in Readers, ScheduleInitial(r) PROVE BoxesAgree'
  BY <1>2 DEF ScheduleInitial, Goto, Window
<1>3. ASSUME NEW r \in Readers, GetBuffer(r) PROVE BoxesAgree'
  BY <1>3 DEF GetBuffer, Goto, Window, FirstLook, TakeMatching, TakeBuffer, Have, DropStale,
     FailCancelOrSleep, ReturnFailure, Return
<1>4. ASSUME NEW r \in Readers, ScheduleWindow(r) PROVE BoxesAgree'
  BY <1>4 DEF ScheduleWindow, ScheduleFetch, Tracked
<1>5. ASSUME NEW r \in Readers, EndWindow(r) PROVE BoxesAgree'
  BY <1>5 DEF EndWindow, Goto, FirstLook, TakeMatching, TakeBuffer, Have, DropStale,
     FailCancelOrSleep, ReturnFailure, Return
<1>6. ASSUME NEW r \in Readers, ScheduleOne(r) PROVE BoxesAgree'
  BY <1>6 DEF ScheduleOne, Goto, ScheduleFetch, Tracked
<1>7. ASSUME NEW r \in Readers, Turn(r) PROVE BoxesAgree'
  BY <1>7 DEF Turn, Goto, TakeMatching, TakeBuffer, Have, DropStale, FailCancelOrSleep,
     ReturnFailure, Return
<1>8. ASSUME NEW r \in Readers, Recheck(r) PROVE BoxesAgree'
  BY <1>8 DEF Recheck, Goto, FailCancelOrSleep, ReturnFailure, Return
<1>9. ASSUME NEW r \in Readers, ReadTimeout(r) PROVE BoxesAgree'
  BY <1>9 DEF ReadTimeout, Goto, TakeBuffer, ReturnFailure, Return
<1>10. ASSUME NEW r \in Readers, CountView(r) PROVE BoxesAgree'
  BY <1>10 DEF CountView, Goto
<1>11. ASSUME NEW r \in Readers, ScheduleNext(r) PROVE BoxesAgree'
  BY <1>11 DEF ScheduleNext, ScheduleFetch, Tracked, Return
<1>12. ASSUME NEW r \in Readers, DeadlinePasses(r) PROVE BoxesAgree'
  BY <1>12 DEF DeadlinePasses
<1>13. ASSUME NEW r \in Readers, SpuriousWakeup(r) PROVE BoxesAgree'
  BY <1>13 DEF SpuriousWakeup, Goto
<1>14. ASSUME NEW t \in Timesteps, StartFetch(t) PROVE BoxesAgree'
  BY <1>14 DEF StartFetch, EndFetch
<1>15. ASSUME NEW t \in Timesteps, AcquireBuffer(t) PROVE BoxesAgree'
  BY <1>15 DEF AcquireBuffer, MarkFailed, EndFetch, NotifyAll
<1>16. ASSUME NEW t \in Timesteps, ReadRecord(t) PROVE BoxesAgree'
  BY <1>16 DEF ReadRecord, MarkFailed, MarkComplete, RecordedSelection, EndFetch, NotifyAll
<1>17. ASSUME ReleaseView PROVE BoxesAgree'
  BY <1>17 DEF ReleaseView
<1>18. ASSUME CloseDataset PROVE BoxesAgree'
  BY <1>18 DEF CloseDataset
<1>19. ASSUME CancelPending PROVE BoxesAgree'
  BY <1>19 DEF CancelPending, EmptyQueue, NotifyAll
<1>20. ASSUME Destroy PROVE BoxesAgree'
  BY <1>20 DEF Destroy, EmptyQueue, NotifyAll
<1>21. CASE UNCHANGED vars
  BY <1>21 DEF vars
<1>22. QED
  BY <1>1, <1>2, <1>3, <1>4, <1>5, <1>6, <1>7, <1>8, <1>9, <1>10, <1>11, <1>12, <1>13, <1>14,
     <1>15, <1>16, <1>17, <1>18, <1>19, <1>20, <1>21
  DEF Next, ReaderStep, FetchStep

-----------------------------------------------------------------------------
(* Buffers and views.                                                      *)

Reading == {t \in Timesteps : fetch[t] = "reading"}
Wrapping == {r \in Readers : pc[r] = "wrapping"}

\* What BuffersConserved counts is finite.
LEMMA BuffersFinite ==
  /\ IsFiniteSet(Reading) /\ Cardinality(Reading) \in Nat
  /\ IsFiniteSet(Completed) /\ Cardinality(Completed) \in Nat
  /\ IsFiniteSet(Wrapping) /\ Cardinality(Wrapping) \in Nat
  /\ IsFiniteSet(Busy) /\ Cardinality(Busy) \in Nat
<1>1. IsFiniteSet(Timesteps)
  BY PrefetchAssumption, FS_Interval DEF Timesteps
<1>2. Reading \in SUBSET Timesteps /\ Completed \in SUBSET Timesteps
  BY DEF Reading, Completed
<1>3. Wrapping \in SUBSET Readers /\ Busy \in SUBSET Readers
  BY DEF Wrapping, Busy
<1>4. QED
  BY <1>1, <1>2, <1>3, PrefetchAssumption, FS_Subset, FS_CardinalityType

\* The count with its sets named.
LEMMA Conserved ==
  BuffersConserved <=> held = Cardinality(Reading) + Cardinality(Completed)
                              + Cardinality(Wrapping) + views
BY DEF BuffersConserved, Reading, Wrapping

\* A step that moves no buffer.
LEMMA BuffersUntouched ==
  ASSUME BuffersConserved, UNCHANGED <<held, views>>,
         \A t \in Timesteps : fetch'[t] = "reading" <=> fetch[t] = "reading",
         \A t \in Timesteps : completed'[t] # NoBuffer <=> completed[t] # NoBuffer,
         \A r \in Readers : pc'[r] = "wrapping" <=> pc[r] = "wrapping"
  PROVE  BuffersConserved'
<1>1. Reading' = Reading /\ Completed' = Completed /\ Wrapping' = Wrapping
  BY DEF Reading, Completed, Wrapping
<1>2. QED
  BY <1>1 DEF BuffersConserved, Reading, Wrapping

\* A staged buffer passes to the reader that takes it.
LEMMA TakeMoves ==
  ASSUME Typed, BuffersConserved, NEW r \in Readers, NEW t \in Timesteps,
         TakeBuffer(r, t), pc[r] # "wrapping", fetch' = fetch
  PROVE  BuffersConserved'
<1>1. Reading' = Reading
  BY DEF Reading
<1>2. Completed' = Completed \ {t} /\ t \in Completed
  BY DEF TakeBuffer, Completed, Typed, QueueTyped
<1>3. Wrapping' = Wrapping \cup {r} /\ r \notin Wrapping
  BY DEF TakeBuffer, Goto, Wrapping, Typed, ReadTyped
<1>4. Cardinality(Completed') = Cardinality(Completed) - 1
  BY <1>2, BuffersFinite, FS_RemoveElement
<1>5. Cardinality(Wrapping') = Cardinality(Wrapping) + 1
  BY <1>3, BuffersFinite, FS_AddElement
<1>6. held' = held /\ views' = views
  BY DEF TakeBuffer, bufferVars
<1>7. held' = Cardinality(Reading') + Cardinality(Completed') + Cardinality(Wrapping') + views'
  BY <1>1, <1>4, <1>5, <1>6, BuffersFinite, Conserved
<1>8. QED
  BY <1>7 DEF BuffersConserved, Reading, Wrapping

\* A stale buffer goes back to the pool.
LEMMA DropMoves ==
  ASSUME Typed, ViewsBounded, BuffersConserved, NEW r \in Readers, NEW t \in Timesteps, NEW s,
         DropStale(r, t, s), fetch' = fetch,
         pc[r] # "wrapping", \E w : w # "wrapping" /\ Goto(r, w)
  PROVE  BuffersConserved'
<1>1. Reading' = Reading
  BY DEF Reading
<1>2. Completed' = Completed \ {t} /\ t \in Completed
  BY DEF DropStale, Completed, Typed, QueueTyped
<1>3. Wrapping' = Wrapping
  BY DEF Goto, Wrapping, Typed, ReadTyped
<1>4. Cardinality(Completed') = Cardinality(Completed) - 1
  BY <1>2, BuffersFinite, FS_RemoveElement
<1>5. held' = held - 1 /\ views' = views
  BY DEF DropStale
<1>6. held' = Cardinality(Reading') + Cardinality(Completed') + Cardinality(Wrapping') + views'
  BY <1>1, <1>3, <1>4, <1>5, BuffersFinite, Conserved DEF ViewsBounded
<1>7. QED
  BY <1>6 DEF BuffersConserved, Reading, Wrapping

\* What one look at the queue does: the buffer is taken, is dropped, or is not there.
Look(r, t, s) ==
  \/ TakeBuffer(r, t)
  \/ DropStale(r, t, s) /\ \E w : w # "wrapping" /\ Goto(r, w)
  \/ /\ UNCHANGED <<completed, held, views>>
     /\ Return(r) \/ \E w : w # "wrapping" /\ Goto(r, w)

\* A look keeps the count.
LEMMA LookMoves ==
  ASSUME Typed, ViewsBounded, BuffersConserved, NEW r \in Readers, NEW t \in Timesteps, NEW s,
         Look(r, t, s), pc[r] # "wrapping", fetch' = fetch
  PROVE  BuffersConserved'
<1>1. CASE /\ UNCHANGED <<completed, held, views>>
           /\ Return(r) \/ \E w : w # "wrapping" /\ Goto(r, w)
  BY <1>1, BuffersUntouched DEF Return, Goto, Typed, ReadTyped
<1>2. QED
  BY <1>1, TakeMoves, DropMoves DEF Look

\* No step loses a buffer or gives one back twice.
LEMMA BuffersKept ==
  ASSUME Typed, TrackedOnce, ViewsBounded, BuffersConserved, [Next]_vars
  PROVE  BuffersConserved'
<1> USE DEF queueVars, fetchVars, readVars, bufferVars
<1>1. ASSUME NEW r \in Readers, NEW t \in Timesteps, NEW s \in Selections, Read(r, t, s)
      PROVE  BuffersConserved'
  BY <1>1, BuffersUntouched DEF Read, Typed, QueueTyped, FetchTyped, ReadTyped
<1>2. ASSUME NEW r \in Readers, ScheduleInitial(r) PROVE BuffersConserved'
  BY <1>2, BuffersUntouched DEF ScheduleInitial, Goto, Typed, QueueTyped, FetchTyped, ReadTyped
<1>3. ASSUME NEW r \in Readers, GetBuffer(r) PROVE BuffersConserved'
  <2>1. CASE kicked_off
    <3>1. Look(r, rt[r], rsel[r]) /\ fetch' = fetch /\ pc[r] # "wrapping"
      BY <1>3, <2>1 DEF GetBuffer, Look, FirstLook, TakeMatching, TakeBuffer, DropStale,
         FailCancelOrSleep, ReturnFailure
    <3>2. rt[r] \in Timesteps
      BY DEF Typed, ReadTyped
    <3>3. QED
      BY <3>1, <3>2, LookMoves
  <2>2. CASE ~kicked_off
    BY <1>3, <2>2, BuffersUntouched DEF GetBuffer, Goto, Typed, ReadTyped
  <2>3. QED
    BY <2>1, <2>2
<1>4. ASSUME NEW r \in Readers, ScheduleWindow(r) PROVE BuffersConserved'
  BY <1>4, BuffersUntouched DEF ScheduleWindow, ScheduleFetch, Tracked, TrackedOnce, Typed,
     QueueTyped, FetchTyped, ReadTyped
<1>5. ASSUME NEW r \in Readers, EndWindow(r) PROVE BuffersConserved'
  <2>1. CASE pc[r] = "kicking"
    <3>1. Look(r, rt[r], rsel[r]) /\ fetch' = fetch
      BY <1>5, <2>1 DEF EndWindow, Look, FirstLook, TakeMatching, TakeBuffer, DropStale,
         FailCancelOrSleep, ReturnFailure
    <3>2. rt[r] \in Timesteps
      BY DEF Typed, ReadTyped
    <3>3. QED
      BY <2>1, <3>1, <3>2, LookMoves
  <2>2. CASE pc[r] = "warming"
    BY <1>5, <2>2, BuffersUntouched DEF EndWindow, Return, Typed, ReadTyped
  <2>3. QED
    BY <1>5, <2>1, <2>2 DEF EndWindow
<1>6. ASSUME NEW r \in Readers, ScheduleOne(r) PROVE BuffersConserved'
  BY <1>6, BuffersUntouched DEF ScheduleOne, Goto, ScheduleFetch, Tracked, TrackedOnce, Typed,
     QueueTyped, FetchTyped, ReadTyped
<1>7. ASSUME NEW r \in Readers, Turn(r) PROVE BuffersConserved'
  <2>1. Look(r, rt[r], rsel[r]) /\ fetch' = fetch /\ pc[r] # "wrapping"
    BY <1>7 DEF Look, Turn, TakeMatching, DropStale, FailCancelOrSleep, ReturnFailure
  <2>2. rt[r] \in Timesteps
    BY DEF Typed, ReadTyped
  <2>3. QED
    BY <2>1, <2>2, LookMoves
<1>8. ASSUME NEW r \in Readers, Recheck(r) PROVE BuffersConserved'
  <2>1. Look(r, rt[r], rsel[r]) /\ fetch' = fetch /\ pc[r] # "wrapping"
    BY <1>8 DEF Look, Recheck, FailCancelOrSleep, ReturnFailure
  <2>2. rt[r] \in Timesteps
    BY DEF Typed, ReadTyped
  <2>3. QED
    BY <2>1, <2>2, LookMoves
<1>9. ASSUME NEW r \in Readers, ReadTimeout(r) PROVE BuffersConserved'
  <2>1. Look(r, rt[r], rsel[r]) /\ fetch' = fetch /\ pc[r] # "wrapping"
    BY <1>9 DEF Look, ReadTimeout, ReturnFailure
  <2>2. rt[r] \in Timesteps
    BY DEF Typed, ReadTyped
  <2>3. QED
    BY <2>1, <2>2, LookMoves
<1>10. ASSUME NEW r \in Readers, CountView(r) PROVE BuffersConserved'
  <2>1. Reading' = Reading /\ Completed' = Completed
    BY <1>10 DEF CountView, Reading, Completed
  <2>2. Wrapping' = Wrapping \ {r} /\ r \in Wrapping
    BY <1>10 DEF CountView, Goto, Wrapping, Typed, ReadTyped
  <2>3. Cardinality(Wrapping') = Cardinality(Wrapping) - 1
    BY <2>2, BuffersFinite, FS_RemoveElement
  <2>4. held' = held /\ views' = views + 1
    BY <1>10 DEF CountView
  <2>5. held' = Cardinality(Reading') + Cardinality(Completed') + Cardinality(Wrapping') + views'
    BY <2>1, <2>3, <2>4, BuffersFinite, Conserved DEF ViewsBounded
  <2>6. QED
    BY <2>5 DEF BuffersConserved, Reading, Wrapping
<1>11. ASSUME NEW r \in Readers, ScheduleNext(r) PROVE BuffersConserved'
  BY <1>11, BuffersUntouched DEF ScheduleNext, ScheduleFetch, Tracked, Return, TrackedOnce,
     Typed, QueueTyped, FetchTyped, ReadTyped
<1>12. ASSUME NEW r \in Readers, DeadlinePasses(r) PROVE BuffersConserved'
  BY <1>12, BuffersUntouched DEF DeadlinePasses, Typed, QueueTyped, FetchTyped, ReadTyped
<1>13. ASSUME NEW r \in Readers, SpuriousWakeup(r) PROVE BuffersConserved'
  BY <1>13, BuffersUntouched DEF SpuriousWakeup, Goto, Typed, QueueTyped, FetchTyped, ReadTyped
<1>14. ASSUME NEW t \in Timesteps, StartFetch(t) PROVE BuffersConserved'
  BY <1>14, BuffersUntouched DEF StartFetch, EndFetch, Typed, QueueTyped, FetchTyped, ReadTyped
<1>15. ASSUME NEW t \in Timesteps, AcquireBuffer(t) PROVE BuffersConserved'
  <2>1. CASE /\ fetch' = [fetch EXCEPT ![t] = "reading"] /\ held' = held + 1
             /\ UNCHANGED <<queueVars, pc, views>>
    <3>1. Completed' = Completed /\ Wrapping' = Wrapping
      BY <2>1 DEF Completed, Wrapping
    <3>2. Reading' = Reading \cup {t} /\ t \notin Reading
      BY <1>15, <2>1 DEF AcquireBuffer, Reading, Typed, FetchTyped
    <3>3. Cardinality(Reading') = Cardinality(Reading) + 1
      BY <3>2, BuffersFinite, FS_AddElement
    <3>4. held' = Cardinality(Reading') + Cardinality(Completed') + Cardinality(Wrapping') + views'
      BY <2>1, <3>1, <3>3, BuffersFinite, Conserved DEF ViewsBounded
    <3>5. QED
      BY <3>4 DEF BuffersConserved, Reading, Wrapping
  <2>2. CASE MarkFailed(t) /\ held' = held
    BY <1>15, <2>2, BuffersUntouched
    DEF AcquireBuffer, MarkFailed, EndFetch, NotifyAll, Typed, FetchTyped
  <2>3. CASE EndFetch(t) /\ UNCHANGED <<completed, pc, held>>
    BY <1>15, <2>3, BuffersUntouched DEF AcquireBuffer, EndFetch, Typed, FetchTyped
  <2>4. QED
    BY <1>15, <2>1, <2>2, <2>3 DEF AcquireBuffer
<1>16. ASSUME NEW t \in Timesteps, ReadRecord(t) PROVE BuffersConserved'
  <2>1. Reading' = Reading \ {t} /\ t \in Reading /\ views' = views
    BY <1>16 DEF ReadRecord, MarkComplete, MarkFailed, EndFetch, Reading, Typed, FetchTyped
  <2>2. Cardinality(Reading') = Cardinality(Reading) - 1
    BY <2>1, BuffersFinite, FS_RemoveElement
  <2>3. Wrapping' = Wrapping
    BY <1>16 DEF ReadRecord, MarkComplete, MarkFailed, NotifyAll, Wrapping
  <2>4. CASE MarkComplete(t) /\ held' = held
    <3>1. Completed' = Completed \cup {t} /\ t \notin Completed
      BY <1>16, <2>4, PrefetchAssumption
      DEF ReadRecord, MarkComplete, Completed, Typed, QueueTyped, FetchTyped, TrackedOnce
    <3>2. Cardinality(Completed') = Cardinality(Completed) + 1
      BY <3>1, BuffersFinite, FS_AddElement
    <3>3. held' = Cardinality(Reading') + Cardinality(Completed') + Cardinality(Wrapping') + views'
      BY <2>1, <2>2, <2>3, <2>4, <3>2, BuffersFinite, Conserved DEF ViewsBounded
    <3>4. QED
      BY <3>3 DEF BuffersConserved, Reading, Wrapping
  <2>5. CASE MarkFailed(t) /\ held' = held - 1
    <3>1. Completed' = Completed
      BY <2>5 DEF MarkFailed, Completed
    <3>2. held' = Cardinality(Reading') + Cardinality(Completed') + Cardinality(Wrapping') + views'
      BY <2>1, <2>2, <2>3, <2>5, <3>1, BuffersFinite, Conserved DEF ViewsBounded
    <3>3. QED
      BY <3>2 DEF BuffersConserved, Reading, Wrapping
  <2>6. QED
    BY <1>16, <2>4, <2>5 DEF ReadRecord
<1>17. ASSUME ReleaseView PROVE BuffersConserved'
  <2>1. Reading' = Reading /\ Completed' = Completed /\ Wrapping' = Wrapping
    BY <1>17 DEF ReleaseView, Reading, Completed, Wrapping
  <2>2. held' = held - 1 /\ views' = views - 1
    BY <1>17 DEF ReleaseView
  <2>3. held' = Cardinality(Reading') + Cardinality(Completed') + Cardinality(Wrapping') + views'
    BY <2>1, <2>2, BuffersFinite, Conserved DEF ViewsBounded
  <2>4. QED
    BY <2>3 DEF BuffersConserved, Reading, Wrapping
<1>18. ASSUME CloseDataset PROVE BuffersConserved'
  BY <1>18, BuffersUntouched DEF CloseDataset, Typed, QueueTyped, FetchTyped, ReadTyped
<1>19. ASSUME CancelPending PROVE BuffersConserved'
  <2>1. Reading' = Reading /\ Wrapping' = Wrapping
    BY <1>19 DEF CancelPending, EmptyQueue, NotifyAll, Reading, Wrapping
  <2>2. Completed' = {} /\ Cardinality(Completed') = 0
    BY <1>19, FS_EmptySet DEF CancelPending, EmptyQueue, Completed
  <2>3. held' = held - Cardinality(Completed) /\ views' = views
    BY <1>19 DEF CancelPending, EmptyQueue
  <2>4. held' = Cardinality(Reading') + Cardinality(Completed') + Cardinality(Wrapping') + views'
    BY <2>1, <2>2, <2>3, BuffersFinite, Conserved DEF ViewsBounded
  <2>5. QED
    BY <2>4 DEF BuffersConserved, Reading, Wrapping
<1>20. ASSUME Destroy PROVE BuffersConserved'
  <2>1. Reading' = Reading /\ Wrapping' = Wrapping
    BY <1>20 DEF Destroy, EmptyQueue, NotifyAll, Reading, Wrapping
  <2>2. Completed' = {} /\ Cardinality(Completed') = 0
    BY <1>20, FS_EmptySet DEF Destroy, EmptyQueue, Completed
  <2>3. held' = held - Cardinality(Completed) /\ views' = views
    BY <1>20 DEF Destroy, EmptyQueue
  <2>4. held' = Cardinality(Reading') + Cardinality(Completed') + Cardinality(Wrapping') + views'
    BY <2>1, <2>2, <2>3, BuffersFinite, Conserved DEF ViewsBounded
  <2>5. QED
    BY <2>4 DEF BuffersConserved, Reading, Wrapping
<1>21. CASE UNCHANGED vars
  BY <1>21, BuffersUntouched DEF vars
<1>22. QED
  BY <1>1, <1>2, <1>3, <1>4, <1>5, <1>6, <1>7, <1>8, <1>9, <1>10, <1>11, <1>12, <1>13, <1>14,
     <1>15, <1>16, <1>17, <1>18, <1>19, <1>20, <1>21
  DEF Next, ReaderStep, FetchStep

\* A step after which no more calls may make a view, and that counts no view.
LEMMA ViewsUntouched ==
  ASSUME ViewsBounded, views' \in Nat, views' <= views, MaxViews \in Nat,
         \A q \in Readers : pc[q] \in {"idle", "warming", "replenishing"}
                              => pc'[q] \in {"idle", "warming", "replenishing"}
  PROVE  ViewsBounded'
<1>1. Busy' \subseteq Busy
  BY DEF Busy
<1>2. /\ Cardinality(Busy') <= Cardinality(Busy) /\ Cardinality(Busy') \in Nat
      /\ Cardinality(Busy) \in Nat
  BY <1>1, BuffersFinite, FS_Subset, FS_CardinalityType
<1> DEFINE c == Cardinality(Busy')
           v == views'
<1>3. c \in Nat /\ v \in Nat /\ c <= Cardinality(Busy) /\ v <= views
  BY <1>2
<1> HIDE DEF c, v
<1>4. v + c <= MaxViews
  BY <1>2, <1>3 DEF ViewsBounded
<1>5. QED
  BY <1>4, <1>3 DEF ViewsBounded, c, v

\* There is always room for the views of the calls under way.
LEMMA ViewsKept ==
  ASSUME Typed, ViewsBounded, [Next]_vars
  PROVE  ViewsBounded'
<1> USE PrefetchAssumption, ViewsUntouched DEF Typed, ReadTyped, ViewsBounded, queueVars,
   fetchVars, readVars, bufferVars
<1>1. ASSUME NEW r \in Readers, NEW t \in Timesteps, NEW s \in Selections, Read(r, t, s)
      PROVE  ViewsBounded'
  <2> DEFINE calls == {q \in Readers : pc[q] # "idle"}
  <2>1. Busy' = Busy \cup {r} /\ r \notin Busy
    BY <1>1 DEF Read, Busy, Typed, ReadTyped
  <2>2. Cardinality(Busy') = Cardinality(Busy) + 1
    BY <2>1, BuffersFinite, FS_AddElement
  <2>3. Busy \subseteq calls /\ IsFiniteSet(calls)
    BY PrefetchAssumption, FS_Subset DEF Busy
  <2>4. Cardinality(Busy) <= Cardinality(calls) /\ Cardinality(calls) \in Nat
    BY <2>3, FS_Subset, FS_CardinalityType
  <2>5. views + Cardinality(calls) < MaxViews /\ views' = views
    BY <1>1 DEF Read, bufferVars
  <2> HIDE DEF calls
  <2>6. QED
    BY <2>2, <2>4, <2>5, BuffersFinite, PrefetchAssumption DEF ViewsBounded
<1>2. ASSUME NEW r \in Readers, ScheduleInitial(r) PROVE ViewsBounded'
  BY <1>2 DEF ScheduleInitial, Goto, Window
<1>3. ASSUME NEW r \in Readers, GetBuffer(r) PROVE ViewsBounded'
  BY <1>3 DEF GetBuffer, Goto, Window, FirstLook, TakeMatching, TakeBuffer, Have, DropStale,
     FailCancelOrSleep, ReturnFailure, Return
<1>4. ASSUME NEW r \in Readers, ScheduleWindow(r) PROVE ViewsBounded'
  BY <1>4 DEF ScheduleWindow, ScheduleFetch, Tracked
<1>5. ASSUME NEW r \in Readers, EndWindow(r) PROVE ViewsBounded'
  BY <1>5 DEF EndWindow, Goto, FirstLook, TakeMatching, TakeBuffer, Have, DropStale,
     FailCancelOrSleep, ReturnFailure, Return
<1>6. ASSUME NEW r \in Readers, ScheduleOne(r) PROVE ViewsBounded'
  BY <1>6 DEF ScheduleOne, Goto, ScheduleFetch, Tracked
<1>7. ASSUME NEW r \in Readers, Turn(r) PROVE ViewsBounded'
  BY <1>7 DEF Turn, Goto, TakeMatching, TakeBuffer, Have, DropStale, FailCancelOrSleep,
     ReturnFailure, Return
<1>8. ASSUME NEW r \in Readers, Recheck(r) PROVE ViewsBounded'
  BY <1>8 DEF Recheck, Goto, FailCancelOrSleep, ReturnFailure, Return
<1>9. ASSUME NEW r \in Readers, ReadTimeout(r) PROVE ViewsBounded'
  BY <1>9 DEF ReadTimeout, Goto, TakeBuffer, ReturnFailure, Return
<1>10. ASSUME NEW r \in Readers, CountView(r) PROVE ViewsBounded'
  <2>1. Busy' = Busy \ {r} /\ r \in Busy
    BY <1>10 DEF CountView, Goto, Busy, Typed, ReadTyped
  <2>2. Cardinality(Busy') = Cardinality(Busy) - 1
    BY <2>1, BuffersFinite, FS_RemoveElement
  <2>3. views' = views + 1
    BY <1>10 DEF CountView
  <2>4. QED
    BY <2>2, <2>3, BuffersFinite, PrefetchAssumption DEF ViewsBounded
<1>11. ASSUME NEW r \in Readers, ScheduleNext(r) PROVE ViewsBounded'
  BY <1>11 DEF ScheduleNext, ScheduleFetch, Tracked, Return
<1>12. ASSUME NEW r \in Readers, DeadlinePasses(r) PROVE ViewsBounded'
  BY <1>12 DEF DeadlinePasses
<1>13. ASSUME NEW r \in Readers, SpuriousWakeup(r) PROVE ViewsBounded'
  BY <1>13 DEF SpuriousWakeup, Goto
<1>14. ASSUME NEW t \in Timesteps, StartFetch(t) PROVE ViewsBounded'
  BY <1>14 DEF StartFetch, EndFetch
<1>15. ASSUME NEW t \in Timesteps, AcquireBuffer(t) PROVE ViewsBounded'
  BY <1>15 DEF AcquireBuffer, MarkFailed, EndFetch, NotifyAll
<1>16. ASSUME NEW t \in Timesteps, ReadRecord(t) PROVE ViewsBounded'
  BY <1>16 DEF ReadRecord, MarkFailed, MarkComplete, RecordedSelection, EndFetch, NotifyAll
<1>17. ASSUME ReleaseView PROVE ViewsBounded'
  <2>1. views' = views - 1 /\ pc' = pc
    BY <1>17 DEF ReleaseView, readVars
  <2>2. views > 0
    <3> DEFINE n == Cardinality({r \in Readers : pc[r] = "replenishing"})
    <3>1. n \in Nat
      BY PrefetchAssumption, FS_Subset, FS_CardinalityType
    <3>2. views > n
      BY <1>17 DEF ReleaseView
    <3> HIDE DEF n
    <3>3. QED
      BY <3>1, <3>2 DEF ViewsBounded
  <2>3. QED
    BY <2>1, <2>2, ViewsUntouched, PrefetchAssumption DEF ViewsBounded
<1>18. ASSUME CloseDataset PROVE ViewsBounded'
  BY <1>18 DEF CloseDataset
<1>19. ASSUME CancelPending PROVE ViewsBounded'
  BY <1>19 DEF CancelPending, EmptyQueue, NotifyAll
<1>20. ASSUME Destroy PROVE ViewsBounded'
  BY <1>20 DEF Destroy, EmptyQueue, NotifyAll
<1>21. CASE UNCHANGED vars
  BY <1>21 DEF vars
<1>22. QED
  BY <1>1, <1>2, <1>3, <1>4, <1>5, <1>6, <1>7, <1>8, <1>9, <1>10, <1>11, <1>12, <1>13, <1>14,
     <1>15, <1>16, <1>17, <1>18, <1>19, <1>20, <1>21
  DEF Next, ReaderStep, FetchStep

-----------------------------------------------------------------------------
(* The theorems.                                                           *)

\* TypeOK, with the parts that have lemmas of their own.
LEMMA TypeParts ==
  /\ TypeOK => Typed
  /\ Typed /\ BuffersConserved /\ ViewsBounded => TypeOK
<1>1. TypeOK => Typed
  BY DEF TypeOK, Typed, QueueTyped, FetchTyped, ReadTyped
<1>2. ASSUME Typed, BuffersConserved, ViewsBounded PROVE views \in 0 .. MaxViews /\ held \in Nat
  BY <1>2, BuffersFinite, Conserved, PrefetchAssumption DEF ViewsBounded
<1>3. ASSUME Typed, BuffersConserved, ViewsBounded PROVE TypeOK
  BY <1>2, <1>3 DEF TypeOK, Typed, QueueTyped, FetchTyped, ReadTyped
<1>4. QED
  BY <1>1, <1>3

\* Nothing is fetched, staged or read at the start.
LEMMA InitInv == Init => Inv
<1> SUFFICES ASSUME Init PROVE Inv
  OBVIOUS
<1> USE PrefetchAssumption DEF Init
<1>1. QueueTyped
  <2>1. completed \in [Timesteps -> Selections \cup {NoBuffer}]
    OBVIOUS
  <2>2. fetched_bbox \in [Timesteps -> Selections]
    OBVIOUS
  <2>3. QED
    BY <2>1, <2>2 DEF QueueTyped
<1>2. FetchTyped
  <2>1. fsel \in [Timesteps -> Selections]
    OBVIOUS
  <2>2. QED
    BY <2>1 DEF FetchTyped
<1>3. ReadTyped
  BY FirstTimestep DEF ReadTyped, Outside
<1>4. Reading = {} /\ Completed = {} /\ Wrapping = {} /\ Busy = {}
  BY DEF Reading, Completed, Wrapping, Busy
<1>5. BuffersConserved /\ ViewsBounded
  BY <1>4, FS_EmptySet, Conserved DEF ViewsBounded
<1>6. TrackedOnce /\ BoxesAgree
  BY <1>4 DEF TrackedOnce, BoxesAgree
<1>7. QED
  BY <1>1, <1>2, <1>3, <1>5, <1>6, TypeParts DEF Inv, Typed

\* Every step keeps the invariant.
LEMMA NextKeeps == Inv /\ [Next]_vars => Inv'
<1> SUFFICES ASSUME Inv, [Next]_vars PROVE Inv'
  OBVIOUS
<1>1. Typed
  BY TypeParts DEF Inv
<1>2. Typed'
  BY <1>1, QueueTypedKept, FetchTypedKept, ReadTypedKept DEF Typed
<1>3. TrackedOnce' /\ BoxesAgree' /\ ViewsBounded' /\ BuffersConserved'
  BY <1>1, TrackedOnceKept, BoxesAgreeKept, ViewsKept, BuffersKept DEF Inv
<1>4. TypeOK'
  BY <1>2, <1>3, TypeParts, PTL
<1>5. QED
  BY <1>3, <1>4 DEF Inv

\* The look-ahead queue keeps the inductive invariant: what prefetch_queue.cpp and its
\* callers leave behind after every critical section.
THEOREM QueueInvariant == Spec => []Inv
BY InitInv, NextKeeps, PTL DEF Spec

\* The queue, its fetch tasks and its readers keep their types, and the views never
\* pass their bound.
THEOREM QueueTypeCorrect == Spec => []TypeOK
<1>1. Inv => TypeOK
  BY DEF Inv
<1>2. QED
  BY <1>1, QueueInvariant, PTL

\* pending_, completed_ and failed_ stay disjoint and each timestep has one fetch at
\* most: mark_complete never overwrites a staged buffer.
THEOREM TimestepsTrackedOnce == Spec => []TrackedOnce
<1>1. Inv => TrackedOnce
  BY DEF Inv
<1>2. QED
  BY <1>1, QueueInvariant, PTL

\* The buffers acquired and not given back are those of the fetches that read, the
\* staged ones, those in readers' hands and those under views.
THEOREM NoBufferLeaked == Spec => []BuffersConserved
<1>1. Inv => BuffersConserved
  BY DEF Inv
<1>2. QED
  BY <1>1, QueueInvariant, PTL

-----------------------------------------------------------------------------
(* The selection a reader gets.                                            *)

\* SelectionHonoured, for one step.
Honours ==
  \A q \in Readers : pc[q] # "wrapping" /\ pc'[q] = "wrapping"
                       => expired[q] \/ completed[rt[q]] = rsel[q]

\* get_buffer compares fetched_bbox_ with the request before it hands a buffer out, but
\* for the look after a timeout.
LEMMA StepHonours ==
  ASSUME Typed, BoxesAgree, [Next]_vars
  PROVE  Honours
<1> USE DEF Typed, ReadTyped, BoxesAgree, Honours, queueVars, fetchVars, readVars, bufferVars
<1>1. ASSUME NEW r \in Readers, NEW t \in Timesteps, NEW s \in Selections, Read(r, t, s)
      PROVE  Honours
  BY <1>1 DEF Read
<1>2. ASSUME NEW r \in Readers, ScheduleInitial(r) PROVE Honours
  BY <1>2 DEF ScheduleInitial, Goto, Window
<1>3. ASSUME NEW r \in Readers, GetBuffer(r) PROVE Honours
  BY <1>3 DEF GetBuffer, Goto, Window, FirstLook, TakeMatching, TakeBuffer, Have, DropStale,
     FailCancelOrSleep, ReturnFailure, Return
<1>4. ASSUME NEW r \in Readers, ScheduleWindow(r) PROVE Honours
  BY <1>4 DEF ScheduleWindow, ScheduleFetch, Tracked
<1>5. ASSUME NEW r \in Readers, EndWindow(r) PROVE Honours
  BY <1>5 DEF EndWindow, Goto, FirstLook, TakeMatching, TakeBuffer, Have, DropStale,
     FailCancelOrSleep, ReturnFailure, Return
<1>6. ASSUME NEW r \in Readers, ScheduleOne(r) PROVE Honours
  BY <1>6 DEF ScheduleOne, Goto, ScheduleFetch, Tracked
<1>7. ASSUME NEW r \in Readers, Turn(r) PROVE Honours
  BY <1>7 DEF Turn, Goto, TakeMatching, TakeBuffer, Have, DropStale, FailCancelOrSleep,
     ReturnFailure, Return
<1>8. ASSUME NEW r \in Readers, Recheck(r) PROVE Honours
  BY <1>8 DEF Recheck, Goto, FailCancelOrSleep, ReturnFailure, Return
<1>9. ASSUME NEW r \in Readers, ReadTimeout(r) PROVE Honours
  BY <1>9 DEF ReadTimeout, Goto, TakeBuffer, ReturnFailure, Return
<1>10. ASSUME NEW r \in Readers, CountView(r) PROVE Honours
  BY <1>10 DEF CountView, Goto
<1>11. ASSUME NEW r \in Readers, ScheduleNext(r) PROVE Honours
  BY <1>11 DEF ScheduleNext, ScheduleFetch, Tracked, Return
<1>12. ASSUME NEW r \in Readers, DeadlinePasses(r) PROVE Honours
  BY <1>12 DEF DeadlinePasses
<1>13. ASSUME NEW r \in Readers, SpuriousWakeup(r) PROVE Honours
  BY <1>13 DEF SpuriousWakeup, Goto
<1>14. ASSUME NEW t \in Timesteps, StartFetch(t) PROVE Honours
  BY <1>14 DEF StartFetch, EndFetch
<1>15. ASSUME NEW t \in Timesteps, AcquireBuffer(t) PROVE Honours
  BY <1>15 DEF AcquireBuffer, MarkFailed, EndFetch, NotifyAll
<1>16. ASSUME NEW t \in Timesteps, ReadRecord(t) PROVE Honours
  BY <1>16 DEF ReadRecord, MarkFailed, MarkComplete, RecordedSelection, EndFetch, NotifyAll
<1>17. ASSUME ReleaseView PROVE Honours
  BY <1>17 DEF ReleaseView
<1>18. ASSUME CloseDataset PROVE Honours
  BY <1>18 DEF CloseDataset
<1>19. ASSUME CancelPending PROVE Honours
  BY <1>19 DEF CancelPending, EmptyQueue, NotifyAll
<1>20. ASSUME Destroy PROVE Honours
  BY <1>20 DEF Destroy, EmptyQueue, NotifyAll
<1>21. CASE UNCHANGED vars
  BY <1>21 DEF vars
<1>22. QED
  BY <1>1, <1>2, <1>3, <1>4, <1>5, <1>6, <1>7, <1>8, <1>9, <1>10, <1>11, <1>12, <1>13, <1>14,
     <1>15, <1>16, <1>17, <1>18, <1>19, <1>20, <1>21
  DEF Next, ReaderStep, FetchStep

\* Before its deadline a call of get_buffer returns a buffer filled with the selection
\* it asked for.
THEOREM BuffersMatchRequests == Spec => SelectionHonoured
<1>1. Inv /\ [Next]_vars =>
        [\A r \in Readers :
           pc[r] # "wrapping" /\ pc'[r] = "wrapping"
             => expired[r] \/ completed[rt[r]] = rsel[r]]_vars
  BY StepHonours, TypeParts DEF Inv, Honours
<1>2. QED
  BY <1>1, QueueInvariant, PTL DEF Spec, SelectionHonoured

-----------------------------------------------------------------------------
(* One reader.                                                             *)

Waiting == {"looping", "woken", "rechecking", "asleep"}

\* In the loop of get_buffer the timestep stays tracked until the queue is cancelled,
\* and a cancelled queue lets nobody sleep.
Answered ==
  \A r \in Readers :
    /\ pc[r] \in Waiting => cancelled \/ Tracked(rt[r])
    /\ pc[r] = "asleep" => ~cancelled

OneReader == \A q, r \in Readers : q = r

\* Nobody but the reader takes the answer it waits for.
LEMMA AnsweredKept ==
  ASSUME OneReader, Typed, TrackedOnce, Answered, [Next]_vars
  PROVE  Answered'
<1> USE PrefetchAssumption DEF Typed, QueueTyped, FetchTyped, ReadTyped, TrackedOnce, Answered,
   Waiting, OneReader, Tracked, Completed, queueVars, fetchVars, readVars, bufferVars
<1>1. ASSUME NEW r \in Readers, NEW t \in Timesteps, NEW s \in Selections, Read(r, t, s)
      PROVE  Answered'
  BY <1>1 DEF Read
<1>2. ASSUME NEW r \in Readers, ScheduleInitial(r) PROVE Answered'
  BY <1>2 DEF ScheduleInitial, Goto, Window
<1>3. ASSUME NEW r \in Readers, GetBuffer(r) PROVE Answered'
  BY <1>3 DEF GetBuffer, Goto, Window, FirstLook, TakeMatching, TakeBuffer, Have, DropStale,
     FailCancelOrSleep, ReturnFailure, Return
<1>4. ASSUME NEW r \in Readers, ScheduleWindow(r) PROVE Answered'
  BY <1>4 DEF ScheduleWindow, ScheduleFetch, Tracked
<1>5. ASSUME NEW r \in Readers, EndWindow(r) PROVE Answered'
  BY <1>5 DEF EndWindow, Goto, FirstLook, TakeMatching, TakeBuffer, Have, DropStale,
     FailCancelOrSleep, ReturnFailure, Return
<1>6. ASSUME NEW r \in Readers, ScheduleOne(r) PROVE Answered'
  BY <1>6 DEF ScheduleOne, Goto, ScheduleFetch, Tracked
<1>7. ASSUME NEW r \in Readers, Turn(r) PROVE Answered'
  BY <1>7 DEF Turn, Goto, TakeMatching, TakeBuffer, Have, DropStale, FailCancelOrSleep,
     ReturnFailure, Return
<1>8. ASSUME NEW r \in Readers, Recheck(r) PROVE Answered'
  BY <1>8 DEF Recheck, Goto, FailCancelOrSleep, ReturnFailure, Return
<1>9. ASSUME NEW r \in Readers, ReadTimeout(r) PROVE Answered'
  BY <1>9 DEF ReadTimeout, Goto, TakeBuffer, ReturnFailure, Return
<1>10. ASSUME NEW r \in Readers, CountView(r) PROVE Answered'
  BY <1>10 DEF CountView, Goto
<1>11. ASSUME NEW r \in Readers, ScheduleNext(r) PROVE Answered'
  BY <1>11 DEF ScheduleNext, ScheduleFetch, Tracked, Return
<1>12. ASSUME NEW r \in Readers, DeadlinePasses(r) PROVE Answered'
  BY <1>12 DEF DeadlinePasses
<1>13. ASSUME NEW r \in Readers, SpuriousWakeup(r) PROVE Answered'
  BY <1>13 DEF SpuriousWakeup, Goto
<1>14. ASSUME NEW t \in Timesteps, StartFetch(t) PROVE Answered'
  BY <1>14 DEF StartFetch, EndFetch
<1>15. ASSUME NEW t \in Timesteps, AcquireBuffer(t) PROVE Answered'
  BY <1>15 DEF AcquireBuffer, MarkFailed, EndFetch, NotifyAll
<1>16. ASSUME NEW t \in Timesteps, ReadRecord(t) PROVE Answered'
  BY <1>16 DEF ReadRecord, MarkFailed, MarkComplete, RecordedSelection, EndFetch, NotifyAll
<1>17. ASSUME ReleaseView PROVE Answered'
  BY <1>17 DEF ReleaseView
<1>18. ASSUME CloseDataset PROVE Answered'
  BY <1>18 DEF CloseDataset
<1>19. ASSUME CancelPending PROVE Answered'
  BY <1>19 DEF CancelPending, EmptyQueue, NotifyAll
<1>20. ASSUME Destroy PROVE Answered'
  BY <1>20 DEF Destroy, EmptyQueue, NotifyAll
<1>21. CASE UNCHANGED vars
  BY <1>21 DEF vars
<1>22. QED
  BY <1>1, <1>2, <1>3, <1>4, <1>5, <1>6, <1>7, <1>8, <1>9, <1>10, <1>11, <1>12, <1>13, <1>14,
     <1>15, <1>16, <1>17, <1>18, <1>19, <1>20, <1>21
  DEF Next, ReaderStep, FetchStep

\* With one reader a call of get_buffer sleeps only while its timestep has a fetch or
\* an answer.  With two the answer may be taken by the other.
THEOREM SleepersTracked == OneReader => (Spec => []SleeperTracked)
<1> SUFFICES ASSUME OneReader PROVE Spec => []SleeperTracked
  OBVIOUS
<1>1. Init => Answered
  BY DEF Init, Answered, Waiting
<1>2. Inv /\ Answered /\ [Next]_vars => Answered'
  BY AnsweredKept, TypeParts DEF Inv
<1>3. Answered => SleeperTracked
  BY DEF Answered, Waiting, SleeperTracked
<1>4. QED
  BY <1>1, <1>2, <1>3, QueueInvariant, PTL DEF Spec

===============================================================================
