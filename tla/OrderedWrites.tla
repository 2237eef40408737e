---------------------------- MODULE OrderedWrites ----------------------------
(***************************************************************************)
(* What the worker pool promises of write tasks: those of one (dataset,    *)
(* variable) pair run one at a time, in the order of their submission, and *)
(* each runs once.  Tasks of a pair are numbered from 0, as their dv_seq   *)
(* is; tasks of different pairs are unrelated.                             *)
(***************************************************************************)
EXTENDS Naturals

CONSTANT Keys   \* the (dataset, variable) pairs

VARIABLES
  submitted,    \* tasks accepted for each pair
  started,      \* tasks of each pair whose callback has been entered
  done          \* tasks of each pair whose callback has returned

orderedVars == <<submitted, started, done>>

OrderedInit ==
  /\ submitted = [k \in Keys |-> 0]
  /\ started = [k \in Keys |-> 0]
  /\ done = [k \in Keys |-> 0]

SubmitTask(k) ==
  /\ submitted' = [submitted EXCEPT ![k] = @ + 1]
  /\ UNCHANGED <<started, done>>

\* The oldest task that has not started may start once its predecessor is done.
StartTask(k) ==
  /\ started[k] = done[k]
  /\ started[k] < submitted[k]
  /\ started' = [started EXCEPT ![k] = @ + 1]
  /\ UNCHANGED <<submitted, done>>

EndTask(k) ==
  /\ done[k] < started[k]
  /\ done' = [done EXCEPT ![k] = @ + 1]
  /\ UNCHANGED <<submitted, started>>

OrderedNext == \E k \in Keys : SubmitTask(k) \/ StartTask(k) \/ EndTask(k)

OrderedSpec == OrderedInit /\ [][OrderedNext]_orderedVars

=============================================================================
