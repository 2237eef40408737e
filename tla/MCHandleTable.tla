--------------------------- MODULE MCHandleTable ---------------------------
(* An instance of HandleTable for TLC.                                     *)
EXTENDS HandleTable, TLC

\* The table treats neither kinds nor payloads by name.
HandleSymmetry == Permutations(Kinds) \cup Permutations(Payloads)

=============================================================================
