---------------------------- MODULE MCWritePath ----------------------------
(* Instances of WritePath for TLC.                                         *)
EXTENDS WritePath, TLC

\* Neither hosts nor writes are named in the module.
WriteSymmetry == Permutations(Hosts) \cup Permutations(Writes)

=============================================================================
