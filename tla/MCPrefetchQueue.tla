-------------------------- MODULE MCPrefetchQueue --------------------------
(* Instances of PrefetchQueue for TLC.                                     *)
EXTENDS PrefetchQueue, TLC

\* No reader is named in the module.
ReaderSymmetry == Permutations(Readers)

=============================================================================
