--------------------------- MODULE MCOrphanCleanup ---------------------------
(* Instances of OrphanCleanup for TLC. *)
EXTENDS OrphanCleanup, TLC

Symmetry == Permutations(Names) \cup Permutations(Cleaners)
=============================================================================
