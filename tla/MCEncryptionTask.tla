--------------------------- MODULE MCEncryptionTask ---------------------------
(* Instances of EncryptionTask for TLC. *)
EXTENDS EncryptionTask, TLC

Symmetry == Permutations(Tasks) \cup Permutations(AttemptIds) \cup Permutations(Names)
                \cup Permutations(Handlers) \cup Permutations(Cleaners)
=============================================================================
