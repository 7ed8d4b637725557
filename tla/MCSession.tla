------------------------------ MODULE MCSession ------------------------------
(* Instances of Session for TLC. *)
EXTENDS Session, TLC

Symmetry == Permutations(Tokens) \cup Permutations(Devices) \cup Permutations(Handlers)
=============================================================================
