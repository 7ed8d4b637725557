----------------------------- MODULE MCFileKeys -----------------------------
(* Instances of FileKeys for TLC: two members, the owner with two keys. *)
EXTENDS FileKeys, TLC

CONSTANTS u1, u2, k1, k2, r1, r2

Exchangeable == Permutations({k1, k2}) \cup Permutations({r1, r2})

OneAndAHalfChunks == <<0, 0, 1>>
OtherFiles == {<<0, 1, 1>>, <<0, 0>>}
=============================================================================
