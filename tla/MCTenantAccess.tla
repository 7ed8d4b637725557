---------------------------- MODULE MCTenantAccess ----------------------------
(* Instances of TenantAccess for TLC. *)
EXTENDS TenantAccess, TLC

CONSTANTS DU, c1

NamedRoleLists == {{DU}, {Admin}, {DU, c1}}

Symmetry == Permutations(Users) \cup Permutations(Handlers)
=============================================================================
