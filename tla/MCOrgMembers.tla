----------------------------- MODULE MCOrgMembers -----------------------------
EXTENDS OrgMembers, TLC

Symmetry == Permutations(Users) \cup Permutations(Handlers)
=============================================================================
