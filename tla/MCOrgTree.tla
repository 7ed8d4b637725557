------------------------------ MODULE MCOrgTree ------------------------------
EXTENDS OrgTree, TLC

CONSTANTS sales, east, north

\* Three levels: north below east below sales, at the root.
ThreeLevels == (sales :> None) @@ (east :> sales) @@ (north :> east)

\* Two levels: east and north below sales.
TwoLevels == (sales :> None) @@ (east :> sales) @@ (north :> sales)

File(parents, status) ==
  [u \in DOMAIN parents |-> [parent |-> parents[u], status |-> status]]

\* Every file of one row, and the files of two in which one row is the parent
\* the other names.
SmallFiles ==
  {File(u :> p, s) : u \in Codes, p \in Codes \cup {None}, s \in Statuses}
  \cup {File((u :> p) @@ (v :> u), "enabled") :
           u \in Codes, v \in Codes, p \in Codes \cup {None}}

Symmetry == Permutations(Codes \ DOMAIN DemoParent) \cup Permutations(Handlers)
=============================================================================
