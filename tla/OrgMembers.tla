------------------------------ MODULE OrgMembers ------------------------------
(***************************************************************************)
(* Who belongs to which department of one tenant: tenant_org_members with  *)
(* its main-department mark, tenant_org_member_roles with the positions    *)
(* (leader, deputy), and the four writers of both: OrgManagementService,   *)
(* the old endpoints, which look the member up first and then call it, the *)
(* user import and the bootstrap at the start of the server.               *)
(*                                                                         *)
(* A transaction whose reads lock what they return is one action.  Setting *)
(* positions lists the leaders of a department and writes the new one in   *)
(* two: the list locks the leaders it finds and the gap they leave, two    *)
(* lists of an empty gap do not wait for each other, and a write waits     *)
(* while another list holds the gap.  The import reads without locks.      *)
(***************************************************************************)
EXTENDS Naturals, FiniteSets

CONSTANTS Units,       \* departments
          Users,       \* users
          Target,      \* the department the bootstrap puts every member in
          Handlers,    \* requests and import workers at work
          MaxChanges   \* bound on the writing operations

VARIABLES unit,      \* status of each department
          tenantUser,\* active members of the tenant
          admins,    \* tenant administrators, for the bootstrap
          member,    \* membership rows that exist, "active" or "inactive"
          primary,   \* rows marked as the user's main department
          roles,     \* active positions of each row
          calls,     \* what each handler is in the middle of
          drifted,   \* users whose mark the import or the bootstrap left wrong
          seeded,    \* departments where the bootstrap has named a leader
          changes    \* writing operations so far

vars == <<unit, tenantUser, admins, member, primary, roles, calls, drifted,
          seeded, changes>>

rows == <<member, primary, roles>>

ASSUME OrgMembersAssumption ==
  /\ IsFiniteSet(Units) /\ Target \in Units
  /\ IsFiniteSet(Users)
  /\ MaxChanges \in Nat

Leader == "ORG_LEADER"
Positions == {Leader, "DEPUTY_LEADER"}

Pairs == Units \X Users

Init ==
  /\ unit = [d \in Units |-> "enabled"]
  /\ tenantUser = Users
  /\ admins \in SUBSET Users
  /\ member = [p \in Pairs |-> "none"]
  /\ primary = {}
  /\ roles = [p \in Pairs |-> {}]
  /\ calls = [h \in Handlers |-> [op |-> "idle"]]
  /\ drifted = {}
  /\ seeded = {}
  /\ changes = 0

Idle == [op |-> "idle"]

Busy(h, op) == calls[h].op = op

Counts == changes < MaxChanges /\ changes' = changes + 1

ListActiveOrgMembersByUser(u) == {p \in Pairs : p[2] = u /\ member[p] = "active"}

LeadersOf(d) == {p \in Pairs : p[1] = d /\ Leader \in roles[p]}

\* The rows are inserted, or revived, with the given mark.
EnsureOrgMember(ps, main) ==
  [member |-> [p \in Pairs |-> IF p \in ps THEN "active" ELSE member[p]],
   primary |-> IF main THEN primary \cup ps ELSE primary \ ps]

(***************************************************************************)
(* What the pages show: the members of a department, page by page and in   *)
(* one list, and the summary of it in the tree, which counts deputies in   *)
(* the table of positions alone.                                           *)
(***************************************************************************)
ListOrgMembers(d) ==
  {[user |-> u, main |-> <<d, u>> \in primary, positions |-> roles[<<d, u>>]] :
     u \in {v \in Users : member[<<d, v>>] = "active"}}

ListOrgMembersPaged(ds, status) ==
  {p \in Pairs : p[1] \in ds /\ member[p] \in status}

ListOrgUnitSummaries(d) ==
  [members  |-> Cardinality({p \in Pairs : p[1] = d /\ member[p] = "active"}),
   deputies |-> Cardinality({p \in Pairs : p[1] = d /\ "DEPUTY_LEADER" \in roles[p]}),
   leaders  |-> {p[2] : p \in {q \in LeadersOf(d) : member[q] = "active"}}]

(***************************************************************************)
(* Row locks.  A handler that sets positions holds its member row, and the *)
(* leaders it has listed with the gap around them.                         *)
(***************************************************************************)
Setting(h) == Busy(h, "positions")

\* Nobody holds one of the rows.
FreeRows(ps) ==
  \A h \in Handlers : Setting(h) =>
    /\ calls[h].pair \notin ps
    /\ calls[h].gap # {} => LeadersOf(calls[h].pair[1]) \cap ps = {}

\* FOR UPDATE: what the list of leaders locks until the transaction ends.
ListOrgLeadersUnlocked(d, positions) == {}

ListOrgLeadersForUpdate(d, positions) == IF Leader \in positions THEN {d} ELSE {}

\* The list waits for rows another list returned, not for an empty gap.
LeadersListable(h, d) ==
  \A g \in Handlers \ {h} : Setting(g) /\ d \in calls[g].gap => LeadersOf(d) = {}

\* A new leader goes into the gap, which no other list may hold.
GapFree(h, d) == \A g \in Handlers \ {h} : Setting(g) => d \notin calls[g].gap

(***************************************************************************)
(* OrgManagementService                                                    *)
(***************************************************************************)
\* Mutant form: the other marks stay.
normalizeKeepsOthers(marks, u, p) == marks \cup {p}

\* In the transaction that holds the user's rows: one active row is marked.
normalizePrimaryMemberships(marks, u, p) == {q \in marks : q[2] # u} \cup {p}

\* The row is written, or revived, and always becomes the main department.
AddOrgMember(p) ==
  /\ Counts
  /\ p[2] \in tenantUser
  /\ unit[p[1]] = "enabled"
  /\ FreeRows(ListActiveOrgMembersByUser(p[2]) \cup {p})
  /\ LET added == EnsureOrgMember({p}, ListActiveOrgMembersByUser(p[2]) = {})
     IN /\ member' = added.member
        /\ primary' = normalizePrimaryMemberships(added.primary, p[2], p)
  /\ drifted' = drifted \ {p[2]}
  /\ UNCHANGED <<unit, tenantUser, admins, roles, calls, seeded>>

SetOrgMemberPrimary(p) ==
  /\ Counts
  /\ member[p] = "active"
  /\ FreeRows(ListActiveOrgMembersByUser(p[2]))
  /\ primary' = normalizePrimaryMemberships(primary, p[2], p)
  /\ drifted' = drifted \ {p[2]}
  /\ UNCHANGED <<unit, tenantUser, admins, member, roles, calls, seeded>>

SetOrgMemberRolesKept(p) == roles

SetOrgMemberRolesInactive(p) == [roles EXCEPT ![p] = {}]

\* next is the row chosen as the new main department, or the first that is
\* left: the marked one, if any is.
RemoveOrgMember(p, next) ==
  LET remaining == ListActiveOrgMembersByUser(p[2]) \ {p}
  IN /\ Counts
     /\ member[p] = "active"
     /\ FreeRows(ListActiveOrgMembersByUser(p[2]))
     /\ member' = [member EXCEPT ![p] = "inactive"]
     /\ roles' = SetOrgMemberRolesInactive(p)
     /\ IF remaining = {}
        THEN next = p /\ primary' = primary \ {p}
        ELSE /\ next \in remaining
             /\ primary' = normalizePrimaryMemberships(primary \ {p}, p[2], next)
     /\ drifted' = drifted \ {p[2]}
     /\ UNCHANGED <<unit, tenantUser, admins, calls, seeded>>

\* The member's row and, for a leader, the department's leaders are locked.
SetOrgMemberPositionsReads(h, p, positions) ==
  /\ Counts
  /\ Busy(h, "idle")
  /\ member[p] = "active"
  /\ FreeRows({p})
  /\ Leader \in positions =>
       LeadersListable(h, p[1]) /\ LeadersOf(p[1]) \subseteq {p}
  /\ calls' = [calls EXCEPT ![h] =
       [op |-> "positions", pair |-> p, positions |-> positions,
        gap |-> ListOrgLeadersForUpdate(p[1], positions)]]
  /\ UNCHANGED <<unit, tenantUser, admins, rows, drifted, seeded>>

\* ReplaceOrgMemberRoles: all positions of the row go, the new ones come.
SetOrgMemberPositionsWrites(h) ==
  /\ Setting(h)
  /\ LET c == calls[h]
     IN /\ Leader \in c.positions => GapFree(h, c.pair[1])
        /\ roles' = [roles EXCEPT ![c.pair] = c.positions]
  /\ calls' = [calls EXCEPT ![h] = Idle]
  /\ UNCHANGED <<unit, tenantUser, admins, member, primary, drifted, seeded, changes>>

\* The database ends a deadlock by rolling one of the calls back.
CallFails(h) ==
  /\ ~Busy(h, "idle")
  /\ calls' = [calls EXCEPT ![h] = Idle]
  /\ UNCHANGED <<unit, tenantUser, admins, rows, drifted, seeded, changes>>

(***************************************************************************)
(* Departments and tenant members, as far as memberships depend on them.   *)
(***************************************************************************)
\* CountOrgUnitActiveMembers runs under the lock of the department's row.
DeleteOrgUnit(d) ==
  /\ Counts
  /\ unit[d] # "deleted"
  /\ \A p \in Pairs : p[1] = d => member[p] # "active"
  /\ unit' = [unit EXCEPT ![d] = "deleted"]
  /\ UNCHANGED <<tenantUser, admins, rows, calls, drifted, seeded>>

UpdateOrgUnit(d, status) ==
  /\ Counts
  /\ unit[d] # "deleted"
  /\ unit' = [unit EXCEPT ![d] = status]
  /\ UNCHANGED <<tenantUser, admins, rows, calls, drifted, seeded>>

\* The departments of a user who leaves the tenant stay as they are.
RemoveTenantUser(u) ==
  /\ Counts
  /\ u \in tenantUser
  /\ tenantUser' = tenantUser \ {u}
  /\ admins' = admins \ {u}
  /\ UNCHANGED <<unit, rows, calls, drifted, seeded>>

(***************************************************************************)
(* The user import: one row of the file puts user u in department d.       *)
(***************************************************************************)
\* The department is looked up and the user's departments are read.
ensureImportOrgMembersReads(h, p) ==
  /\ Counts
  /\ Busy(h, "idle")
  /\ unit[p[1]] = "enabled"
  /\ calls' = [calls EXCEPT ![h] =
       [op |-> "import", pair |-> p, hasOrg |-> ListActiveOrgMembersByUser(p[2]) # {}]]
  /\ UNCHANGED <<unit, tenantUser, admins, rows, drifted, seeded>>

\* A row that exists is activated and keeps its mark; a new one is marked
\* when the user had no department.  The import makes u a tenant member.
ensureImportOrgMembersWrites(h) ==
  /\ Busy(h, "import")
  /\ LET p == calls[h].pair
         before == ListActiveOrgMembersByUser(p[2])
         stale == calls[h].hasOrg # (before # {})
         unmarked == member[p] = "inactive" /\ before = {}
     IN /\ FreeRows({p})
        /\ member' = [member EXCEPT ![p] = "active"]
        /\ primary' = IF member[p] = "none" /\ ~calls[h].hasOrg
                      THEN primary \cup {p} ELSE primary
        /\ tenantUser' = tenantUser \cup {p[2]}
        /\ drifted' = IF stale \/ unmarked THEN drifted \cup {p[2]} ELSE drifted
  /\ calls' = [calls EXCEPT ![h] = Idle]
  /\ UNCHANGED <<unit, admins, roles, seeded, changes>>

(***************************************************************************)
(* The server starts: every tenant member is put in the target department  *)
(* without a mark, and an administrator without position there leads it.   *)
(***************************************************************************)
bootstrapTenantDemoMembers ==
  LET placed == {<<Target, u>> : u \in tenantUser}
      led == {p \in placed : p[2] \in admins /\ roles[p] = {}}
      ensured == EnsureOrgMember(placed, FALSE)
  IN /\ Counts
     /\ unit[Target] = "enabled"
     /\ member' = ensured.member
     /\ primary' = ensured.primary
     /\ roles' = [p \in Pairs |-> IF p \in led THEN {Leader} ELSE roles[p]]
     /\ drifted' = drifted \cup tenantUser
     /\ seeded' = IF led = {} THEN seeded ELSE seeded \cup {Target}
     /\ calls' = [h \in Handlers |-> Idle]
     /\ UNCHANGED <<unit, tenantUser, admins>>

Next ==
  \/ \E p \in Pairs :
       \/ AddOrgMember(p)
       \/ SetOrgMemberPrimary(p)
       \/ \E next \in Pairs : RemoveOrgMember(p, next)
  \/ \E h \in Handlers :
       \/ \E p \in Pairs, S \in SUBSET Positions : SetOrgMemberPositionsReads(h, p, S)
       \/ SetOrgMemberPositionsWrites(h)
       \/ \E p \in Pairs : ensureImportOrgMembersReads(h, p)
       \/ ensureImportOrgMembersWrites(h)
       \/ CallFails(h)
  \/ \E d \in Units : DeleteOrgUnit(d)
  \/ \E d \in Units, s \in {"enabled", "disabled"} : UpdateOrgUnit(d, s)
  \/ \E u \in Users : RemoveTenantUser(u)
  \/ bootstrapTenantDemoMembers

Spec == Init /\ [][Next]_vars

-----------------------------------------------------------------------------

\* Rows and calls are the ones the schema and the handlers allow.
MembersTypeOK ==
  /\ unit \in [Units -> {"enabled", "disabled", "deleted"}]
  /\ tenantUser \subseteq Users
  /\ admins \subseteq tenantUser
  /\ member \in [Pairs -> {"none", "active", "inactive"}]
  /\ primary \subseteq Pairs
  /\ roles \in [Pairs -> SUBSET Positions]
  /\ \A h \in Handlers : calls[h].op \in {"idle", "positions", "import"}
  /\ drifted \subseteq Users
  /\ seeded \subseteq Units
  /\ changes \in 0..MaxChanges

\* A department has one leader however many requests name one at a time, as
\* long as the bootstrap has not named its own there: the uniqueness rests
\* on the gap that listing the leaders locks (org_attribute_repository.go:596).
OneLeader ==
  \A d \in Units \ seeded : Cardinality(LeadersOf(d)) <= 1

\* Whoever holds a position in a department is an active member of it,
\* whichever of removal, position change and import came last.
PositionNeedsMembership ==
  \A p \in Pairs : roles[p] # {} => member[p] = "active"

\* The summary of a department in the tree says what its pages say, though
\* three queries over two tables fill it and the one for deputies joins no
\* membership (org_attribute_repository.go:231-297).
SummaryMatchesMembers ==
  \A d \in Units :
    LET list == ListOrgMembers(d)
        holders(position) == {m \in list : position \in m.positions}
        summary == ListOrgUnitSummaries(d)
    IN /\ summary.members = Cardinality(ListOrgMembersPaged({d}, {"active"}))
       /\ summary.deputies = Cardinality(holders("DEPUTY_LEADER"))
       /\ summary.leaders = {m.user : m \in holders(Leader)}

\* Memberships are well formed, and positions rest on them in the tables and
\* in what the pages show.
MembersConsistent ==
  MembersTypeOK /\ PositionNeedsMembership /\ SummaryMatchesMembers

\* "Among the active departments of a user one and only one is the main one"
\* (org.go, IsPrimary) after any overlap of adding, removing and choosing,
\* until the import or the bootstrap writes the user's rows past the rule.
OneMainDepartment ==
  \A u \in Users \ drifted :
    LET active == ListActiveOrgMembersByUser(u)
        marked == {p \in primary : p[2] = u}
    IN /\ marked \subseteq active
       /\ active # {} => Cardinality(marked) = 1

=============================================================================
