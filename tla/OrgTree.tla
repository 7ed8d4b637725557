------------------------------- MODULE OrgTree -------------------------------
(***************************************************************************)
(* The departments of one tenant: the rows of tenant_org_units, the        *)
(* "department" rows of tenant_attribute_values that mirror them, and      *)
(* everything that writes either: OrgManagementService (create, update,    *)
(* move, delete), the import of organisation files (ImportService and the  *)
(* worker) and the bootstrap that runs when the server starts.             *)
(*                                                                         *)
(* A path such as "/A/B" is the sequence <<Slash, A, B>>: paths joined by  *)
(* joinOrgPath and by the bootstrap start with a slash, an import starts   *)
(* the path of a root with its code alone.  level is the number of codes   *)
(* in the path in every write, so it is derived.  A transaction whose      *)
(* reads are covered by the row locks it holds until it commits is one     *)
(* action; MoveOrgUnit and the import read rows they do not lock, so they  *)
(* read in one action and write in another.                                *)
(***************************************************************************)
EXTENDS Naturals, FiniteSets, SequencesExt

CONSTANTS Codes,       \* the codes departments may get
          DemoParent,  \* the demo tree: its departments and their parents
          Handlers,    \* requests and import workers at work
          MaxChanges,  \* bound on the writing operations
          Files,       \* the imported files: codes to rows of parent and status
          Slash,       \* the empty first segment of a path
          None         \* no parent, nothing read yet

VARIABLES units,    \* tenant_org_units by code, deleted rows included
          values,   \* department value rows, by department and value_code
          calls,    \* what each handler is in the middle of
          torn,     \* a write rested on rows that no longer stood as read, or an
          \* import moved a department without the rows of its children
          changes   \* writing operations so far

vars == <<units, values, calls, torn, changes>>

Statuses == {"enabled", "disabled"}

ASSUME OrgTreeAssumption ==
  /\ DOMAIN DemoParent \subseteq Codes
  /\ \A u \in DOMAIN DemoParent : DemoParent[u] \in DOMAIN DemoParent \cup {None}
  /\ \A S \in SUBSET DOMAIN DemoParent :  \* a tree
       S # {} => \E u \in S : DemoParent[u] \notin S
  /\ \A rows \in Files : \A u \in DOMAIN rows :
       /\ u \in Codes
       /\ rows[u] \in [parent : Codes \cup {None}, status : Statuses]
  /\ MaxChanges \in Nat
  /\ None \notin Codes
  /\ Slash \notin Codes

\* The two value_codes a department's value row may carry: "dept_<code>"
\* when OrgManagementService writes it, the code itself otherwise.
departmentValueCode == "dept"
PlainValueCode == "plain"

Unit(parent, path, status) ==
  [parent |-> parent, path |-> path, status |-> status, live |-> TRUE]

Value(path, status) == [path |-> path, status |-> status]

\* Entries of g replace those of f.
Overlay(f, g) ==
  [x \in DOMAIN f \cup DOMAIN g |-> IF x \in DOMAIN g THEN g[x] ELSE f[x]]

Live == {u \in DOMAIN units : units[u].live}

Children(u) == {v \in Live : units[v].parent = u}

joinOrgPath(parentPath, code) ==
  IF parentPath = <<>> THEN <<Slash, code>> ELSE Append(parentPath, code)

\* A department is one level below its parent; the slash is no department.
Level(path) == Cardinality({i \in DOMAIN path : path[i] # Slash})

\* The rows whose path is the given one or starts with it and a slash.
ListOrgUnitsByPathPrefix(prefix) == {v \in Live : IsPrefix(prefix, units[v].path)}

FindManagedValueOnly(table, u) == {<<u, departmentValueCode>>} \cap DOMAIN table

\* The value row of the lowest id: the managed one is older than the plain one.
FindTenantAttributeValueByOrgUnit(table, u) ==
  IF <<u, departmentValueCode>> \in DOMAIN table
  THEN {<<u, departmentValueCode>>}
  ELSE {<<u, PlainValueCode>>} \cap DOMAIN table

(***************************************************************************)
(* Handlers and the rows they lock.  A move holds its department and its   *)
(* target from its first read to its commit; FindOrgUnitForUpdate and      *)
(* every write of a row wait for the holder.                               *)
(***************************************************************************)
Idle == [op |-> "idle"]

Busy(h, op) == calls[h].op = op

Locks(h) ==
  IF Busy(h, "move") THEN {calls[h].unit, calls[h].target} \ {None} ELSE {}

FreeFor(h, rows) == \A g \in Handlers \ {h} : Locks(g) \cap rows = {}

Unlocked(u) == \A h \in Handlers : u \notin Locks(h)

FindOrgUnitForUpdate(u) == u \in Live /\ Unlocked(u)

\* The bound: operations that write, or start to, are counted.
Counts == changes < MaxChanges /\ changes' = changes + 1

Finish(h) == calls' = [calls EXCEPT ![h] = Idle]

(***************************************************************************)
(* The demo tree as the first start of the server leaves it.               *)
(***************************************************************************)
demoPath[u \in DOMAIN DemoParent] ==
  IF DemoParent[u] = None THEN joinOrgPath(<<>>, u)
  ELSE joinOrgPath(demoPath[DemoParent[u]], u)

bootstrapOrgChildren ==
  [u \in DOMAIN DemoParent |-> Unit(DemoParent[u], demoPath[u], "enabled")]

\* EnsureTenantAttributeValue for every enabled department that is listed.
bootstrapTenantAttributes(rows) ==
  [k \in {u \in DOMAIN rows : rows[u].live /\ rows[u].status = "enabled"}
           \X {PlainValueCode}
     |-> Value(rows[k[1]].path, "enabled")]

Init ==
  /\ units = bootstrapOrgChildren
  /\ values = bootstrapTenantAttributes(bootstrapOrgChildren)
  /\ calls = [h \in Handlers |-> Idle]
  /\ torn = FALSE
  /\ changes = 0

\* EnsureOrgUnit does not see a deleted row, inserts its code again and
\* fails on the unique key: the start of the server ends there.
BootstrapFails == \E u \in DOMAIN DemoParent : ~units[u].live

\* The server stops, which rolls every transaction back, and starts again.
BootstrapDemoOrgAttributes ==
  /\ Counts
  /\ calls' = [h \in Handlers |-> Idle]
  /\ values' = IF BootstrapFails THEN values
               ELSE Overlay(values, bootstrapTenantAttributes(units))
  /\ UNCHANGED <<units, torn>>

(***************************************************************************)
(* OrgManagementService.  Whether a department has active members is left  *)
(* open here: a delete that finds some is a delete that does not happen.   *)
(***************************************************************************)
CreateOrgUnit(u, parent) ==
  /\ Counts
  /\ u \notin DOMAIN units
  /\ parent # None => FindOrgUnitForUpdate(parent) /\ units[parent].status = "enabled"
  /\ LET path == joinOrgPath(IF parent = None THEN <<>> ELSE units[parent].path, u)
     IN /\ units' = Overlay(units, [x \in {u} |-> Unit(parent, path, "enabled")])
        /\ values' = Overlay(values,
             [k \in {<<u, departmentValueCode>>} |-> Value(path, "enabled")])
  /\ UNCHANGED <<calls, torn>>

UpdateOrgUnit(u, status) ==
  /\ Counts
  /\ FindOrgUnitForUpdate(u)
  /\ status = "disabled" => \A v \in Children(u) : units[v].status = "disabled"
  /\ units' = [units EXCEPT ![u].status = status]
  /\ values' = [k \in DOMAIN values |->
                  IF k \in FindTenantAttributeValueByOrgUnit(values, u)
                  THEN [values[k] EXCEPT !.status = status] ELSE values[k]]
  /\ UNCHANGED <<calls, torn>>

DeleteOrgUnit(u) ==
  /\ Counts
  /\ FindOrgUnitForUpdate(u)
  /\ Children(u) = {}
  /\ units' = [units EXCEPT ![u].live = FALSE]
  /\ UNCHANGED <<values, calls, torn>>

\* The mutant forms of three definitions below: a cycle looked for in the
\* target alone, a suffix cut one code too far, a mirror looked up by its
\* managed code only.
MoveCycleExactOnly(u, target) == target = u \/ units[target].path = units[u].path

\* The target is below the department, as far as the paths tell.
MoveCycle(u, target) == target = u \/ IsPrefix(units[u].path, units[target].path)

\* Both rows are locked, the cycle is looked for in the paths, and the rows
\* of the subtree are read without a lock, their values with them.
MoveOrgUnitReads(h, u, target) ==
  /\ Counts
  /\ Busy(h, "idle")
  /\ FindOrgUnitForUpdate(u)
  /\ target # None => FindOrgUnitForUpdate(target) /\ ~MoveCycle(u, target)
  /\ LET subtree == ListOrgUnitsByPathPrefix(units[u].path)
         mirrors == UNION {FindTenantAttributeValueByOrgUnit(values, v) : v \in subtree}
     IN calls' = [calls EXCEPT ![h] =
          [op |-> "move", unit |-> u, target |-> target,
           seen |-> [v \in subtree |-> units[v]],
           seenValues |-> [k \in mirrors |-> values[k]]]]
  /\ UNCHANGED <<units, values, torn>>

RebasedTooFar(path, oldPath, newPath) ==
  newPath \o SubSeq(path, Len(oldPath) + 2, Len(path))

\* item.Path = newPath + TrimPrefix(item.Path, oldPath)
Rebased(path, oldPath, newPath) ==
  newPath \o SubSeq(path, Len(oldPath) + 1, Len(path))

\* Save writes every column of the row as it was read, and gorm inserts or
\* revives the row when the update finds none that is not deleted.
MoveOrgUnitWrites(h) ==
  /\ Busy(h, "move")
  /\ LET m == calls[h]
         oldPath == m.seen[m.unit].path
         newPath == joinOrgPath(IF m.target = None THEN <<>> ELSE units[m.target].path, m.unit)
         moved == [v \in DOMAIN m.seen |->
                     [m.seen[v] EXCEPT
                        !.path = Rebased(m.seen[v].path, oldPath, newPath),
                        !.parent = IF v = m.unit THEN m.target ELSE @]]
     IN /\ FreeFor(h, DOMAIN m.seen)
        /\ units' = Overlay(units, moved)
        /\ values' = Overlay(values,
             [k \in DOMAIN m.seenValues |->
                [m.seenValues[k] EXCEPT !.path = moved[k[1]].path]])
        /\ torn' = (torn \/ m.seen # [v \in ListOrgUnitsByPathPrefix(oldPath) |-> units[v]])
  /\ Finish(h)
  /\ UNCHANGED changes

\* A deadlock, a lock wait timeout or a lost connection rolls the call back.
CallFails(h) ==
  /\ ~Busy(h, "idle")
  /\ Finish(h)
  /\ UNCHANGED <<units, values, torn, changes>>

(***************************************************************************)
(* The import of an organisation file: rows gives each code of the file    *)
(* its parent and its status.                                              *)
(***************************************************************************)
\* Following parents within the file never comes back to a row.
validateOrgCycles(rows) ==
  \A S \in SUBSET DOMAIN rows :
    S # {} => \E u \in S : rows[u].parent \notin S

validateOrgRows(rows) ==
  /\ \A u \in DOMAIN rows : LET p == rows[u].parent IN
       /\ p # u
       /\ p \in Live \cup DOMAIN rows \cup {None}
       /\ p \in Live => ~IsStrictPrefix(<<u>>, units[p].path)
  /\ validateOrgCycles(rows)

\* The upload is validated now and applied when a worker gets to it.
ImportValidates(h, rows) ==
  /\ Counts
  /\ Busy(h, "idle")
  /\ validateOrgRows(rows)
  /\ calls' = [calls EXCEPT ![h] = [op |-> "import", rows |-> rows, seen |-> None]]
  /\ UNCHANGED <<units, values, torn>>

importOrgUnitsReads(h) ==
  /\ Busy(h, "import")
  /\ calls[h].seen = None
  /\ calls' = [calls EXCEPT ![h].op = "importing", ![h].seen = [v \in Live |-> units[v]]]
  /\ UNCHANGED <<units, values, torn, changes>>

\* Parents come before their children (orderOrgRows), so a row sees the path
\* its parent gets from the file.
orderOrgRows(rows, seen) ==
  LET path[u \in DOMAIN rows] ==
        LET p == rows[u].parent
        IN IF p = None THEN <<u>>
           ELSE IF p \in DOMAIN rows THEN Append(path[p], u)
           ELSE Append(seen[p].path, u)
  IN path

\* A department that exists is disabled only without children: those the
\* file has already moved away do not count.
MayBeDisabled(u, rows, seen) ==
  \A v \in DOMAIN seen :
    seen[v].parent = u => v \in DOMAIN rows /\ rows[v].parent # u

\* The UPDATE by id skips a deleted row, INSERT fails on a code in use.
importOrgUnitsTx(h) ==
  /\ Busy(h, "importing")
  /\ LET rows == calls[h].rows
         seen == calls[h].seen
         path == orderOrgRows(rows, seen)
         written == {u \in DOMAIN rows : u \notin DOMAIN seen \/ units[u].live}
     IN /\ \A u \in DOMAIN rows :
             /\ rows[u].parent \in DOMAIN seen \cup DOMAIN rows \cup {None}
             /\ u \notin DOMAIN seen => u \notin DOMAIN units
             /\ u \in DOMAIN seen /\ rows[u].status = "disabled"
                  => MayBeDisabled(u, rows, seen)
        /\ FreeFor(h, written)
        /\ units' = Overlay(units,
             [u \in written |-> Unit(rows[u].parent, path[u], rows[u].status)])
        /\ values' = Overlay(values,
             [k \in (DOMAIN rows) \X {PlainValueCode} |->
                Value(path[k[1]], rows[k[1]].status)])
        /\ torn' = (\/ torn
                    \/ seen # [v \in Live |-> units[v]]
                    \/ \E u \in DOMAIN rows \cap Live :
                         /\ path[u] # units[u].path
                         /\ ~(Children(u) \subseteq DOMAIN rows))
  /\ Finish(h)
  /\ UNCHANGED changes

Next ==
  \/ BootstrapDemoOrgAttributes
  \/ \E u \in Codes, p \in Codes \cup {None} : CreateOrgUnit(u, p)
  \/ \E u \in Codes, s \in Statuses : UpdateOrgUnit(u, s)
  \/ \E u \in Codes : DeleteOrgUnit(u)
  \/ \E h \in Handlers :
       \/ \E u \in Codes, t \in Codes \cup {None} : MoveOrgUnitReads(h, u, t)
       \/ MoveOrgUnitWrites(h)
       \/ \E rows \in Files : ImportValidates(h, rows)
       \/ importOrgUnitsReads(h)
       \/ importOrgUnitsTx(h)
       \/ CallFails(h)

Spec == Init /\ [][Next]_vars

(***************************************************************************)
(* buildManagementOrgTree: rows in the order of their level.  A row is     *)
(* copied into its parent's children when its turn comes, so the copy has  *)
(* only the children whose turn came before its own; roots are copied last.*)
(***************************************************************************)
TreeRoots == {u \in Live : units[u].parent = None \/ units[u].parent \notin Live}

buildManagementOrgTree ==
  LET Copied(u) == IF u \in TreeRoots THEN Children(u)
                   ELSE {v \in Children(u) : Level(units[v].path) < Level(units[u].path)}
      shown[n \in Nat] == IF n = 0 THEN TreeRoots
                          ELSE shown[n-1] \cup UNION {Copied(u) : u \in shown[n-1]}
  IN shown[Cardinality(Codes)]

-----------------------------------------------------------------------------

\* Rows, mirrors and calls are the ones the schema and the handlers allow.
OrgTypeOK ==
  /\ DOMAIN units \subseteq Codes
  /\ \A u \in DOMAIN units :
       /\ units[u].parent \in Codes \cup {None}
       /\ units[u].path # <<>> /\ Last(units[u].path) = u
       /\ units[u].status \in Statuses
       /\ units[u].live \in BOOLEAN
  /\ DOMAIN values \subseteq (DOMAIN units) \X {departmentValueCode, PlainValueCode}
  /\ \A h \in Handlers : calls[h].op \in {"idle", "move", "import", "importing"}
  /\ torn \in BOOLEAN
  /\ changes \in 0..MaxChanges

\* Path and parent tell one story: as long as every write was made from rows
\* that still stood as they were read, and no import moved a department
\* without its children, the parent of a live department is live and its
\* path is the parent's followed by its own code.  This is what lets
\* MoveOrgUnit look for a cycle in the paths alone
\* (org_management_service.go:274).
PathsFollowParents ==
  ~torn => \A u \in Live :
    LET p == units[u].parent
    IN IF p = None THEN units[u].path \in {<<u>>, <<Slash, u>>}
       ELSE p \in Live /\ units[u].path = Append(units[p].path, u)

\* A department with one value row has it agree with the department in path
\* and status, whatever moves, updates and imports overlapped: policies are
\* written against the value, the tree shows the department.  A second row,
\* which a restart or an import adds under the bare code, is followed by
\* neither UpdateOrgUnit nor MoveOrgUnit.
ValueMirrorsUnit ==
  \A u \in Live :
    \A k \in DOMAIN values :
      k[1] = u /\ Cardinality({j \in DOMAIN values : j[1] = u}) = 1
        => values[k] = Value(units[u].path, units[u].status)

\* "返回当前租户完整部门树": the tree page shows every live department, as
\* long as the rows rest on each other (org_management_service.go:114; a node
\* is copied into its parent before its own children are added to it,
\* org_management_service.go:628-636).
TreeIsComplete == ~torn => buildManagementOrgTree = Live

\* What it shows: the departments of the first two levels, and only these.
TreeShowsTwoLevels ==
  ~torn => buildManagementOrgTree =
             {u \in Live : \/ units[u].parent = None
                           \/ units[units[u].parent].parent = None}

=============================================================================
