--------------------------- MODULE OrgMembers_proofs ---------------------------
(* Theorems about OrgMembers, for any departments, users and requests. *)
EXTENDS OrgMembers, FiniteSetTheorems, TLAPS

(* What a request is in the middle of.  *)
Calls ==
  {Idle}
    \cup [op : {"positions"}, pair : Pairs, positions : SUBSET Positions, gap : SUBSET Units]
    \cup [op : {"import"}, pair : Pairs, hasOrg : BOOLEAN]

CallsTyped == calls \in [Handlers -> Calls]

(* A request that sets positions holds the row of an active member, and,   *)
(* for a new leader, the gap of a department nobody else leads.            *)
Holds(h) ==
  Setting(h) =>
    /\ member[calls[h].pair] = "active"
    /\ Leader \in calls[h].positions =>
         /\ calls[h].pair[1] \in calls[h].gap
         /\ LeadersOf(calls[h].pair[1]) \subseteq {calls[h].pair}

SettingHolds == \A h \in Handlers : Holds(h)

(* One leader, without counting. *)
LeadersAgree ==
  \A d \in Units \ seeded : \A p, q \in LeadersOf(d) : p = q

(* One main department, without counting: a user without a department has  *)
(* no mark, any other exactly one, on an active row.                       *)
Marks(u) == {p \in primary : p[2] = u}

MarksAgree ==
  \A u \in Users \ drifted :
    \/ ListActiveOrgMembersByUser(u) = {} /\ Marks(u) = {}
    \/ \E p \in ListActiveOrgMembersByUser(u) : Marks(u) = {p}

(* A mark is on an active row even where it has drifted. *)
MarkedIsActive == \A p \in primary : member[p] = "active"

MembersInv ==
  /\ MembersTypeOK
  /\ CallsTyped
  /\ SettingHolds
  /\ PositionNeedsMembership
  /\ LeadersAgree
  /\ MarkedIsActive
  /\ MarksAgree

-----------------------------------------------------------------------------
(* All departments enabled, no memberships: the invariant holds at the     *)
(* start.                                                                  *)
LEMMA MembersInitial == Init => MembersInv
<1> SUFFICES ASSUME Init PROVE MembersInv
  OBVIOUS
<1> USE OrgMembersAssumption DEF Init
<1>1. MembersTypeOK
  BY DEF MembersTypeOK
<1>2. CallsTyped /\ SettingHolds
  BY DEF CallsTyped, Calls, Idle, SettingHolds, Holds, Setting, Busy
<1>3. PositionNeedsMembership /\ LeadersAgree
  BY DEF PositionNeedsMembership, LeadersAgree, LeadersOf
<1>4. MarkedIsActive /\ MarksAgree
  BY DEF MarkedIsActive, MarksAgree, Marks, ListActiveOrgMembersByUser
<1> QED BY <1>1, <1>2, <1>3, <1>4 DEF MembersInv

(* Every step keeps the rows and the calls of their types. *)
LEMMA MembersTypeStep == MembersInv /\ [Next]_vars => MembersTypeOK' /\ CallsTyped'
<1> SUFFICES ASSUME MembersTypeOK, CallsTyped, [Next]_vars PROVE MembersTypeOK' /\ CallsTyped'
  BY DEF MembersInv
<1> USE OrgMembersAssumption DEF MembersTypeOK, CallsTyped
<1>1. Idle \in Calls /\ Pairs = Units \X Users
  BY DEF Calls, Pairs
<1>2. \A c \in Calls : c.op \in {"idle", "positions", "import"}
  BY DEF Calls, Idle
<1>3. CallsTyped' => \A h \in Handlers : calls'[h].op \in {"idle", "positions", "import"}
  BY <1>2
<1>4. ASSUME Counts PROVE changes' \in 0..MaxChanges
  BY <1>4 DEF Counts
<1>5. ASSUME NEW p \in Pairs, AddOrgMember(p) PROVE MembersTypeOK' /\ CallsTyped'
  BY <1>1, <1>3, <1>4, <1>5
  DEF AddOrgMember, EnsureOrgMember, normalizePrimaryMemberships
<1>6. ASSUME NEW p \in Pairs, SetOrgMemberPrimary(p) PROVE MembersTypeOK' /\ CallsTyped'
  BY <1>3, <1>4, <1>6 DEF SetOrgMemberPrimary, normalizePrimaryMemberships
<1>7. ASSUME NEW p \in Pairs, NEW next \in Pairs, RemoveOrgMember(p, next)
      PROVE MembersTypeOK' /\ CallsTyped'
  BY <1>3, <1>4, <1>7
  DEF RemoveOrgMember, SetOrgMemberRolesInactive, normalizePrimaryMemberships
<1>8. ASSUME NEW h \in Handlers, NEW p \in Pairs, NEW S \in SUBSET Positions,
             SetOrgMemberPositionsReads(h, p, S)
      PROVE MembersTypeOK' /\ CallsTyped'
  <2>1. p[1] \in Units
    BY <1>1
  <2>2. ListOrgLeadersForUpdate(p[1], S) \in SUBSET Units
    BY <2>1 DEF ListOrgLeadersForUpdate
  <2>3. CallsTyped'
    BY <1>8, <2>2 DEF SetOrgMemberPositionsReads, Calls
  <2> QED BY <1>3, <1>4, <1>8, <2>3 DEF SetOrgMemberPositionsReads, rows
<1>9. ASSUME NEW h \in Handlers, SetOrgMemberPositionsWrites(h)
      PROVE MembersTypeOK' /\ CallsTyped'
  <2>1. calls[h].pair \in Pairs /\ calls[h].positions \in SUBSET Positions
    BY <1>9 DEF SetOrgMemberPositionsWrites, Setting, Busy, Calls, Idle
  <2>2. CallsTyped'
    BY <1>1, <1>9 DEF SetOrgMemberPositionsWrites
  <2> QED BY <1>3, <1>9, <2>1, <2>2 DEF SetOrgMemberPositionsWrites
<1>10. ASSUME NEW h \in Handlers, CallFails(h) PROVE MembersTypeOK' /\ CallsTyped'
  BY <1>1, <1>3, <1>10 DEF CallFails, rows
<1>11. ASSUME NEW h \in Handlers, NEW p \in Pairs, ensureImportOrgMembersReads(h, p)
       PROVE MembersTypeOK' /\ CallsTyped'
  <2>1. CallsTyped'
    BY <1>11 DEF ensureImportOrgMembersReads, Calls
  <2> QED BY <1>3, <1>4, <1>11, <2>1 DEF ensureImportOrgMembersReads, rows
<1>12. ASSUME NEW h \in Handlers, ensureImportOrgMembersWrites(h)
       PROVE MembersTypeOK' /\ CallsTyped'
  <2>1. calls[h].pair \in Pairs /\ calls[h].pair[2] \in Users
    BY <1>1, <1>12 DEF ensureImportOrgMembersWrites, Busy, Calls, Idle
  <2>2. CallsTyped'
    BY <1>1, <1>12 DEF ensureImportOrgMembersWrites
  <2> QED BY <1>3, <1>12, <2>1, <2>2 DEF ensureImportOrgMembersWrites
<1>13. ASSUME NEW d \in Units, DeleteOrgUnit(d) PROVE MembersTypeOK' /\ CallsTyped'
  BY <1>3, <1>4, <1>13 DEF DeleteOrgUnit, rows
<1>14. ASSUME NEW d \in Units, NEW s \in {"enabled", "disabled"}, UpdateOrgUnit(d, s)
       PROVE MembersTypeOK' /\ CallsTyped'
  BY <1>3, <1>4, <1>14 DEF UpdateOrgUnit, rows
<1>15. ASSUME NEW u \in Users, RemoveTenantUser(u) PROVE MembersTypeOK' /\ CallsTyped'
  BY <1>3, <1>4, <1>15 DEF RemoveTenantUser, rows
<1>16. CASE bootstrapTenantDemoMembers
  <2>1. CallsTyped'
    BY <1>1, <1>16 DEF bootstrapTenantDemoMembers
  <2>2. \A u \in Users : <<Target, u>> \in Pairs
    BY <1>1
  <2>3. roles' \in [Pairs -> SUBSET Positions]
    BY <1>16 DEF bootstrapTenantDemoMembers, Positions
  <2>4. member' \in [Pairs -> {"none", "active", "inactive"}] /\ primary' \subseteq Pairs
    BY <1>16 DEF bootstrapTenantDemoMembers, EnsureOrgMember
  <2>5. drifted' \subseteq Users /\ seeded' \subseteq Units
    BY <1>16 DEF bootstrapTenantDemoMembers
  <2> QED BY <1>3, <1>4, <1>16, <2>1, <2>3, <2>4, <2>5 DEF bootstrapTenantDemoMembers
<1>17. CASE UNCHANGED vars
  BY <1>17 DEF vars
<1> QED
  BY <1>5, <1>6, <1>7, <1>8, <1>9, <1>10, <1>11, <1>12, <1>13, <1>14, <1>15, <1>16, <1>17
  DEF Next

-----------------------------------------------------------------------------
(* Positions and leaders. *)
PositionsHold == SettingHolds /\ PositionNeedsMembership /\ LeadersAgree

(* A step that gives no position, takes the positions of whom it removes,  *)
(* and removes nobody whose positions a request is about to set.           *)
GivesNoPosition ==
  /\ \A p \in Pairs : roles'[p] \subseteq roles[p]
  /\ \A h \in Handlers : calls'[h].op = "positions" => calls'[h] = calls[h]
  /\ \A p \in Pairs :
       member[p] = "active" /\ member'[p] # "active" =>
         /\ roles'[p] = {}
         /\ \A h \in Handlers : calls[h].op = "positions" => calls[h].pair # p
  /\ seeded \subseteq seeded'

(* A step that gives no position keeps that positions rest on memberships. *)
LEMMA NoPositionStep ==
  ASSUME MembersInv, GivesNoPosition
  PROVE  PositionsHold'
<1> USE DEF MembersInv, GivesNoPosition
<1>1. \A d \in Units : LeadersOf(d)' \subseteq LeadersOf(d)
  BY DEF LeadersOf
<1>2. SettingHolds'
  <2> SUFFICES ASSUME NEW h \in Handlers, Setting(h)' PROVE Holds(h)'
    BY DEF SettingHolds, Holds
  <2>1. calls'[h] = calls[h] /\ Setting(h)
    BY DEF Setting, Busy
  <2>2. calls[h].pair \in Pairs /\ calls[h].pair[1] \in Units
    BY <2>1 DEF Setting, Busy, CallsTyped, Calls, Idle, Pairs
  <2>3. member[calls[h].pair] = "active" /\ calls[h].op = "positions"
    BY <2>1 DEF SettingHolds, Holds, Setting, Busy
  <2>4. member'[calls[h].pair] = "active"
    BY <2>2, <2>3
  <2> QED BY <1>1, <2>1, <2>2, <2>4 DEF SettingHolds, Holds
<1>3. PositionNeedsMembership'
  BY DEF PositionNeedsMembership
<1>4. LeadersAgree'
  BY <1>1 DEF LeadersAgree
<1> QED BY <1>2, <1>3, <1>4 DEF PositionsHold

(* Setting positions, first half: the leaders of the department are listed *)
(* and locked.                                                             *)
LEMMA PositionReadsStep ==
  ASSUME MembersInv, NEW h \in Handlers, NEW p \in Pairs, NEW S \in SUBSET Positions,
         SetOrgMemberPositionsReads(h, p, S)
  PROVE  PositionsHold'
<1> USE DEF MembersInv, SetOrgMemberPositionsReads, rows
<1>1. PositionNeedsMembership' /\ LeadersAgree'
  BY DEF PositionNeedsMembership, LeadersAgree, LeadersOf
<1>2. \A d \in Units : LeadersOf(d)' = LeadersOf(d)
  BY DEF LeadersOf
<1>3. ASSUME NEW g \in Handlers, Setting(g)'
      PROVE  Holds(g)'
  <2>1. CASE g = h
    <3>1. /\ calls'[h].pair = p /\ calls'[h].positions = S
          /\ calls'[h].gap = ListOrgLeadersForUpdate(p[1], S)
      BY DEF CallsTyped
    <3>2. p[1] \in Units
      BY DEF Pairs
    <3> QED BY <1>2, <2>1, <3>1, <3>2 DEF ListOrgLeadersForUpdate, Holds, LeadersOf
  <2>2. CASE g # h
    <3>1. calls'[g] = calls[g] /\ Setting(g)
      BY <2>2, <1>3 DEF Setting, Busy, CallsTyped
    <3>2. calls[g].pair[1] \in Units
      BY <3>1 DEF Setting, Busy, CallsTyped, Calls, Idle, Pairs
    <3> QED BY <1>2, <3>1, <3>2 DEF SettingHolds, Holds
  <2> QED BY <2>1, <2>2
<1> QED BY <1>1, <1>3 DEF PositionsHold, SettingHolds, Holds

(* Second half: the positions of the row are replaced. Whoever else has    *)
(* listed the leaders of the department keeps a new leader out of it.      *)
LEMMA PositionWritesStep ==
  ASSUME MembersInv, NEW h \in Handlers, SetOrgMemberPositionsWrites(h)
  PROVE  PositionsHold'
<1> USE DEF MembersInv
<1> DEFINE c == calls[h]
<1>1. c.pair \in Pairs /\ c.positions \in SUBSET Positions /\ c.pair[1] \in Units /\ Setting(h)
  BY DEF SetOrgMemberPositionsWrites, Setting, Busy, CallsTyped, Calls, Idle, Pairs
<1>2. \A p \in Pairs : roles'[p] = IF p = c.pair THEN c.positions ELSE roles[p]
  BY DEF SetOrgMemberPositionsWrites, MembersTypeOK
<1>3. member' = member /\ seeded' = seeded
  BY DEF SetOrgMemberPositionsWrites
<1>4. \A g \in Handlers : calls'[g] = IF g = h THEN Idle ELSE calls[g]
  BY DEF SetOrgMemberPositionsWrites, CallsTyped
<1>5. \A d \in Units : \A p \in LeadersOf(d)' :
        p \in LeadersOf(d) \/ (p = c.pair /\ d = c.pair[1] /\ Leader \in c.positions)
  BY <1>2 DEF LeadersOf
<1>6. Leader \in c.positions => LeadersOf(c.pair[1]) \subseteq {c.pair}
  BY <1>1 DEF SettingHolds, Holds
<1>7. PositionNeedsMembership'
  BY <1>1, <1>2, <1>3 DEF PositionNeedsMembership, SettingHolds, Holds
<1>8. LeadersAgree'
  <2> SUFFICES ASSUME NEW d \in Units \ seeded, NEW p \in LeadersOf(d)', NEW q \in LeadersOf(d)'
               PROVE  p = q
    BY <1>3 DEF LeadersAgree
  <2> QED BY <1>5, <1>6 DEF LeadersAgree
<1>9. ASSUME NEW g \in Handlers, Setting(g)'
      PROVE  Holds(g)'
  <2>1. g # h /\ calls'[g] = calls[g] /\ Setting(g)
    BY <1>4, <1>9 DEF Setting, Busy, Idle
  <2>2. calls[g].pair[1] \in Units
    BY <2>1 DEF Setting, Busy, CallsTyped, Calls, Idle, Pairs
  <2>3. Leader \in c.positions => c.pair[1] \notin calls[g].gap
    BY <2>1 DEF SetOrgMemberPositionsWrites, GapFree
  <2> QED BY <1>3, <1>5, <2>1, <2>2, <2>3 DEF SettingHolds, Holds
<1> QED BY <1>7, <1>8, <1>9 DEF PositionsHold, SettingHolds, Holds

(* The bootstrap runs alone; what it gives, it gives to active members of  *)
(* the target department, which then counts as seeded.                     *)
LEMMA BootstrapPositionsStep ==
  ASSUME MembersInv, bootstrapTenantDemoMembers
  PROVE  PositionsHold'
<1> USE DEF MembersInv
<1> DEFINE placed == {<<Target, u>> : u \in tenantUser}
           led == {p \in placed : p[2] \in admins /\ roles[p] = {}}
<1>1. placed \subseteq Pairs /\ Target \in Units
  BY OrgMembersAssumption DEF MembersTypeOK, Pairs
<1>2. \A p \in Pairs : member'[p] = IF p \in placed THEN "active" ELSE member[p]
  BY DEF bootstrapTenantDemoMembers, EnsureOrgMember
<1>3. \A p \in Pairs : roles'[p] = IF p \in led THEN {Leader} ELSE roles[p]
  BY DEF bootstrapTenantDemoMembers
<1>4. seeded' = IF led = {} THEN seeded ELSE seeded \cup {Target}
  BY DEF bootstrapTenantDemoMembers
<1>5. SettingHolds'
  BY DEF bootstrapTenantDemoMembers, SettingHolds, Holds, Setting, Busy, Idle
<1>6. PositionNeedsMembership'
  BY <1>1, <1>2, <1>3 DEF PositionNeedsMembership
<1>7. \A d \in Units : led = {} \/ d # Target => LeadersOf(d)' = LeadersOf(d)
  BY <1>3 DEF LeadersOf
<1>8. LeadersAgree'
  BY <1>4, <1>7 DEF LeadersAgree
<1> QED BY <1>5, <1>6, <1>8 DEF PositionsHold

(* Every step keeps it, those that give positions as well.                 *)
LEMMA PositionsStep == MembersInv /\ [Next]_vars => PositionsHold'
<1> SUFFICES ASSUME MembersInv, [Next]_vars PROVE PositionsHold'
  OBVIOUS
<1>0. CallsTyped /\ member \in [Pairs -> {"none", "active", "inactive"}]
        /\ roles \in [Pairs -> SUBSET Positions]
  BY DEF MembersInv, MembersTypeOK
<1>1. ASSUME NEW p \in Pairs, AddOrgMember(p) PROVE PositionsHold'
  <2>1. GivesNoPosition
    BY <1>0, <1>1 DEF AddOrgMember, EnsureOrgMember, GivesNoPosition
  <2> QED BY <2>1, NoPositionStep
<1>2. ASSUME NEW p \in Pairs, SetOrgMemberPrimary(p) PROVE PositionsHold'
  <2>1. GivesNoPosition
    BY <1>2 DEF SetOrgMemberPrimary, GivesNoPosition
  <2> QED BY <2>1, NoPositionStep
<1>3. ASSUME NEW p \in Pairs, NEW next \in Pairs, RemoveOrgMember(p, next) PROVE PositionsHold'
  <2>1. p \in ListActiveOrgMembersByUser(p[2])
    BY <1>3 DEF RemoveOrgMember, ListActiveOrgMembersByUser
  <2>2. \A h \in Handlers : calls[h].op = "positions" => calls[h].pair # p
    BY <1>3, <2>1 DEF RemoveOrgMember, FreeRows, Setting, Busy
  <2>3. GivesNoPosition
    BY <1>0, <1>3, <2>2 DEF RemoveOrgMember, SetOrgMemberRolesInactive, GivesNoPosition
  <2> QED BY <2>3, NoPositionStep
<1>4. ASSUME NEW h \in Handlers, CallFails(h) PROVE PositionsHold'
  <2>1. GivesNoPosition
    BY <1>0, <1>4 DEF CallFails, rows, CallsTyped, Idle, GivesNoPosition
  <2> QED BY <2>1, NoPositionStep
<1>5. ASSUME NEW h \in Handlers, NEW p \in Pairs, ensureImportOrgMembersReads(h, p)
      PROVE PositionsHold'
  <2>1. GivesNoPosition
    BY <1>0, <1>5 DEF ensureImportOrgMembersReads, rows, CallsTyped, GivesNoPosition
  <2> QED BY <2>1, NoPositionStep
<1>6. ASSUME NEW h \in Handlers, ensureImportOrgMembersWrites(h) PROVE PositionsHold'
  <2>1. GivesNoPosition
    BY <1>0, <1>6 DEF ensureImportOrgMembersWrites, CallsTyped, Idle, GivesNoPosition
  <2> QED BY <2>1, NoPositionStep
<1>7. ASSUME NEW d \in Units, DeleteOrgUnit(d) PROVE PositionsHold'
  <2>1. GivesNoPosition
    BY <1>7 DEF DeleteOrgUnit, rows, GivesNoPosition
  <2> QED BY <2>1, NoPositionStep
<1>8. ASSUME NEW d \in Units, NEW status \in {"enabled", "disabled"}, UpdateOrgUnit(d, status)
      PROVE PositionsHold'
  <2>1. GivesNoPosition
    BY <1>8 DEF UpdateOrgUnit, rows, GivesNoPosition
  <2> QED BY <2>1, NoPositionStep
<1>9. ASSUME NEW u \in Users, RemoveTenantUser(u) PROVE PositionsHold'
  <2>1. GivesNoPosition
    BY <1>9 DEF RemoveTenantUser, rows, GivesNoPosition
  <2> QED BY <2>1, NoPositionStep
<1>10. CASE UNCHANGED vars
  <2>1. GivesNoPosition
    BY <1>10 DEF vars, GivesNoPosition
  <2> QED BY <2>1, NoPositionStep
<1> QED
  BY <1>1, <1>2, <1>3, <1>4, <1>5, <1>6, <1>7, <1>8, <1>9, <1>10,
     PositionReadsStep, PositionWritesStep, BootstrapPositionsStep
  DEF Next

-----------------------------------------------------------------------------
(* The main department of a user. *)
Main(u) ==
  \/ ListActiveOrgMembersByUser(u) = {} /\ Marks(u) = {}
  \/ \E p \in ListActiveOrgMembersByUser(u) : Marks(u) = {p}

(* A step that leaves the rows of a user alone keeps his mark. *)
LeavesAlone(u) ==
  /\ u \in drifted => u \in drifted'
  /\ \A p \in Pairs : p[2] = u =>
       /\ member'[p] = "active" <=> member[p] = "active"
       /\ p \in primary' <=> p \in primary

(* A user whose rows are left alone keeps his one primary department.      *)
LEMMA AloneStep ==
  ASSUME MembersInv, MembersTypeOK', NEW u \in Users, LeavesAlone(u), u \notin drifted'
  PROVE  Main(u)'
<1>1. ListActiveOrgMembersByUser(u)' = ListActiveOrgMembersByUser(u)
  BY DEF LeavesAlone, ListActiveOrgMembersByUser
<1>2. Marks(u)' = Marks(u)
  BY DEF LeavesAlone, Marks, MembersInv, MembersTypeOK
<1> QED BY <1>1, <1>2 DEF Main, MarksAgree, MembersInv, LeavesAlone

(* Every step leaves the primary mark on active rows only.                 *)
LEMMA MarkedIsActiveStep == MembersInv /\ [Next]_vars => MarkedIsActive'
<1> SUFFICES ASSUME MembersInv, [Next]_vars PROVE MarkedIsActive'
  OBVIOUS
<1>0. /\ member \in [Pairs -> {"none", "active", "inactive"}] /\ primary \subseteq Pairs
      /\ MarkedIsActive /\ CallsTyped
  BY DEF MembersInv, MembersTypeOK
<1>1. ASSUME NEW p \in Pairs, AddOrgMember(p) PROVE MarkedIsActive'
  BY <1>0, <1>1 DEF AddOrgMember, EnsureOrgMember, normalizePrimaryMemberships, MarkedIsActive
<1>2. ASSUME NEW p \in Pairs, SetOrgMemberPrimary(p) PROVE MarkedIsActive'
  BY <1>0, <1>2 DEF SetOrgMemberPrimary, normalizePrimaryMemberships, MarkedIsActive
<1>3. ASSUME NEW p \in Pairs, NEW next \in Pairs, RemoveOrgMember(p, next)
      PROVE MarkedIsActive'
  <2> DEFINE remaining == ListActiveOrgMembersByUser(p[2]) \ {p}
  <2>1. \A q \in Pairs : member'[q] = IF q = p THEN "inactive" ELSE member[q]
    BY <1>0, <1>3 DEF RemoveOrgMember
  <2>2. CASE remaining = {}
    <3>1. primary' = primary \ {p}
      BY <1>3, <2>2 DEF RemoveOrgMember
    <3> QED BY <1>0, <2>1, <3>1 DEF MarkedIsActive
  <2>3. CASE remaining # {}
    <3>1. /\ next \in remaining
          /\ primary' = normalizePrimaryMemberships(primary \ {p}, p[2], next)
      BY <1>3, <2>3 DEF RemoveOrgMember
    <3> QED BY <1>0, <2>1, <3>1
        DEF normalizePrimaryMemberships, ListActiveOrgMembersByUser, MarkedIsActive
  <2> QED BY <2>2, <2>3
<1>4. ASSUME NEW h \in Handlers, ensureImportOrgMembersWrites(h) PROVE MarkedIsActive'
  <2>1. calls[h].pair \in Pairs
    BY <1>0, <1>4 DEF ensureImportOrgMembersWrites, Busy, CallsTyped, Calls, Idle
  <2>2. /\ \A q \in Pairs : member'[q] = IF q = calls[h].pair THEN "active" ELSE member[q]
        /\ primary' \in {primary, primary \cup {calls[h].pair}}
    BY <1>0, <1>4, <2>1 DEF ensureImportOrgMembersWrites
  <2> QED BY <1>0, <2>1, <2>2 DEF MarkedIsActive
<1>5. CASE bootstrapTenantDemoMembers
  BY <1>0, <1>5 DEF bootstrapTenantDemoMembers, EnsureOrgMember, MarkedIsActive
<1>6. ASSUME UNCHANGED <<member, primary>> PROVE MarkedIsActive'
  BY <1>0, <1>6 DEF MarkedIsActive
<1> QED
  BY <1>1, <1>2, <1>3, <1>4, <1>5, <1>6
  DEF Next, vars, rows, SetOrgMemberPositionsReads, SetOrgMemberPositionsWrites, CallFails,
      ensureImportOrgMembersReads, DeleteOrgUnit, UpdateOrgUnit, RemoveTenantUser

(* Every step leaves a user who is in some department, and has not         *)
(* drifted, one mark.                                                      *)
LEMMA MarksStep == MembersInv /\ MembersTypeOK' /\ [Next]_vars => MarksAgree'
<1> SUFFICES ASSUME MembersInv, MembersTypeOK', [Next]_vars, NEW u \in Users, u \notin drifted'
             PROVE  Main(u)'
  BY DEF MarksAgree, Main
<1>0. /\ member \in [Pairs -> {"none", "active", "inactive"}] /\ primary \subseteq Pairs
      /\ CallsTyped /\ (u \notin drifted => Main(u))
  BY DEF MembersInv, MembersTypeOK, MarksAgree, Main
<1>1. ASSUME NEW p \in Pairs, AddOrgMember(p) PROVE Main(u)'
  <2>1. member' = [q \in Pairs |-> IF q \in {p} THEN "active" ELSE member[q]]
    BY <1>1 DEF AddOrgMember, EnsureOrgMember
  <2>2. CASE u = p[2]
    <3>1. p \in ListActiveOrgMembersByUser(u)'
      BY <2>1, <2>2 DEF ListActiveOrgMembersByUser
    <3>2. Marks(u)' = {p}
      BY <1>1, <2>2 DEF AddOrgMember, normalizePrimaryMemberships, Marks
    <3> QED BY <3>1, <3>2 DEF Main
  <2>3. CASE u # p[2]
    <3>1. LeavesAlone(u)
      BY <1>1, <2>1, <2>3
      DEF AddOrgMember, EnsureOrgMember, normalizePrimaryMemberships, LeavesAlone
    <3> QED BY <3>1, AloneStep
  <2> QED BY <2>2, <2>3
<1>2. ASSUME NEW p \in Pairs, SetOrgMemberPrimary(p) PROVE Main(u)'
  <2>2. CASE u = p[2]
    <3>1. p \in ListActiveOrgMembersByUser(u)'
      BY <1>2, <2>2 DEF SetOrgMemberPrimary, ListActiveOrgMembersByUser
    <3>2. Marks(u)' = {p}
      BY <1>2, <2>2 DEF SetOrgMemberPrimary, normalizePrimaryMemberships, Marks
    <3> QED BY <3>1, <3>2 DEF Main
  <2>3. CASE u # p[2]
    <3>1. LeavesAlone(u)
      BY <1>2, <2>3 DEF SetOrgMemberPrimary, normalizePrimaryMemberships, LeavesAlone
    <3> QED BY <3>1, AloneStep
  <2> QED BY <2>2, <2>3
<1>3. ASSUME NEW p \in Pairs, NEW next \in Pairs, RemoveOrgMember(p, next) PROVE Main(u)'
  <2> DEFINE remaining == ListActiveOrgMembersByUser(p[2]) \ {p}
  <2>1. \A q \in Pairs : member'[q] = IF q = p THEN "inactive" ELSE member[q]
    BY <1>0, <1>3 DEF RemoveOrgMember
  <2>2. CASE u = p[2]
    <3>1. ListActiveOrgMembersByUser(u)' = remaining
      BY <2>1, <2>2 DEF ListActiveOrgMembersByUser
    <3>2. CASE remaining = {}
      <4>1. Marks(u)' = Marks(u) \ {p}
        BY <1>3, <2>2, <3>2 DEF RemoveOrgMember, Marks
      <4>2. Marks(u) \subseteq {p}
        BY <1>0, <2>2, <3>2
        DEF MembersInv, MarkedIsActive, Marks, ListActiveOrgMembersByUser
      <4> QED BY <3>1, <3>2, <4>1, <4>2 DEF Main
    <3>3. CASE remaining # {}
      <4>1. next \in remaining
            /\ primary' = normalizePrimaryMemberships(primary \ {p}, p[2], next)
        BY <1>3, <3>3 DEF RemoveOrgMember
      <4>2. Marks(u)' = {next}
        BY <2>2, <4>1 DEF normalizePrimaryMemberships, Marks, ListActiveOrgMembersByUser
      <4> QED BY <3>1, <4>1, <4>2 DEF Main
    <3> QED BY <3>2, <3>3
  <2>3. CASE u # p[2]
    <3>1. next[2] # u
      BY <1>3, <2>3 DEF RemoveOrgMember, ListActiveOrgMembersByUser
    <3>2. LeavesAlone(u)
      BY <1>3, <2>1, <2>3, <3>1 DEF RemoveOrgMember, normalizePrimaryMemberships, LeavesAlone
    <3> QED BY <3>2, AloneStep
  <2> QED BY <2>2, <2>3
<1>4. CASE bootstrapTenantDemoMembers
  <2>1. u \notin tenantUser /\ u \notin drifted
    BY <1>4 DEF bootstrapTenantDemoMembers
  <2>2. LeavesAlone(u)
    BY <1>4, <2>1 DEF bootstrapTenantDemoMembers, EnsureOrgMember, LeavesAlone
  <2> QED BY <2>2, AloneStep
<1>5. ASSUME NEW h \in Handlers, ensureImportOrgMembersWrites(h) PROVE Main(u)'
  <2> DEFINE p == calls[h].pair
             before == ListActiveOrgMembersByUser(p[2])
  <2>1. p \in Pairs /\ calls[h].hasOrg \in BOOLEAN
    BY <1>0, <1>5 DEF ensureImportOrgMembersWrites, Busy, CallsTyped, Calls, Idle
  <2>2. /\ \A q \in Pairs : member'[q] = IF q = p THEN "active" ELSE member[q]
        /\ primary' = IF member[p] = "none" /\ ~calls[h].hasOrg
                      THEN primary \cup {p} ELSE primary
    BY <1>0, <1>5, <2>1 DEF ensureImportOrgMembersWrites
  <2>3. CASE u # p[2]
    <3>1. u \notin drifted
      BY <1>5 DEF ensureImportOrgMembersWrites
    <3>2. LeavesAlone(u)
      BY <2>2, <2>3, <3>1 DEF LeavesAlone
    <3> QED BY <3>2, AloneStep
  <2>4. CASE u = p[2]
    <3>1. /\ calls[h].hasOrg = (before # {})
          /\ ~(member[p] = "inactive" /\ before = {})
          /\ u \notin drifted
      BY <1>5, <2>4 DEF ensureImportOrgMembersWrites
    <3>2. Main(u)
      BY <1>0, <3>1
    <3>3. ListActiveOrgMembersByUser(u)' = before \cup {p}
      BY <2>1, <2>2, <2>4 DEF ListActiveOrgMembersByUser
    <3>4. CASE before = {}
      <4>1. member[p] = "none"
        BY <1>0, <2>1, <2>4, <3>1, <3>4 DEF ListActiveOrgMembersByUser
      <4>2. Marks(u) = {}
        BY <2>4, <3>2, <3>4 DEF Main
      <4>3. Marks(u)' = {p}
        BY <2>2, <2>4, <3>1, <3>4, <4>1, <4>2 DEF Marks
      <4> QED BY <3>3, <4>3 DEF Main
    <3>5. CASE before # {}
      <4>1. Marks(u)' = Marks(u)
        BY <2>2, <3>1, <3>5 DEF Marks
      <4> QED BY <2>4, <3>2, <3>3, <3>5, <4>1 DEF Main
    <3> QED BY <3>4, <3>5
  <2> QED BY <2>3, <2>4
<1>6. ASSUME UNCHANGED <<member, primary, drifted>> PROVE Main(u)'
  <2>1. LeavesAlone(u)
    BY <1>6 DEF LeavesAlone
  <2> QED BY <2>1, AloneStep
<1> QED
  BY <1>1, <1>2, <1>3, <1>4, <1>5, <1>6
  DEF Next, vars, rows, SetOrgMemberPositionsReads, SetOrgMemberPositionsWrites, CallFails,
      ensureImportOrgMembersReads, DeleteOrgUnit, UpdateOrgUnit, RemoveTenantUser

-----------------------------------------------------------------------------
(* What the theorems rest on. *)
THEOREM MembersInvariant == Spec => []MembersInv
<1>1. MembersInv /\ [Next]_vars => MembersInv'
  BY MembersTypeStep, PositionsStep, MarkedIsActiveStep, MarksStep DEF MembersInv, PositionsHold
<1> QED BY MembersInitial, <1>1, PTL DEF Spec

(* A department has at most one leader, however many requests name one at  *)
(* a time, unless the bootstrap named one of its own there                 *)
(* (ListOrgLeadersForUpdate, ReplaceOrgMemberRoles).                       *)
THEOREM OneLeaderAlways == Spec => []OneLeader
<1>1. MembersInv => OneLeader
  <2> SUFFICES ASSUME LeadersAgree, NEW d \in Units \ seeded
               PROVE  Cardinality(LeadersOf(d)) <= 1
    BY DEF MembersInv, OneLeader
  <2>1. CASE LeadersOf(d) = {}
    BY <2>1, FS_EmptySet
  <2>2. CASE LeadersOf(d) # {}
    <3>1. PICK p \in LeadersOf(d) : LeadersOf(d) = {p}
      BY <2>2 DEF LeadersAgree
    <3>2. Cardinality({p}) = 1
      BY FS_Singleton
    <3> QED BY <3>1, <3>2
  <2> QED BY <2>1, <2>2
<1> QED BY <1>1, MembersInvariant, PTL

(* A user with departments has exactly one main department, one without    *)
(* none, whatever overlaps, until the import or the bootstrap wrote his    *)
(* rows (normalizePrimaryMemberships).                                     *)
THEOREM OneMainDepartmentAlways == Spec => []OneMainDepartment
<1>1. MembersInv => OneMainDepartment
  <2> SUFFICES ASSUME MembersInv, NEW u \in Users \ drifted
               PROVE  /\ Marks(u) \subseteq ListActiveOrgMembersByUser(u)
                      /\ ListActiveOrgMembersByUser(u) # {} => Cardinality(Marks(u)) = 1
    BY DEF OneMainDepartment, Marks
  <2>1. Main(u)
    BY DEF MembersInv, MarksAgree, Main
  <2> QED BY <2>1, FS_Singleton DEF Main
<1> QED BY <1>1, MembersInvariant, PTL

-----------------------------------------------------------------------------
(* The three queries behind the summary of a department count what its     *)
(* pages list, because a position implies the membership.                  *)
LEMMA SummaryFollows == MembersTypeOK /\ PositionNeedsMembership => SummaryMatchesMembers
<1> SUFFICES ASSUME MembersTypeOK, PositionNeedsMembership, NEW d \in Units
             PROVE  LET list == ListOrgMembers(d)
                        holders(position) == {m \in list : position \in m.positions}
                        summary == ListOrgUnitSummaries(d)
                    IN /\ summary.members = Cardinality(ListOrgMembersPaged({d}, {"active"}))
                       /\ summary.deputies = Cardinality(holders("DEPUTY_LEADER"))
                       /\ summary.leaders = {m.user : m \in holders(Leader)}
  BY DEF SummaryMatchesMembers
<1> DEFINE shown(u) == [user |-> u, main |-> <<d, u>> \in primary, positions |-> roles[<<d, u>>]]
           holders(position) == {m \in ListOrgMembers(d) : position \in m.positions}
           rowsWith(position) == {p \in Pairs : p[1] = d /\ position \in roles[p]}
<1>1. \A p \in Pairs : p[1] = d => p[2] \in Users /\ p = <<d, p[2]>>
  BY DEF Pairs
<1>2. \A u \in Users : <<d, u>> \in Pairs
  BY DEF Pairs
<1>3. ListOrgMembersPaged({d}, {"active"}) = {p \in Pairs : p[1] = d /\ member[p] = "active"}
  BY DEF ListOrgMembersPaged
<1>4. ASSUME NEW position
      PROVE  /\ \A m \in holders(position) :
                  \E u \in Users : position \in roles[<<d, u>>] /\ m = shown(u)
             /\ \A u \in Users : position \in roles[<<d, u>>] => shown(u) \in holders(position)
  <2>1. \A m : m \in ListOrgMembers(d) <=>
               \E u \in Users : member[<<d, u>>] = "active" /\ m = shown(u)
    BY DEF ListOrgMembers
  <2>2. \A u \in Users : position \in roles[<<d, u>>] => member[<<d, u>>] = "active"
    BY <1>2 DEF PositionNeedsMembership
  <2>3. \A u \in Users : shown(u).positions = roles[<<d, u>>]
    OBVIOUS
  <2> QED BY <2>1, <2>2, <2>3
<1>5. Cardinality(rowsWith("DEPUTY_LEADER")) = Cardinality(holders("DEPUTY_LEADER"))
  <2> DEFINE S == rowsWith("DEPUTY_LEADER")
             T == holders("DEPUTY_LEADER")
             f == [p \in S |-> shown(p[2])]
  <2>1. IsFiniteSet(S)
    <3>1. IsFiniteSet(Pairs)
      BY FS_Product, OrgMembersAssumption DEF OrgMembersAssumption, Pairs
    <3> QED BY <3>1, FS_Subset
  <2>2. \A p \in S : shown(p[2]) \in T
    BY <1>1, <1>4
  <2>3. f \in [S -> T]
    BY <2>2
  <2>4. \A p, q \in S : f[p] = f[q] => p = q
    BY <1>1
  <2>5. \A t \in T : \E p \in S : f[p] = t
    <3> SUFFICES ASSUME NEW t \in T PROVE \E p \in S : f[p] = t
      OBVIOUS
    <3>1. PICK u \in Users : "DEPUTY_LEADER" \in roles[<<d, u>>] /\ t = shown(u)
      BY <1>4
    <3>2. <<d, u>> \in S /\ f[<<d, u>>] = shown(u)
      BY <1>2, <3>1
    <3> QED BY <3>1, <3>2
  <2>6. f \in Bijection(S, T)
    BY <2>3, <2>4, <2>5 DEF Bijection, Injection, Surjection, IsInjective
  <2> QED BY <2>1, <2>6, FS_Bijection DEF ExistsBijection
<1>6. {p[2] : p \in {q \in LeadersOf(d) : member[q] = "active"}} = {m.user : m \in holders(Leader)}
  <2>1. {q \in LeadersOf(d) : member[q] = "active"} = rowsWith(Leader)
    BY DEF LeadersOf, PositionNeedsMembership
  <2>2. \A p \in rowsWith(Leader) : p[2] \in Users /\ shown(p[2]) \in holders(Leader)
    BY <1>1, <1>4
  <2>3. \A m \in holders(Leader) : \E p \in rowsWith(Leader) : m.user = p[2]
    <3> SUFFICES ASSUME NEW m \in holders(Leader)
                 PROVE  \E p \in rowsWith(Leader) : m.user = p[2]
      OBVIOUS
    <3>1. PICK u \in Users : Leader \in roles[<<d, u>>] /\ m = shown(u)
      BY <1>4
    <3>2. <<d, u>> \in rowsWith(Leader) /\ m.user = u
      BY <1>2, <3>1
    <3> QED BY <3>2
  <2>4. \A u \in Users : shown(u).user = u
    OBVIOUS
  <2> HIDE DEF shown, holders, rowsWith
  <2>5. {p[2] : p \in rowsWith(Leader)} = {m.user : m \in holders(Leader)}
    BY <2>2, <2>3, <2>4
  <2> QED BY <2>1, <2>5
<1> QED BY <1>3, <1>5, <1>6 DEF ListOrgUnitSummaries

(* Positions rest on memberships in the tables and in what the pages show, *)
(* whichever of removal, position change, import and start came last.      *)
THEOREM MembersStayConsistent == Spec => []MembersConsistent
<1>1. MembersInv => MembersConsistent
  BY SummaryFollows DEF MembersInv, MembersConsistent
<1> QED BY <1>1, MembersInvariant, PTL

=============================================================================
