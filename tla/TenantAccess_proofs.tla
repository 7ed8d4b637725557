-------------------------- MODULE TenantAccess_proofs --------------------------
(* Theorems about TenantAccess, for any people, roles and requests. *)
EXTENDS TenantAccess, FiniteSetTheorems, TLAPS

(* What a request that has begun rests on, until it ends: the accounts and *)
(* memberships it has made sure of never go away again, and the roles a    *)
(* replacement has locked stay active.                                     *)
RequestRests(h) ==
    /\ req[h].pc \in {"join", "platform"} => req[h].on \subseteq Accounts
    /\ req[h].pc \in {"join", "grant"} => \A u \in Users : req[h].want[u] \subseteq Builtin
    /\ req[h].pc \in {"grant", "replace"} =>
          \A u \in req[h].on : member[u] # "none"
    /\ req[h].pc = "replace" =>
          \A u \in Users : \A c \in req[h].want[u] \cap Custom : role[c] = "active"

RequestsRest == \A h \in Handlers : RequestRests(h)

TenantInv ==
    /\ TenantTypeOK
    /\ GrantRestsOnMember
    /\ RequestsRest

-----------------------------------------------------------------------------
(* Roles are built in or custom, and the administrator's is built in.      *)
LEMMA RolesTyped ==
    /\ Builtin \subseteq Roles /\ Custom \subseteq Roles /\ Admin \in Builtin
    /\ Capabilities \subseteq Builtin
    /\ Builtin \cap Custom = {}
    /\ \A l \in RoleLists : l \subseteq Roles
BY TenantAssumption DEF Roles, Builtin

(* The idle request is typed.                                              *)
LEMMA IdleTyped == Idle \in Request
BY DEF Idle, Request

(* A request about one user is typed and about him alone.                  *)
LEMMA OneTyped ==
    ASSUME NEW u \in Users, NEW roles \in SUBSET Roles,
           NEW pc \in {"platform", "join", "grant", "replace"}
    PROVE  /\ One(pc, u, roles) \in Request
           /\ One(pc, u, roles).pc = pc /\ One(pc, u, roles).on = {u}
           /\ \A v \in Users : One(pc, u, roles).want[v] = IF v = u THEN roles ELSE {}
BY DEF One, Idle, Request

(* A request that begins is counted, the others stay.                      *)
LEMMA BeginsTyped ==
    ASSUME TenantTypeOK, NEW h \in Handlers, NEW r \in Request, Begins(h, r)
    PROVE  /\ req' \in [Handlers -> Request] /\ requests' \in 0..MaxRequests
           /\ req'[h] = r /\ \A g \in Handlers \ {h} : req'[g] = req[g]
BY TenantAssumption DEF TenantTypeOK, Begins

(* A request that ends leaves the others.                                  *)
LEMMA EndsTyped ==
    ASSUME TenantTypeOK, NEW h \in Handlers, Ends(h)
    PROVE  /\ req' \in [Handlers -> Request] /\ requests' \in 0..MaxRequests
           /\ req'[h] = Idle /\ \A g \in Handlers \ {h} : req'[g] = req[g]
BY IdleTyped DEF TenantTypeOK, Ends

(* No tenant, no accounts: the invariant holds at the start.               *)
LEMMA TenantInitial == Init => TenantInv
<1> SUFFICES ASSUME Init PROVE TenantInv
  OBVIOUS
<1>1. TenantTypeOK
  BY TenantAssumption, IdleTyped DEF Init, TenantTypeOK
<1>2. GrantRestsOnMember
  BY DEF Init, GrantRestsOnMember
<1>3. RequestsRest
  BY DEF Init, RequestsRest, RequestRests, Idle
<1> QED BY <1>1, <1>2, <1>3 DEF TenantInv

-----------------------------------------------------------------------------
(* What a step may do to the tables: accounts and memberships are never    *)
(* deleted, and a row of user_roles comes with its membership.             *)
Grows ==
    /\ \A u \in Users : legacy[u] # "absent" => legacy'[u] # "absent"
    /\ \A u \in Users : member[u] # "none" => member'[u] # "none"
    /\ \A c \in Custom : c \in LockedRoles => role'[c] = role[c]
    /\ \A u \in Users : \A r \in Roles :
          grant'[u][r] # "none" => grant[u][r] # "none" \/ member'[u] # "none"
    /\ \A u \in Users : member'[u] # "none" => member[u] # "none" \/ legacy'[u] # "absent"

(* While rows only grow, a grant rests on a member.                        *)
LEMMA GrantsStep ==
    ASSUME TenantInv, Grows
    PROVE  GrantRestsOnMember'
BY DEF TenantInv, Grows, GrantRestsOnMember, Accounts

(* One request changes and rests on what it has read: so do all then.      *)
LEMMA RestsStep ==
    ASSUME TenantInv, Grows, NEW h \in Handlers,
           \A g \in Handlers \ {h} : req'[g] = req[g],
           RequestRests(h)'
    PROVE  RequestsRest'
<1> SUFFICES ASSUME NEW g \in Handlers \ {h} PROVE RequestRests(g)'
  BY DEF RequestsRest
<1>1. req'[g] = req[g] /\ req[g] \in Request
  BY DEF TenantInv, TenantTypeOK
<1>2. RequestRests(g)
  BY DEF TenantInv, RequestsRest
<1>3. req[g].pc = "replace" => \A u \in Users : req[g].want[u] \subseteq LockedRoles
  BY DEF LockedRoles
<1> QED BY <1>1, <1>2, <1>3 DEF RequestRests, Grows, Accounts, Request

(* A request that has ended rests on nothing.                              *)
LEMMA IdleRests ==
    ASSUME NEW h \in Handlers, req'[h] = Idle
    PROVE  RequestRests(h)'
BY DEF Idle, RequestRests

(* A request that joins a user rests on his account.                       *)
LEMMA JoinRests ==
    ASSUME NEW h \in Handlers, NEW u \in Users, NEW roles \in SUBSET Builtin,
           req'[h].pc \in {"join", "platform"}, req'[h].on = {u}, legacy'[u] # "absent",
           \A v \in Users : req'[h].want[v] = IF v = u THEN roles ELSE {}
    PROVE  RequestRests(h)'
BY DEF RequestRests, Accounts

(* A step of which the requests take no notice. *)
LEMMA RestsAlone ==
    ASSUME TenantInv, Grows, req' = req
    PROVE  RequestsRest'
<1> SUFFICES ASSUME NEW g \in Handlers PROVE RequestRests(g)'
  BY DEF RequestsRest
<1>1. req'[g] = req[g] /\ req[g] \in Request
  BY DEF TenantInv, TenantTypeOK
<1>2. RequestRests(g)
  BY DEF TenantInv, RequestsRest
<1>3. req[g].pc = "replace" => \A u \in Users : req[g].want[u] \subseteq LockedRoles
  BY DEF LockedRoles
<1> QED BY <1>1, <1>2, <1>3 DEF RequestRests, Grows, Accounts, Request

-----------------------------------------------------------------------------
(* Every step keeps the rows and the requests of their types. *)
LEMMA TenantTypeStep == TenantTypeOK /\ [Next]_vars => TenantTypeOK'
<1> SUFFICES ASSUME TenantTypeOK, [Next]_vars PROVE TenantTypeOK'
  OBVIOUS
<1> USE TenantAssumption, RolesTyped DEF TenantTypeOK
<1>1. ASSUME NEW status \in {"enabled", "disabled"}, CreateTenant(status) \/ SetTenantStatus(status)
      PROVE  TenantTypeOK'
  BY <1>1 DEF CreateTenant, SetTenantStatus
<1>2. ASSUME BootstrapDefaultTenant
      PROVE  TenantTypeOK'
  BY <1>2
  DEF BootstrapDefaultTenant, EnsureTenant, EnsureUsersInDefaultTenantBatch, EnsureTenantUsers,
      EnsureUserRoleAssignments
<1>3. ASSUME NEW c \in Custom, NEW manager \in BOOLEAN, CreateRole(c, manager)
      PROVE  TenantTypeOK'
  BY <1>3 DEF CreateRole, CreateTenantCustomRole, ReplaceRolePermissionsTx
<1>4. ASSUME NEW c \in Custom, DisableTenantCustomRole(c) \/ ReplaceRolePermissions(c)
      PROVE  TenantTypeOK'
  BY <1>4 DEF DisableTenantCustomRole, ReplaceRolePermissions, ReplaceRolePermissionsTx
<1>5. ASSUME NEW h \in Handlers, NEW u \in Users, NEW r \in Capabilities, Register(h, u, r)
      PROVE  TenantTypeOK'
  <2>1. One("join", u, {r}) \in Request
    BY OneTyped
  <2>2. Begins(h, One("join", u, {r}))
    BY <1>5 DEF Register, EnsureUserInDefaultTenant
  <2> QED BY <1>5, <2>1, <2>2, BeginsTyped
      DEF Register, EnsureUserInDefaultTenant, EnsureTenant, Create
<1>5a. ASSUME NEW h \in Handlers, NEW u \in Users, CreateAdmin(h, u)
      PROVE  TenantTypeOK'
  <2>1. One("join", u, {Admin}) \in Request
    BY OneTyped
  <2>2. Begins(h, One("join", u, {Admin}))
    BY <1>5a DEF CreateAdmin, EnsureUserInDefaultTenant
  <2> QED BY <1>5a, <2>1, <2>2, BeginsTyped
      DEF CreateAdmin, EnsureUserInDefaultTenant, EnsureTenant, Create
<1>6. ASSUME NEW h \in Handlers, NEW u \in Users, CreatePlatformAdmin(h, u)
      PROVE  TenantTypeOK'
  <2>1. One("platform", u, {}) \in Request
    BY OneTyped
  <2> QED BY <1>6, <2>1, BeginsTyped DEF CreatePlatformAdmin, FindOrCreateUser
<1>7. ASSUME NEW h \in Handlers, NEW u \in Users, EnsurePlatformAdmin(h, u)
      PROVE  TenantTypeOK'
  BY <1>7, EndsTyped DEF EnsurePlatformAdmin
<1>8. ASSUME NEW h \in Handlers, NEW u \in Users, PlatformAddTenantUser(h, u)
      PROVE  TenantTypeOK'
  <2>1. One("join", u, {}) \in Request
    BY OneTyped
  <2> QED BY <1>8, <2>1, BeginsTyped DEF PlatformAddTenantUser, tables
<1>8a. ASSUME NEW h \in Handlers, NEW u \in Users, NEW roles \in RoleLists,
              AddTenantUser(h, u, roles)
      PROVE  TenantTypeOK'
  <2>1. One("join", u, roles) \in Request
    BY OneTyped
  <2> QED BY <1>8a, <2>1, BeginsTyped DEF AddTenantUser, tables
<1>9. ASSUME NEW h \in Handlers, NEW u \in Users, NEW roles \in RoleLists, NEW r \in Capabilities, CreateTenantMember(h, u, roles, r)
      PROVE  TenantTypeOK'
  <2>1. One("join", u, roles) \in Request
    BY OneTyped
  <2> QED BY <1>9, <2>1, BeginsTyped DEF CreateTenantMember, FindOrCreateUser
<1>10. ASSUME NEW h \in Handlers, NEW u \in Users, NEW r \in Capabilities, CreateTenantAdminAccount(h, u, r)
      PROVE  TenantTypeOK'
  <2>1. One("join", u, {Admin}) \in Request
    BY OneTyped
  <2> QED BY <1>10, <2>1, BeginsTyped DEF CreateTenantAdminAccount, FindOrCreateUser
<1>11. ASSUME NEW h \in Handlers, NEW u \in Users, AssignTenantAdmin(h, u)
      PROVE  TenantTypeOK'
  <2>1. One("grant", u, {Admin}) \in Request
    BY OneTyped
  <2> QED BY <1>11, <2>1, BeginsTyped DEF AssignTenantAdmin, tables
<1>12. ASSUME NEW h \in Handlers, NEW u \in Users, EnsureTenantUser(h, u)
      PROVE  TenantTypeOK'
  <2>1. req[h].want[u] \in SUBSET Roles
    BY DEF Request
  <2>2. One("grant", u, req[h].want[u]) \in Request
    BY <2>1, OneTyped
  <2>3. req' \in [Handlers -> Request]
    BY <1>12, <2>2, IdleTyped DEF EnsureTenantUser
  <2> QED BY <1>12, <2>3 DEF EnsureTenantUser
<1>13. ASSUME NEW h \in Handlers, NEW u \in Users, NEW r \in Roles, EnsureUserRole(h, u, r)
      PROVE  TenantTypeOK'
  <2>1. req[h].want[u] \ {r} \in SUBSET Roles
    BY DEF Request
  <2>2. One("grant", u, req[h].want[u] \ {r}) \in Request
    BY <2>1, OneTyped
  <2>3. req' \in [Handlers -> Request]
    BY <1>13, <2>2, IdleTyped DEF EnsureUserRole
  <2>4. grant' \in [Users -> [Roles -> {"none", "active", "revoked"}]]
    BY <1>13 DEF EnsureUserRole
  <2> QED BY <1>13, <2>3, <2>4 DEF EnsureUserRole
<1>14. ASSUME NEW h \in Handlers, NEW u \in Users,
              PlatformRemoveTenantUser(h, u) \/ TenantRemoveTenantUser(h, u) \/ RemoveTenantAdmin(h, u)
      PROVE  TenantTypeOK'
  <2>1. Admins \subseteq Users
    BY DEF Admins, HasAdminGrant
  <2> DEFINE r(pc, admins) == [Idle EXCEPT !.pc = pc, !.off = {u}, !.admins = admins]
  <2>2. /\ [Idle EXCEPT !.pc = "disable", !.off = {u}] \in Request
        /\ r("disable", Admins) \in Request /\ r("disable", {}) \in Request
        /\ r("revoke", Admins) \in Request
    BY <2>1 DEF Idle, Request
  <2>3. \/ BeginsRemoval(h, [Idle EXCEPT !.pc = "disable", !.off = {u}])
        \/ BeginsRemoval(h, r("disable", Admins)) \/ BeginsRemoval(h, r("disable", {}))
        \/ BeginsRemoval(h, r("revoke", Admins))
    BY <1>14 DEF PlatformRemoveTenantUser, TenantRemoveTenantUser, RemoveTenantAdmin
  <2>4. tables' = tables
    BY <1>14 DEF PlatformRemoveTenantUser, TenantRemoveTenantUser, RemoveTenantAdmin
  <2>5. req' \in [Handlers -> Request] /\ requests' \in 0..MaxRequests /\ guarded' \in BOOLEAN
    BY <2>2, <2>3, BeginsTyped DEF BeginsRemoval
  <2> QED BY <2>4, <2>5 DEF tables
<1>15. ASSUME NEW h \in Handlers, NEW u \in Users, RemoveTenantUser(h, u)
      PROVE  TenantTypeOK'
  <2>1. guarded' \in BOOLEAN
    BY <1>15 DEF RemoveTenantUser
  <2> QED BY <1>15, <2>1, EndsTyped DEF RemoveTenantUser
<1>16. ASSUME NEW h \in Handlers, NEW u \in Users, RemoveUserRole(h, u)
      PROVE  TenantTypeOK'
  <2>1. grant' \in [Users -> [Roles -> {"none", "active", "revoked"}]]
    BY <1>16 DEF RemoveUserRole
  <2> QED BY <1>16, <2>1, EndsTyped DEF RemoveUserRole
<1>17. ASSUME NEW h \in Handlers, NEW u \in Users, NEW roles \in RoleLists, ReplaceMemberRoles(h, u, roles)
      PROVE  TenantTypeOK'
  <2>1. Admins \subseteq Users /\ One("replace", u, roles) \in Request
    BY OneTyped DEF Admins, HasAdminGrant
  <2>2. [One("replace", u, roles) EXCEPT !.admins = Admins] \in Request
    BY <2>1 DEF Request
  <2> QED BY <1>17, <2>2, BeginsTyped DEF ReplaceMemberRoles, BeginsRemoval, tables
<1>18. ASSUME NEW h \in Handlers, NEW u \in Users, ReplaceMemberRolesTx(h, u)
      PROVE  TenantTypeOK'
  <2>1. Replaced(u, req[h].want[u]) \in [Roles -> {"none", "active", "revoked"}]
    BY DEF Replaced
  <2>2. grant' \in [Users -> [Roles -> {"none", "active", "revoked"}]]
    BY <1>18, <2>1 DEF ReplaceMemberRolesTx
  <2> QED BY <1>18, <2>2, EndsTyped DEF ReplaceMemberRolesTx
<1>19. ASSUME NEW h \in Handlers, NEW on \in SUBSET Users, NEW off \in SUBSET Users,
             NEW want \in [Users -> RoleLists], ImportUsers(h, on, off, want)
      PROVE  TenantTypeOK'
  <2> DEFINE r == [Idle EXCEPT !.pc = "import", !.on = on, !.off = off,
                     !.want = [u \in Users |-> IF u \in on THEN want[u] ELSE {}],
                     !.admins = HasAdminGrant]
  <2>1. [u \in Users |-> IF u \in on THEN want[u] ELSE {}] \in [Users -> SUBSET Roles]
    OBVIOUS
  <2>2. HasAdminGrant \subseteq Users
    BY DEF HasAdminGrant
  <2>3. r \in Request
    BY <2>1, <2>2 DEF Idle, Request
  <2> QED BY <1>19, <2>3, BeginsTyped DEF ImportUsers, BeginsRemoval, tables
<1>20. ASSUME NEW h \in Handlers, NEW r \in Capabilities, ImportUsersTx(h, r)
      PROVE  TenantTypeOK'
  <2>1. \A u \in Users : Replaced(u, req[h].want[u]) \in [Roles -> {"none", "active", "revoked"}]
    BY DEF Replaced
  <2>2. grant' \in [Users -> [Roles -> {"none", "active", "revoked"}]]
    BY <1>20, <2>1 DEF ImportUsersTx
  <2>3. guarded' \in BOOLEAN
    BY <1>20 DEF ImportUsersTx
  <2>4. /\ legacy' \in [Users -> {"absent"} \cup Builtin]
        /\ member' \in [Users -> {"none", "active", "disabled"}]
    BY <1>20 DEF ImportUsersTx
  <2> QED BY <1>20, <2>2, <2>3, <2>4, EndsTyped DEF ImportUsersTx
<1>21. ASSUME NEW h \in Handlers, RequestFails(h)
      PROVE  TenantTypeOK'
  BY <1>21, EndsTyped DEF RequestFails, tables
<1>22. CASE UNCHANGED vars
  BY <1>22 DEF vars, tables
<1> HIDE DEF TenantTypeOK
<1> QED
  BY <1>1, <1>2, <1>3, <1>4, <1>5, <1>5a, <1>6, <1>7, <1>8, <1>8a, <1>9, <1>10, <1>11, <1>12, <1>13, <1>14, <1>15, <1>16, <1>17, <1>18, <1>19, <1>20, <1>21, <1>22
  DEF Next

-----------------------------------------------------------------------------
(* Every step lets rows only grow, and requests rest on what they have     *)
(* read.                                                                   *)
LEMMA TenantFactsStep == TenantInv /\ [Next]_vars => Grows /\ RequestsRest'
<1> SUFFICES ASSUME TenantInv, [Next]_vars PROVE Grows /\ RequestsRest'
  OBVIOUS
<1>0. /\ TenantTypeOK /\ GrantRestsOnMember /\ \A h \in Handlers : RequestRests(h)
      /\ legacy \in [Users -> {"absent"} \cup Builtin]
      /\ member \in [Users -> {"none", "active", "disabled"}]
      /\ grant \in [Users -> [Roles -> {"none", "active", "revoked"}]]
      /\ role \in [Custom -> {"absent", "active", "disabled"}]
      /\ \A h \in Handlers : req[h] \in Request
  BY DEF TenantInv, RequestsRest, TenantTypeOK
<1> USE RolesTyped, TenantAssumption
<1>1. ASSUME NEW status \in {"enabled", "disabled"}, CreateTenant(status) \/ SetTenantStatus(status)
      PROVE  Grows /\ RequestsRest'
  <2>1. Grows /\ req' = req
    BY <1>0, <1>1 DEF CreateTenant, SetTenantStatus, Grows
  <2> QED BY <2>1, RestsAlone
<1>2. ASSUME BootstrapDefaultTenant
      PROVE  Grows /\ RequestsRest'
  <2>1. \A u \in Users : member'[u] = IF u \in Accounts \ platform /\ member[u] = "none"
                                    THEN "active" ELSE member[u]
    BY <1>2 DEF BootstrapDefaultTenant, EnsureUsersInDefaultTenantBatch, EnsureTenantUsers
  <2>2. \A u \in Users : \A r \in Roles : grant'[u][r] # "none" =>
                          grant[u][r] # "none" \/ u \in Accounts \ platform
    BY <1>2 DEF BootstrapDefaultTenant, EnsureUsersInDefaultTenantBatch, EnsureUserRoleAssignments
  <2>3. Grows /\ req' = req
    BY <1>2, <2>1, <2>2 DEF BootstrapDefaultTenant, Accounts, Grows
  <2> QED BY <2>3, RestsAlone
<1>3. ASSUME NEW c \in Custom, NEW manager \in BOOLEAN, CreateRole(c, manager)
      PROVE  Grows /\ RequestsRest'
  <2>1. c \notin LockedRoles
    <3> SUFFICES ASSUME NEW h \in Handlers, NEW u \in Users, req[h].pc = "replace",
                        c \in req[h].want[u]
                 PROVE  FALSE
      BY DEF LockedRoles
    <3> QED BY <1>0, <1>3 DEF RequestRests, CreateRole, CreateTenantCustomRole
  <2>2. Grows /\ req' = req
    BY <1>0, <1>3, <2>1 DEF CreateRole, CreateTenantCustomRole, Grows
  <2> QED BY <2>2, RestsAlone
<1>4. ASSUME NEW c \in Custom, DisableTenantCustomRole(c) \/ ReplaceRolePermissions(c)
      PROVE  Grows /\ RequestsRest'
  <2>1. Grows /\ req' = req
    BY <1>0, <1>4 DEF DisableTenantCustomRole, ReplaceRolePermissions, Grows
  <2> QED BY <2>1, RestsAlone
<1>5. ASSUME NEW h \in Handlers, NEW u \in Users, NEW r \in Capabilities, Register(h, u, r)
      PROVE  Grows /\ RequestsRest'
  <2>1. Begins(h, One("join", u, {r})) /\ {r} \in SUBSET Roles
    BY <1>5 DEF Register, EnsureUserInDefaultTenant, BeginsRemoval
  <2>2. Grows
    BY <1>0, <1>5 DEF Register, EnsureUserInDefaultTenant, Create, FindOrCreateUser, tables, Grows
  <2>3. /\ req'[h].pc = "join" /\ req'[h].on = {u} /\ \A g \in Handlers \ {h} : req'[g] = req[g]
        /\ \A v \in Users : req'[h].want[v] = IF v = u THEN {r} ELSE {}
    BY <1>0, <2>1, OneTyped, BeginsTyped
  <2>4. legacy'[u] # "absent" /\ {r} \in SUBSET Builtin
    BY <1>0, <1>5 DEF Register, EnsureUserInDefaultTenant, Create, FindOrCreateUser, Accounts, tables
  <2>5. RequestRests(h)'
    BY <2>3, <2>4, JoinRests
  <2> QED BY <2>2, <2>3, <2>5, RestsStep
<1>6. ASSUME NEW h \in Handlers, NEW u \in Users, CreateAdmin(h, u)
      PROVE  Grows /\ RequestsRest'
  <2>1. Begins(h, One("join", u, {Admin})) /\ {Admin} \in SUBSET Roles
    BY <1>6 DEF CreateAdmin, EnsureUserInDefaultTenant, BeginsRemoval
  <2>2. Grows
    BY <1>0, <1>6 DEF CreateAdmin, EnsureUserInDefaultTenant, Create, FindOrCreateUser, tables, Grows
  <2>3. /\ req'[h].pc = "join" /\ req'[h].on = {u} /\ \A g \in Handlers \ {h} : req'[g] = req[g]
        /\ \A v \in Users : req'[h].want[v] = IF v = u THEN {Admin} ELSE {}
    BY <1>0, <2>1, OneTyped, BeginsTyped
  <2>4. legacy'[u] # "absent" /\ {Admin} \in SUBSET Builtin
    BY <1>0, <1>6 DEF CreateAdmin, EnsureUserInDefaultTenant, Create, Accounts, Admin
  <2>5. RequestRests(h)'
    BY <2>3, <2>4, JoinRests
  <2> QED BY <2>2, <2>3, <2>5, RestsStep
<1>7. ASSUME NEW h \in Handlers, NEW u \in Users, CreatePlatformAdmin(h, u)
      PROVE  Grows /\ RequestsRest'
  <2>1. Begins(h, One("platform", u, {})) /\ TRUE
    BY <1>7 DEF CreatePlatformAdmin, BeginsRemoval
  <2>2. Grows
    BY <1>0, <1>7 DEF CreatePlatformAdmin, Create, FindOrCreateUser, tables, Grows
  <2>3. /\ req'[h].pc = "platform" /\ req'[h].on = {u} /\ \A g \in Handlers \ {h} : req'[g] = req[g]
        /\ \A v \in Users : req'[h].want[v] = IF v = u THEN {} ELSE {}
    BY <1>0, <2>1, OneTyped, BeginsTyped
  <2>4. legacy'[u] # "absent" /\ {} \in SUBSET Builtin
    BY <1>0, <1>7 DEF CreatePlatformAdmin, FindOrCreateUser, Accounts, Admin
  <2>5. RequestRests(h)'
    BY <2>3, <2>4, JoinRests
  <2> QED BY <2>2, <2>3, <2>5, RestsStep
<1>8. ASSUME NEW h \in Handlers, NEW u \in Users, PlatformAddTenantUser(h, u)
      PROVE  Grows /\ RequestsRest'
  <2>1. Begins(h, One("join", u, {})) /\ TRUE
    BY <1>8 DEF PlatformAddTenantUser, BeginsRemoval
  <2>2. Grows
    BY <1>0, <1>8 DEF PlatformAddTenantUser, Create, FindOrCreateUser, tables, Grows
  <2>3. /\ req'[h].pc = "join" /\ req'[h].on = {u} /\ \A g \in Handlers \ {h} : req'[g] = req[g]
        /\ \A v \in Users : req'[h].want[v] = IF v = u THEN {} ELSE {}
    BY <1>0, <2>1, OneTyped, BeginsTyped
  <2>4. legacy'[u] # "absent" /\ {} \in SUBSET Builtin
    BY <1>0, <1>8 DEF PlatformAddTenantUser, Create, FindOrCreateUser, Accounts, tables
  <2>5. RequestRests(h)'
    BY <2>3, <2>4, JoinRests
  <2> QED BY <2>2, <2>3, <2>5, RestsStep
<1>9. ASSUME NEW h \in Handlers, NEW u \in Users, NEW roles \in RoleLists, AddTenantUser(h, u, roles)
      PROVE  Grows /\ RequestsRest'
  <2>1. Begins(h, One("join", u, roles)) /\ roles \in SUBSET Roles
    BY <1>9 DEF AddTenantUser, BeginsRemoval
  <2>2. Grows
    BY <1>0, <1>9 DEF AddTenantUser, Create, FindOrCreateUser, tables, Grows
  <2>3. /\ req'[h].pc = "join" /\ req'[h].on = {u} /\ \A g \in Handlers \ {h} : req'[g] = req[g]
        /\ \A v \in Users : req'[h].want[v] = IF v = u THEN roles ELSE {}
    BY <1>0, <2>1, OneTyped, BeginsTyped
  <2>4. legacy'[u] # "absent" /\ roles \in SUBSET Builtin
    BY <1>0, <1>9 DEF AddTenantUser, Create, FindOrCreateUser, Accounts, tables
  <2>5. RequestRests(h)'
    BY <2>3, <2>4, JoinRests
  <2> QED BY <2>2, <2>3, <2>5, RestsStep
<1>10. ASSUME NEW h \in Handlers, NEW u \in Users, NEW roles \in RoleLists, NEW r \in Capabilities, CreateTenantMember(h, u, roles, r)
      PROVE  Grows /\ RequestsRest'
  <2>1. Begins(h, One("join", u, roles)) /\ roles \in SUBSET Roles
    BY <1>10 DEF CreateTenantMember, BeginsRemoval
  <2>2. Grows
    BY <1>0, <1>10 DEF CreateTenantMember, Create, FindOrCreateUser, tables, Grows
  <2>3. /\ req'[h].pc = "join" /\ req'[h].on = {u} /\ \A g \in Handlers \ {h} : req'[g] = req[g]
        /\ \A v \in Users : req'[h].want[v] = IF v = u THEN roles ELSE {}
    BY <1>0, <2>1, OneTyped, BeginsTyped
  <2>4. legacy'[u] # "absent" /\ roles \in SUBSET Builtin
    BY <1>0, <1>10 DEF CreateTenantMember, Create, FindOrCreateUser, Accounts, tables, ValidMemberRoles
  <2>5. RequestRests(h)'
    BY <2>3, <2>4, JoinRests
  <2> QED BY <2>2, <2>3, <2>5, RestsStep
<1>11. ASSUME NEW h \in Handlers, NEW u \in Users, NEW r \in Capabilities, CreateTenantAdminAccount(h, u, r)
      PROVE  Grows /\ RequestsRest'
  <2>1. Begins(h, One("join", u, {Admin})) /\ {Admin} \in SUBSET Roles
    BY <1>11 DEF CreateTenantAdminAccount, BeginsRemoval
  <2>2. Grows
    BY <1>0, <1>11 DEF CreateTenantAdminAccount, Create, FindOrCreateUser, tables, Grows
  <2>3. /\ req'[h].pc = "join" /\ req'[h].on = {u} /\ \A g \in Handlers \ {h} : req'[g] = req[g]
        /\ \A v \in Users : req'[h].want[v] = IF v = u THEN {Admin} ELSE {}
    BY <1>0, <2>1, OneTyped, BeginsTyped
  <2>4. legacy'[u] # "absent" /\ {Admin} \in SUBSET Builtin
    BY <1>0, <1>11 DEF CreateTenantAdminAccount, Create, FindOrCreateUser, Accounts, tables
  <2>5. RequestRests(h)'
    BY <2>3, <2>4, JoinRests
  <2> QED BY <2>2, <2>3, <2>5, RestsStep
<1>12. ASSUME NEW h \in Handlers, NEW u \in Users, AssignTenantAdmin(h, u)
      PROVE  Grows /\ RequestsRest'
  <2>1. Begins(h, One("grant", u, {Admin})) /\ {Admin} \in SUBSET Roles
    BY <1>12 DEF AssignTenantAdmin, EnsureTenantMember, BeginsRemoval
  <2>2. Grows
    BY <1>0, <1>12 DEF AssignTenantAdmin, EnsureTenantMember, Create, FindOrCreateUser, tables, Grows
  <2>3. /\ req'[h].pc = "grant" /\ req'[h].on = {u} /\ \A g \in Handlers \ {h} : req'[g] = req[g]
        /\ \A v \in Users : req'[h].want[v] = IF v = u THEN {Admin} ELSE {}
    BY <1>0, <2>1, OneTyped, BeginsTyped
  <2>4. RequestRests(h)'
    BY <1>0, <1>12, <2>3
    DEF AssignTenantAdmin, EnsureTenantMember, Create, FindOrCreateUser, RequestRests, Accounts, tables
  <2> QED BY <2>2, <2>3, <2>4, RestsStep
<1>13. ASSUME NEW h \in Handlers, NEW u \in Users, NEW roles \in RoleLists, ReplaceMemberRoles(h, u, roles)
      PROVE  Grows /\ RequestsRest'
  <2> DEFINE r == [One("replace", u, roles) EXCEPT !.admins = Admins]
  <2>1. Admins \subseteq Users /\ One("replace", u, roles) \in Request
    BY OneTyped DEF Admins, HasAdminGrant
  <2>2. r \in Request /\ r.pc = "replace" /\ r.on = {u}
        /\ \A v \in Users : r.want[v] = IF v = u THEN roles ELSE {}
    BY <2>1, OneTyped DEF Request
  <2>3. Grows /\ Begins(h, r)
    BY <1>0, <1>13 DEF ReplaceMemberRoles, BeginsRemoval, tables, Grows
  <2>4. req'[h] = r /\ \A g \in Handlers \ {h} : req'[g] = req[g]
    BY <1>0, <2>2, <2>3, BeginsTyped
  <2>5. RequestRests(h)'
    BY <1>0, <1>13, <2>2, <2>4 DEF ReplaceMemberRoles, Assignable, tables, RequestRests
  <2> QED BY <2>3, <2>4, <2>5, RestsStep
<1>14. ASSUME NEW h \in Handlers, NEW u \in Users, EnsurePlatformAdmin(h, u)
      PROVE  Grows /\ RequestsRest'
  <2>1. Grows
    BY <1>0, <1>14 DEF EnsurePlatformAdmin, Grows
  <2>2. req'[h] = Idle /\ \A g \in Handlers \ {h} : req'[g] = req[g]
    BY <1>0, <1>14, EndsTyped DEF EnsurePlatformAdmin
  <2> QED BY <2>1, <2>2, IdleRests, RestsStep
<1>15. ASSUME NEW h \in Handlers, NEW u \in Users, RemoveTenantUser(h, u)
      PROVE  Grows /\ RequestsRest'
  <2>1. Grows
    BY <1>0, <1>15 DEF RemoveTenantUser, Grows
  <2>2. req'[h] = Idle /\ \A g \in Handlers \ {h} : req'[g] = req[g]
    BY <1>0, <1>15, EndsTyped DEF RemoveTenantUser
  <2> QED BY <2>1, <2>2, IdleRests, RestsStep
<1>16. ASSUME NEW h \in Handlers, NEW u \in Users, RemoveUserRole(h, u)
      PROVE  Grows /\ RequestsRest'
  <2>1. Grows
    BY <1>0, <1>16 DEF RemoveUserRole, Grows
  <2>2. req'[h] = Idle /\ \A g \in Handlers \ {h} : req'[g] = req[g]
    BY <1>0, <1>16, EndsTyped DEF RemoveUserRole
  <2> QED BY <2>1, <2>2, IdleRests, RestsStep
<1>17. ASSUME NEW h \in Handlers, NEW u \in Users, ReplaceMemberRolesTx(h, u)
      PROVE  Grows /\ RequestsRest'
  <2>1. grant' = [grant EXCEPT ![u] = Replaced(u, req[h].want[u])] /\ member[u] # "none"
    BY <1>0, <1>17 DEF ReplaceMemberRolesTx, RequestRests
  <2>2. Grows
    BY <1>0, <1>17, <2>1 DEF ReplaceMemberRolesTx, Grows
  <2>3. req'[h] = Idle /\ \A g \in Handlers \ {h} : req'[g] = req[g]
    BY <1>0, <1>17, EndsTyped DEF ReplaceMemberRolesTx
  <2> QED BY <2>2, <2>3, IdleRests, RestsStep
<1>18. ASSUME NEW h \in Handlers, NEW r \in Capabilities, ImportUsersTx(h, r)
      PROVE  Grows /\ RequestsRest'
  <2>1. r # "absent"
    BY TenantAssumption
  <2>2. Grows
    BY <1>0, <1>18, <2>1 DEF ImportUsersTx, Grows
  <2>3. req'[h] = Idle /\ \A g \in Handlers \ {h} : req'[g] = req[g]
    BY <1>0, <1>18, EndsTyped DEF ImportUsersTx
  <2> QED BY <2>2, <2>3, IdleRests, RestsStep
<1>19. ASSUME NEW h \in Handlers, RequestFails(h)
      PROVE  Grows /\ RequestsRest'
  <2>1. Grows
    BY <1>0, <1>19 DEF RequestFails, tables, Grows
  <2>2. req'[h] = Idle /\ \A g \in Handlers \ {h} : req'[g] = req[g]
    BY <1>0, <1>19, EndsTyped DEF RequestFails
  <2> QED BY <2>1, <2>2, IdleRests, RestsStep
<1>20. ASSUME NEW h \in Handlers, NEW u \in Users, EnsureTenantUser(h, u)
      PROVE  Grows /\ RequestsRest'
  <2>1. u \in Accounts /\ req[h].want[u] \subseteq Builtin /\ req[h].want[u] \in SUBSET Roles
    BY <1>0, <1>20 DEF EnsureTenantUser, RequestRests, Request
  <2>2. Grows
    BY <1>0, <1>20, <2>1 DEF EnsureTenantUser, Accounts, Grows
  <2>3. \A g \in Handlers \ {h} : req'[g] = req[g]
    BY <1>0, <1>20 DEF EnsureTenantUser, TenantTypeOK
  <2>4. RequestRests(h)'
    <3>1. CASE req[h].want[u] = {}
      BY <1>0, <1>20, <3>1, IdleRests DEF EnsureTenantUser, TenantTypeOK
    <3>2. CASE req[h].want[u] # {}
      <4>1. req'[h] = One("grant", u, req[h].want[u]) /\ member'[u] = "active"
        BY <1>0, <1>20, <3>2 DEF EnsureTenantUser, TenantTypeOK
      <4> QED BY <2>1, <4>1, OneTyped DEF RequestRests
    <3> QED BY <3>1, <3>2
  <2> QED BY <2>2, <2>3, <2>4, RestsStep
<1>21. ASSUME NEW h \in Handlers, NEW u \in Users, NEW r \in Roles, EnsureUserRole(h, u, r)
      PROVE  Grows /\ RequestsRest'
  <2>1. /\ member[u] # "none" /\ req[h].want[u] \ {r} \subseteq Builtin
        /\ req[h].want[u] \ {r} \in SUBSET Roles
    BY <1>0, <1>21 DEF EnsureUserRole, RequestRests, Request
  <2>2. Grows
    BY <1>0, <1>21, <2>1 DEF EnsureUserRole, Grows
  <2>3. \A g \in Handlers \ {h} : req'[g] = req[g]
    BY <1>0, <1>21 DEF EnsureUserRole, TenantTypeOK
  <2>4. RequestRests(h)'
    <3>1. CASE req[h].want[u] = {r}
      BY <1>0, <1>21, <3>1, IdleRests DEF EnsureUserRole, TenantTypeOK
    <3>2. CASE req[h].want[u] # {r}
      <4>1. req'[h] = One("grant", u, req[h].want[u] \ {r}) /\ member' = member
        BY <1>0, <1>21, <3>2 DEF EnsureUserRole, TenantTypeOK
      <4> QED BY <2>1, <4>1, OneTyped DEF RequestRests
    <3> QED BY <3>1, <3>2
  <2> QED BY <2>2, <2>3, <2>4, RestsStep
<1>22. ASSUME NEW h \in Handlers, NEW u \in Users, PlatformRemoveTenantUser(h, u) \/ TenantRemoveTenantUser(h, u) \/ RemoveTenantAdmin(h, u)
      PROVE  Grows /\ RequestsRest'
  <2> DEFINE r(pc, admins) == [Idle EXCEPT !.pc = pc, !.off = {u}, !.admins = admins]
  <2>1. \/ Begins(h, [Idle EXCEPT !.pc = "disable", !.off = {u}])
        \/ Begins(h, r("disable", Admins)) \/ Begins(h, r("disable", {}))
        \/ Begins(h, r("revoke", Admins))
    BY <1>22 DEF PlatformRemoveTenantUser, TenantRemoveTenantUser, RemoveTenantAdmin, BeginsRemoval
  <2>2. req'[h].pc \in {"disable", "revoke"} /\ \A g \in Handlers \ {h} : req'[g] = req[g]
    <3>1. \A q : Begins(h, q) => req'[h] = q /\ \A g \in Handlers \ {h} : req'[g] = req[g]
      BY <1>0 DEF Begins, TenantTypeOK
    <3>2. /\ [Idle EXCEPT !.pc = "disable", !.off = {u}].pc = "disable"
          /\ r("disable", Admins).pc = "disable" /\ r("disable", {}).pc = "disable"
          /\ r("revoke", Admins).pc = "revoke"
      BY DEF Idle
    <3> QED BY <2>1, <3>1, <3>2
  <2>3. Grows
    BY <1>22 DEF PlatformRemoveTenantUser, TenantRemoveTenantUser, RemoveTenantAdmin, tables, Grows
  <2>4. RequestRests(h)'
    BY <2>2 DEF RequestRests
  <2> QED BY <2>2, <2>3, <2>4, RestsStep
<1>23. ASSUME NEW h \in Handlers, NEW on \in SUBSET Users, NEW off \in SUBSET Users,
             NEW want \in [Users -> RoleLists], ImportUsers(h, on, off, want)
      PROVE  Grows /\ RequestsRest'
  <2>1. req'[h].pc = "import" /\ \A g \in Handlers \ {h} : req'[g] = req[g]
    BY <1>0, <1>23 DEF ImportUsers, BeginsRemoval, Begins, Idle, TenantTypeOK
  <2>2. Grows
    BY <1>23 DEF ImportUsers, tables, Grows
  <2>3. RequestRests(h)'
    BY <2>1 DEF RequestRests
  <2> QED BY <2>1, <2>2, <2>3, RestsStep
<1>24. CASE UNCHANGED vars
  <2>1. Grows /\ req' = req
    BY <1>24 DEF vars, tables, Grows
  <2> QED BY <2>1, RestsAlone
<1> QED
  BY <1>1, <1>2, <1>3, <1>4, <1>5, <1>6, <1>7, <1>8, <1>9, <1>10, <1>11, <1>12, <1>13, <1>14, <1>15, <1>16, <1>17, <1>18, <1>19, <1>20, <1>21, <1>22, <1>23, <1>24
  DEF Next

(* What the theorems rest on. *)
THEOREM TenantInvariant == Spec => []TenantInv
<1>1. TenantInv /\ [Next]_vars => TenantInv'
  BY TenantTypeStep, TenantFactsStep, GrantsStep DEF TenantInv
<1> QED BY TenantInitial, <1>1, PTL DEF Spec

(* The rows are well formed; no role stands without a membership and no    *)
(* membership without an account, wherever a request stops between its     *)
(* statements (TenantTablesOK).                                            *)
THEOREM TenantTablesStayOK == Spec => []TenantTablesOK
<1>1. TenantInv => TenantTablesOK
  BY DEF TenantInv, TenantTablesOK
<1> QED BY <1>1, TenantInvariant, PTL

-----------------------------------------------------------------------------
(* A custom role is only given while it is active: the requests that grant *)
(* one statement at a time name built-in roles, a replacement holds the    *)
(* locks of its roles.                                                     *)
OnlyActive ==
    \A u \in Users, c \in Custom :
        grant[u][c] # "active" /\ grant'[u][c] = "active" =>
            role[c] = "active" \/ \E h \in Handlers : req[h].pc = "import" /\ req'[h] = Idle

(* No step gives a user a custom role that is not active at that moment,   *)
(* but for the import, which inserts what it read                          *)
(* (OnlyActiveRolesGranted).                                               *)
THEOREM ActiveRolesOnly == Spec => OnlyActiveRolesGranted
<1>1. TenantInv /\ [Next]_vars => [OnlyActive]_vars
  <2> SUFFICES ASSUME TenantInv, [Next]_vars, NEW u \in Users, NEW c \in Custom,
                      grant[u][c] # "active", grant'[u][c] = "active"
               PROVE  role[c] = "active" \/ \E h \in Handlers : req[h].pc = "import" /\ req'[h] = Idle
    BY DEF OnlyActive
  <2>0. /\ grant \in [Users -> [Roles -> {"none", "active", "revoked"}]]
        /\ legacy \in [Users -> {"absent"} \cup Builtin]
        /\ \A h \in Handlers : RequestRests(h) /\ req[h] \in Request
        /\ c \in Roles /\ c \notin Builtin /\ TenantTypeOK
    BY RolesTyped DEF TenantInv, TenantTypeOK, RequestsRest
  <2>1. ~ UNCHANGED grant
    OBVIOUS
  <2>2. ~ BootstrapDefaultTenant
    <3> SUFFICES ASSUME BootstrapDefaultTenant PROVE FALSE
      OBVIOUS
    <3>1. grant'[u][c] = IF u \in Accounts \ platform /\ c = legacy[u] /\ ~HasRole(u, c)
                         THEN "active" ELSE grant[u][c]
      BY <2>0 DEF BootstrapDefaultTenant, EnsureUsersInDefaultTenantBatch, EnsureUserRoleAssignments
    <3>2. u \in Accounts => legacy[u] \in Builtin
      BY <2>0 DEF Accounts
    <3> QED BY <2>0, <3>1, <3>2
  <2>3. ASSUME NEW h \in Handlers, NEW v \in Users, NEW r \in Roles, EnsureUserRole(h, v, r)
        PROVE  FALSE
    <3>1. r \in Builtin
      BY <2>0, <2>3 DEF EnsureUserRole, RequestRests
    <3> QED BY <2>0, <2>3, <3>1 DEF EnsureUserRole
  <2>4. ASSUME NEW h \in Handlers, NEW v \in Users, RemoveUserRole(h, v)
        PROVE  FALSE
    BY <2>0, <2>4 DEF RemoveUserRole, Admin
  <2>5. ASSUME NEW h \in Handlers, NEW v \in Users, ReplaceMemberRolesTx(h, v)
        PROVE  role[c] = "active"
    <3>1. u = v /\ grant'[u][c] = Replaced(v, req[h].want[v])[c]
      BY <2>0, <2>5 DEF ReplaceMemberRolesTx
    <3>2. c \in req[h].want[v]
      BY <2>0, <3>1 DEF Replaced
    <3> QED BY <2>0, <2>5, <3>2 DEF ReplaceMemberRolesTx, RequestRests
  <2>6. ASSUME NEW h \in Handlers, NEW r \in Capabilities, ImportUsersTx(h, r)
        PROVE  req[h].pc = "import" /\ req'[h] = Idle
    BY <2>0, <2>6, EndsTyped DEF ImportUsersTx
  <2>7. ASSUME NEW status \in {"enabled", "disabled"},
               CreateTenant(status) \/ SetTenantStatus(status)
        PROVE  UNCHANGED grant
    BY <2>7 DEF CreateTenant, SetTenantStatus, tables
  <2>8. ASSUME NEW d \in Custom, NEW manager \in BOOLEAN,
               CreateRole(d, manager) \/ DisableTenantCustomRole(d) \/ ReplaceRolePermissions(d)
        PROVE  UNCHANGED grant
    BY <2>8 DEF CreateRole, DisableTenantCustomRole, ReplaceRolePermissions, tables
  <2>9. ASSUME NEW h \in Handlers, NEW v \in Users, NEW r \in Capabilities,
               Register(h, v, r) \/ CreateTenantAdminAccount(h, v, r)
        PROVE  UNCHANGED grant
    BY <2>9 DEF Register, CreateTenantAdminAccount, tables
  <2>10. ASSUME NEW h \in Handlers, NEW v \in Users,
               \/ CreateAdmin(h, v) \/ CreatePlatformAdmin(h, v) \/ EnsurePlatformAdmin(h, v)
               \/ PlatformAddTenantUser(h, v) \/ AssignTenantAdmin(h, v) \/ EnsureTenantUser(h, v)
        PROVE  UNCHANGED grant
    BY <2>10 DEF CreateAdmin, CreatePlatformAdmin, EnsurePlatformAdmin, PlatformAddTenantUser,
                  AssignTenantAdmin, EnsureTenantUser, tables
  <2>11. ASSUME NEW h \in Handlers, NEW v \in Users,
               \/ PlatformRemoveTenantUser(h, v) \/ TenantRemoveTenantUser(h, v)
               \/ RemoveTenantUser(h, v) \/ RemoveTenantAdmin(h, v)
        PROVE  UNCHANGED grant
    BY <2>11 DEF PlatformRemoveTenantUser, TenantRemoveTenantUser, RemoveTenantUser,
                   RemoveTenantAdmin, tables
  <2>12. ASSUME NEW h \in Handlers, NEW v \in Users, NEW roles \in RoleLists,
               AddTenantUser(h, v, roles) \/ ReplaceMemberRoles(h, v, roles)
        PROVE  UNCHANGED grant
    BY <2>12 DEF AddTenantUser, ReplaceMemberRoles, tables
  <2>13. ASSUME NEW h \in Handlers, NEW v \in Users, NEW roles \in RoleLists, NEW r \in Capabilities,
               CreateTenantMember(h, v, roles, r)
        PROVE  UNCHANGED grant
    BY <2>13 DEF CreateTenantMember, tables
  <2>14. ASSUME NEW h \in Handlers, NEW on \in SUBSET Users, NEW off \in SUBSET Users,
                NEW want \in [Users -> RoleLists],
               ImportUsers(h, on, off, want)
        PROVE  UNCHANGED grant
    BY <2>14 DEF ImportUsers, tables
  <2>15. ASSUME NEW h \in Handlers,
               RequestFails(h)
        PROVE  UNCHANGED grant
    BY <2>15 DEF RequestFails, tables
  <2>16. CASE UNCHANGED vars
    BY <2>1, <2>16 DEF vars, tables
  <2> QED
    BY <2>1, <2>2, <2>3, <2>4, <2>5, <2>6, <2>7, <2>8, <2>9, <2>10, <2>11, <2>12, <2>13, <2>14,
       <2>15, <2>16
    DEF Next
<1>2. OnlyActiveRolesGranted <=> [][OnlyActive]_vars
  BY PTL DEF OnlyActiveRolesGranted, OnlyActive
<1> QED BY <1>1, <1>2, TenantInvariant, PTL DEF Spec

-----------------------------------------------------------------------------
(* The last administrator. While nothing unguarded has happened, at most   *)
(* one removal is at work, and what it counted is still true: those        *)
(* administrators are still administrators, and the one it removes was not *)
(* the only one. An import, guarded or not, leaves its only holder the     *)
(* role.                                                                   *)
OneRemoval ==
    guarded => \A g, h \in Handlers :
                  req[g].pc \in Removals /\ req[h].pc \in Removals => g = h

RemovalInOrder(r) ==
    /\ r.pc \in {"disable", "revoke", "replace"} => r.admins \subseteq Admins
    /\ r.pc = "revoke" \/ (r.pc = "disable" /\ r.admins # {}) =>
          \A u \in r.off : \E a \in r.admins : a # u
    /\ r.pc = "replace" => \A u \in r.on : member[u] = "active"

ImportProtects(r) ==
    r.pc = "import" => \A u \in r.on : r.admins = {u} => Admin \in r.want[u]

GuardedInv ==
    /\ OneRemoval
    /\ guarded => \A h \in Handlers : RemovalInOrder(req[h])
    /\ \A h \in Handlers : ImportProtects(req[h])

Kept == guarded' /\ Admins # {} => Admins' # {}

(* A step that takes no role and no membership from an administrator. *)
TakesNothing ==
    /\ guarded' = guarded
    /\ \A u \in Users : grant[u][Admin] = "active" => grant'[u][Admin] = "active"
    /\ \A u \in Users : member[u] = "active" => member'[u] = "active"

(* Then every administrator remains one.                                   *)
LEMMA TakenFromNone == TakesNothing => Admins \subseteq Admins'
BY DEF TakesNothing, Admins, HasAdminGrant

(* Such a step keeps the invariant and the last administrator.             *)
LEMMA TakesNothingKeeps ==
    ASSUME TenantTypeOK, GuardedInv, TakesNothing, req' = req
    PROVE  GuardedInv' /\ Kept
BY TakenFromNone
DEF TenantTypeOK, Request, GuardedInv, OneRemoval, RemovalInOrder, ImportProtects, Kept, TakesNothing

(* The same, when one request begins, goes on or ends. *)
LEMMA RequestTakesNothingKeeps ==
    ASSUME TenantTypeOK, GuardedInv, TakesNothing, NEW h \in Handlers,
           \A g \in Handlers \ {h} : req'[g] = req[g],
           req'[h].pc \notin Removals
    PROVE  GuardedInv' /\ Kept
<1>1. Kept
  BY TakenFromNone DEF Kept
<1>2. OneRemoval'
  BY DEF GuardedInv, OneRemoval, TakesNothing
<1>3. \A g \in Handlers : guarded' => RemovalInOrder(req[g])'
  <2> SUFFICES ASSUME NEW g \in Handlers, guarded' PROVE RemovalInOrder(req[g])'
    OBVIOUS
  <2>1. CASE g = h
    BY <2>1 DEF RemovalInOrder, Removals
  <2>2. CASE g # h
    BY <2>2, TakenFromNone DEF TenantTypeOK, Request, GuardedInv, RemovalInOrder, TakesNothing
  <2> QED BY <2>1, <2>2
<1>4. \A g \in Handlers : ImportProtects(req[g])'
  BY DEF GuardedInv, ImportProtects, Removals
<1> QED BY <1>1, <1>2, <1>3, <1>4 DEF GuardedInv

(* A removal that begins, and that was allowed to, writes nothing yet. *)
LEMMA RemovalBeginsKeeps ==
    ASSUME TenantTypeOK, GuardedInv, NEW h \in Handlers, NEW r \in Request,
           BeginsRemoval(h, r), UNCHANGED tables,
           RemovalInOrder(r), ImportProtects(r),
           r.pc = "replace" => \A g \in Handlers : req[g].pc # "replace"
    PROVE  GuardedInv' /\ Kept
<1>1. /\ req'[h] = r /\ \A g \in Handlers \ {h} : req'[g] = req[g]
      /\ guarded' => guarded /\ \A g \in Handlers \ {h} : req[g].pc \notin Removals
  BY BeginsTyped DEF BeginsRemoval, Clash
<1>2. Admins' = Admins /\ member' = member
  BY DEF tables, Admins, HasAdminGrant
<1>3. OneRemoval'
  BY <1>1 DEF OneRemoval
<1>4. \A g \in Handlers : /\ guarded' => RemovalInOrder(req[g])'
                         /\ ImportProtects(req[g])'
  BY <1>1, <1>2 DEF GuardedInv, RemovalInOrder, ImportProtects
<1> QED BY <1>2, <1>3, <1>4 DEF GuardedInv, Kept

(* A removal that ends was the only one. *)
LEMMA RemovalEndsKeeps ==
    ASSUME TenantTypeOK, GuardedInv, NEW h \in Handlers, req[h].pc \in Removals,
           Ends(h), guarded' => guarded
    PROVE  GuardedInv'
<1>1. req'[h] = Idle /\ \A g \in Handlers \ {h} : req'[g] = req[g]
  BY EndsTyped
<1>2. Idle.pc = "idle"
  BY DEF Idle
<1>3. guarded' => \A g \in Handlers : req'[g].pc \notin Removals
  BY <1>1, <1>2 DEF GuardedInv, OneRemoval, Removals
<1>4. OneRemoval'
  BY <1>3 DEF OneRemoval
<1>5. \A g \in Handlers : guarded' => RemovalInOrder(req[g])'
  BY <1>3 DEF RemovalInOrder, Removals
<1>6. \A g \in Handlers : ImportProtects(req[g])'
  BY <1>1, <1>2 DEF GuardedInv, ImportProtects
<1> QED BY <1>4, <1>5, <1>6 DEF GuardedInv

(* ensureNotLastTenantAdmin leaves another administrator. *)
LEMMA AnotherAdmin ==
    ASSUME EnsureNotLastTenantAdmin, NEW u
    PROVE  \E a \in Admins : a # u
<1> SUFFICES ASSUME Admins \subseteq {u} PROVE FALSE
  OBVIOUS
<1>1. Admins = {} \/ Admins = {u}
  OBVIOUS
<1>2. Cardinality({}) = 0 /\ Cardinality({u}) = 1
  BY FS_EmptySet, FS_Singleton, Zenon
<1>3. Cardinality(Admins) > 1
  BY DEF EnsureNotLastTenantAdmin
<1> QED BY <1>1, <1>2, <1>3

(* No removal is under way at the start.                                   *)
LEMMA GuardedInitial == Init => GuardedInv
BY DEF Init, GuardedInv, OneRemoval, RemovalInOrder, ImportProtects, Removals, Idle
-----------------------------------------------------------------------------
(* Every step keeps the invariant, and an administrator remains while all  *)
(* removals were guarded.                                                  *)
LEMMA GuardedStep == TenantTypeOK /\ GuardedInv /\ [Next]_vars => GuardedInv' /\ Kept
<1> SUFFICES ASSUME TenantTypeOK, GuardedInv, [Next]_vars PROVE GuardedInv' /\ Kept
  OBVIOUS
<1>0. /\ member \in [Users -> {"none", "active", "disabled"}]
      /\ grant \in [Users -> [Roles -> {"none", "active", "revoked"}]]
      /\ req \in [Handlers -> Request]
      /\ Admin \in Roles
  BY RolesTyped DEF TenantTypeOK
<1>1. ASSUME NEW status \in {"enabled", "disabled"}, CreateTenant(status) \/ SetTenantStatus(status)
      PROVE  GuardedInv' /\ Kept
  <2>1. TakesNothing /\ req' = req
    BY <1>1 DEF CreateTenant, SetTenantStatus, TakesNothing
  <2> QED BY <2>1, TakesNothingKeeps
<1>2. ASSUME BootstrapDefaultTenant
      PROVE  GuardedInv' /\ Kept
  <2>1. TakesNothing /\ req' = req
    BY <1>0, <1>2
    DEF BootstrapDefaultTenant, EnsureUsersInDefaultTenantBatch, EnsureTenantUsers,
        EnsureUserRoleAssignments, TakesNothing
  <2> QED BY <2>1, TakesNothingKeeps
<1>3. ASSUME NEW c \in Custom,
             \/ \E manager \in BOOLEAN : CreateRole(c, manager)
             \/ DisableTenantCustomRole(c) \/ ReplaceRolePermissions(c)
      PROVE  GuardedInv' /\ Kept
  <2>1. TakesNothing /\ req' = req
    BY <1>3 DEF CreateRole, DisableTenantCustomRole, ReplaceRolePermissions, TakesNothing
  <2> QED BY <2>1, TakesNothingKeeps
<1>4. ASSUME NEW h \in Handlers, NEW u \in Users, NEW roles \in SUBSET Roles,
             NEW pc \in {"platform", "join", "grant"},
             Begins(h, One(pc, u, roles)), UNCHANGED <<member, grant, guarded>>
      PROVE  GuardedInv' /\ Kept
  <2>1. TakesNothing
    BY <1>4 DEF TakesNothing
  <2>2. req'[h].pc = pc /\ \A g \in Handlers \ {h} : req'[g] = req[g]
    BY <1>4, OneTyped, BeginsTyped
  <2> QED BY <2>1, <2>2, RequestTakesNothingKeeps DEF Removals
<1>5. ASSUME NEW h \in Handlers, NEW u \in Users, NEW r \in Capabilities, Register(h, u, r)
      PROVE  GuardedInv' /\ Kept
  <2>1. {r} \in SUBSET Roles
    BY RolesTyped
  <2> QED BY <1>4, <1>5, <2>1 DEF Register, EnsureUserInDefaultTenant
<1>6. ASSUME NEW h \in Handlers, NEW u \in Users, CreateAdmin(h, u) \/ CreatePlatformAdmin(h, u)
      PROVE  GuardedInv' /\ Kept
  <2>1. {Admin} \in SUBSET Roles /\ {} \in SUBSET Roles
    BY <1>0
  <2> QED BY <1>4, <1>6, <2>1 DEF CreateAdmin, CreatePlatformAdmin, EnsureUserInDefaultTenant
<1>7. ASSUME NEW h \in Handlers, NEW u \in Users,
             \/ \E r \in Capabilities : CreateTenantAdminAccount(h, u, r)
             \/ AssignTenantAdmin(h, u)
             \/ PlatformAddTenantUser(h, u)
      PROVE  GuardedInv' /\ Kept
  <2>1. {Admin} \in SUBSET Roles /\ {} \in SUBSET Roles
    BY <1>0
  <2> QED BY <1>4, <1>7, <2>1
      DEF CreateTenantAdminAccount, AssignTenantAdmin, PlatformAddTenantUser, tables
<1>8. ASSUME NEW h \in Handlers, NEW u \in Users, NEW roles \in RoleLists,
             \/ AddTenantUser(h, u, roles)
             \/ \E r \in Capabilities : CreateTenantMember(h, u, roles, r)
      PROVE  GuardedInv' /\ Kept
  <2>1. roles \in SUBSET Roles
    BY RolesTyped
  <2> QED BY <1>4, <1>8, <2>1 DEF AddTenantUser, CreateTenantMember, tables
<1>9. ASSUME NEW h \in Handlers, NEW u \in Users, EnsurePlatformAdmin(h, u)
      PROVE  GuardedInv' /\ Kept
  <2>1. TakesNothing
    BY <1>9 DEF EnsurePlatformAdmin, TakesNothing
  <2>2. req'[h].pc = "idle" /\ \A g \in Handlers \ {h} : req'[g] = req[g]
    BY <1>9, EndsTyped DEF EnsurePlatformAdmin, Idle
  <2> QED BY <2>1, <2>2, RequestTakesNothingKeeps DEF Removals
<1>10. ASSUME NEW h \in Handlers, NEW u \in Users, EnsureTenantUser(h, u)
      PROVE  GuardedInv' /\ Kept
  <2>1. TakesNothing
    BY <1>0, <1>10 DEF EnsureTenantUser, TakesNothing
  <2>2. req'[h].pc \in {"idle", "grant"} /\ \A g \in Handlers \ {h} : req'[g] = req[g]
    BY <1>0, <1>10 DEF EnsureTenantUser, One, Idle
  <2> QED BY <2>1, <2>2, RequestTakesNothingKeeps DEF Removals
<1>11. ASSUME NEW h \in Handlers, NEW u \in Users, NEW r \in Roles, EnsureUserRole(h, u, r)
      PROVE  GuardedInv' /\ Kept
  <2>1. TakesNothing
    BY <1>0, <1>11 DEF EnsureUserRole, TakesNothing
  <2>2. req'[h].pc \in {"idle", "grant"} /\ \A g \in Handlers \ {h} : req'[g] = req[g]
    BY <1>0, <1>11 DEF EnsureUserRole, One, Idle
  <2> QED BY <2>1, <2>2, RequestTakesNothingKeeps DEF Removals
<1>12. ASSUME NEW h \in Handlers, NEW u \in Users,
              \/ PlatformRemoveTenantUser(h, u)
              \/ TenantRemoveTenantUser(h, u)
              \/ RemoveTenantAdmin(h, u)
      PROVE  GuardedInv' /\ Kept
  <2> DEFINE counted(pc, admins) == [Idle EXCEPT !.pc = pc, !.off = {u}, !.admins = admins]
  <2>1. PICK pc \in {"disable", "revoke"}, admins \in {Admins, {}} :
           /\ BeginsRemoval(h, counted(pc, admins)) /\ UNCHANGED tables
           /\ admins = {} \/ EnsureNotLastTenantAdmin
           /\ pc = "revoke" => admins = Admins /\ EnsureNotLastTenantAdmin
    <3>1. CASE PlatformRemoveTenantUser(h, u) /\ u \in HasAdminGrant
      <4>1. /\ BeginsRemoval(h, counted("disable", Admins)) /\ UNCHANGED tables
            /\ EnsureNotLastTenantAdmin
        BY <3>1 DEF PlatformRemoveTenantUser
      <4> QED BY <4>1
    <3>2. CASE PlatformRemoveTenantUser(h, u) /\ u \notin HasAdminGrant
      <4>1. BeginsRemoval(h, counted("disable", {})) /\ UNCHANGED tables
        BY <3>2 DEF PlatformRemoveTenantUser
      <4> QED BY <4>1
    <3>3. CASE TenantRemoveTenantUser(h, u)
      <4> DEFINE q == [Idle EXCEPT !.pc = "disable", !.off = {u}]
                 r == counted("disable", {})
      <4>1. q = r
        <5>1. q \in Request /\ r \in Request
          BY DEF Idle, Request
        <5>2. /\ q.pc = r.pc /\ q.on = r.on /\ q.off = r.off
              /\ q.want = r.want /\ q.admins = r.admins
          BY DEF Idle
        <5> HIDE DEF q, r
        <5> QED BY <5>1, <5>2 DEF Request
      <4>2. BeginsRemoval(h, counted("disable", {})) /\ UNCHANGED tables
        BY <3>3, <4>1 DEF TenantRemoveTenantUser
      <4> QED BY <4>2
    <3>4. CASE RemoveTenantAdmin(h, u)
      BY <3>4 DEF RemoveTenantAdmin
    <3> QED BY <1>12, <3>1, <3>2, <3>3, <3>4
  <2> DEFINE r == counted(pc, admins)
  <2>2. Admins \subseteq Users
    BY DEF Admins, HasAdminGrant
  <2>3. r \in Request /\ r.pc = pc /\ r.off = {u} /\ r.admins = admins
    BY <2>2 DEF Idle, Request
  <2>4. RemovalInOrder(r)
    <3>1. admins # {} => \E a \in admins : a # u
      BY <2>1, AnotherAdmin
    <3>2. pc = "revoke" => admins # {}
      BY <2>1, AnotherAdmin
    <3> QED BY <2>3, <3>1, <3>2 DEF RemovalInOrder
  <2>5. ImportProtects(r) /\ r.pc # "replace"
    BY <2>3 DEF ImportProtects
  <2> HIDE DEF r
  <2> QED BY <2>1, <2>3, <2>4, <2>5, RemovalBeginsKeeps DEF r
<1>13. ASSUME NEW h \in Handlers, NEW u \in Users, NEW roles \in RoleLists,
              ReplaceMemberRoles(h, u, roles)
      PROVE  GuardedInv' /\ Kept
  <2> DEFINE r == [One("replace", u, roles) EXCEPT !.admins = Admins]
  <2>1. Admins \subseteq Users /\ One("replace", u, roles) \in Request
    BY OneTyped, RolesTyped DEF Admins, HasAdminGrant
  <2>2. r \in Request /\ r.pc = "replace" /\ r.on = {u} /\ r.admins = Admins
    BY <2>1, OneTyped, RolesTyped DEF Request
  <2>3. RemovalInOrder(r) /\ ImportProtects(r)
    BY <1>13, <2>2 DEF ReplaceMemberRoles, RemovalInOrder, ImportProtects
  <2> QED BY <1>13, <2>2, <2>3, RemovalBeginsKeeps DEF ReplaceMemberRoles
<1>14. ASSUME NEW h \in Handlers, NEW on \in SUBSET Users, NEW off \in SUBSET Users,
              NEW want \in [Users -> RoleLists], ImportUsers(h, on, off, want)
      PROVE  GuardedInv' /\ Kept
  <2> DEFINE wanted == [u \in Users |-> IF u \in on THEN want[u] ELSE {}]
             r == [Idle EXCEPT !.pc = "import", !.on = on, !.off = off,
                     !.want = wanted, !.admins = HasAdminGrant]
  <2>1. wanted \in [Users -> SUBSET Roles] /\ HasAdminGrant \subseteq Users
    BY RolesTyped DEF HasAdminGrant
  <2>2. /\ r \in Request /\ r.pc = "import" /\ r.on = on
        /\ r.want = wanted /\ r.admins = HasAdminGrant
    BY <2>1 DEF Idle, Request
  <2>3. RemovalInOrder(r) /\ ImportProtects(r)
    BY <1>14, <2>2 DEF ImportUsers, ProtectLastImportTenantAdmin, RemovalInOrder, ImportProtects
  <2> QED BY <1>14, <2>2, <2>3, RemovalBeginsKeeps DEF ImportUsers
<1>15. ASSUME NEW h \in Handlers, RequestFails(h)
      PROVE  GuardedInv' /\ Kept
  <2>1. TakesNothing
    BY <1>15 DEF RequestFails, tables, TakesNothing
  <2>2. req'[h].pc = "idle" /\ \A g \in Handlers \ {h} : req'[g] = req[g]
    BY <1>15, EndsTyped DEF RequestFails, Idle
  <2> QED BY <2>1, <2>2, RequestTakesNothingKeeps DEF Removals
<1>16. ASSUME NEW h \in Handlers, NEW u \in Users, RemoveTenantUser(h, u)
      PROVE  GuardedInv' /\ Kept
  <2>1. /\ req[h].pc = "disable" /\ u \in req[h].off
        /\ guarded' => guarded /\ (u \in Admins => req[h].admins # {})
        /\ Admins \ {u} \subseteq Admins'
    BY <1>0, <1>16 DEF RemoveTenantUser, Admins, HasAdminGrant
  <2>2. GuardedInv'
    BY <1>16, <2>1, RemovalEndsKeeps DEF RemoveTenantUser, Removals
  <2>3. Kept
    BY <2>1 DEF Kept, GuardedInv, RemovalInOrder
  <2> QED BY <2>2, <2>3
<1>17. ASSUME NEW h \in Handlers, NEW u \in Users, RemoveUserRole(h, u)
      PROVE  GuardedInv' /\ Kept
  <2>1. /\ req[h].pc = "revoke" /\ u \in req[h].off /\ guarded' = guarded
        /\ Admins \ {u} \subseteq Admins'
    BY <1>0, <1>17 DEF RemoveUserRole, Admins, HasAdminGrant
  <2>2. GuardedInv'
    BY <1>17, <2>1, RemovalEndsKeeps DEF RemoveUserRole, Removals
  <2>3. Kept
    BY <2>1 DEF Kept, GuardedInv, RemovalInOrder
  <2> QED BY <2>2, <2>3
<1>18. ASSUME NEW h \in Handlers, NEW u \in Users, ReplaceMemberRolesTx(h, u)
      PROVE  GuardedInv' /\ Kept
  <2>1. /\ req[h].pc = "replace" /\ u \in req[h].on /\ guarded' = guarded
        /\ AdminsCounted(h, u) # {} /\ member' = member
        /\ grant'[u] = Replaced(u, req[h].want[u])
        /\ \A v \in Users \ {u} : grant'[v] = grant[v]
    BY <1>0, <1>18 DEF ReplaceMemberRolesTx
  <2>2. Admins \ {u} \subseteq Admins'
    BY <2>1 DEF Admins, HasAdminGrant
  <2>3. GuardedInv'
    BY <1>18, <2>1, RemovalEndsKeeps DEF ReplaceMemberRolesTx, Removals
  <2>4. Kept
    <3> SUFFICES ASSUME guarded PROVE Admins' # {}
      BY <2>1 DEF Kept
    <3>1. req[h].admins \subseteq Admins /\ member[u] = "active"
      BY <2>1 DEF GuardedInv, RemovalInOrder
    <3>2. PICK a \in AdminsCounted(h, u) : TRUE
      BY <2>1
    <3>3. CASE a \in req[h].admins \ {u}
      BY <2>2, <3>1, <3>3
    <3>4. CASE a = u /\ Admin \in req[h].want[u]
      <4>1. grant'[u][Admin] = "active"
        BY <1>0, <2>1, <3>4 DEF Replaced
      <4> QED BY <2>1, <3>1, <4>1 DEF Admins, HasAdminGrant
    <3>5. CASE u \in req[h].admins /\ u \notin HasAdminGrant
      BY <3>1, <3>5 DEF Admins
    <3> QED BY <3>2, <3>3, <3>4, <3>5 DEF AdminsCounted
  <2> QED BY <2>3, <2>4
<1>19. ASSUME NEW h \in Handlers, NEW r \in Capabilities, ImportUsersTx(h, r)
      PROVE  GuardedInv' /\ Kept
  <2>1. /\ req[h].pc = "import"
        /\ guarded' => /\ guarded /\ Admins \cap req[h].off = {}
                       /\ \A u \in Admins \cap req[h].on :
                             Admin \in req[h].want[u] \/ req[h].admins = {u}
        /\ \A u \in Users : member'[u] = IF u \in req[h].on THEN "active"
                                      ELSE IF u \in req[h].off THEN "disabled" ELSE member[u]
        /\ \A u \in Users : grant'[u] = IF u \in req[h].on THEN Replaced(u, req[h].want[u])
                                     ELSE grant[u]
    BY <1>19 DEF ImportUsersTx
  <2>2. GuardedInv'
    BY <1>19, <2>1, RemovalEndsKeeps DEF ImportUsersTx, Removals
  <2>3. Kept
    <3> SUFFICES ASSUME guarded', NEW a \in Admins PROVE a \in Admins'
      BY DEF Kept
    <3>1. a \in Users /\ grant[a][Admin] = "active" /\ member[a] = "active"
      BY DEF Admins, HasAdminGrant
    <3>2. CASE a \notin req[h].on
      BY <2>1, <3>1, <3>2 DEF Admins, HasAdminGrant
    <3>3. CASE a \in req[h].on
      <4>1. Admin \in req[h].want[a]
        BY <2>1, <3>3 DEF GuardedInv, ImportProtects
      <4>2. grant'[a][Admin] = "active" /\ member'[a] = "active"
        BY <1>0, <2>1, <3>1, <3>3, <4>1 DEF Replaced
      <4> QED BY <3>1, <4>2 DEF Admins, HasAdminGrant
    <3> QED BY <3>2, <3>3
  <2> QED BY <2>2, <2>3
<1>20. CASE UNCHANGED vars
  <2>1. TakesNothing /\ req' = req
    BY <1>20 DEF vars, tables, TakesNothing
  <2> QED BY <2>1, TakesNothingKeeps
<1> QED
  BY <1>1, <1>2, <1>3, <1>5, <1>6, <1>7, <1>8, <1>9, <1>10, <1>11, <1>12, <1>13, <1>14,
     <1>15, <1>16, <1>17, <1>18, <1>19, <1>20
  DEF Next

(* As long as removals that count do not overlap and nothing removes an    *)
(* administrator without a count, a tenant with an administrator keeps     *)
(* one.                                                                    *)
THEOREM LastAdminIsKept == Spec => LastAdminKept
<1>1. Spec => [](TenantInv /\ GuardedInv)
  <2>1. TenantInv /\ GuardedInv /\ [Next]_vars => GuardedInv'
    BY GuardedStep DEF TenantInv
  <2> QED BY <2>1, GuardedInitial, TenantInvariant, PTL DEF Spec
<1>2. TenantInv /\ GuardedInv /\ [Next]_vars => [Kept]_vars
  BY GuardedStep DEF TenantInv
<1>3. LastAdminKept <=> [][Kept]_vars
  BY PTL DEF LastAdminKept, Kept
<1> QED BY <1>1, <1>2, <1>3, PTL DEF Spec
=============================================================================
