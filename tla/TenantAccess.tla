----------------------------- MODULE TenantAccess -----------------------------
(***************************************************************************)
(* Who may act in a tenant: the rows of tenants, users, tenant_users,      *)
(* user_roles and roles that belong to the default tenant, and everything  *)
(* that writes them - the platform services, TenantService, the RBAC       *)
(* repository, registration, the local admin commands and the bulk import. *)
(*                                                                         *)
(* Most handlers are statements in auto-commit mode: a check, then one     *)
(* write after another, each a step here. ReplaceMemberRolesTx and the     *)
(* import are transactions (REPEATABLE READ): one step takes the locks and *)
(* the snapshot and checks, another writes and commits.                    *)
(*                                                                         *)
(* Not kept: names, audit rows, expires_at (written by no code). One       *)
(* account at least acts for the platform wherever its routes ask for it.  *)
(***************************************************************************)
EXTENDS Naturals, FiniteSets

CONSTANTS Users,        \* people, with or without a row in users
          Capabilities, \* the other built-in tenant roles, DO and DU
          Custom,       \* custom roles of the tenant
          RoleLists,    \* the role lists that requests name
          Handlers,     \* requests and workers at work at the same time
          MaxRequests   \* bound: how many requests, workers and commands run

Admin == "TENANT_ADMIN"
Builtin == {Admin} \cup Capabilities
Roles == Builtin \cup Custom

ASSUME TenantAssumption ==
    /\ Admin \notin Capabilities \cup Custom
    /\ "absent" \notin Capabilities
    /\ Capabilities \cap Custom = {}
    /\ RoleLists \subseteq SUBSET Roles
    /\ MaxRequests \in Nat

VARIABLES tenant,   \* status of the tenant
          platform, \* accounts with the role PLATFORM_ADMIN (tenant 0)
          legacy,   \* users.role of an account, as the role it maps to
          member,   \* status of the tenant_users row
          grant,    \* status of the user_roles rows
          role,     \* status of the custom roles
          manages,  \* custom roles with the permission to manage members and roles
          req,      \* what each handler is doing
          requests, \* how many have begun
          guarded   \* history: see "The last administrator"

tables == <<tenant, platform, legacy, member, grant, role, manages>>
vars == <<tables, req, requests, guarded>>

(* A request: the members it makes ACTIVE (on) or DISABLED (off), the      *)
(* roles it still has to grant them, and the administrators it counted.    *)
Request == [pc : {"idle", "platform", "join", "grant", "disable", "revoke", "replace", "import"},
            on : SUBSET Users, off : SUBSET Users,
            want : [Users -> SUBSET Roles], admins : SUBSET Users]
Idle == [pc |-> "idle", on |-> {}, off |-> {}, want |-> [u \in Users |-> {}], admins |-> {}]
One(pc, u, roles) == [Idle EXCEPT !.pc = pc, !.on = {u}, !.want[u] = roles]

TenantTypeOK ==
    /\ tenant \in {"absent", "enabled", "disabled"}
    /\ platform \subseteq Users
    /\ legacy \in [Users -> {"absent"} \cup Builtin]
    /\ member \in [Users -> {"none", "active", "disabled"}]
    /\ grant \in [Users -> [Roles -> {"none", "active", "revoked"}]]
    /\ role \in [Custom -> {"absent", "active", "disabled"}]
    /\ manages \subseteq Custom
    /\ req \in [Handlers -> Request]
    /\ requests \in 0..MaxRequests
    /\ guarded \in BOOLEAN

Init ==
    /\ tenant = "absent"
    /\ platform = {}
    /\ legacy = [u \in Users |-> "absent"]
    /\ member = [u \in Users |-> "none"]
    /\ grant = [u \in Users |-> [r \in Roles |-> "none"]]
    /\ role = [c \in Custom |-> "absent"]
    /\ manages = {}
    /\ req = [h \in Handlers |-> Idle]
    /\ requests = 0
    /\ guarded = TRUE

Accounts == {u \in Users : legacy[u] # "absent"}

(* HasRole asks for a row of user_roles, whatever its status; the lists of *)
(* members (listRoleCodesByTenantUsers) show the ACTIVE ones.              *)
HasRole(u, r) == grant[u][r] # "none"
HasAdminGrant == {u \in Users : grant[u][Admin] = "active"}

(* CountTenantAdmins, countTenantAdminsTx *)
Admins == {u \in HasAdminGrant : member[u] = "active"}

(* ensureTenantManager, ensurePlatformOrLegacyAdmin (PlatformAdminRequired *)
(* asks the same).                                                         *)
IsTenantManager(u) == HasRole(u, Admin)
PlatformAdminRequired == platform # {}

(* What a route of the tenant asks of its caller: the membership, then the *)
(* permission (to manage members and roles) of one of his active roles.    *)
ResolveTenantContext(u) == tenant = "enabled" /\ member[u] = "active"

HasTenantPermission(u) ==
    /\ member[u] = "active"
    /\ \E r \in {Admin} \cup {c \in manages : role[c] = "active"} : grant[u][r] = "active"

CanManage(u) == ResolveTenantContext(u) /\ HasTenantPermission(u)

-----------------------------------------------------------------------------
(* The last administrator. Removals of one kind check, then write: guarded *)
(* says that so far none overlapped another removal (replacements are      *)
(* serialised by the lock of the tenant row), none hit an administrator    *)
(* without a count, and no import took the role from one of several        *)
(* administrators, or disabled one.                                        *)
Removals == {"disable", "revoke", "replace", "import"}

Clash(h, pc) ==
    \E g \in Handlers \ {h} : /\ req[g].pc \in Removals
                              /\ ~(pc = "replace" /\ req[g].pc = "replace")

Begins(h, r) ==
    /\ req[h].pc = "idle"
    /\ requests < MaxRequests
    /\ requests' = requests + 1
    /\ req' = [req EXCEPT ![h] = r]

BeginsRemoval(h, r) ==
    /\ Begins(h, r)
    /\ guarded' = (guarded /\ ~Clash(h, r.pc))

Ends(h) == req' = [req EXCEPT ![h] = Idle] /\ UNCHANGED requests

(* ensureNotLastTenantAdmin *)
EnsureNotLastTenantAdmin == Cardinality(Admins) > 1

-----------------------------------------------------------------------------
(* Single statements *)

(* CreateTenant of either service: looks for the code, then inserts.       *)
CreateTenant(status) ==
    /\ PlatformAdminRequired
    /\ tenant = "absent"
    /\ tenant' = status
    /\ UNCHANGED <<platform, legacy, member, grant, role, manages, req, requests, guarded>>

SetTenantStatus(status) ==
    /\ PlatformAdminRequired
    /\ tenant \in {"enabled", "disabled"} \ {status}
    /\ requests < MaxRequests
    /\ requests' = requests + 1
    /\ tenant' = status
    /\ UNCHANGED <<platform, legacy, member, grant, role, manages, req, guarded>>

(* The start of the server and the seed command insert what is missing and *)
(* update nothing. They skip the platform administrators.                  *)
EnsureTenant == tenant' = IF tenant = "absent" THEN "enabled" ELSE tenant

EnsureTenantUsers(users) ==
    member' = [u \in Users |-> IF u \in users /\ member[u] = "none" THEN "active" ELSE member[u]]

EnsureUserRoleAssignments(users) ==
    grant' = [u \in Users |-> [r \in Roles |->
                 IF u \in users /\ r = legacy[u] /\ ~HasRole(u, r) THEN "active" ELSE grant[u][r]]]

EnsureUsersInDefaultTenantBatch ==
    LET seeded == Accounts \ platform
    IN  EnsureTenantUsers(seeded) /\ EnsureUserRoleAssignments(seeded)

BootstrapDefaultTenant ==
    /\ requests < MaxRequests
    /\ requests' = requests + 1
    /\ EnsureTenant
    /\ EnsureUsersInDefaultTenantBatch
    /\ UNCHANGED <<platform, legacy, role, manages, req, guarded>>

ReplaceRolePermissionsTx(c, manager) ==
    manages' = IF manager THEN manages \cup {c} ELSE manages \ {c}

(* The row and its permissions are one transaction. *)
CreateTenantCustomRole(c, manager) ==
    /\ role[c] = "absent"
    /\ role' = [role EXCEPT ![c] = "active"]
    /\ ReplaceRolePermissionsTx(c, manager)

CreateRole(c, manager) ==
    /\ \E u \in Users : CanManage(u)
    /\ CreateTenantCustomRole(c, manager)
    /\ UNCHANGED <<tenant, platform, legacy, member, grant, req, requests, guarded>>

(* Both lock the row of the role, as does a replacement that names it. *)
LockedRoles == UNION {req[h].want[u] : h \in {g \in Handlers : req[g].pc = "replace"}, u \in Users}

DisableUnlockedRole(c) ==
    /\ role[c] = "active"
    /\ \E u \in Users : CanManage(u)
    /\ role' = [role EXCEPT ![c] = "disabled"]
    /\ UNCHANGED <<tenant, platform, legacy, member, grant, manages, req, requests, guarded>>
DisableTenantCustomRole(c) ==
    /\ role[c] = "active"
    /\ c \notin LockedRoles
    /\ \E u \in Users : CanManage(u)
    /\ role' = [role EXCEPT ![c] = "disabled"]
    /\ UNCHANGED <<tenant, platform, legacy, member, grant, manages, req, requests, guarded>>

ReplaceRolePermissions(c) ==
    /\ role[c] # "absent"
    /\ c \notin LockedRoles
    /\ requests < MaxRequests
    /\ requests' = requests + 1
    /\ \E u \in Users : CanManage(u)
    /\ ReplaceRolePermissionsTx(c, c \notin manages)
    /\ UNCHANGED <<tenant, platform, legacy, member, grant, role, req, guarded>>

-----------------------------------------------------------------------------
(* Requests that add a member, then grant roles one statement at a time *)

(* A new account is brought into the default tenant, which is created when *)
(* it is missing (a platform administrator would be skipped, and a new     *)
(* account is none yet).                                                   *)
EnsureUserInDefaultTenant(h, u, r) ==
    /\ EnsureTenant
    /\ Begins(h, One("join", u, {r}))

Create(u, r) ==
    /\ legacy[u] = "absent"
    /\ legacy' = [legacy EXCEPT ![u] = r]

Register(h, u, r) ==
    /\ Create(u, r)
    /\ EnsureUserInDefaultTenant(h, u, r)
    /\ UNCHANGED <<platform, member, grant, role, manages, guarded>>

(* CreateTenantMember, CreateTenantAdminAccount and "create-platform" find  *)
(* or create the account; users.role is DU, ADMIN with the command.        *)
FindOrCreateUser(u, r) ==
    legacy' = [legacy EXCEPT ![u] = IF @ = "absent" THEN r ELSE @]

(* The commands "create" and "create-platform". The second inserts an      *)
(* account of the legacy role ADMIN when there is none, then grants.       *)
CreateAdmin(h, u) ==
    /\ Create(u, Admin)
    /\ EnsureUserInDefaultTenant(h, u, Admin)
    /\ UNCHANGED <<platform, member, grant, role, manages, guarded>>

CreatePlatformAdmin(h, u) ==
    /\ u \notin platform
    /\ FindOrCreateUser(u, Admin)
    /\ Begins(h, One("platform", u, {}))
    /\ UNCHANGED <<tenant, platform, member, grant, role, manages, guarded>>

EnsurePlatformAdmin(h, u) ==
    /\ req[h].pc = "platform" /\ u \in req[h].on
    /\ platform' = platform \cup {u}
    /\ Ends(h)
    /\ UNCHANGED <<tenant, legacy, member, grant, role, manages, guarded>>

(* AddTenantUser of the platform, which grants no role, and of             *)
(* TenantService, which asks for neither an enabled tenant nor an active   *)
(* manager.                                                                *)
PlatformAddTenantUser(h, u) ==
    /\ PlatformAdminRequired
    /\ tenant = "enabled"
    /\ u \in Accounts
    /\ Begins(h, One("join", u, {}))
    /\ UNCHANGED <<tables, guarded>>

AddTenantUser(h, u, roles) ==
    /\ \E a \in Users : IsTenantManager(a)
    /\ u \in Accounts
    /\ roles \subseteq Builtin
    /\ Begins(h, One("join", u, roles))
    /\ UNCHANGED <<tables, guarded>>

(* normalizeAndValidateTenantMember *)
ValidMemberRoles(roles) == roles # {} /\ roles \subseteq Capabilities

CreateTenantMember(h, u, roles, r) ==
    /\ tenant = "enabled"
    /\ ValidMemberRoles(roles)
    /\ \E a \in Users : CanManage(a) /\ IsTenantManager(a)
    /\ r \in Capabilities
    /\ FindOrCreateUser(u, r)
    /\ Begins(h, One("join", u, roles))
    /\ UNCHANGED <<tenant, platform, member, grant, role, manages, guarded>>

CreateTenantAdminRoleOnly(h, u, r) ==
    /\ PlatformAdminRequired
    /\ tenant = "enabled"
    /\ r \in Capabilities
    /\ FindOrCreateUser(u, r)
    /\ Begins(h, One("grant", u, {Admin}))
    /\ UNCHANGED <<tenant, platform, member, grant, role, manages, guarded>>
CreateTenantAdminAccount(h, u, r) ==
    /\ PlatformAdminRequired
    /\ tenant = "enabled"
    /\ r \in Capabilities
    /\ FindOrCreateUser(u, r)
    /\ Begins(h, One("join", u, {Admin}))
    /\ UNCHANGED <<tenant, platform, member, grant, role, manages, guarded>>

(* ensureTenantMember *)
EnsureTenantMember(u) == u \in Accounts /\ tenant = "enabled" /\ member[u] = "active"

AssignTenantAdmin(h, u) ==
    /\ PlatformAdminRequired
    /\ EnsureTenantMember(u)
    /\ Begins(h, One("grant", u, {Admin}))
    /\ UNCHANGED <<tables, guarded>>

EnsureTenantUser(h, u) ==
    /\ req[h].pc = "join" /\ u \in req[h].on
    /\ member' = [member EXCEPT ![u] = "active"]
    /\ req' = [req EXCEPT ![h] = IF req[h].want[u] = {} THEN Idle
                                 ELSE One("grant", u, req[h].want[u])]
    /\ UNCHANGED <<tenant, platform, legacy, grant, role, manages, requests, guarded>>

EnsureUserRole(h, u, r) ==
    /\ req[h].pc = "grant" /\ u \in req[h].on /\ r \in req[h].want[u]
    /\ grant' = [grant EXCEPT ![u][r] = "active"]
    /\ req' = [req EXCEPT ![h] = IF req[h].want[u] = {r} THEN Idle
                                 ELSE One("grant", u, req[h].want[u] \ {r})]
    /\ UNCHANGED <<tenant, platform, legacy, member, role, manages, requests, guarded>>

-----------------------------------------------------------------------------
(* Removals *)

(* RemoveTenantUser of the platform counts when the member, ACTIVE or not, *)
(* has the role TENANT_ADMIN; that of TenantService never does.            *)
PlatformRemoveTenantUser(h, u) ==
    /\ PlatformAdminRequired
    /\ tenant # "absent" /\ member[u] # "none"
    /\ u \in HasAdminGrant => EnsureNotLastTenantAdmin
    /\ BeginsRemoval(h, [Idle EXCEPT !.pc = "disable", !.off = {u},
                            !.admins = IF u \in HasAdminGrant THEN Admins ELSE {}])
    /\ UNCHANGED tables

TenantRemoveTenantUser(h, u) ==
    /\ \E a \in Users : IsTenantManager(a)
    /\ BeginsRemoval(h, [Idle EXCEPT !.pc = "disable", !.off = {u}])
    /\ UNCHANGED tables

RemoveTenantUser(h, u) ==
    /\ req[h].pc = "disable" /\ u \in req[h].off
    /\ member' = [member EXCEPT ![u] = IF @ = "none" THEN @ ELSE "disabled"]
    /\ guarded' = (guarded /\ (u \in Admins => req[h].admins # {}))
    /\ Ends(h)
    /\ UNCHANGED <<tenant, platform, legacy, grant, role, manages>>

RemoveTenantAdmin(h, u) ==
    /\ PlatformAdminRequired
    /\ EnsureTenantMember(u)
    /\ EnsureNotLastTenantAdmin
    /\ BeginsRemoval(h, [Idle EXCEPT !.pc = "revoke", !.off = {u}, !.admins = Admins])
    /\ UNCHANGED tables

(* RemoveUserRole deletes the row. *)
RemoveUserRole(h, u) ==
    /\ req[h].pc = "revoke" /\ u \in req[h].off
    /\ grant' = [grant EXCEPT ![u][Admin] = "none"]
    /\ Ends(h)
    /\ UNCHANGED <<tenant, platform, legacy, member, role, manages, guarded>>

-----------------------------------------------------------------------------
(* ReplaceMemberRolesTx: locks the tenant row and the rows of the roles;   *)
(* its snapshot is taken after the lock.                                   *)
Assignable(roles) == \A c \in roles \cap Custom : role[c] = "active"

ReplaceUnlocked(h, u, roles) ==
    /\ member[u] = "active"
    /\ Assignable(roles)
    /\ \E a \in Users : CanManage(a)
    /\ BeginsRemoval(h, [One("replace", u, roles) EXCEPT !.admins = Admins])
    /\ UNCHANGED tables
ReplaceMemberRoles(h, u, roles) ==
    /\ \A g \in Handlers : req[g].pc # "replace"
    /\ member[u] = "active"
    /\ Assignable(roles)
    /\ \E a \in Users : CanManage(a)
    /\ BeginsRemoval(h, [One("replace", u, roles) EXCEPT !.admins = Admins])
    /\ UNCHANGED tables

(* revokeMissingRolesTx and the upserts write the current rows. *)
Replaced(u, roles) ==
    [r \in Roles |-> IF r \in roles THEN "active"
                     ELSE IF grant[u][r] = "active" THEN "revoked" ELSE grant[u][r]]

(* The count at the end sees the snapshot and what the transaction wrote:  *)
(* a row that another request revoked meanwhile still counts.              *)
AdminsCounted(h, u) ==
    (req[h].admins \ {u})
        \cup {v \in {u} : \/ Admin \in req[h].want[u]
                          \/ u \in req[h].admins /\ u \notin HasAdminGrant}

ReplaceMemberRolesTx(h, u) ==
    /\ req[h].pc = "replace" /\ u \in req[h].on
    /\ AdminsCounted(h, u) # {}
    /\ grant' = [grant EXCEPT ![u] = Replaced(u, req[h].want[u])]
    /\ Ends(h)
    /\ UNCHANGED <<tenant, platform, legacy, member, role, manages, guarded>>

-----------------------------------------------------------------------------
(* importUsersBulkTx: rows that are ACTIVE (on) replace the roles of the   *)
(* member, DISABLED rows (off) leave them. protectLastImportTenantAdmin    *)
(* reads the snapshot, and only looks at a single holder of the role.      *)
ProtectLastImportTenantAdmin(on, want) ==
    \A u \in on : HasAdminGrant = {u} => Admin \in want[u]

(* The preview takes a user name once, as ACTIVE or as DISABLED, with       *)
(* active roles of the tenant; a preview the moment before the import asks *)
(* no more of the roles than the import does.                              *)
ValidateUserRows(on, off, want) ==
    /\ on \cup off # {} /\ on \cap off = {}
    /\ \A u \in on : want[u] \subseteq Roles

ImportUsers(h, on, off, want) ==
    /\ tenant # "absent"
    /\ ValidateUserRows(on, off, want)
    /\ \A u \in on : Assignable(want[u])
    /\ ProtectLastImportTenantAdmin(on, want)
    /\ BeginsRemoval(h, [Idle EXCEPT !.pc = "import", !.on = on, !.off = off,
                            !.want = [u \in Users |-> IF u \in on THEN want[u] ELSE {}],
                            !.admins = HasAdminGrant])
    /\ UNCHANGED tables

ImportUsersTx(h, r) ==
    /\ req[h].pc = "import"
    /\ r \in Capabilities
    /\ legacy' = [u \in Users |-> IF u \in req[h].on \cup req[h].off /\ legacy[u] = "absent"
                                  THEN r ELSE legacy[u]]
    /\ member' = [u \in Users |-> IF u \in req[h].on THEN "active"
                                  ELSE IF u \in req[h].off THEN "disabled" ELSE member[u]]
    /\ grant' = [u \in Users |-> IF u \in req[h].on THEN Replaced(u, req[h].want[u])
                                 ELSE grant[u]]
    /\ guarded' = (/\ guarded
                   /\ Admins \cap req[h].off = {}
                   /\ \A u \in Admins \cap req[h].on :
                         Admin \in req[h].want[u] \/ req[h].admins = {u})
    /\ Ends(h)
    /\ UNCHANGED <<tenant, platform, role, manages>>

(* An error, a rollback, or the end of the process. *)
RequestFails(h) ==
    /\ req[h].pc # "idle"
    /\ Ends(h)
    /\ UNCHANGED <<tables, guarded>>

Next ==
    \/ \E status \in {"enabled", "disabled"} : CreateTenant(status) \/ SetTenantStatus(status)
    \/ BootstrapDefaultTenant
    \/ \E c \in Custom :
          \/ \E manager \in BOOLEAN : CreateRole(c, manager)
          \/ DisableTenantCustomRole(c)
          \/ ReplaceRolePermissions(c)
    \/ \E h \in Handlers, u \in Users :
          \/ \E r \in Capabilities : Register(h, u, r)
          \/ CreateAdmin(h, u)
          \/ CreatePlatformAdmin(h, u) \/ EnsurePlatformAdmin(h, u)
          \/ PlatformAddTenantUser(h, u)
          \/ \E roles \in RoleLists :
                \/ AddTenantUser(h, u, roles)
                \/ \E r \in Capabilities : CreateTenantMember(h, u, roles, r)
                \/ ReplaceMemberRoles(h, u, roles)
          \/ \E r \in Capabilities : CreateTenantAdminAccount(h, u, r)
          \/ AssignTenantAdmin(h, u)
          \/ EnsureTenantUser(h, u)
          \/ \E r \in Roles : EnsureUserRole(h, u, r)
          \/ PlatformRemoveTenantUser(h, u) \/ TenantRemoveTenantUser(h, u)
          \/ RemoveTenantUser(h, u)
          \/ RemoveTenantAdmin(h, u) \/ RemoveUserRole(h, u)
          \/ ReplaceMemberRolesTx(h, u)
    \/ \E h \in Handlers :
          \/ \E on, off \in SUBSET Users, want \in [Users -> RoleLists] :
                ImportUsers(h, on, off, want)
          \/ \E r \in Capabilities : ImportUsersTx(h, r)
          \/ RequestFails(h)

Spec == Init /\ [][Next]_vars

-----------------------------------------------------------------------------
(* "角色授权必须建立在有效成员关系之上": no role without a membership, ever    *)
(* granted or revoked, and no membership without an account, wherever a    *)
(* request stops between its statements (ensureTenantMember,               *)
(* CreateTenantAdminAccount).                                              *)
GrantRestsOnMember ==
    \A u \in Users :
        /\ (\E r \in Roles : grant[u][r] # "none") => member[u] # "none"
        /\ member[u] # "none" => u \in Accounts

(* The rows are well formed, and no grant stands alone. *)
TenantTablesOK == TenantTypeOK /\ GrantRestsOnMember

(* "避免租户进入无人可治理状态": as long as removals that count do not       *)
(* overlap and nothing removes an administrator without a count, a tenant  *)
(* with an administrator keeps one, whatever is granted, joined, disabled  *)
(* or replaced meanwhile; replacements of roles may overlap each other,    *)
(* and an import may touch the only holder of the role.                    *)
LastAdminKept == [][guarded' /\ Admins # {} => Admins' # {}]_vars

(* A custom role is given to a member only while it is ACTIVE, although    *)
(* its check and the grant are two steps (listAssignableRolesForUpdateTx); *)
(* the import, which locks no role, is the exception.                      *)
OnlyActiveRolesGranted ==
    [][\A u \in Users, c \in Custom :
          grant[u][c] # "active" /\ grant'[u][c] = "active" =>
              role[c] = "active" \/ \E h \in Handlers : req[h].pc = "import" /\ req'[h] = Idle
      ]_vars
=============================================================================
