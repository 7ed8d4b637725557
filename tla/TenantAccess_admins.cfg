CONSTANTS
    DU = DU
    c1 = c1
    Users = {u1, u2}
    Capabilities = {DU}
    Custom = {c1}
    RoleLists <- NamedRoleLists
    Handlers = {h1, h2}
    MaxRequests = 4
SPECIFICATION Spec
SYMMETRY Symmetry
INVARIANT TenantTablesOK
PROPERTIES LastAdminKept OnlyActiveRolesGranted
CHECK_DEADLOCK FALSE
