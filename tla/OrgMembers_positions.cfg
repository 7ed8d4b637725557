CONSTANTS
    Units = {d1, d2}
    Users = {u1, u2}
    Target = d1
    Handlers = {h1, h2}
    MaxChanges = 6
SPECIFICATION Spec
SYMMETRY Symmetry
INVARIANTS
    MembersConsistent
    OneLeader
    OneMainDepartment
CHECK_DEADLOCK FALSE
