CONSTANTS
    sales = sales
    east = east
    north = north
    Codes = {sales, east, north, x}
    DemoParent <- ThreeLevels
    Handlers = {h1, h2}
    MaxChanges = 3
    Files <- SmallFiles
    Slash = Slash
    None = None
SPECIFICATION Spec
SYMMETRY Symmetry
INVARIANTS
    OrgTypeOK
    PathsFollowParents
    ValueMirrorsUnit
CHECK_DEADLOCK FALSE
