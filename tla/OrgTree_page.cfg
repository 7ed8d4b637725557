CONSTANTS
    sales = sales
    east = east
    north = north
    Codes = {sales, east, north, x}
    DemoParent <- TwoLevels
    Handlers = {h1, h2}
    MaxChanges = 3
    Files <- SmallFiles
    Slash = Slash
    None = None
SPECIFICATION Spec
SYMMETRY Symmetry
INVARIANT TreeIsComplete
CHECK_DEADLOCK FALSE
