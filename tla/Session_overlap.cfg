CONSTANTS
    Tokens = {t1, t2, t3, t4}
    Devices = {d1, d2}
    Handlers = {h1, h2}
    Nil = Nil
SPECIFICATION Spec
SYMMETRY Symmetry
INVARIANTS SessionKeysOK OrderlySessions
PROPERTY SessionsNeverReturn
CHECK_DEADLOCK FALSE
