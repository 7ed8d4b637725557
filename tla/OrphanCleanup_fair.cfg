CONSTANTS
    Names = {n1, n2, n3}
    Cleaners = {c1, c2}
    Limit = 2
    Faults = {"crash", "save_error"}
    Nil = Nil
SPECIFICATION FairCleanupSpec
INVARIANTS CleanupTypeOK ClaimExclusive CleanedIsGone
PROPERTIES OrphanCleanedOrStranded OnlyAbortStrands
