CONSTANTS
    Tasks = {k1}
    AttemptIds = {a1, a2}
    Names = {n1, n2}
    Handlers = {h1, h2}
    Cleaners = {c1}
    Limit = 2
    MaxConcurrent = 2
    ReportedStages = {"VALIDATING"}
    Faults = {"crash", "save_error", "orphan_error"}
    Nil = Nil
SPECIFICATION Spec
SYMMETRY Symmetry
INVARIANTS CompletionAtomic AvailableFileReadable OrphanNeverLive
