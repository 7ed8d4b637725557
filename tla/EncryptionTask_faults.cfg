CONSTANTS
    Tasks = {k1}
    AttemptIds = {a1, a2, a3}
    Names = {n1}
    Handlers = {h1, h2}
    Cleaners = {c1}
    Limit = 2
    MaxConcurrent = 2
    ReportedStages = {"VALIDATING"}
    Faults = {"crash", "save_error", "orphan_error", "ambiguous_commit"}
    Nil = Nil
SPECIFICATION Spec
SYMMETRY Symmetry
INVARIANTS TaskTablesOK CompletionAtomic
PROPERTY TerminalIsFinal
