CONSTANTS
    Batches = {b1, b2}
    UserBatches = {b1}
    Workers = {w1, w2}
    Handlers = {h1, h2}
    MaxFaults = 1
    HeartbeatsMayFail = FALSE
    None = None
SPECIFICATION FairSpec
INVARIANTS BatchesConsistent OneWriterPerBatch
PROPERTIES EndedStaysEnded ConfirmedBatchEnds
CHECK_DEADLOCK FALSE
