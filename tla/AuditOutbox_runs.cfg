CONSTANTS
    e1 = e1
    e2 = e2
    e3 = e3
    fact = fact
    Events = {e1, e2, e3}
    DedupKey <- OneFactTwice
    Dispatchers = {d1, d2}
    BatchSize = 2
    MaxRetries = 2
    Nil = Nil
SPECIFICATION FairSpec
INVARIANTS OutboxRowsOK LogMatchesOutbox LeaseGuardsCopy
PROPERTIES FailuresCountedOnce KeepsPromise EventuallySettled
