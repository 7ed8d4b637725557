CONSTANTS
    u1 = u1
    u2 = u2
    k1 = k1
    k2 = k2
    r1 = r1
    r2 = r2
    Members = {u1, u2}
    Owner = u1
    Keys = {k1, k2}
    Runs = {r1, r2}
    Original <- OneAndAHalfChunks
    Edits <- OtherFiles
    ChunkSize = 2
    MaxAttempts = 2
    MaxEdits = 1
    MaxStatusChanges = 1
    Nil = Nil
SPECIFICATION Spec
SYMMETRY Exchangeable
INVARIANTS FileKeysTypeOK RecipientsCanDecrypt DecryptedIsSource
CHECK_DEADLOCK FALSE
