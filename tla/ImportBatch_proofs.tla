--------------------------- MODULE ImportBatch_proofs ---------------------------
(* Theorems about ImportBatch, for any batches, workers and requests, and  *)
(* any number of faults.                                                   *)
EXTENDS ImportBatch, TLAPS

(* A request that read a batch still knows whether its rows are valid.     *)
RequestKnows(h) ==
    req[h].op # "none" =>
        /\ req[h].batch \in Batches
        /\ batch[req[h].batch].status # "none"
        /\ req[h].valid = batch[req[h].batch].valid

RequestsKnow == \A h \in Handlers : RequestKnows(h)

(* A worker has a batch and a token of its own; it writes only valid rows, *)
(* and knows of a commit only if there was one.                            *)
WorkerKnows(w) ==
    /\ work[w].pc # "idle" =>
          /\ work[w].batch \in Batches /\ work[w].token \in 1 .. drawn
          /\ batch[work[w].batch].status # "none"
    /\ work[w].pc \in {"writing", "committed"} => batch[work[w].batch].valid
    /\ work[w].pc = "committed" => work[w].batch \in applied

WorkersKnow == \A w \in Workers : WorkerKnows(w)

(* Committed rows are those of a batch that was stored as valid.           *)
AppliedIsValid ==
    \A b \in applied : batch[b].status # "none" /\ batch[b].valid

ImportInv ==
    /\ ImportTypeOK
    /\ RequestsKnow
    /\ WorkersKnow
    /\ AppliedIsValid
    /\ SucceededMeansApplied

-----------------------------------------------------------------------------
(* No batch, no request and no worker: the invariant holds at the start.   *)
LEMMA ImportInitial == Init => ImportInv
BY ImportAssumption
DEF Init, ImportInv, ImportTypeOK, Row, Statuses, Ended, Idle, Work, NoRequest, Request,
    RequestsKnow, RequestKnows, WorkersKnow, WorkerKnows, AppliedIsValid, SucceededMeansApplied, Phases

(* The columns of a row are of the schema's types.                         *)
LEMMA RowTyped ==
    ASSUME NEW row \in Row
    PROVE  /\ row.status \in Statuses /\ row.valid \in BOOLEAN
           /\ row.token \in Nat \cup {None} /\ row.expired \in BOOLEAN
BY DEF Row

(* The updates that the steps make of a row leave the table typed.         *)
LEMMA RowWritten ==
    ASSUME batch \in [Batches -> Row], NEW b \in Batches, NEW status \in Statuses,
           NEW token \in Nat \cup {None}, NEW expired \in BOOLEAN, NEW valid \in BOOLEAN
    PROVE  /\ [batch EXCEPT ![b].status = status, ![b].token = token, ![b].expired = expired]
                 \in [Batches -> Row]
           /\ [batch EXCEPT ![b].status = status] \in [Batches -> Row]
           /\ [batch EXCEPT ![b] = [status |-> status, valid |-> valid, token |-> token,
                                    expired |-> expired]] \in [Batches -> Row]
BY DEF Row

(* The statuses that the steps write are statuses of a batch.              *)
LEMMA StatusesTyped ==
    /\ "VALIDATED" \in Statuses /\ "QUEUED" \in Statuses /\ "IMPORTING" \in Statuses
    /\ "EXPIRED" \in Statuses /\ "SUCCEEDED" \in Statuses /\ "FAILED" \in Statuses
BY DEF Statuses, Ended

(* An idle worker and an empty request are typed.                          *)
LEMMA IdleWorkTyped == Idle \in Work /\ NoRequest \in Request /\ Idle.pc = "idle"
BY DEF Idle, Work, NoRequest, Request, Phases

(* Every step keeps the rows, the workers and the requests of their types. *)
LEMMA ImportTypeStep == ImportInv /\ [Next]_vars => ImportTypeOK'
<1> SUFFICES ASSUME ImportInv, [Next]_vars PROVE ImportTypeOK'
  OBVIOUS
<1>0. ImportTypeOK /\ WorkersKnow /\ RequestsKnow
  BY DEF ImportInv
<1> USE <1>0, ImportAssumption, IdleWorkTyped DEF ImportTypeOK
<1>1. ASSUME NEW b \in Batches, TTLPasses(b) PROVE ImportTypeOK'
  BY <1>1 DEF TTLPasses
<1>2. ASSUME NEW b \in Batches, NEW valid \in BOOLEAN, Validate(b, valid) PROVE ImportTypeOK'
  BY <1>2 DEF Validate, Row, Statuses
<1>3. ASSUME NEW h \in Handlers, NEW b \in Batches, NEW op \in {"expire", "enqueue", "save"},
             Asks(h, op, b)
      PROVE  ImportTypeOK'
  <2>1. batch[b].valid \in BOOLEAN
    BY RowTyped
  <2>2. req' \in [Handlers -> Request]
    BY <1>3, <2>1 DEF Asks, Request
  <2> QED BY <1>3, <2>2 DEF Asks, TableUnchanged
<1>4. ASSUME NEW h \in Handlers, NEW b \in Batches, Confirm(h, b) \/ GetBatch(h, b)
      PROVE  ImportTypeOK'
  <2>1. PICK op \in {"expire", "enqueue", "save"} : Asks(h, op, b)
    BY <1>4 DEF Confirm, GetBatch
  <2> QED BY <1>3, <2>1
<1>5. ASSUME NEW h \in Handlers,
             ExpireImportBatch(h) \/ EnqueueImportBatch(h) \/ SaveImportBatch(h)
      PROVE  ImportTypeOK'
  <2>1. req[h].batch \in Batches /\ req[h].valid \in BOOLEAN
    BY <1>5 DEF ExpireImportBatch, EnqueueImportBatch, SaveImportBatch, RequestsKnow, RequestKnows, Request
  <2>2. CASE ExpireImportBatch(h)
    BY <2>1, <2>2, RowWritten, StatusesTyped DEF ExpireImportBatch, Answered
  <2>3. CASE EnqueueImportBatch(h)
    <3>a. \/ UNCHANGED <<batch, queue>>
          \/ /\ batch' = [batch EXCEPT ![req[h].batch].status = "QUEUED"]
             /\ queue' = Append(queue, req[h].batch)
      BY <2>3 DEF EnqueueImportBatch
    <3>1. batch' \in [Batches -> Row]
      <4>1. [batch EXCEPT ![req[h].batch].status = "QUEUED"] \in [Batches -> Row]
        BY <2>1, StatusesTyped, RowWritten, 0 \in Nat
      <4> QED BY <3>a, <4>1
    <3>3. queue' \in Seq(Batches)
      BY <2>1, <3>a
    <3> QED BY <2>3, <3>1, <3>3 DEF EnqueueImportBatch, Answered
  <2>4. CASE SaveImportBatch(h)
    BY <2>1, <2>4, RowWritten, StatusesTyped DEF SaveImportBatch, Answered
  <2> QED BY <1>5, <2>2, <2>3, <2>4
<1>6. ASSUME NEW h \in Handlers, RequestDies(h) PROVE ImportTypeOK'
  BY <1>6 DEF RequestDies, TableUnchanged, Fault
<1>7. ASSUME NEW w \in Workers, NEW b \in Batches, ClaimNextImportBatch(w, b)
      PROVE  ImportTypeOK'
  <2>1. batch' \in [Batches -> Row] /\ drawn' \in Nat
    <3>1. drawn + 1 \in Nat
      OBVIOUS
    <3> QED BY <1>7, <3>1, RowWritten, StatusesTyped DEF ClaimNextImportBatch
  <2>2. [Idle EXCEPT !.pc = "claimed", !.batch = b, !.token = drawn + 1] \in Work
    <3>1. drawn + 1 \in Nat
      OBVIOUS
    <3> QED BY <3>1 DEF Work
  <2> QED BY <1>7, <2>1, <2>2 DEF ClaimNextImportBatch
<1>8. ASSUME NEW w \in Workers,
             NEW pc \in {"execute", "writing", "committed", "rolledBack"}, WorkerAt(w, pc)
      PROVE  work' \in [Workers -> Work]
  BY <1>8 DEF WorkerAt, Work
<1>9. ASSUME NEW w \in Workers, WorkerQuits(w) PROVE work' \in [Workers -> Work]
  BY <1>9 DEF WorkerQuits
<1>10. ASSUME NEW w \in Workers, ReadClaimed(w) PROVE ImportTypeOK'
  BY <1>8, <1>9, <1>10 DEF ReadClaimed, TableUnchanged
<1>11. ASSUME NEW w \in Workers, UpdateImportProgress(w) PROVE batch' \in [Batches -> Row]
  BY <1>11 DEF UpdateImportProgress, Row
<1>12. ASSUME NEW w \in Workers, Execute(w) PROVE ImportTypeOK'
  <2>1. work' \in [Workers -> Work]
    BY <1>8, <1>9, <1>12 DEF Execute
  <2>2. batch' \in [Batches -> Row]
    BY <1>11, <1>12 DEF Execute
  <2> QED BY <1>12, <2>1, <2>2 DEF Execute
<1>13. ASSUME NEW w \in Workers, ReportPhase(w) PROVE ImportTypeOK'
  <2>1. work' \in [Workers -> Work]
    <3>1. CASE WorkerAt(w, "rolledBack")
      BY <1>8, <3>1
    <3>2. CASE work' = [work EXCEPT ![w].reported = @ + 1]
      BY <1>13, <3>2 DEF ReportPhase, Work, Phases
    <3> QED BY <1>13, <3>1, <3>2 DEF ReportPhase
  <2>2. batch' \in [Batches -> Row]
    BY <1>11, <1>13 DEF ReportPhase
  <2> QED BY <1>13, <2>1, <2>2 DEF ReportPhase
<1>14. ASSUME NEW w \in Workers, Commit(w) \/ CommitAnswerLost(w) PROVE ImportTypeOK'
  <2>1. work' \in [Workers -> Work]
    BY <1>8, <1>14 DEF Commit, CommitAnswerLost
  <2>2. work[w].batch \in Batches
    BY <1>14 DEF Commit, CommitAnswerLost, Commits, WorkersKnow, WorkerKnows
  <2>3. faults' \in 0 .. MaxFaults
    BY <1>14 DEF Commit, CommitAnswerLost, Fault
  <2> QED BY <1>14, <2>1, <2>2, <2>3 DEF Commit, CommitAnswerLost, Commits, TableUnchanged
<1>15. ASSUME NEW w \in Workers, RollBack(w) PROVE ImportTypeOK'
  BY <1>8, <1>15 DEF RollBack, TableUnchanged
<1>16. ASSUME NEW w \in Workers, NEW pc \in {"committed", "rolledBack"},
              NEW status \in {"SUCCEEDED", "FAILED"}, EndImportBatch(w, pc, status)
       PROVE  ImportTypeOK'
  <2>1. work' \in [Workers -> Work]
    BY <1>9, <1>16 DEF EndImportBatch
  <2>2. batch' \in [Batches -> Row]
    <3>1. work[w].batch \in Batches
      BY <1>16 DEF EndImportBatch, WorkersKnow, WorkerKnows
    <3> QED BY <1>16, <3>1, RowWritten, StatusesTyped DEF EndImportBatch
  <2> QED BY <1>16, <2>1, <2>2 DEF EndImportBatch
<1>17. ASSUME NEW w \in Workers, CompleteImportBatch(w) \/ FailImportBatch(w)
       PROVE  ImportTypeOK'
  BY <1>16, <1>17 DEF CompleteImportBatch, FailImportBatch
<1>18. ASSUME NEW w \in Workers, WorkerGivesUp(w) PROVE ImportTypeOK'
  BY <1>9, <1>18 DEF WorkerGivesUp, TableUnchanged, Fault
<1>19. ASSUME NEW b \in Batches, AbandonedLeaseExpires(b) \/ HeldLeaseExpires(b)
       PROVE  ImportTypeOK'
  <2>1. batch' \in [Batches -> Row]
    <3>1. batch' = [batch EXCEPT ![b].expired = TRUE]
      BY <1>19 DEF AbandonedLeaseExpires, HeldLeaseExpires, LeaseExpires
    <3> QED BY <3>1 DEF Row
  <2>2. faults' \in 0 .. MaxFaults
    BY <1>19 DEF AbandonedLeaseExpires, HeldLeaseExpires, Fault
  <2> QED BY <1>19, <2>1, <2>2 DEF AbandonedLeaseExpires, HeldLeaseExpires, LeaseExpires
<1>20. CASE UNCHANGED vars
  BY <1>20 DEF vars
<1> HIDE DEF ImportTypeOK
<1> QED
  BY <1>1, <1>2, <1>4, <1>5, <1>6, <1>7, <1>10, <1>12, <1>13, <1>14, <1>15, <1>17, <1>18,
     <1>19, <1>20
  DEF Next, RequestStep, WorkerStep

-----------------------------------------------------------------------------
(* What a step may do to the rows: a stored batch stays stored, with the   *)
(* rows it was stored with, and becomes SUCCEEDED only after a commit.     *)
RowsKeep ==
    /\ \A b \in Batches :
          batch[b].status # "none" => /\ batch'[b].status # "none"
                                      /\ batch'[b].valid = batch[b].valid
    /\ \A b \in Batches :
          batch'[b].status = "SUCCEEDED" => batch[b].status = "SUCCEEDED" \/ b \in applied
    /\ \A b \in Batches : batch[b].status \in Ended => batch'[b].status \in Ended
    /\ drawn' >= drawn

Facts == RequestsKnow /\ WorkersKnow /\ AppliedIsValid /\ SucceededMeansApplied

(* The facts stay if the rows keep what was said of them, only valid       *)
(* batches are newly applied, and whoever steps knows his batch.           *)
LEMMA FactsKept ==
    ASSUME ImportInv, ImportTypeOK', RowsKeep,
           applied \subseteq applied',
           \A b \in applied' \ applied : batch[b].status # "none" /\ batch[b].valid,
           \A h \in Handlers : req'[h] = req[h] \/ RequestKnows(h)',
           \A w \in Workers : work'[w] = work[w] \/ WorkerKnows(w)'
    PROVE  Facts'
<1> USE DEF ImportInv
<1>1. RequestsKnow'
  BY DEF RequestsKnow, RequestKnows, RowsKeep
<1>2. WorkersKnow'
  <2> SUFFICES ASSUME NEW w \in Workers, work'[w] = work[w] PROVE WorkerKnows(w)'
    BY DEF WorkersKnow
  <2>1. WorkerKnows(w) /\ drawn \in Nat /\ drawn' \in Nat /\ work[w] \in Work
    BY DEF WorkersKnow, ImportTypeOK
  <2>2. work[w].pc # "idle" => work[w].token \in 1 .. drawn'
    BY <2>1 DEF WorkerKnows, RowsKeep
  <2>3. work[w].pc # "idle" => work[w].batch \in Batches /\ batch'[work[w].batch].status # "none"
                            /\ batch'[work[w].batch].valid = batch[work[w].batch].valid
    BY <2>1 DEF WorkerKnows, RowsKeep
  <2> QED BY <2>1, <2>2, <2>3 DEF WorkerKnows
<1>3. AppliedIsValid'
  BY DEF AppliedIsValid, RowsKeep, ImportTypeOK
<1>4. SucceededMeansApplied'
  BY <1>3 DEF SucceededMeansApplied, AppliedIsValid, RowsKeep
<1> QED BY <1>1, <1>2, <1>3, <1>4 DEF Facts

(* Every step keeps the facts, and the rows what was said of them.         *)
LEMMA ImportFactsStep == ImportInv /\ ImportTypeOK' /\ [Next]_vars => Facts' /\ RowsKeep
<1> SUFFICES ASSUME ImportInv, ImportTypeOK', [Next]_vars
             PROVE  Facts' /\ RowsKeep
  OBVIOUS
<1>0. /\ batch \in [Batches -> Row] /\ work \in [Workers -> Work] /\ req \in [Handlers -> Request]
      /\ drawn \in Nat /\ (\A w \in Workers : WorkerKnows(w)) /\ \A h \in Handlers : RequestKnows(h)
  BY DEF ImportInv, ImportTypeOK, WorkersKnow, RequestsKnow
<1> USE <1>0, ImportAssumption, IdleWorkTyped
<1>a. ASSUME NEW w \in Workers, WorkerQuits(w)
      PROVE  \A v \in Workers : work'[v] = work[v] \/ WorkerKnows(v)'
  BY <1>a DEF WorkerQuits, Idle, WorkerKnows
<1>b. ASSUME NEW w \in Workers, NEW pc \in {"execute", "rolledBack"}, WorkerAt(w, pc), RowsKeep,
             work[w].pc # "idle", drawn' = drawn
      PROVE  \A v \in Workers : work'[v] = work[v] \/ WorkerKnows(v)'
  <2>1. /\ work'[w].pc = pc /\ work'[w].batch = work[w].batch /\ work'[w].token = work[w].token
        /\ \A v \in Workers \ {w} : work'[v] = work[v]
    BY <1>b DEF WorkerAt, Work
  <2>2. WorkerKnows(w)'
    BY <1>b, <2>1 DEF WorkerKnows, RowsKeep
  <2> QED BY <2>1, <2>2
<1>c. ASSUME NEW h \in Handlers, req' = [req EXCEPT ![h] = NoRequest]
      PROVE  \A g \in Handlers : req'[g] = req[g] \/ RequestKnows(g)'
  BY <1>c DEF NoRequest, RequestKnows
<1>d. ASSUME NEW w \in Workers, UpdateImportProgress(w), work[w].pc # "idle", drawn' = drawn
      PROVE  RowsKeep
  BY <1>d DEF UpdateImportProgress, WorkerKnows, RowsKeep, Row, Ended
<1>e. ASSUME UNCHANGED <<batch, drawn>> PROVE RowsKeep
  BY <1>e DEF RowsKeep
<1>1. ASSUME NEW b \in Batches, TTLPasses(b) PROVE Facts' /\ RowsKeep
  BY <1>1, <1>e, FactsKept DEF TTLPasses
<1>2. ASSUME NEW b \in Batches, NEW valid \in BOOLEAN, Validate(b, valid)
      PROVE  Facts' /\ RowsKeep
  <2>1. RowsKeep
    BY <1>2 DEF Validate, RowsKeep, Row, Ended
  <2> QED BY <1>2, <2>1, FactsKept DEF Validate
<1>3. ASSUME NEW h \in Handlers, NEW b \in Batches, NEW op \in {"expire", "enqueue", "save"},
             batch[b].status # "none", Asks(h, op, b)
      PROVE  Facts' /\ RowsKeep
  <2>1. RowsKeep
    BY <1>3, <1>e DEF Asks, TableUnchanged
  <2>2. \A g \in Handlers : req'[g] = req[g] \/ RequestKnows(g)'
    BY <1>3 DEF Asks, TableUnchanged, RequestKnows
  <2> QED BY <1>3, <2>1, <2>2, FactsKept DEF Asks
<1>4. ASSUME NEW h \in Handlers, NEW b \in Batches, Confirm(h, b) \/ GetBatch(h, b)
      PROVE  Facts' /\ RowsKeep
  <2>1. PICK op \in {"expire", "enqueue", "save"} : Asks(h, op, b)
    BY <1>4 DEF Confirm, GetBatch
  <2>2. batch[b].status # "none"
    BY <1>4 DEF Confirm, GetBatch
  <2> QED BY <1>3, <2>1, <2>2
<1>5. ASSUME NEW h \in Handlers,
             ExpireImportBatch(h) \/ EnqueueImportBatch(h) \/ SaveImportBatch(h)
      PROVE  Facts' /\ RowsKeep
  <2>1. RequestKnows(h) /\ req[h].op # "none"
    BY <1>5 DEF ExpireImportBatch, EnqueueImportBatch, SaveImportBatch
  <2>2. CASE ExpireImportBatch(h)
    <3>1. RowsKeep
      BY <2>1, <2>2 DEF ExpireImportBatch, Answered, RequestKnows, RowsKeep, Row, Ended
    <3> QED BY <1>c, <2>2, <3>1, FactsKept DEF ExpireImportBatch, Answered
  <2>3. CASE EnqueueImportBatch(h)
    <3>1. RowsKeep
      <4>1. CASE UNCHANGED batch
        BY <1>e, <2>3, <4>1 DEF EnqueueImportBatch, Answered
      <4>2. CASE /\ batch[req[h].batch].status = "VALIDATED"
                 /\ batch' = [batch EXCEPT ![req[h].batch].status = "QUEUED"]
        <5>1. drawn' = drawn /\ req[h].batch \in Batches
          BY <2>1, <2>3 DEF EnqueueImportBatch, Answered, RequestKnows
        <5> QED BY <4>2, <5>1 DEF RowsKeep, Row, Ended
      <4> QED BY <2>3, <4>1, <4>2 DEF EnqueueImportBatch
    <3> QED BY <1>c, <2>3, <3>1, FactsKept DEF EnqueueImportBatch, Answered
  <2>4. CASE SaveImportBatch(h)
    <3>1. RowsKeep
      BY <2>1, <2>4 DEF SaveImportBatch, Answered, RequestKnows, RowsKeep, Row, Ended
    <3> QED BY <1>c, <2>4, <3>1, FactsKept DEF SaveImportBatch, Answered
  <2> QED BY <1>5, <2>2, <2>3, <2>4
<1>6. ASSUME NEW h \in Handlers, RequestDies(h) PROVE Facts' /\ RowsKeep
  BY <1>6, <1>c, <1>e, FactsKept DEF RequestDies, TableUnchanged
<1>7. ASSUME NEW w \in Workers, NEW b \in Batches, ClaimNextImportBatch(w, b)
      PROVE  Facts' /\ RowsKeep
  <2>1. batch[b].status \in {"QUEUED", "IMPORTING"}
    BY <1>7 DEF ClaimNextImportBatch, IsNextToClaim, Claimable
  <2>2. RowsKeep
    BY <1>7, <2>1 DEF ClaimNextImportBatch, RowsKeep, Row, Ended
  <2>3. \A v \in Workers : work'[v] = work[v] \/ WorkerKnows(v)'
    <3>1. /\ work'[w].pc = "claimed" /\ work'[w].batch = b /\ work'[w].token = drawn + 1
          /\ \A v \in Workers \ {w} : work'[v] = work[v]
      BY <1>7 DEF ClaimNextImportBatch, Idle
    <3>2. drawn' = drawn + 1 /\ batch'[b].status # "none"
      BY <1>7, <2>1, <2>2 DEF ClaimNextImportBatch, RowsKeep
    <3>3. WorkerKnows(w)'
      BY <3>1, <3>2 DEF WorkerKnows
    <3> QED BY <3>1, <3>3
  <2> QED BY <1>7, <2>2, <2>3, FactsKept DEF ClaimNextImportBatch
<1>8. ASSUME NEW w \in Workers, ReadClaimed(w) PROVE Facts' /\ RowsKeep
  <2>1. RowsKeep
    BY <1>8, <1>e DEF ReadClaimed, TableUnchanged
  <2>2. \A v \in Workers : work'[v] = work[v] \/ WorkerKnows(v)'
    BY <1>8, <1>a, <1>b, <2>1 DEF ReadClaimed
  <2> QED BY <1>8, <2>1, <2>2, FactsKept DEF ReadClaimed
<1>9. ASSUME NEW w \in Workers, Execute(w) PROVE Facts' /\ RowsKeep
  <2>1. RowsKeep
    BY <1>9, <1>d, <1>e DEF Execute
  <2>2. \A v \in Workers : work'[v] = work[v] \/ WorkerKnows(v)'
    <3>1. CASE WorkerAt(w, "rolledBack") \/ WorkerQuits(w)
      BY <1>9, <1>a, <1>b, <2>1, <3>1 DEF Execute
    <3>2. CASE WorkerAt(w, "writing")
      <4>1. /\ work'[w].pc = "writing" /\ work'[w].batch = work[w].batch
            /\ work'[w].token = work[w].token
            /\ \A v \in Workers \ {w} : work'[v] = work[v]
        BY <3>2 DEF WorkerAt, Work
      <4>2. batch[work[w].batch].valid
        <5>1. CASE WorkerAt(w, "rolledBack")
          BY <3>2, <4>1, <5>1 DEF WorkerAt, Work
        <5>2. CASE WorkerQuits(w)
          BY <4>1, <5>2 DEF WorkerQuits, Idle
        <5> QED BY <1>9, <5>1, <5>2 DEF Execute
      <4>3. WorkerKnows(w)'
        BY <1>9, <2>1, <4>1, <4>2 DEF Execute, WorkerKnows, RowsKeep
      <4> QED BY <4>1, <4>3
    <3> QED BY <1>9, <3>1, <3>2 DEF Execute
  <2> QED BY <1>9, <2>1, <2>2, FactsKept DEF Execute
<1>10. ASSUME NEW w \in Workers, ReportPhase(w) PROVE Facts' /\ RowsKeep
  <2>1. RowsKeep
    BY <1>10, <1>d, <1>e DEF ReportPhase
  <2>2. \A v \in Workers : work'[v] = work[v] \/ WorkerKnows(v)'
    <3>1. CASE WorkerAt(w, "rolledBack")
      BY <1>10, <1>b, <2>1, <3>1 DEF ReportPhase
    <3>2. CASE work' = [work EXCEPT ![w].reported = @ + 1]
      <4>1. /\ work'[w].pc = work[w].pc /\ work'[w].batch = work[w].batch
            /\ work'[w].token = work[w].token
            /\ \A v \in Workers \ {w} : work'[v] = work[v]
        BY <3>2 DEF Work
      <4>2. WorkerKnows(w)'
        BY <1>10, <2>1, <4>1 DEF ReportPhase, WorkerKnows, RowsKeep
      <4> QED BY <4>1, <4>2
    <3> QED BY <1>10, <3>1, <3>2 DEF ReportPhase
  <2> QED BY <1>10, <2>1, <2>2, FactsKept DEF ReportPhase
<1>11. ASSUME NEW w \in Workers, Commit(w) \/ CommitAnswerLost(w)
       PROVE  Facts' /\ RowsKeep
  <2>1. /\ work[w].pc = "writing" /\ applied' = applied \cup {work[w].batch}
        /\ UNCHANGED <<batch, drawn, req>>
        /\ WorkerAt(w, "committed") \/ WorkerAt(w, "rolledBack")
    BY <1>11 DEF Commit, CommitAnswerLost, Commits, TableUnchanged
  <2>2. RowsKeep
    BY <2>1, <1>e
  <2>3. \A v \in Workers : work'[v] = work[v] \/ WorkerKnows(v)'
    <3>1. /\ work'[w].pc \in {"committed", "rolledBack"} /\ work'[w].batch = work[w].batch
          /\ work'[w].token = work[w].token
          /\ \A v \in Workers \ {w} : work'[v] = work[v]
      BY <2>1 DEF WorkerAt, Work
    <3>2. WorkerKnows(w)'
      BY <2>1, <3>1 DEF WorkerKnows
    <3> QED BY <3>1, <3>2
  <2>4. batch[work[w].batch].status # "none" /\ batch[work[w].batch].valid
    BY <2>1 DEF WorkerKnows
  <2> QED BY <2>1, <2>2, <2>3, <2>4, FactsKept
<1>12. ASSUME NEW w \in Workers, RollBack(w) PROVE Facts' /\ RowsKeep
  <2>1. RowsKeep
    BY <1>12, <1>e DEF RollBack, TableUnchanged
  <2>2. \A v \in Workers : work'[v] = work[v] \/ WorkerKnows(v)'
    BY <1>12, <1>b, <2>1 DEF RollBack
  <2> QED BY <1>12, <2>1, <2>2, FactsKept DEF RollBack
<1>13. ASSUME NEW w \in Workers, CompleteImportBatch(w) \/ FailImportBatch(w)
       PROVE  Facts' /\ RowsKeep
  <2>1. PICK pc \in {"committed", "rolledBack"}, status \in {"SUCCEEDED", "FAILED"} :
           EndImportBatch(w, pc, status) /\ (status = "SUCCEEDED" => pc = "committed")
    BY <1>13 DEF CompleteImportBatch, FailImportBatch
  <2>2. work[w].batch \in Batches /\ (status = "SUCCEEDED" => work[w].batch \in applied)
    BY <2>1 DEF EndImportBatch, WorkerKnows
  <2>3. RowsKeep
    BY <2>1, <2>2 DEF EndImportBatch, RowsKeep, Row, Ended
  <2>4. \A v \in Workers : work'[v] = work[v] \/ WorkerKnows(v)'
    BY <1>a, <2>1 DEF EndImportBatch
  <2> QED BY <2>1, <2>3, <2>4, FactsKept DEF EndImportBatch
<1>14. ASSUME NEW w \in Workers, WorkerGivesUp(w) PROVE Facts' /\ RowsKeep
  BY <1>14, <1>a, <1>e, FactsKept DEF WorkerGivesUp, TableUnchanged
<1>15. ASSUME NEW b \in Batches, AbandonedLeaseExpires(b) \/ HeldLeaseExpires(b)
       PROVE  Facts' /\ RowsKeep
  <2>1. LeaseExpires(b)
    BY <1>15 DEF AbandonedLeaseExpires, HeldLeaseExpires
  <2>2. RowsKeep
    BY <2>1 DEF LeaseExpires, RowsKeep, Row, Ended
  <2> QED BY <2>1, <2>2, FactsKept DEF LeaseExpires
<1>16. CASE UNCHANGED vars
  BY <1>16, <1>e, FactsKept DEF vars
<1> QED
  BY <1>1, <1>2, <1>4, <1>5, <1>6, <1>7, <1>8, <1>9, <1>10, <1>11, <1>12, <1>13, <1>14,
     <1>15, <1>16
  DEF Next, RequestStep, WorkerStep

-----------------------------------------------------------------------------
(* The lease as a worker in its transaction sees it: it is the worker's    *)
(* and does not run out, or the batch has ended without the worker.        *)
LeaseOf(b, t) ==
    \/ batch[b].status \in Ended
    \/ batch[b].status = "IMPORTING" /\ batch[b].token = t /\ ~batch[b].expired

Writes(w, b, t) == work[w].pc = "writing" /\ work[w].batch = b /\ work[w].token = t

TokensDrawn == \A w \in Workers : work[w].token # None => work[w].token \in 1 .. drawn
TokensOwn ==
    \A v, w \in Workers : work[v].token = work[w].token /\ work[v].token # None => v = w
WritersLeased ==
    \A w \in Workers, b \in Batches, t \in Nat : Writes(w, b, t) => LeaseOf(b, t)

WriterInv == TokensDrawn /\ TokensOwn /\ WritersLeased /\ OneWriterPerBatch

(* A step keeps the lease of every worker that writes. *)
LeasesKept ==
    \A w \in Workers, b \in Batches, t \in Nat :
       Writes(w, b, t) /\ LeaseOf(b, t) => LeaseOf(b, t)'

(* A worker lost its token or has the one it had, and writes only what it wrote. *)
Quiet(w) ==
    /\ work'[w].token \in {work[w].token, None}
    /\ work'[w].pc = "writing" => /\ work[w].pc = "writing" /\ work'[w].batch = work[w].batch
                                 /\ work'[w].token = work[w].token

(* A step in which no worker begins to write and no lease is lost leaves   *)
(* one writer to a batch.                                                  *)
LEMMA QuietKeepsWriters ==
    ASSUME ImportInv, WriterInv, LeasesKept, drawn' = drawn, \A w \in Workers : Quiet(w)
    PROVE  WriterInv'
<1>1. TokensDrawn' /\ TokensOwn'
  BY DEF WriterInv, TokensDrawn, TokensOwn, Quiet
<1>2. WritersLeased'
  BY DEF WriterInv, WritersLeased, LeasesKept, Quiet, Writes
<1>3. OneWriterPerBatch'
  BY DEF WriterInv, OneWriterPerBatch, Quiet
<1> QED BY <1>1, <1>2, <1>3 DEF WriterInv

(* While heartbeats arrive, no step takes the lease of a worker that       *)
(* writes: only an expired lease is claimed again (ClaimNextBatch).        *)
LEMMA LeasesStep ==
    ASSUME ~HeartbeatsMayFail
    PROVE  ImportInv /\ WriterInv /\ [Next]_vars => LeasesKept
<1> SUFFICES ASSUME ImportInv, WriterInv, [Next]_vars PROVE LeasesKept
  OBVIOUS
<1>0. /\ batch \in [Batches -> Row] /\ (\A w \in Workers : WorkerKnows(w))
      /\ \A h \in Handlers : RequestKnows(h)
  BY DEF ImportInv, ImportTypeOK, WorkersKnow, RequestsKnow
<1> USE <1>0
<1>a. ASSUME UNCHANGED batch PROVE LeasesKept
  BY <1>a DEF LeasesKept, LeaseOf
<1>b. ASSUME NEW w \in Workers, UpdateImportProgress(w) PROVE LeasesKept
  BY <1>b DEF UpdateImportProgress, LeasesKept, LeaseOf, Row
<1>1. ASSUME NEW b \in Batches, TTLPasses(b) PROVE LeasesKept
  BY <1>1, <1>a DEF TTLPasses
<1>2. ASSUME NEW b \in Batches, NEW valid \in BOOLEAN, Validate(b, valid) PROVE LeasesKept
  BY <1>2 DEF Validate, LeasesKept, LeaseOf, Row, Ended
<1>3. ASSUME NEW h \in Handlers, NEW b \in Batches, Confirm(h, b) \/ GetBatch(h, b)
      PROVE  LeasesKept
  BY <1>3, <1>a DEF Confirm, GetBatch, Asks, TableUnchanged
<1>4. ASSUME NEW h \in Handlers, ExpireImportBatch(h) PROVE LeasesKept
  BY <1>4 DEF ExpireImportBatch, LeasesKept, LeaseOf, Row, Ended
<1>5. ASSUME NEW h \in Handlers, EnqueueImportBatch(h) PROVE LeasesKept
  <2>1. CASE UNCHANGED batch
    BY <1>a, <2>1
  <2>2. CASE /\ batch[req[h].batch].status = "VALIDATED"
             /\ batch' = [batch EXCEPT ![req[h].batch].status = "QUEUED"]
    BY <2>2 DEF LeasesKept, LeaseOf, Row, Ended
  <2> QED BY <1>5, <2>1, <2>2 DEF EnqueueImportBatch
<1>6. ASSUME NEW h \in Handlers, SaveImportBatch(h) PROVE LeasesKept
  BY <1>6 DEF SaveImportBatch, LeasesKept, LeaseOf, Row, Ended
<1>7. ASSUME NEW h \in Handlers, RequestDies(h) PROVE LeasesKept
  BY <1>7, <1>a DEF RequestDies, TableUnchanged
<1>8. ASSUME NEW w \in Workers, NEW b \in Batches, ClaimNextImportBatch(w, b) PROVE LeasesKept
  <2>1. \/ batch[b].status = "QUEUED"
        \/ batch[b].status = "IMPORTING" /\ batch[b].expired
    BY <1>8 DEF ClaimNextImportBatch, IsNextToClaim, Claimable
  <2>2. \A t \in Nat : ~LeaseOf(b, t)
    BY <2>1 DEF LeaseOf, Ended
  <2>3. \A c \in Batches \ {b} : batch'[c] = batch[c]
    BY <1>8 DEF ClaimNextImportBatch
  <2> QED BY <2>2, <2>3 DEF LeasesKept, LeaseOf
<1>9. ASSUME NEW w \in Workers, ReadClaimed(w) \/ RollBack(w) \/ WorkerGivesUp(w)
                                \/ Commit(w) \/ CommitAnswerLost(w)
      PROVE  LeasesKept
  BY <1>9, <1>a DEF ReadClaimed, RollBack, WorkerGivesUp, Commit, CommitAnswerLost, Commits, TableUnchanged
<1>10. ASSUME NEW w \in Workers, Execute(w) \/ ReportPhase(w) PROVE LeasesKept
  BY <1>10, <1>a, <1>b DEF Execute, ReportPhase
<1>11. ASSUME NEW w \in Workers, NEW pc \in {"committed", "rolledBack"},
              NEW status \in {"SUCCEEDED", "FAILED"}, EndImportBatch(w, pc, status)
       PROVE  LeasesKept
  BY <1>11 DEF EndImportBatch, LeasesKept, LeaseOf, Row, Ended
<1>12. ASSUME NEW w \in Workers, CompleteImportBatch(w) \/ FailImportBatch(w) PROVE LeasesKept
  BY <1>11, <1>12 DEF CompleteImportBatch, FailImportBatch
<1>13. ASSUME NEW b \in Batches, AbandonedLeaseExpires(b) \/ HeldLeaseExpires(b)
       PROVE  LeasesKept
  <2>1. ASSUME NEW w \in Workers, NEW t \in Nat, Writes(w, b, t), LeaseOf(b, t)
        PROVE  batch[b].status \in Ended
    <3> SUFFICES ASSUME batch[b].token = t PROVE FALSE
      BY <2>1 DEF LeaseOf
    <3>1. w \in Holders(b)
      BY <2>1 DEF Holders, Writes
    <3>2. \A v \in Holders(b) : v = w
      BY <2>1, ImportAssumption DEF Holders, Writes, WriterInv, TokensOwn
    <3>3. HeldLeaseExpires(b)
      BY <1>13, <3>1 DEF AbandonedLeaseExpires
    <3> QED BY <2>1, <3>2, <3>3 DEF HeldLeaseExpires, Writes
  <2>2. batch' = [batch EXCEPT ![b].expired = TRUE]
    BY <1>13 DEF AbandonedLeaseExpires, HeldLeaseExpires, LeaseExpires
  <2> QED BY <2>1, <2>2 DEF LeasesKept, LeaseOf, Row
<1>14. CASE UNCHANGED vars
  BY <1>14, <1>a DEF vars
<1> QED
  BY <1>1, <1>2, <1>3, <1>4, <1>5, <1>6, <1>7, <1>8, <1>9, <1>10, <1>12, <1>13, <1>14
  DEF Next, RequestStep, WorkerStep

(* So no step lets a second worker write a batch.                          *)
LEMMA WritersStep ==
    ASSUME ~HeartbeatsMayFail
    PROVE  ImportInv /\ WriterInv /\ [Next]_vars => WriterInv'
<1> SUFFICES ASSUME ImportInv, WriterInv, [Next]_vars PROVE WriterInv'
  OBVIOUS
<1>0. /\ LeasesKept /\ work \in [Workers -> Work] /\ drawn \in Nat
      /\ \A w \in Workers : WorkerKnows(w)
  BY LeasesStep DEF ImportInv, ImportTypeOK, WorkersKnow
<1> USE <1>0, ImportAssumption
<1>a. ASSUME UNCHANGED <<work, drawn>> PROVE WriterInv'
  BY <1>a, QuietKeepsWriters DEF Quiet
<1>b. ASSUME NEW w \in Workers, WorkerQuits(w), drawn' = drawn PROVE WriterInv'
  <2>1. \A v \in Workers : Quiet(v)
    BY <1>b DEF WorkerQuits, Idle, Quiet
  <2> QED BY <1>b, <2>1, QuietKeepsWriters
<1>c. ASSUME NEW w \in Workers, NEW pc \in {"execute", "committed", "rolledBack"},
             WorkerAt(w, pc), drawn' = drawn
      PROVE  WriterInv'
  <2>1. \A v \in Workers : Quiet(v)
    BY <1>c DEF WorkerAt, Work, Quiet
  <2> QED BY <1>c, <2>1, QuietKeepsWriters
<1>1. CASE RequestStep
  BY <1>1, <1>a
  DEF RequestStep, TTLPasses, Validate, Confirm, GetBatch, Asks, Answered, ExpireImportBatch,
      EnqueueImportBatch, SaveImportBatch, RequestDies
<1>2. ASSUME NEW w \in Workers, NEW b \in Batches, ClaimNextImportBatch(w, b) PROVE WriterInv'
  <2>1. /\ drawn' = drawn + 1
        /\ work'[w].pc = "claimed" /\ work'[w].token = drawn + 1
        /\ \A v \in Workers \ {w} : work'[v] = work[v]
    BY <1>2 DEF ClaimNextImportBatch, Idle
  <2>2. \A v \in Workers : work[v].token # drawn + 1
    BY DEF WriterInv, TokensDrawn
  <2>3. TokensDrawn' /\ TokensOwn'
    BY <2>1, <2>2 DEF WriterInv, TokensDrawn, TokensOwn
  <2>4. WritersLeased'
    BY <2>1 DEF WriterInv, WritersLeased, LeasesKept, Writes
  <2>5. OneWriterPerBatch'
    BY <2>1 DEF WriterInv, OneWriterPerBatch
  <2> QED BY <2>3, <2>4, <2>5 DEF WriterInv
<1>3. ASSUME NEW w \in Workers, ReadClaimed(w) \/ RollBack(w) \/ WorkerGivesUp(w)
                                \/ Commit(w) \/ CommitAnswerLost(w)
      PROVE  WriterInv'
  BY <1>3, <1>b, <1>c DEF ReadClaimed, RollBack, WorkerGivesUp, Commit, CommitAnswerLost, Commits
<1>4. ASSUME NEW w \in Workers, Execute(w) PROVE WriterInv'
  <2>1. CASE WorkerAt(w, "rolledBack") \/ WorkerQuits(w)
    BY <1>4, <1>b, <1>c, <2>1 DEF Execute
  <2>2. CASE /\ WorkerAt(w, "writing") /\ HoldsLease(w) /\ UpdateImportProgress(w)
    <3>1. /\ work'[w].pc = "writing" /\ work'[w].batch = work[w].batch
          /\ work'[w].token = work[w].token
          /\ \A v \in Workers \ {w} : work'[v] = work[v]
      BY <2>2 DEF WorkerAt, Work
    <3>2. work[w].batch \in Batches /\ work[w].token \in Nat /\ drawn' = drawn
      BY <1>4 DEF Execute, WorkerKnows
    <3>3. TokensDrawn' /\ TokensOwn'
      BY <3>1, <3>2 DEF WriterInv, TokensDrawn, TokensOwn
    <3>4. LeaseOf(work[w].batch, work[w].token)'
      <4>1. /\ batch'[work[w].batch].status = "IMPORTING"
            /\ batch'[work[w].batch].token = work[w].token
            /\ ~batch'[work[w].batch].expired
        BY <2>2, <3>2 DEF HoldsLease, UpdateImportProgress, ImportInv, ImportTypeOK, Row
      <4> QED BY <3>1, <4>1 DEF LeaseOf
    <3>5. WritersLeased'
      BY <3>1, <3>4 DEF WriterInv, WritersLeased, LeasesKept, Writes, LeaseOf
    <3>6. \A v \in Workers \ {w} : ~(work[v].pc = "writing" /\ work[v].batch = work[w].batch)
      <4> SUFFICES ASSUME NEW v \in Workers \ {w}, work[v].pc = "writing",
                          work[v].batch = work[w].batch
                   PROVE  FALSE
        OBVIOUS
      <4>1. work[v].token \in Nat
        BY DEF WorkerKnows
      <4>2. LeaseOf(work[w].batch, work[v].token)
        BY <3>2, <4>1 DEF WriterInv, WritersLeased, Writes
      <4>3. work[v].token = work[w].token
        BY <2>2, <4>2 DEF HoldsLease, LeaseOf, Ended
      <4> QED BY <3>2, <4>1, <4>3 DEF WriterInv, TokensOwn
    <3>7. OneWriterPerBatch'
      BY <3>1, <3>6 DEF WriterInv, OneWriterPerBatch
    <3> QED BY <3>3, <3>5, <3>7 DEF WriterInv
  <2> QED BY <1>4, <2>1, <2>2 DEF Execute
<1>5. ASSUME NEW w \in Workers, ReportPhase(w) PROVE WriterInv'
  <2>1. CASE WorkerAt(w, "rolledBack")
    BY <1>5, <1>c, <2>1 DEF ReportPhase
  <2>2. CASE work' = [work EXCEPT ![w].reported = @ + 1]
    <3>1. \A v \in Workers : Quiet(v)
      BY <2>2 DEF Work, Quiet
    <3> QED BY <1>5, <3>1, QuietKeepsWriters DEF ReportPhase
  <2> QED BY <1>5, <2>1, <2>2 DEF ReportPhase
<1>6. ASSUME NEW w \in Workers, CompleteImportBatch(w) \/ FailImportBatch(w) PROVE WriterInv'
  BY <1>6, <1>b DEF CompleteImportBatch, FailImportBatch, EndImportBatch
<1>7. ASSUME NEW b \in Batches, AbandonedLeaseExpires(b) \/ HeldLeaseExpires(b) PROVE WriterInv'
  BY <1>7, <1>a DEF AbandonedLeaseExpires, HeldLeaseExpires, LeaseExpires
<1>8. CASE UNCHANGED vars
  BY <1>8, <1>a DEF vars
<1> QED BY <1>1, <1>2, <1>3, <1>4, <1>5, <1>6, <1>7, <1>8 DEF Next, WorkerStep

(* The invariant holds of every behaviour. *)
THEOREM ImportInvariant == Spec => []ImportInv
<1>1. Init => ImportInv
  BY ImportInitial
<1>2. ImportInv /\ [Next]_vars => ImportInv'
  BY ImportTypeStep, ImportFactsStep DEF ImportInv, Facts
<1> QED BY <1>1, <1>2, PTL DEF Spec

(* The rows are well formed, SUCCEEDED is only said of committed rows, and *)
(* only valid rows are committed, for any number of workers and faults.    *)
(* (CompleteImportBatch, the checks of Confirm and of execute)             *)
THEOREM BatchesStayConsistent == Spec => []BatchesConsistent
<1>1. ImportInv => BatchesConsistent
  BY DEF ImportInv, BatchesConsistent
<1> QED BY <1>1, ImportInvariant, PTL

EndsKept == \A b \in Batches : batch[b].status \in Ended => batch'[b].status \in Ended

(* No late confirmation, slow worker or stale save brings an ended batch   *)
(* back to work. (the conditional updates of import_repository.go)         *)
THEOREM EndedBatchesStayEnded == Spec => EndedStaysEnded
<1>1. ImportInv /\ [Next]_vars => [EndsKept]_vars
  BY ImportTypeStep, ImportFactsStep DEF RowsKeep, EndsKept
<1>2. EndedStaysEnded <=> [][EndsKept]_vars
  BY PTL DEF EndedStaysEnded, EndsKept
<1> QED BY <1>1, <1>2, ImportInvariant, PTL DEF Spec

(* While heartbeats are answered, no two workers are inside the business   *)
(* transaction of one batch, for any number of workers, processes, faults  *)
(* and stale saves. (ClaimNextImportBatch, heartbeat, execute)             *)
THEOREM OneWriterAlways == ASSUME ~HeartbeatsMayFail PROVE Spec => []OneWriterPerBatch
<1>1. Init => WriterInv
  BY ImportAssumption
  DEF Init, Idle, WriterInv, TokensDrawn, TokensOwn, WritersLeased, Writes, OneWriterPerBatch
<1>2. ImportInv /\ WriterInv /\ [Next]_vars => WriterInv'
  BY WritersStep
<1>3. WriterInv => OneWriterPerBatch
  BY DEF WriterInv
<1> QED BY <1>1, <1>2, <1>3, ImportInvariant, PTL DEF Spec
=============================================================================
