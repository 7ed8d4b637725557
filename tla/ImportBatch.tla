----------------------------- MODULE ImportBatch -----------------------------
(***************************************************************************)
(* The life of import batches: the requests of ImportService that validate,*)
(* confirm and read a batch, and the workers that claim confirmed batches  *)
(* under a lease and write them in one transaction (ImportWorker over      *)
(* GormImportRepository).                                                  *)
(*                                                                         *)
(* One database statement or transaction is one step. The rows of a batch  *)
(* are two facts: whether one of them is invalid, and whether the business *)
(* transaction that writes them committed. What can go wrong without a     *)
(* business reason (a statement that fails, an answer that is lost, a      *)
(* process that dies, a lease that runs out under a live worker) is drawn  *)
(* from a budget of MaxFaults, so that a run is finite.                    *)
(***************************************************************************)
EXTENDS Naturals, Sequences, FiniteSets

CONSTANTS Batches,   \* batch ids
          UserBatches, \* the batches of type "users"; the others import org units
          Workers,   \* import workers, of any number of server processes
          Handlers,  \* requests the service works on at the same time
          MaxFaults, \* bound: how many faults a behaviour has
          HeartbeatsMayFail, \* whether a heartbeat of a running import may fail
          None       \* "no value"

ASSUME ImportAssumption ==
    /\ UserBatches \subseteq Batches
    /\ MaxFaults \in Nat
    /\ HeartbeatsMayFail \in BOOLEAN
    /\ None \notin Batches \cup Nat

VARIABLES batch,    \* tenant_import_batches
          queue,    \* the batches ever confirmed, in the order of confirmed_at
          outdated, \* batches validated longer than batchTTL ago
          drawn,    \* how many lease tokens were drawn; the random token of a
                    \* claim stands for its number, no claim draws it again
          work,     \* the local state of each worker
          req,      \* the local state of each request
          applied,  \* history: the batches whose rows were committed
          faults    \* how many faults have happened

vars == <<batch, queue, outdated, drawn, work, req, applied, faults>>

Ended == {"SUCCEEDED", "FAILED", "EXPIRED"}
Statuses == {"none", "VALIDATED", "QUEUED", "IMPORTING"} \cup Ended
Phases == <<"USERS", "MEMBERS", "ROLES", "ORGANIZATIONS", "FINALIZING">>

Row == [status : Statuses, valid : BOOLEAN, token : Nat \cup {None}, expired : BOOLEAN]
Idle == [pc |-> "idle", batch |-> None, token |-> None, reported |-> 0]
Work == [pc : {"idle", "claimed", "execute", "writing", "committed", "rolledBack"},
         batch : Batches \cup {None}, token : Nat \cup {None},
         reported : 0 .. Len(Phases)]
NoRequest == [op |-> "none", batch |-> None, valid |-> FALSE]
Request == [op : {"none", "expire", "enqueue", "save"}, batch : Batches \cup {None},
            valid : BOOLEAN]

ImportTypeOK ==
    /\ batch \in [Batches -> Row]
    /\ queue \in Seq(Batches)
    /\ outdated \subseteq Batches
    /\ drawn \in Nat
    /\ work \in [Workers -> Work]
    /\ req \in [Handlers -> Request]
    /\ applied \subseteq Batches
    /\ faults \in 0 .. MaxFaults

Init ==
    /\ batch = [b \in Batches |-> [status |-> "none", valid |-> FALSE,
                                   token |-> None, expired |-> FALSE]]
    /\ queue = <<>>
    /\ outdated = {}
    /\ drawn = 0
    /\ work = [w \in Workers |-> Idle]
    /\ req = [h \in Handlers |-> NoRequest]
    /\ applied = {}
    /\ faults = 0

Fault == faults < MaxFaults /\ faults' = faults + 1
TableUnchanged == UNCHANGED <<batch, queue, outdated>>

-----------------------------------------------------------------------------
(* The requests. Validate stores the batch with its rows, valid or not.    *)
Validate(b, valid) ==
    /\ batch[b].status = "none"
    /\ batch' = [batch EXCEPT ![b].status = "VALIDATED", ![b].valid = valid]
    /\ UNCHANGED <<queue, outdated, drawn, work, req, applied, faults>>

(* Only a VALIDATED batch can still be confirmed, so only its age matters. *)
TTLPasses(b) ==
    /\ batch[b].status = "VALIDATED" /\ b \notin outdated
    /\ outdated' = outdated \cup {b}
    /\ UNCHANGED <<batch, queue, drawn, work, req, applied, faults>>

Asks(h, op, b) ==
    /\ req[h].op = "none"
    /\ req' = [req EXCEPT ![h] = [op |-> op, batch |-> b, valid |-> batch[b].valid]]
    /\ TableUnchanged /\ UNCHANGED <<drawn, work, applied, faults>>
Answered(h) ==
    /\ req' = [req EXCEPT ![h] = NoRequest]
    /\ UNCHANGED <<outdated, drawn, work, applied, faults>>

(* Confirm reads status, TTL and counts. Any status past VALIDATED is an   *)
(* idempotent answer, an invalid row a refusal; neither writes.            *)
Confirm(h, b) ==
    /\ batch[b].status \in {"VALIDATED", "EXPIRED"}
    /\ IF batch[b].status = "EXPIRED" \/ b \in outdated
       THEN Asks(h, "expire", b)
       ELSE batch[b].valid /\ Asks(h, "enqueue", b)

(* The conditional updates of Confirm; one that matches no row is no error *)
(* to the client.                                                          *)
ExpireImportBatch(h) ==
    /\ req[h].op = "expire"
    /\ LET b == req[h].batch IN
         batch' = IF batch[b].status = "VALIDATED"
                  THEN [batch EXCEPT ![b].status = "EXPIRED"] ELSE batch
    /\ Answered(h) /\ UNCHANGED queue

EnqueueWhenever(h) ==
    /\ req[h].op = "enqueue"
    /\ LET b == req[h].batch IN
         /\ batch' = [batch EXCEPT ![b].status = "QUEUED"]
         /\ queue' = Append(queue, b)
    /\ Answered(h)
EnqueueImportBatch(h) ==
    /\ req[h].op = "enqueue"
    /\ LET b == req[h].batch IN
         IF batch[b].status = "VALIDATED"
         THEN /\ batch' = [batch EXCEPT ![b].status = "QUEUED"]
              /\ queue' = Append(queue, b)
         ELSE UNCHANGED <<batch, queue>>
    /\ Answered(h)

(* GetBatch (also for ErrorReport) that finds a batch outdated ...         *)
GetBatch(h, b) ==
    /\ batch[b].status = "VALIDATED" /\ b \in outdated
    /\ Asks(h, "save", b)

(* ... saves the whole row as it read it, but for the status.              *)
SaveImportBatch(h) ==
    /\ req[h].op = "save"
    /\ LET b == req[h].batch IN
         batch' = [batch EXCEPT ![b] = [status |-> "EXPIRED", valid |-> req[h].valid,
                                        token |-> None, expired |-> FALSE]]
    /\ Answered(h) /\ UNCHANGED queue

RequestDies(h) ==
    /\ req[h].op # "none"
    /\ Fault
    /\ req' = [req EXCEPT ![h] = NoRequest]
    /\ TableUnchanged /\ UNCHANGED <<drawn, work, applied>>

RequestStep ==
    \/ \E b \in Batches : TTLPasses(b) \/ \E valid \in BOOLEAN : Validate(b, valid)
    \/ \E h \in Handlers :
         \/ \E b \in Batches : Confirm(h, b) \/ GetBatch(h, b)
         \/ ExpireImportBatch(h) \/ EnqueueImportBatch(h) \/ SaveImportBatch(h)
         \/ RequestDies(h)

-----------------------------------------------------------------------------
(* The lease of a batch. Claimable batches are taken in the order of       *)
(* confirmed_at; the token is new, whoever held the lease before.          *)
ClaimableQueuedOnly(b) == batch[b].status = "QUEUED"
Claimable(b) == \/ batch[b].status = "QUEUED"
                \/ batch[b].status = "IMPORTING" /\ batch[b].expired

IsNextToClaim(b) ==
    \E i \in DOMAIN queue :
       /\ queue[i] = b /\ Claimable(b)
       /\ \A j \in 1 .. i - 1 : ~Claimable(queue[j])

HoldsLeaseByStatus(w) == batch[work[w].batch].status = "IMPORTING"
HoldsLease(w) == /\ batch[work[w].batch].status = "IMPORTING"
                 /\ batch[work[w].batch].token = work[w].token

WorkerAt(w, pc) == work' = [work EXCEPT ![w].pc = pc]
WorkerQuits(w) == work' = [work EXCEPT ![w] = Idle]

ClaimNextImportBatch(w, b) ==
    /\ work[w].pc = "idle"
    /\ IsNextToClaim(b)
    /\ batch' = [batch EXCEPT ![b].status = "IMPORTING", ![b].token = drawn + 1,
                              ![b].expired = FALSE]
    /\ drawn' = drawn + 1
    /\ work' = [work EXCEPT ![w] = [Idle EXCEPT !.pc = "claimed", !.batch = b,
                                                !.token = drawn + 1]]
    /\ UNCHANGED <<queue, outdated, req, applied, faults>>

(* The full row is read after the claim, by its token: whoever lost the    *)
(* lease in between gets nothing.                                          *)
ReadClaimed(w) ==
    /\ work[w].pc = "claimed"
    /\ IF HoldsLease(w) THEN WorkerAt(w, "execute") ELSE WorkerQuits(w)
    /\ TableUnchanged /\ UNCHANGED <<drawn, req, applied, faults>>

(* UpdateImportProgress of the current holder renews the lease.            *)
UpdateImportProgress(w) ==
    batch' = [batch EXCEPT ![work[w].batch].expired = FALSE]

(* execute: invalid rows fail the batch; then the first progress report,   *)
(* whose refusal ends the execution and leaves the batch as it is.         *)
Execute(w) ==
    /\ work[w].pc = "execute"
    /\ IF ~batch[work[w].batch].valid
       THEN WorkerAt(w, "rolledBack") /\ UNCHANGED batch
       ELSE IF HoldsLease(w)
       THEN UpdateImportProgress(w) /\ WorkerAt(w, "writing")
       ELSE WorkerQuits(w) /\ UNCHANGED batch
    /\ UNCHANGED <<queue, outdated, drawn, req, applied, faults>>

(* The business transaction of a users batch reports a phase after each of *)
(* its parts, on another connection; a refused report rolls it back.       *)
ReportPhase(w) ==
    /\ work[w].pc = "writing" /\ work[w].batch \in UserBatches
    /\ work[w].reported < Len(Phases)
    /\ IF HoldsLease(w)
       THEN /\ UpdateImportProgress(w)
            /\ work' = [work EXCEPT ![w].reported = @ + 1]
       ELSE WorkerAt(w, "rolledBack") /\ UNCHANGED batch
    /\ UNCHANGED <<queue, outdated, drawn, req, applied, faults>>

(* It commits after its last report; that of org units reports nothing.    *)
(* The answer of the commit may be lost.                                   *)
Commits(w) ==
    /\ work[w].pc = "writing"
    /\ work[w].batch \in UserBatches => work[w].reported = Len(Phases)
    /\ applied' = applied \cup {work[w].batch}
    /\ TableUnchanged /\ UNCHANGED <<drawn, req>>
Commit(w) == Commits(w) /\ WorkerAt(w, "committed") /\ UNCHANGED faults
CommitAnswerLost(w) == Commits(w) /\ WorkerAt(w, "rolledBack") /\ Fault

(* A row that cannot be written, or a report that fails, rolls it back.    *)
RollBackUnseen(w) ==
    /\ work[w].pc = "writing"
    /\ WorkerAt(w, "committed")
    /\ TableUnchanged /\ UNCHANGED <<drawn, req, applied, faults>>
RollBack(w) ==
    /\ work[w].pc = "writing"
    /\ WorkerAt(w, "rolledBack")
    /\ TableUnchanged /\ UNCHANGED <<drawn, req, applied, faults>>

(* CompleteImportBatch and FailImportBatch: for the holder of the lease.   *)
EndImportBatch(w, pc, status) ==
    /\ work[w].pc = pc
    /\ LET b == work[w].batch IN
         batch' = IF HoldsLease(w)
                  THEN [batch EXCEPT ![b].status = status, ![b].token = None,
                                     ![b].expired = FALSE]
                  ELSE batch
    /\ WorkerQuits(w)
    /\ UNCHANGED <<queue, outdated, drawn, req, applied, faults>>
CompleteImportBatch(w) == EndImportBatch(w, "committed", "SUCCEEDED")
FailImportBatch(w) == EndImportBatch(w, "rolledBack", "FAILED")

(* A process dies, or a statement outside the transaction fails and RunOnce*)
(* returns its error: the row keeps the lease of the worker that is gone.  *)
WorkerGivesUp(w) ==
    /\ work[w].pc # "idle"
    /\ Fault
    /\ WorkerQuits(w)
    /\ TableUnchanged /\ UNCHANGED <<drawn, req, applied>>

WorkerStep(w) ==
    \/ \E b \in Batches : ClaimNextImportBatch(w, b)
    \/ ReadClaimed(w) \/ Execute(w) \/ ReportPhase(w) \/ Commit(w) \/ RollBack(w)
    \/ CompleteImportBatch(w) \/ FailImportBatch(w)

-----------------------------------------------------------------------------
(* Time. A lease runs out when its worker is gone; under a live worker     *)
(* only if that is slow, and in the transaction, where the heartbeat renews*)
(* it, only if a heartbeat fails.                                          *)
Holders(b) == {w \in Workers : work[w].batch = b /\ work[w].token = batch[b].token}

LeaseExpires(b) ==
    /\ batch[b].status = "IMPORTING" /\ ~batch[b].expired
    /\ batch' = [batch EXCEPT ![b].expired = TRUE]
    /\ UNCHANGED <<queue, outdated, drawn, work, req, applied>>
AbandonedLeaseExpires(b) == Holders(b) = {} /\ LeaseExpires(b) /\ UNCHANGED faults
HeldLeaseExpires(b) ==
    /\ \E w \in Holders(b) : work[w].pc = "writing" => HeartbeatsMayFail
    /\ LeaseExpires(b) /\ Fault

Next ==
    \/ RequestStep
    \/ \E w \in Workers : WorkerStep(w) \/ CommitAnswerLost(w) \/ WorkerGivesUp(w)
    \/ \E b \in Batches : AbandonedLeaseExpires(b) \/ HeldLeaseExpires(b)

Spec == Init /\ [][Next]_vars

(* Every worker polls, time passes; nobody need send a request.            *)
FairSpec ==
    /\ Spec
    /\ \A w \in Workers : WF_vars(WorkerStep(w))
    /\ \A b \in Batches : WF_vars(AbandonedLeaseExpires(b))

-----------------------------------------------------------------------------
(* While heartbeats are answered, no two workers are inside the business   *)
(* transaction of one batch, however late, slow or dead a worker is.       *)
(* (ClaimNextImportBatch, the first UpdateImportProgress of execute)       *)
OneWriterPerBatch ==
    \A v, w \in Workers :
       work[v].pc = "writing" /\ work[w].pc = "writing" /\ work[v].batch = work[w].batch
       => v = w

(* A batch is SUCCEEDED only if its rows were committed, and rows are      *)
(* committed only if every one of them is valid.                           *)
(* (CompleteImportBatch, the checks of Confirm and of execute)             *)
SucceededMeansApplied ==
    \A b \in Batches :
       /\ batch[b].status = "SUCCEEDED" => b \in applied
       /\ b \in applied => batch[b].valid

(* The batches are well formed, and what they say happened did. *)
BatchesConsistent == ImportTypeOK /\ SucceededMeansApplied

(* A batch that has ended is never queued, claimed or imported again by a  *)
(* late confirmation or worker. (the conditional updates; SaveImportBatch  *)
(* may still turn SUCCEEDED or FAILED into EXPIRED)                        *)
EndedStaysEnded ==
    [][\A b \in Batches : batch[b].status \in Ended => batch'[b].status \in Ended]_vars

(* A confirmed batch ends, although workers die, statements fail and       *)
(* leases run out a bounded number of times. (Run, ClaimNextImportBatch)   *)
ConfirmedBatchEnds ==
    \A b \in Batches : batch[b].status = "QUEUED" ~> batch[b].status \in Ended

=============================================================================
