------------------------------ MODULE AuditOutbox ------------------------------
(***************************************************************************)
(* The audit outbox: the tables audit_outbox and audit_logs and the        *)
(* processes of cmd/audit-dispatcher that run                              *)
(* AuditDispatcherService.RunOnce, any number of them at a time.           *)
(*                                                                         *)
(* Every repository call is one transaction, hence one step; a dispatcher  *)
(* may be overtaken, interrupted or killed between any two of them. Time   *)
(* is abstract: a backoff or a lease is over when a Claim finds it over.   *)
(*                                                                         *)
(* A lock token is written as the dispatcher that drew it. That loses      *)
(* nothing: a dispatcher draws one per row and claim, has forgotten the    *)
(* tokens of its earlier runs, and claims a row at most once in a run, so  *)
(* it holds the very token of the row exactly when the row names it and it *)
(* still has the row in hand.                                              *)
(*                                                                         *)
(* Next to some definitions stands one that gets it wrong (Unchecked,     *)
(* OffByOne, ...): no specification uses it, it is there to see that the  *)
(* properties would notice.                                                *)
(***************************************************************************)
EXTENDS Naturals, FiniteSets

CONSTANTS Events,       \* event UUIDs (event_public_id)
          DedupKey,     \* the business fact each event states, or Nil
          Dispatchers,  \* processes of cmd/audit-dispatcher
          BatchSize,    \* AuditDispatcherConfig.BatchSize
          MaxRetries,   \* AuditDispatcherConfig.MaxRetries
          Nil           \* "no value"

ASSUME OutboxAssumption ==
    /\ BatchSize \in Nat \ {0}
    /\ MaxRetries \in Nat \ {0}
    /\ Nil \notin Events \cup Dispatchers

VARIABLES outbox,   \* the rows of audit_outbox, by event
          rowId,    \* their AUTO_INCREMENT id
          lastId,   \* and the last one given
          logged,   \* the events in audit_logs, unique by public_id
          worker    \* the local state of each RunOnce

vars == <<outbox, rowId, lastId, logged, worker>>

Open == {"PENDING", "PROCESSING", "RETRY"}
Settled == {"DELIVERED", "DEAD_LETTER"}
Row == [status : Open \cup Settled \cup {"ABSENT"}, retry : Nat,
        token : Dispatchers \cup {Nil}]
RunOnce == [pc : {"idle", "loop", "mark"}, todo : SUBSET Events,
            retryCount : [Events -> Nat]]

AuditTypeOK ==
    /\ outbox \in [Events -> Row]
    /\ rowId \in [Events -> Nat]
    /\ lastId \in Nat
    /\ logged \in SUBSET Events
    /\ worker \in [Dispatchers -> RunOnce]

NoRow == [status |-> "ABSENT", retry |-> 0, token |-> Nil]
Stopped == [pc |-> "idle", todo |-> {}, retryCount |-> [e \in Events |-> 0]]

Init ==
    /\ outbox = [e \in Events |-> NoRow]
    /\ rowId = [e \in Events |-> 0]
    /\ lastId = 0
    /\ logged = {}
    /\ worker = [d \in Dispatchers |-> Stopped]

-----------------------------------------------------------------------------
(* EnqueueWithDB, in the transaction of the business fact or in one of its *)
(* own. Prepare draws a new UUID. An event whose dedup_key is taken is     *)
(* answered from the row that has it, or refused when the payload differs: *)
(* nothing changes here either way.                                        *)
DedupFree(e) ==
    DedupKey[e] = Nil \/ \A f \in Events :
        outbox[f].status # "ABSENT" => DedupKey[f] # DedupKey[e]

EnqueueWithDB(e) ==
    /\ outbox[e].status = "ABSENT"
    /\ e \notin logged
    /\ DedupFree(e)
    /\ outbox' = [outbox EXCEPT ![e].status = "PENDING"]
    /\ lastId' = lastId + 1
    /\ rowId' = [rowId EXCEPT ![e] = lastId + 1]
    /\ UNCHANGED <<logged, worker>>

-----------------------------------------------------------------------------
(* Claim takes the first BatchSize rows by id that are due: PENDING rows,  *)
(* RETRY rows whose backoff is over, PROCESSING rows whose lease is over.  *)
(* A row another transaction has locked is skipped, as if not due.         *)
WithStatus(status) == {e \in Events : outbox[e].status = status}

DueUnlessProcessing(backedOff, expired) == WithStatus("PENDING") \cup backedOff
Due(backedOff, expired) == WithStatus("PENDING") \cup backedOff \cup expired

FirstDue(batch, due) ==
    /\ batch \subseteq due
    /\ \/ Cardinality(batch) = BatchSize
       \/ Cardinality(batch) < BatchSize /\ batch = due
    /\ \A e \in batch, f \in due \ batch : rowId[e] < rowId[f]

(* Each row gets a token; the dispatcher keeps a copy of its retry_count.  *)
RetryCountUnread(batch) == [e \in Events |-> 0]
RetryCountRead(batch) == [e \in Events |-> IF e \in batch THEN outbox[e].retry ELSE 0]

Claim(d, batch) ==
    /\ worker[d].pc = "idle"
    /\ \E backedOff \in SUBSET WithStatus("RETRY"),
          expired \in SUBSET WithStatus("PROCESSING") :
          FirstDue(batch, Due(backedOff, expired))
    /\ outbox' = [e \in Events |->
                     IF e \in batch
                     THEN [outbox[e] EXCEPT !.status = "PROCESSING", !.token = d]
                     ELSE outbox[e]]
    /\ worker' = [worker EXCEPT ![d] =
                     [pc |-> "loop", todo |-> batch,
                      retryCount |-> RetryCountRead(batch)]]
    /\ UNCHANGED <<rowId, lastId, logged>>

(* RunOnce goes through its batch in the order of the claim. *)
IsNext(d, e) ==
    /\ e \in worker[d].todo
    /\ \A f \in worker[d].todo : rowId[e] <= rowId[f]

HoldsLeaseUnchecked(d, e) == outbox[e].status # "ABSENT"
HoldsLease(d, e) == outbox[e].status = "PROCESSING" /\ outbox[e].token = d

Proceed(d, e) ==
    worker' = [worker EXCEPT ![d].pc = "loop", ![d].todo = @ \ {e}, ![d].retryCount[e] = 0]

ReleaseRow(e, status, retry) ==
    outbox' = [outbox EXCEPT ![e] = [status |-> status, retry |-> retry, token |-> Nil]]

(* Deliver writes log and DELIVERED in one transaction, if the row still   *)
(* carries the token. The answer of the commit may be lost: RunOnce then   *)
(* treats a delivered event as failed.                                     *)
Deliver(d, e) ==
    /\ worker[d].pc = "loop"
    /\ IsNext(d, e)
    /\ HoldsLease(d, e)
    /\ logged' = logged \cup {e}
    /\ ReleaseRow(e, "DELIVERED", outbox[e].retry)
    /\ Proceed(d, e) \/ worker' = [worker EXCEPT ![d].pc = "mark"]
    /\ UNCHANGED <<rowId, lastId>>

DeliverFailsAfterLog(d, e) ==
    /\ worker[d].pc = "loop"
    /\ IsNext(d, e)
    /\ HoldsLease(d, e)
    /\ logged' = logged \cup {e}
    /\ worker' = [worker EXCEPT ![d].pc = "mark"]
    /\ UNCHANGED <<outbox, rowId, lastId>>

DeliverFails(d, e) ==
    /\ worker[d].pc = "loop"
    /\ IsNext(d, e)
    /\ worker' = [worker EXCEPT ![d].pc = "mark"]
    /\ UNCHANGED <<outbox, rowId, lastId, logged>>

FailureStatusOffByOne(n) == IF n > MaxRetries THEN "DEAD_LETTER" ELSE "RETRY"
FailureStatus(n) == IF n >= MaxRetries THEN "DEAD_LETTER" ELSE "RETRY"

(* MarkFailure counts on from the copy read by Claim, again only under the *)
(* token. When its commit answer is lost RunOnce ends with an error.       *)
MarkFailure(d, e) ==
    LET retryCount == worker[d].retryCount[e] + 1 IN
    /\ worker[d].pc = "mark"
    /\ IsNext(d, e)
    /\ HoldsLease(d, e)
    /\ ReleaseRow(e, FailureStatus(retryCount), retryCount)
    /\ Proceed(d, e) \/ worker' = [worker EXCEPT ![d] = Stopped]
    /\ UNCHANGED <<rowId, lastId, logged>>

(* ErrAuditOutboxLeaseLost, from either call: on to the next event. *)
LeaseLost(d, e) ==
    /\ worker[d].pc \in {"loop", "mark"}
    /\ IsNext(d, e)
    /\ ~HoldsLease(d, e)
    /\ Proceed(d, e)
    /\ UNCHANGED <<outbox, rowId, lastId, logged>>

(* DeleteDeliveredBefore, the end of RunOnce: up to BatchSize delivered    *)
(* rows that are past the retention.                                       *)
ClearableSettled == WithStatus("DELIVERED") \cup WithStatus("DEAD_LETTER")
Clearable == WithStatus("DELIVERED")

DeleteDeliveredBefore(d, old) ==
    /\ worker[d].pc = "loop"
    /\ worker[d].todo = {}
    /\ old \subseteq Clearable
    /\ Cardinality(old) <= BatchSize
    /\ outbox' = [e \in Events |-> IF e \in old THEN NoRow ELSE outbox[e]]
    /\ worker' = [worker EXCEPT ![d] = Stopped]
    /\ UNCHANGED <<rowId, lastId, logged>>

(* RunOnce ends early: the process is killed, SIGTERM cancels its context, *)
(* or MarkFailure cannot reach the database. What it claimed stays         *)
(* PROCESSING until the lease is over.                                     *)
Interrupted(d) ==
    /\ worker[d].pc # "idle"
    /\ worker' = [worker EXCEPT ![d] = Stopped]
    /\ UNCHANGED <<outbox, rowId, lastId, logged>>

DispatcherStep(d) ==
    \/ \E batch \in SUBSET Events : Claim(d, batch)
    \/ \E e \in Events : Deliver(d, e)
    \/ \E e \in Events : DeliverFails(d, e)
    \/ \E e \in Events : MarkFailure(d, e)
    \/ \E e \in Events : LeaseLost(d, e)
    \/ \E old \in SUBSET Events : DeleteDeliveredBefore(d, old)
    \/ Interrupted(d)

Next ==
    \/ \E e \in Events : EnqueueWithDB(e)
    \/ \E d \in Dispatchers : DispatcherStep(d)

Spec == Init /\ [][Next]_vars

(* The scheduler runs the command again and again: some run clears, some   *)
(* run claims what is due, and backoffs and leases end. Runs may be cut    *)
(* short for ever, but a call that runs keep coming to with their lease    *)
(* intact (it is far longer than a call) is answered at last, by a         *)
(* delivery or by a failure that is counted. No one dispatcher need act.   *)
Fairness ==
    /\ WF_vars(\E d \in Dispatchers, old \in SUBSET Events : DeleteDeliveredBefore(d, old))
    /\ \A e \in Events :
          /\ WF_vars(\E d \in Dispatchers : LeaseLost(d, e))
          /\ SF_vars(\E d \in Dispatchers, batch \in SUBSET Events : e \in batch /\ Claim(d, batch))
          /\ SF_vars(\E d \in Dispatchers : Deliver(d, e) \/ MarkFailure(d, e))

FairSpec == Spec /\ Fairness

-----------------------------------------------------------------------------
(* An event is in the formal log exactly when its row is DELIVERED or has  *)
(* been cleared away: never beside a row that will be tried again, never   *)
(* beside a dead letter, although leases expire under running dispatchers  *)
(* and answers of commits get lost (Deliver, "log written, status not").   *)
LogMatchesOutbox ==
    \A e \in Events :
        /\ outbox[e].status = "DELIVERED" => e \in logged
        /\ outbox[e].status \in Open \cup {"DEAD_LETTER"} => e \notin logged

(* retry_count, written back from a copy that may be stale, stays what it  *)
(* says: an event is open with fewer than MaxRetries failures, on RETRY    *)
(* with at least one, and given up with exactly MaxRetries (MarkFailure).  *)
RetryBudget ==
    \A e \in Events :
        /\ outbox[e].status \in Open => outbox[e].retry < MaxRetries
        /\ outbox[e].status = "RETRY" => outbox[e].retry > 0
        /\ outbox[e].status = "DEAD_LETTER" => outbox[e].retry = MaxRetries

(* A business fact has at most one row at a time, whoever emits it again   *)
(* and whatever dispatchers, retries and clearing do to that row           *)
(* (loadMatchingAuditOutboxEvent). Once its row is cleared the fact can be *)
(* enqueued again: the log itself does not know the dedup_key.             *)
FactsConverge ==
    \A e, f \in Events :
        e # f /\ DedupKey[e] # Nil /\ DedupKey[e] = DedupKey[f] =>
            outbox[e].status = "ABSENT" \/ outbox[f].status = "ABSENT"

(* The rows are well formed, their failures within the budget, and no fact *)
(* is stated by two of them.                                               *)
OutboxRowsOK == AuditTypeOK /\ RetryBudget /\ FactsConverge

(* The token fences off stale work: while a dispatcher's token is still on *)
(* a row it has in hand, nobody has counted a failure behind its back, and *)
(* its copy of retry_count is current (Claim, MarkFailure).                *)
LeaseGuardsCopy ==
    \A d \in Dispatchers, e \in Events :
        HoldsLease(d, e) /\ e \in worker[d].todo =>
            worker[d].retryCount[e] = outbox[e].retry

(* retry_count only ever counts one confirmed failure at a time, and a     *)
(* settled row is not touched again, except that a DELIVERED one may be    *)
(* cleared away (data-model of specs/013: dead letters are never deleted). *)
FailuresCountedOnce ==
    [][\A e \in Events :
          /\ outbox'[e].retry # outbox[e].retry /\ outbox'[e].status # "ABSENT" =>
                /\ outbox'[e].retry = outbox[e].retry + 1
                /\ outbox'[e].status \in {"RETRY", "DEAD_LETTER"}
          /\ outbox[e].status \in Settled /\ outbox'[e] # outbox[e] =>
                /\ outbox[e].status = "DELIVERED"
                /\ outbox'[e] = NoRow
      ]_outbox

(* What has become of each event, for the promise of module AuditTrail. *)
trail == [e \in Events |->
             IF e \in logged THEN "logged"
             ELSE IF outbox[e].status \in Open THEN "accepted"
             ELSE IF outbox[e].status = "DEAD_LETTER" THEN "dead" ELSE "none"]

Trail == INSTANCE AuditTrail WITH Events <- Events, trail <- trail

(* The outbox keeps the promise of AuditTrail. *)
KeepsPromise == Trail!TrailSpec

(* Every accepted event gets into the log or ends as a dead letter, though *)
(* dispatchers crash for ever and deliveries may always fail (RunOnce).    *)
EventuallySettled ==
    \A e \in Events : (outbox[e].status = "PENDING") ~>
        (e \in logged \/ outbox[e].status = "DEAD_LETTER")
=============================================================================
