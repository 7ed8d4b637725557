------------------------- MODULE PolicyAndAudit_proofs -------------------------
(***************************************************************************)
(* Theorems about AuditOutbox, for any number of events and dispatchers,   *)
(* and about AccessPolicy, for any requests, ids, inputs and trees.  The   *)
(* two components share nothing; their proofs share this module.           *)
(***************************************************************************)
EXTENDS AuditOutbox, AccessPolicy, FiniteSetTheorems, SequenceTheorems,
        WellFoundedInduction, TLAPS

(***************************************************************************)
(* AuditOutbox.                                                            *)
(***************************************************************************)

(* What the invariants of AuditOutbox lack to be inductive: an event that  *)
(* is not in the table starts from a clean row.                            *)
AbsentIsClean == \A e \in Events : outbox[e].status = "ABSENT" => outbox[e].retry = 0

IInv == /\ AuditTypeOK
        /\ LogMatchesOutbox
        /\ RetryBudget
        /\ LeaseGuardsCopy
        /\ AbsentIsClean

(* The copies of retry_count a dispatcher still needs stay as they are.    *)
CopiesKept ==
    \A c \in Dispatchers :
        /\ worker'[c].todo \subseteq worker[c].todo
        /\ \A f \in worker'[c].todo : worker'[c].retryCount[f] = worker[c].retryCount[f]

-----------------------------------------------------------------------------
(* A batch holds due rows only, so a claim never reopens a settled row     *)
(* (Claim, the WHERE clause).                                              *)
LEMMA ClaimedRowsAreOpen ==
    ASSUME AuditTypeOK, NEW d \in Dispatchers, NEW batch \in SUBSET Events,
           Claim(d, batch)
    PROVE  \A e \in batch : outbox[e].status \in Open
BY DEF Claim, FirstDue, Due, WithStatus, Open

(* The empty tables and stopped workers have their types (Init).           *)
LEMMA TypeInitial == Init => AuditTypeOK
BY DEF Init, AuditTypeOK, NoRow, Stopped, Row, RunOnce

(* Going on to the next event keeps the workers' types (RunOnce).          *)
LEMMA ProceedType ==
    ASSUME AuditTypeOK, NEW d \in Dispatchers, NEW e \in Events, Proceed(d, e)
    PROVE  worker' \in [Dispatchers -> RunOnce] /\ CopiesKept
<1> USE DEF AuditTypeOK
<1> DEFINE w == worker[d]
           next == [w EXCEPT !.pc = "loop", !.todo = @ \ {e}, !.retryCount[e] = 0]
<1>1. w \in RunOnce
  OBVIOUS
<1>2. next \in RunOnce
  BY <1>1 DEF RunOnce
<1>3. worker' = [worker EXCEPT ![d] = next]
  BY DEF Proceed
<1>4. /\ next.todo \subseteq w.todo
      /\ \A f \in next.todo : next.retryCount[f] = w.retryCount[f]
  BY <1>1 DEF RunOnce
<1>5. worker'[d] = next /\ \A c \in Dispatchers \ {d} : worker'[c] = worker[c]
  BY <1>3
<1>6. CopiesKept
  BY <1>4, <1>5 DEF CopiesKept
<1> QED BY <1>2, <1>3, <1>6

(* Every step keeps the types.                                             *)
LEMMA TypeStep == AuditTypeOK /\ [Next]_vars => AuditTypeOK'
<1> SUFFICES ASSUME AuditTypeOK, [Next]_vars PROVE AuditTypeOK'
  OBVIOUS
<1> USE DEF AuditTypeOK
<1>1. ASSUME NEW e \in Events, EnqueueWithDB(e) PROVE AuditTypeOK'
  BY <1>1 DEF EnqueueWithDB, Row, Open
<1>2. ASSUME NEW d \in Dispatchers, DispatcherStep(d) PROVE AuditTypeOK'
  <2>1. ASSUME NEW batch \in SUBSET Events, Claim(d, batch) PROVE AuditTypeOK'
    <3>1. outbox' \in [Events -> Row]
      BY <2>1 DEF Claim, Row, Open
    <3>2. RetryCountRead(batch) \in [Events -> Nat]
      BY DEF RetryCountRead, Row
    <3>3. worker' \in [Dispatchers -> RunOnce]
      BY <2>1, <3>2 DEF Claim, RunOnce
    <3> QED BY <2>1, <3>1, <3>3 DEF Claim
  <2>2. ASSUME NEW e \in Events, Deliver(d, e) PROVE AuditTypeOK'
    <3>1. outbox' \in [Events -> Row]
      BY <2>2 DEF Deliver, ReleaseRow, Row, Open, Settled
    <3>2. worker' \in [Dispatchers -> RunOnce]
      <4>1. CASE Proceed(d, e)
        BY <4>1, ProceedType
      <4>2. CASE worker' = [worker EXCEPT ![d].pc = "mark"]
        BY <4>2 DEF RunOnce
      <4> QED BY <2>2, <4>1, <4>2 DEF Deliver
    <3> QED BY <2>2, <3>1, <3>2 DEF Deliver
  <2>3. ASSUME NEW e \in Events, DeliverFails(d, e) PROVE AuditTypeOK'
    BY <2>3 DEF DeliverFails, RunOnce
  <2>4. ASSUME NEW e \in Events, MarkFailure(d, e) PROVE AuditTypeOK'
    <3>1. worker[d].retryCount[e] + 1 \in Nat
      BY DEF RunOnce
    <3>2. outbox' \in [Events -> Row]
      BY <2>4, <3>1 DEF MarkFailure, ReleaseRow, FailureStatus, Row, Open, Settled
    <3>3. Stopped \in RunOnce
      BY DEF Stopped, RunOnce
    <3>4. worker' \in [Dispatchers -> RunOnce]
      <4>1. CASE Proceed(d, e)
        BY <4>1, ProceedType
      <4>2. CASE worker' = [worker EXCEPT ![d] = Stopped]
        BY <4>2, <3>3
      <4> QED BY <2>4, <4>1, <4>2 DEF MarkFailure
    <3> QED BY <2>4, <3>2, <3>4 DEF MarkFailure
  <2>5. ASSUME NEW e \in Events, LeaseLost(d, e) PROVE AuditTypeOK'
    BY <2>5, ProceedType DEF LeaseLost
  <2>6. ASSUME NEW old \in SUBSET Events, DeleteDeliveredBefore(d, old)
        PROVE AuditTypeOK'
    <3>1. outbox' \in [Events -> Row]
      BY <2>6 DEF DeleteDeliveredBefore, NoRow, Row
    <3>2. worker' \in [Dispatchers -> RunOnce]
      BY <2>6 DEF DeleteDeliveredBefore, Stopped, RunOnce
    <3> QED BY <2>6, <3>1, <3>2 DEF DeleteDeliveredBefore
  <2>7. ASSUME Interrupted(d) PROVE AuditTypeOK'
    BY <2>7 DEF Interrupted, Stopped, RunOnce
  <2> QED BY <1>2, <2>1, <2>2, <2>3, <2>4, <2>5, <2>6, <2>7 DEF DispatcherStep
<1>3. CASE UNCHANGED vars
  BY <1>3 DEF vars
<1> QED BY <1>1, <1>2, <1>3 DEF Next

(* The tables and the workers hold what they are declared to hold (the     *)
(* schema of 014_audit_outbox.sql).                                        *)
THEOREM AuditTypeCorrect == Spec => []AuditTypeOK
BY TypeInitial, TypeStep, PTL DEF Spec

-----------------------------------------------------------------------------
(* The empty tables satisfy the inductive invariant.                       *)
LEMMA InvInitial == Init => IInv
<1> SUFFICES ASSUME Init PROVE IInv
  OBVIOUS
<1>1. AuditTypeOK
  BY TypeInitial
<1> QED
  BY <1>1 DEF IInv, Init, NoRow, Stopped, LogMatchesOutbox, RetryBudget,
              LeaseGuardsCopy, AbsentIsClean, Open, Settled

(* A new row starts clean and unlogged (EnqueueWithDB).                    *)
LEMMA InvEnqueue ==
    ASSUME IInv, NEW e \in Events, EnqueueWithDB(e)
    PROVE  LogMatchesOutbox' /\ RetryBudget' /\ LeaseGuardsCopy' /\ AbsentIsClean'
<1> USE OutboxAssumption DEF IInv, EnqueueWithDB, AuditTypeOK, Row
<1>1. LogMatchesOutbox'
  BY DEF LogMatchesOutbox, Open, Settled
<1>2. RetryBudget'
  BY DEF RetryBudget, AbsentIsClean, Open, Settled
<1>3. LeaseGuardsCopy'
  BY DEF LeaseGuardsCopy, HoldsLease
<1>4. AbsentIsClean'
  BY DEF AbsentIsClean
<1> QED BY <1>1, <1>2, <1>3, <1>4

(* A claim keeps the invariant: the copy it takes is current, and the      *)
(* tokens it overwrites take the lease from their dispatchers (Claim).     *)
LEMMA InvClaim ==
    ASSUME IInv, NEW d \in Dispatchers, NEW batch \in SUBSET Events, Claim(d, batch)
    PROVE  LogMatchesOutbox' /\ RetryBudget' /\ LeaseGuardsCopy' /\ AbsentIsClean'
<1>1. \A e \in batch : outbox[e].status \in Open
  BY ClaimedRowsAreOpen DEF IInv
<1>2. \A e \in Events :
         /\ e \in batch => /\ outbox'[e].status = "PROCESSING"
                           /\ outbox'[e].retry = outbox[e].retry
                           /\ outbox'[e].token = d
         /\ e \notin batch => outbox'[e] = outbox[e]
  BY DEF Claim, IInv, AuditTypeOK, Row
<1>3. LogMatchesOutbox'
  BY <1>1, <1>2 DEF Claim, IInv, LogMatchesOutbox, Open
<1>4. RetryBudget'
  <2> SUFFICES ASSUME NEW e \in Events
               PROVE  /\ outbox'[e].status \in Open => outbox'[e].retry < MaxRetries
                      /\ outbox'[e].status = "RETRY" => outbox'[e].retry > 0
                      /\ outbox'[e].status = "DEAD_LETTER" => outbox'[e].retry = MaxRetries
    BY DEF RetryBudget
  <2>1. CASE e \in batch
    BY <1>1, <1>2, <2>1 DEF IInv, RetryBudget
  <2>2. CASE e \notin batch
    BY <1>2, <2>2 DEF IInv, RetryBudget
  <2> QED BY <2>1, <2>2
<1>5. LeaseGuardsCopy'
  <2> SUFFICES ASSUME NEW c \in Dispatchers, NEW e \in Events,
                      HoldsLease(c, e)', e \in worker'[c].todo
               PROVE  worker'[c].retryCount[e] = outbox'[e].retry
    BY DEF LeaseGuardsCopy
  <2>1. CASE c = d
    BY <1>2, <2>1 DEF Claim, RetryCountRead, IInv, AuditTypeOK
  <2>2. CASE c # d
    BY <1>2, <2>2 DEF Claim, HoldsLease, IInv, AuditTypeOK, LeaseGuardsCopy
  <2> QED BY <2>1, <2>2
<1>6. AbsentIsClean'
  <2> SUFFICES ASSUME NEW e \in Events, outbox'[e].status = "ABSENT"
               PROVE  outbox'[e].retry = 0
    BY DEF AbsentIsClean
  <2>1. e \notin batch
    BY <1>2
  <2> QED BY <1>2, <2>1 DEF IInv, AbsentIsClean
<1> QED BY <1>3, <1>4, <1>5, <1>6

(* Log row and DELIVERED status appear together (Deliver).                 *)
LEMMA InvDeliver ==
    ASSUME IInv, NEW d \in Dispatchers, NEW e \in Events, Deliver(d, e)
    PROVE  LogMatchesOutbox' /\ RetryBudget' /\ LeaseGuardsCopy' /\ AbsentIsClean'
<1> USE DEF IInv, AuditTypeOK
<1>1. /\ outbox'[e] = [status |-> "DELIVERED", retry |-> outbox[e].retry, token |-> Nil]
      /\ \A f \in Events \ {e} : outbox'[f] = outbox[f]
      /\ logged' = logged \cup {e}
  BY DEF Deliver, ReleaseRow
<1>2. CopiesKept
  <2>1. CASE Proceed(d, e)
    BY <2>1, ProceedType
  <2>2. CASE worker' = [worker EXCEPT ![d].pc = "mark"]
    BY <2>2 DEF CopiesKept, RunOnce
  <2> QED BY <2>1, <2>2 DEF Deliver
<1>3. LogMatchesOutbox'
  BY <1>1 DEF LogMatchesOutbox, Open
<1>4. RetryBudget'
  BY <1>1 DEF RetryBudget, Open
<1>5. LeaseGuardsCopy'
  BY <1>1, <1>2 DEF LeaseGuardsCopy, HoldsLease, CopiesKept
<1>6. AbsentIsClean'
  BY <1>1 DEF AbsentIsClean
<1> QED BY <1>3, <1>4, <1>5, <1>6

(* The count written from the copy is the stored one plus one              *)
(* (MarkFailure).                                                          *)
LEMMA InvMarkFailure ==
    ASSUME IInv, NEW d \in Dispatchers, NEW e \in Events, MarkFailure(d, e)
    PROVE  LogMatchesOutbox' /\ RetryBudget' /\ LeaseGuardsCopy' /\ AbsentIsClean'
<1> USE DEF IInv, AuditTypeOK
<1> DEFINE retryCount == outbox[e].retry + 1
(* The copy counted on from is the value in the row: the lease guards it.  *)
<1>1. worker[d].retryCount[e] = outbox[e].retry
  BY DEF MarkFailure, IsNext, LeaseGuardsCopy
<1>2. /\ outbox'[e] = [status |-> FailureStatus(retryCount),
                       retry |-> retryCount, token |-> Nil]
      /\ \A f \in Events \ {e} : outbox'[f] = outbox[f]
      /\ logged' = logged
  BY <1>1 DEF MarkFailure, ReleaseRow
<1>3. outbox[e].retry \in Nat /\ outbox[e].retry < MaxRetries /\ e \notin logged
  BY DEF MarkFailure, HoldsLease, Row, RetryBudget, LogMatchesOutbox, Open
<1>4. CopiesKept
  <2>1. CASE Proceed(d, e)
    BY <2>1, ProceedType
  <2>2. CASE worker' = [worker EXCEPT ![d] = Stopped]
    BY <2>2 DEF CopiesKept, Stopped, RunOnce
  <2> QED BY <2>1, <2>2 DEF MarkFailure
<1>5. LogMatchesOutbox'
  BY <1>2, <1>3 DEF LogMatchesOutbox, FailureStatus, Open
<1>6. RetryBudget'
  <2>1. /\ retryCount \in Nat
        /\ retryCount > 0
        /\ retryCount >= MaxRetries => retryCount = MaxRetries
        /\ ~(retryCount >= MaxRetries) => retryCount < MaxRetries
    BY <1>3, OutboxAssumption
  <2>2. /\ outbox'[e].status \in Open => outbox'[e].retry < MaxRetries
        /\ outbox'[e].status = "RETRY" => outbox'[e].retry > 0
        /\ outbox'[e].status = "DEAD_LETTER" => outbox'[e].retry = MaxRetries
    BY <1>2, <2>1 DEF FailureStatus, Open
  <2> QED BY <1>2, <2>2 DEF RetryBudget
<1>7. LeaseGuardsCopy'
  BY <1>2, <1>4 DEF LeaseGuardsCopy, HoldsLease, FailureStatus, CopiesKept
<1>8. AbsentIsClean'
  BY <1>2 DEF AbsentIsClean, FailureStatus
<1> QED BY <1>5, <1>6, <1>7, <1>8

(* Clearing a delivered row leaves the log alone (DeleteDeliveredBefore).  *)
LEMMA InvDeleteDelivered ==
    ASSUME IInv, NEW d \in Dispatchers, NEW old \in SUBSET Events,
           DeleteDeliveredBefore(d, old)
    PROVE  LogMatchesOutbox' /\ RetryBudget' /\ LeaseGuardsCopy' /\ AbsentIsClean'
<1> USE DEF IInv, AuditTypeOK, DeleteDeliveredBefore
<1>1. \A e \in Events : /\ e \in old => outbox'[e] = NoRow
                        /\ e \notin old => outbox'[e] = outbox[e]
  OBVIOUS
<1>2. \A c \in Dispatchers : c # d => worker'[c] = worker[c]
  OBVIOUS
<1>3. worker'[d].todo = {}
  BY DEF Stopped
<1>4. LogMatchesOutbox'
  BY <1>1 DEF LogMatchesOutbox, NoRow, Open
<1>5. RetryBudget'
  BY <1>1 DEF RetryBudget, NoRow, Open
<1>6. LeaseGuardsCopy'
  BY <1>1, <1>2, <1>3 DEF LeaseGuardsCopy, HoldsLease, NoRow
<1>7. AbsentIsClean'
  BY <1>1 DEF AbsentIsClean, NoRow
<1> QED BY <1>4, <1>5, <1>6, <1>7

(* The steps of a run that leave the tables alone. *)
(* A step that only drops work from a dispatcher keeps the invariant.      *)
LEMMA InvWorkerOnly ==
    ASSUME IInv, UNCHANGED <<outbox, logged>>, CopiesKept
    PROVE  LogMatchesOutbox' /\ RetryBudget' /\ LeaseGuardsCopy' /\ AbsentIsClean'
BY DEF IInv, LogMatchesOutbox, RetryBudget, LeaseGuardsCopy, AbsentIsClean, HoldsLease,
       CopiesKept

(* Every step keeps the inductive invariant.                               *)
LEMMA InvStep == IInv /\ [Next]_vars => IInv'
<1> SUFFICES ASSUME IInv, [Next]_vars PROVE IInv'
  OBVIOUS
<1> DEFINE Rest == LogMatchesOutbox' /\ RetryBudget' /\ LeaseGuardsCopy' /\ AbsentIsClean'
<1>1. AuditTypeOK /\ AuditTypeOK'
  BY TypeStep DEF IInv
<1>2. ASSUME NEW e \in Events, EnqueueWithDB(e) PROVE Rest
  BY <1>2, InvEnqueue
<1>3. ASSUME NEW d \in Dispatchers, DispatcherStep(d) PROVE Rest
  <2>1. ASSUME NEW batch \in SUBSET Events, Claim(d, batch) PROVE Rest
    BY <2>1, InvClaim
  <2>2. ASSUME NEW e \in Events, Deliver(d, e) PROVE Rest
    BY <2>2, InvDeliver
  <2>3. ASSUME NEW e \in Events, DeliverFails(d, e) PROVE Rest
    BY <1>1, <2>3, InvWorkerOnly DEF DeliverFails, CopiesKept, AuditTypeOK, RunOnce
  <2>4. ASSUME NEW e \in Events, MarkFailure(d, e) PROVE Rest
    BY <2>4, InvMarkFailure
  <2>5. ASSUME NEW e \in Events, LeaseLost(d, e) PROVE Rest
    BY <1>1, <2>5, ProceedType, InvWorkerOnly DEF LeaseLost
  <2>6. ASSUME NEW old \in SUBSET Events, DeleteDeliveredBefore(d, old) PROVE Rest
    BY <2>6, InvDeleteDelivered
  <2>7. ASSUME Interrupted(d) PROVE Rest
    BY <1>1, <2>7, InvWorkerOnly DEF Interrupted, CopiesKept, Stopped, AuditTypeOK, RunOnce
  <2> QED BY <1>3, <2>1, <2>2, <2>3, <2>4, <2>5, <2>6, <2>7 DEF DispatcherStep
<1>4. ASSUME UNCHANGED vars PROVE Rest
  BY <1>4, InvWorkerOnly DEF vars, CopiesKept
<1>5. Rest
  BY <1>2, <1>3, <1>4 DEF Next
<1> QED BY <1>1, <1>5 DEF IInv

(* An event is never both in the log and still to be delivered or given up *)
(* (Deliver), and retry_count means what it says (MarkFailure).            *)
THEOREM OutboxInvariant == Spec => []IInv
BY InvInitial, InvStep, PTL DEF Spec

(* An event is in the formal log exactly when its row is DELIVERED or has  *)
(* been cleared away (Deliver, DeleteDeliveredBefore).                     *)
THEOREM LogAndOutboxAgree == Spec => []LogMatchesOutbox
<1>1. IInv => LogMatchesOutbox
  BY DEF IInv
<1> QED BY <1>1, OutboxInvariant, PTL

(* An open event has failed fewer than MaxRetries times, a dead letter     *)
(* exactly MaxRetries times (MarkFailure).                                 *)
THEOREM RetryCountExact == Spec => []RetryBudget
<1>1. IInv => RetryBudget
  BY DEF IInv
<1> QED BY <1>1, OutboxInvariant, PTL

(* A new row appears only where its fact has none; no other step makes a   *)
(* row (EnqueueWithDB, against every call of a dispatcher).                *)
LEMMA FactsStep == AuditTypeOK /\ FactsConverge /\ [Next]_vars => FactsConverge'
<1> SUFFICES ASSUME AuditTypeOK, FactsConverge, [Next]_vars PROVE FactsConverge'
  OBVIOUS
<1> USE DEF AuditTypeOK
<1> DEFINE NoNewRow == \A e \in Events : outbox[e].status = "ABSENT" => outbox'[e].status = "ABSENT"
<1>1. ASSUME NEW e \in Events, EnqueueWithDB(e) PROVE FactsConverge'
  <2>1. /\ \A f \in Events \ {e} : outbox'[f] = outbox[f]
        /\ DedupFree(e)
    BY <1>1 DEF EnqueueWithDB
  <2> QED BY <2>1 DEF FactsConverge, DedupFree
<1>2. ASSUME NEW d \in Dispatchers, DispatcherStep(d) PROVE NoNewRow
  <2>1. ASSUME NEW batch \in SUBSET Events, Claim(d, batch) PROVE NoNewRow
    <3>1. \A e \in batch : outbox[e].status \in Open
      BY <2>1, ClaimedRowsAreOpen
    <3>2. \A e \in Events : e \notin batch => outbox'[e] = outbox[e]
      BY <2>1 DEF Claim
    <3> QED BY <3>1, <3>2 DEF Open
  <2>2. ASSUME NEW e \in Events, Deliver(d, e) \/ MarkFailure(d, e) PROVE NoNewRow
    <3>1. /\ outbox[e].status = "PROCESSING"
          /\ \A f \in Events \ {e} : outbox'[f] = outbox[f]
      BY <2>2 DEF Deliver, MarkFailure, HoldsLease, ReleaseRow
    <3> QED BY <3>1
  <2>3. ASSUME NEW old \in SUBSET Events, DeleteDeliveredBefore(d, old) PROVE NoNewRow
    BY <2>3 DEF DeleteDeliveredBefore, NoRow
  <2>4. ASSUME \/ \E e \in Events : DeliverFails(d, e) \/ LeaseLost(d, e)
               \/ Interrupted(d)
        PROVE  NoNewRow
    BY <2>4 DEF DeliverFails, LeaseLost, Interrupted
  <2> QED BY <1>2, <2>1, <2>2, <2>3, <2>4 DEF DispatcherStep
<1>3. CASE UNCHANGED vars
  BY <1>3 DEF vars, FactsConverge
<1>4. NoNewRow \/ FactsConverge'
  BY <1>1, <1>2, <1>3 DEF Next
<1> QED BY <1>4 DEF FactsConverge

(* The rows of the outbox are well formed, their retries within the budget *)
(* and no fact stated by two (EnqueueWithDB, Claim, MarkFailure).          *)
THEOREM OutboxRowsStayOK == Spec => []OutboxRowsOK
<1>1. Init => FactsConverge
  BY DEF Init, NoRow, FactsConverge
<1>2. Spec => []FactsConverge
  BY <1>1, FactsStep, AuditTypeCorrect, PTL DEF Spec
<1>3. AuditTypeOK /\ RetryBudget /\ FactsConverge => OutboxRowsOK
  BY DEF OutboxRowsOK
<1> QED BY <1>2, <1>3, AuditTypeCorrect, RetryCountExact, PTL

(* A dispatcher whose token is still on a row has a current copy of its    *)
(* retry_count (Claim, MarkFailure).                                       *)
THEOREM CopyCurrentUnderLease == Spec => []LeaseGuardsCopy
<1>1. IInv => LeaseGuardsCopy
  BY DEF IInv
<1> QED BY <1>1, OutboxInvariant, PTL

-----------------------------------------------------------------------------
(* Failures are counted one at a time, and settled rows stay as they are   *)
(* until a DELIVERED one is cleared away.                                  *)
CountedOnce ==
    \A e \in Events :
        /\ outbox'[e].retry # outbox[e].retry /\ outbox'[e].status # "ABSENT" =>
              /\ outbox'[e].retry = outbox[e].retry + 1
              /\ outbox'[e].status \in {"RETRY", "DEAD_LETTER"}
        /\ outbox[e].status \in Settled /\ outbox'[e] # outbox[e] =>
              /\ outbox[e].status = "DELIVERED"
              /\ outbox'[e] = NoRow

(* Every step counts at most one failure of an event.                      *)
LEMMA CountedOnceStep == IInv /\ [Next]_vars => [CountedOnce]_outbox
<1> SUFFICES ASSUME IInv, Next PROVE CountedOnce \/ UNCHANGED outbox
  BY DEF vars
<1>0. AuditTypeOK
  BY DEF IInv
<1>1. ASSUME NEW e \in Events, EnqueueWithDB(e) PROVE CountedOnce
  BY <1>0, <1>1 DEF EnqueueWithDB, CountedOnce, AuditTypeOK, Row, Settled
<1>2. ASSUME NEW d \in Dispatchers, DispatcherStep(d)
      PROVE  CountedOnce \/ UNCHANGED outbox
  <2>1. ASSUME NEW batch \in SUBSET Events, Claim(d, batch) PROVE CountedOnce
    <3>1. \A e \in Events :
             /\ e \in batch => /\ outbox[e].status \in Open
                               /\ outbox'[e].retry = outbox[e].retry
             /\ e \notin batch => outbox'[e] = outbox[e]
      BY <1>0, <2>1, ClaimedRowsAreOpen DEF Claim, AuditTypeOK, Row
    <3> QED BY <3>1 DEF CountedOnce, Open, Settled
  <2>2. ASSUME NEW e \in Events, Deliver(d, e) PROVE CountedOnce
    <3>1. /\ outbox[e].status = "PROCESSING"
          /\ outbox'[e].retry = outbox[e].retry
          /\ \A f \in Events \ {e} : outbox'[f] = outbox[f]
      BY <1>0, <2>2 DEF Deliver, HoldsLease, ReleaseRow, AuditTypeOK, Row
    <3> QED BY <3>1 DEF CountedOnce, Settled
  <2>3. ASSUME NEW e \in Events, MarkFailure(d, e) PROVE CountedOnce
    <3>1. worker[d].retryCount[e] = outbox[e].retry
      BY <2>3 DEF MarkFailure, IsNext, IInv, LeaseGuardsCopy
    <3>2. /\ outbox[e].status = "PROCESSING"
          /\ outbox'[e].retry = outbox[e].retry + 1
          /\ outbox'[e].status \in {"RETRY", "DEAD_LETTER"}
          /\ \A f \in Events \ {e} : outbox'[f] = outbox[f]
      BY <1>0, <2>3, <3>1
         DEF MarkFailure, HoldsLease, ReleaseRow, FailureStatus, AuditTypeOK, Row
    <3> QED BY <3>2 DEF CountedOnce, Settled
  <2>4. ASSUME NEW old \in SUBSET Events, DeleteDeliveredBefore(d, old)
        PROVE  CountedOnce
    <3>1. \A e \in Events :
             /\ e \in old => outbox[e].status = "DELIVERED" /\ outbox'[e] = NoRow
             /\ e \notin old => outbox'[e] = outbox[e]
      BY <2>4 DEF DeleteDeliveredBefore, Clearable, WithStatus
    <3> QED BY <3>1 DEF CountedOnce, NoRow, Settled
  <2>5. ASSUME \/ \E e \in Events : DeliverFails(d, e) \/ LeaseLost(d, e)
               \/ Interrupted(d)
        PROVE  UNCHANGED outbox
    BY <2>5 DEF DeliverFails, LeaseLost, Interrupted
  <2> QED BY <1>2, <2>1, <2>2, <2>3, <2>4, <2>5 DEF DispatcherStep
<1> QED BY <1>1, <1>2 DEF Next

(* Failures counted once, for every number of events and dispatchers       *)
(* (MarkFailure, DeleteDeliveredBefore).                                   *)
THEOREM RetryCountedOnce == Spec => FailuresCountedOnce
<1>1. Spec => [][CountedOnce]_outbox
  BY OutboxInvariant, CountedOnceStep, PTL DEF Spec
<1> QED BY <1>1 DEF FailuresCountedOnce, CountedOnce

-----------------------------------------------------------------------------
(* One step of the outbox is one step of the promise, or none. *)
LEMMA PromiseStep == IInv /\ [Next]_vars => [Trail!TrailNext]_trail
<1> SUFFICES ASSUME IInv, Next
             PROVE  UNCHANGED trail \/ \E e \in Events :
                       Trail!Accept(e) \/ Trail!Log(e) \/ Trail!GiveUp(e)
  BY DEF vars, trail, Trail!TrailNext
<1> USE DEF IInv, AuditTypeOK
<1>1. ASSUME NEW e \in Events, EnqueueWithDB(e) PROVE Trail!Accept(e)
  BY <1>1 DEF EnqueueWithDB, trail, Trail!Accept, Trail!Become, Row, Open
<1>2. ASSUME NEW d \in Dispatchers, DispatcherStep(d)
      PROVE  UNCHANGED trail \/ \E e \in Events :
                Trail!Accept(e) \/ Trail!Log(e) \/ Trail!GiveUp(e)
  <2>1. ASSUME NEW batch \in SUBSET Events, Claim(d, batch) PROVE UNCHANGED trail
    <3>1. \A e \in Events : \/ outbox'[e] = outbox[e]
                            \/ outbox[e].status \in Open /\ outbox'[e].status = "PROCESSING"
      BY <2>1, ClaimedRowsAreOpen DEF Claim, Row
    <3> QED BY <2>1, <3>1 DEF Claim, trail, Open
  <2>2. ASSUME NEW e \in Events, Deliver(d, e) PROVE Trail!Log(e)
    <3>1. /\ outbox[e].status = "PROCESSING"
          /\ e \notin logged
          /\ logged' = logged \cup {e}
          /\ \A f \in Events \ {e} : outbox'[f] = outbox[f]
      BY <2>2 DEF Deliver, HoldsLease, ReleaseRow, LogMatchesOutbox, Open
    <3> QED BY <3>1 DEF trail, Trail!Log, Trail!Become, Open
  <2>3. ASSUME NEW e \in Events, MarkFailure(d, e)
        PROVE  UNCHANGED trail \/ Trail!GiveUp(e)
    <3>1. /\ outbox[e].status = "PROCESSING"
          /\ outbox'[e].status \in {"RETRY", "DEAD_LETTER"}
          /\ e \notin logged
          /\ logged' = logged
          /\ \A f \in Events \ {e} : outbox'[f] = outbox[f]
      BY <2>3 DEF MarkFailure, HoldsLease, ReleaseRow, FailureStatus, LogMatchesOutbox, Open
    <3>2. CASE outbox'[e].status = "RETRY"
      BY <3>1, <3>2 DEF trail, Open
    <3>3. CASE outbox'[e].status = "DEAD_LETTER"
      BY <3>1, <3>3 DEF trail, Trail!GiveUp, Trail!Become, Open
    <3> QED BY <3>1, <3>2, <3>3
  <2>4. ASSUME NEW old \in SUBSET Events, DeleteDeliveredBefore(d, old)
        PROVE  UNCHANGED trail
    <3>1. \A e \in Events : outbox'[e] = outbox[e] \/ e \in logged
      BY <2>4 DEF DeleteDeliveredBefore, Clearable, WithStatus, LogMatchesOutbox
    <3>2. logged' = logged
      BY <2>4 DEF DeleteDeliveredBefore
    <3> QED BY <3>1, <3>2 DEF trail
  <2>5. ASSUME \/ \E e \in Events : DeliverFails(d, e) \/ LeaseLost(d, e)
               \/ Interrupted(d)
        PROVE  UNCHANGED trail
    BY <2>5 DEF DeliverFails, LeaseLost, Interrupted, trail
  <2> QED BY <1>2, <2>1, <2>2, <2>3, <2>4, <2>5 DEF DispatcherStep
<1> QED BY <1>1, <1>2 DEF Next

(* The outbox implements the promise of AuditTrail.                        *)
THEOREM PromiseKept == Spec => KeepsPromise
<1>1. Init => Trail!TrailInit
  BY DEF Init, NoRow, trail, Trail!TrailInit, Open
<1>2. Spec => Trail!TrailSpec
  BY <1>1, PromiseStep, OutboxInvariant, PTL DEF Spec, Trail!TrailSpec
<1> QED BY <1>2 DEF KeepsPromise

(***************************************************************************)
(* AccessPolicy.                                                           *)
(***************************************************************************)

(***************************************************************************)
(* Recursion.  K[u] are the places a recursive function looks at for its   *)
(* value at u, T is what it does with the values there.  If following K    *)
(* never goes round, there is such a function: the results on the sets     *)
(* that are closed under K agree, and together cover all.                  *)
(***************************************************************************)
Wellfounded(D, K) == \A S \in SUBSET D : S # {} => \E u \in S : K[u] \cap S = {}

LooksBelow(D, V, K, T) ==
    \A g, h \in [D -> V] : \A u \in D :
        (\A c \in K[u] : g[c] = h[c]) => T[g][u] = T[h][u]

Recurses(D, V, K, T) ==
    /\ V # {}
    /\ K \in [D -> SUBSET D] /\ Wellfounded(D, K)
    /\ T \in [[D -> V] -> [D -> V]] /\ LooksBelow(D, V, K, T)

IsFixed(D, V, T, f) == f \in [D -> V] /\ f = T[f]

(* Such a function exists, whatever T computes from the values below.      *)
LEMMA Recursion ==
    ASSUME NEW D, NEW V, NEW K, NEW T, Recurses(D, V, K, T)
    PROVE  \E f : IsFixed(D, V, T, f)
<1> /\ V # {}
    /\ K \in [D -> SUBSET D] /\ Wellfounded(D, K)
    /\ T \in [[D -> V] -> [D -> V]] /\ LooksBelow(D, V, K, T)
  BY DEF Recurses
<1> DEFINE Closed(S) == \A u \in S : K[u] \subseteq S
           Good(S, g) == \A u \in S : g[u] = T[g][u]
           U == {u \in D : \E S \in SUBSET D : /\ u \in S /\ Closed(S)
                                               /\ \E g \in [D -> V] : Good(S, g)}
           Is(u, v) == \E S \in SUBSET D : /\ u \in S /\ Closed(S)
                                           /\ \E g \in [D -> V] : Good(S, g) /\ v = g[u]
           G == [u \in D |-> IF u \in U THEN CHOOSE v \in V : Is(u, v)
                             ELSE CHOOSE v \in V : TRUE]
<1>1. \A S, R \in SUBSET D : \A g, h \in [D -> V] :
        Closed(S) /\ Closed(R) /\ Good(S, g) /\ Good(R, h)
          => \A u \in S \cap R : g[u] = h[u]
  <2> SUFFICES ASSUME NEW S \in SUBSET D, NEW R \in SUBSET D,
                      NEW g \in [D -> V], NEW h \in [D -> V],
                      Closed(S), Closed(R), Good(S, g), Good(R, h)
               PROVE  \A u \in S \cap R : g[u] = h[u]
    OBVIOUS
  <2> DEFINE bad == {u \in S \cap R : g[u] # h[u]}
  <2>1. SUFFICES ASSUME bad # {} PROVE FALSE
    OBVIOUS
  <2>2. bad \in SUBSET D
    OBVIOUS
  <2>3. PICK u \in bad : K[u] \cap bad = {}
    <3> HIDE DEF bad
    <3> QED BY <2>1, <2>2 DEF Wellfounded
  <2>4. u \in D /\ K[u] \subseteq S \cap R
    BY <2>3
  <2>5. \A c \in K[u] : g[c] = h[c]
    BY <2>3, <2>4
  <2>6. T[g][u] = T[h][u]
    BY <2>4, <2>5 DEF LooksBelow
  <2> QED BY <2>3, <2>6
<1>2. \A S \in SUBSET D : \A g \in [D -> V] :
        Closed(S) /\ Good(S, g) => \A u \in S : u \in U /\ G[u] = g[u]
  <2> HIDE DEF G, U, Is, Good, Closed
  <2> SUFFICES ASSUME NEW S \in SUBSET D, NEW g \in [D -> V], Closed(S), Good(S, g),
                      NEW u \in S
               PROVE  u \in U /\ G[u] = g[u]
    OBVIOUS
  <2>1. u \in U
    BY DEF U
  <2>2. Is(u, g[u]) /\ g[u] \in V
    BY DEF Is
  <2>3. \A v : Is(u, v) => v = g[u]
    BY <1>1 DEF Is
  <2> QED BY <2>1, <2>2, <2>3 DEF G
<1>3. G \in [D -> V]
  <2> SUFFICES ASSUME NEW u \in D PROVE G[u] \in V
    OBVIOUS
  <2>1. CASE u \notin U
    <3> HIDE DEF U
    <3> QED BY <2>1
  <2>2. CASE u \in U
    <3>1. PICK S \in SUBSET D : /\ u \in S /\ Closed(S)
                                /\ \E g \in [D -> V] : Good(S, g)
      BY <2>2
    <3>2. PICK g \in [D -> V] : Good(S, g)
      BY <3>1
    <3>3. G[u] = g[u]
      <4> HIDE DEF G, U, Good, Closed
      <4> QED BY <1>2, <3>1, <3>2
    <3> HIDE DEF G, U
    <3> QED BY <3>3
  <2> QED BY <2>1, <2>2
<1>4. U \in SUBSET D
  OBVIOUS
<1>5. Closed(U) /\ Good(U, G)
  <2> SUFFICES ASSUME NEW u \in U PROVE K[u] \subseteq U /\ G[u] = T[G][u]
    OBVIOUS
  <2>1. PICK S \in SUBSET D : /\ u \in S /\ Closed(S)
                              /\ \E g \in [D -> V] : Good(S, g)
    OBVIOUS
  <2>2. PICK g \in [D -> V] : Good(S, g)
    BY <2>1
  <2>3. g[u] = T[g][u] /\ K[u] \subseteq S
    BY <2>1, <2>2
  <2>4. \A w \in S : w \in U /\ G[w] = g[w]
    <3> HIDE DEF G, U, Good, Closed
    <3> QED BY <1>2, <2>1, <2>2
  <2> HIDE DEF G, U
  <2>5. T[G][u] = T[g][u]
    BY <1>3, <2>1, <2>3, <2>4 DEF LooksBelow
  <2> QED BY <2>1, <2>3, <2>4, <2>5
<1>6. U = D
  <2> SUFFICES ASSUME D \ U # {} PROVE FALSE
    BY <1>4
  <2>1. PICK x \in D \ U : K[x] \cap (D \ U) = {}
    BY DEF Wellfounded
  <2> DEFINE S == U \cup {x}
             H == [G EXCEPT ![x] = T[G][x]]
  <2> HIDE DEF G, U
  <2>2. K[x] \subseteq U
    BY <2>1
  <2>3. H \in [D -> V] /\ S \in SUBSET D /\ Closed(S)
    BY <1>3, <1>4, <1>5, <2>1, <2>2
  <2>4. \A w \in U : H[w] = G[w]
    BY <1>3, <1>4, <2>1
  <2>5. \A w \in S : T[H][w] = T[G][w]
    <3> SUFFICES ASSUME NEW w \in S PROVE T[H][w] = T[G][w]
      OBVIOUS
    <3>1. K[w] \subseteq U
      BY <1>5, <2>2
    <3>2. \A c \in K[w] : H[c] = G[c]
      BY <2>4, <3>1
    <3> HIDE DEF H
    <3> QED BY <1>3, <1>4, <2>1, <2>3, <3>2 DEF LooksBelow
  <2>6. Good(S, H)
    <3> SUFFICES ASSUME NEW w \in S PROVE H[w] = T[H][w]
      OBVIOUS
    <3>1. CASE w = x
      BY <1>3, <2>1, <2>5, <3>1
    <3>2. CASE w # x
      BY <1>5, <2>4, <2>5, <3>2
    <3> QED BY <3>1, <3>2
  <2> HIDE DEF H, Good, Closed
  <2>7. x \in U
    BY <1>2, <2>3, <2>6
  <2> QED BY <2>1, <2>7
<1>7. G = T[G]
  <2> HIDE DEF G, U
  <2>1. T[G] \in [D -> V]
    BY <1>3
  <2> QED BY <1>3, <1>5, <1>6, <2>1
<1> QED BY <1>3, <1>7 DEF IsFixed

-----------------------------------------------------------------------------
(* Numbers up to n, each looking at the one before.                        *)
LEMMA LeastOf ==
    ASSUME NEW S \in SUBSET Nat, S # {}
    PROVE  \E x \in S : \A y \in S : x <= y
<1> DEFINE R == OpToRel(<, Nat)
<1>1. IsWellFoundedOn(R, Nat)
  BY NatLessThanWellFounded
<1>2. \A x, y \in Nat : x < y => <<x, y>> \in R
  BY DEF OpToRel
<1> HIDE DEF R
<1>3. PICK x \in S : \A y \in S : <<y, x>> \notin R
  BY <1>1, WFMin
<1>4. \A y \in S : ~(y < x)
  BY <1>2, <1>3
<1>5. \A y \in S : x \in Nat /\ y \in Nat
  OBVIOUS
<1> QED BY <1>4, <1>5

Before(n) == [i \in 0..n |-> IF i = 0 THEN {} ELSE {i - 1}]

(* From any number of 0..n the way down by one ends.                       *)
LEMMA BeforeIsWellfounded ==
    ASSUME NEW n \in Nat
    PROVE  Before(n) \in [0..n -> SUBSET (0..n)] /\ Wellfounded(0..n, Before(n))
<1>1. Before(n) \in [0..n -> SUBSET (0..n)]
  BY DEF Before
<1>2. ASSUME NEW S \in SUBSET (0..n), S # {} PROVE \E u \in S : Before(n)[u] \cap S = {}
  <2>1. S \in SUBSET Nat
    BY <1>2
  <2>2. PICK x \in S : \A y \in S : x <= y
    BY <1>2, <2>1, LeastOf
  <2>3. x \in 0..n /\ x - 1 \notin S
    BY <2>1, <2>2
  <2> QED BY <2>2, <2>3 DEF Before
<1> QED BY <1>1, <1>2 DEF Wellfounded

(* A set of numbers with a that goes on up to n has n.                     *)
LEMMA Upwards ==
    ASSUME NEW n \in Nat, NEW a \in 0..n, NEW S, a \in S,
           \A i \in a..n : i + 1 <= n /\ i \in S => i + 1 \in S
    PROVE  \A i \in a..n : i \in S
<1> DEFINE bad == {i \in a..n : i \notin S}
<1> SUFFICES ASSUME bad # {} PROVE FALSE
  OBVIOUS
<1>1. bad \in SUBSET Nat
  OBVIOUS
<1>2. PICK x \in bad : \A y \in bad : x <= y
  BY <1>1, LeastOf
<1>3. x \in a..n /\ x # a
  BY <1>2
<1>4. x - 1 \in a..n /\ x - 1 \notin bad /\ (x - 1) + 1 = x
  BY <1>2, <1>3
<1> QED BY <1>2, <1>3, <1>4

(***************************************************************************)
(* strings.Join.                                                           *)
(***************************************************************************)
JoinsUp(parts, word, f) ==
    /\ f[0] = <<>>
    /\ Len(parts) >= 1 => f[1] = parts[1]
    /\ \A i \in 2..Len(parts) : f[i] = f[i - 1] \o <<word>> \o parts[i]

(* Join(parts, word) is the last of the lists that grow by a word and a    *)
(* part at a time (strings.Join).                                          *)
LEMMA JoinIs ==
    ASSUME NEW W, NEW parts \in Seq(Seq(W)), NEW word \in W
    PROVE  \E f \in [0..Len(parts) -> Seq(W)] :
              Join(parts, word) = f[Len(parts)] /\ JoinsUp(parts, word, f)
<1> DEFINE n == Len(parts)
           step(f) == [i \in 0..n |-> CASE i = 0 -> <<>>
                                        [] i = 1 -> parts[1]
                                        [] OTHER -> f[i - 1] \o <<word>> \o parts[i]]
           T == [f \in [0..n -> Seq(W)] |-> step(f)]
           joined == CHOOSE f : f = step(f)
<1>0. n \in Nat /\ n \in 0..n /\ \A i \in 1..n : parts[i] \in Seq(W)
  OBVIOUS
<1>1. <<>> \in Seq(W)
  BY EmptySeq
<1>1a. Seq(W) # {}
  BY <1>1
<1>2. T \in [[0..n -> Seq(W)] -> [0..n -> Seq(W)]]
  <2> SUFFICES ASSUME NEW f \in [0..n -> Seq(W)], NEW i \in 0..n
               PROVE  step(f)[i] \in Seq(W)
    OBVIOUS
  <2>1. CASE i \in {0, 1}
    BY <1>0, <1>1, <2>1
  <2>2. CASE i \notin {0, 1}
    <3>1. i - 1 \in 0..n /\ i \in 1..n
      BY <1>0, <2>2
    <3>2. f[i - 1] \in Seq(W) /\ parts[i] \in Seq(W) /\ <<word>> \in Seq(W)
      <4>1. f[i - 1] \in Seq(W)
        <5> HIDE DEF n
        <5> QED BY <3>1
      <4> QED BY <1>0, <3>1, <4>1
    <3>3. f[i - 1] \o <<word>> \o parts[i] \in Seq(W)
      BY <3>2
    <3> QED BY <2>2, <3>3
  <2> QED BY <2>1, <2>2
<1>3. LooksBelow(0..n, Seq(W), Before(n), T)
  <2>1. ASSUME NEW g \in [0..n -> Seq(W)], NEW h \in [0..n -> Seq(W)], NEW i \in 0..n,
               \A c \in Before(n)[i] : g[c] = h[c]
        PROVE  T[g][i] = T[h][i]
    <3>1. i # 0 => g[i - 1] = h[i - 1]
      BY <2>1 DEF Before
    <3>2. step(g)[i] = step(h)[i]
      BY <3>1
    <3> QED BY <3>2
  <2> HIDE DEF T, n
  <2> QED BY <2>1 DEF LooksBelow
<1>4. \E f \in [0..n -> Seq(W)] : f = T[f]
  <2> HIDE DEF T, n
  <2>1. /\ Before(n) \in [0..n -> SUBSET (0..n)]
        /\ Wellfounded(0..n, Before(n))
    BY <1>0, BeforeIsWellfounded
  <2>2. Recurses(0..n, Seq(W), Before(n), T)
    BY <1>1a, <1>2, <1>3, <2>1 DEF Recurses
  <2>3. PICK f : IsFixed(0..n, Seq(W), T, f)
    BY <2>2, Recursion
  <2> QED BY <2>3 DEF IsFixed
<1>5. \E f : f = step(f)
  BY <1>4
<1>6. joined = step(joined)
  BY <1>5
<1>7. Join(parts, word) = joined[n]
  BY Zenon DEF Join, n
<1> HIDE DEF joined
<1>8. /\ joined[0] = <<>>
      /\ n >= 1 => joined[1] = parts[1]
      /\ \A i \in 2..n : joined[i] = joined[i - 1] \o <<word>> \o parts[i]
  <2>1. joined[0] = <<>>
    BY <1>0, <1>6
  <2>2. n >= 1 => joined[1] = parts[1]
    <3>1. n >= 1 => 1 \in 0..n /\ 1 # 0
      BY <1>0
    <3> QED BY <1>6, <3>1
  <2>3. ASSUME NEW i \in 2..n PROVE joined[i] = joined[i - 1] \o <<word>> \o parts[i]
    <3>1. i \in 0..n /\ i # 0 /\ i # 1
      BY <1>0
    <3> QED BY <1>6, <3>1
  <2> QED BY <2>1, <2>2, <2>3
<1>9. \A i \in 0..n : joined[i] \in Seq(W)
  <2> DEFINE S == {i \in 0..n : joined[i] \in Seq(W)}
  <2>1. 0 \in S
    <3>1. 0 \in 0..n
      BY <1>0
    <3> QED BY <1>1, <1>8, <3>1
  <2>2. ASSUME NEW i \in 0..n, i + 1 <= n, i \in S PROVE i + 1 \in S
    <3>1. CASE i = 0
      BY <1>0, <1>8, <2>2, <3>1
    <3>2. CASE i # 0
      <4>1. i + 1 \in 2..n /\ (i + 1) - 1 = i /\ i + 1 \in 1..n /\ i + 1 \in 0..n
        BY <1>0, <2>2, <3>2
      <4>2. joined[i + 1] = joined[i] \o <<word>> \o parts[i + 1]
        BY <1>8, <4>1
      <4>3. joined[i] \in Seq(W) /\ <<word>> \in Seq(W) /\ parts[i + 1] \in Seq(W)
        BY <1>0, <2>2, <4>1
      <4>4. joined[i + 1] \in Seq(W)
        BY <4>2, <4>3
      <4> QED BY <4>1, <4>4
    <3> QED BY <3>1, <3>2
  <2> HIDE DEF S
  <2>3. 0 \in 0..n
    BY <1>0
  <2>4. \A i \in 0..n : i \in S
    BY <1>0, <2>1, <2>2, <2>3, Upwards
  <2> QED BY <2>4 DEF S
<1>10. joined \in [0..n -> Seq(W)]
  BY <1>6, <1>9
<1> QED BY <1>7, <1>8, <1>10 DEF JoinsUp, n

(***************************************************************************)
(* Trees.                                                                  *)
(***************************************************************************)
Kids == [n \in Nodes |-> Children(n)]

(* The children of a node are nodes, and are the ones in its list.         *)
LEMMA KidsAreNodes ==
    \A n \in Nodes :
        /\ n.children \in Seq(Nodes)
        /\ DOMAIN n.children = 1..Len(n.children) /\ Len(n.children) \in Nat
        /\ \A i \in 1..Len(n.children) : n.children[i] \in Nodes /\ n.children[i] \in Children(n)
        /\ Children(n) \subseteq Nodes
        /\ \A c \in Children(n) : \E i \in 1..Len(n.children) : c = n.children[i]
<1> SUFFICES ASSUME NEW n \in Nodes
             PROVE  /\ n.children \in Seq(Nodes)
                    /\ DOMAIN n.children = 1..Len(n.children) /\ Len(n.children) \in Nat
                    /\ \A i \in 1..Len(n.children) :
                          n.children[i] \in Nodes /\ n.children[i] \in Children(n)
                    /\ Children(n) \subseteq Nodes
                    /\ \A c \in Children(n) : \E i \in 1..Len(n.children) : c = n.children[i]
  OBVIOUS
<1> DEFINE cs == n.children
<1>1. cs \in Seq(Nodes)
  BY AccessPolicyAssumption
<1> HIDE DEF cs
<1>2. DOMAIN cs = 1..Len(cs) /\ Len(cs) \in Nat /\ \A i \in 1..Len(cs) : cs[i] \in Nodes
  BY <1>1
<1>3. Children(n) = {cs[i] : i \in 1..Len(cs)}
  BY <1>2 DEF Children, Range, cs
<1> QED BY <1>1, <1>2, <1>3 DEF cs

(* Going from node to child never goes round: a tree is a finite document. *)
LEMMA KidsWellfounded ==
    Kids \in [Nodes -> SUBSET Nodes] /\ Wellfounded(Nodes, Kids)
<1>1. Kids \in [Nodes -> SUBSET Nodes]
  BY KidsAreNodes DEF Kids
<1>2. ASSUME NEW S \in SUBSET Nodes, S # {} PROVE \E n \in S : Kids[n] \cap S = {}
  <2>1. PICK n \in S : Children(n) \cap S = {}
    BY <1>2, AccessPolicyAssumption
  <2> QED BY <2>1 DEF Kids
<1> QED BY <1>1, <1>2 DEF Wellfounded

(* A set of nodes that has every node all of whose children it has, has    *)
(* them all.                                                               *)
LEMMA UpTheTree ==
    ASSUME NEW S, \A n \in Nodes : (\A c \in Children(n) : c \in S) => n \in S
    PROVE  \A n \in Nodes : n \in S
<1> DEFINE bad == Nodes \ S
<1> SUFFICES ASSUME bad # {} PROVE FALSE
  OBVIOUS
<1>1. bad \in SUBSET Nodes
  OBVIOUS
<1>2. PICK n \in bad : Children(n) \cap bad = {}
  <2> HIDE DEF bad
  <2> QED BY <1>1, AccessPolicyAssumption
<1> QED BY <1>2, KidsAreNodes

-----------------------------------------------------------------------------
(* The nodes of a tree are its root and the nodes of the trees below.      *)
LEMMA PartsIs ==
    \A n \in Nodes : /\ Parts[n] = {n} \cup UNION {Parts[c] : c \in Children(n)}
                     /\ Parts[n] \subseteq Nodes
<1> DEFINE step(f) == [n \in Nodes |-> {n} \cup UNION {f[c] : c \in Children(n)}]
           T == [f \in [Nodes -> SUBSET Nodes] |-> step(f)]
<1>1. T \in [[Nodes -> SUBSET Nodes] -> [Nodes -> SUBSET Nodes]]
  <2> SUFFICES ASSUME NEW f \in [Nodes -> SUBSET Nodes], NEW n \in Nodes
               PROVE  step(f)[n] \in SUBSET Nodes
    OBVIOUS
  <2> QED BY KidsAreNodes
<1>2. LooksBelow(Nodes, SUBSET Nodes, Kids, T)
  <2>1. ASSUME NEW g \in [Nodes -> SUBSET Nodes], NEW h \in [Nodes -> SUBSET Nodes],
               NEW n \in Nodes, \A c \in Kids[n] : g[c] = h[c]
        PROVE  T[g][n] = T[h][n]
    <3>1. \A c \in Children(n) : g[c] = h[c]
      BY <2>1 DEF Kids
    <3>2. step(g)[n] = step(h)[n]
      BY <3>1
    <3> QED BY <3>2
  <2> HIDE DEF T
  <2> QED BY <2>1 DEF LooksBelow
<1>3. \E f : f = step(f)
  <2>1. Recurses(Nodes, SUBSET Nodes, Kids, T)
    BY <1>1, <1>2, KidsWellfounded DEF Recurses
  <2>2. PICK f : IsFixed(Nodes, SUBSET Nodes, T, f)
    <3> HIDE DEF T
    <3> QED BY <2>1, Recursion
  <2> QED BY <2>2 DEF IsFixed
<1>4. Parts = step(Parts)
  BY <1>3 DEF Parts
<1>5. \A n \in Nodes : Parts[n] = {n} \cup UNION {Parts[c] : c \in Children(n)}
  BY <1>4
<1> DEFINE S == {n \in Nodes : Parts[n] \subseteq Nodes}
<1>6. \A n \in Nodes : (\A c \in Children(n) : c \in S) => n \in S
  BY <1>5
<1> HIDE DEF S
<1>7. \A n \in Nodes : n \in S
  BY <1>6, UpTheTree
<1> QED BY <1>5, <1>7 DEF S

(* A set that is closed under children has the nodes of all its trees.     *)
LEMMA PartsWithin ==
    ASSUME NEW R, \A n \in R \cap Nodes : Children(n) \subseteq R
    PROVE  \A n \in R \cap Nodes : Parts[n] \subseteq R
<1> DEFINE S == {n \in Nodes : n \in R => Parts[n] \subseteq R}
<1>1. ASSUME NEW n \in Nodes, \A c \in Children(n) : c \in S PROVE n \in S
  <2>1. SUFFICES ASSUME n \in R PROVE Parts[n] \subseteq R
    OBVIOUS
  <2>2. \A c \in Children(n) : c \in R /\ Parts[c] \subseteq R
    BY <1>1, <2>1
  <2> QED BY <2>1, <2>2, PartsIs
<1> HIDE DEF S
<1>2. \A n \in Nodes : n \in S
  BY <1>1, UpTheTree
<1> QED BY <1>2 DEF S

-----------------------------------------------------------------------------
(* Whatever Validate admits has at every node what the validator asks of   *)
(* the type of the node (validateNode).                                    *)
NodeOK(n, metas) ==
    /\ n.type \in NodeTypes
    /\ n.type # "LEAF" => validateLogicNode(n)
    /\ n.type = "LEAF" => validateLeafNode(n, metas)

(* A tree that Validate admits is checked at every node, at whatever depth *)
(* (validateNode calls itself on the children).                            *)
LEMMA ValidNodes ==
    ASSUME NEW root \in Nodes, NEW metas, Validate(root, metas)
    PROVE  \A n \in Parts[root] : NodeOK(n, metas)
<1> DEFINE ok(f, n) ==
             CASE n.type \in {"AND", "OR"} ->
                    validateLogicNode(n) /\ \A c \in Children(n) : f[c]
               [] n.type = "LEAF" -> validateLeafNode(n, metas)
               [] OTHER -> FALSE
           step(f) == [n \in Nodes |-> ok(f, n)]
           T == [f \in [Nodes -> BOOLEAN] |-> step(f)]
           validateNode == CHOOSE f : f = step(f)
<1>1. T \in [[Nodes -> BOOLEAN] -> [Nodes -> BOOLEAN]]
  <2>1. ASSUME NEW f \in [Nodes -> BOOLEAN], NEW n \in Nodes PROVE ok(f, n) \in BOOLEAN
    <3>1. CASE n.type \in {"AND", "OR"}
      <4>1. ok(f, n) = (validateLogicNode(n) /\ \A c \in Children(n) : f[c])
        BY <3>1
      <4> QED BY <4>1
    <3>2. CASE n.type = "LEAF"
      <4>1. ok(f, n) = validateLeafNode(n, metas)
        BY <3>2
      <4> QED BY <4>1 DEF validateLeafNode
    <3>3. CASE n.type \notin {"AND", "OR", "LEAF"}
      BY <3>3
    <3> QED BY <3>1, <3>2, <3>3
  <2> HIDE DEF ok
  <2> QED BY <2>1
<1>2. LooksBelow(Nodes, BOOLEAN, Kids, T)
  <2>1. ASSUME NEW g \in [Nodes -> BOOLEAN], NEW h \in [Nodes -> BOOLEAN],
               NEW n \in Nodes, \A c \in Kids[n] : g[c] = h[c]
        PROVE  T[g][n] = T[h][n]
    <3>1. \A c \in Children(n) : g[c] = h[c]
      BY <2>1 DEF Kids
    <3>2. (\A c \in Children(n) : g[c]) <=> (\A c \in Children(n) : h[c])
      BY <3>1
    <3>3. ok(g, n) = ok(h, n)
      BY <3>2
    <3> HIDE DEF ok
    <3> QED BY <3>3
  <2> HIDE DEF T
  <2> QED BY <2>1 DEF LooksBelow
<1>3. \E f : f = step(f)
  <2>1. Recurses(Nodes, BOOLEAN, Kids, T)
    BY <1>1, <1>2, KidsWellfounded DEF Recurses
  <2>2. PICK f : IsFixed(Nodes, BOOLEAN, T, f)
    <3> HIDE DEF T
    <3> QED BY <2>1, Recursion
  <2> HIDE DEF ok
  <2> QED BY <2>2 DEF IsFixed
<1>4. validateNode = step(validateNode)
  <2> HIDE DEF step
  <2> QED BY <1>3
<1>5. validateNode[root]
  BY Zenon DEF Validate
<1> HIDE DEF validateNode
<1>6. \A n \in Nodes : validateNode[n] <=> ok(validateNode, n)
  <2> HIDE DEF ok
  <2> QED BY <1>4
<1> DEFINE R == {n \in Nodes : validateNode[n]}
<1>7. \A n \in R : NodeOK(n, metas) /\ Children(n) \subseteq R
  <2> SUFFICES ASSUME NEW n \in R PROVE NodeOK(n, metas) /\ Children(n) \subseteq R
    OBVIOUS
  <2>0. n \in Nodes /\ ok(validateNode, n)
    BY <1>6
  <2>1. CASE n.type \in {"AND", "OR"}
    <3>1. validateLogicNode(n) /\ \A c \in Children(n) : validateNode[c]
      BY <2>0, <2>1
    <3> QED BY <2>0, <2>1, <3>1, KidsAreNodes DEF NodeOK, NodeTypes
  <2>2. CASE n.type = "LEAF"
    <3>1. validateLeafNode(n, metas)
      BY <2>0, <2>2
    <3>2. n.children = <<>>
      BY <3>1 DEF validateLeafNode
    <3>3. Children(n) = {}
      BY <3>2 DEF Children, Range
    <3> QED BY <2>2, <3>1, <3>3 DEF NodeOK, NodeTypes
  <2>3. CASE n.type \notin {"AND", "OR", "LEAF"}
    BY <2>0, <2>3
  <2> QED BY <2>1, <2>2, <2>3
<1> HIDE DEF R
<1>8. root \in R
  BY <1>5 DEF R
<1>9. R \subseteq Nodes
  BY DEF R
<1>10. Parts[root] \subseteq R
  BY <1>7, <1>8, <1>9, PartsWithin
<1> QED BY <1>7, <1>10

-----------------------------------------------------------------------------
(* The marks of an expression.                                             *)
Mark ==
    (UNION {Range(Text[c]) : c \in DOMAIN Text})
      \cup Separators \cup Operators \cup {"(", ")", ":", QuoteMark, EscapedQuote}

(* Whatever stands in an expression is made of marks (expression.go).      *)
LEMMA AllMarks ==
    /\ "(" \in Mark /\ ")" \in Mark /\ QuoteMark \in Mark /\ EscapedQuote \in Mark
    /\ \A type : Separator(type) \in Mark
    /\ \A operator : shownOperator(operator) \in Mark
    /\ \A text \in Seq(Mark) : quoteIfNeeded(text) \in Seq(Mark)
    /\ \A n \in Nodes : n.type = "LEAF" =>
          /\ Text[n.attribute] \in Seq(Mark) /\ Text[n.value] \in Seq(Mark)
          /\ leafExpression(n) \in Seq(Mark)
<1>1. "(" \in Mark /\ ")" \in Mark /\ QuoteMark \in Mark /\ EscapedQuote \in Mark
  BY DEF Mark, QuoteMark, EscapedQuote
<1>2. \A type : Separator(type) \in Mark
  BY DEF Mark, Separator, Separators
<1>3. \A operator : shownOperator(operator) \in Mark
  BY DEF Mark, shownOperator, Operators
<1>4. ASSUME NEW text \in Seq(Mark) PROVE quoteIfNeeded(text) \in Seq(Mark)
  <2> DEFINE escaped == [i \in DOMAIN text |->
                           IF text[i] = QuoteMark THEN EscapedQuote ELSE text[i]]
             q == <<QuoteMark>>
  <2>1. escaped \in Seq(Mark)
    <3> HIDE DEF Mark
    <3>1. DOMAIN text = 1..Len(text) /\ Len(text) \in Nat /\ \A i \in 1..Len(text) : text[i] \in Mark
      OBVIOUS
    <3>2. escaped = [i \in 1..Len(text) |->
                       IF text[i] = QuoteMark THEN EscapedQuote ELSE text[i]]
      BY <3>1
    <3>3. \A i \in 1..Len(text) :
             (IF text[i] = QuoteMark THEN EscapedQuote ELSE text[i]) \in Mark
      BY <1>1, <3>1
    <3> HIDE DEF escaped
    <3> QED BY <3>1, <3>2, <3>3
  <2>2. q \in Seq(Mark)
    <3> HIDE DEF Mark
    <3> QED BY <1>1
  <2>3. quoteIfNeeded(text) = text \/ quoteIfNeeded(text) = q \o escaped \o q
    BY DEF quoteIfNeeded
  <2> HIDE DEF q, escaped
  <2>4. q \o escaped \o q \in Seq(Mark)
    BY <2>1, <2>2
  <2> QED BY <2>3, <2>4
<1>5. ASSUME NEW n \in Nodes, n.type = "LEAF"
      PROVE  /\ Text[n.attribute] \in Seq(Mark) /\ Text[n.value] \in Seq(Mark)
             /\ leafExpression(n) \in Seq(Mark)
  <2> DEFINE A == Text[n.attribute]
             O == <<shownOperator(n.operator)>>
             V == quoteIfNeeded(Text[n.value])
  <2>1. A \in Seq(Mark) /\ Text[n.value] \in Seq(Mark)
    <3>1. ASSUME NEW c \in DOMAIN Text PROVE Text[c] \in Seq(Mark)
      <4> DEFINE t == Text[c]
      <4>1. t \in Seq(STRING)
        BY TextAssumption
      <4>2. Range(t) \subseteq Mark
        BY DEF Mark
      <4> HIDE DEF t
      <4>3. DOMAIN t = 1..Len(t) /\ Len(t) \in Nat /\ t = [i \in 1..Len(t) |-> t[i]]
        BY <4>1
      <4>4. \A i \in 1..Len(t) : t[i] \in Mark
        BY <4>2, <4>3 DEF Range
      <4>5. t \in Seq(Mark)
        BY <4>3, <4>4
      <4> QED BY <4>5 DEF t
    <3> QED BY <1>5, <3>1, TextAssumption
  <2>2. V \in Seq(Mark)
    BY <1>4, <2>1
  <2>3. O \in Seq(Mark)
    <3> HIDE DEF Mark
    <3> QED BY <1>3
  <2>4. leafExpression(n) = A \o O \o V
    BY DEF leafExpression
  <2> HIDE DEF Mark, A, O, V
  <2>5. A \o O \o V \in Seq(Mark)
    BY <2>1, <2>2, <2>3 DEF A
  <2> QED BY <2>1, <2>4, <2>5 DEF A
<1> QED BY <1>1, <1>2, <1>3, <1>4, <1>5

ExprsBelow(n) == [i \in DOMAIN n.children |-> expressionFor[n.children[i]]]

(* expressionFor of a node follows from that of its children, and is made  *)
(* of words.                                                               *)
LEMMA ExpressionIs ==
    \A n \in Nodes :
        /\ expressionFor[n] \in Seq(Mark)
        /\ n.type = "LEAF" => expressionFor[n] = leafExpression(n)
        /\ n.type # "LEAF" => expressionFor[n] = <<"(">> \o Join(ExprsBelow(n), Separator(n.type))
                                                   \o <<")">>
<1> DEFINE below(f, n) == [i \in DOMAIN n.children |-> f[n.children[i]]]
           expr(f, n) == IF n.type = "LEAF" THEN leafExpression(n)
                         ELSE <<"(">> \o Join(below(f, n), Separator(n.type)) \o <<")">>
           step(f) == [n \in Nodes |-> expr(f, n)]
           V == Seq(Mark)
           T == [f \in [Nodes -> V] |-> step(f)]
<1>1. \A f : \A n \in Nodes : (\A c \in Children(n) : f[c] \in V) => expr(f, n) \in V
  <2> SUFFICES ASSUME NEW f, NEW n \in Nodes, \A c \in Children(n) : f[c] \in V
               PROVE  expr(f, n) \in V
    OBVIOUS
  <2>1. CASE n.type = "LEAF"
    BY <2>1, AllMarks
  <2>2. CASE n.type # "LEAF"
    <3>1. below(f, n) \in Seq(V)
      BY KidsAreNodes
    <3>2. Separator(n.type) \in Mark /\ "(" \in Mark /\ ")" \in Mark
      BY AllMarks
    <3> HIDE DEF Mark, below
    <3>3. PICK j \in [0..Len(below(f, n)) -> V] :
             Join(below(f, n), Separator(n.type)) = j[Len(below(f, n))]
      BY <3>1, <3>2, JoinIs
    <3>4. Join(below(f, n), Separator(n.type)) \in V
      BY <3>1, <3>3
    <3>5. <<"(">> \in V /\ <<")">> \in V
      BY <3>2
    <3> DEFINE jj == Join(below(f, n), Separator(n.type))
               a == <<"(">>
               b == <<")">>
    <3> HIDE DEF jj, a, b
    <3>6. a \o jj \o b \in V
      BY <3>4, <3>5 DEF jj, a, b
    <3> QED BY <2>2, <3>6 DEF jj, a, b
  <2> QED BY <2>1, <2>2
<1>2. T \in [[Nodes -> V] -> [Nodes -> V]]
  <2> HIDE DEF V, expr
  <2> QED BY <1>1, KidsAreNodes
<1>3. LooksBelow(Nodes, V, Kids, T)
  <2>1. ASSUME NEW g \in [Nodes -> V], NEW h \in [Nodes -> V],
               NEW n \in Nodes, \A c \in Kids[n] : g[c] = h[c]
        PROVE  T[g][n] = T[h][n]
    <3>1. \A c \in Children(n) : g[c] = h[c]
      BY <2>1 DEF Kids
    <3>2. below(g, n) = below(h, n)
      BY <3>1, KidsAreNodes
    <3>3. expr(g, n) = expr(h, n)
      BY <3>2
    <3> HIDE DEF expr, V
    <3> QED BY <3>3
  <2> HIDE DEF T, V
  <2> QED BY <2>1 DEF LooksBelow
<1>4. \E f : f = step(f)
  <2>0. V # {}
    <3>1. <<>> \in V
      BY EmptySeq
    <3> QED BY <3>1
  <2>1. Recurses(Nodes, V, Kids, T)
    <3> HIDE DEF V, T
    <3> QED BY <1>2, <1>3, <2>0, KidsWellfounded DEF Recurses
  <2>2. PICK f : IsFixed(Nodes, V, T, f)
    <3> HIDE DEF T
    <3> QED BY <2>1, Recursion
  <2> HIDE DEF V, expr
  <2> QED BY <2>2 DEF IsFixed
<1>5. expressionFor = step(expressionFor)
  <2> HIDE DEF expr
  <2>1. expressionFor = CHOOSE f : f = step(f)
    BY Zenon DEF expressionFor, expr
  <2> QED BY <1>4, <2>1
<1>6. \A n \in Nodes : expressionFor[n] = expr(expressionFor, n)
  <2> HIDE DEF expr
  <2> QED BY <1>5
<1> DEFINE S == {n \in Nodes : expressionFor[n] \in V}
<1>7. \A n \in Nodes : (\A c \in Children(n) : c \in S) => n \in S
  <2> HIDE DEF expr, V
  <2> QED BY <1>1, <1>6
<1> HIDE DEF S
<1>8. \A n \in Nodes : n \in S
  BY <1>7, UpTheTree
<1>9. \A n \in Nodes : expressionFor[n] \in V
  BY <1>8 DEF S
<1>10. \A n \in Nodes : below(expressionFor, n) = ExprsBelow(n)
  BY DEF ExprsBelow
<1> HIDE DEF V, below
<1> QED BY <1>6, <1>9, <1>10 DEF V

-----------------------------------------------------------------------------
(* Who satisfies a tree follows from who satisfies the trees below.        *)
LEMMA SatisfiedIs ==
    ASSUME NEW S
    PROVE  \A n \in Nodes :
              /\ Satisfied(n, S) \in BOOLEAN
              /\ n.type = "LEAF" => (Satisfied(n, S) <=> Condition(n) \in S)
              /\ n.type = "AND" => (Satisfied(n, S) <=> \A c \in Children(n) : Satisfied(c, S))
              /\ n.type \notin {"LEAF", "AND"} =>
                    (Satisfied(n, S) <=> \E c \in Children(n) : Satisfied(c, S))
<1> DEFINE holds(f, n) == CASE n.type = "LEAF" -> Condition(n) \in S
                            [] n.type = "AND" -> \A c \in Children(n) : f[c]
                            [] OTHER -> \E c \in Children(n) : f[c]
           step(f) == [n \in Nodes |-> holds(f, n)]
           T == [f \in [Nodes -> BOOLEAN] |-> step(f)]
           sat == CHOOSE f : f = step(f)
<1>0. \A f : \A n \in Nodes :
        /\ holds(f, n) \in BOOLEAN
        /\ n.type = "LEAF" => (holds(f, n) <=> Condition(n) \in S)
        /\ n.type = "AND" => (holds(f, n) <=> \A c \in Children(n) : f[c])
        /\ n.type \notin {"LEAF", "AND"} => (holds(f, n) <=> \E c \in Children(n) : f[c])
  <2> SUFFICES ASSUME NEW f, NEW n \in Nodes
               PROVE  /\ holds(f, n) \in BOOLEAN
                      /\ n.type = "LEAF" => (holds(f, n) <=> Condition(n) \in S)
                      /\ n.type = "AND" => (holds(f, n) <=> \A c \in Children(n) : f[c])
                      /\ n.type \notin {"LEAF", "AND"} =>
                            (holds(f, n) <=> \E c \in Children(n) : f[c])
    OBVIOUS
  <2>1. CASE n.type = "LEAF"
    <3>1. holds(f, n) = (Condition(n) \in S)
      BY <2>1
    <3> QED BY <2>1, <3>1
  <2>2. CASE n.type = "AND"
    <3>1. holds(f, n) = (\A c \in Children(n) : f[c])
      BY <2>2
    <3> QED BY <2>2, <3>1
  <2>3. CASE n.type \notin {"LEAF", "AND"}
    <3>1. holds(f, n) = (\E c \in Children(n) : f[c])
      BY <2>3
    <3> QED BY <2>3, <3>1
  <2> QED BY <2>1, <2>2, <2>3
<1>1. T \in [[Nodes -> BOOLEAN] -> [Nodes -> BOOLEAN]]
  <2> HIDE DEF holds
  <2> QED BY <1>0
<1>2. LooksBelow(Nodes, BOOLEAN, Kids, T)
  <2>1. ASSUME NEW g \in [Nodes -> BOOLEAN], NEW h \in [Nodes -> BOOLEAN],
               NEW n \in Nodes, \A c \in Kids[n] : g[c] = h[c]
        PROVE  T[g][n] = T[h][n]
    <3>1. \A c \in Children(n) : g[c] = h[c]
      BY <2>1 DEF Kids
    <3>2. /\ (\A c \in Children(n) : g[c]) <=> (\A c \in Children(n) : h[c])
          /\ (\E c \in Children(n) : g[c]) <=> (\E c \in Children(n) : h[c])
      BY <3>1
    <3>3. holds(g, n) = holds(h, n)
      BY <3>2
    <3> HIDE DEF holds
    <3> QED BY <3>3
  <2> HIDE DEF T
  <2> QED BY <2>1 DEF LooksBelow
<1>3. \E f : f = step(f)
  <2>1. Recurses(Nodes, BOOLEAN, Kids, T)
    BY <1>1, <1>2, KidsWellfounded DEF Recurses
  <2>2. PICK f : IsFixed(Nodes, BOOLEAN, T, f)
    <3> HIDE DEF T
    <3> QED BY <2>1, Recursion
  <2> HIDE DEF holds
  <2> QED BY <2>2 DEF IsFixed
<1>4. sat = step(sat)
  <2> HIDE DEF step
  <2> QED BY <1>3
<1>5. \A n : Satisfied(n, S) = sat[n]
  BY Zenon DEF Satisfied
<1> HIDE DEF sat
<1>6. \A n \in Nodes : sat[n] = holds(sat, n)
  <2> HIDE DEF holds
  <2> QED BY <1>4
<1> HIDE DEF holds
<1>7. \A n \in Nodes : Children(n) \subseteq Nodes
  BY KidsAreNodes
<1> QED BY <1>0, <1>5, <1>6, <1>7

(***************************************************************************)
(* Reading an expression.  At(Z, a, s) says that s stands in Z after its   *)
(* first a words.                                                          *)
(***************************************************************************)
At(Z, a, s) == a + Len(s) <= Len(Z) /\ \A j \in 1..Len(s) : Z[a + j] = s[j]

(* Two lists one after the other are as long as both together.             *)
LEMMA Concat ==
    ASSUME NEW W, NEW s \in Seq(W), NEW t \in Seq(W)
    PROVE  s \o t \in Seq(W) /\ Len(s \o t) = Len(s) + Len(t) /\ Len(s) \in Nat /\ Len(t) \in Nat
OBVIOUS

(* What stands in Z one after the other stands there each.                 *)
LEMMA AtConcat ==
    ASSUME NEW W, NEW Z \in Seq(W), NEW a \in Nat, NEW s \in Seq(W), NEW t \in Seq(W),
           At(Z, a, s \o t)
    PROVE  At(Z, a, s) /\ At(Z, a + Len(s), t)
<1> DEFINE u == s \o t
<1>1. /\ Len(u) = Len(s) + Len(t) /\ Len(s) \in Nat /\ Len(t) \in Nat /\ Len(Z) \in Nat
      /\ \A j \in 1..Len(s) : u[j] = s[j]
      /\ \A j \in 1..Len(t) : u[Len(s) + j] = t[j]
  OBVIOUS
<1> HIDE DEF u
<1>2. a + Len(u) <= Len(Z) /\ \A j \in 1..Len(u) : Z[a + j] = u[j]
  BY DEF At, u
<1>3. At(Z, a, s)
  BY <1>1, <1>2 DEF At
<1>4. \A j \in 1..Len(t) : Z[(a + Len(s)) + j] = t[j]
  <2> SUFFICES ASSUME NEW j \in 1..Len(t) PROVE Z[(a + Len(s)) + j] = t[j]
    OBVIOUS
  <2>1. Len(s) + j \in 1..Len(u) /\ a + (Len(s) + j) = (a + Len(s)) + j
    BY <1>1
  <2> QED BY <1>1, <1>2, <2>1
<1>5. (a + Len(s)) + Len(t) <= Len(Z)
  BY <1>1, <1>2
<1> QED BY <1>3, <1>4, <1>5 DEF At

(* A list of one word stands where that word is.                           *)
LEMMA AtOne ==
    ASSUME NEW Z, NEW a \in Nat, NEW w, At(Z, a, <<w>>)
    PROVE  Z[a + 1] = w /\ a + 1 <= Len(Z)
<1>1. Len(<<w>>) = 1 /\ <<w>>[1] = w /\ 1 \in 1..1
  OBVIOUS
<1> QED BY <1>1 DEF At

(* Of a list that was joined every beginning stands there, and after it    *)
(* the word and the next part.                                             *)
JoinStands(W, parts, word, f, Z, a) ==
    /\ parts \in Seq(Seq(W)) /\ word \in W /\ Len(parts) >= 1
    /\ f \in [0..Len(parts) -> Seq(W)] /\ JoinsUp(parts, word, f)
    /\ Z \in Seq(W) /\ a \in Nat /\ At(Z, a, f[Len(parts)])

JoinReads(parts, word, f, Z, a) ==
    /\ f[1] = parts[1] /\ At(Z, a, parts[1])
    /\ \A i \in 1..Len(parts) : i + 1 <= Len(parts) =>
          /\ At(Z, a + Len(f[i]) + 1, parts[i + 1])
          /\ Z[a + Len(f[i]) + 1] = word
          /\ a + Len(f[i]) + 1 <= Len(Z)
          /\ Len(f[i + 1]) = Len(f[i]) + 1 + Len(parts[i + 1])

(* So a text that was joined is read part by part, with the word between   *)
(* them.                                                                   *)
LEMMA AtJoin ==
    ASSUME NEW W, NEW parts, NEW word, NEW f, NEW Z, NEW a,
           JoinStands(W, parts, word, f, Z, a)
    PROVE  JoinReads(parts, word, f, Z, a)
<1> /\ parts \in Seq(Seq(W)) /\ word \in W /\ Len(parts) >= 1
    /\ f \in [0..Len(parts) -> Seq(W)] /\ JoinsUp(parts, word, f)
    /\ Z \in Seq(W) /\ a \in Nat /\ At(Z, a, f[Len(parts)])
  BY DEF JoinStands
<1> DEFINE n == Len(parts)
<1>0. n \in Nat /\ 1 \in 1..n /\ \A i \in 1..n : parts[i] \in Seq(W) /\ f[i] \in Seq(W)
  <2>1. n \in Nat /\ 1 \in 1..n
    OBVIOUS
  <2>2. \A i \in 1..n : parts[i] \in Seq(W)
    OBVIOUS
  <2>3. \A i \in 1..n : i \in 0..n
    BY <2>1
  <2> HIDE DEF n
  <2>4. \A i \in 1..n : f[i] \in Seq(W)
    BY <2>3 DEF n
  <2> QED BY <2>1, <2>2, <2>4
<1>1. f[1] = parts[1]
  BY DEF JoinsUp
<1>2. ASSUME NEW i \in 1..n, i + 1 <= n, At(Z, a, f[i + 1])
      PROVE  /\ At(Z, a, f[i])
             /\ At(Z, a + Len(f[i]) + 1, parts[i + 1])
             /\ Z[a + Len(f[i]) + 1] = word
             /\ a + Len(f[i]) + 1 <= Len(Z)
             /\ Len(f[i + 1]) = Len(f[i]) + 1 + Len(parts[i + 1])
  <2>0. i + 1 \in 2..n /\ (i + 1) - 1 = i /\ i + 1 \in 1..n
    BY <1>0, <1>2
  <2>1. f[i + 1] = f[i] \o <<word>> \o parts[i + 1]
    BY <2>0 DEF JoinsUp
  <2>2. f[i] \in Seq(W) /\ parts[i + 1] \in Seq(W) /\ <<word>> \in Seq(W)
    BY <1>0, <2>0
  <2> DEFINE x == f[i]
             y == parts[i + 1]
             z == x \o <<word>>
  <2>3. f[i + 1] = z \o y
    BY <2>1
  <2> HIDE DEF x, y
  <2>4. z \in Seq(W) /\ Len(z) = Len(x) + 1 /\ Len(x) \in Nat /\ Len(z \o y) = Len(z) + Len(y)
        /\ Len(y) \in Nat
    BY <2>2 DEF x, y
  <2>5. At(Z, a, z) /\ At(Z, a + Len(z), y)
    <3> HIDE DEF z
    <3>1. At(Z, a, z \o y)
      BY <1>2, <2>3
    <3> QED BY <2>2, <2>4, <3>1, AtConcat DEF y
  <2>6. At(Z, a, x) /\ At(Z, a + Len(x), <<word>>)
    BY <2>2, <2>5, AtConcat DEF x
  <2>7. a + Len(x) \in Nat
    BY <2>4
  <2>8. Z[a + Len(x) + 1] = word /\ a + Len(x) + 1 <= Len(Z)
    BY <2>6, <2>7, AtOne
  <2>9. a + Len(z) = a + Len(x) + 1
    BY <2>4
  <2>10. Len(f[i + 1]) = Len(x) + 1 + Len(y)
    BY <2>3, <2>4
  <2> HIDE DEF z
  <2> QED BY <2>5, <2>6, <2>8, <2>9, <2>10 DEF x, y
<1> DEFINE S == {i \in 1..n : ~At(Z, a, f[i])}
<1>3. \A i \in 1..n : At(Z, a, f[i])
  <2> SUFFICES ASSUME NEW b \in S PROVE FALSE
    OBVIOUS
  <2>1. \A i \in b..n : i + 1 <= n /\ i \in S => i + 1 \in S
    <3> SUFFICES ASSUME NEW i \in b..n, i + 1 <= n, i \in S PROVE i + 1 \in S
      OBVIOUS
    <3>1. i \in 1..n /\ i + 1 \in 1..n
      BY <1>0
    <3> QED BY <1>2, <3>1
  <2>2. b \in 0..n /\ b \in S /\ n \in b..n
    BY <1>0
  <2> HIDE DEF S
  <2>3. n \in S
    BY <1>0, <2>1, <2>2, Upwards
  <2> QED BY <2>3 DEF S
<1>4. At(Z, a, parts[1])
  BY <1>0, <1>1, <1>3
<1>5. \A i \in 1..n : i + 1 <= n => At(Z, a, f[i + 1])
  BY <1>0, <1>3
<1> HIDE DEF n
<1>6. \A i \in 1..n : i + 1 <= n =>
         /\ At(Z, a + Len(f[i]) + 1, parts[i + 1])
         /\ Z[a + Len(f[i]) + 1] = word
         /\ a + Len(f[i]) + 1 <= Len(Z)
         /\ Len(f[i + 1]) = Len(f[i]) + 1 + Len(parts[i + 1])
  BY <1>2, <1>5
<1> QED BY <1>1, <1>4, <1>6 DEF n, JoinReads

-----------------------------------------------------------------------------
(* What the validator admits, without the dictionary.                      *)
ValidLeaf(n) == n.attribute \in AttributeCodes /\ n.operator \in Operators

Sound(tree) ==
    \A n \in Parts[tree] : /\ n.type \in NodeTypes
                           /\ n.type # "LEAF" => Len(n.children) >= 2
                           /\ n.type = "LEAF" => ValidLeaf(n)

Legible(tree) == Sound(tree) /\ Plain(tree)

IsLogic(n) == n.type \in {"AND", "OR"} /\ Len(n.children) >= 2

IsLeaf(n) ==
    /\ n.type = "LEAF" /\ ValidLeaf(n)
    /\ "belongs_to" \notin Range(Text[n.attribute])
    /\ QuoteMark \notin Range(Text[n.value])

(* A legible tree has legible trees below.                                 *)
LEMMA LegibleBelow ==
    ASSUME NEW n \in Nodes, Legible(n)
    PROVE  /\ IsLogic(n) \/ IsLeaf(n)
           /\ \A c \in Children(n) : Legible(c)
<1>1. n \in Parts[n] /\ \A c \in Children(n) : c \in Nodes /\ Parts[c] \subseteq Parts[n]
  BY PartsIs, KidsAreNodes
<1>2. IsLogic(n) \/ IsLeaf(n)
  BY <1>1 DEF Legible, Sound, Plain, Leaves, IsLogic, IsLeaf, NodeTypes
<1>3. ASSUME NEW c \in Children(n) PROVE Legible(c)
  BY <1>1 DEF Legible, Sound, Plain, Leaves
<1> QED BY <1>2, <1>3

(* AND and OR are written differently.                                     *)
LEMMA SeparatorsDiffer ==
    /\ \A s, t \in {"AND", "OR"} : Separator(s) = Separator(t) => s = t
    /\ \A s : Separator(s) \in Separators /\ Separator(s) # ")"
BY DEF Separator, Separators

-----------------------------------------------------------------------------
(* A text that halts at a mark of E, or at the end, and has no mark of E   *)
(* in it is read in one way.                                               *)
Halts(Z, b, E) == b = Len(Z) \/ Z[b + 1] \in E

Free(s, E) == \A i \in 1..Len(s) : s[i] \notin E

(* It goes no further than to the first such mark.                         *)
LEMMA NotLonger ==
    ASSUME NEW E, NEW Z \in Seq(Mark), NEW c \in Nat, NEW s \in Seq(Mark), NEW t \in Seq(Mark),
           At(Z, c, t), Free(t, E), Halts(Z, c + Len(s), E)
    PROVE  Len(t) <= Len(s)
<1> SUFFICES ASSUME Len(s) < Len(t) PROVE FALSE
  <2>1. Len(s) \in Nat /\ Len(t) \in Nat
    OBVIOUS
  <2> QED BY <2>1
<1>1. Len(s) \in Nat /\ Len(t) \in Nat /\ Len(Z) \in Nat
  OBVIOUS
<1>2. Len(s) + 1 \in 1..Len(t) /\ c + (Len(s) + 1) = (c + Len(s)) + 1
  BY <1>1
<1>3. Z[(c + Len(s)) + 1] = t[Len(s) + 1] /\ t[Len(s) + 1] \notin E
  BY <1>2 DEF At, Free
<1>4. c + Len(s) # Len(Z)
  BY <1>1 DEF At
<1> QED BY <1>3, <1>4 DEF Halts

(* So two that stand at one place are one.                                 *)
LEMMA SameUntil ==
    ASSUME NEW E, NEW Z \in Seq(Mark), NEW c \in Nat, NEW s \in Seq(Mark), NEW t \in Seq(Mark),
           At(Z, c, s), At(Z, c, t), Free(s, E), Free(t, E),
           Halts(Z, c + Len(s), E), Halts(Z, c + Len(t), E)
    PROVE  s = t
<1>1. Len(s) <= Len(t) /\ Len(t) <= Len(s)
  BY NotLonger
<1>2. Len(s) \in Nat /\ Len(t) \in Nat
  OBVIOUS
<1>3. Len(s) = Len(t)
  BY <1>1, <1>2
<1>4. \A i \in 1..Len(s) : s[i] = t[i]
  BY <1>3 DEF At
<1> HIDE DEF Mark
<1> QED BY <1>3, <1>4

(* What can follow a tree: a bracket or a separator.                       *)
Stop == {")"} \cup Separators

(* The text of a value without quotation marks: quoted, or as it is.       *)
LEMMA ValueText ==
    ASSUME NEW t \in Seq(Mark), QuoteMark \notin Range(t)
    PROVE  /\ Free(t, {QuoteMark})
           /\ \/ quoteIfNeeded(t) = <<QuoteMark>> \o t \o <<QuoteMark>>
              \/ quoteIfNeeded(t) = t /\ Len(t) >= 1 /\ Free(t, Stop)
<1>1. DOMAIN t = 1..Len(t) /\ Len(t) \in Nat /\ \A i \in 1..Len(t) : t[i] \in Range(t)
  BY DEF Range
<1>2. Free(t, {QuoteMark})
  BY <1>1 DEF Free
<1> DEFINE escaped == [i \in DOMAIN t |-> IF t[i] = QuoteMark THEN EscapedQuote ELSE t[i]]
           needed == \/ t \in {<<>>, <<"AND">>, <<"and">>, <<"OR">>, <<"or">>}
                     \/ Range(t) \cap ({" ", "(", ")"} \cup Separators) # {}
<1>3. escaped = t
  <2>1. escaped = [i \in 1..Len(t) |-> t[i]]
    BY <1>1
  <2> HIDE DEF Mark
  <2> QED BY <2>1
<1>4. quoteIfNeeded(t) = IF needed THEN <<QuoteMark>> \o escaped \o <<QuoteMark>> ELSE t
  BY DEF quoteIfNeeded
<1>5. CASE needed
  BY <1>2, <1>3, <1>4, <1>5
<1>6. CASE ~needed
  <2>1. t # <<>> /\ Range(t) \cap Stop = {}
    BY <1>6 DEF Stop
  <2>2. Len(t) >= 1
    <3> HIDE DEF Mark
    <3> QED BY <1>1, <2>1
  <2>3. Free(t, Stop)
    BY <1>1, <2>1 DEF Free
  <2> QED BY <1>2, <1>4, <1>6, <2>2, <2>3
<1> QED BY <1>5, <1>6

(* A quoted text begins and ends with the mark.                            *)
LEMMA InQuotes ==
    ASSUME NEW Z \in Seq(Mark), NEW b \in Nat, NEW t \in Seq(Mark), NEW q \in Mark,
           At(Z, b, <<q>> \o t \o <<q>>)
    PROVE  /\ Z[b + 1] = q /\ At(Z, b + 1, t) /\ Z[(b + 1) + Len(t) + 1] = q
           /\ Len(<<q>> \o t \o <<q>>) = Len(t) + 2
<1> HIDE DEF Mark
<1> DEFINE l == <<q>>
           u == l \o t
<1>1. l \in Seq(Mark) /\ Len(l) = 1
  OBVIOUS
<1> HIDE DEF l
<1>2. u \in Seq(Mark) /\ Len(u) = 1 + Len(t) /\ Len(t) \in Nat
  BY <1>1, Concat
<1> HIDE DEF u
<1>3. At(Z, b, u) /\ At(Z, b + Len(u), l)
  <2>1. At(Z, b, u \o l)
    BY DEF u, l
  <2> QED BY <1>1, <1>2, <2>1, AtConcat
<1>4. At(Z, b, l) /\ At(Z, b + 1, t)
  BY <1>1, <1>3, AtConcat DEF u
<1>5. Z[b + 1] = q
  BY <1>4, AtOne DEF l
<1>6. b + Len(u) = (b + 1) + Len(t) /\ b + Len(u) \in Nat
  BY <1>2
<1>7. Z[(b + Len(u)) + 1] = q
  BY <1>3, <1>6, AtOne DEF l
<1>8. Len(u \o l) = Len(t) + 2
  <2>1. Len(u \o l) = Len(u) + Len(l)
    BY <1>1, <1>2, Concat
  <2> QED BY <1>1, <1>2, <2>1
<1> QED BY <1>4, <1>5, <1>6, <1>7, <1>8 DEF u, l

(* Two values shown at one place, each followed by the end or by a mark    *)
(* that stops it, are one value.                                           *)
LEMMA SameValue ==
    ASSUME NEW Z \in Seq(Mark), NEW b \in Nat, NEW s \in Seq(Mark), NEW t \in Seq(Mark),
           QuoteMark \notin Range(s), QuoteMark \notin Range(t),
           At(Z, b, quoteIfNeeded(s)), At(Z, b, quoteIfNeeded(t)),
           Halts(Z, b + Len(quoteIfNeeded(s)), Stop), Halts(Z, b + Len(quoteIfNeeded(t)), Stop)
    PROVE  s = t
<1> DEFINE Shut(x) == <<QuoteMark>> \o x \o <<QuoteMark>>
           Bare(x) == quoteIfNeeded(x) = x /\ Len(x) >= 1 /\ Free(x, Stop)
<1>0. QuoteMark \in Mark
  BY AllMarks
<1>1. /\ Free(s, {QuoteMark}) /\ (quoteIfNeeded(s) = Shut(s) \/ Bare(s))
      /\ Free(t, {QuoteMark}) /\ (quoteIfNeeded(t) = Shut(t) \/ Bare(t))
  BY ValueText
<1>2. ASSUME NEW x \in Seq(Mark), quoteIfNeeded(x) = Shut(x), At(Z, b, quoteIfNeeded(x))
      PROVE  /\ Z[b + 1] = QuoteMark /\ At(Z, b + 1, x)
             /\ Halts(Z, (b + 1) + Len(x), {QuoteMark})
  <2>1. At(Z, b, Shut(x))
    BY <1>2
  <2> HIDE DEF Mark
  <2>2. Z[b + 1] = QuoteMark /\ At(Z, b + 1, x) /\ Z[(b + 1) + Len(x) + 1] = QuoteMark
    BY <1>0, <2>1, InQuotes
  <2> QED BY <2>2 DEF Halts
<1>3. ASSUME NEW x \in Seq(Mark), Free(x, {QuoteMark}), Bare(x), At(Z, b, quoteIfNeeded(x))
      PROVE  Z[b + 1] # QuoteMark
  <2>1. 1 \in 1..Len(x)
    <3>1. Len(x) \in Nat
      OBVIOUS
    <3> QED BY <1>3, <3>1
  <2> QED BY <1>3, <2>1 DEF At, Free
<1> HIDE DEF Mark, Shut, Bare
<1>4. CASE quoteIfNeeded(s) = Shut(s) /\ quoteIfNeeded(t) = Shut(t)
  <2>1. b + 1 \in Nat
    OBVIOUS
  <2> QED BY <1>1, <1>2, <1>4, <2>1, SameUntil
<1>5. CASE Bare(s) /\ Bare(t)
  BY <1>5, SameUntil DEF Bare
<1>6. CASE \/ quoteIfNeeded(s) = Shut(s) /\ Bare(t)
           \/ quoteIfNeeded(t) = Shut(t) /\ Bare(s)
  BY <1>1, <1>2, <1>3, <1>6
<1> QED BY <1>1, <1>4, <1>5, <1>6

ShownOperators == {":", "!=", ">=", "<=", "belongs_to"}

(* The text of a leaf: its code, its operator, its value.                  *)
LEMMA LeafText ==
    ASSUME NEW n \in Nodes, IsLeaf(n), NEW Z \in Seq(Mark), NEW a \in Nat,
           At(Z, a, leafExpression(n))
    PROVE  LET A == Text[n.attribute]
               V == quoteIfNeeded(Text[n.value])
               b == (a + Len(A)) + 1
           IN /\ A \in Seq(Mark) /\ Text[n.value] \in Seq(Mark) /\ V \in Seq(Mark)
              /\ At(Z, a, A) /\ At(Z, b, V)
              /\ Z[b] = shownOperator(n.operator)
              /\ Free(A, ShownOperators) /\ Free(A, {"("})
              /\ Halts(Z, a + Len(A), ShownOperators)
              /\ a + Len(leafExpression(n)) = b + Len(V)
<1> DEFINE A == Text[n.attribute]
           O == <<shownOperator(n.operator)>>
           V == quoteIfNeeded(Text[n.value])
           b == (a + Len(A)) + 1
<1>1. A \in Seq(Mark) /\ Text[n.value] \in Seq(Mark) /\ V \in Seq(Mark)
      /\ shownOperator(n.operator) \in Mark
  BY AllMarks DEF IsLeaf
<1>2. Free(A, ShownOperators) /\ Free(A, {"("})
  <2>1. n.attribute \in AttributeCodes \cap DOMAIN Text /\ "belongs_to" \notin Range(A)
    BY TextAssumption DEF IsLeaf, ValidLeaf
  <2>2. Range(A) \cap (ShownOperators \cup {"("}) = {}
    BY <2>1, TextAssumption DEF ShownOperators
  <2>3. \A i \in 1..Len(A) : A[i] \in Range(A)
    <3>1. DOMAIN A = 1..Len(A)
      BY <1>1
    <3> QED BY <3>1 DEF Range
  <2> QED BY <2>2, <2>3 DEF Free
<1>3. leafExpression(n) = (A \o O) \o V
  <2>1. O \in Seq(Mark)
    <3> HIDE DEF Mark
    <3> QED BY <1>1
  <2>2. leafExpression(n) = A \o O \o V
    BY DEF leafExpression
  <2> HIDE DEF Mark, A, O, V
  <2> QED BY <1>1, <2>1, <2>2
<1>4. O \in Seq(Mark) /\ Len(O) = 1
  <2> HIDE DEF Mark
  <2> QED BY <1>1
<1> DEFINE u == A \o O
<1> HIDE DEF Mark, A, V, O
<1>5. u \in Seq(Mark) /\ Len(u) = Len(A) + 1 /\ Len(A) \in Nat
  BY <1>1, <1>4, Concat
<1> HIDE DEF u
<1>6. At(Z, a, u) /\ At(Z, a + Len(u), V) /\ Len(leafExpression(n)) = Len(u) + Len(V) /\ Len(V) \in Nat
  <2>1. leafExpression(n) = u \o V
    BY <1>3 DEF u
  <2> QED BY <1>1, <1>5, <2>1, AtConcat, Concat
<1>7. At(Z, a, A) /\ At(Z, a + Len(A), O)
  BY <1>1, <1>4, <1>6, AtConcat DEF u
<1>8. a + Len(A) \in Nat /\ a + Len(u) = b /\ b + Len(V) = a + Len(leafExpression(n))
  BY <1>5, <1>6
<1>9. Z[b] = shownOperator(n.operator)
  BY <1>7, <1>8, AtOne DEF O
<1>10. shownOperator(n.operator) \in ShownOperators
  BY DEF shownOperator, ShownOperators, Operators
<1>11. Halts(Z, a + Len(A), ShownOperators)
  BY <1>9, <1>10 DEF Halts
<1>12. At(Z, b, V)
  BY <1>6, <1>8
<1> HIDE DEF b
<1> QED BY <1>1, <1>2, <1>7, <1>8, <1>9, <1>11, <1>12 DEF A, V, b

(* A leaf does not begin with a bracket.                                   *)
LEMMA LeafBegins ==
    ASSUME NEW n \in Nodes, IsLeaf(n), NEW Z \in Seq(Mark), NEW a \in Nat,
           At(Z, a, leafExpression(n))
    PROVE  Z[a + 1] # "("
<1> DEFINE A == Text[n.attribute]
<1>1. /\ A \in Seq(Mark) /\ At(Z, a, A) /\ Z[(a + Len(A)) + 1] = shownOperator(n.operator)
      /\ Free(A, {"("})
  BY LeafText
<1>2. Len(A) \in Nat
  BY <1>1
<1> HIDE DEF A
<1>3. CASE Len(A) = 0
  <2>1. Z[a + 1] = shownOperator(n.operator)
    BY <1>1, <1>3
  <2> QED BY <2>1 DEF shownOperator, Operators
<1>4. CASE Len(A) # 0
  <2>1. 1 \in 1..Len(A)
    BY <1>2, <1>4
  <2> QED BY <1>1, <2>1 DEF At, Free
<1> QED BY <1>3, <1>4

(* Two leaves shown at one place, each followed by the end or by a mark    *)
(* that stops it, state one condition.                                     *)
LEMMA SameLeaf ==
    ASSUME NEW n \in Nodes, NEW m \in Nodes, IsLeaf(n), IsLeaf(m),
           NEW Z \in Seq(Mark), NEW a \in Nat,
           At(Z, a, leafExpression(n)), At(Z, a, leafExpression(m)),
           Halts(Z, a + Len(leafExpression(n)), Stop), Halts(Z, a + Len(leafExpression(m)), Stop)
    PROVE  Condition(n) = Condition(m) /\ Len(leafExpression(n)) = Len(leafExpression(m))
<1>1. Text[n.attribute] = Text[m.attribute]
  BY LeafText, SameUntil
<1> DEFINE b == (a + Len(Text[n.attribute])) + 1
           s == Text[n.value]
           t == Text[m.value]
<1>2. /\ s \in Seq(Mark) /\ At(Z, b, quoteIfNeeded(s)) /\ Z[b] = shownOperator(n.operator)
      /\ a + Len(leafExpression(n)) = b + Len(quoteIfNeeded(s))
      /\ Text[n.attribute] \in Seq(Mark)
  BY LeafText
<1>3. /\ t \in Seq(Mark) /\ At(Z, b, quoteIfNeeded(t)) /\ Z[b] = shownOperator(m.operator)
      /\ a + Len(leafExpression(m)) = b + Len(quoteIfNeeded(t))
  BY <1>1, LeafText
<1>4. b \in Nat
  BY <1>2
<1> HIDE DEF b
<1>5. s = t
  <2>1. QuoteMark \notin Range(s) /\ QuoteMark \notin Range(t)
    BY DEF IsLeaf
  <2> HIDE DEF s, t, Mark
  <2> QED BY <1>2, <1>3, <1>4, <2>1, SameValue
<1>6. n.operator = m.operator
  <2>1. n.operator \in Operators /\ m.operator \in Operators
    BY DEF IsLeaf, ValidLeaf
  <2>2. shownOperator(n.operator) = shownOperator(m.operator)
    BY <1>2, <1>3
  <2> QED BY <2>1, <2>2 DEF shownOperator, Operators
<1>7. n.attribute = m.attribute /\ n.value = m.value
  BY <1>1, <1>5, TextAssumption DEF IsLeaf
<1>8. a + Len(leafExpression(n)) = a + Len(leafExpression(m))
  BY <1>2, <1>3, <1>5
<1>9. Len(leafExpression(n)) \in Nat /\ Len(leafExpression(m)) \in Nat
  <2>1. leafExpression(n) \in Seq(Mark) /\ leafExpression(m) \in Seq(Mark)
    BY AllMarks DEF IsLeaf
  <2> QED BY <2>1
<1>10. Len(leafExpression(n)) = Len(leafExpression(m))
  BY <1>8, <1>9
<1> QED BY <1>6, <1>7, <1>10 DEF Condition

-----------------------------------------------------------------------------
(* The expressions below a node are lists of words, one for each child,    *)
(* and its type is a word.                                                 *)
LEMMA ExprsTyped ==
    \A n \in Nodes : /\ ExprsBelow(n) \in Seq(Seq(Mark))
                     /\ Len(ExprsBelow(n)) = Len(n.children)
                     /\ \A i \in 1..Len(n.children) :
                           ExprsBelow(n)[i] = expressionFor[n.children[i]]
                     /\ Separator(n.type) \in Mark
<1> SUFFICES ASSUME NEW n \in Nodes
             PROVE  /\ ExprsBelow(n) \in Seq(Seq(Mark))
                    /\ Len(ExprsBelow(n)) = Len(n.children)
                    /\ \A i \in 1..Len(n.children) :
                           ExprsBelow(n)[i] = expressionFor[n.children[i]]
                    /\ Separator(n.type) \in Mark
  OBVIOUS
<1>1. Separator(n.type) \in Mark
  BY AllMarks
<1>2. DOMAIN n.children = 1..Len(n.children) /\ Len(n.children) \in Nat
  BY KidsAreNodes
<1>3. \A i \in 1..Len(n.children) : expressionFor[n.children[i]] \in Seq(Mark)
  BY KidsAreNodes, ExpressionIs
<1> DEFINE V == Seq(Mark)
<1> HIDE DEF V
<1>4. ExprsBelow(n) = [i \in 1..Len(n.children) |-> expressionFor[n.children[i]]]
  BY <1>2 DEF ExprsBelow
<1>5. ExprsBelow(n) \in Seq(V)
  BY <1>2, <1>3, <1>4 DEF V
<1> QED BY <1>1, <1>2, <1>4, <1>5 DEF V

(* Wherever the expression of n stands, no expression of another tree      *)
(* stands that is not as long and as satisfied.                            *)
Reads(n, S) ==
    \A m \in Nodes : \A Z \in Seq(Mark) : \A a \in Nat :
        Legible(m) /\ At(Z, a, expressionFor[n]) /\ At(Z, a, expressionFor[m])
          /\ Halts(Z, a + Len(expressionFor[n]), Stop)
          /\ Halts(Z, a + Len(expressionFor[m]), Stop)
        => /\ Len(expressionFor[n]) = Len(expressionFor[m])
           /\ Satisfied(n, S) = Satisfied(m, S)

Joined(n, f) ==
    /\ f \in [0..Len(n.children) -> Seq(Mark)]
    /\ JoinsUp(ExprsBelow(n), Separator(n.type), f)

(* The list of the trees below n, joined up in f, stands in Z after a.     *)
ListStands(n, f, Z, a) ==
    /\ IsLogic(n) /\ Joined(n, f)
    /\ Z \in Seq(Mark) /\ a \in Nat /\ At(Z, a, f[Len(n.children)])
    /\ Halts(Z, a + Len(f[Len(n.children)]), {")"})

ListReads(n, f, Z, a) ==
    /\ f[1] = expressionFor[n.children[1]] /\ At(Z, a, expressionFor[n.children[1]])
    /\ \A i \in 1..Len(n.children) : i + 1 <= Len(n.children) =>
          /\ At(Z, a + Len(f[i]) + 1, expressionFor[n.children[i + 1]])
          /\ Z[a + Len(f[i]) + 1] = Separator(n.type)
          /\ a + Len(f[i]) + 1 <= Len(Z)
          /\ Len(f[i + 1]) = Len(f[i]) + 1 + Len(expressionFor[n.children[i + 1]])
    /\ \A i \in 1..Len(n.children) : Halts(Z, a + Len(f[i]), Stop)

(* A list that stands in Z is read tree by tree, with the type of n        *)
(* between.                                                                *)
LEMMA ListRead ==
    ASSUME NEW n \in Nodes, NEW f, NEW Z, NEW a, ListStands(n, f, Z, a)
    PROVE  ListReads(n, f, Z, a)
<1> DEFINE k == Len(n.children)
<1>0. k \in Nat /\ k >= 2
  BY KidsAreNodes DEF IsLogic, ListStands
<1> /\ Joined(n, f) /\ Z \in Seq(Mark) /\ a \in Nat /\ At(Z, a, f[k])
  BY DEF ListStands
<1> DEFINE parts == ExprsBelow(n)
           word == Separator(n.type)
<1>1. /\ parts \in Seq(Seq(Mark)) /\ Len(parts) = k /\ word \in Mark
      /\ \A i \in 1..k : parts[i] = expressionFor[n.children[i]]
  BY ExprsTyped
<1>2. f \in [0..Len(parts) -> Seq(Mark)] /\ JoinsUp(parts, word, f)
  BY <1>1 DEF Joined
<1>2a. At(Z, a, f[Len(parts)])
  BY <1>1
<1> HIDE DEF parts, word
<1>2b. JoinStands(Mark, parts, word, f, Z, a)
  BY <1>0, <1>1, <1>2, <1>2a DEF JoinStands
<1>3. /\ f[1] = parts[1] /\ At(Z, a, parts[1])
      /\ \A i \in 1..k : i + 1 <= k =>
            /\ At(Z, a + Len(f[i]) + 1, parts[i + 1])
            /\ Z[a + Len(f[i]) + 1] = word
            /\ a + Len(f[i]) + 1 <= Len(Z)
            /\ Len(f[i + 1]) = Len(f[i]) + 1 + Len(parts[i + 1])
  <2>1. JoinReads(parts, word, f, Z, a)
    BY <1>2b, AtJoin
  <2> QED BY <1>1, <2>1 DEF JoinReads
<1>4. 1 \in 1..k /\ \A i \in 1..k : (i + 1 <= k => i + 1 \in 1..k) /\ (i + 1 <= k \/ i = k)
  BY <1>0
<1>5. Halts(Z, a + Len(f[k]), {")"}) /\ word \in Stop
  BY SeparatorsDiffer DEF ListStands, Stop, word
<1> HIDE DEF k
<1>6. ASSUME NEW i \in 1..k PROVE Halts(Z, a + Len(f[i]), Stop)
  BY <1>3, <1>4, <1>5, <1>6 DEF Halts, Stop
<1> QED BY <1>1, <1>3, <1>4, <1>6 DEF word, k, ListReads

(* Two lists of trees read from one place on have one word between them    *)
(* and agree as far as both go.                                            *)
Beside(n, m, f, g, S) ==
    /\ n.type = m.type
    /\ \A i \in 1..Len(n.children) : i <= Len(m.children) =>
          /\ Len(f[i]) = Len(g[i])
          /\ Satisfied(n.children[i], S) = Satisfied(m.children[i], S)

(* Where a list ends that is longer by a separator and a tree.             *)
LEMMA OneMore == \A a, x, y \in Nat : a + (x + 1 + y) = (a + x + 1) + y
OBVIOUS

(* Reading both from the left, one tree after the other is as long and as  *)
(* satisfied on both sides.                                                *)
LEMMA SideBySide ==
    ASSUME NEW S, NEW n \in Nodes, NEW m \in Nodes,
           \A c \in Children(n) : Reads(c, S), \A d \in Children(m) : Legible(d),
           NEW f, NEW g, NEW Z, NEW a,
           ListStands(n, f, Z, a), ListStands(m, g, Z, a)
    PROVE  Beside(n, m, f, g, S)
<1> DEFINE k == Len(n.children)
           l == Len(m.children)
           eq(i) == /\ Len(f[i]) = Len(g[i])
                    /\ Satisfied(n.children[i], S) = Satisfied(m.children[i], S)
<1> Joined(n, f) /\ Joined(m, g) /\ Z \in Seq(Mark) /\ a \in Nat
  BY DEF ListStands
<1>0. k \in Nat /\ l \in Nat /\ k >= 2 /\ l >= 2
  BY KidsAreNodes DEF IsLogic, ListStands
<1>1. ListReads(n, f, Z, a)
  BY ListRead
<1>2. ListReads(m, g, Z, a)
  BY ListRead
<1>3. /\ \A i \in 0..k : Len(f[i]) \in Nat
      /\ \A i \in 1..k : n.children[i] \in Nodes /\ Reads(n.children[i], S)
      /\ \A i \in 1..l : m.children[i] \in Nodes /\ Legible(m.children[i])
  <2>1. \A i \in 0..k : f[i] \in Seq(Mark)
    BY DEF Joined
  <2>2. \A i \in 0..k : Len(f[i]) \in Nat
    BY <2>1
  <2> QED BY <2>2, KidsAreNodes
<1>4. ASSUME NEW i \in 1..k, i <= l, NEW b \in Nat,
             At(Z, b, expressionFor[n.children[i]]), At(Z, b, expressionFor[m.children[i]]),
             Halts(Z, b + Len(expressionFor[n.children[i]]), Stop),
             Halts(Z, b + Len(expressionFor[m.children[i]]), Stop)
      PROVE  /\ Len(expressionFor[n.children[i]]) = Len(expressionFor[m.children[i]])
             /\ Satisfied(n.children[i], S) = Satisfied(m.children[i], S)
  <2>1. i \in 1..l
    BY <1>0, <1>4
  <2> QED BY <1>3, <1>4, <2>1 DEF Reads
<1> HIDE DEF k, l
<1>5. eq(1)
  <2>1. 1 \in 1..k /\ 1 \in 1..l /\ 1 <= l
    BY <1>0
  <2>2. /\ f[1] = expressionFor[n.children[1]] /\ At(Z, a, expressionFor[n.children[1]])
        /\ Halts(Z, a + Len(f[1]), Stop)
    BY <1>1, <2>1 DEF ListReads, k
  <2>3. /\ g[1] = expressionFor[m.children[1]] /\ At(Z, a, expressionFor[m.children[1]])
        /\ Halts(Z, a + Len(g[1]), Stop)
    BY <1>2, <2>1 DEF ListReads, l
  <2> QED BY <1>4, <2>1, <2>2, <2>3
<1>6. ASSUME NEW i \in 1..k, i + 1 <= k, i + 1 <= l, eq(i) PROVE eq(i + 1)
  <2>1. i \in 1..l /\ i + 1 \in 1..k /\ i + 1 \in 1..l /\ i \in 0..k
    BY <1>0, <1>6
  <2>2. Len(f[i]) \in Nat
    BY <1>3, <2>1
  <2>2a. /\ Len(expressionFor[n.children[i + 1]]) \in Nat
         /\ Len(expressionFor[m.children[i + 1]]) \in Nat
    <3>1. /\ expressionFor[n.children[i + 1]] \in Seq(Mark)
          /\ expressionFor[m.children[i + 1]] \in Seq(Mark)
      BY <1>3, <2>1, ExpressionIs
    <3> QED BY <3>1
  <2> DEFINE b == a + Len(f[i]) + 1
  <2>3. b \in Nat
    BY <2>2
  <2>4. At(Z, b, expressionFor[n.children[i + 1]])
    BY <1>1, <1>6 DEF ListReads, k
  <2>5. At(Z, b, expressionFor[m.children[i + 1]])
    BY <1>2, <1>6, <2>1 DEF ListReads, l
  <2>5a. Halts(Z, b + Len(expressionFor[n.children[i + 1]]), Stop)
    <3>1. /\ Len(f[i + 1]) = Len(f[i]) + 1 + Len(expressionFor[n.children[i + 1]])
          /\ Halts(Z, a + Len(f[i + 1]), Stop)
      BY <1>1, <1>6, <2>1 DEF ListReads, k
    <3> DEFINE x == Len(f[i])
               y == Len(expressionFor[n.children[i + 1]])
               t == Len(f[i + 1])
    <3>2. a \in Nat /\ x \in Nat /\ y \in Nat /\ t = x + 1 + y /\ b = a + x + 1
      BY <2>2, <2>2a, <3>1
    <3> HIDE DEF x, y, t, b
    <3>3. a + t = b + y
      BY <3>2, OneMore
    <3>4. Halts(Z, a + t, Stop)
      BY <3>1 DEF t
    <3>5. Halts(Z, b + y, Stop)
      BY <3>3, <3>4
    <3> QED BY <3>5 DEF y
  <2>5b. Halts(Z, b + Len(expressionFor[m.children[i + 1]]), Stop)
    <3>1. /\ Len(g[i + 1]) = Len(f[i]) + 1 + Len(expressionFor[m.children[i + 1]])
          /\ Halts(Z, a + Len(g[i + 1]), Stop)
      BY <1>2, <1>6, <2>1 DEF ListReads, l
    <3> DEFINE x == Len(f[i])
               y == Len(expressionFor[m.children[i + 1]])
               t == Len(g[i + 1])
    <3>2. a \in Nat /\ x \in Nat /\ y \in Nat /\ t = x + 1 + y /\ b = a + x + 1
      BY <2>2, <2>2a, <3>1
    <3> HIDE DEF x, y, t, b
    <3>3. a + t = b + y
      BY <3>2, OneMore
    <3>4. Halts(Z, a + t, Stop)
      BY <3>1 DEF t
    <3>5. Halts(Z, b + y, Stop)
      BY <3>3, <3>4
    <3> QED BY <3>5 DEF y
  <2> HIDE DEF b
  <2>6. /\ Len(expressionFor[n.children[i + 1]]) = Len(expressionFor[m.children[i + 1]])
        /\ Satisfied(n.children[i + 1], S) = Satisfied(m.children[i + 1], S)
    BY <1>4, <1>6, <2>1, <2>3, <2>4, <2>5, <2>5a, <2>5b
  <2>7. Len(f[i + 1]) = Len(g[i + 1])
    BY <1>1, <1>2, <1>6, <2>1, <2>6 DEF ListReads, k, l
  <2> QED BY <2>6, <2>7
<1>7. n.type = m.type
  <2>1. 1 \in 1..k /\ 1 + 1 <= k /\ 1 \in 1..l /\ 1 + 1 <= l
    BY <1>0
  <2>2. Z[a + Len(f[1]) + 1] = Separator(n.type) /\ Z[a + Len(g[1]) + 1] = Separator(m.type)
    BY <1>1, <1>2, <2>1 DEF ListReads, k, l
  <2>3. Separator(n.type) = Separator(m.type)
    BY <1>5, <2>2
  <2> QED BY <2>3, SeparatorsDiffer DEF ListStands, IsLogic
<1> DEFINE R == {i \in 1..k : i <= l => eq(i)}
<1>8. \A i \in 1..k : i + 1 <= k /\ i \in R => i + 1 \in R
  <2> SUFFICES ASSUME NEW i \in 1..k, i + 1 <= k, i \in R PROVE i + 1 \in R
    OBVIOUS
  <2>1. i + 1 \in 1..k /\ (i + 1 <= l => i <= l)
    BY <1>0
  <2> HIDE DEF eq
  <2> QED BY <1>6, <2>1
<1>9. 1 \in R
  <2> HIDE DEF eq
  <2> QED BY <1>0, <1>5
<1> HIDE DEF R
<1>10. 1 \in 0..k
  BY <1>0
<1>11. \A i \in 1..k : i \in R
  BY <1>0, <1>8, <1>9, <1>10, Upwards
<1> QED BY <1>7, <1>11 DEF R, k, l, Beside

(* A list ends where the text ends or a bracket closes, so two lists read  *)
(* from one place on that both end are as long, and as satisfied.          *)

(* The shorter of two such lists does not end: the longer has a word       *)
(* there.                                                                  *)
LEMMA ShorterList ==
    ASSUME NEW S, NEW n \in Nodes, NEW m \in Nodes, NEW f, NEW g, NEW Z, NEW a,
           ListStands(n, f, Z, a), ListStands(m, g, Z, a), Beside(n, m, f, g, S),
           Len(n.children) < Len(m.children)
    PROVE  FALSE
<1> DEFINE k == Len(n.children)
           b == a + Len(g[k])
<1>1. k \in Nat /\ k \in 1..k /\ k <= Len(m.children) /\ k >= 1
      /\ Len(m.children) \in Nat /\ k \in 1..Len(m.children) /\ k + 1 <= Len(m.children)
  BY KidsAreNodes DEF IsLogic, ListStands
<1>2. Len(f[k]) = Len(g[k])
  BY <1>1 DEF Beside
<1>3. ListReads(m, g, Z, a)
  BY ListRead
<1>4. Z[b + 1] = Separator(m.type) /\ b + 1 <= Len(Z)
  <2> HIDE DEF k
  <2> QED BY <1>1, <1>3 DEF ListReads
<1>6. Z[b + 1] # ")"
  BY <1>4, SeparatorsDiffer
<1>7. b \in Nat /\ Len(Z) \in Nat
  <2>1. g \in [0..Len(m.children) -> Seq(Mark)] /\ Z \in Seq(Mark) /\ a \in Nat
    BY DEF ListStands, Joined
  <2>2. k \in 0..Len(m.children)
    BY <1>1
  <2>3. g[k] \in Seq(Mark)
    BY <2>1, <2>2
  <2> QED BY <2>1, <2>3
<1>8. a + Len(f[k]) = b
  BY <1>2
<1>9. Halts(Z, b, {")"})
  BY <1>8 DEF ListStands
<1> HIDE DEF b
<1> QED BY <1>4, <1>6, <1>7, <1>9 DEF Halts

(* Neither is shorter, so they agree in full.                              *)
LEMMA SameList ==
    ASSUME NEW S, NEW n \in Nodes, NEW m \in Nodes,
           \A c \in Children(n) : Reads(c, S), \A d \in Children(m) : Legible(d),
           NEW f, NEW g, NEW Z, NEW a,
           ListStands(n, f, Z, a), ListStands(m, g, Z, a)
    PROVE  /\ Len(f[Len(n.children)]) = Len(g[Len(m.children)])
           /\ Satisfied(n, S) = Satisfied(m, S)
<1> DEFINE k == Len(n.children)
           l == Len(m.children)
<1>1. Beside(n, m, f, g, S)
  BY SideBySide
<1>2. k \in Nat /\ l \in Nat /\ k >= 2 /\ l >= 2
      /\ n.type \in {"AND", "OR"} /\ m.type \in {"AND", "OR"}
  BY KidsAreNodes DEF IsLogic, ListStands
<1>3. ~(k < l)
  BY <1>1, ShorterList
<1>4. ~(l < k)
  <2>1. SUFFICES ASSUME l < k PROVE FALSE
    OBVIOUS
  <2>2. Beside(m, n, g, f, S)
    <3> HIDE DEF k, l
    <3>1. \A i \in 1..l : i <= k => i \in 1..k /\ i <= l
      BY <1>2
    <3> QED BY <1>1, <3>1 DEF Beside, k, l
  <2> QED BY <2>1, <2>2, ShorterList
<1>5. k = l
  BY <1>2, <1>3, <1>4
<1>6. Len(f[k]) = Len(g[l])
  BY <1>1, <1>2, <1>5 DEF Beside
<1>7. /\ n.type = m.type
      /\ \A i \in 1..k : Satisfied(n.children[i], S) = Satisfied(m.children[i], S)
  BY <1>1, <1>2, <1>5 DEF Beside
<1>8. /\ \A c \in Children(n) : \E d \in Children(m) : Satisfied(c, S) = Satisfied(d, S)
      /\ \A d \in Children(m) : \E c \in Children(n) : Satisfied(c, S) = Satisfied(d, S)
  <2>1. /\ \A c \in Children(n) : \E i \in 1..k : c = n.children[i]
        /\ \A d \in Children(m) : \E i \in 1..l : d = m.children[i]
        /\ \A i \in 1..k : n.children[i] \in Children(n)
        /\ \A i \in 1..l : m.children[i] \in Children(m)
    BY KidsAreNodes
  <2> HIDE DEF k, l
  <2> QED BY <1>5, <1>7, <2>1
<1>9. Satisfied(n, S) = Satisfied(m, S)
  <2>1. Satisfied(n, S) \in BOOLEAN /\ Satisfied(m, S) \in BOOLEAN
    BY SatisfiedIs
  <2>2. CASE n.type = "AND"
    <3>1. /\ Satisfied(n, S) <=> \A c \in Children(n) : Satisfied(c, S)
          /\ Satisfied(m, S) <=> \A c \in Children(m) : Satisfied(c, S)
      BY <1>7, <2>2, SatisfiedIs
    <3> QED BY <1>8, <2>1, <3>1
  <2>3. CASE n.type = "OR"
    <3>1. /\ Satisfied(n, S) <=> \E c \in Children(n) : Satisfied(c, S)
          /\ Satisfied(m, S) <=> \E c \in Children(m) : Satisfied(c, S)
      BY <1>7, <2>3, SatisfiedIs
    <3> QED BY <1>8, <2>1, <3>1
  <2> QED BY <1>2, <2>2, <2>3
<1> QED BY <1>6, <1>9

(* A tree of AND or OR is shown as its list, in brackets below the root.   *)
LEMMA ListOf ==
    ASSUME NEW n \in Nodes
    PROVE  \E f : Joined(n, f) /\ Join(ExprsBelow(n), Separator(n.type)) = f[Len(n.children)]
<1> DEFINE parts == ExprsBelow(n)
           word == Separator(n.type)
<1>1. parts \in Seq(Seq(Mark)) /\ Len(parts) = Len(n.children) /\ word \in Mark
  BY ExprsTyped
<1> HIDE DEF parts, word
<1>2. PICK f \in [0..Len(parts) -> Seq(Mark)] :
         Join(parts, word) = f[Len(parts)] /\ JoinsUp(parts, word, f)
  BY <1>1, JoinIs
<1> QED BY <1>1, <1>2 DEF Joined, parts, word

(* The brackets around the list of a nested tree (expressionFor).          *)
LEMMA InBrackets ==
    ASSUME NEW n \in Nodes, IsLogic(n), NEW Z \in Seq(Mark), NEW a \in Nat,
           At(Z, a, expressionFor[n])
    PROVE  /\ Z[a + 1] = "("
           /\ \E f : /\ ListStands(n, f, Z, a + 1)
                     /\ Len(expressionFor[n]) = Len(f[Len(n.children)]) + 2
<1>1. PICK f : Joined(n, f) /\ Join(ExprsBelow(n), Separator(n.type)) = f[Len(n.children)]
  BY ListOf
<1> DEFINE j == f[Len(n.children)]
           l == <<"(">>
           r == <<")">>
           e == expressionFor[n]
<1>2. e = l \o j \o r
  BY <1>1, ExpressionIs DEF IsLogic
<1>3. j \in Seq(Mark)
  <2>1. Len(n.children) \in 0..Len(n.children)
    BY KidsAreNodes
  <2> QED BY <1>1, <2>1 DEF Joined
<1>4. l \in Seq(Mark) /\ r \in Seq(Mark) /\ Len(l) = 1 /\ Len(r) = 1
  <2>1. "(" \in Mark /\ ")" \in Mark
    BY AllMarks
  <2> HIDE DEF Mark
  <2> QED BY <2>1
<1> DEFINE u == l \o j
<1>5. u \in Seq(Mark) /\ Len(u) = 1 + Len(j) /\ Len(j) \in Nat /\ e = u \o r /\ Len(u \o r) = Len(u) + 1
  <2>1. e = u \o r
    BY <1>2
  <2> HIDE DEF j, l, r, e
  <2>2. u \in Seq(Mark) /\ Len(u) = Len(l) + Len(j) /\ Len(j) \in Nat
    BY <1>3, <1>4, Concat
  <2> HIDE DEF u
  <2>3. Len(u \o r) = Len(u) + Len(r)
    BY <1>4, <2>2, Concat
  <2> QED BY <1>4, <2>1, <2>2, <2>3
<1>6. At(Z, a, u) /\ At(Z, a + Len(u), r)
  <2> HIDE DEF u, r, e
  <2>1. At(Z, a, u \o r)
    BY <1>5 DEF e
  <2> QED BY <1>4, <1>5, <2>1, AtConcat
<1>7. At(Z, a, l) /\ At(Z, a + Len(l), j)
  <2> HIDE DEF j, l, r, e
  <2> QED BY <1>3, <1>4, <1>6, AtConcat
<1>8. Z[a + 1] = "("
  BY <1>7, AtOne
<1>9. At(Z, a + 1, j)
  <2> HIDE DEF j, l
  <2> QED BY <1>4, <1>7
<1>10. Z[(a + Len(u)) + 1] = ")"
  <2>1. a + Len(u) \in Nat
    BY <1>5
  <2> HIDE DEF u
  <2> QED BY <1>6, <2>1, AtOne
<1>11. a + Len(u) = (a + 1) + Len(j) /\ Len(e) = Len(j) + 2
  <2> HIDE DEF u, j, e, r
  <2> QED BY <1>5
<1>12. Halts(Z, (a + 1) + Len(j), {")"})
  <2> HIDE DEF u, j
  <2> QED BY <1>10, <1>11 DEF Halts
<1>13. ListStands(n, f, Z, a + 1)
  <2> DEFINE b == a + 1
  <2>1. b \in Nat
    OBVIOUS
  <2>2. At(Z, b, j) /\ Halts(Z, b + Len(j), {")"})
    BY <1>9, <1>12
  <2> HIDE DEF b
  <2>3. ListStands(n, f, Z, b)
    BY <1>1, <2>1, <2>2 DEF ListStands
  <2> QED BY <2>3 DEF b
<1> QED BY <1>8, <1>11, <1>13

(* Every legible tree is read in one way only, wherever it stands.         *)
LEMMA ReadOneWay ==
    ASSUME NEW S
    PROVE  \A n \in Nodes : Legible(n) => Reads(n, S)
<1> DEFINE R == {n \in Nodes : Legible(n) => Reads(n, S)}
<1>1. ASSUME NEW n \in Nodes, \A c \in Children(n) : c \in R PROVE n \in R
  <2> SUFFICES ASSUME Legible(n) PROVE Reads(n, S)
    OBVIOUS
  <2> HIDE DEF R
  <2> SUFFICES ASSUME NEW m \in Nodes, NEW Z \in Seq(Mark), NEW a \in Nat,
                      Legible(m), At(Z, a, expressionFor[n]), At(Z, a, expressionFor[m]),
                      Halts(Z, a + Len(expressionFor[n]), Stop),
                      Halts(Z, a + Len(expressionFor[m]), Stop)
               PROVE  /\ Len(expressionFor[n]) = Len(expressionFor[m])
                      /\ Satisfied(n, S) = Satisfied(m, S)
    BY Zenon DEF Reads
  <2>1. (IsLeaf(n) \/ IsLogic(n)) /\ (IsLeaf(m) \/ IsLogic(m))
    BY LegibleBelow
  <2>2. /\ IsLeaf(n) => expressionFor[n] = leafExpression(n)
        /\ IsLeaf(m) => expressionFor[m] = leafExpression(m)
    BY ExpressionIs DEF IsLeaf
  <2>3. CASE IsLeaf(n) /\ IsLeaf(m)
    <3>1. Condition(n) = Condition(m) /\ Len(expressionFor[n]) = Len(expressionFor[m])
      BY <2>2, <2>3, SameLeaf
    <3>2. /\ Satisfied(n, S) <=> Condition(n) \in S
          /\ Satisfied(m, S) <=> Condition(m) \in S
          /\ Satisfied(n, S) \in BOOLEAN /\ Satisfied(m, S) \in BOOLEAN
      BY <2>3, SatisfiedIs DEF IsLeaf
    <3> QED BY <3>1, <3>2
  <2>4. CASE IsLeaf(n) /\ IsLogic(m)
    <3>1. Z[a + 1] = "("
      BY <2>4, InBrackets
    <3>2. Z[a + 1] # "("
      BY <2>2, <2>4, LeafBegins
    <3> QED BY <3>1, <3>2
  <2>5. CASE IsLogic(n) /\ IsLeaf(m)
    <3>1. Z[a + 1] = "("
      BY <2>5, InBrackets
    <3>2. Z[a + 1] # "("
      BY <2>2, <2>5, LeafBegins
    <3> QED BY <3>1, <3>2
  <2>6. CASE IsLogic(n) /\ IsLogic(m)
    <3>1. PICK f : /\ ListStands(n, f, Z, a + 1)
                   /\ Len(expressionFor[n]) = Len(f[Len(n.children)]) + 2
      BY <2>6, InBrackets
    <3>2. PICK g : /\ ListStands(m, g, Z, a + 1)
                   /\ Len(expressionFor[m]) = Len(g[Len(m.children)]) + 2
      BY <2>6, InBrackets
    <3>3. (\A c \in Children(n) : Reads(c, S)) /\ (\A d \in Children(m) : Legible(d))
      BY <1>1, LegibleBelow, KidsAreNodes DEF R
    <3>4. /\ Len(f[Len(n.children)]) = Len(g[Len(m.children)])
          /\ Satisfied(n, S) = Satisfied(m, S)
      <4> DEFINE b == a + 1
      <4>1. ListStands(n, f, Z, b) /\ ListStands(m, g, Z, b)
        BY <3>1, <3>2
      <4> HIDE DEF b
      <4> QED BY <3>3, <4>1, SameList
    <3> QED BY <3>1, <3>2, <3>4
  <2> QED BY <2>1, <2>3, <2>4, <2>5, <2>6
<1> HIDE DEF R
<1>2. \A n \in Nodes : n \in R
  BY <1>1, UpTheTree
<1> QED BY <1>2 DEF R

(* A root is a leaf, or a list without brackets (GenerateExpression).      *)
LEMMA RootIs ==
    ASSUME NEW n \in Nodes
    PROVE  /\ n.type = "LEAF" => /\ GenerateExpression(n) = leafExpression(n)
                                 /\ GenerateExpression(n) \in Seq(Mark)
           /\ IsLogic(n) => /\ GenerateExpression(n) \in Seq(Mark)
                            /\ \E f : ListStands(n, f, GenerateExpression(n), 0)
<1> DEFINE e == GenerateExpression(n)
           k == Len(n.children)
<1>1. CASE n.type = "LEAF"
  <2>1. e = expressionFor[n]
    BY <1>1 DEF GenerateExpression
  <2>2. e = leafExpression(n) /\ e \in Seq(Mark)
    BY <1>1, <2>1, ExpressionIs
  <2> HIDE DEF e
  <2> QED BY <1>1, <2>2 DEF e, IsLogic
<1>2. CASE IsLogic(n)
  <2>1. e = Join(ExprsBelow(n), Separator(n.type))
    BY <1>2 DEF GenerateExpression, ExprsBelow, IsLogic
  <2>2. PICK f : Joined(n, f) /\ e = f[k]
    BY <2>1, ListOf
  <2> HIDE DEF e
  <2>3. k \in 0..k
    BY <1>2, KidsAreNodes DEF IsLogic
  <2>4. e \in Seq(Mark)
    BY <2>2, <2>3 DEF Joined
  <2>5. At(e, 0, e) /\ Len(e) \in Nat
    BY <2>4 DEF At
  <2>6. Halts(e, 0 + Len(f[k]), {")"})
    BY <2>2, <2>5 DEF Halts
  <2>7. ListStands(n, f, e, 0)
    BY <1>2, <2>2, <2>4, <2>5, <2>6 DEF ListStands
  <2> QED BY <1>2, <2>4, <2>7 DEF e, IsLogic
<1> QED BY <1>1, <1>2 DEF IsLogic

(* A leaf is not shown as a list is: the list goes on after its first tree.*)
LEMMA LeafIsNoList ==
    ASSUME NEW p \in Nodes, NEW q \in Nodes, IsLeaf(p), IsLogic(q), Legible(q)
    PROVE  GenerateExpression(p) # GenerateExpression(q)
<1> DEFINE Z == GenerateExpression(q)
           c == q.children[1]
           k == Len(q.children)
<1> SUFFICES ASSUME leafExpression(p) = Z PROVE FALSE
  BY RootIs DEF IsLeaf
<1>1. Z \in Seq(Mark)
  BY RootIs
<1>2. PICK g : ListStands(q, g, Z, 0)
  BY RootIs
<1> HIDE DEF Z
<1>3. 1 \in 1..k /\ 1 + 1 <= k
  BY KidsAreNodes DEF IsLogic
<1>4. /\ g[1] = expressionFor[c] /\ At(Z, 0, expressionFor[c])
      /\ 0 + Len(g[1]) + 1 <= Len(Z) /\ Halts(Z, 0 + Len(g[1]), Stop)
  <2>1. ListReads(q, g, Z, 0)
    BY <1>2, ListRead
  <2> HIDE DEF k
  <2> QED BY <1>3, <2>1 DEF ListReads, k, c
<1>5. c \in Nodes /\ Legible(c) /\ expressionFor[c] \in Seq(Mark)
  BY <1>3, KidsAreNodes, LegibleBelow, ExpressionIs
<1> HIDE DEF c
<1>6. Len(Z) \in Nat /\ At(Z, 0, leafExpression(p)) /\ Halts(Z, 0 + Len(leafExpression(p)), Stop)
  BY <1>1 DEF At, Halts
<1>7. CASE IsLogic(c)
  <2>1. Z[0 + 1] = "("
    BY <1>1, <1>4, <1>5, <1>7, InBrackets
  <2>2. Z[0 + 1] # "("
    BY <1>1, <1>6, LeafBegins
  <2> QED BY <2>1, <2>2
<1>8. CASE IsLeaf(c)
  <2>1. expressionFor[c] = leafExpression(c)
    BY <1>5, <1>8, ExpressionIs DEF IsLeaf
  <2>2. Len(leafExpression(p)) = Len(leafExpression(c))
    BY <1>1, <1>4, <1>5, <1>6, <1>8, <2>1, SameLeaf
  <2>3. Len(Z) = Len(g[1]) /\ Len(g[1]) \in Nat
    BY <1>4, <1>6, <2>1, <2>2
  <2> QED BY <1>4, <2>3
<1> QED BY <1>5, <1>7, <1>8, LegibleBelow

(* Two trees with the same expression are satisfied by the same people, if *)
(* no value has a quotation mark in it and no attribute code "belongs_to"  *)
(* (GenerateExpression, quoteIfNeeded).                                    *)
THEOREM ExpressionTells ==
    ASSUME NEW S, NEW p \in Nodes, NEW q \in Nodes,
           Sound(p), Sound(q), Plain(p), Plain(q),
           GenerateExpression(p) = GenerateExpression(q)
    PROVE  Satisfied(p, S) = Satisfied(q, S)
<1> DEFINE Z == GenerateExpression(p)
<1>0. Legible(p) /\ Legible(q)
  BY DEF Legible
<1>1. (IsLeaf(p) \/ IsLogic(p)) /\ (IsLeaf(q) \/ IsLogic(q))
  BY <1>0, LegibleBelow
<1>2. CASE IsLeaf(p) /\ IsLeaf(q)
  <2>1. Z \in Seq(Mark) /\ leafExpression(p) = Z /\ leafExpression(q) = Z
    BY <1>2, RootIs DEF IsLeaf
  <2> HIDE DEF Z
  <2>2. Len(Z) \in Nat /\ At(Z, 0, Z) /\ Halts(Z, 0 + Len(Z), Stop)
    BY <2>1 DEF At, Halts
  <2>3. Condition(p) = Condition(q)
    BY <1>2, <2>1, <2>2, SameLeaf
  <2>4. /\ Satisfied(p, S) <=> Condition(p) \in S
        /\ Satisfied(q, S) <=> Condition(q) \in S
        /\ Satisfied(p, S) \in BOOLEAN /\ Satisfied(q, S) \in BOOLEAN
    BY <1>2, SatisfiedIs DEF IsLeaf
  <2> QED BY <2>3, <2>4
<1>3. CASE IsLogic(p) /\ IsLogic(q)
  <2>1. PICK f : ListStands(p, f, Z, 0)
    BY <1>3, RootIs
  <2>2. PICK g : ListStands(q, g, Z, 0)
    BY <1>3, RootIs
  <2>3. (\A c \in Children(p) : Reads(c, S)) /\ (\A d \in Children(q) : Legible(d))
    BY <1>0, LegibleBelow, ReadOneWay, KidsAreNodes
  <2> HIDE DEF Z
  <2> QED BY <2>1, <2>2, <2>3, SameList
<1>4. CASE IsLeaf(p) /\ IsLogic(q)
  BY <1>0, <1>4, LeafIsNoList
<1>5. CASE IsLogic(p) /\ IsLeaf(q)
  BY <1>0, <1>5, LeafIsNoList
<1> QED BY <1>1, <1>2, <1>3, <1>4, <1>5

(***************************************************************************)
(* The invariant.                                                          *)
(***************************************************************************)
RowStates == {"live", "deleted"}

AttributeRow(r) ==
    /\ r = [state |-> r.state, code |-> r.code, type |-> r.type,
            values |-> r.values, status |-> r.status]
    /\ r.state \in RowStates
    /\ r.type \in PolicyAttributeTypes

DocumentRow(r) ==
    /\ r = [state |-> r.state, name |-> r.name, tree |-> r.tree,
            expr |-> r.expr, status |-> r.status]
    /\ r.state \in RowStates
    /\ r.tree \in Nodes
    /\ r.expr = GenerateExpression(r.tree)

IsTable(table, ids) == table = [id \in ids |-> table[id]]

With(table, ids, n, row) == [id \in ids |-> IF id = n THEN row ELSE table[id]]

AttributesOK(table) ==
    /\ IsTable(table, AttributeIds)
    /\ \A id \in AttributeIds : table[id] = Absent \/ AttributeRow(table[id])

DocumentsOK(table, ids) ==
    /\ IsTable(table, ids)
    /\ \A id \in ids : table[id] = Absent \/ (DocumentRow(table[id]) /\ Sound(table[id].tree))

AttributeCall(c) ==
    /\ c = [op |-> "attribute", step |-> "valid", id |-> c.id, found |-> c.found,
            input |-> c.input, moved |-> c.moved]
    /\ c.id \in AttributeIds
    /\ c.found.state = "live"
    /\ c.input.type \in PolicyAttributeTypes
    /\ c.moved \in BOOLEAN

IdsOf(op) == IF op = "policy" THEN PolicyIds ELSE TemplateIds

DocumentCall(c) ==
    /\ c = [op |-> c.op, step |-> c.step, id |-> c.id, found |-> c.found,
            row |-> c.row, moved |-> c.moved]
    /\ c.op \in {"template", "policy"} /\ c.step \in {"found", "valid"}
    /\ c.found = Absent \/ (c.found.state = "live" /\ c.id \in IdsOf(c.op))
    /\ DocumentRow(c.row) /\ c.row.state = "live"
    /\ c.moved \in BOOLEAN
    /\ c.step = "valid" => Sound(c.row.tree)

DemoCall(c) ==
    /\ c = [op |-> "demo", step |-> "attributes", created |-> c.created]
    /\ c.created \in Nat

(* What a call has validated holds until the dictionary changes.           *)
StillOpen(c) ==
    c.step = "valid" /\ ~c.moved => OpenTree(c.row.tree, enabledAttributeMetas(c.op))

CallOK(c) ==
    \/ c = Idle
    \/ c.op = "attribute" /\ AttributeCall(c)
    \/ DemoCall(c)
    \/ c.op # "attribute" /\ DocumentCall(c) /\ StillOpen(c)

CallsOK ==
    /\ IsTable(calls, Handlers)
    /\ \A h \in Handlers : CallOK(calls[h])

PolicyInv ==
    /\ AttributesOK(attributes)
    /\ DocumentsOK(templates, TemplateIds)
    /\ DocumentsOK(policies, PolicyIds)
    /\ CallsOK
    /\ changes \in 0..MaxChanges

(***************************************************************************)
(* Tables.                                                                 *)
(***************************************************************************)
(* An absent row is not a row of the schema.                               *)
LEMMA AbsentIsNoRow ==
    /\ Absent.state = "absent"
    /\ \A r : AttributeRow(r) \/ DocumentRow(r) => r # Absent /\ r.state \in RowStates
<1>1. Absent.state = "absent"
  BY DEF Absent
<1> QED BY <1>1 DEF AttributeRow, DocumentRow, RowStates

(* A new row goes where there is none.                                     *)
LEMMA Inserted ==
    ASSUME NEW ids, ids \subseteq Nat, NEW table, IsTable(table, ids), HasRoom(table), NEW row
    PROVE  \E n \in ids : table[n] = Absent /\ Insert(table, row) = With(table, ids, n, row)
<1> DEFINE free == {id \in DOMAIN table : table[id] = Absent}
           n == Min(free)
<1>1. DOMAIN table = ids
  BY DEF IsTable
<1>2. free \in SUBSET Nat /\ free # {}
  BY <1>1 DEF HasRoom
<1>3. \E x \in free : \A y \in free : x <= y
  <2> HIDE DEF free
  <2> QED BY <1>2, LeastOf
<1>4. n \in free
  <2> HIDE DEF free
  <2> QED BY <1>3 DEF Min
<1>5. n \in ids /\ table[n] = Absent
  BY <1>1, <1>4
<1>6. Insert(table, row) = [table EXCEPT ![n] = row]
  BY DEF Insert, NextId
<1> HIDE DEF n
<1> QED BY <1>5, <1>6 DEF IsTable, With

(* Save writes the row at its id (gorm.DB.Save).                           *)
LEMMA Saved ==
    ASSUME NEW ids, NEW table, IsTable(table, ids), NEW id, NEW row
    PROVE  Save(table, id, row) = With(table, ids, id, row)
BY DEF Save, IsTable, With

(* A deletion leaves everything of a row but its state.                    *)
LEMMA Deleted ==
    ASSUME NEW r, AttributeRow(r) \/ DocumentRow(r)
    PROVE  /\ AttributeRow(r) => AttributeRow([r EXCEPT !.state = "deleted"])
           /\ DocumentRow(r) => /\ DocumentRow([r EXCEPT !.state = "deleted"])
                                /\ [r EXCEPT !.state = "deleted"].tree = r.tree
           /\ [r EXCEPT !.state = "deleted"].state = "deleted"
<1>1. CASE AttributeRow(r)
  <2>1. [r EXCEPT !.state = "deleted"] = [state |-> "deleted", code |-> r.code,
           type |-> r.type, values |-> r.values, status |-> r.status]
    BY <1>1 DEF AttributeRow
  <2>2. ~DocumentRow(r)
    BY <1>1 DEF AttributeRow, DocumentRow
  <2> QED BY <1>1, <2>1, <2>2 DEF AttributeRow, RowStates
<1>2. CASE DocumentRow(r)
  <2>1. [r EXCEPT !.state = "deleted"] = [state |-> "deleted", name |-> r.name,
           tree |-> r.tree, expr |-> r.expr, status |-> r.status]
    BY <1>2 DEF DocumentRow
  <2>2. ~AttributeRow(r)
    BY <1>2 DEF AttributeRow, DocumentRow
  <2> QED BY <1>2, <2>1, <2>2 DEF DocumentRow, RowStates
<1> QED BY <1>1, <1>2

(* The rows that are built from what is submitted are rows of the schema.  *)
LEMMA Submitted ==
    ASSUME NEW input
    PROVE  /\ input.type \in PolicyAttributeTypes =>
                AttributeRow(Attribute(input)) /\ Attribute(input).state = "live"
           /\ input.tree \in Nodes =>
                /\ DocumentRow(Document(input)) /\ Document(input).state = "live"
                /\ Document(input).tree = input.tree
BY DEF Attribute, Document, AttributeRow, DocumentRow, RowStates

(* What Validate admits has two conditions or more below each AND and OR,  *)
(* and names open attributes and values.                                   *)
LEMMA ValidTrees ==
    ASSUME NEW root \in Nodes, NEW metas, Validate(root, metas)
    PROVE  Sound(root) /\ OpenTree(root, metas)
<1>1. \A n \in Parts[root] : NodeOK(n, metas)
  BY ValidNodes
<1>2. Sound(root)
  <2>1. \A n \in Parts[root] : n.type = "LEAF" => ValidLeaf(n)
    <3> SUFFICES ASSUME NEW n \in Parts[root], n.type = "LEAF" PROVE ValidLeaf(n)
      OBVIOUS
    <3>1. validateLeafNode(n, metas)
      BY <1>1 DEF NodeOK
    <3>2. n.attribute \in AttributeCodes
          /\ operatorAllowed(n.operator, metas[n.attribute].type)
      BY <3>1 DEF validateLeafNode
    <3> QED BY <3>2 DEF operatorAllowed, ValidLeaf, Operators
  <2> QED BY <1>1, <2>1 DEF Sound, NodeOK, validateLogicNode
<1>3. OpenTree(root, metas)
  <2> SUFFICES ASSUME NEW n \in Parts[root], n.type = "LEAF"
               PROVE  /\ n.attribute \in DOMAIN metas
                      /\ metas[n.attribute].type \in {"enum", "tree"} =>
                           n.value \in metas[n.attribute].values
    BY DEF OpenTree, Leaves
  <2>1. validateLeafNode(n, metas)
    BY <1>1 DEF NodeOK
  <2> QED BY <2>1 DEF validateLeafNode, validateValue
<1> QED BY <1>2, <1>3

(* A list of two children has two places.                                  *)
LEMMA EnoughChildren ==
    ASSUME NEW n \in Nodes, Len(n.children) >= 2
    PROVE  Cardinality(DOMAIN n.children) >= 2
<1>1. DOMAIN n.children = 1..Len(n.children) /\ Len(n.children) \in Nat
  BY KidsAreNodes
<1>2. Cardinality(1..Len(n.children)) = Len(n.children)
  <2>1. 1 \in Int /\ Len(n.children) \in Int
    BY <1>1
  <2> QED BY <2>1, <1>1, FS_Interval
<1> QED BY <1>1, <1>2

-----------------------------------------------------------------------------
(* A table with one row put in: nothing else is written, and only that row *)
(* may have returned.                                                      *)
LEMMA Put ==
    ASSUME NEW ids, NEW t, IsTable(t, ids), NEW n, NEW row
    PROVE  /\ IsTable(With(t, ids, n, row), ids)
           /\ \A id \in ids : With(t, ids, n, row)[id] = IF id = n THEN row ELSE t[id]
           /\ Written(t, With(t, ids, n, row)) \subseteq {n}
           /\ Returns(t, With(t, ids, n, row)) \subseteq {n}
           /\ t[n].state # "deleted" => Returns(t, With(t, ids, n, row)) = {}
           /\ row.state # "live" => /\ Written(t, With(t, ids, n, row)) = {}
                                    /\ Returns(t, With(t, ids, n, row)) = {}
           /\ Written(t, t) = {} /\ Returns(t, t) = {}
<1> DEFINE u == With(t, ids, n, row)
<1>1. IsTable(u, ids) /\ \A id \in ids : u[id] = IF id = n THEN row ELSE t[id]
  BY DEF With, IsTable
<1>2. DOMAIN t = ids
  BY DEF IsTable
<1> HIDE DEF u
<1>3. Written(t, t) = {} /\ Returns(t, t) = {}
  BY DEF Written, Returns
<1>4. /\ Written(t, u) \subseteq {n}
      /\ Returns(t, u) \subseteq {n}
      /\ t[n].state # "deleted" => Returns(t, u) = {}
      /\ row.state # "live" => Written(t, u) = {} /\ Returns(t, u) = {}
  BY <1>1, <1>2 DEF Written, Returns
<1> QED BY <1>1, <1>3, <1>4 DEF u

(* An attribute row put into the dictionary leaves it well formed.         *)
LEMMA PutAttribute ==
    ASSUME NEW t, AttributesOK(t), NEW n, NEW row, AttributeRow(row)
    PROVE  AttributesOK(With(t, AttributeIds, n, row))
BY Put DEF AttributesOK

(* A sound document put into its table leaves that well formed.            *)
LEMMA PutDocument ==
    ASSUME NEW ids, NEW t, DocumentsOK(t, ids), NEW n, NEW row,
           DocumentRow(row), Sound(row.tree)
    PROVE  DocumentsOK(With(t, ids, n, row), ids)
<1> DEFINE u == With(t, ids, n, row)
<1>1. IsTable(u, ids) /\ \A id \in ids : u[id] = IF id = n THEN row ELSE t[id]
  BY Put DEF DocumentsOK
<1> HIDE DEF u
<1>2. DocumentsOK(u, ids)
  BY <1>1 DEF DocumentsOK
<1> QED BY <1>2 DEF u

-----------------------------------------------------------------------------
(* Each kind of call has its op, and none is idle.                         *)
LEMMA CallsTyped ==
    /\ Idle.op = "idle"
    /\ \A c : AttributeCall(c) => c # Idle /\ c.op = "attribute" /\ c.step = "valid"
    /\ \A c : DocumentCall(c) => c # Idle /\ c.op \in {"template", "policy"}
    /\ \A c : DemoCall(c) => c # Idle /\ c.op = "demo" /\ c.step = "attributes"
BY DEF Idle, AttributeCall, DocumentCall, DemoCall

(* A validated tree stays open while what it was validated with stays.     *)
LEMMA StayOpen ==
    ASSUME NEW c, StillOpen(c)
    PROVE  /\ c.op = "policy" /\ opened' = opened => StillOpen(c)'
           /\ c.op # "policy" /\ attributes' = attributes => StillOpen(c)'
<1>1. ASSUME c.op = "policy", opened' = opened PROVE StillOpen(c)'
  <2>1. enabledAttributeMetas(c.op)' = enabledAttributeMetas(c.op)
    BY <1>1 DEF enabledAttributeMetas, tenantAttributeMetas
  <2> QED BY <2>1 DEF StillOpen
<1>2. ASSUME c.op # "policy", attributes' = attributes PROVE StillOpen(c)'
  <2>1. enabledAttributeMetas(c.op)' = enabledAttributeMetas(c.op)
    BY <1>2 DEF enabledAttributeMetas
  <2> QED BY <2>1 DEF StillOpen
<1> QED BY <1>1, <1>2

(* Being told that the dictionary has moved changes nothing else of a      *)
(* call.                                                                   *)
LEMMA MovedCall ==
    ASSUME NEW c, DocumentCall(c)
    PROVE  /\ DocumentCall([c EXCEPT !.moved = TRUE])
           /\ [c EXCEPT !.moved = TRUE].moved
           /\ [c EXCEPT !.moved = TRUE].op = c.op
<1> DEFINE d == [op |-> c.op, step |-> c.step, id |-> c.id, found |-> c.found,
                 row |-> c.row, moved |-> TRUE]
<1>1. [c EXCEPT !.moved = TRUE] = d
  <2>1. c = [op |-> c.op, step |-> c.step, id |-> c.id, found |-> c.found,
             row |-> c.row, moved |-> c.moved]
    BY DEF DocumentCall
  <2>2. \A v : [c EXCEPT !.moved = v] =
                  [op |-> c.op, step |-> c.step, id |-> c.id, found |-> c.found,
                   row |-> c.row, moved |-> v]
    BY <2>1
  <2> QED BY <2>2, Zenon
<1>2. DocumentCall(d)
  BY DEF DocumentCall
<1>3. d.moved /\ d.op = c.op
  OBVIOUS
<1> HIDE DEF d
<1> QED BY <1>1, <1>2, <1>3

(* The calls when what those for op validate with has changed.             *)
LEMMA CallsMove ==
    ASSUME NEW op \in {"template", "policy"}, CallsOK,
           IsTable(calls, Handlers)',
           \A h \in Handlers :
              calls'[h] = Idle \/ DemoCall(calls'[h]) \/ calls'[h] = Moved(op)[h],
           op = "template" => opened' = opened,
           op = "policy" => attributes' = attributes
    PROVE  CallsOK'
<1> SUFFICES ASSUME NEW h \in Handlers PROVE CallOK(calls[h])'
  BY DEF CallsOK
<1>0. CallOK(calls[h])
  BY DEF CallsOK
<1>1. CASE calls'[h] = Idle \/ DemoCall(calls'[h])
  BY <1>1 DEF CallOK
<1>2. CASE calls'[h] = Moved(op)[h] /\ calls[h].op = op
  <2>1. DocumentCall(calls[h])
    BY <1>0, <1>2, CallsTyped DEF CallOK
  <2>2. calls'[h] = [calls[h] EXCEPT !.moved = TRUE]
    BY <1>2 DEF Moved
  <2>3. DocumentCall(calls[h])' /\ calls'[h].moved /\ calls'[h].op = op
    BY <1>2, <2>1, <2>2, MovedCall
  <2>4. StillOpen(calls[h])'
    BY <2>3 DEF StillOpen
  <2> QED BY <2>3, <2>4 DEF CallOK
<1>3. CASE calls'[h] = Moved(op)[h] /\ calls[h].op # op
  <2>1. calls'[h] = calls[h]
    BY <1>3 DEF Moved
  <2>2. ASSUME DocumentCall(calls[h]), StillOpen(calls[h]) PROVE StillOpen(calls[h])'
    <3>1. calls[h].op \in {"template", "policy"}
      BY <2>2, CallsTyped
    <3>2. PICK c : c = calls[h]
      OBVIOUS
    <3>3. StillOpen(c)'
      BY <1>3, <2>2, <3>1, <3>2, StayOpen
    <3>4. c = calls'[h]
      BY <2>1, <3>2
    <3> QED BY <3>3, <3>4 DEF StillOpen
  <2> QED BY <1>0, <2>1, <2>2 DEF CallOK
<1> QED BY <1>1, <1>2, <1>3

(* A call stays as good as it is while both dictionaries stay.             *)
LEMMA KeepCall ==
    ASSUME NEW c, CallOK(c), UNCHANGED <<attributes, opened>>
    PROVE  CallOK(c)'
<1>1. ASSUME c.op # "attribute", DocumentCall(c), StillOpen(c) PROVE StillOpen(c)'
  BY <1>1, StayOpen
<1> QED BY <1>1 DEF CallOK

(* One call goes on, the dictionaries stay.                                *)
LEMMA CallsOne ==
    ASSUME CallsOK, UNCHANGED <<attributes, opened>>, NEW h \in Handlers,
           NEW c, CallOK(c), calls' = [calls EXCEPT ![h] = c]
    PROVE  CallsOK'
<1>1. IsTable(calls, Handlers)' /\ \A k \in Handlers : calls'[k] = IF k = h THEN c ELSE calls[k]
  BY DEF CallsOK, IsTable
<1>2. ASSUME NEW k \in Handlers PROVE CallOK(calls[k])'
  <2>1. PICK d : d = calls'[k]
    OBVIOUS
  <2>2. CallOK(d)
    BY <1>1, <2>1 DEF CallsOK
  <2>3. CallOK(d)'
    BY <2>2, KeepCall
  <2> QED BY <2>1, <2>3 DEF CallOK, StillOpen
<1> QED BY <1>1, <1>2 DEF CallsOK

(* When no call goes on and the dictionaries stay, all are as good.        *)
LEMMA CallsStay ==
    ASSUME CallsOK, UNCHANGED <<attributes, opened, calls>>
    PROVE  CallsOK'
<1>1. ASSUME NEW k \in Handlers PROVE CallOK(calls[k])'
  <2>1. PICK d : d = calls[k]
    OBVIOUS
  <2>2. CallOK(d)'
    BY <2>1, KeepCall DEF CallsOK
  <2> QED BY <2>1, <2>2 DEF CallOK, StillOpen
<1> QED BY <1>1 DEF CallsOK, IsTable

-----------------------------------------------------------------------------
(* Steps.                                                                  *)
ReturnsOverlap ==
    /\ \A id \in Returns(attributes, attributes') : Overlaps("attribute", id)
    /\ \A id \in Returns(templates, templates') : Overlaps("template", id)
    /\ \A id \in Returns(policies, policies') : Overlaps("policy", id)

WritesOpen ==
    /\ \A id \in Written(templates, templates') :
         \/ OpenTree(templates'[id].tree, platformAttributeMetas(attributes'))
         \/ DictionaryMoved("template", calls')
    /\ \A id \in Written(policies, policies') :
         \/ OpenTree(policies'[id].tree, tenantAttributeMetas)
         \/ DictionaryMoved("policy", calls')

PolicyStep == PolicyInv' /\ ReturnsOverlap /\ WritesOpen

(* A step that leaves templates and policies as they are.                  *)
LEMMA OnlyAttributes ==
    ASSUME PolicyInv, UNCHANGED <<templates, policies>>, AttributesOK(attributes'),
           \A id \in Returns(attributes, attributes') : Overlaps("attribute", id),
           CallsOK', changes' \in 0..MaxChanges
    PROVE  PolicyStep
<1>1. Returns(templates, templates) = {} /\ Written(templates, templates) = {}
  BY Put DEF PolicyInv, DocumentsOK
<1>2. Returns(policies, policies) = {} /\ Written(policies, policies) = {}
  BY Put DEF PolicyInv, DocumentsOK
<1>3. AttributesOK(attributes)' /\ DocumentsOK(templates, TemplateIds)'
      /\ DocumentsOK(policies, PolicyIds)'
  BY DEF PolicyInv, AttributesOK, DocumentsOK, IsTable
<1> QED BY <1>1, <1>2, <1>3 DEF PolicyStep, PolicyInv, ReturnsOverlap, WritesOpen

(* A step of the calls alone neither brings back nor writes a row.         *)
LEMMA OnlyCalls ==
    ASSUME PolicyInv, UNCHANGED <<attributes, templates, policies>>,
           CallsOK', changes' \in 0..MaxChanges
    PROVE  PolicyStep
<1>1. Returns(attributes, attributes) = {}
  BY Put DEF PolicyInv, AttributesOK
<1>2. AttributesOK(attributes')
  BY DEF PolicyInv, AttributesOK, IsTable
<1> QED BY <1>1, <1>2, OnlyAttributes

(* The bound on the calls that write is kept.                              *)
LEMMA CountsUp ==
    ASSUME changes \in 0..MaxChanges, Counts \/ changes' = changes
    PROVE  changes' \in 0..MaxChanges
BY AccessPolicyAssumption DEF Counts

(* Moved tells every handler, and nobody else.                             *)
LEMMA MovedTable ==
    ASSUME NEW op
    PROVE  IsTable(Moved(op), Handlers)
BY DEF IsTable, Moved

(* A new attribute goes where no row was, so nothing returns               *)
(* (CreateAttribute).                                                      *)
LEMMA CreateAttributeStep ==
    ASSUME PolicyInv, NEW input \in AttributeInputs, CreateAttribute(input)
    PROVE  PolicyStep
<1> DEFINE row == Attribute(input)
<1>1. AttributeRow(row)
  BY Submitted DEF CreateAttribute, buildAttribute
<1>2. IsTable(attributes, AttributeIds) /\ AttributesOK(attributes) /\ AttributeIds \subseteq Nat
  BY AccessPolicyAssumption DEF PolicyInv, AttributesOK
<1> HIDE DEF row
<1>3. PICK n \in AttributeIds :
         attributes[n] = Absent /\ Insert(attributes, row) = With(attributes, AttributeIds, n, row)
  BY <1>2, Inserted DEF CreateAttribute
<1>4. attributes' = With(attributes, AttributeIds, n, row)
  BY <1>3 DEF CreateAttribute, row
<1>5. AttributesOK(attributes')
  BY <1>1, <1>2, <1>4, PutAttribute
<1>6. Returns(attributes, attributes') = {}
  <2>1. attributes[n].state # "deleted"
    BY <1>3, AbsentIsNoRow
  <2> QED BY <1>2, <1>4, <2>1, Put
<1>7. CallsOK'
  <2>1. calls' = Moved("template") /\ opened' = opened
    BY DEF CreateAttribute
  <2>2. IsTable(calls, Handlers)'
    BY <2>1, MovedTable DEF IsTable
  <2> QED BY <2>1, <2>2, CallsMove DEF PolicyInv
<1>8. changes' \in 0..MaxChanges
  BY CountsUp DEF CreateAttribute, PolicyInv
<1> QED BY <1>5, <1>6, <1>7, <1>8, OnlyAttributes DEF CreateAttribute

(* Deleting an attribute moves the dictionary of the templates             *)
(* (DeleteAttribute).                                                      *)
LEMMA DeleteAttributeStep ==
    ASSUME PolicyInv, NEW id \in AttributeIds, DeleteAttribute(id)
    PROVE  PolicyStep
<1> DEFINE row == [attributes[id] EXCEPT !.state = "deleted"]
<1>1. AttributeRow(attributes[id])
  BY AbsentIsNoRow DEF PolicyInv, AttributesOK, DeleteAttribute, FindAttributeByID
<1>2. AttributeRow(row) /\ row.state = "deleted"
  BY <1>1, Deleted
<1>3. IsTable(attributes, AttributeIds) /\ AttributesOK(attributes)
  BY DEF PolicyInv, AttributesOK
<1>4. attributes' = With(attributes, AttributeIds, id, row)
  BY <1>3 DEF DeleteAttribute, IsTable, With
<1> HIDE DEF row
<1>5. AttributesOK(attributes')
  BY <1>2, <1>3, <1>4, PutAttribute
<1>6. Returns(attributes, attributes') = {}
  BY <1>2, <1>3, <1>4, Put
<1>7. CallsOK'
  <2>1. calls' = Moved("template") /\ opened' = opened
    BY DEF DeleteAttribute
  <2>2. IsTable(calls, Handlers)'
    BY <2>1, MovedTable DEF IsTable
  <2> QED BY <2>1, <2>2, CallsMove DEF PolicyInv
<1>8. changes' \in 0..MaxChanges
  BY CountsUp DEF DeleteAttribute, PolicyInv
<1> QED BY <1>5, <1>6, <1>7, <1>8, OnlyAttributes DEF DeleteAttribute

(* The row that an update of an attribute finds is live (UpdateAttribute,  *)
(* its first half).                                                        *)
LEMMA UpdateAttributeFindsStep ==
    ASSUME PolicyInv, NEW h \in Handlers, NEW id \in AttributeIds, NEW input \in AttributeInputs,
           UpdateAttributeFinds(h, id, input)
    PROVE  PolicyStep
<1> DEFINE c == [op |-> "attribute", step |-> "valid", id |-> id, found |-> attributes[id],
                 input |-> input, moved |-> FALSE]
<1>1. AttributeCall(c) /\ c.op = "attribute"
  BY DEF AttributeCall, UpdateAttributeFinds, FindAttributeByID, buildAttribute
<1>2. CallOK(c)
  <2> HIDE DEF c
  <2> QED BY <1>1 DEF CallOK
<1>3. calls' = [calls EXCEPT ![h] = c] /\ UNCHANGED <<attributes, templates, policies, opened>>
  BY DEF UpdateAttributeFinds
<1> HIDE DEF c
<1>4. CallsOK'
  BY <1>2, <1>3, CallsOne DEF PolicyInv
<1>5. changes' \in 0..MaxChanges
  BY CountsUp DEF UpdateAttributeFinds, PolicyInv
<1> QED BY <1>3, <1>4, <1>5, OnlyCalls

(* Saving an attribute may bring it back, and this call had found it       *)
(* before (UpdateAttribute, the save).                                     *)
LEMMA UpdateAttributeStep ==
    ASSUME PolicyInv, NEW h \in Handlers, UpdateAttribute(h)
    PROVE  PolicyStep
<1> DEFINE c == calls[h]
           row == Attribute(c.input)
<1>1. AttributeCall(c)
  BY CallsTyped DEF UpdateAttribute, Busy, PolicyInv, CallsOK, CallOK
<1>2. AttributeRow(row)
  BY <1>1, Submitted DEF AttributeCall
<1>3. IsTable(attributes, AttributeIds) /\ AttributesOK(attributes)
  BY DEF PolicyInv, AttributesOK
<1>4. \/ attributes' = attributes
      \/ attributes' = With(attributes, AttributeIds, c.id, row)
  BY <1>3, Saved DEF UpdateAttribute
<1> HIDE DEF row
<1>5. AttributesOK(attributes')
  BY <1>2, <1>3, <1>4, PutAttribute
<1>6. Returns(attributes, attributes') \subseteq {c.id}
  BY <1>3, <1>4, Put
<1>7. \A id \in Returns(attributes, attributes') : Overlaps("attribute", id)
  <2>1. Overlaps("attribute", c.id)
    BY <1>1, CallsTyped DEF Overlaps, AttributeCall
  <2> QED BY <1>6, <2>1
<1>8. CallsOK'
  <2>1. calls' = [Moved("template") EXCEPT ![h] = Idle] /\ opened' = opened
    BY DEF UpdateAttribute
  <2>2. IsTable(Moved("template"), Handlers)
    BY MovedTable
  <2>3. IsTable(calls, Handlers)' /\ \A k \in Handlers : calls'[k] = Idle \/ calls'[k] = Moved("template")[k]
    <3> DEFINE m == Moved("template")
    <3> HIDE DEF m
    <3> QED BY <2>1, <2>2 DEF IsTable, m
  <2> QED BY <2>1, <2>3, CallsMove DEF PolicyInv
<1>9. changes' \in 0..MaxChanges
  BY CountsUp DEF UpdateAttribute, PolicyInv
<1> QED BY <1>5, <1>7, <1>8, <1>9, OnlyAttributes DEF UpdateAttribute

(* A creation or an update of a document begins with a document that is    *)
(* not validated yet.                                                      *)
LEMMA BeginStep ==
    ASSUME PolicyInv, NEW h \in Handlers, NEW op \in {"template", "policy"}, NEW id, NEW found,
           NEW input \in DocumentInputs,
           found = Absent \/ (found.state = "live" /\ id \in IdsOf(op)),
           Begin(h, op, id, found, input)
    PROVE  PolicyStep
<1> DEFINE row == Document(input)
           c == [op |-> op, step |-> "found", id |-> id, found |-> found,
                 row |-> row, moved |-> FALSE]
<1>1. DocumentRow(row) /\ row.state = "live"
  BY Submitted, AccessPolicyAssumption
<1> HIDE DEF row
<1>2. DocumentCall(c) /\ c.op # "attribute" /\ StillOpen(c)
  BY <1>1 DEF DocumentCall, StillOpen
<1>3. CallOK(c)
  <2> HIDE DEF c
  <2> QED BY <1>2 DEF CallOK
<1>4. calls' = [calls EXCEPT ![h] = c] /\ UNCHANGED <<attributes, templates, policies, opened>>
  BY DEF Begin, row
<1> HIDE DEF c
<1>5. CallsOK'
  BY <1>3, <1>4, CallsOne DEF PolicyInv
<1>6. changes' \in 0..MaxChanges
  BY CountsUp DEF Begin, PolicyInv
<1> QED BY <1>4, <1>5, <1>6, OnlyCalls

(* Validating makes the tree sound, and open in the dictionary that was    *)
(* read (validateTreeJSON).                                                *)
LEMMA ValidateStep ==
    ASSUME PolicyInv, NEW h \in Handlers, validateTreeJSON(h)
    PROVE  PolicyStep
<1> DEFINE c == calls[h]
           metas == enabledAttributeMetas(c.op)
           d == [c EXCEPT !.step = "valid"]
           e == [op |-> c.op, step |-> "valid", id |-> c.id, found |-> c.found,
                 row |-> c.row, moved |-> c.moved]
<1>1. DocumentCall(c) /\ c.op # "attribute"
  BY CallsTyped DEF validateTreeJSON, PolicyInv, CallsOK, CallOK
<1>2. UNCHANGED <<attributes, templates, policies, opened, changes>>
  BY DEF validateTreeJSON
<1>3. CASE Validate(c.row.tree, metas)
  <2>1. c.row.tree \in Nodes
    BY <1>1 DEF DocumentCall, DocumentRow
  <2> HIDE DEF metas
  <2>2. Sound(c.row.tree) /\ OpenTree(c.row.tree, metas)
    BY <1>3, <2>1, ValidTrees
  <2>3. d = e
    <3>1. c = [op |-> c.op, step |-> c.step, id |-> c.id, found |-> c.found,
               row |-> c.row, moved |-> c.moved]
      BY <1>1 DEF DocumentCall
    <3> HIDE DEF c
    <3> QED BY <3>1
  <2>4. DocumentCall(e) /\ e.op = c.op
    <3> HIDE DEF c
    <3> QED BY <1>1, <2>2 DEF DocumentCall
  <2>5. StillOpen(e)
    BY <2>2 DEF StillOpen, metas
  <2> HIDE DEF e
  <2>6. CallOK(e)
    BY <1>1, <2>4, <2>5 DEF CallOK
  <2>7. calls' = [calls EXCEPT ![h] = e]
    BY <1>3, <2>3 DEF validateTreeJSON, metas
  <2>8. CallsOK'
    BY <1>2, <2>6, <2>7, CallsOne DEF PolicyInv
  <2> QED BY <1>2, <2>8, CountsUp, OnlyCalls DEF PolicyInv
<1>4. CASE ~Validate(c.row.tree, metas)
  <2>1. calls' = [calls EXCEPT ![h] = Idle]
    BY <1>4 DEF validateTreeJSON
  <2>2. CallOK(Idle)
    BY DEF CallOK
  <2>3. CallsOK'
    BY <1>2, <2>1, <2>2, CallsOne DEF PolicyInv
  <2> QED BY <1>2, <2>3, CountsUp, OnlyCalls DEF PolicyInv
<1> QED BY <1>3, <1>4

(* A failed call is over.                                                  *)
LEMMA CallFailsStep ==
    ASSUME PolicyInv, NEW h \in Handlers, CallFails(h)
    PROVE  PolicyStep
<1>1. calls' = [calls EXCEPT ![h] = Idle]
      /\ UNCHANGED <<attributes, templates, policies, opened, changes>>
  BY DEF CallFails
<1>2. CallOK(Idle)
  BY DEF CallOK
<1>3. CallsOK'
  BY <1>1, <1>2, CallsOne DEF PolicyInv
<1> QED BY <1>1, <1>3, CountsUp, OnlyCalls DEF PolicyInv

(* A value of the tenant that changes moves the dictionary of the          *)
(* policies.                                                               *)
LEMMA TenantValueStep ==
    ASSUME PolicyInv, NEW pair, TenantValueChanges(pair)
    PROVE  PolicyStep
<1>1. calls' = Moved("policy") /\ UNCHANGED <<attributes, templates, policies>>
  BY DEF TenantValueChanges
<1>2. CallsOK'
  <2>1. IsTable(calls, Handlers)'
    BY <1>1, MovedTable DEF IsTable
  <2> QED BY <1>1, <2>1, CallsMove DEF PolicyInv
<1>3. changes' \in 0..MaxChanges
  BY CountsUp DEF TenantValueChanges, PolicyInv
<1> QED BY <1>1, <1>2, <1>3, OnlyCalls

-----------------------------------------------------------------------------
(* Saves and deletions.                                                    *)
StoredAs(table, ids, c, n) ==
    /\ n \in ids
    /\ Stored(table, c) = With(table, ids, n, c.row)
    /\ table[n].state = "deleted" => n = c.id /\ c.found.state = "live"

(* A validated document is inserted where no row was or saved over the one *)
(* that was found; over a deleted one only if it was found before.         *)
LEMMA Storing ==
    ASSUME NEW ids, ids \subseteq Nat, NEW table, DocumentsOK(table, ids),
           NEW c, DocumentCall(c), ids = IdsOf(c.op), c.found = Absent => HasRoom(table)
    PROVE  \E n : StoredAs(table, ids, c, n)
<1>1. IsTable(table, ids)
  BY DEF DocumentsOK
<1>2. CASE c.found = Absent
  <2> DEFINE row == c.row
  <2>1. HasRoom(table) /\ Stored(table, c) = Insert(table, row)
    BY <1>2 DEF Stored
  <2> HIDE DEF row
  <2>2. PICK n \in ids : table[n] = Absent /\ Insert(table, row) = With(table, ids, n, row)
    BY <1>1, <2>1, Inserted
  <2>3. table[n].state # "deleted"
    BY <2>2, AbsentIsNoRow
  <2> QED BY <2>1, <2>2, <2>3 DEF StoredAs, row
<1>3. CASE c.found # Absent
  <2>1. c.found.state = "live" /\ c.id \in ids
    BY <1>3 DEF DocumentCall
  <2>2. Stored(table, c) = With(table, ids, c.id, c.row)
    BY <1>1, <1>3, Saved DEF Stored
  <2> QED BY <2>1, <2>2 DEF StoredAs
<1> QED BY <1>2, <1>3

(* The template that is saved was validated with the attributes of now, or *)
(* the dictionary has moved since (SaveTemplate).                          *)
LEMMA SaveTemplateStep ==
    ASSUME PolicyInv, NEW h \in Handlers, SaveTemplate(h)
    PROVE  PolicyStep
<1> DEFINE c == calls[h]
<1>1. DocumentCall(c) /\ StillOpen(c) /\ c.op = "template" /\ c.step = "valid"
  BY CallsTyped DEF SaveTemplate, Busy, PolicyInv, CallsOK, CallOK, Idle
<1>2. Sound(c.row.tree) /\ DocumentRow(c.row) /\ c.moved \in BOOLEAN
  BY <1>1 DEF DocumentCall
<1>3. /\ templates' = Stored(templates, c) /\ calls' = [calls EXCEPT ![h] = Idle]
      /\ UNCHANGED <<attributes, policies, opened, changes>>
      /\ c.found = Absent => HasRoom(templates)
  BY DEF SaveTemplate
<1>4. DocumentsOK(templates, TemplateIds) /\ IsTable(templates, TemplateIds)
  BY DEF PolicyInv, DocumentsOK
<1>5. TemplateIds \subseteq Nat /\ TemplateIds = IdsOf(c.op)
  BY <1>1, AccessPolicyAssumption DEF IdsOf
<1> HIDE DEF c
<1>6. PICK n : StoredAs(templates, TemplateIds, c, n)
  BY <1>1, <1>3, <1>4, <1>5, Storing
<1>7. templates' = With(templates, TemplateIds, n, c.row) /\ n \in TemplateIds
  BY <1>3, <1>6 DEF StoredAs
<1>8. DocumentsOK(templates, TemplateIds)'
  <2>1. DocumentsOK(templates', TemplateIds)
    BY <1>2, <1>4, <1>7, PutDocument
  <2> QED BY <2>1 DEF DocumentsOK, IsTable
<1>9. \A id \in Returns(templates, templates') : Overlaps("template", id)
  <2>1. Returns(templates, templates') \subseteq {n}
    BY <1>4, <1>7, Put
  <2>2. CASE templates[n].state # "deleted"
    BY <1>4, <1>7, <2>2, Put
  <2>3. CASE templates[n].state = "deleted"
    <3>1. n = c.id /\ c.found.state = "live"
      BY <1>6, <2>3 DEF StoredAs
    <3> QED BY <1>1, <2>1, <3>1 DEF Overlaps, c
  <2> QED BY <2>2, <2>3
<1>10. \A id \in Written(templates, templates') :
         \/ OpenTree(templates'[id].tree, platformAttributeMetas(attributes'))
         \/ DictionaryMoved("template", calls')
  <2>1. Written(templates, templates') \subseteq {n} /\ templates'[n] = c.row
    BY <1>4, <1>7, Put
  <2>2. CASE c.moved
    <3>1. calls'[h] = Idle
      BY <1>3 DEF PolicyInv, CallsOK, IsTable
    <3>2. DictionaryMoved("template", calls')
      BY <1>1, <2>2, <3>1 DEF DictionaryMoved, c
    <3> QED BY <3>2
  <2>3. CASE ~c.moved
    <3>1. OpenTree(c.row.tree, platformAttributeMetas(attributes))
      BY <1>1, <2>3 DEF StillOpen, enabledAttributeMetas
    <3> QED BY <1>3, <2>1, <3>1
  <2> QED BY <2>2, <2>3
<1>11. CallsOK'
  <2>1. CallOK(Idle)
    BY DEF CallOK
  <2> QED BY <1>3, <2>1, CallsOne DEF PolicyInv
<1>12. AttributesOK(attributes)' /\ DocumentsOK(policies, PolicyIds)' /\ (changes \in 0..MaxChanges)'
  BY <1>3 DEF PolicyInv, AttributesOK, DocumentsOK, IsTable
<1>13. Returns(attributes, attributes) = {} /\ Returns(policies, policies) = {}
       /\ Written(policies, policies) = {}
  BY Put DEF PolicyInv, AttributesOK, DocumentsOK
<1> QED BY <1>3, <1>8, <1>9, <1>10, <1>11, <1>12, <1>13
        DEF PolicyStep, PolicyInv, ReturnsOverlap, WritesOpen

(* The same of an access policy and the attributes of the tenant           *)
(* (SaveAccessPolicy).                                                     *)
LEMMA SaveAccessPolicyStep ==
    ASSUME PolicyInv, NEW h \in Handlers, SaveAccessPolicy(h)
    PROVE  PolicyStep
<1> DEFINE c == calls[h]
<1>1. DocumentCall(c) /\ StillOpen(c) /\ c.op = "policy" /\ c.step = "valid"
  BY CallsTyped DEF SaveAccessPolicy, Busy, PolicyInv, CallsOK, CallOK, Idle
<1>2. Sound(c.row.tree) /\ DocumentRow(c.row) /\ c.moved \in BOOLEAN
  BY <1>1 DEF DocumentCall
<1>3. /\ policies' = Stored(policies, c) /\ calls' = [calls EXCEPT ![h] = Idle]
      /\ UNCHANGED <<attributes, templates, opened, changes>>
      /\ c.found = Absent => HasRoom(policies)
  BY DEF SaveAccessPolicy
<1>4. DocumentsOK(policies, PolicyIds) /\ IsTable(policies, PolicyIds)
  BY DEF PolicyInv, DocumentsOK
<1>5. PolicyIds \subseteq Nat /\ PolicyIds = IdsOf(c.op)
  BY <1>1, AccessPolicyAssumption DEF IdsOf
<1> HIDE DEF c
<1>6. PICK n : StoredAs(policies, PolicyIds, c, n)
  BY <1>1, <1>3, <1>4, <1>5, Storing
<1>7. policies' = With(policies, PolicyIds, n, c.row) /\ n \in PolicyIds
  BY <1>3, <1>6 DEF StoredAs
<1>8. DocumentsOK(policies, PolicyIds)'
  <2>1. DocumentsOK(policies', PolicyIds)
    BY <1>2, <1>4, <1>7, PutDocument
  <2> QED BY <2>1 DEF DocumentsOK, IsTable
<1>9. \A id \in Returns(policies, policies') : Overlaps("policy", id)
  <2>1. Returns(policies, policies') \subseteq {n}
    BY <1>4, <1>7, Put
  <2>2. CASE policies[n].state # "deleted"
    BY <1>4, <1>7, <2>2, Put
  <2>3. CASE policies[n].state = "deleted"
    <3>1. n = c.id /\ c.found.state = "live"
      BY <1>6, <2>3 DEF StoredAs
    <3> QED BY <1>1, <2>1, <3>1 DEF Overlaps, c
  <2> QED BY <2>2, <2>3
<1>10. \A id \in Written(policies, policies') :
         \/ OpenTree(policies'[id].tree, tenantAttributeMetas)
         \/ DictionaryMoved("policy", calls')
  <2>1. Written(policies, policies') \subseteq {n} /\ policies'[n] = c.row
    BY <1>4, <1>7, Put
  <2>2. CASE c.moved
    <3>1. calls'[h] = Idle
      BY <1>3 DEF PolicyInv, CallsOK, IsTable
    <3>2. DictionaryMoved("policy", calls')
      BY <1>1, <2>2, <3>1 DEF DictionaryMoved, c
    <3> QED BY <3>2
  <2>3. CASE ~c.moved
    <3>1. OpenTree(c.row.tree, tenantAttributeMetas)
      BY <1>1, <2>3 DEF StillOpen, enabledAttributeMetas
    <3> QED BY <2>1, <3>1
  <2> QED BY <2>2, <2>3
<1>11. CallsOK'
  <2>1. CallOK(Idle)
    BY DEF CallOK
  <2> QED BY <1>3, <2>1, CallsOne DEF PolicyInv
<1>12. AttributesOK(attributes)' /\ DocumentsOK(templates, TemplateIds)' /\ (changes \in 0..MaxChanges)'
  BY <1>3 DEF PolicyInv, AttributesOK, DocumentsOK, IsTable
<1>13. Returns(attributes, attributes) = {} /\ Returns(templates, templates) = {}
       /\ Written(templates, templates) = {}
  BY Put DEF PolicyInv, AttributesOK, DocumentsOK
<1> QED BY <1>3, <1>8, <1>9, <1>10, <1>11, <1>12, <1>13
        DEF PolicyStep, PolicyInv, ReturnsOverlap, WritesOpen

(* A document deleted from its table is neither back nor written.          *)
LEMMA Dropping ==
    ASSUME NEW ids, NEW table, DocumentsOK(table, ids), NEW id \in ids, FindDocument(table, id)
    PROVE  /\ DocumentsOK([table EXCEPT ![id].state = "deleted"], ids)
           /\ Returns(table, [table EXCEPT ![id].state = "deleted"]) = {}
           /\ Written(table, [table EXCEPT ![id].state = "deleted"]) = {}
<1> DEFINE row == [table[id] EXCEPT !.state = "deleted"]
<1>1. DocumentRow(table[id]) /\ Sound(table[id].tree)
  BY AbsentIsNoRow DEF DocumentsOK, FindDocument
<1>2. DocumentRow(row) /\ row.tree = table[id].tree /\ row.state = "deleted"
  BY <1>1, Deleted
<1>3. IsTable(table, ids)
  BY DEF DocumentsOK
<1>4. [table EXCEPT ![id].state = "deleted"] = With(table, ids, id, row)
  BY <1>3 DEF IsTable, With
<1> HIDE DEF row
<1>5. DocumentsOK(With(table, ids, id, row), ids)
  BY <1>1, <1>2, PutDocument
<1>6. Returns(table, With(table, ids, id, row)) = {} /\ Written(table, With(table, ids, id, row)) = {}
  BY <1>2, <1>3, Put
<1> QED BY <1>4, <1>5, <1>6

(* Deleting a template writes no tree (DeleteTemplate).                    *)
LEMMA DeleteTemplateStep ==
    ASSUME PolicyInv, NEW id \in TemplateIds, DeleteTemplate(id)
    PROVE  PolicyStep
<1>1. UNCHANGED <<attributes, policies, opened, calls>> /\ DocumentsOK(templates, TemplateIds)
  BY DEF DeleteTemplate, PolicyInv
<1>2. /\ DocumentsOK(templates', TemplateIds)
      /\ Returns(templates, templates') = {} /\ Written(templates, templates') = {}
  BY <1>1, Dropping DEF DeleteTemplate
<1>3. DocumentsOK(templates, TemplateIds)'
  BY <1>2 DEF DocumentsOK, IsTable
<1>4. AttributesOK(attributes)' /\ DocumentsOK(policies, PolicyIds)'
  BY <1>1 DEF PolicyInv, AttributesOK, DocumentsOK, IsTable
<1>5. CallsOK'
  BY <1>1, CallsStay DEF PolicyInv
<1>6. changes' \in 0..MaxChanges
  BY CountsUp DEF DeleteTemplate, PolicyInv
<1>7. Returns(attributes, attributes) = {} /\ Returns(policies, policies) = {}
      /\ Written(policies, policies) = {}
  BY Put DEF PolicyInv, AttributesOK, DocumentsOK
<1> QED BY <1>1, <1>2, <1>3, <1>4, <1>5, <1>6, <1>7
        DEF PolicyStep, PolicyInv, ReturnsOverlap, WritesOpen

(* Deleting a policy writes no tree (DeleteAccessPolicy).                  *)
LEMMA DeleteAccessPolicyStep ==
    ASSUME PolicyInv, NEW id \in PolicyIds, DeleteAccessPolicy(id)
    PROVE  PolicyStep
<1>1. UNCHANGED <<attributes, templates, opened, calls>> /\ DocumentsOK(policies, PolicyIds)
  BY DEF DeleteAccessPolicy, PolicyInv
<1>2. /\ DocumentsOK(policies', PolicyIds)
      /\ Returns(policies, policies') = {} /\ Written(policies, policies') = {}
  BY <1>1, Dropping DEF DeleteAccessPolicy
<1>3. DocumentsOK(policies, PolicyIds)'
  BY <1>2 DEF DocumentsOK, IsTable
<1>4. AttributesOK(attributes)' /\ DocumentsOK(templates, TemplateIds)'
  BY <1>1 DEF PolicyInv, AttributesOK, DocumentsOK, IsTable
<1>5. CallsOK'
  BY <1>1, CallsStay DEF PolicyInv
<1>6. changes' \in 0..MaxChanges
  BY CountsUp DEF DeleteAccessPolicy, PolicyInv
<1>7. Returns(attributes, attributes) = {} /\ Returns(templates, templates) = {}
      /\ Written(templates, templates) = {}
  BY Put DEF PolicyInv, AttributesOK, DocumentsOK
<1> QED BY <1>1, <1>2, <1>3, <1>4, <1>5, <1>6, <1>7
        DEF PolicyStep, PolicyInv, ReturnsOverlap, WritesOpen

(* A server that starts begins with the demo attributes                    *)
(* (BootstrapDemoPolicyCatalog).                                           *)
LEMMA BootstrapBeginsStep ==
    ASSUME PolicyInv, NEW h \in Handlers, BootstrapBegins(h)
    PROVE  PolicyStep
<1> DEFINE c == [op |-> "demo", step |-> "attributes", created |-> 0]
<1>1. DemoCall(c)
  BY DEF DemoCall
<1>2. calls' = [calls EXCEPT ![h] = c] /\ UNCHANGED <<attributes, templates, policies, opened>>
  BY DEF BootstrapBegins
<1> HIDE DEF c
<1>3. CallOK(c)
  BY <1>1 DEF CallOK
<1>4. CallsOK'
  BY <1>2, <1>3, CallsOne DEF PolicyInv
<1>5. changes' \in 0..MaxChanges
  BY CountsUp DEF BootstrapBegins, PolicyInv
<1> QED BY <1>2, <1>4, <1>5, OnlyCalls

(* A demo attribute is a new row, or is left out (bootstrap.go, the loop   *)
(* over the attributes).                                                   *)
LEMMA BootstrapAttributeStep ==
    ASSUME PolicyInv, NEW h \in Handlers, BootstrapAttribute(h)
    PROVE  PolicyStep
<1> DEFINE c == calls[h]
           d == [op |-> "demo", step |-> "attributes", created |-> c.created + 1]
           input == DemoAttributes[c.created + 1]
           row == Attribute(input)
<1>1. DemoCall(c)
  BY CallsTyped DEF BootstrapAttribute, Busy, PolicyInv, CallsOK, CallOK
<1>2. [c EXCEPT !.created = @ + 1] = d /\ DemoCall(d)
  <2>1. c = [op |-> "demo", step |-> "attributes", created |-> c.created] /\ c.created \in Nat
    BY <1>1 DEF DemoCall
  <2> HIDE DEF c
  <2> QED BY <2>1 DEF DemoCall
<1>3. input.type \in PolicyAttributeTypes
  <2>1. c.created \in Nat /\ c.created < Len(DemoAttributes)
    BY <1>1 DEF DemoCall, BootstrapAttribute
  <2>2. DemoAttributes \in Seq({i \in AttributeInputs : i.type \in PolicyAttributeTypes})
    BY AccessPolicyAssumption
  <2> HIDE DEF c
  <2>3. Len(DemoAttributes) \in Nat
    BY <2>2
  <2>4. c.created + 1 \in 1..Len(DemoAttributes)
    BY <2>1, <2>3
  <2> QED BY <2>2, <2>4
<1>4. /\ UNCHANGED <<templates, policies, opened, changes>>
      /\ \/ attributes' = attributes /\ calls' = [calls EXCEPT ![h] = d]
         \/ /\ HasRoom(attributes) /\ attributes' = Insert(attributes, row)
            /\ calls' = [Moved("template") EXCEPT ![h] = d]
  BY <1>2 DEF BootstrapAttribute
<1>5. AttributeRow(row)
  BY <1>3, Submitted
<1> HIDE DEF c, d, input, row
<1>6. changes' \in 0..MaxChanges
  BY <1>4 DEF PolicyInv
<1>7. CASE attributes' = attributes /\ calls' = [calls EXCEPT ![h] = d]
  <2>1. CallOK(d)
    BY <1>2 DEF CallOK
  <2>2. CallsOK'
    BY <1>4, <1>7, <2>1, CallsOne DEF PolicyInv
  <2> QED BY <1>4, <1>6, <1>7, <2>2, OnlyCalls
<1>8. CASE /\ HasRoom(attributes) /\ attributes' = Insert(attributes, row)
           /\ calls' = [Moved("template") EXCEPT ![h] = d]
  <2>1. IsTable(attributes, AttributeIds) /\ AttributesOK(attributes) /\ AttributeIds \subseteq Nat
    BY AccessPolicyAssumption DEF PolicyInv, AttributesOK
  <2>2. PICK n \in AttributeIds :
           attributes[n] = Absent /\ Insert(attributes, row) = With(attributes, AttributeIds, n, row)
    BY <1>8, <2>1, Inserted
  <2>3. attributes' = With(attributes, AttributeIds, n, row) /\ attributes[n].state # "deleted"
    BY <1>8, <2>2, AbsentIsNoRow
  <2>4. AttributesOK(attributes')
    BY <1>5, <2>1, <2>3, PutAttribute
  <2>5. Returns(attributes, attributes') = {}
    BY <2>1, <2>3, Put
  <2>6. IsTable(calls, Handlers)'
        /\ \A k \in Handlers : DemoCall(calls'[k]) \/ calls'[k] = Moved("template")[k]
    <3>1. IsTable(Moved("template"), Handlers)
      BY MovedTable
    <3> DEFINE m == Moved("template")
    <3> HIDE DEF m
    <3> QED BY <1>2, <1>8, <3>1 DEF IsTable, m
  <2>7. CallsOK'
    BY <1>4, <2>6, CallsMove DEF PolicyInv
  <2> QED BY <1>4, <1>6, <2>4, <2>5, <2>7, OnlyAttributes
<1> QED BY <1>4, <1>7, <1>8

(* The demo template goes the way of any template that is created.         *)
LEMMA BootstrapTemplateStep ==
    ASSUME PolicyInv, NEW h \in Handlers, BootstrapTemplate(h)
    PROVE  PolicyStep
<1> DEFINE row == Document(DemoInput)
           c == [op |-> "template", step |-> "found", id |-> 0, found |-> Absent,
                 row |-> row, moved |-> FALSE]
<1>1. UNCHANGED <<attributes, templates, policies, opened, changes>>
  BY DEF BootstrapTemplate
<1>2. calls' = [calls EXCEPT ![h] = Idle] \/ calls' = [calls EXCEPT ![h] = c]
  BY DEF BootstrapTemplate
<1>3. DocumentRow(row) /\ row.state = "live"
  BY Submitted, AccessPolicyAssumption
<1> HIDE DEF row
<1>4. DocumentCall(c) /\ c.op # "attribute" /\ StillOpen(c)
  BY <1>3 DEF DocumentCall, StillOpen
<1> HIDE DEF c
<1>5. CallOK(c) /\ CallOK(Idle)
  BY <1>4 DEF CallOK
<1>6. CallsOK'
  BY <1>1, <1>2, <1>5, CallsOne DEF PolicyInv
<1> QED BY <1>1, <1>6, CountsUp, OnlyCalls DEF PolicyInv

-----------------------------------------------------------------------------
(* Empty tables and idle handlers are well formed.                         *)
LEMMA PolicyInitially ==
    PolicyInit => PolicyInv
<1> SUFFICES ASSUME PolicyInit PROVE PolicyInv
  OBVIOUS
<1>1. AttributesOK(attributes)
  BY DEF PolicyInit, AttributesOK, IsTable
<1>2. DocumentsOK(templates, TemplateIds) /\ DocumentsOK(policies, PolicyIds)
  BY DEF PolicyInit, DocumentsOK, IsTable
<1>3. CallsOK
  BY DEF PolicyInit, CallsOK, CallOK, IsTable
<1>4. changes \in 0..MaxChanges
  BY AccessPolicyAssumption DEF PolicyInit
<1> QED BY <1>1, <1>2, <1>3, <1>4 DEF PolicyInv

(* Every step keeps the invariant, brings back only what is being updated  *)
(* and writes only trees that are open.                                    *)
LEMMA PolicySteps ==
    PolicyInv /\ [PolicyNext]_policyVars => PolicyStep
<1> SUFFICES ASSUME PolicyInv, [PolicyNext]_policyVars PROVE PolicyStep
  OBVIOUS
<1>1. CASE UNCHANGED policyVars
  <2>1. UNCHANGED <<attributes, templates, policies, opened, calls, changes>>
    BY <1>1 DEF policyVars
  <2>2. CallsOK'
    BY <2>1, CallsStay DEF PolicyInv
  <2> QED BY <2>1, <2>2, OnlyCalls DEF PolicyInv
<1>2. ASSUME NEW input \in AttributeInputs, CreateAttribute(input) PROVE PolicyStep
  BY <1>2, CreateAttributeStep
<1>3. ASSUME NEW id \in AttributeIds, DeleteAttribute(id) PROVE PolicyStep
  BY <1>3, DeleteAttributeStep
<1>4. ASSUME NEW id \in TemplateIds, DeleteTemplate(id) PROVE PolicyStep
  BY <1>4, DeleteTemplateStep
<1>5. ASSUME NEW id \in PolicyIds, DeleteAccessPolicy(id) PROVE PolicyStep
  BY <1>5, DeleteAccessPolicyStep
<1>6. ASSUME NEW h \in Handlers, NEW id \in AttributeIds, NEW input \in AttributeInputs,
             UpdateAttributeFinds(h, id, input)
      PROVE  PolicyStep
  BY <1>6, UpdateAttributeFindsStep
<1>7. ASSUME NEW h \in Handlers, UpdateAttribute(h) PROVE PolicyStep
  BY <1>7, UpdateAttributeStep
<1>8. ASSUME NEW h \in Handlers, NEW input \in DocumentInputs, CreateAccessPolicyBegins(h, input)
      PROVE  PolicyStep
  BY <1>8, BeginStep DEF CreateAccessPolicyBegins
<1>9. ASSUME NEW h \in Handlers, NEW input \in DocumentInputs, CreateTemplateBegins(h, input)
      PROVE  PolicyStep
  BY <1>9, BeginStep DEF CreateTemplateBegins
<1>10. ASSUME NEW h \in Handlers, NEW input \in DocumentInputs, NEW id \in PolicyIds,
              UpdateAccessPolicyFinds(h, id, input)
       PROVE  PolicyStep
  <2>1. /\ policies[id].state = "live" /\ id \in IdsOf("policy")
        /\ Begin(h, "policy", id, policies[id], input)
    BY <1>10 DEF UpdateAccessPolicyFinds, FindDocument, IdsOf
  <2> QED BY <2>1, BeginStep
<1>11. ASSUME NEW h \in Handlers, NEW input \in DocumentInputs, NEW id \in TemplateIds,
              UpdateTemplateFinds(h, id, input)
       PROVE  PolicyStep
  <2>1. /\ templates[id].state = "live" /\ id \in IdsOf("template")
        /\ Begin(h, "template", id, templates[id], input)
    BY <1>11 DEF UpdateTemplateFinds, FindDocument, IdsOf
  <2> QED BY <2>1, BeginStep
<1>12. ASSUME NEW h \in Handlers, validateTreeJSON(h) PROVE PolicyStep
  BY <1>12, ValidateStep
<1>13. ASSUME NEW h \in Handlers, SaveTemplate(h) PROVE PolicyStep
  BY <1>13, SaveTemplateStep
<1>14. ASSUME NEW h \in Handlers, SaveAccessPolicy(h) PROVE PolicyStep
  BY <1>14, SaveAccessPolicyStep
<1>15. ASSUME NEW h \in Handlers, CallFails(h) PROVE PolicyStep
  BY <1>15, CallFailsStep
<1>16. ASSUME NEW pair \in TenantValues, TenantValueChanges(pair) PROVE PolicyStep
  BY <1>16, TenantValueStep
<1>17. ASSUME NEW h \in Handlers, BootstrapBegins(h) PROVE PolicyStep
  BY <1>17, BootstrapBeginsStep
<1>18. ASSUME NEW h \in Handlers, BootstrapAttribute(h) PROVE PolicyStep
  BY <1>18, BootstrapAttributeStep
<1>19. ASSUME NEW h \in Handlers, BootstrapTemplate(h) PROVE PolicyStep
  BY <1>19, BootstrapTemplateStep
<1> QED BY <1>1, <1>2, <1>3, <1>4, <1>5, <1>6, <1>7, <1>8, <1>9, <1>10, <1>11, <1>12,
           <1>13, <1>14, <1>15, <1>16, <1>17, <1>18, <1>19 DEF PolicyNext

(* Stored documents are sound and shown by their expression, and every     *)
(* validated call that was not overtaken has a tree that is open now.      *)
THEOREM PolicyInvariant == PolicySpec => []PolicyInv
<1>1. PolicyInit => PolicyInv
  BY PolicyInitially
<1>2. PolicyInv /\ [PolicyNext]_policyVars => PolicyInv'
  BY PolicySteps DEF PolicyStep
<1> QED BY <1>1, <1>2, PTL DEF PolicySpec

(* The invariant gives what the run checks: rows are of the schema, and    *)
(* expressions of plain trees are read in one way.                         *)
LEMMA PolicyInvImplies == PolicyInv => PolicyTypeOK /\ PlainExpressionsTell
<1> SUFFICES ASSUME PolicyInv PROVE PolicyTypeOK /\ PlainExpressionsTell
  OBVIOUS
<1>1. ASSUME NEW id \in AttributeIds, attributes[id] # Absent
      PROVE  attributes[id].type \in PolicyAttributeTypes
  BY <1>1 DEF PolicyInv, AttributesOK, AttributeRow
<1>2. ASSUME NEW ids, NEW table, DocumentsOK(table, ids), NEW id \in DOMAIN table,
             table[id] # Absent
      PROVE  /\ table[id].tree \in Nodes /\ Sound(table[id].tree)
             /\ table[id].expr = GenerateExpression(table[id].tree)
  BY <1>2 DEF DocumentsOK, IsTable, DocumentRow
<1>3. DocumentsOK(templates, TemplateIds) /\ DocumentsOK(policies, PolicyIds)
  BY DEF PolicyInv
<1>4. ASSUME NEW table \in {templates, policies}, NEW id \in DOMAIN table, table[id] # Absent,
             NEW n \in Parts[table[id].tree], n.type # "LEAF"
      PROVE  Cardinality(DOMAIN n.children) >= 2
  <2>1. table[id].tree \in Nodes /\ Sound(table[id].tree)
    BY <1>2, <1>3, <1>4
  <2>2. n \in Nodes /\ Len(n.children) >= 2
    BY <1>4, <2>1, PartsIs DEF Sound
  <2> QED BY <2>2, EnoughChildren
<1>5. \A h \in Handlers : calls[h].op \in {"idle", "attribute", "template", "policy", "demo"}
  BY CallsTyped DEF PolicyInv, CallsOK, CallOK
<1>6. PolicyTypeOK
  BY <1>1, <1>4, <1>5 DEF PolicyTypeOK, PolicyInv
<1>7. PlainExpressionsTell
  <2>1. \A p \in LiveRows : /\ p.tree \in Nodes /\ Sound(p.tree)
                            /\ p.expr = GenerateExpression(p.tree)
    BY <1>2, <1>3, AbsentIsNoRow DEF LiveRows, Live
  <2>2. ASSUME NEW p \in LiveRows, NEW q \in LiveRows, p.expr = q.expr,
               Plain(p.tree), Plain(q.tree), NEW S
        PROVE  Satisfied(p.tree, S) = Satisfied(q.tree, S)
    BY <2>1, <2>2, ExpressionTells
  <2> QED BY <2>2 DEF PlainExpressionsTell, SameExpressionSamePeople
<1> QED BY <1>6, <1>7

(* No AND or OR over fewer than two conditions is stored, at whatever      *)
(* depth (validator.go:36).                                                *)
THEOREM PolicyTypesStay == PolicySpec => []PolicyTypeOK
BY PolicyInvariant, PolicyInvImplies, PTL

(* Two rows with one expression admit the same people, if no value in them *)
(* has a quotation mark and no attribute code is written "belongs_to"      *)
(* (expression.go).                                                        *)
THEOREM PlainExpressionsStayTold == PolicySpec => []PlainExpressionsTell
BY PolicyInvariant, PolicyInvImplies, PTL

(* A deleted attribute, template or policy returns only when an update     *)
(* that had found it before saves it (policy_repository.go, Save).         *)
THEOREM DeletedStayAwayUnlessOverlapped == PolicySpec => DeletedReturnsOnlyByOverlap
<1>1. PolicyInv /\ [PolicyNext]_policyVars => [ReturnsOverlap]_policyVars
  BY PolicySteps DEF PolicyStep
<1>2. DeletedReturnsOnlyByOverlap <=> [][ReturnsOverlap]_policyVars
  BY PTL DEF DeletedReturnsOnlyByOverlap, ReturnsOverlap
<1> QED BY <1>1, <1>2, PolicyInvariant, PTL DEF PolicySpec

(* Whatever tree is written uses attributes and values that are open then, *)
(* unless the dictionary changed during the call (policy_service.go,       *)
(* validateTreeJSON before the write).                                     *)
THEOREM WrittenTreesStayOpen == PolicySpec => WrittenTreesAreOpen
<1>1. PolicyInv /\ [PolicyNext]_policyVars => [WritesOpen]_policyVars
  BY PolicySteps DEF PolicyStep
<1>2. WrittenTreesAreOpen <=> [][WritesOpen]_policyVars
  BY PTL DEF WrittenTreesAreOpen, WritesOpen
<1> QED BY <1>1, <1>2, PolicyInvariant, PTL DEF PolicySpec

=============================================================================
