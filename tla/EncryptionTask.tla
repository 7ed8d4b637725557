---------------------------- MODULE EncryptionTask ----------------------------
(***************************************************************************)
(* The encryption tasks of one owner in one tenant: EncryptionService on   *)
(* top of GormEncryptionRepository (MySQL), EncryptionAdmission (Redis)    *)
(* and LocalEncryptedFileStorage (disk), beside the cleaner of module      *)
(* OrphanCleanup.                                                          *)
(*                                                                         *)
(* A request runs in a handler. The three stores are not one transaction,  *)
(* so a handler is a sequence of atomic steps, one per store access that   *)
(* changes something or whose answer is used later, and other handlers,    *)
(* the cleaner, a TTL or a crash may come between two of them. A           *)
(* transaction that locks the task row is one step. Requests name any      *)
(* attempt of their task, current or not: clients repeat and delay them.   *)
(*                                                                         *)
(* Abstracted: the uploaded bytes, their size and digest (they decide the  *)
(* answer to a repeated upload, never the state), processed_bytes, the     *)
(* protected keys (a request here carries the keys the frozen snapshot     *)
(* asks for), benchmarks, failure codes and the rate limiter, which only   *)
(* refuses.                                                                *)
(***************************************************************************)
EXTENDS OrphanCleanup

CONSTANTS Tasks,           \* idempotency keys, one task (and one file) for each
          AttemptIds,      \* UUIDs: attempts, and the leases named after them
          Handlers,        \* requests served at the same time
          MaxConcurrent,   \* concurrency leases of the tenant
          ReportedStages   \* the stages clients report in this instance

ProgressStage == {"PENDING", "VALIDATING", "ENCRYPTING_FILE", "PROTECTING_KEY",
                  "UPLOADING", "SAVING_METADATA"}
Terminal == {"COMPLETED", "FAILED", "CANCELLED"}

ASSUME TaskAssumption ==
    /\ MaxConcurrent \in Nat \ {0}
    /\ ReportedStages \subseteq ProgressStage
    /\ Nil \notin Tasks \cup AttemptIds

VARIABLES task,     \* encryption_tasks, by idempotency key
          attempt,  \* encryption_task_attempts, by public id
          file,     \* the status column of encrypted_files, by task
          object,   \* ciphertext_objects, by attempt (uk_ciphertext_objects_attempt)
          lastRow,  \* AUTO_INCREMENT of ciphertext_objects
          lease,    \* members of the Redis set enc:leases:tenant
          req       \* the local state of each handler

serviceVars == <<task, attempt, file, object, lastRow, lease, req>>
vars == <<blob, orphan, cleaner, task, attempt, file, object, lastRow, lease, req>>

NoRow == "ABSENT"
TaskRow == [status : ProgressStage \cup Terminal \cup {NoRow},
            current : Nat, retryable : BOOLEAN]
AttemptRow == [task : Tasks \cup {Nil}, no : Nat,
               status : ProgressStage \cup Terminal \cup {NoRow}]
ObjectRow == [status : {NoRow, "STAGING", "AVAILABLE"}, name : Names \cup {Nil}, row : Nat]
Request == [pc : {"idle", "create", "saveStaging", "discard", "commit", "complete",
                  "orphan", "cancel", "retry", "release"},
            task : Tasks \cup {Nil}, att : AttemptIds \cup {Nil},
            obj : AttemptIds \cup {Nil}, name : Names \cup {Nil}]

TypeOK ==
    /\ CleanupTypeOK
    /\ task \in [Tasks -> TaskRow]
    /\ attempt \in [AttemptIds -> AttemptRow]
    /\ file \in [Tasks -> {NoRow, "DRAFT", "AVAILABLE", "FAILED", "CANCELLED"}]
    /\ object \in [AttemptIds -> ObjectRow]
    /\ lastRow \in Nat
    /\ lease \in SUBSET AttemptIds
    /\ req \in [Handlers -> Request]

Idle == [pc |-> "idle", task |-> Nil, att |-> Nil, obj |-> Nil, name |-> Nil]

Init ==
    /\ CleanupInit
    /\ task = [k \in Tasks |-> [status |-> NoRow, current |-> 0, retryable |-> FALSE]]
    /\ attempt = [a \in AttemptIds |-> [task |-> Nil, no |-> 0, status |-> NoRow]]
    /\ file = [k \in Tasks |-> NoRow]
    /\ object = [a \in AttemptIds |-> [status |-> NoRow, name |-> Nil, row |-> 0]]
    /\ lastRow = 0
    /\ lease = {}
    /\ req = [h \in Handlers |-> Idle]

-----------------------------------------------------------------------------
(* Handler bookkeeping. *)
Begin(h, r) == req[h].pc = "idle" /\ req' = [req EXCEPT ![h] = r]
GoTo(h, pc) == req' = [req EXCEPT ![h].pc = pc]
Return(h) == req' = [req EXCEPT ![h] = Idle]

(* A commit whose answer is lost: the transaction is durable and the       *)
(* repository returns an error all the same.                               *)
AmbiguousCommit == "ambiguous_commit" \in Faults

AttemptsOf(k) == {a \in AttemptIds : attempt[a].task = k}
IsCurrent(k, a) == a \in AttemptsOf(k) /\ attempt[a].no = task[k].current
Live(k) == task[k].status \in ProgressStage

(* NewUUID: an id that is nowhere in use. *)
FreshId(a) ==
    /\ attempt[a].status = NoRow
    /\ a \notin lease
    /\ \A h \in Handlers : req[h].att # a

-----------------------------------------------------------------------------
(* EncryptionAdmission: concurrencyLeaseScript runs atomically in Redis.   *)
(* A refused or failed Acquire ends the request before it did anything.    *)
Acquire(a) ==
    /\ Cardinality(lease) < MaxConcurrent
    /\ lease' = lease \cup {a}

Release(h) ==
    /\ req[h].pc = "release"
    /\ lease' = lease \ {req[h].att}
    /\ Return(h)
    /\ UNCHANGED <<cleanupVars, task, attempt, file, object, lastRow>>

(* The lease TTL runs out (ZREMRANGEBYSCORE of a later Acquire); nothing   *)
(* in the service calls Renew while a task is being worked on.             *)
LeaseExpires(a) ==
    /\ a \in lease
    /\ lease' = lease \ {a}
    /\ UNCHANGED <<cleanupVars, task, attempt, file, object, lastRow, req>>

-----------------------------------------------------------------------------
(* CreateTask. *)
CreateTask(h, k, a) ==
    /\ FreshId(a)
    /\ Acquire(a)
    /\ Begin(h, [Idle EXCEPT !.pc = "create", !.task = k, !.att = a])
    /\ UNCHANGED <<cleanupVars, task, attempt, file, object, lastRow>>

(* The transaction finds the idempotency key taken and changes nothing, or *)
(* fails (also on the unique key, when two creations race), or creates     *)
(* draft file, task and first attempt together. An error and a replay both *)
(* release the lease this request took.                                    *)
CreateTaskTx(h) ==
    LET r == req[h] IN
    /\ r.pc = "create"
    /\ \/ /\ task[r.task].status = NoRow
          /\ task' = [task EXCEPT ![r.task] =
                         [status |-> "PENDING", current |-> 1, retryable |-> FALSE]]
          /\ attempt' = [attempt EXCEPT ![r.att] =
                            [task |-> r.task, no |-> 1, status |-> "PENDING"]]
          /\ file' = [file EXCEPT ![r.task] = "DRAFT"]
          /\ Return(h) \/ (AmbiguousCommit /\ GoTo(h, "release"))
       \/ /\ GoTo(h, "release")
          /\ UNCHANGED <<task, attempt, file>>
    /\ UNCHANGED <<cleanupVars, object, lastRow, lease>>

-----------------------------------------------------------------------------
(* ReportProgress: UpdateProgress locks the task row and the attempt row.  *)
(* The attempt named need not be the current one.                          *)
StageOrder == [PENDING |-> 0, VALIDATING |-> 1, ENCRYPTING_FILE |-> 2,
               PROTECTING_KEY |-> 3, UPLOADING |-> 4, SAVING_METADATA |-> 5]

ValidProgressTransition(from, to) ==
    /\ from \in ProgressStage
    /\ StageOrder[to] \in {StageOrder[from], StageOrder[from] + 1}

ReportProgress(k, a, stage) ==
    /\ Live(k)
    /\ a \in AttemptsOf(k)
    /\ ValidProgressTransition(attempt[a].status, stage)
    /\ attempt' = [attempt EXCEPT ![a].status = stage]
    /\ task' = [task EXCEPT ![k].status = stage]
    /\ UNCHANGED <<cleanupVars, file, object, lastRow, lease, req>>

-----------------------------------------------------------------------------
(* UploadCiphertext. Status of task and attempt are not looked at. An      *)
(* attempt that already has a STAGING object is answered from that row.    *)
(* Otherwise the body is streamed into a staging file of a fresh name; a   *)
(* stream that fails or has the wrong digest or size removes its file.     *)
UploadCiphertext(h, k, a, n) ==
    /\ a \in AttemptsOf(k)
    /\ object[a].status # "STAGING"
    /\ blob[n] = "unused"
    /\ blob' = [blob EXCEPT ![n] = "staging"]
    /\ Begin(h, [Idle EXCEPT !.pc = "saveStaging", !.task = k, !.att = a, !.name = n])
    /\ UNCHANGED <<orphan, cleaner, task, attempt, file, object, lastRow, lease>>

(* SaveStagingObject: one INSERT, refused when the attempt already has a   *)
(* row. On any error the handler goes on to delete its own file.           *)
SaveStagingObject(h) ==
    LET r == req[h] IN
    /\ r.pc = "saveStaging"
    /\ \/ /\ object[r.att].status = NoRow
          /\ object' = [object EXCEPT ![r.att] =
                           [status |-> "STAGING", name |-> r.name, row |-> lastRow + 1]]
          /\ lastRow' = lastRow + 1
          /\ Return(h) \/ (AmbiguousCommit /\ GoTo(h, "discard"))
       \/ GoTo(h, "discard") /\ UNCHANGED <<object, lastRow>>
    /\ UNCHANGED <<cleanupVars, task, attempt, file, lease>>

(* DeleteCiphertext of the staging key the loser wrote, which is absent    *)
(* when the file has been renamed meanwhile; the row of the winner, if     *)
(* any, is then read again and decides the answer only.                    *)
DiscardUpload(h) ==
    LET n == req[h].name IN
    /\ req[h].pc = "discard"
    /\ blob' = IF blob[n] = "staging" THEN [blob EXCEPT ![n] = "gone"] ELSE blob
    /\ Return(h)
    /\ UNCHANGED <<orphan, cleaner, task, attempt, file, object, lastRow, lease>>

-----------------------------------------------------------------------------
(* Complete. The object the client names must be the newest of the task,   *)
(* whichever attempt it belongs to (FindOwnedFile).                        *)
IsLatestObject(k, b) ==
    /\ b \in AttemptsOf(k)
    /\ object[b].status # NoRow
    /\ \A c \in AttemptsOf(k) : object[c].row <= object[b].row

Complete(h, k, a, b) ==
    /\ task[k].status \notin {NoRow, "COMPLETED"}
    /\ a \in AttemptsOf(k)
    /\ IsLatestObject(k, b)
    /\ object[b].status = "STAGING"
    /\ Begin(h, [pc |-> "commit", task |-> k, att |-> a, obj |-> b,
                 name |-> object[b].name])
    /\ UNCHANGED <<cleanupVars, task, attempt, file, object, lastRow, lease>>

(* CommitCiphertext renames the staging file into the final directory      *)
(* before the database knows; a missing file ends the request.             *)
CommitCiphertextRegistering(h) ==
    LET n == req[h].name IN
    /\ req[h].pc = "commit"
    /\ blob[n] = "staging"
    /\ blob' = [blob EXCEPT ![n] = "final"]
    /\ RegisterOrphan(n)
    /\ GoTo(h, "complete")
    /\ UNCHANGED <<cleaner, task, attempt, file, object, lastRow, lease>>

CommitCiphertext(h) ==
    LET n == req[h].name IN
    /\ req[h].pc = "commit"
    /\ \/ /\ blob[n] = "staging"
          /\ blob' = [blob EXCEPT ![n] = "final"]
          /\ GoTo(h, "complete")
       \/ blob[n] # "staging" /\ Return(h) /\ UNCHANGED blob
    /\ UNCHANGED <<orphan, cleaner, task, attempt, file, object, lastRow, lease>>

(* The completing transaction accepts any attempt of a live task that owns *)
(* the STAGING object; the status of the attempt is not looked at.         *)
CompletionAcceptedAnyObject(r) ==
    /\ Live(r.task)
    /\ r.att \in AttemptsOf(r.task)
    /\ object[r.obj].status = "STAGING"

CompletionAccepted(r) ==
    /\ Live(r.task)
    /\ r.att \in AttemptsOf(r.task)
    /\ r.obj = r.att
    /\ object[r.obj].status = "STAGING"

CompleteTx(h) ==
    LET r == req[h] IN
    /\ r.pc = "complete"
    /\ \/ /\ CompletionAccepted(r)
          /\ object' = [object EXCEPT ![r.obj].status = "AVAILABLE", ![r.obj].name = r.name]
          /\ file' = [file EXCEPT ![r.task] = "AVAILABLE"]
          /\ attempt' = [attempt EXCEPT ![r.att].status = "COMPLETED"]
          /\ task' = [task EXCEPT ![r.task].status = "COMPLETED",
                                  ![r.task].retryable = FALSE]
          /\ GoTo(h, "release") \/ (AmbiguousCommit /\ GoTo(h, "orphan"))
       \/ /\ task[r.task].status = "COMPLETED"      \* idempotent answer
          /\ GoTo(h, "release")
          /\ UNCHANGED <<task, attempt, file, object>>
       \/ /\ GoTo(h, "orphan")                      \* conflict or rolled back
          /\ UNCHANGED <<task, attempt, file, object>>
    /\ UNCHANGED <<cleanupVars, lastRow, lease>>

(* After a failed transaction the final key is registered; the error of    *)
(* that write is ignored (it runs under the context that just failed).     *)
RegisterFailedCompletion(h) ==
    /\ req[h].pc = "orphan"
    /\ RegisterOrphan(req[h].name) \/ ("orphan_error" \in Faults /\ UNCHANGED orphan)
    /\ Return(h)
    /\ UNCHANGED <<blob, cleaner, task, attempt, file, object, lastRow, lease>>

-----------------------------------------------------------------------------
(* MarkTerminal on a live task: task, the attempt named and the file move  *)
(* together. The attempt need not be current, nor still live.              *)
MarkTerminalAlways(k, a, status, retryable) ==
    /\ a \in AttemptsOf(k)
    /\ attempt' = [attempt EXCEPT ![a].status = status]
    /\ task' = [task EXCEPT ![k].status = status, ![k].retryable = retryable]
    /\ file' = [file EXCEPT ![k] = status]

MarkTerminal(k, a, status, retryable) ==
    /\ Live(k)
    /\ a \in AttemptsOf(k)
    /\ attempt' = [attempt EXCEPT ![a].status = status]
    /\ task' = [task EXCEPT ![k].status = status, ![k].retryable = retryable]
    /\ file' = [file EXCEPT ![k] = status]

(* Fail: the client names the attempt. A task that is FAILED already is    *)
(* reported as success without a change, and the lease is released too.    *)
Fail(h, k, a, retryable) ==
    /\ a \in AttemptsOf(k)
    /\ Begin(h, [Idle EXCEPT !.pc = "release", !.task = k, !.att = a])
    /\ \/ MarkTerminal(k, a, "FAILED", retryable)
       \/ task[k].status = "FAILED" /\ UNCHANGED <<task, attempt, file>>
    /\ UNCHANGED <<cleanupVars, object, lastRow, lease>>

(* A Fail whose commit answer is lost keeps the lease. *)
FailUnanswered(k, a, retryable) ==
    /\ AmbiguousCommit
    /\ MarkTerminal(k, a, "FAILED", retryable)
    /\ UNCHANGED <<cleanupVars, object, lastRow, lease, req>>

(* Cancel reads the current attempt first and marks it terminal later. *)
Cancel(h, k, a) ==
    /\ task[k].status \notin {NoRow, "CANCELLED"}
    /\ IsCurrent(k, a)
    /\ Begin(h, [Idle EXCEPT !.pc = "cancel", !.task = k, !.att = a])
    /\ UNCHANGED <<cleanupVars, task, attempt, file, object, lastRow, lease>>

CancelTx(h) ==
    LET r == req[h] IN
    /\ r.pc = "cancel"
    /\ \/ /\ MarkTerminal(r.task, r.att, "CANCELLED", FALSE)
          /\ GoTo(h, "release") \/ (AmbiguousCommit /\ Return(h))
       \/ /\ task[r.task].status = "CANCELLED"
          /\ GoTo(h, "release")
          /\ UNCHANGED <<task, attempt, file>>
       \/ /\ Return(h)                              \* conflict or rolled back
          /\ UNCHANGED <<task, attempt, file>>
    /\ UNCHANGED <<cleanupVars, object, lastRow, lease>>

-----------------------------------------------------------------------------
(* Retry takes a lease for the new attempt, then CreateRetry checks the    *)
(* locked task and adds the attempt with the next number.                  *)
Retry(h, k, a) ==
    /\ task[k].status # NoRow
    /\ FreshId(a)
    /\ Acquire(a)
    /\ Begin(h, [Idle EXCEPT !.pc = "retry", !.task = k, !.att = a])
    /\ UNCHANGED <<cleanupVars, task, attempt, file, object, lastRow>>

NextAttemptNoReused(k) == task[k].current
NextAttemptNo(k) == task[k].current + 1

CreateRetryTx(h) ==
    LET r == req[h]
        next == NextAttemptNo(r.task) IN
    /\ r.pc = "retry"
    /\ \/ /\ task[r.task].status = "FAILED"
          /\ task[r.task].retryable
          /\ attempt' = [attempt EXCEPT ![r.att] =
                            [task |-> r.task, no |-> next, status |-> "PENDING"]]
          /\ task' = [task EXCEPT ![r.task] =
                         [status |-> "PENDING", current |-> next, retryable |-> FALSE]]
          /\ file' = [file EXCEPT ![r.task] = "DRAFT"]
          /\ Return(h) \/ (AmbiguousCommit /\ GoTo(h, "release"))
       \/ /\ GoTo(h, "release")                     \* rejected or rolled back
          /\ UNCHANGED <<task, attempt, file>>
    /\ UNCHANGED <<cleanupVars, object, lastRow, lease>>

-----------------------------------------------------------------------------
(* The server dies, or the client goes away, between two steps. *)
HandlerCrash(h) ==
    /\ "crash" \in Faults
    /\ req[h].pc # "idle"
    /\ Return(h)
    /\ UNCHANGED <<cleanupVars, task, attempt, file, object, lastRow, lease>>

HandlerStep(h) ==
    \/ CreateTaskTx(h)
    \/ SaveStagingObject(h)
    \/ DiscardUpload(h)
    \/ CommitCiphertext(h)
    \/ CompleteTx(h)
    \/ RegisterFailedCompletion(h)
    \/ CancelTx(h)
    \/ CreateRetryTx(h)
    \/ Release(h)
    \/ HandlerCrash(h)

RequestArrives(h, k, a) ==
    \/ CreateTask(h, k, a)
    \/ \E n \in Names : UploadCiphertext(h, k, a, n)
    \/ \E b \in AttemptIds : Complete(h, k, a, b)
    \/ \E retryable \in BOOLEAN : Fail(h, k, a, retryable)
    \/ Cancel(h, k, a)
    \/ Retry(h, k, a)

Next ==
    \/ \E h \in Handlers : HandlerStep(h)
    \/ \E h \in Handlers, k \in Tasks, a \in AttemptIds : RequestArrives(h, k, a)
    \/ \E k \in Tasks, a \in AttemptIds, s \in ReportedStages : ReportProgress(k, a, s)
    \/ \E k \in Tasks, a \in AttemptIds, rt \in BOOLEAN : FailUnanswered(k, a, rt)
    \/ \E a \in AttemptIds : LeaseExpires(a)
    \/ \E c \in Cleaners : CleanerStep(c) /\ UNCHANGED serviceVars

Spec == Init /\ [][Next]_vars

-----------------------------------------------------------------------------
(* The result of a task appears everywhere at once and only once: a task   *)
(* is COMPLETED exactly when its file is AVAILABLE, exactly when one of    *)
(* its attempts is COMPLETED and owns the one AVAILABLE object, however    *)
(* completions, failures, cancellations and retries race and whatever      *)
(* fails (repository Complete and MarkTerminal).                           *)
CompletionAtomic ==
    /\ \A k \in Tasks :
          /\ task[k].status = "COMPLETED" <=> file[k] = "AVAILABLE"
          /\ file[k] = "AVAILABLE" <=>
                \E a \in AttemptsOf(k) : attempt[a].status = "COMPLETED"
          /\ \A a, b \in AttemptsOf(k) :
                attempt[a].status = "COMPLETED" /\ attempt[b].status = "COMPLETED"
                    => a = b
    /\ \A a \in AttemptIds :
          attempt[a].status = "COMPLETED" <=> object[a].status = "AVAILABLE"

(* Retries number the attempts of a task 1, 2, ... without a gap or a      *)
(* repetition, and current_attempt_no is the last of them, even when       *)
(* several retries race (CreateRetry).                                     *)
AttemptsNumbered ==
    \A k \in Tasks :
        /\ {attempt[a].no : a \in AttemptsOf(k)} = 1..task[k].current
        /\ \A a, b \in AttemptsOf(k) : attempt[a].no = attempt[b].no => a = b

(* The status of a task is never made up: some attempt of it has the very  *)
(* same status (every transaction writes both).                            *)
TaskReflectsAttempt ==
    \A k \in Tasks : task[k].status # NoRow =>
        \E a \in AttemptsOf(k) : attempt[a].status = task[k].status

(* The tables are well formed, their attempts numbered, and the status of  *)
(* every task is one that an attempt of it has.                            *)
TaskTablesOK == TypeOK /\ AttemptsNumbered /\ TaskReflectsAttempt

(* COMPLETED and CANCELLED are for ever, for the task and for its file,    *)
(* and a FAILED task comes back only by a retry that was allowed and that  *)
(* opened a new attempt.                                                   *)
TerminalIsFinal ==
    [][\A k \in Tasks :
          /\ task[k].status \in {"COMPLETED", "CANCELLED"} =>
                task'[k] = task[k] /\ file'[k] = file[k]
          /\ task[k].status = "FAILED" /\ task'[k] # task[k] =>
                /\ task[k].retryable
                /\ task'[k].status = "PENDING"
                /\ task'[k].current > task[k].current
      ]_<<task, file>>

(* A file that is offered for download can be read: its bytes are in the   *)
(* final directory (EncryptedFileAvailable, domain/encrypted_file.go:11).  *)
AvailableFileReadable ==
    \A a \in AttemptIds :
        object[a].status = "AVAILABLE" => blob[object[a].name] = "final"

(* The cleaner never has a claim on the bytes of an available file: their  *)
(* key is not in the table of orphans, so no later run can delete them.    *)
OrphanNeverLive ==
    \A a \in AttemptIds :
        object[a].status = "AVAILABLE" => orphan[object[a].name] = "NONE"

=============================================================================
