---------------------------- MODULE OrphanCleanup ----------------------------
(***************************************************************************)
(* The compensating cleaner of the ciphertext store: the table             *)
(* orphan_storage_objects, the files on disk, and the processes of         *)
(* cmd/cleanup that run OrphanCleanupService.Run.                          *)
(*                                                                         *)
(* A file is known by its random name (secureObjectName): the staging key  *)
(* ".staging/.../<n>.part" and the final key "<tenant>/<m>.cipher" of one  *)
(* ciphertext are both written n here, and blob[n] says under which of the *)
(* two directories the bytes are, if anywhere.                             *)
(*                                                                         *)
(* Next to some definitions stands one that gets it wrong (DueInCleaning,  *)
(* ...): no specification uses it, it is there to see that the properties  *)
(* would notice.                                                           *)
(***************************************************************************)
EXTENDS Naturals, FiniteSets

CONSTANTS Names,     \* random object names
          Cleaners,  \* processes of cmd/cleanup
          Limit,     \* the -limit flag of cmd/cleanup
          Faults,    \* the faults this instance lets happen
          Nil        \* "no value"

ASSUME CleanupAssumption ==
    /\ Limit \in Nat \ {0}
    /\ Faults \subseteq {"crash", "save_error", "orphan_error", "ambiguous_commit"}
    /\ Nil \notin Names

VARIABLES blob,     \* the two directories of LocalEncryptedFileStorage
          orphan,   \* the status column of orphan_storage_objects, by key
          cleaner   \* the local state of each Run

cleanupVars == <<blob, orphan, cleaner>>

BlobStatus == {"unused", "staging", "final", "gone"}
OrphanStatus == {"NONE", "PENDING", "CLEANING", "FAILED", "CLEANED"}
Run == [pc : {"idle", "loop", "save"}, todo : SUBSET Names,
        item : Names \cup {Nil}, deleted : BOOLEAN]
Stopped == [pc |-> "idle", todo |-> {}, item |-> Nil, deleted |-> FALSE]

CleanupTypeOK ==
    /\ blob \in [Names -> BlobStatus]
    /\ orphan \in [Names -> OrphanStatus]
    /\ cleaner \in [Cleaners -> Run]

CleanupInit ==
    /\ blob = [n \in Names |-> "unused"]
    /\ orphan = [n \in Names |-> "NONE"]
    /\ cleaner = [c \in Cleaners |-> Stopped]

-----------------------------------------------------------------------------
(* ClaimOrphans: PENDING rows have no next_retry_at and are always due; a  *)
(* FAILED row is due once its backoff is over, at a time of its own. The   *)
(* claim takes the first Limit due rows and is one transaction; the rows   *)
(* it takes leave the due set, so SKIP LOCKED is never needed twice.       *)
DueInCleaning(failedDue) ==
    {n \in Names : orphan[n] \in {"PENDING", "CLEANING"}} \cup failedDue
DueNeverAgain(failedDue) == {n \in Names : orphan[n] = "PENDING"}
Due(failedDue) == {n \in Names : orphan[n] = "PENDING"} \cup failedDue

ClaimOrphans(c, batch) ==
    /\ cleaner[c].pc = "idle"
    /\ \E failedDue \in SUBSET {n \in Names : orphan[n] = "FAILED"} :
          /\ batch \subseteq Due(failedDue)
          /\ \/ Cardinality(batch) = Limit
             \/ Cardinality(batch) < Limit /\ batch = Due(failedDue)
    /\ orphan' = [n \in Names |-> IF n \in batch THEN "CLEANING" ELSE orphan[n]]
    /\ cleaner' = [cleaner EXCEPT ![c] = [Stopped EXCEPT !.pc = "loop", !.todo = batch]]
    /\ UNCHANGED blob

(* DeleteCiphertext removes the file, or reports an error and leaves it.   *)
(* An absent file counts as deleted.                                       *)
DeleteOrphan(c, n) ==
    /\ cleaner[c].pc = "loop"
    /\ n \in cleaner[c].todo
    /\ blob' = [blob EXCEPT ![n] = "gone"]
    /\ cleaner' = [cleaner EXCEPT ![c].pc = "save", ![c].item = n, ![c].deleted = TRUE]
    /\ UNCHANGED orphan

DeleteOrphanFails(c, n) ==
    /\ cleaner[c].pc = "loop"
    /\ n \in cleaner[c].todo
    /\ cleaner' = [cleaner EXCEPT ![c].pc = "save", ![c].item = n, ![c].deleted = FALSE]
    /\ UNCHANGED <<blob, orphan>>

(* SaveOrphanResult writes CLEANED or FAILED for the item just handled.    *)
OrphanResultUnchecked(c) == "CLEANED"
OrphanResult(c) == IF cleaner[c].deleted THEN "CLEANED" ELSE "FAILED"

SaveOrphanResultLeavesRest(c) ==
    /\ cleaner[c].pc = "save"
    /\ orphan' = [orphan EXCEPT ![cleaner[c].item] = OrphanResult(c)]
    /\ cleaner' = [cleaner EXCEPT ![c] = [Stopped EXCEPT !.pc = "loop"]]
    /\ UNCHANGED blob
SaveOrphanResult(c) ==
    /\ cleaner[c].pc = "save"
    /\ orphan' = [orphan EXCEPT ![cleaner[c].item] = OrphanResult(c)]
    /\ cleaner' = [cleaner EXCEPT
                     ![c] = [Stopped EXCEPT !.pc = "loop",
                                !.todo = cleaner[c].todo \ {cleaner[c].item}]]
    /\ UNCHANGED blob

(* An error of SaveOrphanResult ends Run at once: the rest of the batch    *)
(* keeps the status CLEANING it was claimed with.                          *)
SaveOrphanError(c) ==
    /\ "save_error" \in Faults
    /\ cleaner[c].pc = "save"
    /\ cleaner' = [cleaner EXCEPT ![c] = Stopped]
    /\ UNCHANGED <<blob, orphan>>

(* DeleteExpiredStaging, the end of Run: up to Limit .part files whose     *)
(* mtime is older than the staging TTL. Nothing renews the mtime and no    *)
(* deadline ends a task, so any staging file may have reached that age.    *)
StagingFilesAndFinal == {n \in Names : blob[n] \in {"staging", "final"}}
StagingFiles == {n \in Names : blob[n] = "staging"}

DeleteExpiredStaging(c, expired) ==
    /\ cleaner[c].pc = "loop"
    /\ cleaner[c].todo = {}
    /\ expired \subseteq StagingFiles
    /\ Cardinality(expired) <= Limit
    /\ blob' = [n \in Names |-> IF n \in expired THEN "gone" ELSE blob[n]]
    /\ cleaner' = [cleaner EXCEPT ![c] = Stopped]
    /\ UNCHANGED orphan

(* The process dies, or SIGTERM cancels the context Run works under.       *)
CleanerCrash(c) ==
    /\ "crash" \in Faults
    /\ cleaner[c].pc # "idle"
    /\ cleaner' = [cleaner EXCEPT ![c] = Stopped]
    /\ UNCHANGED <<blob, orphan>>

CleanerStep(c) ==
    \/ \E batch \in SUBSET Names : ClaimOrphans(c, batch)
    \/ \E n \in Names : DeleteOrphan(c, n)
    \/ \E n \in Names : DeleteOrphanFails(c, n)
    \/ SaveOrphanResult(c)
    \/ SaveOrphanError(c)
    \/ \E expired \in SUBSET Names : DeleteExpiredStaging(c, expired)
    \/ CleanerCrash(c)

-----------------------------------------------------------------------------
(* RegisterOrphan: an upsert on the unique object_key that resets the row  *)
(* to PENDING.                                                             *)
RegisterOrphanAsNew(n) == orphan' = [orphan EXCEPT ![n] = "NEW"]
RegisterOrphan(n) == orphan' = [orphan EXCEPT ![n] = "PENDING"]

(* The rest of the service, when the cleaner is checked by itself: an      *)
(* upload stages a file, and a completion whose transaction fails leaves a *)
(* final file and registers it. EncryptionTask replaces both.              *)
StageBlob(n) ==
    /\ blob[n] = "unused"
    /\ blob' = [blob EXCEPT ![n] = "staging"]
    /\ UNCHANGED <<orphan, cleaner>>

OrphanBlob(n) ==
    /\ blob[n] = "staging"
    /\ blob' = [blob EXCEPT ![n] = "final"]
    /\ RegisterOrphan(n)
    /\ UNCHANGED cleaner

CleanupNext ==
    \/ \E c \in Cleaners : CleanerStep(c)
    \/ \E n \in Names : StageBlob(n)
    \/ \E n \in Names : OrphanBlob(n)

CleanupSpec == CleanupInit /\ [][CleanupNext]_cleanupVars

(* cmd/cleanup is run again and again, and a run goes on to its end unless *)
(* it crashes. A FAILED row is due again after its backoff, hence fairness *)
(* for every name, and a deletion that is tried again and again succeeds   *)
(* at last. A failing save or delete is never owed to anyone.              *)
CleanupFairness ==
    \A c \in Cleaners :
        /\ WF_cleanupVars(SaveOrphanResult(c))
        /\ WF_cleanupVars(\E e \in SUBSET Names : DeleteExpiredStaging(c, e))
        /\ WF_cleanupVars(\E b \in SUBSET Names : ClaimOrphans(c, b))
        /\ \A n \in Names :
              /\ SF_cleanupVars(\E b \in SUBSET Names : n \in b /\ ClaimOrphans(c, b))
              /\ WF_cleanupVars(DeleteOrphan(c, n) \/ DeleteOrphanFails(c, n))
              /\ SF_cleanupVars(DeleteOrphan(c, n))

FairCleanupSpec == CleanupSpec /\ CleanupFairness

-----------------------------------------------------------------------------
(* A row is in the hands of at most one run, and while it is there its     *)
(* status says CLEANING: two cleaners never race on one file               *)
(* (ClaimOrphans, encryption_repository.go:954).                           *)
ClaimExclusive ==
    \A n \in Names, c \in Cleaners :
        n \in cleaner[c].todo =>
            /\ orphan[n] = "CLEANING"
            /\ \A d \in Cleaners \ {c} : n \notin cleaner[d].todo

(* A row that says CLEANED stands for a file that is really gone, whatever *)
(* failed or crashed on the way.                                           *)
CleanedIsGone == \A n \in Names : orphan[n] = "CLEANED" => blob[n] = "gone"

(* A row that says CLEANING although no run has it in hand: no later run   *)
(* will take it, since ClaimOrphans looks at PENDING and FAILED only.      *)
Stranded(n) == orphan[n] = "CLEANING" /\ \A c \in Cleaners : n \notin cleaner[c].todo

(* Every registered orphan is cleaned in the end (REC-003, "登记可追踪孤儿  *)
(* 对象并重试清理"), however its deletion fails and is retried, unless a run *)
(* ends between its claim and its last save, which strands what it holds.  *)
OrphanCleanedOrStranded ==
    \A n \in Names : (orphan[n] = "PENDING") ~> (orphan[n] = "CLEANED" \/ Stranded(n))

(* Nothing else strands a row: neither the deletions that fail nor the     *)
(* other cleaners; and one run that ends badly strands no more than Limit. *)
OnlyAbortStrands ==
    [][LET new == {n \in Names : Stranded(n)' /\ ~Stranded(n)}
       IN  new # {} => \E c \in Cleaners : /\ new \subseteq cleaner[c].todo
                                          /\ cleaner'[c] = Stopped
                                          /\ Cardinality(new) <= Limit]_cleanupVars
=============================================================================
