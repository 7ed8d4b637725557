------------------------- MODULE EncryptionTask_proofs -------------------------
(* Theorems about OrphanCleanup, by itself, and about EncryptionTask, which *)
(* extends it, for any number of tasks, attempts, files, handlers and       *)
(* cleaners.                                                                *)
EXTENDS EncryptionTask, FiniteSetTheorems, TLAPS

(***************************************************************************)
(* Orphan cleanup.                                                         *)
(***************************************************************************)
(* A run that is about to save a result has an item of its batch in hand,  *)
(* and a run that is over has no batch.                                    *)
CleanerInHand ==
    \A c \in Cleaners :
        /\ cleaner[c].pc = "save" => cleaner[c].item \in cleaner[c].todo
        /\ cleaner[c].pc = "idle" => cleaner[c].todo = {}

(* What a run remembers as deleted is gone, and what was never staged or   *)
(* is still staged was never registered.                                   *)
DeletedIsGone ==
    \A c \in Cleaners :
        cleaner[c].pc = "save" /\ cleaner[c].deleted => blob[cleaner[c].item] = "gone"
OrphanWasFinal == \A n \in Names : orphan[n] # "NONE" => blob[n] \in {"final", "gone"}

CleanupInv == /\ CleanupTypeOK
              /\ CleanerInHand
              /\ DeletedIsGone
              /\ OrphanWasFinal
              /\ ClaimExclusive
              /\ CleanedIsGone

-----------------------------------------------------------------------------
(* A step of a run keeps tables, files and batches of their types. *)
LEMMA CleanerTypeStep ==
    ASSUME CleanupTypeOK, CleanerInHand, NEW c \in Cleaners, CleanerStep(c)
    PROVE  CleanupTypeOK' /\ CleanerInHand'
<1> USE DEF CleanupTypeOK, CleanerInHand
<1>0. Stopped \in Run
  BY DEF Stopped, Run
<1>1. ASSUME NEW batch \in SUBSET Names, ClaimOrphans(c, batch)
      PROVE  CleanupTypeOK' /\ CleanerInHand'
  <2>1. orphan' \in [Names -> OrphanStatus]
    BY <1>1 DEF ClaimOrphans, OrphanStatus
  <2>2. [Stopped EXCEPT !.pc = "loop", !.todo = batch] \in Run
    BY DEF Stopped, Run
  <2> QED BY <1>1, <2>1, <2>2 DEF ClaimOrphans, Stopped
<1>2. ASSUME NEW n \in Names, DeleteOrphan(c, n)
      PROVE  CleanupTypeOK' /\ CleanerInHand'
  <2>1. blob' \in [Names -> BlobStatus]
    BY <1>2 DEF DeleteOrphan, BlobStatus
  <2>2. cleaner' \in [Cleaners -> Run]
    BY <1>2 DEF DeleteOrphan, Run
  <2> QED BY <1>2, <2>1, <2>2 DEF DeleteOrphan, Run
<1>3. ASSUME NEW n \in Names, DeleteOrphanFails(c, n)
      PROVE  CleanupTypeOK' /\ CleanerInHand'
  <2>1. cleaner' \in [Cleaners -> Run]
    BY <1>3 DEF DeleteOrphanFails, Run
  <2> QED BY <1>3, <2>1 DEF DeleteOrphanFails, Run
<1>4. ASSUME SaveOrphanResult(c) PROVE CleanupTypeOK' /\ CleanerInHand'
  <2>1. orphan' \in [Names -> OrphanStatus]
    BY <1>4 DEF SaveOrphanResult, OrphanResult, OrphanStatus, Run
  <2>2. [Stopped EXCEPT !.pc = "loop",
            !.todo = cleaner[c].todo \ {cleaner[c].item}] \in Run
    BY DEF Stopped, Run
  <2> QED BY <1>4, <2>1, <2>2 DEF SaveOrphanResult, Stopped
<1>5. ASSUME SaveOrphanError(c) \/ CleanerCrash(c)
      PROVE  CleanupTypeOK' /\ CleanerInHand'
  <2>1. /\ cleaner' = [cleaner EXCEPT ![c] = Stopped]
        /\ UNCHANGED <<blob, orphan>>
    BY <1>5 DEF SaveOrphanError, CleanerCrash
  <2> QED BY <1>0, <2>1 DEF Stopped
<1>6. ASSUME NEW expired \in SUBSET Names, DeleteExpiredStaging(c, expired)
      PROVE  CleanupTypeOK' /\ CleanerInHand'
  <2>1. blob' \in [Names -> BlobStatus]
    BY <1>6 DEF DeleteExpiredStaging, BlobStatus
  <2> QED BY <1>0, <1>6, <2>1 DEF DeleteExpiredStaging, Stopped
<1> QED BY <1>1, <1>2, <1>3, <1>4, <1>5, <1>6 DEF CleanerStep

(* A step of a run keeps claims exclusive and CLEANED true. *)
LEMMA CleanerInvStep ==
    ASSUME CleanupInv, NEW c \in Cleaners, CleanerStep(c)
    PROVE  CleanupInv'
<1> USE DEF CleanupInv
<1> DEFINE Rest == DeletedIsGone' /\ OrphanWasFinal' /\ ClaimExclusive' /\ CleanedIsGone'
<1>0. CleanupTypeOK' /\ CleanerInHand'
  BY CleanerTypeStep
<1>1. ASSUME NEW batch \in SUBSET Names, ClaimOrphans(c, batch) PROVE Rest
  <2>1. \A n \in batch : orphan[n] \in {"PENDING", "FAILED"}
    BY <1>1 DEF ClaimOrphans, Due
  <2>2. \A n \in Names : orphan'[n] = IF n \in batch THEN "CLEANING" ELSE orphan[n]
    BY <1>1 DEF ClaimOrphans
  <2>3. /\ cleaner'[c].todo = batch
        /\ cleaner'[c].pc = "loop"
        /\ \A d \in Cleaners \ {c} : cleaner'[d] = cleaner[d]
        /\ blob' = blob
    BY <1>1 DEF ClaimOrphans, Stopped, CleanupTypeOK
  <2>4. DeletedIsGone'
    BY <2>3 DEF DeletedIsGone
  <2>5. OrphanWasFinal' /\ CleanedIsGone'
    BY <2>1, <2>2, <2>3 DEF OrphanWasFinal, CleanedIsGone
  <2>6. ClaimExclusive'
    BY <2>1, <2>2, <2>3 DEF ClaimExclusive
  <2> QED BY <2>4, <2>5, <2>6
<1>2. ASSUME NEW n \in Names,
             DeleteOrphan(c, n) \/ DeleteOrphanFails(c, n)
      PROVE  Rest
  <2>1. /\ \A m \in Names : blob'[m] = blob[m] \/ (m = n /\ blob'[m] = "gone")
        /\ cleaner'[c].deleted => blob'[n] = "gone"
        /\ cleaner'[c].item = n
        /\ \A d \in Cleaners : cleaner'[d].todo = cleaner[d].todo
        /\ \A d \in Cleaners \ {c} : cleaner'[d] = cleaner[d]
        /\ orphan' = orphan
    <3>1. /\ cleaner'[c].item = n
          /\ cleaner'[c].todo = cleaner[c].todo
          /\ \A d \in Cleaners \ {c} : cleaner'[d] = cleaner[d]
          /\ orphan' = orphan
      BY <1>2 DEF DeleteOrphan, DeleteOrphanFails, CleanupTypeOK, Run
    <3>2. /\ \A m \in Names : blob'[m] = blob[m] \/ (m = n /\ blob'[m] = "gone")
          /\ cleaner'[c].deleted => blob'[n] = "gone"
      <4>1. CASE DeleteOrphan(c, n)
        <5>1. blob'[n] = "gone" /\ \A m \in Names \ {n} : blob'[m] = blob[m]
          BY <4>1 DEF DeleteOrphan, CleanupTypeOK
        <5> QED BY <5>1
      <4>2. CASE DeleteOrphanFails(c, n)
        <5>1. blob' = blob
          BY <4>2 DEF DeleteOrphanFails
        <5>2. cleaner'[c].deleted = FALSE
          BY <4>2 DEF DeleteOrphanFails, CleanupTypeOK, Run
        <5> QED BY <5>1, <5>2
      <4> QED BY <1>2, <4>1, <4>2
    <3> QED BY <3>1, <3>2
  <2>2. \A d \in Cleaners \ {c} : cleaner[d].pc = "save" => cleaner[d].item \in Names
    BY DEF CleanerInHand, CleanupTypeOK, Run
  <2>3. DeletedIsGone'
    BY <2>1, <2>2 DEF DeletedIsGone
  <2>4. OrphanWasFinal' /\ CleanedIsGone' /\ ClaimExclusive'
    BY <2>1 DEF OrphanWasFinal, CleanedIsGone, ClaimExclusive
  <2> QED BY <2>3, <2>4
<1>3. ASSUME SaveOrphanResult(c) PROVE Rest
  <2> DEFINE i == cleaner[c].item
  <2>1. i \in Names /\ i \in cleaner[c].todo /\ orphan[i] = "CLEANING"
    BY <1>3 DEF SaveOrphanResult, CleanerInHand, CleanupTypeOK, Run, ClaimExclusive
  <2>2. /\ orphan'[i] \in {"CLEANED", "FAILED"}
        /\ orphan'[i] = "CLEANED" => blob[i] = "gone"
        /\ \A n \in Names \ {i} : orphan'[n] = orphan[n]
        /\ blob' = blob
    BY <1>3, <2>1 DEF SaveOrphanResult, OrphanResult, CleanupTypeOK, DeletedIsGone
  <2>3. /\ cleaner'[c].todo = cleaner[c].todo \ {i}
        /\ cleaner'[c].pc = "loop"
        /\ \A d \in Cleaners \ {c} : cleaner'[d] = cleaner[d]
    BY <1>3 DEF SaveOrphanResult, Stopped, CleanupTypeOK
  <2>4. DeletedIsGone'
    BY <2>2, <2>3 DEF DeletedIsGone
  <2>5. OrphanWasFinal' /\ CleanedIsGone'
    BY <2>1, <2>2 DEF OrphanWasFinal, CleanedIsGone
  <2>6. ClaimExclusive'
    BY <2>1, <2>2, <2>3 DEF ClaimExclusive
  <2> QED BY <2>4, <2>5, <2>6
<1>4. ASSUME SaveOrphanError(c) \/ CleanerCrash(c) PROVE Rest
  <2>1. /\ cleaner'[c].pc = "idle" /\ cleaner'[c].todo = {}
        /\ \A d \in Cleaners \ {c} : cleaner'[d] = cleaner[d]
        /\ UNCHANGED <<blob, orphan>>
    BY <1>4 DEF SaveOrphanError, CleanerCrash, Stopped, CleanupTypeOK
  <2> QED BY <2>1 DEF DeletedIsGone, OrphanWasFinal, CleanedIsGone, ClaimExclusive
<1>5. ASSUME NEW expired \in SUBSET Names, DeleteExpiredStaging(c, expired) PROVE Rest
  <2>1. /\ cleaner'[c].pc = "idle" /\ cleaner'[c].todo = {}
        /\ \A d \in Cleaners \ {c} : cleaner'[d] = cleaner[d]
        /\ orphan' = orphan
        /\ \A n \in Names : blob'[n] = blob[n] \/ blob'[n] = "gone"
    BY <1>5 DEF DeleteExpiredStaging, Stopped, CleanupTypeOK
  <2>2. \A d \in Cleaners \ {c} : cleaner[d].pc = "save" => cleaner[d].item \in Names
    BY DEF CleanerInHand, CleanupTypeOK, Run
  <2> QED BY <2>1, <2>2 DEF DeletedIsGone, OrphanWasFinal, CleanedIsGone, ClaimExclusive
<1>6. Rest
  BY <1>1, <1>2, <1>3, <1>4, <1>5 DEF CleanerStep
<1> QED BY <1>0, <1>6

(* Files enter the store by staging; they are registered when they are     *)
(* final, once, so never under a running claim.                            *)
LEMMA FileInvStep ==
    ASSUME CleanupInv, NEW n \in Names, StageBlob(n) \/ OrphanBlob(n)
    PROVE  CleanupInv'
<1> USE DEF CleanupInv, CleanupTypeOK
<1>1. CASE StageBlob(n)
  BY <1>1 DEF StageBlob, BlobStatus, CleanerInHand, DeletedIsGone, OrphanWasFinal,
              ClaimExclusive, CleanedIsGone
<1>2. CASE OrphanBlob(n)
  <2>1. orphan[n] = "NONE"
    BY <1>2 DEF OrphanBlob, OrphanWasFinal
  <2>2. CleanupTypeOK' /\ CleanerInHand' /\ DeletedIsGone' /\ OrphanWasFinal'
    BY <1>2 DEF OrphanBlob, RegisterOrphan, BlobStatus, OrphanStatus, CleanerInHand,
                DeletedIsGone, OrphanWasFinal
  <2>3. ClaimExclusive' /\ CleanedIsGone'
    BY <1>2, <2>1 DEF OrphanBlob, RegisterOrphan, ClaimExclusive, CleanedIsGone
  <2> QED BY <2>2, <2>3
<1> QED BY <1>1, <1>2

(* The empty store satisfies the inductive invariant (CleanupInit). *)
LEMMA CleanupInvInitial == CleanupInit => CleanupInv
BY DEF CleanupInit, CleanupInv, CleanupTypeOK, Stopped, Run, BlobStatus, OrphanStatus,
       CleanerInHand, DeletedIsGone, OrphanWasFinal, ClaimExclusive, CleanedIsGone

(* Every step keeps it. *)
LEMMA CleanupInvStep == CleanupInv /\ [CleanupNext]_cleanupVars => CleanupInv'
<1> SUFFICES ASSUME CleanupInv, [CleanupNext]_cleanupVars PROVE CleanupInv'
  OBVIOUS
<1>1. CASE CleanupNext
  BY <1>1, CleanerInvStep, FileInvStep DEF CleanupNext
<1>2. CASE UNCHANGED cleanupVars
  BY <1>2 DEF cleanupVars, CleanupInv, CleanupTypeOK, CleanerInHand, DeletedIsGone,
              OrphanWasFinal, ClaimExclusive, CleanedIsGone
<1> QED BY <1>1, <1>2

(* What the proofs below rest on, for every run of the cleaners. *)
THEOREM CleanupInvariant == CleanupSpec => []CleanupInv
BY CleanupInvInitial, CleanupInvStep, PTL DEF CleanupSpec

(* Rows, files and the runs of the cleaners are of their types, however    *)
(* often an orphan is registered again and a run dies.                     *)
THEOREM CleanupTypeCorrect == CleanupSpec => []CleanupTypeOK
<1>1. CleanupInv => CleanupTypeOK
  BY DEF CleanupInv
<1> QED BY <1>1, CleanupInvariant, PTL

(* Two cleaners never have the same row in hand (ClaimOrphans). *)
THEOREM ClaimsAreExclusive == CleanupSpec => []ClaimExclusive
<1>1. CleanupInv => ClaimExclusive
  BY DEF CleanupInv
<1> QED BY <1>1, CleanupInvariant, PTL

(* A row that says CLEANED stands for a file that is gone                  *)
(* (SaveOrphanResult).                                                     *)
THEOREM CleanedMeansGone == CleanupSpec => []CleanedIsGone
<1>1. CleanupInv => CleanedIsGone
  BY DEF CleanupInv
<1> QED BY <1>1, CleanupInvariant, PTL

-----------------------------------------------------------------------------
(* What a run holds is never more than it may claim (-limit). *)
BatchBounded ==
    \A c \in Cleaners :
        /\ IsFiniteSet(cleaner[c].todo)
        /\ Cardinality(cleaner[c].todo) <= Limit

NewlyStranded == {n \in Names : Stranded(n)' /\ ~Stranded(n)}
AbortStrands ==
    NewlyStranded # {} => \E c \in Cleaners : /\ NewlyStranded \subseteq cleaner[c].todo
                                             /\ cleaner'[c] = Stopped
                                             /\ Cardinality(NewlyStranded) <= Limit

(* An empty batch is within the limit.                                     *)
LEMMA EmptyBatch ==
    IsFiniteSet({}) /\ Cardinality({}) <= Limit
<1>1. IsFiniteSet({}) /\ Cardinality({}) = 0
  BY FS_EmptySet, Zenon
<1> QED BY <1>1, CleanupAssumption

(* What is left of a batch is within the limit too.                        *)
LEMMA SmallerBatch ==
    ASSUME NEW S, IsFiniteSet(S), Cardinality(S) <= Limit, NEW T \in SUBSET S
    PROVE  IsFiniteSet(T) /\ Cardinality(T) <= Limit
<1>1. IsFiniteSet(T) /\ Cardinality(T) <= Cardinality(S)
  BY FS_Subset
<1>2. Cardinality(T) \in Nat /\ Cardinality(S) \in Nat
  BY <1>1, FS_CardinalityType
<1> QED BY <1>1, <1>2, CleanupAssumption

(* A step of a run keeps the bound, and strands nothing unless it ends the *)
(* run before its batch is done.                                           *)
LEMMA CleanerStrands ==
    ASSUME IsFiniteSet(Names), CleanupInv, BatchBounded, NEW c \in Cleaners, CleanerStep(c)
    PROVE  BatchBounded' /\ AbortStrands
<1> USE DEF CleanupInv
<1>0. cleaner \in [Cleaners -> Run] /\ orphan \in [Names -> OrphanStatus]
  BY DEF CleanupTypeOK
<1>a. ASSUME NEW T, IsFiniteSet(T), Cardinality(T) <= Limit, cleaner'[c].todo = T,
             \A d \in Cleaners \ {c} : cleaner'[d] = cleaner[d]
      PROVE  BatchBounded'
  BY <1>a DEF BatchBounded
<1>1. ASSUME NEW batch \in SUBSET Names, ClaimOrphans(c, batch)
      PROVE  BatchBounded' /\ AbortStrands
  <2>1. /\ cleaner'[c].todo = batch /\ cleaner[c].todo = {}
        /\ \A d \in Cleaners \ {c} : cleaner'[d] = cleaner[d]
        /\ \A n \in Names : orphan'[n] = IF n \in batch THEN "CLEANING" ELSE orphan[n]
    BY <1>0, <1>1 DEF ClaimOrphans, Stopped, CleanerInHand
  <2>2. IsFiniteSet(batch) /\ Cardinality(batch) <= Limit
    <3>1. IsFiniteSet(batch)
      BY FS_Subset
    <3>2. Cardinality(batch) \in Nat
      BY <3>1, FS_CardinalityType
    <3> QED BY <1>1, <3>1, <3>2, CleanupAssumption DEF ClaimOrphans
  <2>3. NewlyStranded = {}
    BY <2>1 DEF NewlyStranded, Stranded
  <2> QED BY <1>a, <2>1, <2>2, <2>3 DEF AbortStrands
<1>2. ASSUME NEW n \in Names, DeleteOrphan(c, n) \/ DeleteOrphanFails(c, n)
      PROVE  BatchBounded' /\ AbortStrands
  <2>1. /\ \A d \in Cleaners : cleaner'[d].todo = cleaner[d].todo
        /\ orphan' = orphan
    BY <1>0, <1>2 DEF DeleteOrphan, DeleteOrphanFails, Run
  <2>2. NewlyStranded = {}
    BY <2>1 DEF NewlyStranded, Stranded
  <2> QED BY <2>1, <2>2 DEF BatchBounded, AbortStrands
<1>3. ASSUME SaveOrphanResult(c) PROVE BatchBounded' /\ AbortStrands
  <2>1. /\ cleaner'[c].todo = cleaner[c].todo \ {cleaner[c].item}
        /\ \A d \in Cleaners \ {c} : cleaner'[d] = cleaner[d]
        /\ orphan' = [orphan EXCEPT ![cleaner[c].item] = OrphanResult(c)]
    BY <1>0, <1>3 DEF SaveOrphanResult, Stopped
  <2>2. /\ IsFiniteSet(cleaner[c].todo \ {cleaner[c].item})
        /\ Cardinality(cleaner[c].todo \ {cleaner[c].item}) <= Limit
    BY SmallerBatch DEF BatchBounded
  <2>3. NewlyStranded = {}
    BY <1>0, <2>1 DEF NewlyStranded, Stranded, OrphanResult
  <2> QED BY <1>a, <2>1, <2>2, <2>3 DEF AbortStrands
<1>4. ASSUME SaveOrphanError(c) \/ CleanerCrash(c) PROVE BatchBounded' /\ AbortStrands
  <2>0. Stopped.todo = {}
    BY DEF Stopped
  <2>1. /\ cleaner'[c] = Stopped /\ cleaner'[c].todo = {}
        /\ \A d \in Cleaners \ {c} : cleaner'[d] = cleaner[d]
        /\ orphan' = orphan
    BY <1>0, <1>4, <2>0 DEF SaveOrphanError, CleanerCrash
  <2>2. NewlyStranded \subseteq cleaner[c].todo
    BY <2>1 DEF NewlyStranded, Stranded
  <2>3. Cardinality(NewlyStranded) <= Limit
    BY <2>2, SmallerBatch DEF BatchBounded
  <2>4. BatchBounded'
    BY <1>a, <2>1, EmptyBatch
  <2> QED BY <2>1, <2>2, <2>3, <2>4 DEF AbortStrands
<1>5. ASSUME NEW expired \in SUBSET Names, DeleteExpiredStaging(c, expired)
      PROVE  BatchBounded' /\ AbortStrands
  <2>1. /\ cleaner'[c].todo = {} /\ cleaner[c].todo = {}
        /\ \A d \in Cleaners \ {c} : cleaner'[d] = cleaner[d]
        /\ orphan' = orphan
    BY <1>0, <1>5 DEF DeleteExpiredStaging, Stopped
  <2>2. NewlyStranded = {}
    BY <2>1 DEF NewlyStranded, Stranded
  <2> QED BY <1>a, <2>1, <2>2, EmptyBatch DEF AbortStrands
<1> QED BY <1>1, <1>2, <1>3, <1>4, <1>5 DEF CleanerStep

(* A step of the cleanup keeps the batches bounded, and what it strands is *)
(* the rest of the batch of one cleaner that stopped (CleanupOrphans).     *)
LEMMA CleanupStrands ==
    ASSUME IsFiniteSet(Names), CleanupInv, BatchBounded, [CleanupNext]_cleanupVars
    PROVE  BatchBounded' /\ AbortStrands
<1>1. ASSUME NEW n \in Names, StageBlob(n) \/ OrphanBlob(n)
      PROVE  BatchBounded' /\ AbortStrands
  <2>1. /\ cleaner' = cleaner
        /\ \A m \in Names : orphan'[m] = orphan[m] \/ orphan'[m] = "PENDING"
    BY <1>1 DEF StageBlob, OrphanBlob, RegisterOrphan, CleanupInv, CleanupTypeOK
  <2>2. NewlyStranded = {}
    BY <2>1 DEF NewlyStranded, Stranded
  <2> QED BY <2>1, <2>2 DEF BatchBounded, AbortStrands
<1>2. CASE UNCHANGED cleanupVars
  BY <1>2 DEF cleanupVars, BatchBounded, AbortStrands, NewlyStranded, Stranded
<1> QED BY <1>1, <1>2, CleanerStrands DEF CleanupNext

(* With finitely many files, a row that says CLEANING is left behind only  *)
(* by a run that ends before its batch is done, and that run leaves no     *)
(* more than Limit of them (Run, ClaimOrphans).                            *)
THEOREM OnlyAbortedRunsStrand ==
    ASSUME IsFiniteSet(Names)
    PROVE  CleanupSpec => OnlyAbortStrands
<1>1. CleanupInit => BatchBounded
  BY EmptyBatch DEF CleanupInit, BatchBounded, Stopped
<1>2. CleanupInv /\ BatchBounded /\ [CleanupNext]_cleanupVars
         => BatchBounded' /\ [AbortStrands]_cleanupVars
  BY CleanupStrands
<1>3. OnlyAbortStrands <=> [][AbortStrands]_cleanupVars
  BY PTL DEF OnlyAbortStrands, AbortStrands, NewlyStranded
<1> QED BY <1>1, <1>2, <1>3, CleanupInvariant, PTL DEF CleanupSpec

-----------------------------------------------------------------------------
(***************************************************************************)
(* Tasks, attempts and the tables of one completion.                       *)
(***************************************************************************)
(* What a handler carries from step to step. *)
RequestInHand ==
    \A h \in Handlers :
        /\ req[h].pc # "idle" => req[h].task \in Tasks /\ req[h].att \in AttemptIds
        /\ req[h].pc \in {"saveStaging", "discard", "commit", "complete", "orphan"} =>
              req[h].name \in Names
        /\ req[h].pc \in {"commit", "complete"} => req[h].obj \in AttemptIds
        /\ req[h].pc \in {"create", "retry"} => attempt[req[h].att].status = NoRow

(* A UUID drawn for a new attempt is in no other handler. *)
FreshInOneHandler ==
    \A h, g \in Handlers :
        req[h].pc \in {"create", "retry"} /\ g # h => req[g].att # req[h].att

(* Rows that belong together. *)
RowsLinked ==
    /\ \A a \in AttemptIds : attempt[a].status = NoRow <=> attempt[a].task = Nil
    /\ \A a \in AttemptIds : object[a].status # NoRow => object[a].name \in Names
    /\ \A k \in Tasks : task[k].status = NoRow => task[k].current = 0

TypeInv == TypeOK /\ CleanerInHand /\ RequestInHand /\ FreshInOneHandler /\ RowsLinked

-----------------------------------------------------------------------------
(* The empty stores and idle handlers satisfy it. *)
LEMMA TypeInvInitial == Init => TypeInv
BY DEF Init, TypeInv, TypeOK, CleanupTypeOK, CleanupInit, BlobStatus, OrphanStatus, Run,
       Stopped, CleanerInHand, TaskRow, AttemptRow, ObjectRow, Request, Idle, NoRow,
       RequestInHand, FreshInOneHandler, RowsLinked, ProgressStage, Terminal

(* The ways a handler moves on. *)
MovesOn(h) ==
    \/ Return(h)
    \/ GoTo(h, "release")
    \/ req[h].pc = "saveStaging" /\ GoTo(h, "discard")
    \/ req[h].pc = "commit" /\ GoTo(h, "complete")
    \/ req[h].pc = "complete" /\ GoTo(h, "orphan")

(* A handler that moves on, and leaves the ids drawn by the others alone,  *)
(* keeps what handlers carry.                                              *)
LEMMA RequestKept ==
    ASSUME TypeInv, NEW h \in Handlers, req[h].pc # "idle", MovesOn(h),
           \A g \in Handlers \ {h} :
               req[g].pc \in {"create", "retry"} => attempt'[req[g].att].status = NoRow
    PROVE  req' \in [Handlers -> Request] /\ RequestInHand' /\ FreshInOneHandler'
<1> USE DEF TypeInv, TypeOK
<1>1. \A g \in Handlers \ {h} : req'[g] = req[g]
  BY DEF MovesOn, Return, GoTo
<1>2. Nil \notin AttemptIds
  BY TaskAssumption
<1>3. CASE Return(h)
  <2>1. req'[h] = Idle /\ req' \in [Handlers -> Request]
    BY <1>3 DEF Return, Idle, Request
  <2> QED BY <1>1, <1>2, <2>1 DEF RequestInHand, FreshInOneHandler, Idle
<1>4. CASE ~Return(h)
  <2>1. PICK pc \in {"release", "discard", "complete", "orphan"} :
           /\ GoTo(h, pc)
           /\ pc = "discard" => req[h].pc = "saveStaging"
           /\ pc = "complete" => req[h].pc = "commit"
           /\ pc = "orphan" => req[h].pc = "complete"
    BY <1>4 DEF MovesOn
  <2>2. /\ req'[h].pc = pc
        /\ req'[h].task = req[h].task
        /\ req'[h].att = req[h].att
        /\ req'[h].obj = req[h].obj
        /\ req'[h].name = req[h].name
        /\ req' \in [Handlers -> Request]
    BY <2>1 DEF GoTo, Request
  <2> QED BY <1>1, <2>1, <2>2 DEF RequestInHand, FreshInOneHandler
<1> QED BY <1>3, <1>4

(* A request that begins with an existing attempt, or with a fresh id,     *)
(* keeps what handlers carry.                                              *)
LEMMA RequestBegun ==
    ASSUME TypeInv, NEW h \in Handlers, NEW r \in Request, Begin(h, r),
           r.task \in Tasks, r.att \in AttemptIds,
           r.pc \in {"saveStaging", "discard", "commit", "complete", "orphan"} =>
               r.name \in Names,
           r.pc \in {"commit", "complete"} => r.obj \in AttemptIds,
           r.pc \in {"create", "retry"} => FreshId(r.att),
           r.pc \notin {"create", "retry"} => attempt[r.att].status # NoRow,
           \A a \in AttemptIds : attempt[a].status = NoRow => attempt'[a] = attempt[a]
    PROVE  req' \in [Handlers -> Request] /\ RequestInHand' /\ FreshInOneHandler'
<1> USE DEF TypeInv, TypeOK
<1>1. /\ req' \in [Handlers -> Request]
      /\ req'[h] = r
      /\ \A g \in Handlers \ {h} : req'[g] = req[g]
  BY DEF Begin
<1>2. RequestInHand'
  BY <1>1 DEF RequestInHand, FreshId
<1>3. FreshInOneHandler'
  BY <1>1 DEF RequestInHand, FreshInOneHandler, FreshId
<1> QED BY <1>1, <1>2, <1>3

-----------------------------------------------------------------------------
(* What a step may do to the four tables, whichever handler makes it.      *)
Created(k, a) ==
    /\ task[k].status = NoRow
    /\ attempt[a].status = NoRow
    /\ task' = [task EXCEPT ![k] = [status |-> "PENDING", current |-> 1, retryable |-> FALSE]]
    /\ attempt' = [attempt EXCEPT ![a] = [task |-> k, no |-> 1, status |-> "PENDING"]]
    /\ file' = [file EXCEPT ![k] = "DRAFT"]
    /\ UNCHANGED object

Retried(k, a) ==
    /\ task[k].status = "FAILED" /\ task[k].retryable
    /\ attempt[a].status = NoRow
    /\ task' = [task EXCEPT ![k] = [status |-> "PENDING", current |-> task[k].current + 1,
                                    retryable |-> FALSE]]
    /\ attempt' = [attempt EXCEPT ![a] = [task |-> k, no |-> task[k].current + 1,
                                          status |-> "PENDING"]]
    /\ file' = [file EXCEPT ![k] = "DRAFT"]
    /\ UNCHANGED object

Progressed(k, a, stage) ==
    /\ Live(k) /\ a \in AttemptsOf(k)
    /\ attempt' = [attempt EXCEPT ![a].status = stage]
    /\ task' = [task EXCEPT ![k].status = stage]
    /\ UNCHANGED <<file, object>>

Staged(a, n, row) ==
    /\ object[a].status = NoRow
    /\ object' = [object EXCEPT ![a] = [status |-> "STAGING", name |-> n, row |-> row]]
    /\ UNCHANGED <<task, attempt, file>>

Completed(k, a, n) ==
    /\ Live(k) /\ a \in AttemptsOf(k)
    /\ object[a].status = "STAGING"
    /\ object' = [object EXCEPT ![a].status = "AVAILABLE", ![a].name = n]
    /\ file' = [file EXCEPT ![k] = "AVAILABLE"]
    /\ attempt' = [attempt EXCEPT ![a].status = "COMPLETED"]
    /\ task' = [task EXCEPT ![k].status = "COMPLETED", ![k].retryable = FALSE]

Ended(k, a, status, retryable) == MarkTerminal(k, a, status, retryable) /\ UNCHANGED object

TablesNext ==
    \/ UNCHANGED <<task, attempt, file, object>>
    \/ \E k \in Tasks, a \in AttemptIds : Created(k, a) \/ Retried(k, a)
    \/ \E k \in Tasks, a \in AttemptIds, stage \in ProgressStage : Progressed(k, a, stage)
    \/ \E a \in AttemptIds, n \in Names, row \in Nat : Staged(a, n, row)
    \/ \E k \in Tasks, a \in AttemptIds, n \in Names : Completed(k, a, n)
    \/ \E k \in Tasks, a \in AttemptIds, status \in {"FAILED", "CANCELLED"},
          retryable \in BOOLEAN : Ended(k, a, status, retryable)

(* Every step does one of these to the tables, or leaves them alone.       *)
LEMMA StepOnTables == TypeInv /\ [Next]_vars => TablesNext
<1> SUFFICES ASSUME TypeInv, [Next]_vars PROVE TablesNext
  OBVIOUS
<1> USE DEF TypeInv, TypeOK, TablesNext
<1>1. ASSUME NEW h \in Handlers, HandlerStep(h) PROVE TablesNext
  <2>1. CASE CreateTaskTx(h)
    <3>1. req[h].task \in Tasks /\ req[h].att \in AttemptIds
          /\ attempt[req[h].att].status = NoRow
      BY <2>1 DEF CreateTaskTx, RequestInHand
    <3>2. UNCHANGED <<task, attempt, file, object>> \/ Created(req[h].task, req[h].att)
      BY <2>1, <3>1 DEF CreateTaskTx, Created
    <3> QED BY <3>1, <3>2
  <2>2. CASE SaveStagingObject(h)
    <3>1. req[h].att \in AttemptIds /\ req[h].name \in Names /\ lastRow + 1 \in Nat
      BY <2>2 DEF SaveStagingObject, RequestInHand
    <3>2. UNCHANGED <<task, attempt, file, object>>
             \/ Staged(req[h].att, req[h].name, lastRow + 1)
      BY <2>2, <3>1 DEF SaveStagingObject, Staged
    <3> QED BY <3>1, <3>2
  <2>3. CASE CompleteTx(h)
    <3>1. req[h].task \in Tasks /\ req[h].att \in AttemptIds /\ req[h].name \in Names
      BY <2>3 DEF CompleteTx, RequestInHand
    <3>2. UNCHANGED <<task, attempt, file, object>>
             \/ Completed(req[h].task, req[h].att, req[h].name)
      BY <2>3, <3>1 DEF CompleteTx, CompletionAccepted, Completed
    <3> QED BY <3>1, <3>2
  <2>4. CASE CancelTx(h)
    <3>1. req[h].task \in Tasks /\ req[h].att \in AttemptIds
      BY <2>4 DEF CancelTx, RequestInHand
    <3>2. UNCHANGED <<task, attempt, file, object>>
             \/ Ended(req[h].task, req[h].att, "CANCELLED", FALSE)
      BY <2>4, <3>1 DEF CancelTx, Ended
    <3> QED BY <3>1, <3>2
  <2>5. CASE CreateRetryTx(h)
    <3>1. req[h].task \in Tasks /\ req[h].att \in AttemptIds
          /\ attempt[req[h].att].status = NoRow
      BY <2>5 DEF CreateRetryTx, RequestInHand
    <3>2. UNCHANGED <<task, attempt, file, object>> \/ Retried(req[h].task, req[h].att)
      BY <2>5, <3>1 DEF CreateRetryTx, NextAttemptNo, Retried
    <3> QED BY <3>1, <3>2
  <2>6. CASE DiscardUpload(h) \/ CommitCiphertext(h) \/ RegisterFailedCompletion(h)
                \/ Release(h) \/ HandlerCrash(h)
    BY <2>6 DEF DiscardUpload, CommitCiphertext, RegisterFailedCompletion, Release,
                HandlerCrash
  <2> QED BY <1>1, <2>1, <2>2, <2>3, <2>4, <2>5, <2>6 DEF HandlerStep
<1>2. ASSUME NEW h \in Handlers, NEW k \in Tasks, NEW a \in AttemptIds,
             RequestArrives(h, k, a)
      PROVE  TablesNext
  <2>1. ASSUME NEW retryable \in BOOLEAN, Fail(h, k, a, retryable)
        PROVE  UNCHANGED <<task, attempt, file, object>> \/ Ended(k, a, "FAILED", retryable)
    BY <2>1 DEF Fail, Ended
  <2>2. CASE \E retryable \in BOOLEAN : Fail(h, k, a, retryable)
    BY <2>1, <2>2
  <2>3. CASE ~\E retryable \in BOOLEAN : Fail(h, k, a, retryable)
    BY <1>2, <2>3 DEF RequestArrives, CreateTask, UploadCiphertext, Complete, Cancel, Retry
  <2> QED BY <2>2, <2>3
<1>3. ASSUME NEW k \in Tasks, NEW a \in AttemptIds, NEW stage \in ReportedStages,
             ReportProgress(k, a, stage)
      PROVE  TablesNext
  <2>1. stage \in ProgressStage
    BY TaskAssumption
  <2>2. Progressed(k, a, stage)
    BY <1>3 DEF ReportProgress, Progressed
  <2> QED BY <2>1, <2>2
<1>4. ASSUME NEW k \in Tasks, NEW a \in AttemptIds, NEW retryable \in BOOLEAN,
             FailUnanswered(k, a, retryable)
      PROVE  TablesNext
  <2>1. Ended(k, a, "FAILED", retryable)
    BY <1>4 DEF FailUnanswered, Ended
  <2> QED BY <2>1
<1>5. ASSUME NEW a \in AttemptIds, LeaseExpires(a) PROVE TablesNext
  BY <1>5 DEF LeaseExpires
<1>6. ASSUME NEW c \in Cleaners, CleanerStep(c) /\ UNCHANGED serviceVars PROVE TablesNext
  BY <1>6 DEF serviceVars
<1>7. CASE UNCHANGED vars
  BY <1>7 DEF vars
<1> QED BY <1>1, <1>2, <1>3, <1>4, <1>5, <1>6, <1>7 DEF Next

(* The tables keep their types, and rows that belong together stay so.     *)
LEMMA TablesKept ==
    ASSUME TypeInv, TablesNext
    PROVE  /\ task' \in [Tasks -> TaskRow]
           /\ attempt' \in [AttemptIds -> AttemptRow]
           /\ file' \in [Tasks -> {NoRow, "DRAFT", "AVAILABLE", "FAILED", "CANCELLED"}]
           /\ object' \in [AttemptIds -> ObjectRow]
           /\ RowsLinked'
<1> DEFINE Kept == /\ task' \in [Tasks -> TaskRow]
                   /\ attempt' \in [AttemptIds -> AttemptRow]
                   /\ file' \in [Tasks -> {NoRow, "DRAFT", "AVAILABLE", "FAILED", "CANCELLED"}]
                   /\ object' \in [AttemptIds -> ObjectRow]
                   /\ RowsLinked'
<1> USE TaskAssumption DEF TypeInv, TypeOK, NoRow
<1>1. CASE UNCHANGED <<task, attempt, file, object>>
  BY <1>1 DEF RowsLinked
<1>2. ASSUME NEW k \in Tasks, NEW a \in AttemptIds, Created(k, a) PROVE Kept
  <2>1. /\ task' \in [Tasks -> TaskRow]
        /\ attempt' \in [AttemptIds -> AttemptRow]
        /\ file' \in [Tasks -> {NoRow, "DRAFT", "AVAILABLE", "FAILED", "CANCELLED"}]
        /\ object' = object
    BY <1>2 DEF Created, TaskRow, AttemptRow, ProgressStage
  <2>2. RowsLinked'
    BY <1>2 DEF Created, RowsLinked
  <2> QED BY <2>1, <2>2
<1>3. ASSUME NEW k \in Tasks, NEW a \in AttemptIds, Retried(k, a) PROVE Kept
  <2>1. task[k].current + 1 \in Nat
    BY DEF TaskRow
  <2>2. /\ task' \in [Tasks -> TaskRow]
        /\ attempt' \in [AttemptIds -> AttemptRow]
        /\ file' \in [Tasks -> {NoRow, "DRAFT", "AVAILABLE", "FAILED", "CANCELLED"}]
        /\ object' = object
    BY <1>3, <2>1 DEF Retried, TaskRow, AttemptRow, ProgressStage
  <2>3. RowsLinked'
    BY <1>3 DEF Retried, RowsLinked
  <2> QED BY <2>2, <2>3
<1>4. ASSUME NEW k \in Tasks, NEW a \in AttemptIds, NEW stage \in ProgressStage,
             Progressed(k, a, stage)
      PROVE  Kept
  <2>1. /\ task' \in [Tasks -> TaskRow]
        /\ attempt' \in [AttemptIds -> AttemptRow]
        /\ file' = file /\ object' = object
    BY <1>4 DEF Progressed, TaskRow, AttemptRow
  <2>2. stage # NoRow
    BY DEF ProgressStage
  <2>3. RowsLinked'
    BY <1>4, <2>2 DEF Progressed, RowsLinked, AttemptsOf, Live, ProgressStage, TaskRow, AttemptRow
  <2> QED BY <2>1, <2>3
<1>5. ASSUME NEW a \in AttemptIds, NEW n \in Names, NEW row \in Nat, Staged(a, n, row)
      PROVE  Kept
  BY <1>5 DEF Staged, ObjectRow, RowsLinked
<1>6. ASSUME NEW k \in Tasks, NEW a \in AttemptIds, NEW n \in Names, Completed(k, a, n)
      PROVE  Kept
  <2>1. task' \in [Tasks -> TaskRow]
    BY <1>6 DEF Completed, TaskRow, Terminal
  <2>2. attempt' \in [AttemptIds -> AttemptRow]
    BY <1>6 DEF Completed, AttemptRow, Terminal
  <2>3. file' \in [Tasks -> {NoRow, "DRAFT", "AVAILABLE", "FAILED", "CANCELLED"}]
    BY <1>6 DEF Completed
  <2>4. object' \in [AttemptIds -> ObjectRow]
    BY <1>6 DEF Completed, ObjectRow
  <2>5. RowsLinked'
    BY <1>6 DEF Completed, RowsLinked, AttemptsOf, TaskRow, AttemptRow, ObjectRow
  <2> QED BY <2>1, <2>2, <2>3, <2>4, <2>5
<1>7. ASSUME NEW k \in Tasks, NEW a \in AttemptIds, NEW status \in {"FAILED", "CANCELLED"},
             NEW retryable \in BOOLEAN, Ended(k, a, status, retryable)
      PROVE  Kept
  <2>1. /\ task' \in [Tasks -> TaskRow]
        /\ attempt' \in [AttemptIds -> AttemptRow]
        /\ file' \in [Tasks -> {NoRow, "DRAFT", "AVAILABLE", "FAILED", "CANCELLED"}]
        /\ object' = object
    BY <1>7 DEF Ended, MarkTerminal, TaskRow, AttemptRow, Terminal
  <2>2. RowsLinked'
    BY <1>7 DEF Ended, MarkTerminal, RowsLinked, AttemptsOf, TaskRow, AttemptRow
  <2> QED BY <2>1, <2>2
<1> QED BY <1>1, <1>2, <1>3, <1>4, <1>5, <1>6, <1>7 DEF TablesNext

-----------------------------------------------------------------------------
(* A handler's step keeps what handlers carry.                             *)
LEMMA HandlerKeepsRequests ==
    ASSUME TypeInv, NEW h \in Handlers, HandlerStep(h)
    PROVE  req' \in [Handlers -> Request] /\ RequestInHand' /\ FreshInOneHandler'
<1> DEFINE OthersKept == \A g \in Handlers \ {h} :
               req[g].pc \in {"create", "retry"} => attempt'[req[g].att].status = NoRow
<1> USE DEF TypeInv, TypeOK
<1>1. \A g \in Handlers \ {h} : req[g].pc \in {"create", "retry"} =>
          req[g].att \in AttemptIds /\ attempt[req[g].att].status = NoRow
  BY DEF RequestInHand
<1>2. CASE CreateTaskTx(h)
  <2>1. OthersKept
    BY <1>1, <1>2 DEF CreateTaskTx, FreshInOneHandler, RequestInHand
  <2>2. MovesOn(h) /\ req[h].pc # "idle"
    BY <1>2 DEF CreateTaskTx, MovesOn
  <2> QED BY <2>1, <2>2, RequestKept
<1>3. CASE CreateRetryTx(h)
  <2>1. OthersKept
    BY <1>1, <1>3 DEF CreateRetryTx, FreshInOneHandler, RequestInHand
  <2>2. MovesOn(h) /\ req[h].pc # "idle"
    BY <1>3 DEF CreateRetryTx, MovesOn
  <2> QED BY <2>1, <2>2, RequestKept
<1>4. CASE CompleteTx(h)
  <2>1. OthersKept
    <3>1. req[h].att \in AttemptIds
      BY <1>4 DEF CompleteTx, RequestInHand
    <3>2. CASE CompletionAccepted(req[h]) /\
               attempt' = [attempt EXCEPT ![req[h].att].status = "COMPLETED"]
      <4>1. attempt[req[h].att].status # NoRow
        BY <3>1, <3>2, <1>4, TaskAssumption
           DEF CompletionAccepted, AttemptsOf, RowsLinked, RequestInHand, CompleteTx
      <4> QED BY <1>1, <3>1, <3>2, <4>1
    <3>3. CASE UNCHANGED attempt
      BY <1>1, <3>3
    <3> QED BY <1>4, <3>2, <3>3 DEF CompleteTx
  <2>2. MovesOn(h) /\ req[h].pc # "idle"
    BY <1>4 DEF CompleteTx, MovesOn
  <2> QED BY <2>1, <2>2, RequestKept
<1>5. CASE CancelTx(h)
  <2>1. OthersKept
    <3>1. req[h].task \in Tasks /\ req[h].att \in AttemptIds
      BY <1>5 DEF CancelTx, RequestInHand
    <3>2. CASE MarkTerminal(req[h].task, req[h].att, "CANCELLED", FALSE)
      <4>1. attempt[req[h].att].status # NoRow
        BY <3>1, <3>2, TaskAssumption DEF MarkTerminal, AttemptsOf, RowsLinked
      <4> QED BY <1>1, <3>1, <3>2, <4>1 DEF MarkTerminal
    <3>3. CASE UNCHANGED attempt
      BY <1>1, <3>3
    <3> QED BY <1>5, <3>2, <3>3 DEF CancelTx
  <2>2. MovesOn(h) /\ req[h].pc # "idle"
    BY <1>5 DEF CancelTx, MovesOn
  <2> QED BY <2>1, <2>2, RequestKept
<1>6. CASE SaveStagingObject(h) \/ DiscardUpload(h) \/ CommitCiphertext(h)
              \/ RegisterFailedCompletion(h) \/ Release(h) \/ HandlerCrash(h)
  <2>1. attempt' = attempt
    BY <1>6 DEF SaveStagingObject, DiscardUpload, CommitCiphertext,
                RegisterFailedCompletion, Release, HandlerCrash
  <2>2. MovesOn(h) /\ req[h].pc # "idle"
    BY <1>6 DEF SaveStagingObject, DiscardUpload, CommitCiphertext,
                RegisterFailedCompletion, Release, HandlerCrash, MovesOn
  <2> QED BY <1>1, <2>1, <2>2, RequestKept
<1> QED BY <1>2, <1>3, <1>4, <1>5, <1>6 DEF HandlerStep

(* A request that arrives keeps what handlers carry.                       *)
LEMMA ArrivalKeepsRequests ==
    ASSUME TypeInv, NEW h \in Handlers, NEW k \in Tasks, NEW a \in AttemptIds,
           RequestArrives(h, k, a)
    PROVE  req' \in [Handlers -> Request] /\ RequestInHand' /\ FreshInOneHandler'
<1> DEFINE Kept == req' \in [Handlers -> Request] /\ RequestInHand' /\ FreshInOneHandler'
<1> USE DEF TypeInv, TypeOK
<1>1. a \in AttemptsOf(k) => attempt[a].status # NoRow
  BY TaskAssumption DEF AttemptsOf, RowsLinked
<1>2. CASE CreateTask(h, k, a)
  <2> DEFINE r == [Idle EXCEPT !.pc = "create", !.task = k, !.att = a]
  <2>1. r \in Request /\ r.task = k /\ r.att = a /\ r.pc = "create"
    BY DEF Idle, Request
  <2>2. Begin(h, r) /\ FreshId(a) /\ attempt' = attempt
    BY <1>2 DEF CreateTask
  <2> HIDE DEF r
  <2> QED BY <2>1, <2>2, RequestBegun
<1>3. ASSUME NEW n \in Names, UploadCiphertext(h, k, a, n) PROVE Kept
  <2> DEFINE r == [Idle EXCEPT !.pc = "saveStaging", !.task = k, !.att = a, !.name = n]
  <2>1. r \in Request /\ r.task = k /\ r.att = a /\ r.pc = "saveStaging" /\ r.name = n
    BY DEF Idle, Request
  <2>2. Begin(h, r) /\ attempt' = attempt /\ a \in AttemptsOf(k)
    BY <1>3 DEF UploadCiphertext
  <2> HIDE DEF r
  <2> QED BY <1>1, <2>1, <2>2, RequestBegun
<1>4. ASSUME NEW b \in AttemptIds, Complete(h, k, a, b) PROVE Kept
  <2> DEFINE r == [pc |-> "commit", task |-> k, att |-> a, obj |-> b,
                   name |-> object[b].name]
  <2>1. object[b].name \in Names
    BY <1>4 DEF Complete, RowsLinked, NoRow
  <2>2. /\ r \in Request /\ r.task = k /\ r.att = a /\ r.pc = "commit"
        /\ r.obj = b /\ r.name \in Names
    BY <2>1 DEF Request
  <2>3. Begin(h, r) /\ attempt' = attempt /\ a \in AttemptsOf(k)
    BY <1>4 DEF Complete
  <2> HIDE DEF r
  <2> QED BY <1>1, <2>2, <2>3, RequestBegun
<1>5. ASSUME NEW retryable \in BOOLEAN, Fail(h, k, a, retryable) PROVE Kept
  <2> DEFINE r == [Idle EXCEPT !.pc = "release", !.task = k, !.att = a]
  <2>1. r \in Request /\ r.task = k /\ r.att = a /\ r.pc = "release"
    BY DEF Idle, Request
  <2>2. Begin(h, r) /\ a \in AttemptsOf(k)
    BY <1>5 DEF Fail
  <2>3. \A b \in AttemptIds : attempt[b].status = NoRow => attempt'[b] = attempt[b]
    BY <1>1, <1>5 DEF Fail, MarkTerminal
  <2> HIDE DEF r
  <2> QED BY <1>1, <2>1, <2>2, <2>3, RequestBegun
<1>6. CASE Cancel(h, k, a)
  <2> DEFINE r == [Idle EXCEPT !.pc = "cancel", !.task = k, !.att = a]
  <2>1. r \in Request /\ r.task = k /\ r.att = a /\ r.pc = "cancel"
    BY DEF Idle, Request
  <2>2. Begin(h, r) /\ attempt' = attempt /\ a \in AttemptsOf(k)
    BY <1>6 DEF Cancel, IsCurrent
  <2> HIDE DEF r
  <2> QED BY <1>1, <2>1, <2>2, RequestBegun
<1>7. CASE Retry(h, k, a)
  <2> DEFINE r == [Idle EXCEPT !.pc = "retry", !.task = k, !.att = a]
  <2>1. r \in Request /\ r.task = k /\ r.att = a /\ r.pc = "retry"
    BY DEF Idle, Request
  <2>2. Begin(h, r) /\ FreshId(a) /\ attempt' = attempt
    BY <1>7 DEF Retry
  <2> HIDE DEF r
  <2> QED BY <2>1, <2>2, RequestBegun
<1> QED BY <1>2, <1>3, <1>4, <1>5, <1>6, <1>7 DEF RequestArrives

(* A handler's step, or a request that arrives, leaves the cleaners alone  *)
(* and keeps the types of files, orphans, leases and row numbers.          *)
LEMMA StoresKept ==
    ASSUME TypeInv, NEW h \in Handlers,
           \/ HandlerStep(h)
           \/ \E k \in Tasks, a \in AttemptIds : RequestArrives(h, k, a)
    PROVE  /\ CleanupTypeOK' /\ CleanerInHand'
           /\ lastRow' \in Nat /\ lease' \in SUBSET AttemptIds
<1> DEFINE Kept == /\ CleanupTypeOK' /\ CleanerInHand'
                   /\ lastRow' \in Nat /\ lease' \in SUBSET AttemptIds
<1> USE DEF TypeInv, TypeOK, CleanupTypeOK, CleanerInHand, cleanupVars
<1>1. CASE CreateTaskTx(h) \/ SaveStagingObject(h) \/ CompleteTx(h) \/ CancelTx(h)
              \/ CreateRetryTx(h) \/ Release(h) \/ HandlerCrash(h)
  <2>1. UNCHANGED <<blob, orphan, cleaner>>
    BY <1>1 DEF CreateTaskTx, SaveStagingObject, CompleteTx, CancelTx, CreateRetryTx,
                Release, HandlerCrash
  <2>2. lastRow' \in {lastRow, lastRow + 1} /\ lease' \in SUBSET lease
    BY <1>1 DEF CreateTaskTx, SaveStagingObject, CompleteTx, CancelTx, CreateRetryTx,
                Release, HandlerCrash
  <2>3. lastRow' \in Nat /\ lease' \in SUBSET AttemptIds
    BY <2>2
  <2> QED BY <2>1, <2>3
<1>2. CASE DiscardUpload(h) \/ CommitCiphertext(h)
  <2>1. blob' \in [Names -> BlobStatus]
    BY <1>2 DEF DiscardUpload, CommitCiphertext, BlobStatus
  <2>2. UNCHANGED <<orphan, cleaner, lastRow, lease>>
    BY <1>2 DEF DiscardUpload, CommitCiphertext
  <2> QED BY <2>1, <2>2
<1>3. CASE RegisterFailedCompletion(h)
  <2>1. orphan' \in [Names -> OrphanStatus]
    BY <1>3 DEF RegisterFailedCompletion, RegisterOrphan, OrphanStatus
  <2>2. UNCHANGED <<blob, cleaner, lastRow, lease>>
    BY <1>3 DEF RegisterFailedCompletion
  <2> QED BY <2>1, <2>2
<1>4. ASSUME NEW k \in Tasks, NEW a \in AttemptIds, RequestArrives(h, k, a) PROVE Kept
  <2>1. CASE CreateTask(h, k, a) \/ Retry(h, k, a)
    BY <2>1 DEF CreateTask, Retry, Acquire
  <2>2. ASSUME NEW n \in Names, UploadCiphertext(h, k, a, n) PROVE Kept
    <3>1. blob' \in [Names -> BlobStatus]
      BY <2>2 DEF UploadCiphertext, BlobStatus
    <3>2. UNCHANGED <<orphan, cleaner, lastRow, lease>>
      BY <2>2 DEF UploadCiphertext
    <3> QED BY <3>1, <3>2
  <2>3. CASE \/ \E b \in AttemptIds : Complete(h, k, a, b)
             \/ \E retryable \in BOOLEAN : Fail(h, k, a, retryable)
             \/ Cancel(h, k, a)
    BY <2>3 DEF Complete, Fail, Cancel
  <2> QED BY <1>4, <2>1, <2>2, <2>3 DEF RequestArrives
<1> QED BY <1>1, <1>2, <1>3, <1>4 DEF HandlerStep

(* Every step keeps the types.                                             *)
LEMMA TypeInvStep == TypeInv /\ [Next]_vars => TypeInv'
<1> SUFFICES ASSUME TypeInv, [Next]_vars PROVE TypeInv'
  OBVIOUS
<1> DEFINE Requests == req' \in [Handlers -> Request] /\ RequestInHand' /\ FreshInOneHandler'
           Stores == /\ CleanupTypeOK' /\ CleanerInHand'
                     /\ lastRow' \in Nat /\ lease' \in SUBSET AttemptIds
<1>1. TablesNext
  BY StepOnTables
<1>2. /\ task' \in [Tasks -> TaskRow]
      /\ attempt' \in [AttemptIds -> AttemptRow]
      /\ file' \in [Tasks -> {NoRow, "DRAFT", "AVAILABLE", "FAILED", "CANCELLED"}]
      /\ object' \in [AttemptIds -> ObjectRow]
      /\ RowsLinked'
  BY <1>1, TablesKept
<1>3. ASSUME UNCHANGED req,
             \A a \in AttemptIds : attempt[a].status = NoRow => attempt'[a] = attempt[a]
      PROVE  Requests
  BY <1>3 DEF TypeInv, TypeOK, RequestInHand, FreshInOneHandler
<1>4. ASSUME UNCHANGED <<cleanupVars, lastRow>>, lease' \in SUBSET lease PROVE Stores
  BY <1>4 DEF TypeInv, TypeOK, CleanupTypeOK, CleanerInHand, cleanupVars
<1>5. \A k \in Tasks, a \in AttemptIds : a \in AttemptsOf(k) => attempt[a].status # NoRow
  BY TaskAssumption DEF AttemptsOf, RowsLinked, TypeInv
<1>6. ASSUME NEW h \in Handlers, HandlerStep(h) PROVE Requests /\ Stores
  BY <1>6, HandlerKeepsRequests, StoresKept
<1>7. ASSUME NEW h \in Handlers, NEW k \in Tasks, NEW a \in AttemptIds,
             RequestArrives(h, k, a)
      PROVE  Requests /\ Stores
  BY <1>7, ArrivalKeepsRequests, StoresKept
<1>8. ASSUME NEW k \in Tasks, NEW a \in AttemptIds, NEW stage \in ReportedStages,
             ReportProgress(k, a, stage)
      PROVE  Requests /\ Stores
  <2>1. \A b \in AttemptIds : attempt[b].status = NoRow => attempt'[b] = attempt[b]
    BY <1>5, <1>8 DEF ReportProgress, TypeInv, TypeOK
  <2> QED BY <1>3, <1>4, <1>8, <2>1 DEF ReportProgress
<1>9. ASSUME NEW k \in Tasks, NEW a \in AttemptIds, NEW retryable \in BOOLEAN,
             FailUnanswered(k, a, retryable)
      PROVE  Requests /\ Stores
  <2>1. \A b \in AttemptIds : attempt[b].status = NoRow => attempt'[b] = attempt[b]
    BY <1>5, <1>9 DEF FailUnanswered, MarkTerminal, TypeInv, TypeOK
  <2> QED BY <1>3, <1>4, <1>9, <2>1 DEF FailUnanswered
<1>10. ASSUME NEW a \in AttemptIds, LeaseExpires(a) PROVE Requests /\ Stores
  BY <1>3, <1>4, <1>10 DEF LeaseExpires
<1>11. ASSUME NEW c \in Cleaners, CleanerStep(c) /\ UNCHANGED serviceVars
       PROVE  Requests /\ Stores
  <2>1. CleanupTypeOK' /\ CleanerInHand'
    BY <1>11, CleanerTypeStep DEF TypeInv, TypeOK
  <2>2. UNCHANGED <<req, attempt, lastRow, lease>>
    BY <1>11 DEF serviceVars
  <2> QED BY <1>3, <2>1, <2>2 DEF TypeInv, TypeOK
<1>12. CASE UNCHANGED vars
  <2>1. UNCHANGED <<cleanupVars, req, attempt, lastRow, lease>>
    BY <1>12 DEF vars, cleanupVars
  <2>2. Requests /\ Stores
    BY <1>3, <1>4, <2>1
  <2> QED BY <1>2, <2>2 DEF TypeInv, TypeOK
<1> QED
  BY <1>2, <1>6, <1>7, <1>8, <1>9, <1>10, <1>11, <1>12 DEF Next, TypeInv, TypeOK

(* Every reachable state has the types of TypeOK: no step writes a status, *)
(* an attempt number or a name outside its table's domain.                 *)
THEOREM TypeCorrect == Spec => []TypeOK
<1>1. TypeInv => TypeOK
  BY DEF TypeInv
<1> QED BY TypeInvInitial, TypeInvStep, <1>1, PTL DEF Spec

-----------------------------------------------------------------------------
(* A completion writes all four tables, and nothing else writes a live     *)
(* task's COMPLETED or leaves one: the four stay in agreement.             *)
LEMMA CompletionStep == TypeInv /\ CompletionAtomic /\ TablesNext => CompletionAtomic'
<1> SUFFICES ASSUME TypeInv, CompletionAtomic, TablesNext PROVE CompletionAtomic'
  OBVIOUS
<1> USE TaskAssumption DEF TypeInv, TypeOK, NoRow
<1>1. CASE UNCHANGED <<task, attempt, file, object>>
  BY <1>1 DEF CompletionAtomic, AttemptsOf
<1>2. ASSUME NEW k \in Tasks, NEW a \in AttemptIds, Created(k, a) \/ Retried(k, a)
      PROVE  CompletionAtomic'
  <2>1. attempt[a].task \notin Tasks /\ attempt[a].status # "COMPLETED"
    BY <1>2 DEF Created, Retried, RowsLinked
  <2>2. /\ task'[k].status = "PENDING" /\ file'[k] = "DRAFT"
        /\ attempt'[a].task = k /\ attempt'[a].status = "PENDING"
        /\ \A j \in Tasks \ {k} : task'[j] = task[j] /\ file'[j] = file[j]
        /\ \A b \in AttemptIds \ {a} : attempt'[b] = attempt[b]
        /\ task[k].status # "COMPLETED"
        /\ object' = object
    BY <1>2 DEF Created, Retried
  <2>3. (AttemptsOf(k))' = AttemptsOf(k) \cup {a}
        /\ \A j \in Tasks \ {k} : (AttemptsOf(j))' = AttemptsOf(j)
    BY <2>1, <2>2 DEF AttemptsOf
  <2>4. \A b \in AttemptsOf(k) : attempt'[b].status # "COMPLETED"
    BY <2>2 DEF CompletionAtomic, AttemptsOf
  <2>5. \A j \in Tasks : \A b \in AttemptsOf(j) : b # a
    BY <2>1 DEF AttemptsOf
  <2>6. \A b \in AttemptIds : attempt'[b].status = "COMPLETED" <=> object'[b].status = "AVAILABLE"
    BY <2>1, <2>2 DEF CompletionAtomic
  <2>7. ASSUME NEW j \in Tasks
        PROVE  /\ task'[j].status = "COMPLETED" <=> file'[j] = "AVAILABLE"
               /\ file'[j] = "AVAILABLE" <=>
                     \E b \in (AttemptsOf(j))' : attempt'[b].status = "COMPLETED"
               /\ \A b, c \in (AttemptsOf(j))' :
                     attempt'[b].status = "COMPLETED" /\ attempt'[c].status = "COMPLETED"
                         => b = c
    <3>1. CASE j = k
      BY <2>2, <2>3, <2>4, <3>1
    <3>2. CASE j # k
      <4>1. \A b \in AttemptsOf(j) : attempt'[b] = attempt[b]
        BY <2>2, <2>5 DEF AttemptsOf
      <4> QED BY <2>2, <2>3, <3>2, <4>1 DEF CompletionAtomic
    <3> QED BY <3>1, <3>2
  <2> QED BY <2>6, <2>7 DEF CompletionAtomic
<1>3. ASSUME NEW k \in Tasks, NEW a \in AttemptIds,
             \/ \E stage \in ProgressStage : Progressed(k, a, stage)
             \/ \E status \in {"FAILED", "CANCELLED"}, retryable \in BOOLEAN :
                   Ended(k, a, status, retryable)
      PROVE  CompletionAtomic'
  <2>1. task[k].status # "COMPLETED" /\ a \in AttemptsOf(k)
    BY <1>3 DEF Progressed, Ended, MarkTerminal, Live, ProgressStage
  <2>2. attempt'[a].status # "COMPLETED" /\ task'[k].status # "COMPLETED"
    <3>1. ASSUME NEW stage \in ProgressStage, Progressed(k, a, stage)
          PROVE  attempt'[a].status = stage /\ task'[k].status = stage
      BY <3>1 DEF Progressed, AttemptRow, TaskRow
    <3>2. ASSUME NEW status, NEW retryable, Ended(k, a, status, retryable)
          PROVE  attempt'[a].status = status /\ task'[k].status = status
      BY <3>2 DEF Ended, MarkTerminal, AttemptRow, TaskRow
    <3> QED BY <1>3, <3>1, <3>2 DEF ProgressStage
  <2>4. file'[k] # "AVAILABLE"
    BY <1>3, <2>1 DEF Progressed, Ended, MarkTerminal, CompletionAtomic
  <2>3. /\ \A b \in AttemptIds : attempt'[b].task = attempt[b].task
        /\ \A j \in Tasks \ {k} : task'[j] = task[j] /\ file'[j] = file[j]
        /\ \A b \in AttemptIds \ {a} : attempt'[b] = attempt[b]
        /\ object' = object
    BY <1>3 DEF Progressed, Ended, MarkTerminal, AttemptRow
  <2> QED BY <2>1, <2>2, <2>3, <2>4 DEF CompletionAtomic, AttemptsOf
<1>4. ASSUME NEW a \in AttemptIds, NEW n \in Names, NEW row \in Nat, Staged(a, n, row)
      PROVE  CompletionAtomic'
  <2>1. /\ object[a].status # "AVAILABLE" /\ object'[a].status # "AVAILABLE"
        /\ \A b \in AttemptIds \ {a} : object'[b] = object[b]
        /\ UNCHANGED <<task, attempt, file>>
    BY <1>4 DEF Staged
  <2> QED BY <2>1 DEF CompletionAtomic, AttemptsOf
<1>5. ASSUME NEW k \in Tasks, NEW a \in AttemptIds, NEW n \in Names, Completed(k, a, n)
      PROVE  CompletionAtomic'
  <2>1. task[k].status # "COMPLETED" /\ a \in AttemptsOf(k)
    BY <1>5 DEF Completed, Live, ProgressStage
  <2>2. /\ attempt'[a].status = "COMPLETED"
        /\ task'[k].status = "COMPLETED"
        /\ file'[k] = "AVAILABLE"
        /\ object'[a].status = "AVAILABLE"
    BY <1>5 DEF Completed, AttemptRow, TaskRow, ObjectRow
  <2>3. /\ \A b \in AttemptIds : attempt'[b].task = attempt[b].task
        /\ \A j \in Tasks \ {k} : task'[j] = task[j] /\ file'[j] = file[j]
        /\ \A b \in AttemptIds \ {a} : attempt'[b] = attempt[b] /\ object'[b] = object[b]
    BY <1>5 DEF Completed, AttemptRow
  <2> QED BY <2>1, <2>2, <2>3 DEF CompletionAtomic, AttemptsOf
<1> QED BY <1>1, <1>2, <1>3, <1>4, <1>5 DEF TablesNext

(* A step adds the attempt with the next number or leaves all numbers.     *)
LEMMA NumberingStep == TypeInv /\ AttemptsNumbered /\ TablesNext => AttemptsNumbered'
<1> SUFFICES ASSUME TypeInv, AttemptsNumbered, TablesNext PROVE AttemptsNumbered'
  OBVIOUS
<1> USE TaskAssumption DEF TypeInv, TypeOK, NoRow
<1>1. ASSUME NEW k \in Tasks, NEW a \in AttemptIds, Created(k, a) \/ Retried(k, a)
      PROVE  AttemptsNumbered'
  <2>1. attempt[a].task \notin Tasks
    BY <1>1 DEF Created, Retried, RowsLinked
  <2>2. task[k].current \in Nat
    BY DEF TaskRow
  <2>3. /\ task'[k].current = task[k].current + 1
        /\ attempt'[a].task = k /\ attempt'[a].no = task[k].current + 1
        /\ \A j \in Tasks \ {k} : task'[j] = task[j]
        /\ \A b \in AttemptIds \ {a} : attempt'[b] = attempt[b]
    BY <1>1, <2>2 DEF Created, Retried, RowsLinked
  <2>4. (AttemptsOf(k))' = AttemptsOf(k) \cup {a} /\ a \notin AttemptsOf(k)
    BY <2>1, <2>3 DEF AttemptsOf
  <2>5. \A j \in Tasks \ {k} : (AttemptsOf(j))' = AttemptsOf(j)
    BY <2>1, <2>3 DEF AttemptsOf
  <2>6. ASSUME NEW j \in Tasks \ {k}
        PROVE  /\ {attempt'[b].no : b \in (AttemptsOf(j))'} = 1..task'[j].current
               /\ \A b, c \in (AttemptsOf(j))' : attempt'[b].no = attempt'[c].no => b = c
    <3>1. \A b \in AttemptsOf(j) : attempt'[b] = attempt[b]
      BY <2>1, <2>3 DEF AttemptsOf
    <3>2. /\ {attempt[b].no : b \in AttemptsOf(j)} = 1..task[j].current
          /\ \A b, c \in AttemptsOf(j) : attempt[b].no = attempt[c].no => b = c
      BY DEF AttemptsNumbered
    <3> QED BY <2>3, <2>5, <3>1, <3>2
  <2>7. /\ {attempt'[b].no : b \in (AttemptsOf(k))'} = 1..task'[k].current
        /\ \A b, c \in (AttemptsOf(k))' : attempt'[b].no = attempt'[c].no => b = c
    <3>1. \A b \in AttemptsOf(k) : attempt'[b] = attempt[b]
      BY <2>3, <2>4 DEF AttemptsOf
    <3>2. /\ {attempt[b].no : b \in AttemptsOf(k)} = 1..task[k].current
          /\ \A b, c \in AttemptsOf(k) : attempt[b].no = attempt[c].no => b = c
      BY DEF AttemptsNumbered
    <3>3. {attempt'[b].no : b \in (AttemptsOf(k))'}
             = {attempt[b].no : b \in AttemptsOf(k)} \cup {task[k].current + 1}
      BY <2>3, <2>4, <3>1
    <3>4. 1..(task[k].current + 1) = 1..task[k].current \cup {task[k].current + 1}
      BY <2>2
    <3>5. \A b \in AttemptsOf(k) : attempt[b].no # task[k].current + 1
      <4>1. \A b \in AttemptsOf(k) : attempt[b].no \in 1..task[k].current
        BY <3>2
      <4> QED BY <2>2, <4>1
    <3> QED BY <2>3, <2>4, <3>1, <3>2, <3>3, <3>4, <3>5
  <2> QED BY <2>6, <2>7 DEF AttemptsNumbered
<1>2. ASSUME ~\E k \in Tasks, a \in AttemptIds : Created(k, a) \/ Retried(k, a)
      PROVE  AttemptsNumbered'
  <2>1. /\ \A k \in Tasks : task'[k].current = task[k].current
        /\ \A a \in AttemptIds :
              attempt'[a].task = attempt[a].task /\ attempt'[a].no = attempt[a].no
    <3>1. ASSUME NEW k \in Tasks, NEW status, NEW retryable,
                 \/ task' = task
                 \/ task' = [task EXCEPT ![k].status = status]
                 \/ task' = [task EXCEPT ![k].status = status, ![k].retryable = retryable]
          PROVE  \A j \in Tasks : task'[j].current = task[j].current
      BY <3>1 DEF TaskRow
    <3>2. ASSUME NEW a \in AttemptIds, NEW status,
                 \/ attempt' = attempt
                 \/ attempt' = [attempt EXCEPT ![a].status = status]
          PROVE  \A b \in AttemptIds :
                     attempt'[b].task = attempt[b].task /\ attempt'[b].no = attempt[b].no
      BY <3>2 DEF AttemptRow
    <3>3. UNCHANGED <<task, attempt>>
          \/ \E k \in Tasks, a \in AttemptIds :
                (\E stage \in ProgressStage : Progressed(k, a, stage))
                \/ (\E n \in Names : Completed(k, a, n))
                \/ (\E status \in {"FAILED", "CANCELLED"}, retryable \in BOOLEAN :
                       Ended(k, a, status, retryable))
      BY <1>2 DEF TablesNext, Staged
    <3>4. ASSUME NEW k \in Tasks, NEW a \in AttemptIds,
                 \/ \E stage \in ProgressStage : Progressed(k, a, stage)
                 \/ \E n \in Names : Completed(k, a, n)
                 \/ \E status \in {"FAILED", "CANCELLED"}, retryable \in BOOLEAN :
                       Ended(k, a, status, retryable)
          PROVE  /\ \A j \in Tasks : task'[j].current = task[j].current
                 /\ \A b \in AttemptIds :
                       attempt'[b].task = attempt[b].task /\ attempt'[b].no = attempt[b].no
      <4>1. \E status, retryable :
               /\ attempt' = [attempt EXCEPT ![a].status = status]
               /\ \/ task' = [task EXCEPT ![k].status = status]
                  \/ task' = [task EXCEPT ![k].status = status, ![k].retryable = retryable]
        BY <3>4 DEF Progressed, Completed, Ended, MarkTerminal
      <4> QED BY <3>1, <3>2, <4>1
    <3> QED BY <3>3, <3>4
  <2>2. \A k \in Tasks : (AttemptsOf(k))' = AttemptsOf(k)
    BY <2>1 DEF AttemptsOf
  <2>3. ASSUME NEW k \in Tasks
        PROVE  /\ {attempt'[b].no : b \in (AttemptsOf(k))'} = 1..task'[k].current
               /\ \A b, c \in (AttemptsOf(k))' : attempt'[b].no = attempt'[c].no => b = c
    <3>1. \A b \in AttemptsOf(k) : attempt'[b].no = attempt[b].no
      BY <2>1 DEF AttemptsOf
    <3>2. /\ {attempt[b].no : b \in AttemptsOf(k)} = 1..task[k].current
          /\ \A b, c \in AttemptsOf(k) : attempt[b].no = attempt[c].no => b = c
      BY DEF AttemptsNumbered
    <3> QED BY <2>1, <2>2, <3>1, <3>2
  <2> QED BY <2>3 DEF AttemptsNumbered
<1> QED BY <1>1, <1>2

(* A step that writes the status of a task writes it to an attempt, too.   *)
LEMMA ReflectionStep == TypeInv /\ TaskReflectsAttempt /\ TablesNext => TaskReflectsAttempt'
<1> SUFFICES ASSUME TypeInv, TaskReflectsAttempt, TablesNext,
                    NEW j \in Tasks, task'[j].status # NoRow
             PROVE  \E a \in (AttemptsOf(j))' : attempt'[a].status = task'[j].status
  BY DEF TaskReflectsAttempt
<1> USE TaskAssumption DEF TypeInv, TypeOK
<1>1. CASE task'[j] = task[j]
           /\ \A a \in AttemptsOf(j) : a \in (AttemptsOf(j))' /\ attempt'[a] = attempt[a]
  BY <1>1 DEF TaskReflectsAttempt
<1>2. CASE \E a \in AttemptIds : attempt'[a].task = j /\ attempt'[a].status = task'[j].status
  BY <1>2 DEF AttemptsOf
<1>3. ASSUME NEW k \in Tasks, NEW a \in AttemptIds,
             Created(k, a) \/ Retried(k, a)
               \/ (\E stage \in ProgressStage : Progressed(k, a, stage))
               \/ (\E n \in Names : Completed(k, a, n))
               \/ (\E status \in {"FAILED", "CANCELLED"}, retryable \in BOOLEAN :
                     Ended(k, a, status, retryable))
      PROVE  \E b \in (AttemptsOf(j))' : attempt'[b].status = task'[j].status
  <2>1. attempt'[a].task = k /\ attempt'[a].status = task'[k].status
    BY <1>3 DEF Created, Retried, Progressed, Completed, Ended, MarkTerminal, AttemptsOf,
                AttemptRow, TaskRow
  <2>2. /\ \A b \in AttemptIds \ {a} : attempt'[b] = attempt[b]
        /\ \A i \in Tasks \ {k} : task'[i] = task[i]
    BY <1>3 DEF Created, Retried, Progressed, Completed, Ended, MarkTerminal
  <2>3. attempt[a].task \in {k, Nil}
    BY <1>3 DEF Created, Retried, Progressed, Completed, Ended, MarkTerminal, AttemptsOf,
                RowsLinked
  <2>4. CASE j = k
    BY <1>2, <2>1, <2>4
  <2>5. CASE j # k
    <3>1. \A b \in AttemptsOf(j) : b # a
      BY <2>3, <2>5 DEF AttemptsOf
    <3> QED BY <1>1, <2>2, <2>5, <3>1 DEF AttemptsOf
  <2> QED BY <2>4, <2>5
<1>4. CASE UNCHANGED <<task, attempt>>
  BY <1>1, <1>4 DEF AttemptsOf
<1> QED BY <1>3, <1>4 DEF TablesNext, Staged

-----------------------------------------------------------------------------
(* Task, file, attempt and object agree on a completion, whatever races    *)
(* and whatever fails (repository Complete, MarkTerminal, CreateRetry).    *)
THEOREM CompletionIsAtomic == Spec => []CompletionAtomic
<1>1. Init => CompletionAtomic
  BY DEF Init, CompletionAtomic, AttemptsOf, NoRow
<1>2. TypeInv /\ CompletionAtomic /\ [Next]_vars => CompletionAtomic'
  BY StepOnTables, CompletionStep
<1> QED BY TypeInvInitial, TypeInvStep, <1>1, <1>2, PTL DEF Spec

(* The attempts of a task are numbered 1, 2, ... however many retries race *)
(* (CreateRetry).                                                          *)
THEOREM AttemptsAreNumbered == Spec => []AttemptsNumbered
<1>1. Init => AttemptsNumbered
  BY TaskAssumption DEF Init, AttemptsNumbered, AttemptsOf
<1>2. TypeInv /\ AttemptsNumbered /\ [Next]_vars => AttemptsNumbered'
  BY StepOnTables, NumberingStep
<1> QED BY TypeInvInitial, TypeInvStep, <1>1, <1>2, PTL DEF Spec

(* Some attempt of a task always has the very status the task has, though  *)
(* it need not be the current one (UpdateProgress, Complete, MarkTerminal). *)
THEOREM TaskReflectsSomeAttempt == Spec => []TaskReflectsAttempt
<1>1. Init => TaskReflectsAttempt
  BY DEF Init, TaskReflectsAttempt
<1>2. TypeInv /\ TaskReflectsAttempt /\ [Next]_vars => TaskReflectsAttempt'
  BY StepOnTables, ReflectionStep
<1> QED BY TypeInvInitial, TypeInvStep, <1>1, <1>2, PTL DEF Spec

(* The four tables are of their types, the attempts numbered, and the      *)
(* status of a task is one of an attempt, whatever is retried, replayed or *)
(* interrupted.                                                            *)
THEOREM TablesStayWellFormed == Spec => []TaskTablesOK
<1>1. TypeOK /\ AttemptsNumbered /\ TaskReflectsAttempt => TaskTablesOK
  BY DEF TaskTablesOK
<1> QED BY <1>1, TypeCorrect, AttemptsAreNumbered, TaskReflectsSomeAttempt, PTL

(* COMPLETED and CANCELLED are for ever, and FAILED is left by an allowed  *)
(* retry only, which opens a new attempt (isTerminalStatus, CreateRetry).  *)
THEOREM TerminalStaysFinal == Spec => TerminalIsFinal
<1> DEFINE Final ==
      \A k \in Tasks :
          /\ task[k].status \in {"COMPLETED", "CANCELLED"} =>
                task'[k] = task[k] /\ file'[k] = file[k]
          /\ task[k].status = "FAILED" /\ task'[k] # task[k] =>
                /\ task[k].retryable
                /\ task'[k].status = "PENDING"
                /\ task'[k].current > task[k].current
<1>1. ASSUME TypeInv, TablesNext PROVE Final
  <2> USE DEF TypeInv, TypeOK
  <2>1. ASSUME NEW k \in Tasks, NEW a \in AttemptIds,
               \/ Created(k, a)
               \/ \E stage \in ProgressStage : Progressed(k, a, stage)
               \/ \E n \in Names : Completed(k, a, n)
               \/ \E status \in {"FAILED", "CANCELLED"}, retryable \in BOOLEAN :
                     Ended(k, a, status, retryable)
        PROVE  Final
    <3>1. task[k].status \notin Terminal
      BY <1>1, <2>1 DEF Created, Progressed, Completed, Ended, MarkTerminal, Live,
                        ProgressStage, Terminal, NoRow
    <3>2. \A j \in Tasks \ {k} : task'[j] = task[j] /\ file'[j] = file[j]
      BY <1>1, <2>1 DEF Created, Progressed, Completed, Ended, MarkTerminal
    <3> QED BY <3>1, <3>2 DEF Terminal
  <2>2. ASSUME NEW k \in Tasks, NEW a \in AttemptIds, Retried(k, a) PROVE Final
    <3>1. task[k].current \in Nat
      BY <1>1 DEF TaskRow
    <3>2. /\ task[k].status = "FAILED" /\ task[k].retryable
          /\ task'[k].status = "PENDING"
          /\ task'[k].current = task[k].current + 1
          /\ \A j \in Tasks \ {k} : task'[j] = task[j] /\ file'[j] = file[j]
      BY <1>1, <2>2 DEF Retried
    <3> QED BY <3>1, <3>2
  <2>3. CASE UNCHANGED <<task, file>>
    BY <2>3
  <2> QED BY <1>1, <2>1, <2>2, <2>3 DEF TablesNext, Staged
<1>2. TypeInv /\ [Next]_vars => [Final]_<<task, file>>
  BY <1>1, StepOnTables
<1> QED BY TypeInvInitial, TypeInvStep, <1>2, PTL DEF Spec, TerminalIsFinal

-----------------------------------------------------------------------------
(***************************************************************************)
(* The bytes of ciphertexts.  When the answer of no commit is lost, the    *)
(* bytes of an available file are safe from every handler and cleaner; a   *)
(* handler that misses the answer of a commit that took place registers    *)
(* the file it has just made available.                                    *)
(***************************************************************************)
(* Objects are never stored under one name. *)
ObjectNamesApart ==
    \A a, b \in AttemptIds :
        object[a].status # NoRow /\ object[b].status # NoRow /\ a # b =>
            object[a].name # object[b].name

(* The object of an available file has its bytes, and no claim on them. *)
AvailableIsSafe ==
    \A a \in AttemptIds : object[a].status = "AVAILABLE" =>
        blob[object[a].name] = "final" /\ orphan[object[a].name] = "NONE"

(* The name of an object has been drawn. *)
ObjectNameUsed ==
    \A a \in AttemptIds : object[a].status # NoRow => blob[object[a].name] # "unused"

(* An upload that has no row yet owns its name. *)
Uploading(h) == req[h].pc \in {"saveStaging", "discard"}
UploadOwnsName ==
    \A h \in Handlers : Uploading(h) =>
        /\ blob[req[h].name] \in {"staging", "gone"}
        /\ \A a \in AttemptIds : object[a].status # NoRow => object[a].name # req[h].name
        /\ \A g \in Handlers \ {h} : Uploading(g) => req[g].name # req[h].name

(* A completion works on the file of the object it read. *)
CompletionNamesObject ==
    \A h \in Handlers : req[h].pc \in {"commit", "complete"} =>
        object[req[h].obj].status # NoRow /\ object[req[h].obj].name = req[h].name

(* The completion that has renamed a file is the only one that holds it,   *)
(* until the file is available or registered.                              *)
Holding(h) == req[h].pc \in {"complete", "orphan"}
CompletionOwnsFile ==
    \A h \in Handlers : Holding(h) =>
        /\ blob[req[h].name] = "final" /\ orphan[req[h].name] = "NONE"
        /\ \A a \in AttemptIds : object[a].status = "AVAILABLE" => object[a].name # req[h].name
        /\ \A g \in Handlers \ {h} : Holding(g) => req[g].name # req[h].name

BytesInv == /\ ObjectNamesApart
            /\ AvailableIsSafe
            /\ ObjectNameUsed
            /\ UploadOwnsName
            /\ CompletionNamesObject
            /\ CompletionOwnsFile

BlobsInv == TypeInv /\ CleanupInv /\ BytesInv

-----------------------------------------------------------------------------
(* The empty stores satisfy it. *)
LEMMA BlobsInvInitial == Init => BlobsInv
<1>1. Init => CleanupInv
  BY CleanupInvInitial DEF Init
<1>2. Init => BytesInv
  BY DEF Init, BytesInv, ObjectNamesApart, AvailableIsSafe, ObjectNameUsed, UploadOwnsName,
         Uploading, CompletionNamesObject, CompletionOwnsFile, Holding, Idle, NoRow
<1> QED BY <1>1, <1>2, TypeInvInitial DEF BlobsInv

(* The handler steps that touch neither files nor objects, and after which *)
(* the handler has no name in hand, keep the bytes safe.                   *)
Quiet(h) ==
    /\ UNCHANGED <<blob, orphan, object>>
    /\ \A g \in Handlers \ {h} : req'[g] = req[g]
    /\ req'[h].pc \notin {"saveStaging", "discard", "commit", "complete", "orphan"}

(* A quiet step keeps the bytes safe. *)
LEMMA QuietStep ==
    ASSUME BytesInv, NEW h \in Handlers, Quiet(h)
    PROVE  BytesInv'
<1> USE DEF BytesInv, Quiet
<1>1. ObjectNamesApart' /\ AvailableIsSafe' /\ ObjectNameUsed'
  BY DEF ObjectNamesApart, AvailableIsSafe, ObjectNameUsed
<1>2. UploadOwnsName'
  BY DEF UploadOwnsName, Uploading
<1>3. CompletionNamesObject'
  BY DEF CompletionNamesObject
<1>4. CompletionOwnsFile'
  BY DEF CompletionOwnsFile, Holding
<1> QED BY <1>1, <1>2, <1>3, <1>4

(* SaveStagingObject hands the name of the upload over to the object.      *)
LEMMA SaveStagingStep ==
    ASSUME ~AmbiguousCommit, BlobsInv, NEW h \in Handlers, SaveStagingObject(h)
    PROVE  BytesInv'
<1> USE DEF BlobsInv, BytesInv, TypeInv, TypeOK
<1>1. /\ req[h].att \in AttemptIds /\ req[h].name \in Names
      /\ Uploading(h)
      /\ UNCHANGED <<blob, orphan>>
      /\ \A g \in Handlers \ {h} : req'[g] = req[g]
  BY DEF SaveStagingObject, RequestInHand, Uploading, GoTo, Return, cleanupVars
<1>2. CASE GoTo(h, "discard") /\ UNCHANGED object
  <2>1. req'[h].pc = "discard" /\ req'[h].name = req[h].name
    BY <1>2 DEF GoTo, Request
  <2>2. ObjectNamesApart' /\ AvailableIsSafe' /\ ObjectNameUsed'
    BY <1>1, <1>2 DEF ObjectNamesApart, AvailableIsSafe, ObjectNameUsed
  <2>3. UploadOwnsName'
    BY <1>1, <1>2, <2>1 DEF UploadOwnsName, Uploading
  <2>4. CompletionNamesObject' /\ CompletionOwnsFile'
    BY <1>1, <1>2, <2>1 DEF CompletionNamesObject, CompletionOwnsFile, Holding
  <2> QED BY <2>2, <2>3, <2>4
<1>3. CASE /\ object[req[h].att].status = NoRow
           /\ object' = [object EXCEPT ![req[h].att] =
                            [status |-> "STAGING", name |-> req[h].name, row |-> lastRow + 1]]
           /\ Return(h)
  <2>1. /\ req'[h].pc = "idle"
        /\ object'[req[h].att].status = "STAGING" /\ object'[req[h].att].name = req[h].name
        /\ \A a \in AttemptIds \ {req[h].att} : object'[a] = object[a]
    BY <1>1, <1>3 DEF Return, Idle
  <2>2. ObjectNamesApart' /\ AvailableIsSafe' /\ ObjectNameUsed'
    BY <1>1, <2>1 DEF ObjectNamesApart, AvailableIsSafe, ObjectNameUsed, UploadOwnsName
  <2>3. UploadOwnsName'
    BY <1>1, <2>1 DEF UploadOwnsName, Uploading
  <2>4. CompletionNamesObject'
    BY <1>1, <1>3, <2>1 DEF CompletionNamesObject
  <2>5. CompletionOwnsFile'
    BY <1>1, <2>1 DEF CompletionOwnsFile, Holding
  <2> QED BY <2>2, <2>3, <2>4, <2>5
<1> QED BY <1>2, <1>3 DEF SaveStagingObject

(* The loser of two uploads deletes a file no object has.                  *)
LEMMA DiscardStep ==
    ASSUME BlobsInv, NEW h \in Handlers, DiscardUpload(h)
    PROVE  BytesInv'
<1> USE DEF BlobsInv, BytesInv, TypeInv, TypeOK, CleanupTypeOK
<1> DEFINE n == req[h].name
<1>1. /\ n \in Names /\ Uploading(h)
      /\ req'[h].pc = "idle"
      /\ \A g \in Handlers \ {h} : req'[g] = req[g]
      /\ UNCHANGED <<orphan, object>>
  BY DEF DiscardUpload, RequestInHand, Uploading, Return, Idle
<1>2. /\ \A m \in Names \ {n} : blob'[m] = blob[m]
      /\ blob'[n] = "gone" /\ blob[n] \in {"staging", "gone"}
  BY <1>1 DEF DiscardUpload, UploadOwnsName
<1>3. \A a \in AttemptIds : object[a].status # NoRow =>
          object[a].name # n /\ object[a].name \in Names
  BY <1>1 DEF UploadOwnsName, RowsLinked
<1> HIDE DEF n
<1>4. ObjectNamesApart' /\ AvailableIsSafe' /\ ObjectNameUsed'
  BY <1>1, <1>2, <1>3 DEF ObjectNamesApart, AvailableIsSafe, ObjectNameUsed, NoRow
<1>5. UploadOwnsName'
  BY <1>1, <1>2 DEF UploadOwnsName, Uploading, RequestInHand
<1>6. CompletionNamesObject'
  BY <1>1 DEF CompletionNamesObject
<1>7. CompletionOwnsFile'
  BY <1>1, <1>2 DEF CompletionOwnsFile, Holding, RequestInHand
<1> QED BY <1>4, <1>5, <1>6, <1>7

(* The rename makes the handler the one holder of the file: it can happen  *)
(* once, and nobody has registered a file that was still staged.           *)
LEMMA CommitStep ==
    ASSUME BlobsInv, NEW h \in Handlers, CommitCiphertext(h)
    PROVE  BytesInv'
<1> USE DEF BlobsInv, BytesInv, TypeInv, TypeOK, CleanupTypeOK
<1> DEFINE n == req[h].name
<1>1. /\ req[h].pc = "commit" /\ n \in Names /\ req[h].obj \in AttemptIds
      /\ UNCHANGED <<orphan, object>>
      /\ \A g \in Handlers \ {h} : req'[g] = req[g]
  BY DEF CommitCiphertext, RequestInHand, Return, GoTo
<1>2. CASE Return(h) /\ UNCHANGED blob
  BY <1>1, <1>2, QuietStep DEF Quiet, Return, Idle
<1>3. CASE blob[n] = "staging" /\ blob' = [blob EXCEPT ![n] = "final"] /\ GoTo(h, "complete")
  <2>1. /\ req'[h].pc = "complete" /\ req'[h].name = n /\ req'[h].obj = req[h].obj
    BY <1>3 DEF GoTo, Request
  <2>2. /\ object[req[h].obj].status # NoRow /\ object[req[h].obj].name = n
        /\ orphan[n] = "NONE"
        /\ \A a \in AttemptIds : object[a].status = "AVAILABLE" => object[a].name # n
        /\ \A g \in Handlers : Holding(g) => req[g].name # n
        /\ \A g \in Handlers : Uploading(g) => req[g].name # n
    BY <1>1, <1>3 DEF CompletionNamesObject, CleanupInv, OrphanWasFinal, AvailableIsSafe,
                      CompletionOwnsFile, UploadOwnsName
  <2>3. \A m \in Names : blob'[m] = IF m = n THEN "final" ELSE blob[m]
    BY <1>3
  <2> HIDE DEF n
  <2>4. ObjectNamesApart' /\ AvailableIsSafe' /\ ObjectNameUsed'
    BY <1>1, <2>2, <2>3
       DEF ObjectNamesApart, AvailableIsSafe, ObjectNameUsed, RowsLinked, NoRow
  <2>5. UploadOwnsName'
    BY <1>1, <2>1, <2>2, <2>3 DEF UploadOwnsName, Uploading, RequestInHand
  <2>6. CompletionNamesObject'
    BY <1>1, <2>1, <2>2 DEF CompletionNamesObject
  <2>7. CompletionOwnsFile'
    BY <1>1, <2>1, <2>2, <2>3 DEF CompletionOwnsFile, Holding, RequestInHand
  <2> QED BY <2>4, <2>5, <2>6, <2>7
<1> QED BY <1>2, <1>3 DEF CommitCiphertext

(* The completing transaction hands the file over to the object, or keeps  *)
(* it in hand to register it.                                              *)
LEMMA CompleteStep ==
    ASSUME ~AmbiguousCommit, BlobsInv, NEW h \in Handlers, CompleteTx(h)
    PROVE  BytesInv'
<1> USE DEF BlobsInv, BytesInv, TypeInv, TypeOK
<1> DEFINE n == req[h].name
           o == req[h].obj
<1>1. /\ req[h].pc = "complete" /\ n \in Names /\ o \in AttemptIds /\ Holding(h)
      /\ UNCHANGED <<blob, orphan>>
      /\ \A g \in Handlers \ {h} : req'[g] = req[g]
  BY DEF CompleteTx, RequestInHand, GoTo, Holding, cleanupVars
<1>2. CASE GoTo(h, "release") /\ UNCHANGED object
  <2>1. req'[h].pc = "release"
    BY <1>2 DEF GoTo, Request
  <2> QED BY <1>1, <1>2, <2>1, QuietStep DEF Quiet
<1>3. CASE GoTo(h, "orphan") /\ UNCHANGED object
  <2>1. req'[h].pc = "orphan" /\ req'[h].name = n
    BY <1>3 DEF GoTo, Request
  <2> HIDE DEF n, o
  <2>2. ObjectNamesApart' /\ AvailableIsSafe' /\ ObjectNameUsed'
    BY <1>1, <1>3 DEF ObjectNamesApart, AvailableIsSafe, ObjectNameUsed
  <2>3. UploadOwnsName' /\ CompletionNamesObject'
    BY <1>1, <1>3, <2>1 DEF UploadOwnsName, Uploading, CompletionNamesObject
  <2>4. CompletionOwnsFile'
    BY <1>1, <1>3, <2>1 DEF CompletionOwnsFile, Holding, n
  <2> QED BY <2>2, <2>3, <2>4
<1>4. CASE /\ object' = [object EXCEPT ![o].status = "AVAILABLE", ![o].name = n]
           /\ GoTo(h, "release")
  <2>1. req'[h].pc = "release"
    BY <1>4 DEF GoTo, Request
  <2>2. /\ object'[o].status = "AVAILABLE" /\ object'[o].name = n
        /\ \A a \in AttemptIds \ {o} : object'[a] = object[a]
    BY <1>1, <1>4 DEF ObjectRow
  <2>3. object[o].status # NoRow /\ object[o].name = n
    BY <1>1 DEF CompletionNamesObject
  <2>4. /\ blob[n] = "final" /\ orphan[n] = "NONE"
        /\ \A g \in Handlers \ {h} : Holding(g) => req[g].name # n
    BY <1>1 DEF CompletionOwnsFile
  <2> HIDE DEF n, o
  <2>5. ObjectNamesApart'
    BY <1>1, <2>2, <2>3 DEF ObjectNamesApart
  <2>6. AvailableIsSafe' /\ ObjectNameUsed'
    BY <1>1, <2>2, <2>4 DEF AvailableIsSafe, ObjectNameUsed
  <2>7. UploadOwnsName'
    BY <1>1, <2>1, <2>2, <2>3 DEF UploadOwnsName, Uploading
  <2>8. CompletionNamesObject'
    BY <1>1, <2>1, <2>2, <2>3 DEF CompletionNamesObject, RequestInHand, NoRow
  <2>9. CompletionOwnsFile'
    BY <1>1, <2>1, <2>2, <2>3, <2>4 DEF CompletionOwnsFile, Holding
  <2> QED BY <2>5, <2>6, <2>7, <2>8, <2>9
<1> QED BY <1>2, <1>3, <1>4 DEF CompleteTx

(* A registered file belongs to no available object and to no other        *)
(* completion.                                                             *)
LEMMA RegisterStep ==
    ASSUME BlobsInv, NEW h \in Handlers, RegisterFailedCompletion(h)
    PROVE  BytesInv' /\ CleanupInv'
<1> USE DEF BlobsInv, BytesInv, TypeInv, TypeOK, CleanupTypeOK
<1> DEFINE n == req[h].name
<1>1. /\ req[h].pc = "orphan" /\ n \in Names /\ Holding(h)
      /\ req'[h].pc = "idle"
      /\ UNCHANGED <<blob, cleaner, object>>
      /\ \A g \in Handlers \ {h} : req'[g] = req[g]
      /\ \A m \in Names \ {n} : orphan'[m] = orphan[m]
      /\ orphan'[n] \in {orphan[n], "PENDING"}
      /\ orphan' \in [Names -> OrphanStatus]
  BY DEF RegisterFailedCompletion, RegisterOrphan, RequestInHand, Return, Idle, Holding,
         OrphanStatus
<1>2. /\ blob[n] = "final" /\ orphan[n] = "NONE"
      /\ \A a \in AttemptIds : object[a].status = "AVAILABLE" => object[a].name # n
      /\ \A g \in Handlers \ {h} : Holding(g) => req[g].name # n
  BY <1>1 DEF CompletionOwnsFile
<1> HIDE DEF n
<1>3. ObjectNamesApart' /\ AvailableIsSafe' /\ ObjectNameUsed'
  BY <1>1, <1>2 DEF ObjectNamesApart, AvailableIsSafe, ObjectNameUsed, RowsLinked, NoRow
<1>4. UploadOwnsName' /\ CompletionNamesObject'
  BY <1>1 DEF UploadOwnsName, Uploading, CompletionNamesObject
<1>5. CompletionOwnsFile'
  BY <1>1, <1>2 DEF CompletionOwnsFile, Holding, RequestInHand
<1>6. \A c \in Cleaners : n \notin cleaner[c].todo
  BY <1>1, <1>2 DEF CleanupInv, ClaimExclusive
<1>7. CleanupTypeOK' /\ CleanerInHand' /\ DeletedIsGone'
  BY <1>1 DEF CleanupInv, CleanerInHand, DeletedIsGone
<1>8. OrphanWasFinal' /\ CleanedIsGone'
  BY <1>1, <1>2 DEF CleanupInv, OrphanWasFinal, CleanedIsGone
<1>9. ClaimExclusive'
  BY <1>1, <1>6 DEF CleanupInv, ClaimExclusive
<1> QED BY <1>3, <1>4, <1>5, <1>7, <1>8, <1>9 DEF CleanupInv

(* A new upload draws a name that nothing has.                             *)
LEMMA UploadStep ==
    ASSUME BlobsInv, NEW h \in Handlers, NEW k \in Tasks, NEW a \in AttemptIds,
           NEW n \in Names, UploadCiphertext(h, k, a, n)
    PROVE  BytesInv'
<1> USE DEF BlobsInv, BytesInv, TypeInv, TypeOK, CleanupTypeOK
<1>1. /\ req'[h].pc = "saveStaging" /\ req'[h].name = n
      /\ UNCHANGED <<orphan, object>>
      /\ \A g \in Handlers \ {h} : req'[g] = req[g]
      /\ blob[n] = "unused"
      /\ \A m \in Names : blob'[m] = IF m = n THEN "staging" ELSE blob[m]
  BY DEF UploadCiphertext, Begin, Idle
<1>2. \A b \in AttemptIds : object[b].status # NoRow =>
          object[b].name # n /\ object[b].name \in Names
  BY <1>1 DEF ObjectNameUsed, RowsLinked
<1>3. ObjectNamesApart' /\ AvailableIsSafe' /\ ObjectNameUsed'
  BY <1>1, <1>2 DEF ObjectNamesApart, AvailableIsSafe, ObjectNameUsed, NoRow
<1>4. UploadOwnsName'
  BY <1>1, <1>2 DEF UploadOwnsName, Uploading, RequestInHand
<1>5. CompletionNamesObject'
  BY <1>1 DEF CompletionNamesObject
<1>6. CompletionOwnsFile'
  BY <1>1 DEF CompletionOwnsFile, Holding, RequestInHand
<1> QED BY <1>3, <1>4, <1>5, <1>6

(* A completion that begins names the object it has read.                  *)
LEMMA CompleteBegins ==
    ASSUME BlobsInv, NEW h \in Handlers, NEW k \in Tasks, NEW a \in AttemptIds,
           NEW b \in AttemptIds, Complete(h, k, a, b)
    PROVE  BytesInv'
<1> USE DEF BlobsInv, BytesInv, TypeInv, TypeOK
<1>1. /\ req'[h].pc = "commit" /\ req'[h].obj = b /\ req'[h].name = object[b].name
      /\ object[b].status # NoRow
      /\ UNCHANGED <<blob, orphan, object>>
      /\ \A g \in Handlers \ {h} : req'[g] = req[g]
  BY DEF Complete, Begin, NoRow, cleanupVars
<1>2. ObjectNamesApart' /\ AvailableIsSafe' /\ ObjectNameUsed'
  BY <1>1 DEF ObjectNamesApart, AvailableIsSafe, ObjectNameUsed
<1>3. UploadOwnsName' /\ CompletionNamesObject' /\ CompletionOwnsFile'
  BY <1>1 DEF UploadOwnsName, Uploading, CompletionNamesObject, CompletionOwnsFile, Holding
<1> QED BY <1>2, <1>3

(* The cleaner works on registered names and on staging files, and no      *)
(* available object has one of these.                                      *)
LEMMA CleanerBytesStep ==
    ASSUME BlobsInv, NEW c \in Cleaners, CleanerStep(c), UNCHANGED serviceVars
    PROVE  BytesInv'
<1> USE DEF BlobsInv, BytesInv, TypeInv, TypeOK, CleanupTypeOK, serviceVars
<1>1. \A n \in Names :
         /\ orphan[n] = "NONE" => orphan'[n] = "NONE"
         /\ orphan[n] = "NONE" /\ blob[n] = "final" => blob'[n] = "final"
         /\ blob'[n] \in {blob[n], "gone"}
         /\ blob'[n] # blob[n] => blob[n] # "unused"
  <2>1. ASSUME NEW batch \in SUBSET Names, ClaimOrphans(c, batch)
        PROVE  /\ \A n \in Names : orphan[n] = "NONE" => orphan'[n] = "NONE"
               /\ blob' = blob
    <3>1. \A n \in batch : orphan[n] # "NONE"
      BY <2>1 DEF ClaimOrphans, Due
    <3> QED BY <2>1, <3>1 DEF ClaimOrphans
  <2>2. ASSUME NEW m \in Names, DeleteOrphan(c, m) \/ DeleteOrphanFails(c, m)
        PROVE  /\ orphan' = orphan /\ orphan[m] = "CLEANING" /\ blob[m] # "unused"
               /\ \A n \in Names : blob'[n] = blob[n] \/ (n = m /\ blob'[n] = "gone")
    <3>1. m \in cleaner[c].todo /\ orphan' = orphan
      BY <2>2 DEF DeleteOrphan, DeleteOrphanFails
    <3>2. orphan[m] = "CLEANING" /\ blob[m] # "unused"
      BY <3>1 DEF CleanupInv, ClaimExclusive, OrphanWasFinal
    <3> QED BY <2>2, <3>1, <3>2 DEF DeleteOrphan, DeleteOrphanFails
  <2>3. ASSUME SaveOrphanResult(c)
        PROVE  /\ blob' = blob
               /\ \A n \in Names : orphan[n] = "NONE" => orphan'[n] = "NONE"
    <3>1. cleaner[c].item \in cleaner[c].todo /\ cleaner[c].item \in Names
      BY <2>3 DEF SaveOrphanResult, CleanerInHand, Run
    <3>2. orphan[cleaner[c].item] = "CLEANING"
      BY <3>1 DEF CleanupInv, ClaimExclusive
    <3> QED BY <2>3, <3>1, <3>2 DEF SaveOrphanResult
  <2>4. ASSUME NEW expired \in SUBSET Names, DeleteExpiredStaging(c, expired)
        PROVE  /\ orphan' = orphan
               /\ \A n \in Names : blob'[n] = blob[n]
                                    \/ (blob[n] = "staging" /\ blob'[n] = "gone")
    BY <2>4 DEF DeleteExpiredStaging, StagingFiles
  <2>5. ASSUME SaveOrphanError(c) \/ CleanerCrash(c)
        PROVE  UNCHANGED <<blob, orphan>>
    BY <2>5 DEF SaveOrphanError, CleanerCrash
  <2> QED BY <2>1, <2>2, <2>3, <2>4, <2>5 DEF CleanerStep
<1>2. ObjectNamesApart' /\ AvailableIsSafe' /\ ObjectNameUsed'
  BY <1>1 DEF ObjectNamesApart, AvailableIsSafe, ObjectNameUsed, RowsLinked, NoRow
<1>3. UploadOwnsName'
  BY <1>1 DEF UploadOwnsName, Uploading, RequestInHand
<1>4. CompletionNamesObject'
  BY DEF CompletionNamesObject
<1>5. CompletionOwnsFile'
  BY <1>1 DEF CompletionOwnsFile, Holding, RequestInHand
<1> QED BY <1>2, <1>3, <1>4, <1>5

-----------------------------------------------------------------------------
(* The service moves no file that a cleaner has in hand.                   *)
LEMMA CleanupKept ==
    ASSUME BlobsInv, NEW h \in Handlers,
           \/ HandlerStep(h)
           \/ \E k \in Tasks, a \in AttemptIds : RequestArrives(h, k, a)
    PROVE  CleanupInv'
<1> USE DEF BlobsInv, CleanupInv
<1>1. CASE UNCHANGED cleanupVars
  BY <1>1 DEF cleanupVars, CleanupTypeOK, CleanerInHand, DeletedIsGone, OrphanWasFinal,
              ClaimExclusive, CleanedIsGone
<1>2. ASSUME UNCHANGED <<orphan, cleaner>>, NEW n \in Names,
             \/ blob[n] = "unused" /\ blob' = [blob EXCEPT ![n] = "staging"]
             \/ blob[n] = "staging" /\ blob' = [blob EXCEPT ![n] = "final"]
             \/ blob[n] = "staging" /\ blob' = [blob EXCEPT ![n] = "gone"]
      PROVE  CleanupInv'
  <2>1. orphan[n] = "NONE"
    BY <1>2 DEF OrphanWasFinal
  <2>2. \A m \in Names \ {n} : blob'[m] = blob[m]
    BY <1>2 DEF CleanupTypeOK
  <2>3. CleanupTypeOK' /\ CleanerInHand' /\ ClaimExclusive'
    BY <1>2 DEF CleanupTypeOK, BlobStatus, CleanerInHand, ClaimExclusive
  <2>4. OrphanWasFinal' /\ CleanedIsGone'
    BY <1>2, <2>1, <2>2 DEF OrphanWasFinal, CleanedIsGone
  <2>5. DeletedIsGone'
    BY <1>2 DEF DeletedIsGone, CleanupTypeOK, CleanerInHand, Run
  <2> QED BY <2>3, <2>4, <2>5
<1>3. CASE DiscardUpload(h) \/ CommitCiphertext(h)
  <2>1. req[h].name \in Names
    BY <1>3 DEF DiscardUpload, CommitCiphertext, TypeInv, RequestInHand
  <2>2. UNCHANGED <<orphan, cleaner>>
    BY <1>3 DEF DiscardUpload, CommitCiphertext
  <2> QED BY <1>1, <1>2, <1>3, <2>1, <2>2 DEF DiscardUpload, CommitCiphertext, cleanupVars
<1>4. CASE RegisterFailedCompletion(h)
  BY <1>4, RegisterStep
<1>5. CASE CreateTaskTx(h) \/ SaveStagingObject(h) \/ CompleteTx(h) \/ CancelTx(h)
              \/ CreateRetryTx(h) \/ Release(h) \/ HandlerCrash(h)
  BY <1>1, <1>5 DEF CreateTaskTx, SaveStagingObject, CompleteTx, CancelTx, CreateRetryTx,
                    Release, HandlerCrash, cleanupVars
<1>6. ASSUME NEW k \in Tasks, NEW a \in AttemptIds, RequestArrives(h, k, a)
      PROVE  CleanupInv'
  <2>1. ASSUME NEW n \in Names, UploadCiphertext(h, k, a, n) PROVE CleanupInv'
    BY <1>2, <2>1 DEF UploadCiphertext
  <2>2. CASE UNCHANGED cleanupVars
    BY <1>1, <2>2
  <2> QED BY <1>6, <2>1, <2>2 DEF RequestArrives, CreateTask, Complete, Fail, Cancel, Retry
<1> QED BY <1>3, <1>4, <1>5, <1>6 DEF HandlerStep

(* Every step keeps the bytes safe when the answer of no commit is lost.   *)
LEMMA BlobsInvStep ==
    ASSUME "ambiguous_commit" \notin Faults
    PROVE  BlobsInv /\ [Next]_vars => BlobsInv'
<1> SUFFICES ASSUME BlobsInv, [Next]_vars PROVE BlobsInv'
  OBVIOUS
<1>1. ~AmbiguousCommit
  BY DEF AmbiguousCommit
<1>2. TypeInv'
  BY TypeInvStep DEF BlobsInv
<1>3. ASSUME NEW h \in Handlers, HandlerStep(h) PROVE BytesInv' /\ CleanupInv'
  <2>1. CASE CreateTaskTx(h) \/ CancelTx(h) \/ CreateRetryTx(h) \/ Release(h) \/ HandlerCrash(h)
    <3>1. UNCHANGED <<blob, orphan, object>> /\ (Return(h) \/ GoTo(h, "release"))
      BY <2>1 DEF CreateTaskTx, CancelTx, CreateRetryTx, Release, HandlerCrash, cleanupVars
    <3>2. req'[h].pc \in {"idle", "release"} /\ \A g \in Handlers \ {h} : req'[g] = req[g]
      BY <3>1 DEF Return, GoTo, Idle, BlobsInv, TypeInv, TypeOK, Request
    <3>3. Quiet(h)
      BY <3>1, <3>2 DEF Quiet
    <3> QED BY <1>3, <3>3, QuietStep, CleanupKept DEF BlobsInv
  <2> QED BY <1>1, <1>3, <2>1, SaveStagingStep, DiscardStep, CommitStep, CompleteStep,
             RegisterStep, CleanupKept DEF HandlerStep
<1>4. ASSUME NEW h \in Handlers, NEW k \in Tasks, NEW a \in AttemptIds,
             RequestArrives(h, k, a)
      PROVE  BytesInv' /\ CleanupInv'
  <2>1. CASE \/ CreateTask(h, k, a) \/ Cancel(h, k, a) \/ Retry(h, k, a)
             \/ \E retryable \in BOOLEAN : Fail(h, k, a, retryable)
    <3>1. Quiet(h)
      BY <2>1 DEF CreateTask, Cancel, Retry, Fail, Quiet, Begin, Idle, cleanupVars, BlobsInv,
                  TypeInv, TypeOK
    <3> QED BY <1>4, <3>1, QuietStep, CleanupKept DEF BlobsInv
  <2> QED BY <1>4, <2>1, UploadStep, CompleteBegins, CleanupKept DEF RequestArrives
<1>5. ASSUME UNCHANGED <<cleanupVars, object, req>> PROVE BytesInv' /\ CleanupInv'
  BY <1>5 DEF BlobsInv, BytesInv, ObjectNamesApart, AvailableIsSafe, ObjectNameUsed,
       UploadOwnsName, Uploading, CompletionNamesObject, CompletionOwnsFile, Holding,
       CleanupInv, cleanupVars, CleanupTypeOK, CleanerInHand, DeletedIsGone, OrphanWasFinal,
       ClaimExclusive, CleanedIsGone
<1>6. ASSUME \/ \E k \in Tasks, a \in AttemptIds, s \in ReportedStages : ReportProgress(k, a, s)
             \/ \E k \in Tasks, a \in AttemptIds, rt \in BOOLEAN : FailUnanswered(k, a, rt)
             \/ \E a \in AttemptIds : LeaseExpires(a)
             \/ UNCHANGED vars
      PROVE  UNCHANGED <<cleanupVars, object, req>>
  BY <1>6 DEF ReportProgress, FailUnanswered, LeaseExpires, vars, cleanupVars
<1>7. ASSUME NEW c \in Cleaners, CleanerStep(c) /\ UNCHANGED serviceVars
      PROVE  BytesInv' /\ CleanupInv'
  BY <1>7, CleanerBytesStep, CleanerInvStep DEF BlobsInv
<1> QED BY <1>2, <1>3, <1>4, <1>5, <1>6, <1>7 DEF Next, BlobsInv

-----------------------------------------------------------------------------
(* The bytes of an available file are never removed, by a losing upload,   *)
(* another completion or the cleaner, whatever crashes and whichever write *)
(* fails, as long as the answer of no commit is lost (Complete, Run).      *)
THEOREM AvailableStaysReadable ==
    ASSUME "ambiguous_commit" \notin Faults
    PROVE  Spec => []AvailableFileReadable
<1>1. BlobsInv => AvailableFileReadable
  BY DEF BlobsInv, BytesInv, AvailableIsSafe, AvailableFileReadable
<1>2. BlobsInv /\ [Next]_vars => BlobsInv'
  BY BlobsInvStep
<1> QED BY BlobsInvInitial, <1>1, <1>2, PTL DEF Spec

(* The key of an available file is never in the table of orphans, under    *)
(* the same condition (RegisterOrphan).                                    *)
THEOREM LiveFileNeverOrphan ==
    ASSUME "ambiguous_commit" \notin Faults
    PROVE  Spec => []OrphanNeverLive
<1>1. BlobsInv => OrphanNeverLive
  BY DEF BlobsInv, BytesInv, AvailableIsSafe, OrphanNeverLive
<1>2. BlobsInv /\ [Next]_vars => BlobsInv'
  BY BlobsInvStep
<1> QED BY BlobsInvInitial, <1>1, <1>2, PTL DEF Spec

(* Under the same condition the cleaners' claims stay exclusive and        *)
(* CLEANED means gone, also beside the service (CleanupSpec proves it for  *)
(* the cleaners and a schematic service).                                  *)
THEOREM CleanupSafeInService ==
    ASSUME "ambiguous_commit" \notin Faults
    PROVE  Spec => [](ClaimExclusive /\ CleanedIsGone)
<1>1. BlobsInv => ClaimExclusive /\ CleanedIsGone
  BY DEF BlobsInv, CleanupInv
<1>2. BlobsInv /\ [Next]_vars => BlobsInv'
  BY BlobsInvStep
<1> QED BY BlobsInvInitial, <1>1, <1>2, PTL DEF Spec
=============================================================================
