------------------------------- MODULE FileKeys -------------------------------
(***************************************************************************)
(* Who can read a file: RSA public keys of members, the recipients that an *)
(* encryption task freezes, the crypto worker that seals the file and its  *)
(* data key for them, the checks on completion, and the worker that opens  *)
(* a downloaded file again.  EncryptionTask has the races between requests *)
(* of the task; here a request is one step, and time passes between them.  *)
(*                                                                         *)
(* One owner encrypts one file.  The desktop program executes a task in    *)
(* runs: a run that starts over sends the same idempotency key and gets    *)
(* the task that is there, but draws a new data key.  The program that     *)
(* completes a task may be wrong about the recipients, never about the     *)
(* data key of its own run.                                                *)
(***************************************************************************)
EXTENDS ContentCipher, FiniteSets

CONSTANTS Members, Owner,   \* users of the tenant, the one who encrypts
          Keys,             \* RSA key pairs
          Runs,             \* executions by the desktop program
          Original,         \* bytes of the source file
          Edits,            \* what others may make of the source file
          MaxAttempts,      \* bound on the attempts of the task
          MaxEdits, MaxStatusChanges,
          Nil

VARIABLES rsaKeys,    \* rsa_public_keys
          active,     \* members whose membership is ACTIVE
          directory,  \* recipients that the desktop program last listed
          source,     \* the file on the owner's disk and its mtime
          task,       \* encryption_tasks, with the frozen authorization
          objects,    \* ciphertext_objects in order, with the stored bytes
          file,       \* encrypted_files and its key envelopes
          runs,       \* what each run is at
          opened,     \* what each private key last recovered, if anything
          changes     \* changes of the status of keys so far

vars == <<rsaKeys, active, directory, source, task, objects, file, runs, opened, changes>>

KeyStatuses == {"ACTIVE", "DISABLED", "REVOKED"}
Recipients == [user : Members, key : Keys]

\* What the files are made of.
Bytes == UNION {Range(bytes) : bytes \in Edits \cup {Original}}

ASSUME FileKeysAssumption ==
  /\ Owner \in Members
  /\ Edits \cup {Original} \subseteq Seq(Bytes)
  /\ Len(Original) > 0
  /\ Nil \notin Members \cup Keys
  /\ MaxAttempts \in Nat \ {0}
  /\ MaxEdits \in Nat /\ MaxStatusChanges \in Nat

NoKey == [user |-> Nil, version |-> 0, status |-> "DISABLED"]
NoRun == [pc |-> "idle", recipients |-> {}, attempt |-> 0, plain |-> <<>>,
          mtime |-> 0, header |-> Nil, chunks |-> <<>>]
NoTask == [status |-> "NONE", attempt |-> 0, size |-> 0, type |-> Nil, recipients |-> {}]
NoFile == [status |-> "DRAFT", object |-> 0, envelopes |-> {}]

Init ==
  /\ rsaKeys = [k \in Keys |-> NoKey]
  /\ active = Members
  /\ directory = {}
  /\ source = [bytes |-> Original, mtime |-> 0]
  /\ task = NoTask
  /\ objects = <<>>
  /\ file = NoFile
  /\ runs = [r \in Runs |-> NoRun]
  /\ opened = [k \in Keys |-> <<>>]
  /\ changes = 0

(***************************************************************************)
(* RSA public keys                                                         *)
(***************************************************************************)
Registered == {k \in Keys : rsaKeys[k] # NoKey}

\* Mutant: keys that are out of use are not counted.
NextVersionOfActive(user) ==
  1 + Cardinality({k \in Registered : rsaKeys[k].user = user /\ rsaKeys[k].status = "ACTIVE"})

NextVersion(user) ==
  1 + Cardinality({k \in Registered : rsaKeys[k].user = user})

\* The same key again is answered with its row, whatever status that has; a
\* key that is another member's is refused.
CreateVersion(user, key) ==
  /\ key \notin Registered
  /\ rsaKeys' = [rsaKeys EXCEPT ![key] = [user |-> user, status |-> "ACTIVE",
                                          version |-> NextVersion(user)]]

RegisterMyKey(user, key) ==
  /\ user \in active
  /\ CreateVersion(user, key)
  /\ UNCHANGED <<active, directory, source, task, objects, file, runs, opened, changes>>

UpdateStatus(key, status) ==
  /\ key \in Registered
  /\ changes < MaxStatusChanges
  /\ rsaKeys[key].status # status
  /\ rsaKeys' = [rsaKeys EXCEPT ![key].status = status]
  /\ changes' = changes + 1
  /\ UNCHANGED <<active, directory, source, task, objects, file, runs, opened>>

MemberLeaves(user) ==
  /\ user \in active \ {Owner}
  /\ active' = active \ {user}
  /\ UNCHANGED <<rsaKeys, directory, source, task, objects, file, runs, opened, changes>>

ActiveKeys == {k \in Registered : rsaKeys[k].status = "ACTIVE"}

ListRecipients ==
  {[user |-> rsaKeys[k].user, key |-> k] : k \in {k \in ActiveKeys : rsaKeys[k].user \in active}}

SelectRecipients ==
  /\ directory # ListRecipients
  /\ directory' = ListRecipients
  /\ UNCHANGED <<rsaKeys, active, source, task, objects, file, runs, opened, changes>>

(***************************************************************************)
(* CreateTask: the authorization is checked and frozen                     *)
(***************************************************************************)
ActiveKey(recipient) ==
  recipient.key \in ActiveKeys /\ rsaKeys[recipient.key].user = recipient.user

ValidateRecipientSet(recipients) ==
  /\ recipients # {}
  /\ \A r, q \in recipients : r.user = q.user => r = q
  /\ \A r \in recipients : ActiveKey(r)

ValidateAuthorization(type, recipients) ==
  CASE type = "RSA_RECIPIENTS" -> ValidateRecipientSet(recipients)
    [] type = "RSA_RECIPIENT" -> Cardinality(recipients) = 1 /\ \A r \in recipients : ActiveKey(r)

authorizationIncludesOwner(recipients) == \E r \in recipients : r.user = Owner

Frozen(recipient) ==
  [user |-> recipient.user, key |-> recipient.key, version |-> rsaKeys[recipient.key].version]

\* The task of the same idempotency key is answered when it asks for the same.
CreateTask(r, type, recipients) ==
  LET snapshot == {Frozen(q) : q \in recipients}
      size == Len(source.bytes)
  IN /\ runs[r].pc = "idle"
     /\ size > 0
     /\ ValidateAuthorization(type, recipients)
     /\ authorizationIncludesOwner(recipients)
     /\ \/ /\ task = NoTask
           /\ task' = [status |-> "OPEN", attempt |-> 1, size |-> size, type |-> type,
                       recipients |-> snapshot]
        \/ /\ task.type = type /\ task.recipients = snapshot /\ task.size = size
           /\ UNCHANGED task
     /\ runs' = [runs EXCEPT ![r] = [NoRun EXCEPT !.pc = "open", !.recipients = recipients,
                                                  !.attempt = task'.attempt]]
     /\ UNCHANGED <<rsaKeys, active, directory, source, objects, file, opened, changes>>

(***************************************************************************)
(* EncryptFile, while others may write to the source file.  Assumed of     *)
(* them: every write changes the mtime.  EncryptFile compares nothing but  *)
(* size and mtime, so it does not see a write within the granularity of    *)
(* the file system's clock, nor one after which the mtime was put back.    *)
(***************************************************************************)
SourceEdited(bytes) ==
  /\ source.mtime < MaxEdits
  /\ source' = [bytes |-> bytes, mtime |-> source.mtime + 1]
  /\ UNCHANGED <<rsaKeys, active, directory, task, objects, file, runs, opened, changes>>

OpenSource(r) ==
  /\ runs[r].pc = "open"
  /\ Len(source.bytes) = task.size
  /\ runs' = [runs EXCEPT ![r].pc = "seal", ![r].plain = source.bytes,
                          ![r].mtime = source.mtime,
                          ![r].header = Header(r, runs[r].attempt, task.size)]
  /\ UNCHANGED <<rsaKeys, active, directory, source, task, objects, file, opened, changes>>

EncryptChunk(r) ==
  LET run == runs[r]
      index == Len(run.chunks)
      wanted == Len(ChunkOf(run.plain, index))
      chunk == ChunkOf(source.bytes, index)
  IN /\ run.pc = "seal"
     /\ index < run.header.chunkCount
     /\ Len(chunk) >= wanted
     /\ runs' = [runs EXCEPT ![r].chunks =
                   Append(@, SealedChunk(r, run.header, index, SubSeq(chunk, 1, wanted)))]
     /\ UNCHANGED <<rsaKeys, active, directory, source, task, objects, file, opened, changes>>

\* Mutant: the time of the last change is not compared.
SourceSameSize(run) == Len(source.bytes) = Len(run.plain)

SourceUnchanged(run) ==
  Len(source.bytes) = Len(run.plain) /\ source.mtime = run.mtime

EncryptFile(r) ==
  LET run == runs[r]
  IN /\ run.pc = "seal"
     /\ Len(run.chunks) = run.header.chunkCount
     /\ SourceUnchanged(run)
     /\ runs' = [runs EXCEPT ![r].pc = "upload"]
     /\ UNCHANGED <<rsaKeys, active, directory, source, task, objects, file, opened, changes>>

\* What the run seals for a recipient, as the completion submits it.
ProtectedKey(r, recipient) ==
  [recipient |-> recipient, protected |-> Protect(r, recipient.key, runs[r].header)]

(***************************************************************************)
(* A run fails anywhere, and the failure may reach the server or not.      *)
(***************************************************************************)
MarkTerminal ==
  IF task.status = "OPEN" THEN task' = [task EXCEPT !.status = "FAILED"] ELSE UNCHANGED task

RunFails(r) ==
  /\ runs[r].pc \notin {"idle", "ended"}
  /\ runs' = [runs EXCEPT ![r] = [NoRun EXCEPT !.pc = "ended"]]
  /\ MarkTerminal \/ UNCHANGED task
  /\ UNCHANGED <<rsaKeys, active, directory, source, objects, file, opened, changes>>

Retry ==
  /\ task.status = "FAILED"
  /\ task.attempt < MaxAttempts
  /\ task' = [task EXCEPT !.status = "OPEN", !.attempt = @ + 1]
  /\ UNCHANGED <<rsaKeys, active, directory, source, objects, file, runs, opened, changes>>

(***************************************************************************)
(* UploadCiphertext                                                        *)
(***************************************************************************)
ContainerOf(r) == [header |-> runs[r].header, chunks |-> runs[r].chunks]

Staged(attempt) ==
  {i \in DOMAIN objects : objects[i].attempt = attempt /\ objects[i].status = "STAGING"}

\* Mutant: what identifies the upload is its size and attempt.
sameUploadSize(object, container) == Len(object.uploaded.chunks) = Len(container.chunks)

\* Equal digests: equal containers.  An attempt has one object, and a run whose
\* answer was lost asks again.
sameStagingUpload(object, container) == object.uploaded = container

UploadCiphertext(r) ==
  LET attempt == runs[r].attempt
      container == ContainerOf(r)
  IN /\ runs[r].pc = "upload"
     /\ \/ /\ \E i \in Staged(attempt) : sameStagingUpload(objects[i], container)
           /\ UNCHANGED objects
           /\ runs' = [runs EXCEPT ![r].pc = "complete"]
        \/ /\ \A i \in DOMAIN objects : objects[i].attempt # attempt
           /\ objects' = Append(objects, [attempt |-> attempt, status |-> "STAGING",
                                          uploaded |-> container, stored |-> container])
           /\ runs' = [runs EXCEPT ![r].pc = "complete"] \/ UNCHANGED runs
     /\ UNCHANGED <<rsaKeys, active, directory, source, task, file, opened, changes>>

(***************************************************************************)
(* Complete: the protected keys are checked against the frozen recipients  *)
(***************************************************************************)
frozenRecipientBindings ==
  IF task.type = "RSA_RECIPIENTS"
  THEN {[user |-> q.user, key |-> q.key] : q \in task.recipients} ELSE {}

findFrozenRSARecipient(recipient) ==
  {q \in task.recipients : q.user = recipient.user /\ q.key = recipient.key}

ValidateCompletion(submitted) ==
  \E q \in findFrozenRSARecipient(submitted.recipient) :
    /\ rsaKeys[q.key].user = q.user /\ rsaKeys[q.key].version = q.version

ProtectedKeysAccepted(payload, context) ==
  LET expected == frozenRecipientBindings
      identities == {payload[i].recipient : i \in DOMAIN payload}
  IN /\ payload # <<>>
     /\ expected # {} => /\ Len(payload) = Cardinality(expected)
                         /\ identities \subseteq expected
                         /\ Cardinality(identities) = Len(payload)
     /\ \A i \in DOMAIN payload : /\ ValidateCompletion(payload[i])
                                  /\ payload[i].protected.label = context

PersistProtectedKeys(payload, context) ==
  {[recipient |-> payload[i].recipient, protected |-> payload[i].protected,
    context |-> context] : i \in DOMAIN payload}

\* The owner's file goes with the latest object of any of its attempts.
FindOwnedFile == Len(objects)

\* The upload that the completion names has to be that object.
Complete(r, recipients) ==
  LET latest == FindOwnedFile
      context == runs[r].header
      payload == [i \in DOMAIN recipients |-> ProtectedKey(r, recipients[i])]
  IN /\ runs[r].pc = "complete"
     /\ task.status = "OPEN"
     /\ objects[latest].attempt = runs[r].attempt
     /\ objects[latest].status = "STAGING"
     /\ ProtectedKeysAccepted(payload, context)
     /\ objects' = [objects EXCEPT ![latest].status = "AVAILABLE"]
     /\ file' = [status |-> "AVAILABLE", object |-> latest,
                 envelopes |-> PersistProtectedKeys(payload, context)]
     /\ task' = [task EXCEPT !.status = "COMPLETED"]
     /\ runs' = [runs EXCEPT ![r].pc = "ended"]
     /\ UNCHANGED <<rsaKeys, active, directory, source, opened, changes>>

(***************************************************************************)
(* The file center and the way back                                        *)
(***************************************************************************)
ListTenantFiles == file.status = "AVAILABLE"

\* The envelopes, unless one has lost its key.
loadFileKeyEnvelopes ==
  IF {e.recipient.key : e \in file.envelopes} \subseteq Registered
  THEN file.envelopes ELSE {}

FindTenantFile ==
  /\ ListTenantFiles
  /\ objects[file.object].status = "AVAILABLE"
  /\ loadFileKeyEnvelopes # {}

\* What the center shows of the recipients of a file.
loadFileCenterRecipients ==
  {[user |-> e.recipient.user, version |-> rsaKeys[e.recipient.key].version] : e \in file.envelopes}

StoredBytesChange(i, bytes) ==
  /\ FindTenantFile
  /\ i = file.object
  /\ objects[i].stored = objects[i].uploaded
  /\ objects' = [objects EXCEPT ![i].stored = bytes]
  /\ UNCHANGED <<rsaKeys, active, directory, source, task, file, runs, opened, changes>>

\* The private key is tried on every envelope that names it.
ReceivedMaterial(key) == {e \in loadFileKeyEnvelopes : e.recipient.key = key}

DecryptFile(key) ==
  LET container == objects[file.object].stored
  IN /\ FindTenantFile
     /\ opened' = [opened EXCEPT ![key] =
          IF \E e \in ReceivedMaterial(key) : Decrypts(container, e, key)
          THEN Plaintext(container) ELSE <<>>]
     /\ UNCHANGED <<rsaKeys, active, directory, source, task, objects, file, runs, changes>>

-----------------------------------------------------------------------------
\* Requests with every list of at most two recipients.
Selections == {{}} \cup {{q} : q \in directory} \cup {{p, q} : p, q \in directory}
Submissions(r) == UNION {[1 .. n -> runs[r].recipients] : n \in 1 .. 2}

KeyStep ==
  \/ \E u \in Members, k \in Keys : RegisterMyKey(u, k)
  \/ \E k \in Keys, s \in KeyStatuses : UpdateStatus(k, s)
  \/ \E u \in Members : MemberLeaves(u)

RunStep(r) ==
  \/ \E t \in {"RSA_RECIPIENT", "RSA_RECIPIENTS"}, s \in Selections : CreateTask(r, t, s)
  \/ OpenSource(r)
  \/ EncryptChunk(r)
  \/ EncryptFile(r)
  \/ UploadCiphertext(r)
  \/ \E s \in Submissions(r) : Complete(r, s)
  \/ RunFails(r)

FileStep ==
  \/ \E i \in DOMAIN objects :
       \E bytes \in Damaged(objects[i].uploaded, {ContainerOf(r) : r \in Runs}) :
         StoredBytesChange(i, bytes)
  \/ \E k \in Keys : DecryptFile(k)

Next ==
  \/ KeyStep
  \/ SelectRecipients
  \/ \E r \in Runs : RunStep(r)
  \/ \E bytes \in Edits : SourceEdited(bytes)
  \/ Retry
  \/ FileStep

Spec == Init /\ [][Next]_vars

-----------------------------------------------------------------------------
(* Rows and runs have their types, and the keys of a member are numbered   *)
(* from 1 without gaps, whatever their status (CreateVersion).             *)
FileKeysTypeOK ==
  /\ \A k \in Registered :
       /\ rsaKeys[k].user \in Members /\ rsaKeys[k].status \in KeyStatuses
       /\ rsaKeys[k].version \in 1 .. Cardinality({q \in Registered : rsaKeys[q].user = rsaKeys[k].user})
  /\ \A k, q \in Registered :
       rsaKeys[k].user = rsaKeys[q].user /\ rsaKeys[k].version = rsaKeys[q].version => k = q
  /\ directory \subseteq Recipients
  /\ task.status \in {"NONE", "OPEN", "FAILED", "COMPLETED"}
  /\ task.attempt \in 0 .. MaxAttempts
  /\ \A i \in DOMAIN objects : objects[i].attempt \in 1 .. task.attempt
  /\ \A r \in Runs : Len(runs[r].chunks) <= ChunkCount(task.size)

\* The run that sealed the file's bytes.
SealedBy == objects[file.object].uploaded.header.noncePrefix

(* A file that the file center lists can be downloaded, shows just the    *)
(* recipients that were frozen with its task, in the versions of then, and *)
(* has an envelope for each of them that opens the bytes it was completed  *)
(* with, although keys are disabled or replaced, members leave, and runs   *)
(* with other data keys fail, start over and overlap (Complete).           *)
RecipientsCanDecrypt ==
  ListTenantFiles =>
    /\ FindTenantFile
    /\ loadFileCenterRecipients = {[user |-> q.user, version |-> q.version] : q \in task.recipients}
    /\ \E q \in task.recipients : q.user = Owner
    /\ \A q \in task.recipients : \E e \in ReceivedMaterial(q.key) :
         Decrypts(objects[file.object].uploaded, e, q.key)

(* What a decryption recovers is the whole file as it was when the run     *)
(* that sealed it opened it: neither a mixture with what others wrote      *)
(* while it was read, nor any part or rearrangement that damaged bytes     *)
(* would give (EncryptFile, DecryptFile).                                  *)
DecryptedIsSource ==
  \A k \in Keys : opened[k] # <<>> => opened[k] = runs[SealedBy].plain
=============================================================================
