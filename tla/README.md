# Verification of go_cpabe in TLA+

go_cpabe is a multi-tenant system for encrypting files and sharing them: a Go
backend (MySQL, Redis, local ciphertext store, one-shot commands, a crypto worker)
and an Electron desktop client that encrypts locally. This directory holds TLA+
models of the stateful parts of the backend, the TLC instances that check them,
and theorems about them that TLAPS proves for every size of the system.

- [The system](#the-system): components, state, operations, interactions
- [Modules](#modules): which module models what, and how it corresponds to the code
- [Runs](#runs): what TLC checks, the bounds, the fairness
- [Where the code does less than it says](#where-the-code-does-less-than-it-says)
- [Proofs](#proofs): what holds for all constants, and why
- [Not modelled](#not-modelled) and [what is left](#what-is-left)

`PROJECT.json` gives the same in machine-readable form: components, runs, the
code lines of every definition ("map"), the hazards and the properties that
watch them, the wrong variants of definitions that each property must notice
("mutants"), and the theorems.

## The system

Paths are below `src/backend/internal/`.

| Component | State it keeps | Operations that change it | Module |
|---|---|---|---|
| Encryption tasks: `service/encryption_service.go`, `repository/encryption_repository.go` | `encryption_tasks`, `encryption_task_attempts`, `encrypted_files`, `ciphertext_objects` | CreateTask, ReportProgress, UploadCiphertext, Complete, Fail, Cancel, Retry | `EncryptionTask` |
| Admission: `service/encryption_admission.go` | Redis set of concurrency leases per tenant | Acquire, Release, expiry | `EncryptionTask` |
| Ciphertext store: `pkg/storage/encrypted_file_storage.go` | `.staging/` and the tenants' directories | Stage, Commit (rename), Delete, DeleteExpiredStaging | `OrphanCleanup`, `EncryptionTask` |
| Orphan cleanup: `service/orphan_cleanup_service.go`, `cmd/cleanup` | `orphan_storage_objects` | RegisterOrphan, ClaimOrphans, SaveOrphanResult, Run | `OrphanCleanup` |
| Audit outbox: `repository/audit_outbox_repository.go`, `service/audit_dispatcher_service.go`, `cmd/audit-dispatcher` | `audit_outbox`, `audit_logs` | Enqueue, Claim, Deliver, MarkFailure, DeleteDeliveredBefore, RunOnce | `AuditOutbox`, `AuditTrail` |
| Sessions: `pkg/auth/redis_token_store.go`, `service/auth_service.go` | Redis: session by token id, token id by device | Login, Refresh, Logout, expiry | `Session` |
| Tenant import: `service/import_service.go`, `import_worker.go`, `import_bulk_user.go` | `tenant_import_batches` with lease and token | Validate, Confirm, GetBatch, claim, progress, heartbeat, complete, fail | `ImportBatch` |
| Tenants, members, roles: `service/tenant_service.go`, `platform_service.go`, `tenant_role_service.go`, `repository/rbac_repository.go` | `tenants`, `users`, `tenant_users`, `roles`, `user_roles`, permissions | add, create, assign, replace, disable, remove; registration; admin commands; import | `TenantAccess` |
| Organisation units: `service/org_management_service.go` | `tenant_org_units`, the department rows of `tenant_attribute_values` | create, update, move, delete, import, bootstrap | `OrgTree` |
| Department members: the same, `service/org_attribute_service.go` | `tenant_org_members`, `tenant_org_member_roles` | add, choose main department, set positions, remove, import, bootstrap | `OrgMembers` |
| Policies: `service/policy_service.go`, `pkg/policytree` | `policy_attributes`, `policy_templates`, `access_policies` | create, update, delete, bootstrap; validator and expression | `AccessPolicy` |
| RSA keys: `service/rsa_key_service.go` | `rsa_public_keys` | RegisterMyKey, UpdateStatus | `FileKeys` |
| Crypto worker: `crypto/`, `cmd/crypto-worker` | the container file | EncryptFile, DecryptFile | `ContentCipher`, `FileKeys` |
| File center: `service/encrypted_file_service.go` | none | list, download, received key material | `FileKeys` |
| Desktop client, user profiles, audit queries, HTTP layer, configuration | local index; none between calls | | none |

How they interact. A desktop client drives a task through the encryption
service: create (which freezes the recipients and their key versions), progress,
upload, complete (or fail, cancel, retry). One request touches MySQL, Redis and
the disk one after the other; there is no transaction over them. A completion
renames the ciphertext *before* its transaction; if that fails, the key goes to
`orphan_storage_objects`, from which a separate process deletes it later. That
process also deletes old staging files, without a look at the tables. Every
business service writes audit events into the outbox, and separate processes
deliver them under leases. An import writes members, roles, departments and
memberships in one transaction of a worker, beside the interactive routes for the
same rows. Bootstraps at the start of every server process write members,
departments and policies too.

What is hard:

- *interleavings*: several requests for one task in flight, requests that name an
  old attempt after a retry; two refreshes of one token; two role removals that
  each count the administrators; a move of departments beside an import;
- *partial failure*: a crash, a cancelled context or an error between two stores or
  two auto-commit statements; a commit whose answer is lost;
- *leases*: an outbox row or an import batch in the hands of a process that is
  slow, dead, or back after another one took over; a cleaner that dies with rows
  claimed;
- *stale copies*: `retry_count` written from the copy the claim returned, GORM's
  `Save` of a whole row that was read earlier, a policy validated against
  attributes that have changed, paths of departments computed from rows not locked;
- *redundancy*: rows that must tell one story (task, attempt, file and object; path
  and parent; department and its value row; marks and memberships; several
  queries that answer the same question about permissions).

What makes the parts correct is what the properties of the runs say, see there.

## Modules

| Module | What it is |
|---|---|
| `OrphanCleanup` | the two directories of files, the orphan table and the runs of `cmd/cleanup` |
| `EncryptionTask` (EXTENDS `OrphanCleanup`) | the encryption service with its three stores, composed with the cleaner |
| `AuditTrail` | abstract: what the outbox promises about each event |
| `AuditOutbox` | the outbox and its dispatchers; implements `AuditTrail` |
| `Session` | the Redis keys of one user's sessions and the requests on them |
| `ImportBatch` | batches, the requests on them, the workers and their leases |
| `TenantAccess` | one tenant's accounts, members, roles and grants and all their writers |
| `OrgTree` | departments, paths, value rows, the tree page |
| `OrgMembers` | memberships, main department, positions, and the pages about them |
| `AccessPolicy` | dictionary, templates, policies; validator and expression of trees |
| `ContentCipher` | the container format with symbolic ciphers: pure operators |
| `FileKeys` (EXTENDS `ContentCipher`) | keys, recipients, encryption runs, completion, decryption |
| `MC…` | constants and symmetry for TLC |
| `…_proofs` | theorems |

Next to some definitions stand variants that get them wrong (`DueInCleaning`,
`HoldsLeaseByStatus`, ...). No specification uses them; substituting one for the
right definition must make TLC report the property named in `mutants`.

**OrphanCleanup.** `blob[n]` says where the bytes of the object with random name `n`
are (staging and final key of one ciphertext differ only in the directory, so one
name stands for both); `orphan[n]` is the status column; `cleaner[c]` is the local
state of one `Run`, whose calls are the actions, in its order. Backoff and staging
age are abstract: a FAILED row may be found due, and a staging file expired, at any
time. `CleanerCrash` is death or SIGTERM.

**EncryptionTask.** One variable per table or store, and `req[h]`, what the handler of
one HTTP request holds between two steps. A step is one store access: a transaction
that locks the task row is one step; a read whose answer is used later begins the
request (`Complete`, `Cancel`, `Retry`, ...) and the write that relies on it is a step
of its own (`CompleteTx`, `CancelTx`, ...). "Conflict or rolled back" may happen at
any time. Objects are kept by attempt (`uk_ciphertext_objects_attempt`) and files by
task. Which attempt of its task a request names, when a lease expires and which
unused name a UUID generator draws is nondeterministic.

**AuditTrail, AuditOutbox.** `AuditTrail` has four states per event and three steps.
`AuditOutbox` has the rows with `status`, `retry_count` and lock token, the log, and
per dispatcher its batch and its *copy* of the retry counts. Lost answers are
modelled where the loop of `RunOnce` treats them differently. A token is written as
its holder; the header says why that is exact. The refinement mapping is `trail`.

**Session.** Every command or MULTI/EXEC pipeline is a step: `Login` reads the device
key, `ReplaceDeviceSession` writes both; `Refresh` reads the session, `RotateRead`
reads it again, `Rotate` writes; `Logout`, `DeleteRead`, `Delete` likewise. `Get` reads,
and when it finds a session whose `ExpiresAt` is over it removes it with the key of its
device in a second round trip (`RemoveExpired`), whatever that key names by now, and
drops the error of that. `answered` says whether the client got the new token.
Two history variables: `orderly`, no two requests overlapped so far and no refresh
named another device than its session's; `missed`, the expired sessions whose
removal failed unnoticed.

**ImportBatch.** A batch is its row plus two facts: whether its rows are all valid,
and whether the transaction that writes them committed (`applied`). Requests read
in one step and write in another (`Confirm` then `EnqueueImportBatch` or
`ExpireImportBatch`, conditional updates; `GetBatch` then `SaveImportBatch`, which
writes the row as it was read). A worker claims under a new token, reads the claimed
row, reports progress under its token, writes, commits or rolls back, and ends the
batch. Faults (a lost answer, a death, a lease that runs out under a live worker) come
from a budget. The heartbeat is the guard of `HeldLeaseExpires`: in the transaction a
lease runs out only if a heartbeat may fail.

**TenantAccess.** The tables of one tenant as functions of users and roles. Most
handlers are checks and writes in auto-commit mode, each a step; `req[h]` holds what
is still to be written, so a request can stop anywhere. `ReplaceMemberRoles` and the
import are transactions: one step takes locks and snapshot and checks, another
writes. The queries that decide who may call a route (`ResolveTenantContext`,
`HasTenantPermission`, `HasRole` with `IsTenantManager`) are operators over the tables.

**OrgTree.** A path is a sequence of codes, with an empty first segment where the code
writes a leading slash. Transactions whose reads are covered by the locks they hold
are one action; `MoveOrgUnit` and the import read rows they do not lock and are two.
`torn` remembers that a write rested on rows changed since, or that an import moved
a department without the rows of its children.

**OrgMembers.** Rows by pair of department and user. `SetOrgMemberPositions` lists the
leaders (locking those it finds and the gap they leave) and writes in another step;
`Setting`, `GapFree` and `LeadersListable` model InnoDB's record and gap locks.
`drifted` and `seeded` mark what the import and the bootstrap write past the rule.
`ListOrgMembers`, `ListOrgMembersPaged` and `ListOrgUnitSummaries` are operators.

**AccessPolicy.** `Nodes` are the nodes of all trees, records with sequences of children;
a tree is its root, and a finite document (`AccessPolicyAssumption`). `Validate`,
`validateLeafNode`, `validateLogicNode`, `expressionFor` are translated as recursive functions
over them, for trees of any depth. A value is atomic, and `Text` says how it is written:
as a sequence of marks, in which brackets, operators, blanks, separators and the
quotation mark stand for themselves, so that `leafExpression` and `quoteIfNeeded` do to it
what the code does. An update finds, validates and saves in three steps;
`Save` on a row deleted meanwhile inserts it again, as GORM does. The bootstrap is a call
like the others, which creates one attribute a step. The specification is `PolicySpec`.

**ContentCipher, FileKeys.** A sealed chunk opens under the key, nonce and additional
data it was sealed with; a run stands for the data key and nonce prefix it draws.
`FileKeys` has the keys of members, the frozen recipients, runs that read the
source chunk by chunk while others may edit it, staged uploads, completion, and
decryption of what the disk still holds. Requests are one step there:
`EncryptionTask` has their races. One assumption is made of those who edit the source:
every write changes its mtime (`SourceEdited`). `crypto/content_cipher.go:221` compares size
and mtime and nothing else.

## Runs

| Run | Shows |
|---|---|
| `encryption_faults` | three attempt ids (two retries of one failed task compete for the next number), two concurrent requests, a cleaner, and all faults: the stores are well formed and the attempts numbered without gap or repetition, and the task's status is that of an attempt (`TaskTablesOK`); the four tables agree on completion (`CompletionAtomic`), ended is ended (`TerminalIsFinal`) |
| `encryption_blobs` | two attempts and two objects, so that uploads race, without lost commit answers: `AvailableFileReadable`, `OrphanNeverLive`, and `CompletionAtomic` again, as there is more to complete with |
| `orphan_fair` | two cleaners, three files, crashes and failing saves: `ClaimExclusive`, `CleanedIsGone`; every orphan is cleaned or stranded by a run cut short (`OrphanCleanedOrStranded`), and nothing else strands one (`OnlyAbortStrands`) |
| `audit` | two dispatchers, three events of which two state one fact: retry counts stay exact and a fact has one row at a time (`OutboxRowsOK`), `LogMatchesOutbox`, `LeaseGuardsCopy`, `FailuresCountedOnce`, the outbox implements `AuditTrail` (`KeepsPromise`), and every accepted event is settled (`EventuallySettled`), through failures, backoff and further deliveries |
| `session` | two devices, four tokens, two requests: device keys never dangle (`SessionKeysOK`), withdrawn sessions never return (`SessionsNeverReturn`), and requests that do not overlap leave one session per device and one successor per token (`OrderlySessions`) |
| `tenant` | two users, two requests, every path: grants rest on members (`TenantTablesOK`), `LastAdminKept`, `OnlyActiveRolesGranted` |
| `import` | two batches (users, org units), two workers, two requests, one fault: `OneWriterPerBatch`, `BatchesConsistent`, `EndedStaysEnded`, `ConfirmedBatchEnds` |
| `orgtree` | four departments, three changes, imports of one and two rows, restarts: `PathsFollowParents`, `ValueMirrorsUnit`, `OrgTypeOK` |
| `orgtree_page` | a violation: `TreeIsComplete`, see below |
| `orgmembers` | two departments, two users, two requests, six changes: `OneLeader`, `OneMainDepartment`, `MembersConsistent` |
| `policy` | two overlapping requests and the bootstrap over attributes, templates and policies: stored trees are sound (`PolicyTypeOK`), the expression of a plain tree has one reading (`PlainExpressionsTell`), `DeletedReturnsOnlyByOverlap`, `WrittenTreesAreOpen` |
| `filekeys` | two members, two keys, two runs, one edit of the source and one damage of stored bytes: `RecipientsCanDecrypt`, `DecryptedIsSource` |

**Bounds.** Every hazard in this code needs two of something: two attempts (one old, one
current; three where two retries compete), two requests in flight, two cleaners,
dispatchers or workers over one row, two leaders of one department, two versions of a key. Two is what the
instances have. A third of something is there where a batch of unequal composition
matters (events, files) or a chain (`OrgTree` has a demo tree of three levels and one
department more, so that a move takes a subtree along). Four tokens are two
logins and two refreshes. `MaxRetries` is 2 in the run of the outbox, so that "one
failure left" and "none left" differ and RETRY, the backoff and a second delivery lie
between the first failure and the dead letter. A file of one and a half chunks has a
full and a short chunk. Named bounds in the guards: `MaxFaults`, `MaxRequests`, `MaxChanges`,
`MaxAttempts`, `MaxEdits`, `MaxStatusChanges`; each is
large enough for the longest chain a hazard needs (a policy deleted under an update
and written again; three administrators' worth of grants and removals by two
requests). Names, tokens, attempt ids and events are finite sets and are not
reused. The proofs remove the bounds for what they cover.

**Deadlock** is checked for the cleaner, the encryption service and the outbox, where
another run or request can always start. The other configurations turn it off: their
bounds on requests and changes, or a finite set of tokens, let behaviours end.

**Fairness.** `CleanupFairness`: the command is scheduled again and again and a run
goes on (weak fairness of its steps); a FAILED row becomes due after its backoff
(strong, because other rows may fill the limit in between); a deletion attempted for
ever succeeds at last (strong). Nothing is assumed of saves or crashes.
`Fairness` of `AuditOutbox`: some run clears what is old and claims what is due, leases
and backoffs end, and an event that runs keep reaching under an intact lease is answered
at last, by a delivery or by a failure that is counted (the lease is minutes, a call is
bounded by its context). No particular dispatcher need act. Success of a delivery is not
assumed; the event then ends as a dead letter. `FairSpec` of `ImportBatch`: a worker
polls and goes on, and the lease of a worker that is gone runs out; nobody need send
a request. Faults are finitely many there: a batch whose workers die for ever does
not end, in the code either.

## Where the code does less than it says

Met while modelling. Three comments promise what the code does not do.

- *Tree page.* `service/org_management_service.go:114` returns "the complete tree" of
  departments. The page is built by copying nodes into their parents before their
  own children are attached (`:628-636`): a department of the third level is not on it.
  The run `orgtree_page` states the promise (`TreeIsComplete`) and TLC violates it with one
  `CreateOrgUnit` below the second level; what the page does show is a theorem (`PageShowsTwoLevels`).
- *Tenant managers.* `service/tenant_service.go:559` admits "only real tenant administrators"
  to the old routes of a tenant. `HasRole` (`repository/tenant_repository.go:541`) looks for a
  row of `user_roles` and not at its status: somebody whose role was revoked, by a
  replacement of his roles or an import, which keep the row, is still admitted, while
  the permissions, lists and counts take ACTIVE grants only. The model has both answers
  (`IsTenantManager` and `HasTenantPermission`, `HasAdminGrant`) as guards of the operations they
  guard in the code; no property says that they agree, because they do not.
- *Expressions.* `quoteIfNeeded` (`policytree/expression.go:49`) is there "to avoid
  ambiguity", but leaves alone a value with a quotation mark and no blank: `xx` equal to `"a`
  and `yy` equal to `c"` are shown as `xx:"a AND yy:c"`, and so is the one condition that
  `xx` equals `a AND yy:c`. An attribute called `belongs_to` has the same effect, as that
  operator is written without anything around it. `PlainExpressionsTell` is about the
  trees that have neither.

The other properties leave the following behaviours out, by a guard that is named here.

- *Tasks.* Calls look an attempt up by its public id only
  (`repository/encryption_repository.go:748`), so a delayed call that names an old
  attempt rewrites its end and sets the task's status, while `domain/encryption_task.go:76`
  says ended attempts are never overwritten; `TaskReflectsAttempt`, a part of
  `TaskTablesOK`, therefore says "of one of its attempts". The lease released is that of the attempt named; the
  current one's stays until its TTL. A completion that finds the task COMPLETED
  returns without an error after having renamed its file, which nobody registers.
- *Lost answer of a completion.* The live key is registered as an orphan
  (`service/encryption_service.go:416`) and its bytes are deleted later:
  `AvailableFileReadable` is violated once `"ambiguous_commit"` is among the faults,
  which `encryption_blobs` leaves out for this reason.
- *Cleaner.* Rows claimed by a cleaner that dies stay CLEANING for ever (`Stranded`).
- *Sessions.* Overlapping refreshes of one token both succeed, a refresh that overlaps
  with a logout survives it, two logins of one device may both stay: `orderly`
  is the guard of `OrderlySessions`. What holds regardless is `SessionKeysOK` and
  `SessionsNeverReturn`, with one exception in the first: when the removal of an expired
  session fails, `Get` drops the error, and a `Rotate` or `Delete` that goes on deletes
  the session without the key of its device (`missed`).
- *Outbox.* The `dedup_key` is unique among the rows that are there. Once a delivered row is
  cleared away, a late emission of the same fact is enqueued and logged again.
- *Last administrator.* Removals count, then write; two that overlap may remove the
  last two administrators. Disabling through a bulk import, or an import that takes the
  role from several, is not counted at all. `guarded` excludes these. `middleware/tenant.go`
  says that platform administrators are admitted to tenants; `ResolveTenantContext`
  admits active members only.
- *Import.* With failing heartbeats two workers write one batch at a time
  (`HeartbeatsMayFail`). A commit whose answer is lost ends as FAILED although the rows
  are there, so only SUCCEEDED says something about rows. `GetBatch` may overwrite
  SUCCEEDED or FAILED by EXPIRED.
- *Departments.* The cycle check of an import (`service/import_service.go:362`) compares
  a path that begins with a slash to a prefix that does not, and an import that moves a department
  leaves the paths below it as they were (`torn`). A second value row under the bare code is followed
  by no update.
- *Members.* The import and the bootstrap write past the rules of one main
  department and one leader (`drifted`, `seeded`).
- *Policies.* A deleted row comes back when an update that found it saves afterwards.
  A value that is closed between validation and save is written; `WrittenTreesAreOpen`
  excepts calls during which the dictionary changed.
- *Source file.* A write that leaves size and mtime as they were is not seen by the
  sealing run, and `DecryptedIsSource` says nothing of it.

## Proofs

`tlapm` checks the `_proofs` modules. They hold for any number of tasks, attempts,
files, handlers, cleaners, events, dispatchers, tokens, devices, batches, workers,
users, roles, departments, keys, runs and edits, any limits and any chunk size, under the
named assumptions of the modules (limits are naturals, `Nil` or `None` is no member of
the sets, roles are distinct, no department of the demo tree is above itself, trees of policies are finite, the demo
attributes have types the dictionary knows). Where a
count occurs in what is proved the set that is counted is finite: `IsFiniteSet(Names)` in
`OnlyAbortedRunsStrand` and `IsFiniteSet(Codes)` in `PageShowsTwoLevels` are hypotheses
of these two theorems; a table of a database has finitely many rows. Two theorems leave
a fault out: see `EncryptionTask_proofs` and `ImportBatch_proofs`.

**EncryptionTask_proofs**, first part: the cleaner alone, over `CleanupSpec`.
`CleanupTypeCorrect`, `ClaimsAreExclusive`, `CleanedMeansGone`.
`ClaimExclusive` is not inductive without `CleanerInHand` (the item a run saves is one
of its batch); `CleanedIsGone` needs that a run about to save CLEANED has really removed
the file. `OnlyAbortedRunsStrand`, an action property: the rows a step strands are of one
batch, because a claimed row is in exactly one (`ClaimExclusive`), and a batch has at
most `Limit` rows (`BatchBounded`, itself an invariant). `CleanerStep` is treated by
itself, so that the second part reuses it.

Second part: the tables. `TablesStayWellFormed`, `CompletionIsAtomic`,
`TaskReflectsSomeAttempt`, `TerminalStaysFinal`, under every fault. The invariant adds what
handlers carry from step to step (`RequestInHand`, `FreshInOneHandler`) and `RowsLinked`.
`StepOnTables` reduces the fifteen actions to the six things they can do to the four
tables (`TablesNext`); the properties are proved over `TablesNext` only.

Third part: the bytes. If no commit's answer is lost (`"ambiguous_commit" \notin
Faults`): `AvailableStaysReadable`, `LiveFileNeverOrphan`, `CleanupSafeInService`. `BytesInv`
is an ownership argument over names: an upload that has no row yet owns its name; a
completion that has renamed the file is its only holder, and the file is final and
unregistered until it becomes available or is registered. The cleaner deletes only
registered names and staging files, so it cannot meet an available one.

**PolicyAndAudit_proofs**, first part: the outbox. `OutboxRowsStayOK`, `LogAndOutboxAgree`, `CopyCurrentUnderLease`
(together: the copy is only known to be current under the lease, and the budget needs
it to be; that a fact has one row at a time is inductive by itself, `FactsStep`); `RetryCountedOnce`, an action property from the same invariant;
`PromiseKept`, the refinement of `AuditTrail`.

Second part: the policies (the two components share nothing but the module).
`PolicyTypesStay`, `PlainExpressionsStayTold`, `DeletedStayAwayUnlessOverlapped`,
`WrittenTreesStayOpen`. The invariant `PolicyInv` says of stored rows that they show their own tree and that the tree
is sound (two conditions or more below each AND and OR, at whatever depth), and of a call that
it is idle or carries the row it will write: once it is validated the tree is sound, and, unless the
dictionary has moved since, open in the dictionary *as it is now* (`StillOpen`). The
last part is why every writer of a dictionary tells the calls (`Moved`). `PolicyStep` joins
what a step keeps and what it may do, so each action is treated once for all these
theorems. A row that an insertion takes was never written (`Inserted`), so only a save brings a row back, and that call had found it (`Storing`).

What the functions over trees compute is proved, not assumed. `Recursion`: a recursive
function exists wherever following the places it looks at never goes round; for
trees this is the assumption that they are finite documents, for lists it is that counting down ends.
From it follow the equations of `Parts`, `Validate`, `Join`, `expressionFor` and `Satisfied`
(`PartsIs`, `ValidNodes`, `JoinIs`, `ExpressionIs`, `SatisfiedIs`), and from
those `ExpressionTells`: sound trees with the same expression are satisfied by the same people,
if no value has a quotation mark and no attribute is called `belongs_to` (`Plain`; both are
needed, see above).
The argument is unique readability, first of a leaf: its code ends at the operator
(`LeafText`), and its value at the end of the text, at a bracket or separator, or, where it is
quoted, at the second quotation mark (`ValueText`, `InQuotes`, `SameValue`, `SameLeaf`); then of trees. `Reads` says that wherever the expression of a nested node
stands in a text, any other expression standing there is as long and as satisfied; two
lists read from one place agree tree by tree as far as both go (`SideBySide`), and
neither goes further, because a list ends where a bracket closes or the text ends
(`ShorterList`, `SameList`). `UpTheTree` carries this from the children to the node.

**Session_proofs.** `SessionKeysStayOK`, `GoneSessionsStayGone`. The invariant adds that a
drawn token is stored nowhere yet (`UnusedIsUnstored`), that a request that will write
is the only one with its new token (`NewIsOwn`), that its old token was drawn before
(`OldIsPast`), and that the device it read is the one of the old session or that
session is gone (`DeviceIsKnown`): that is why deleting two keys after reading one
leaves no dangling key, unless the session was `missed`. `OrderlySessionsHold`: as long as requests are orderly only one
is at work (`OneAtWork`), so what it has read is still so when it writes
(`RequestInOrder`): the key of its device still names the session it will replace, and
its token has obtained nothing yet. A step that only takes sessions and keys away is
handled once (`OrderWithdrawn`).

**ImportBatch_proofs.** `BatchesStayConsistent`, `EndedBatchesStayEnded`. `ImportInv` ties what a
request or a worker carries to the row it read: a request knows whether the rows of its batch are
valid (`RequestsKnow`), a worker writes only a valid batch and knows of a commit only if there
was one (`WorkersKnow`). `OneWriterAlways`, for answered heartbeats
(`~HeartbeatsMayFail`; without that it is false): no two workers have one token (`TokensOwn`), and the lease of
a worker in its transaction is its own and does not run out, or its batch has ended without it
(`WritersLeased`).

**TenantAccess_proofs.** `TenantTablesStayOK`, `ActiveRolesOnly`.
Memberships and accounts only grow (a removed member stays a row), and what a request
in flight will still grant rests on a membership it made or checked (`RequestsRest`).
`LastAdminIsKept`, an action property, needs what a removal counted to be still true when it writes
(`GuardedInv`): while `guarded` holds at most one removal is at work (`OneRemoval`),
the administrators it counted are still administrators, and one of them is not the
member it removes (`RemovalInOrder`); an import, guarded or not, leaves the role to
its only holder (`ImportProtects`).

**OrgMembers_proofs.** `OneLeaderAlways`, `OneMainDepartmentAlways`, `MembersStayConsistent`.
The invariant ties a request that is setting positions to the locks it holds
(`SettingHolds`): the leaders it listed, or the gap, are still as it found them.
Cardinalities are reduced to "any two are equal" and turned back by a lemma.

**OrgTree_proofs.** `OrgRowsAreWellFormed`, `PathsKeepFollowingParents`,
`ValuesKeepMirroring`, and `PageShowsTwoLevels`, what the page shows instead of all. The two halves of a move and of an import are
apart, so `OrgInv` says of a move in flight what it read and still knows (`MoveOK`): the
rows it holds are as they were, its target is not below it, and it has read the
one value row of each department it will write. `ValueMirrorsUnit` is false of the
rows alone for a moment of a proof; `Mirrors` states it without a cardinality, with
`ValuesOK` (every row has a value row, and rows end in their own code, so no two
departments share a path). Paths of an imported file and of the demo tree are computed
along parents. That such a computation has a result is `AlongParents`: no department is
above itself (`validateOrgCycles`; the assumption on the demo tree), hence the results on the sets
closed under parents agree and cover everything; it is proved from `WFMin` without a
theorem of induction. `TreeShowsTwoLevels` holds because a child is never before its
parent in the order of levels, which `PathsFollowParents` gives; the page is a recursive function,
and the proof shows that its second value is its last.

**FileKeys_proofs.** `KeysAreNumbered`, `RecipientsKeepTheirKeys`,
`DecryptionRecoversTheSource`. The invariant `FInv` has a part per table. What a property
about a completed file needs is known only at its completion, so it is carried
there: a run that reads owns every chunk it sealed, and as long as
the mtime is the one it saw, the chunks are those of the file it opened (`Reading`); a
run that passed the final check of size and mtime has the container of exactly that
file (`Whole`); its upload is the only object of its attempt (`Uploaded`, `ObjectsOK`); and
a completed file has the envelopes of exactly the frozen recipients, made with the
data key of the run whose bytes are stored (`CompletedBy`), so that neither another run
nor a change of a key's status disturbs them (`FrozenOK`). For damaged bytes the proof uses what each
chunk is bound to: whatever a disk does, the chunks that still open under the data key
are some of those that were sealed (`Pieces`), at the index they were sealed at; opening
stops unless sizes add up to the one in the header, so what opens is all of the file
(`ExactOpens`, `PiecesOpen`). The lemmas on chunks (`ChunkIs`, `PartsJoin`, `ProcessedIs`,
`FlattenIs`) reduce recursive sums to closed forms for every length, by the least number
for which they would fail (`LeastOf`, `Upwards`).

**The model and the proofs.** Three definitions were written anew so that they could
be reasoned about, with the same values: `Processed` of `ContentCipher` is a recursive
function, `Damaged` is a union of named sets, `Level` of `OrgTree` counts. Assumptions on
constants (`FileKeysAssumption`, `OrgTreeAssumption`) were made explicit; TLC
evaluates them on the instances. In `AccessPolicy` the nodes are a constant and `Parts`
has those of a tree at any depth, where three levels were written out before. The inductive
invariants `OrgInv`, `OrderlyInv`, `GuardedInv`, `FInv` and `PolicyInv` hold on the instances by
TLC, too.

**Only model-checked.** Liveness (`OrphanCleanedOrStranded`, `EventuallySettled`,
`ConfirmedBatchEnds`) is beyond the installed provers. Every other property of the runs is
a theorem. That bytes which fail authentication never open is neither proved nor
checked: the model of the cipher assumes it (a sealed chunk is a record that opens only with
its key and context), as it is an assumption about the cipher and not about this code.

## Not modelled

- *Desktop client* (coordinator, its index, renderer): the server is checked against
  clients that send any legal call in any order and runs that fail, start over and
  overlap; what the user is told is not covered.
- *User attributes* (`SyncUserAttributes`): rebuilt from memberships and roles on
  request, read by nothing but the page that shows them.
- *User profiles, audit queries, HTTP layer, configuration, migrations, health*: no state
  of their own between calls. *Spreadsheet parsing*: data.
- *Ciphers, key derivation, the algorithm catalogue*: mathematics out of TLC's reach; the
  container around them is modelled.

Inside the modelled components: progress percentages and `processed_bytes` (display),
rate limiting (only refuses), audit metadata filtering (data), names and labels,
`expires_at` of grants (written by no code), pages and filters of lists, lease renewal of
tasks (`Renew` and `SweepExpired` have no caller), `importUsersTx` and
`ensureImportOrgMemberTx` of `import_service.go` (no caller either).

## What is left

1. The desktop coordinator as the client of `EncryptionTask`: cancel against the failure
   report, recovery after a restart.
2. User attributes, with two synchronisations at once.
