# A verification development for irixmail

irixmail is a mail server in one Rust process: SMTP in and out, IMAP, POP3,
ManageSieve, JMAP, CalDAV/CardDAV and an administration API over a RocksDB
key-value store and a content-addressed blob store on the file system. This
directory holds TLA+ models of the parts of it that are concurrent, crash-prone
and hard to test, TLC configurations that check them on small instances, and
TLAPS proofs of nearly all the safety properties those configurations check.

Paths below are relative to `src/crates/`.

## Inventory

| Part | State | Operations | What is hard |
|---|---|---|---|
| Outbound queue (`smtp/src/queue_*.rs`, `retry.rs`, `dsn.rs`) | one record per message in `Subspace::Queue`, an id counter, bodies in the blob store | enqueue, scan, delivery pass, bounce report, commit | a pass works on a snapshot and takes minutes; crash or error at any point; report and commit are two writes |
| Queue manager (`queue_manager.rs`) | one task, one-slot wakeup channel, wake time | scan, pass, sleep | nudges during a pass; a wake time computed before the pass |
| Outbound limiter (`ratelimit_out.rs`) | counters in memory per sender, domain and window | check and record | two axes, two clocks, volatile |
| Queue administration (`http/src/queue_{retry,delete}.rs`) | none | load, change, write back | races with the pass |
| Message bodies (`mail/src/blob_store_msg.rs`, `store/src/fs_blob.rs`) | files with a modification time; reference counts, account links, upload reservations in `Subspace::BlobRef` | put, reference, link, reserve, release | deduplicated across accounts and threads |
| Delivery, append, deletion (`mail/src/deliver.rs`, `read.rs`) | metadata and data record per message, quota usage | check quota, put body, commit batch; load, delete batch, release | file and batch are not atomic together; unconditional deletes |
| Blob purge (`mail/src/purge.rs`) | hourly task | scan, delete dead keys, delete orphans, walk the files, delete stranded ones | verdict and deletion are apart |
| Change log (`store/src/changelog.rs`, `jmap/src/{reply,email_get,query_changes}.rs`) | entries, tombstones and floors per account and collection, one shared counter | draw an id, commit an entry, page, prune | an id is drawn before its batch commits; state strings are read apart from the data |
| Message records (`mail/src/{read,deliver,message_data,cache}.rs`) | mailbox membership, UIDs and keywords per message, UID counter per mailbox | insert, update one, update many, delete | optimistic retries beside unconditional writes |
| Mailboxes (`mail/src/mailbox_admin.rs`, `jmap/src/mailbox_set.rs`) | rows, id counter | create, rename, delete | two draws per id, deletion message by message |
| SMTP session (`smtp/src/{session,inbound,deliver_hook,listener_in}.rs`) | stage, sender, recipients, chunk buffer | one command each; filing, forwarding, bouncing of an accepted body | command order, STARTTLS, recipients resolved twice, several of them with one reply |
| IMAP, POP3, ManageSieve sessions | selected mailbox, last count; maildrop | one command each | views of a changing mailbox, deferred deletions |
| JMAP, push (`jmap`) | none of its own | methods over the mail store | state strings against concurrent changes |
| Directory (`directory`) | accounts, domains, aliases, address index | CRUD | index against records |
| HTTP API (`http`) | tokens, login throttle | requests | token lifetime, throttling |
| TLS, ACME (`tls`) | certificates, orders | issue, renew, swap | renewal racing expiry |
| DAV (`dav`), Sieve (`sieve`), DNS (`dns`), frontend | resources; none; none; none | request handling and pure functions | ETag preconditions |

Calls between them: submission, JMAP and inbound delivery call `enqueue`; the
manager's pass calls local delivery (`queue_local.rs`), which files into the
message store; both stores share the blob directory with the purge, and that is
where the two models meet. The SMTP session files through the same delivery as
the queue and hands forwards, relays and reports to `enqueue`. IMAP, POP3 and
JMAP meet in the message records, the mailbox rows and the change log, without
any lock across an operation.

What makes them correct: an accepted recipient is delivered, reported or still
queued, and not twice; a nudge is acted on; every message leaves the queue; the
limits hold; a record has its body; counts, links and usage agree with the
records; bodies nobody wants are deleted; the quota is exceeded only by what
runs in parallel; a UID means one message; what a client was told of a mailbox
stays right until something it is not told of moves it; no change is skipped by
a client that follows the log; ids of mailboxes are never reused; a transaction
contains nothing of another, and its reply accounts for every recipient.

## Modules

* `QueueModel` - data of the queue and its pure functions: recipients, expiry,
  backoff, what an attempt, a rate-limited pass, a missing body and a retry do
  to a message. A recipient is its position in the message.
* `OutboundQueue` (extends `QueueModel`) - the queue's state machine.
* `OutboundQueueProofs`, `OutboundQueueOutcomes` - its theorems, and that it
  implements `MailTransfer`.
* `MailTransfer` - what the queue promises, with the queue left out: transfers
  (one recipient of one message) that are accepted, open, settled or excused.
  `OutboundQueue` instantiates it under a refinement mapping
  (`ImplementsTransfer`); `MailTransferProofs` proves the promise of the abstract
  service.
* `MessageStore`, `MessageStoreProofs` - bodies, references, quota, deletion and
  the purge; its theorems.
* `MailAccess`, `MailAccessProofs` - message records under IMAP, POP3, JMAP and
  delivery at once; its theorems.
* `ChangeSync`, `ChangeSyncProofs` - the change log and the clients that follow
  it; its theorems.
* `MailboxTree`, `MailboxTreeProofs` - creation, renaming, deletion of mailboxes
  while mail is filed; its theorems.
* `SmtpSession`, `SmtpSessionProofs` - one SMTP connection after the other, to
  the reply; its theorems.
* `MC...` modules and the `.cfg` files - the instances.

A name that begins with the name of another definition and is announced by
"Mutant:" is a deliberately wrong variant of that definition, used to confirm
that a property can fail; no specification uses it.

### OutboundQueue

State: `queue`, `lastId` and `blobs` survive a crash; `pc`, `batch`, `cur`,
`msg`, `before`, `passNow`, `wakeAt` are the manager task (where it is, the
`DueBatch`, the message in hand, `pending_before`, the `now` of the pass,
`wake_at`); `wakeup` is the channel, `rate` the limiter, `client` the calls of
enqueue under way, `admin` a retry under way, `doomed` what a running purge has
judged stranded. `origin`, `sent`, `reports`, `failed`, `removed`, `nudged`,
`raced` and the counters are history.

| Code | Actions |
|---|---|
| `enqueue` and its five callers | `StoreBody`, `Publish`, `ClientNudge`, `EnqueueFails` |
| `run`, `scan_due`, `next_wake` | `Scan`, `ScanFails`, `StartPass`, `EndPass`, `WakeByToken`, `WakeByTimer` |
| `process_message`, limiter | `TakeMessage` (held back, or on to the body), `ReadBody`, `Attempt`, `AttemptsDone` |
| `raise_bounces`, `commit` | `NothingToReport`, `StoreReport`, `PublishReport`, `Commit`, `PassFails` |
| `queue_retry`, `queue_delete` | `RetryLoad`, `RetryPersist`, `RetryNudge`, `AdminDelete` |
| purge, crash, clock | `PurgeList`, `PurgeDelete`, `Crash`, `Restart`, `Tick` |

A step is one write to the store, the file system, the channel or the network;
between any two of them every other actor may move. Abstractions: an attempt is
its verdict (with "the other side took the message but the reply was lost" as a
verdict of its own); id allocation and the write of the record are one step,
because an id that was allocated and not used cannot be told from one never
allocated; the forwards and vacation replies of a local delivery come in
through a caller; a graceful shutdown ends like a crash at the same point.

### MessageStore

State: `docs` (metadata and data record of a message), `blobs` (modification
time of each file), `refs`, `links`, `reserved` (the three kinds of key in
`Subspace::BlobRef`; a key exists from its first write on), `usage`, `worker`
(the call each thread is in), `purge` (the sweep). Deliveries are `CheckQuota`,
`PutBody`, `File`; uploads `BeginUpload`, `PutUpload`, `Reserve`; deletions
`LoadData`, `LoadMetadata`, `Erase`, `Release`; `CallFails` cuts any of them
short. The sweep takes its snapshot (`PurgeScan`), deletes dead keys, looks at
each orphan and deletes file and key in two steps, walks the files one by one
and deletes the stranded ones. A write batch is one step: RocksDB transactions
with retry make it so. Quota is the message axis; bytes work alike. The walk's look at
a file's modification time and its lookup of the references are one step
(`PurgeVisit`); what a call may do between the two it may as well do just after
them, before the deletion.

History says what the code does not defend against, so that the properties can
be exact about it: `over` (a deletion of a record another call had deleted),
`leaked` (a release cut short), `dropped` (count thrown away with its key),
`exposed` (stored again between the sweep's verdict and its deletion),
`stalled` (a call that took longer than the grace period).

### MailAccess

State: `data` (per document the UID in each mailbox and the keywords the server
acts on), `lastUid`, `fresh` (document ids), `job` (the operation an actor is in:
items still to do, the records it holds, retries, the untagged lines to come),
`sess` (IMAP sessions with `view`, the UIDs behind the sequence numbers the
client believes in), `drop` (POP3 maildrops). `owner` is history.

| Code | Actions |
|---|---|
| `update_message`, `delete_message` | `LoadRecord`, `WriteRecord`, one message at a time |
| `update_messages` | `LoadForStore`, `CommitStore` (the batch asserts what was read; `UPDATE_RACE_ATTEMPTS` tries) |
| `deliver`, `append_message` | `Deliver`, `Append1`: ids first, the record in one later step |
| IMAP | `Select`, `Noop`, `Enable`, `Idle`, `IdleNotice`, `IdleDone`, `Fetch`, `Store`, `Copy` (also MOVE), `Expunge`, `Close`, `Unselect`, `Logout`; `Finish` sends the lines |
| POP3 | `LoadMaildrop`, `Dele`, `Rset`, `Quit`, `Disconnect` |
| JMAP | `EmailSet` |

A command resolves its message set against a snapshot and then works on single
records, with everybody else in between; that is the code's structure. The
snapshot itself (`MessageStoreCache::build`) is one step, a prefix scan over one
iterator. STORE adds, removes or replaces flags of any nonempty part of the
messages named, because UNCHANGEDSINCE may leave some out. COPY's draw of a UID and the load of the record after
it are one step: the UID counter is touched by nothing the load can see.

### ChangeSync

State: `counter` (shared by change ids, document ids and tombstones), `docs`
(the change id of the last writer of each record), `log`, `vanished`, their
floors, `writer` (ids drawn, batch to come), `client` (state, what it knows, the
call it is in). Writers are `StartInsert` or `Load`, `RecordVanishedOp`,
`RecordOp`, `Commit`; `PruneEmail` and `PruneVanished` are the two partitions of
`prune_change_logs`. Each store read of `Email/get`, `Email/changes`,
`Email/queryChanges` and the QRESYNC replay is an action; a floor that cannot be
read refuses nobody and a log that cannot be read is empty, as in the code.
`raced` names the clients one of the races the code does not exclude has met: a
batch that commits an id below the client's state or while its data and state
are being read, a prune between floor and page, a floor QRESYNC does not ask
for, a log `queryChanges` could not read. A client stays in it for good, even if
it fetches everything again: the properties are about clients that met none of
them. `revived` is a record written back
after its deletion. What remains is what the properties claim.

`HighestModseq` is `highest_modseq_value`, which never answers 0: an IMAP client
of an account without any change holds 1 while the counter is still 0. That is
harmless because id 1 can only be a document id, and `TypeOK` says so. `Email/get`
of all ids cuts its answer at `MAX_OBJECTS_IN_GET` (500) objects, more than the
accounts of the model hold.

### MailboxTree

State: `rows`, `counter`, `lastUid`, `born` (document ids given out), `mail` (the
mailboxes of every message and its UIDs there), `job`; `dead`, `raced` and
`named` are history. Names are flat, as they are in the code (the hierarchy is in
the name).

| Code | Actions |
|---|---|
| `create_mailbox`, `allocate_mailbox_id` | `Create`, `AllocFirst`, `AllocFloor`, `AllocRaise`, `InsertRow` |
| `rename_mailbox` | `Rename`, `RenameLoad`, `RenameWrite` |
| `delete_mailbox` | `Delete` (the list of members), `PurgeLoad` and `PurgeWrite` for each, `DropRow` |
| `deliver`, `append_message` | `Deliver`, `WriteBack` |
| COPY, MOVE | `Copy`, `CopyLoad`, `WriteBack` |
| `apply_patch`, `set_mailboxes` of Email/set | `EmailSet`, `PatchAdd`, `PatchRemove`, `WriteBack` |

`update_message` and `delete_message` load a record and write it back, or delete
it, without asking what happened to it meanwhile; load and write are apart in
every action above (`Put` is the write). `Deliver` and `Copy` look their target
up among the rows; `EmailSet` files under any id, there or not. The lookup of the
mailbox and the draw of its UID are one step in `Deliver` and `Copy`; a COPY of
several messages is one `Copy` after the other, since it does nothing in between.
The deletion of single messages (EXPUNGE, Email/set destroy) is `MailAccess`'s
subject; an EXPUNGE that leaves the message in another mailbox is an `EmailSet`
that clears one.

`raced` names the messages some write put into a mailbox that was not there or
was being deleted, or into any mailbox while a deletion had them on its list. A
stale write-back that restores the mailbox another deletion or MOVE had cleared
is such a write.

### SmtpSession

State: `sess` (mode, stage, TLS, AUTH, sender, recipients, chunk buffer and the
`job` of an accepted body), `dir` (what the directory says of each hosted
address, which an administrator may change between RCPT and delivery). Commands
that are refused change nothing and are left out; each other command is an
action, and the handling of a body is `Submit`, or `Rate`, `Judge`,
`ResolveOne`, `ResolveDone`, `FileOne`, `FileDone`, `Settle`, `SendReply`, with
`Abort` where an error cuts the connection. In `Settle` each relay copy is queued or
fails by itself (`enqueue_relays` logs and goes on), the report of the full
mailboxes as a whole. The verdicts of greylist, block
list, limiter, filters and quota are choices: other connections share them.

## Runs

| Run | Instance | Shows |
|---|---|---|
| `queue_delivery` | one message, 1-2 recipients, five entry points, both limiter axes, one mishap, clock running during passes | `TypeOK`, `NoSilentLoss`, `AtMostOneOutcome`, `WithinLimits` |
| `queue_interference` | two callers, two administrator calls, one purge | the inductive invariants `OneOutcomeInv`, `NoLossInv`; `FreshRecordHasBody`, `NudgeNotLost` |
| `queue_liveness` | one message, one mishap, one administrator call, one purge, fairness | `QueueDrains`; `ImplementsTransfer`, the refinement |
| `queue_body` | one message, one purge | finding: `RecordHasBody` is violated |
| `store_lifecycle` | two threads, two accounts with a quota of one, three messages of one content, one failure | `TypeOK`, `RefCountExact`, `BodyKept`, `QuotaBound`, `LinkWithinRecords` |
| `store_sweep` | two threads, an upload and a message of one content, one failure, fairness | `ReservationKeepsBody`, `UnwantedSwept` |
| `store_deletion` | two threads, two messages of one content | finding: `DeletionKeepsBody` is violated |
| `mailbox_access` | an IMAP session, a POP3 session, a JMAP call, a delivery, two mailboxes, two messages and a third to come, three operations | `TypeOK`, `UidOwner`, `ViewFollows`, `StoreMerges` |
| `change_sync` | two writers, one client of each protocol, counter to five, retention of two, restarts | `TypeOK`, `MailSync`, `QuerySync`, `QresyncSync`, `FloorCoversPruned` |
| `mailbox_tree` | two callers, two names, one message, two user mailbox ids | `TypeOK`, `IdsFresh`, `NoStrandedMail`, `SharedMailKept` |
| `mailbox_recreate` | one caller, one name | finding: `UidMeansOneMessage` is violated |
| `smtp_session` | both modes, two connections, two transactions, two hosted addresses and one remote, one directory change, one failure | `TypeOK`, `OneTransaction`, `AckAccounts`, `RefusalKeepsNothing` |

Bounds. One content is enough for the store: contents do not interact, and
sharing one is where deduplication bites. Two threads are enough for each pair
of calls to overlap with the sweep as the third party. The clock runs past the
grace period and, in `store_sweep`, past the life of a reservation that outlives
it. In the queue a second message matters to the limiter and to the reports
(which are messages themselves), so ids are bounded by four to six and not by
one. Time constants are scaled so that backoff, window, expiry and grace all end
within the clock's bound. `MaxMishaps` counts crashes, errors and lost replies;
the theorems hold for every bound. `QuietAfter` ends new work and mishaps so
that the liveness runs can come to rest; the clock is long enough for the
longest retry chain after it.

`mailbox_access` starts at most three operations, each of several steps, which is
enough for every pair of them to interleave with a third that moves a message;
the third document is the one that arrives late. In `change_sync` a deletion
takes three ids, so five let an insertion, an update or a deletion and a prune
fall on either side of a client's state; clients do not influence each other, so
one at a time, of any protocol, is enough. In `mailbox_tree` the first draw of a
fresh counter is always behind the system mailboxes, so both callers go through
both draws; one message is enough because records do not interact, and with two
mailboxes besides the system one two deletions can share it. Two transactions and two connections are enough in `smtp_session`:
what could leak leaks into the next one. Deadlock is not checked: all work may be done.

Fairness. `Manager` is weakly fair: it is one task in a loop, every network
await has a timeout (`ATTEMPT_TIMEOUT`), errors are logged and the loop goes on,
and the service is restarted after a crash. A call of enqueue or retry that has
begun is carried on by its own task. The purge is a timer loop that logs its
errors. The clock advances. Nothing is assumed of new calls, of failures or of
the administrator's starting anything.

## Findings

1. *Queued bodies are purged.* `enqueue` stores the body with neither a
   reference nor a reservation. After an hour the purge's walk deletes it as
   stranded, while the message may be retried for days; the next pass bounces
   every recipient for want of the body. `smtp/src/queue_enqueue.rs:28` says the
   record "never points at a missing blob". `FreshRecordHasBody` is the part
   that holds.
2. *Overlapping deletions release twice.* `delete_message` deletes
   unconditionally, so two of them decrement reference, link and usage twice; a
   second message of the same content loses its body at the next sweep
   (`mail/src/read.rs:183` says otherwise). `BodyKept` and `RefCountExact` name
   this as one of the exceptions.

3. *UIDVALIDITY survives re-creation.* CREATE and Mailbox/set pass the account's
   creation time to `assign_uid_validity`, so all folders of an account share one
   value for ever, and a folder deleted and created again reuses name,
   UIDVALIDITY and UIDs (`imap/src/session.rs:2497-2508`,
   `jmap/src/mailbox_set.rs:93`). The tests
   `uid_validity_tracks_creation_time_and_changes_on_recreation`
   (`mail/src/mailbox.rs:210`) and
   `folders_created_later_carry_a_later_uid_validity`
   (`mail/src/provision.rs:236`) exercise the helper with times the callers never
   pass. `IdsFresh` is the part that holds: the id behind the name is new.

The other windows the models contain are listed as hazards: the sweep's verdict
outliving a new delivery, `retry_now` and `commit` writing back stale copies
(counted as a mishap in `AtMostOneOutcome`), dead keys deleted after renewal,
the races `ChangeSync` and `MailboxTree` collect in `raced`, and the recipients an
acknowledged message may lose when the directory changes or the queue fails
(`lost` in `SmtpSession`). Two of them deserve a word, because no property can
be stated of them that holds:

* `delete_mailbox` lists the members (`mail/src/mailbox_admin.rs:104`), works
  through the list and deletes the row (`:123`). A delivery, a COPY, an Email/set
  or the stale write-back of another deletion in between leaves a message whose
  only mailbox is gone. Email/set needs no race for it: it looks no mailbox up
  (`jmap/src/email_set.rs:158-173`). `NoStrandedMail` is the part that holds: only
  such a write strands a message.
* `update_message` (`mail/src/read.rs:28-43`) writes the whole record it loaded, so
  a COPY reverts the keywords another actor set meanwhile, even in a mailbox the
  session opened with EXAMINE. `MailAccess` therefore claims nothing of read-only
  sessions; `StoreMerges` is the part that holds, of the operation that asserts
  what it read.

## Proofs

Thirty-three theorems, for every value of the constants:

| Module | Theorems |
|---|---|
| `OutboundQueueProofs` | `Spec => []TypeOK`, `[]WithinLimits`, `[]FreshRecordHasBody` |
| `OutboundQueueOutcomes` | `Spec => []NudgeNotLost`, `[]OneOutcomeInv`, `[]AtMostOneOutcome`, `[]NoLossInv`, `[]NoSilentLoss`, `ImplementsTransfer` |
| `MailTransferProofs` | `TransferSpec => []TransferPromise` |
| `MessageStoreProofs` | `Spec => []TypeOK`, `[]RefCountExact`, `[]QuotaBound`, `[]LinkWithinRecords`, `[]BodyKept`, `[]ReservationKeepsBody` |
| `MailAccessProofs` | `Spec => []TypeOK`, `[]UidOwner`, `[]ViewFollows`, `StoreMerges` |
| `ChangeSyncProofs` | `Spec => []TypeOK`, `[]FloorCoversPruned`, `[]MailSync`, `[]QuerySync`, `[]QresyncSync` |
| `MailboxTreeProofs` | `Spec => []TypeOK`, `[]IdsFresh`, `[]NoStrandedMail`, `SharedMailKept` |
| `SmtpSessionProofs` | `Spec => []TypeOK`, `[]OneTransaction`, `[]AckAccounts`, `[]RefusalKeepsNothing` |

Those of the queue hold for every set of callers, senders and
bodies, every number of ids, recipients, mishaps, administrator calls and
sweeps, every limit and every clock. They rest on the named assumptions of
`QueueModel` and `OutboundQueue`: constants are natural numbers (intervals and
the attempt limit positive), the null sender is no sender, `None` is no
message, and 2^k is a positive natural number for the shifts of the backoff
(which the provers cannot compute). The others rest on
`MessageStoreAssumption` (threads, accounts and contents are finitely many, so
that they can be counted), `AccessAssumption` and `NoRecordAssumption`,
`SyncAssumption`, `TreeAssumption` and
`RowAssumption`, `SmtpAssumption` and `NoneAssumption`: bounds are natural
numbers, retention, grace period, page sizes and the number of attempts positive,
the kinds of actors are apart, the initial messages are different, and `None` is none of
the values it stands beside.

* `NudgeNotLost` is inductive with the type invariant.
* `AtMostOneOutcome` is not: a count of one must exclude another attempt, so the
  invariant has to speak of every copy a pass can start or go on from.
  `OneOutcomeInv` says that in the record, in the batch's snapshot and in the
  working copy a recipient still pending has had only outcomes that mishaps
  account for; that the record of the message in hand is exempt; that the
  recipients about to be reported have had none; and that ids above the counter
  are unused, so that a report starts with a clean slate. A retry that writes
  back a stale copy is what forces it to count as a mishap.
* `NoSilentLoss` is not either: `Commit` may remove a record because the working
  copy shows everybody settled. `NoLossInv` says that every copy (record,
  snapshot, working copy, the administrator's) has the recipients the message
  was accepted with, and that one settled in it has a lasting outcome, or, in
  the working copy before the commit, is about to be reported. It uses
  `FreshIds` of the first invariant.

* `ImplementsTransfer`. A transfer is an id and a slot. It is accepted when the
  history has an origin for it, mute when its return path is null, open while
  the record shows it pending, its outcomes are the copies and reports counted,
  it is excused when deleted or failed with nobody to tell, and faults are the
  mishaps. Most steps of the manager stutter; `Publish` is `Accept`, `Attempt` is
  `HandOver` or `HandOverUnheard`, `PublishReport` is `Report`, `Commit` and
  `RetryPersist` are `Rewrite`, `AdminDelete` is `Withdraw`. That `Commit` may
  close what it closes is `NoLossInv`; that an outcome may be added is
  `OneOutcomeInv`; two small invariants (`NothingUnderFreshIds`,
  `ReportsHaveReader`) say that a new id starts unexcused and that a report is
  never about a mute message.
* `IdsFresh` is not inductive: between the two draws an id that is too low is in
  somebody's hands and must not be used. `AllocInv` says that every id used so
  far is a system id or at most the counter, that ids in hand are at most the
  counter, unused when above the system ids and pairwise different, and that a
  caller about to raise holds an id no higher than its floor, so that the second
  draw lands above both counter and floor.
* `NoStrandedMail` and `SharedMailKept` are about a deletion that works through
  a list made at its start. `DeletionInv` says of that list that it still holds
  every member of the mailbox, and that the messages it takes altogether are in
  no other mailbox. Nothing is known of the records the actors hold, which may
  be as stale as they like: a write either adds no mailbox to the record in the
  store, and then keeps both facts, or adds one, and then leaves a trace in
  `raced` exactly when that mailbox is gone or going or the message is on a list.
* `OneTransaction` speaks only of accepted bodies; `SmtpInv` adds that while the
  session reads commands its chunks and recipients belong to the transaction
  that is open (`HeldTogether`) and what the stages of a body hold (`JobShape`).
* `AckAccounts` and `RefusalKeepsNothing` speak of the reply, the invariant of the
  way to it. `AccountInv` keeps the books of an accepted body stage by stage:
  which recipients have been resolved and to what, that one resolved is held for
  filing, handed on or on record as lost, that each held copy already filed has
  its outcome, and that until the mailboxes are tried nothing but a forward has
  happened to anybody.
* `WithinLimits` and `FreshRecordHasBody` are claims about the record, but a record
  is written from a copy: a request, the batch, the working copy, the
  administrator's, a report in the making. `CopiesSound` says of all of them that
  a pending recipient has attempts left and that the body was written no earlier
  than the message was created and is in no purge's list, unless the grace
  period is over or the body is in `raced`. `RatesBounded` is the limiter: it asks
  before it counts.
* `MessageStore`. `RefCountExact`, `LinkWithinRecords` and `QuotaBound` are sums over
  threads and records, proved by counting: a step adds or removes one element of
  one of the sets counted. That needs documents written once
  (`DocsWrittenOnce`: a drawn id is in one delivery's hands, and what a deletion
  has read of a record is what it says until it is gone), and for the quota the
  deliveries that have passed the check and not yet committed. `BodyInv` says of
  each body why no pending deletion of the sweep can hit it: a body with a
  record, or in a call's hands within the grace period, is neither among the
  orphans judged nor condemned, unless the history says it was released twice,
  exposed or stalled (`CountKept`, `CallKept`, `OrphanSafe`, `CondemnedSafe`,
  `ReservationSeen`, `BodyPresent`). `Clocks` bounds the times they compare.
* `MailAccess`. `AccessInv` has four parts. `OwnerInv` extends `UidOwner` to every
  copy from which a record can come back: the records an operation holds and the
  UIDs it has drawn were handed out for the document in hand, and none is above
  the counter. `InsertsApart` says that a document being inserted is in no
  record and in nobody else's hands, so that its write adds one at the end.
  `SessionJobs` says what the command of a session may do to the mailbox it has
  selected (COPY files elsewhere, MOVE and EXPUNGE take out, FETCH sets a flag,
  a read-only session only appends and copies).
  `ViewsFollow` is `ViewFollows` in the middle of a command: the list the client
  will have after the lines still to be sent is a prefix of the mailbox without
  the messages the command has yet to take out, each of them still where the
  snapshot showed it. `StoreMerges` is the meaning of the assertions of
  `update_messages`, from `OwnerInv`. Lists are ascending enumerations
  (`Ascending`): that a finite set of numbers has exactly one, that dropping the
  n-th leaves the enumeration of the rest, that the renumbered EXPUNGE lines
  drop what was hit (`ToldPrefix`) and VANISHED too (`WithoutPrefix`) are proved
  by least counterexample, with the well-foundedness of the naturals in place of
  an induction rule.
* `ChangeSync`. `LogInv` is about log and records alone: ids drawn are in one
  writer's hands and not yet in the log, a record's last write is in the log or at
  or below the floor, an insertion is the first and a deletion the last entry of
  a document. Writers never draw id 1 for a change, since a document id comes first
  (`WriterOK`), so a client that was told 1 by a fresh account has missed nothing
  (`Reaches`). On top of it the client's part: what it has read is no newer than
  the state that will be stored with it (`ReadHolds`), and in every stage of a
  call each difference between what it believes and the records has an entry
  behind the state it holds, in the page in hand or in the fetches to come
  (`ChangesOK`, `QueryOK`, `QresyncOK`). That a page is an initial segment of the
  entries after a state is a counting argument (`PageFirst`); that it has a
  greatest id rests on the well-foundedness of the naturals (`MaxIs`).

Each invariant is proved one action at a time, with frame lemmas for the actions
that leave its part of the state alone, and each was checked by TLC on the
instance of its component before it was proved. `queue_interference` checks two
of them, `OneOutcomeInv` and `NoLossInv`, in every run.

Only model-checked: liveness (`QueueDrains`, `UnwantedSwept`). Fairness and
ENABLED are out of the provers' reach.

## Not modelled

* Message text in any form: MIME, headers, DSN wording, DKIM/SPF/DMARC/ARC, Sieve
  scripts, search and sorting. Pure transformations; the models take their
  verdict.
* DNS, TLS handshakes and ACME, the SMTP dialogue of an outgoing attempt.
* The directory: one batch per change keeps records and address index together;
  it appears as the directory that changes under an SMTP session.
* Login, throttling and tokens; ManageSieve; DAV; JMAP submissions, push,
  identities and import; the HTTP API beyond queue administration; the frontend.
* Commands that only read (LIST, STATUS, SEARCH, the queue listing).
* `smtp/src/queue_lease.rs`, which the program does not use.

Roughly half of the repository's Rust is tests kept in the same files, and most
of the rest is parsing, formatting and request plumbing around the operations
modelled here, so the lines the models stand for are a small share of the whole.
They are the ones where several actors, a crash or a stale read decide the
outcome.

## Plan

Done: the queue with its refinement, the message store, message access, the
change log, the mailbox tree, the SMTP session, thirty-three theorems. Left, in
order:

1. `SmtpSession` composed with `OutboundQueue` through `enqueue`.
2. The address index of the directory; login throttling and tokens; ETag
   preconditions of DAV; certificate renewal.
