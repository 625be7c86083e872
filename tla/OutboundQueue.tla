--------------------------- MODULE OutboundQueue ---------------------------
(* The outbound queue: messages handed in by submission, JMAP, forwarding   *)
(* and the responders (queue_enqueue.rs), the queue manager's scan / pass /  *)
(* sleep loop (queue_manager.rs, queue_deliver.rs), the administrator's      *)
(* retry and delete, the hourly blob purge, crashes and store errors.        *)
EXTENDS QueueModel

CONSTANTS
    Clients,            \* concurrent callers of enqueue
    ActiveRoutes,       \* the entry points they use
    DomainOf,           \* domain part of a return path
    MaxPerSender,       \* outbound limits, 0 switches an axis off
    MaxPerDomain,
    MaxAge,             \* DEFAULT_MAX_AGE, 5 days
    AttemptLimit,       \* Expiry::Attempts(25)
    RefreshInterval,    \* REFRESH_INTERVAL, 300 s
    PurgeGrace,         \* PURGE_GRACE_SECS, 3600 s
    MaxRecipients,      \* bound: recipients of one message
    MaxId,              \* bound: queue ids
    MaxSubmissions,     \* bound: messages handed in by clients
    MaxTime,            \* bound: the clock
    QuietAfter,         \* bound: last time something is handed in or goes wrong
    MaxMishaps,         \* bound: crashes, store errors, lost replies
    MaxAdminOps,        \* bound: administrator calls
    MaxSweeps,          \* bound: purge sweeps that find a stranded body
    SlowPasses          \* does the clock run during a pass or a call

Ids == 1..MaxId

AllSlots == 1..MaxRecipients

ASSUME OutboundQueueAssumption ==
    /\ ActiveRoutes \subseteq {"submission", "jmap", "relay", "vacation", "overQuota"}
    /\ DomainOf \in [ReturnPaths -> ReturnPaths]
    /\ MaxPerSender \in Nat /\ MaxPerDomain \in Nat
    /\ MaxAge \in Nat /\ AttemptLimit \in Nat \ {0}
    /\ RefreshInterval \in Nat \ {0} /\ PurgeGrace \in Nat \ {0}
    /\ MaxRecipients \in Nat \ {0} /\ MaxId \in Nat /\ MaxSubmissions \in Nat
    /\ MaxTime \in Nat /\ QuietAfter \in Nat /\ MaxMishaps \in Nat /\ MaxAdminOps \in Nat /\ MaxSweeps \in Nat
    /\ SlowPasses \in BOOLEAN

VARIABLES
    now,        \* the wall clock
    queue,      \* Subspace::Queue, a message or None for every id
    lastId,     \* the id counter
    blobs,      \* blob store: modification time of each stored body
    pc,         \* where the queue manager is
    batch,      \* DueBatch: the snapshots still to be processed
    cur,        \* id of the message being processed, 0 if none
    msg,        \* its working copy
    before,     \* pending_before: slots pending when the pass took it up
    passNow,    \* the `now` that process was called with, 0 outside a pass
    wakeAt,     \* wake_at of the sleep that follows the pass, 0 before the scan
    wakeup,     \* the wakeup channel holds its one token
    rate,       \* outbound rate counters of the window rate.window
    client,     \* the request each caller is about to write, None if idle
    admin,      \* the administrator's retry between its load and its write
    doomed      \* bodies a running purge has judged stranded

mailVars == <<now, queue, lastId, blobs>>
managerVars == <<pc, batch, cur, msg, before, passNow, wakeAt, rate>>

(* History the properties read. *)
VARIABLES
    origin,     \* the message as first published under each id
    sent,       \* copies handed over, per id and slot
    reports,    \* bounce reports queued, per id and slot
    failed,     \* slots that reached the status Bounced
    removed,    \* ids the administrator deleted
    nudged,     \* ids published or retried with a wakeup since the last scan
    raced,      \* bodies stored again while a purge had them marked
    mishaps,    \* crashes, errors, lost replies and stale retries so far
    submitted,  \* messages handed in
    adminOps,   \* administrator calls made
    sweeps      \* purge sweeps made

history == <<origin, sent, reports, failed, removed, nudged, raced,
             mishaps, submitted, adminOps, sweeps>>

vars == <<mailVars, managerVars, wakeup, client, admin, doomed, history>>

----------------------------------------------------------------------------
(* Who hands messages in: enqueue_submission, the JMAP submitter,            *)
(* enqueue_forward / enqueue_relays, respond_vacations, bounce_over_quota.   *)
Route(r) ==
    [from   |-> CASE r \in {"vacation", "overQuota"} -> {NullSender}
                  [] r = "jmap"                      -> Senders
                  [] OTHER                           -> ReturnPaths,
     expiry |-> IF r \in {"submission", "overQuota"} THEN "at" ELSE "attempts",
     nudges |-> r = "jmap"]

ExpiryOf(kind, time) ==
    [kind |-> kind, limit |-> IF kind = "at" THEN time + MaxAge ELSE AttemptLimit]

NewMessage(time, hash, from, count, kind) ==
    [created |-> time, blob |-> hash, returnPath |-> from,
     recipients |-> [s \in 1..count |-> NewRecipient(time, ExpiryOf(kind, time))]]

(* Mutant: a body already stored keeps its old time. *)
PutBlobUntouched(hash) ==
    /\ blobs' = [h \in DOMAIN blobs \cup {hash} |-> IF h \in DOMAIN blobs THEN blobs[h] ELSE now]
    /\ raced' = IF hash \in doomed THEN raced \cup {hash} ELSE raced

(* blobs.put: writes the body, or refreshes the time of one already there.   *)
PutBlob(hash) ==
    /\ blobs' = [h \in DOMAIN blobs \cup {hash} |-> IF h = hash THEN now ELSE blobs[h]]
    /\ raced' = IF hash \in doomed THEN raced \cup {hash} ELSE raced

PutRecord(id, message) == queue' = [queue EXCEPT ![id] = message]

Message == {m \in QueuedMessage : Slots(m) \subseteq AllSlots}

Records == [Ids -> Message \cup {None}]

Requests == [message : Message, stage : {"record", "nudge"}, nudges : BOOLEAN, id : Nat]

AdminCalls == [op : {"persist", "nudge"}, id : Ids, message : Message, at : Nat]

(* The bound on what goes wrong. *)
MayFail == mishaps < MaxMishaps /\ now <= QuietAfter

(* enqueue, first half: the body goes to the blob store.                     *)
StoreBody(c) ==
    /\ pc # "down" /\ client[c] = None /\ submitted < MaxSubmissions /\ now <= QuietAfter
    /\ \E r \in ActiveRoutes, b \in Bodies, count \in AllSlots, from \in ReturnPaths :
        /\ from \in Route(r).from
        /\ r \notin {"submission", "jmap"} => count = 1
        /\ client' = [client EXCEPT ![c] =
               [message |-> NewMessage(now, b, from, count, Route(r).expiry),
                stage |-> "record", nudges |-> Route(r).nudges, id |-> 0]]
        /\ PutBlob(b)
    /\ submitted' = submitted + 1
    /\ UNCHANGED <<now, queue, lastId, managerVars, wakeup, admin, doomed,
                   origin, sent, reports, failed, removed, nudged, mishaps, adminOps, sweeps>>

(* enqueue, second half: allocate_id and the record itself.                  *)
Publish(c) ==
    /\ client[c] # None /\ client[c].stage = "record" /\ lastId < MaxId
    /\ lastId' = lastId + 1
    /\ PutRecord(lastId + 1, client[c].message)
    /\ origin' = [origin EXCEPT ![lastId + 1] = client[c].message]
    /\ client' = [client EXCEPT ![c] =
           IF @.nudges THEN [@ EXCEPT !.stage = "nudge", !.id = lastId + 1] ELSE None]
    /\ UNCHANGED <<now, blobs, managerVars, wakeup, admin, doomed, sent, reports,
                   failed, removed, nudged, raced, mishaps, submitted, adminOps, sweeps>>

(* The submitter's try_send: a full channel already holds a wakeup.          *)
ClientNudge(c) ==
    /\ client[c] # None /\ client[c].stage = "nudge"
    /\ wakeup' = TRUE
    /\ nudged' = nudged \cup {client[c].id}
    /\ client' = [client EXCEPT ![c] = None]
    /\ UNCHANGED <<mailVars, managerVars, admin, doomed, origin, sent, reports,
                   failed, removed, raced, mishaps, submitted, adminOps, sweeps>>

(* A store error in enqueue: the caller is told, nothing is queued.          *)
EnqueueFails(c) ==
    /\ client[c] # None /\ client[c].stage = "record"
    /\ MayFail
    /\ mishaps' = mishaps + 1
    /\ client' = [client EXCEPT ![c] = None]
    /\ UNCHANGED <<mailVars, managerVars, wakeup, admin, doomed, origin, sent, reports,
                   failed, removed, nudged, raced, submitted, adminOps, sweeps>>

----------------------------------------------------------------------------
(* The queue manager.  run: scan, hand the batch to process, sleep.          *)

DueIds(time) == {id \in Ids : queue[id] # None /\ HasDueRecipient(queue[id], time)}

NoBatch == [id \in Ids |-> None]

(* next_due of the batch: the earliest due time over the messages that have  *)
(* nothing due yet.                                                          *)
LaterTimes(time) ==
    UNION {DueTimes(queue[id]) : id \in {i \in Ids \ DueIds(time) : queue[i] # None}}

(* Mutant: without a later due time the manager sleeps until it is nudged. *)
NextWakeNoRefresh(time) ==
    LET dues == LaterTimes(time)
    IN  IF dues = {} THEN MaxTime + 1 ELSE CHOOSE t \in dues : \A u \in dues : t <= u

NextWake(time) ==
    LET dues == LaterTimes(time) \cup {time + RefreshInterval}
    IN  CHOOSE t \in dues : \A u \in dues : t <= u

Scan ==
    /\ pc = "scan"
    /\ batch' = [id \in Ids |-> IF id \in DueIds(now) THEN queue[id] ELSE None]
    /\ wakeAt' = NextWake(now)
    /\ pc' = "start"
    /\ nudged' = {}
    /\ UNCHANGED <<mailVars, cur, msg, before, passNow, rate, wakeup, client, admin, doomed,
                   origin, sent, reports, failed, removed, raced, mishaps, submitted, adminOps, sweeps>>

(* A failed scan is an empty batch, tried again after the refresh interval.  *)
ScanFails ==
    /\ pc = "scan" /\ MayFail
    /\ mishaps' = mishaps + 1
    /\ batch' = NoBatch
    /\ wakeAt' = now + RefreshInterval
    /\ pc' = "start"
    /\ nudged' = {}
    /\ UNCHANGED <<mailVars, cur, msg, before, passNow, rate, wakeup, client, admin, doomed,
                   origin, sent, reports, failed, removed, raced, submitted, adminOps, sweeps>>

(* The deliver callback calls process with a clock reading of its own.       *)
StartPass ==
    /\ pc = "start"
    /\ passNow' = now
    /\ pc' = "next"
    /\ UNCHANGED <<mailVars, batch, cur, msg, before, wakeAt, rate, wakeup, client,
                   admin, doomed, history>>

(* Rate counters: one per sender and one per domain in each window.  An axis *)
(* whose limit is 0 neither denies nor counts.                               *)
RateKeys(from) ==
    (IF MaxPerSender > 0 THEN {<<"sender", from>>} ELSE {})
    \cup (IF MaxPerDomain > 0 THEN {<<"domain", DomainOf[from]>>} ELSE {})

RateLimit(key) == IF key[1] = "sender" THEN MaxPerSender ELSE MaxPerDomain

AllRateKeys == {"sender", "domain"} \X ReturnPaths

NoCounts == [key \in AllRateKeys |-> 0]

Counts == IF rate.window = Window(now) THEN rate.count ELSE NoCounts

RateAllows(from) == \A key \in RateKeys(from) : Counts[key] < RateLimit(key)

RateRecord(from) ==
    rate' = [window |-> Window(now),
             count  |-> [key \in AllRateKeys |->
                            IF key \in RateKeys(from) THEN Counts[key] + 1 ELSE Counts[key]]]

BatchIds == {id \in Ids : batch[id] # None}

FirstId == CHOOSE id \in BatchIds : \A other \in BatchIds : id <= other

(* process_message takes the next snapshot; it is either held back by the    *)
(* limiter or goes on to its body.                                           *)
TakeMessage ==
    /\ pc = "next" /\ BatchIds # {}
    /\ batch' = [batch EXCEPT ![FirstId] = None]
    /\ cur' = FirstId
    /\ LET message == batch[FirstId]
           due     == HasDueRecipient(message, passNow)
       IN  \/ /\ due /\ ~RateAllows(message.returnPath)
              /\ msg' = HoldBack(message, passNow)
              /\ before' = {}
              /\ pc' = "commit"
              /\ rate' = rate
           \/ /\ due => RateAllows(message.returnPath)
              /\ msg' = message
              /\ before' = PendingSlots(message)
              /\ pc' = "body"
              /\ IF due THEN RateRecord(message.returnPath) ELSE rate' = rate
    /\ UNCHANGED <<mailVars, passNow, wakeAt, wakeup, client, admin, doomed, history>>

(* The body is read from the blob store; without one every pending recipient *)
(* bounces.                                                                  *)
ReadBody ==
    /\ pc = "body"
    /\ IF msg.blob \in DOMAIN blobs
       THEN pc' = "attempt" /\ UNCHANGED <<msg, failed>>
       ELSE /\ pc' = "report"
            /\ msg' = BounceAll(msg)
            /\ failed' = failed \cup {<<cur, s>> : s \in PendingSlots(msg)}
    /\ UNCHANGED <<mailVars, batch, cur, before, passNow, wakeAt, rate, wakeup, client,
                   admin, doomed, origin, sent, reports, removed, nudged, raced,
                   mishaps, submitted, adminOps, sweeps>>

NextSlot == CHOOSE s \in DueSlots(msg, passNow) :
                \A other \in DueSlots(msg, passNow) : s <= other

(* One recipient: local delivery, relay or MX delivery, and its verdict.  What *)
(* local delivery files is MessageStore's subject; the forwards and vacation   *)
(* replies it queues are handed in like any other, by a caller.                *)
Attempt ==
    /\ pc = "attempt" /\ DueSlots(msg, passNow) # {}
    /\ \E attempt \in Attempts :
        /\ attempt = "lostReply" => MayFail
        /\ mishaps' = mishaps + (IF attempt = "lostReply" THEN 1 ELSE 0)
        /\ msg' = AfterAttempt(msg, NextSlot, attempt, passNow)
        /\ sent' = IF attempt \in {"delivered", "lostReply"}
                   THEN [sent EXCEPT ![<<cur, NextSlot>>] = @ + 1] ELSE sent
        /\ failed' = IF msg'.recipients[NextSlot].status = "bounced"
                     THEN failed \cup {<<cur, NextSlot>>} ELSE failed
    /\ UNCHANGED <<mailVars, pc, batch, cur, before, passNow, wakeAt, rate, wakeup, client,
                   admin, doomed, origin, reports, removed, nudged, raced, submitted, adminOps, sweeps>>

AttemptsDone ==
    /\ pc = "attempt" /\ DueSlots(msg, passNow) = {}
    /\ pc' = "report"
    /\ UNCHANGED <<mailVars, batch, cur, msg, before, passNow, wakeAt, rate, wakeup, client,
                   admin, doomed, history>>

(* Mutant: recipients that had bounced in an earlier pass are reported again. *)
EveryBounced == {s \in Slots(msg) : msg.recipients[s].status = "bounced"}

(* Mutant: pending_before is taken after the attempts. *)
NewlyBouncedAfter == {s \in PendingSlots(msg) : msg.recipients[s].status = "bounced"}

NewlyBounced == {s \in before : msg.recipients[s].status = "bounced"}

(* Mutant: with nothing to report the pass ends before its commit. *)
NothingToReportNorCommit ==
    /\ pc = "report"
    /\ msg.returnPath = NullSender \/ NewlyBounced = {}
    /\ cur' = 0 /\ msg' = None /\ before' = {} /\ pc' = "next"
    /\ UNCHANGED <<mailVars, batch, passNow, wakeAt, rate, wakeup, client,
                   admin, doomed, history>>

(* raise_bounces: nobody to tell, or nothing to tell.                        *)
NothingToReport ==
    /\ pc = "report"
    /\ msg.returnPath = NullSender \/ NewlyBounced = {}
    /\ pc' = "commit"
    /\ UNCHANGED <<mailVars, batch, cur, msg, before, passNow, wakeAt, rate, wakeup, client,
                   admin, doomed, history>>

(* raise_bounces: the report is enqueued, body first, ...                    *)
StoreReport ==
    /\ pc = "report"
    /\ msg.returnPath # NullSender /\ NewlyBounced # {}
    /\ PutBlob(<<cur, passNow>>)
    /\ pc' = "record"
    /\ UNCHANGED <<now, queue, lastId, batch, cur, msg, before, passNow, wakeAt, rate, wakeup,
                   client, admin, doomed, origin, sent, reports, failed, removed, nudged,
                   mishaps, submitted, adminOps, sweeps>>

(* ... then its record, from the empty return path.                          *)
PublishReport ==
    /\ pc = "record" /\ lastId < MaxId
    /\ LET report == NewMessage(passNow, <<cur, passNow>>, NullSender, 1, "at")
       IN  /\ PutRecord(lastId + 1, report)
           /\ origin' = [origin EXCEPT ![lastId + 1] = report]
    /\ lastId' = lastId + 1
    /\ reports' = [p \in Ids \X AllSlots |->
           IF p[1] = cur /\ p[2] \in NewlyBounced THEN reports[p] + 1 ELSE reports[p]]
    /\ pc' = "commit"
    /\ UNCHANGED <<now, blobs, batch, cur, msg, before, passNow, wakeAt, rate, wakeup, client,
                   admin, doomed, sent, failed, removed, nudged, raced, mishaps,
                   submitted, adminOps, sweeps>>

(* Mutant: the working copy outlives its pass. *)
DropWorkKeepsCopy == cur' = 0 /\ msg' = msg /\ before' = {} /\ pc' = "next"

DropWork == cur' = 0 /\ msg' = None /\ before' = {} /\ pc' = "next"

(* commit: the working copy replaces the record, or removes it when complete.*)
Commit ==
    /\ pc = "commit"
    /\ PutRecord(cur, IF IsComplete(msg) THEN None ELSE msg)
    /\ DropWork
    /\ UNCHANGED <<now, lastId, blobs, batch, passNow, wakeAt, rate, wakeup, client,
                   admin, doomed, history>>

(* Mutant: an error of the report is logged and the outcome committed anyway. *)
PassFailsButCommits ==
    /\ pc \in {"report", "record"}
    /\ msg.returnPath # NullSender /\ NewlyBounced # {}
    /\ MayFail
    /\ mishaps' = mishaps + 1
    /\ pc' = "commit"
    /\ UNCHANGED <<mailVars, batch, cur, msg, before, passNow, wakeAt, rate, wakeup, client,
                   admin, doomed, origin, sent, reports, failed, removed, nudged, raced,
                   submitted, adminOps, sweeps>>

(* A store error while reading the body, enqueuing the report or committing: *)
(* logged, the message stays queued as it was.                               *)
PassFails ==
    /\ pc \in {"body", "report", "record", "commit"}
    /\ pc = "report" => msg.returnPath # NullSender /\ NewlyBounced # {}
    /\ MayFail
    /\ mishaps' = mishaps + 1
    /\ DropWork
    /\ UNCHANGED <<mailVars, batch, passNow, wakeAt, rate, wakeup, client, admin, doomed,
                   origin, sent, reports, failed, removed, nudged, raced, submitted, adminOps, sweeps>>

(* Mutant: wakeups that came in during the pass are drained before the sleep. *)
EndPassDrained ==
    /\ pc = "next" /\ BatchIds = {}
    /\ pc' = "sleep" /\ passNow' = 0 /\ wakeup' = FALSE
    /\ UNCHANGED <<mailVars, batch, cur, msg, before, wakeAt, rate, client,
                   admin, doomed, history>>

EndPass ==
    /\ pc = "next" /\ BatchIds = {}
    /\ pc' = "sleep" /\ passNow' = 0
    /\ UNCHANGED <<mailVars, batch, cur, msg, before, wakeAt, rate, wakeup, client,
                   admin, doomed, history>>

(* select! is biased: a wakeup is taken before the timer.                    *)
WakeByToken ==
    /\ pc = "sleep" /\ wakeup
    /\ wakeup' = FALSE
    /\ pc' = "scan" /\ wakeAt' = 0
    /\ UNCHANGED <<mailVars, batch, cur, msg, before, passNow, rate, client,
                   admin, doomed, history>>

WakeByTimer ==
    /\ pc = "sleep" /\ ~wakeup /\ now >= wakeAt
    /\ pc' = "scan" /\ wakeAt' = 0
    /\ UNCHANGED <<mailVars, batch, cur, msg, before, passNow, rate, wakeup, client,
                   admin, doomed, history>>

----------------------------------------------------------------------------
(* The administrator.  retry_now loads the record, ...                       *)
RetryLoad ==
    /\ pc # "down" /\ admin = None /\ adminOps < MaxAdminOps /\ now <= QuietAfter
    /\ \E id \in Ids :
        /\ queue[id] # None
        /\ admin' = [op |-> "persist", id |-> id, message |-> queue[id], at |-> now]
    /\ adminOps' = adminOps + 1
    /\ UNCHANGED <<mailVars, managerVars, wakeup, client, doomed, origin, sent, reports,
                   failed, removed, nudged, raced, mishaps, submitted, sweeps>>

(* ... writes it back with every pending recipient due, whatever became of   *)
(* the record in between, ...                                                *)
RetryPersist ==
    /\ admin # None /\ admin.op = "persist"
    /\ PutRecord(admin.id, DueNow(admin.message, admin.at))
    /\ admin' = [admin EXCEPT !.op = "nudge"]
    /\ mishaps' = mishaps + (IF queue[admin.id] = admin.message THEN 0 ELSE 1)
    /\ UNCHANGED <<now, lastId, blobs, managerVars, wakeup, client, doomed, origin, sent,
                   reports, failed, removed, nudged, raced, submitted, adminOps, sweeps>>

(* ... and wakes the manager.                                                *)
RetryNudge ==
    /\ admin # None /\ admin.op = "nudge"
    /\ wakeup' = TRUE
    /\ nudged' = nudged \cup {admin.id}
    /\ admin' = None
    /\ UNCHANGED <<mailVars, managerVars, client, doomed, origin, sent, reports,
                   failed, removed, raced, mishaps, submitted, adminOps, sweeps>>

(* queue_delete: the record goes, its body is left to the purge.             *)
AdminDelete ==
    /\ pc # "down" /\ adminOps < MaxAdminOps /\ now <= QuietAfter
    /\ \E id \in Ids :
        /\ queue[id] # None
        /\ PutRecord(id, None)
        /\ removed' = removed \cup {id}
    /\ adminOps' = adminOps + 1
    /\ UNCHANGED <<now, lastId, blobs, managerVars, wakeup, client, admin, doomed, origin,
                   sent, reports, failed, nudged, raced, mishaps, submitted, sweeps>>

----------------------------------------------------------------------------
(* purge_orphans as the queue meets it: no queued body has a reference count, *)
(* so each is stranded once its time is a grace period old.  The sweep first  *)
(* lists the stranded bodies, then deletes them one after the other.          *)
PurgeList ==
    /\ pc # "down" /\ doomed = {} /\ sweeps < MaxSweeps
    /\ doomed' = {h \in DOMAIN blobs : blobs[h] + PurgeGrace <= now}
    /\ doomed' # {}
    /\ sweeps' = sweeps + 1
    /\ UNCHANGED <<mailVars, managerVars, wakeup, client, admin, origin, sent, reports, failed,
                   removed, nudged, raced, mishaps, submitted, adminOps>>

PurgeDelete ==
    /\ \E hash \in doomed :
        /\ blobs' = [h \in DOMAIN blobs \ {hash} |-> blobs[h]]
        /\ doomed' = doomed \ {hash}
    /\ UNCHANGED <<now, queue, lastId, managerVars, wakeup, client, admin, history>>

----------------------------------------------------------------------------
(* A crash, or the abort that ends a shutdown: queue, counter and bodies      *)
(* survive, everything else is gone.                                          *)
Crash ==
    /\ pc # "down" /\ MayFail
    /\ mishaps' = mishaps + 1
    /\ pc' = "down" /\ batch' = NoBatch /\ cur' = 0 /\ msg' = None /\ before' = {}
    /\ passNow' = 0 /\ wakeAt' = 0
    /\ rate' = [window |-> 0, count |-> NoCounts]
    /\ wakeup' = FALSE /\ nudged' = {}
    /\ client' = [c \in Clients |-> None] /\ admin' = None /\ doomed' = {}
    /\ UNCHANGED <<mailVars, origin, sent, reports, failed, removed, raced, submitted, adminOps, sweeps>>

Restart ==
    /\ pc = "down"
    /\ pc' = "scan"
    /\ UNCHANGED <<mailVars, batch, cur, msg, before, passNow, wakeAt, rate, wakeup, client,
                   admin, doomed, history>>

(* Without SlowPasses a pass or a call takes no time on the clock's scale.    *)
Tick ==
    /\ now < MaxTime
    /\ ~SlowPasses => /\ pc = "sleep" /\ ~wakeup /\ now < wakeAt
                      /\ admin = None /\ \A c \in Clients : client[c] = None
    /\ now' = now + 1
    /\ UNCHANGED <<queue, lastId, blobs, managerVars, wakeup, client, admin, doomed, history>>

----------------------------------------------------------------------------
Init ==
    /\ now = 0 /\ lastId = 0
    /\ queue = NoBatch /\ blobs = [h \in {} |-> 0]
    /\ pc = "scan" /\ batch = NoBatch /\ cur = 0 /\ msg = None /\ before = {}
    /\ passNow = 0 /\ wakeAt = 0 /\ wakeup = FALSE
    /\ rate = [window |-> 0, count |-> NoCounts]
    /\ client = [c \in Clients |-> None] /\ admin = None /\ doomed = {}
    /\ origin = NoBatch
    /\ sent = [p \in Ids \X AllSlots |-> 0] /\ reports = [p \in Ids \X AllSlots |-> 0]
    /\ failed = {} /\ removed = {} /\ nudged = {} /\ raced = {}
    /\ mishaps = 0 /\ submitted = 0 /\ adminOps = 0 /\ sweeps = 0

Manager ==
    \/ Scan \/ StartPass \/ TakeMessage \/ ReadBody \/ Attempt \/ AttemptsDone
    \/ NothingToReport \/ StoreReport \/ PublishReport \/ Commit \/ EndPass
    \/ WakeByToken \/ WakeByTimer \/ Restart

Caller(c) == StoreBody(c) \/ Publish(c) \/ ClientNudge(c) \/ EnqueueFails(c)

Administrator == RetryLoad \/ RetryPersist \/ RetryNudge \/ AdminDelete

Failure == ScanFails \/ PassFails \/ Crash

Next ==
    \/ Manager
    \/ \E c \in Clients : Caller(c)
    \/ Administrator
    \/ PurgeList \/ PurgeDelete
    \/ Failure
    \/ Tick

Spec == Init /\ [][Next]_vars

(* The manager task is never stopped short of a crash, every await in it has  *)
(* a timeout, a call once begun is finished, the clock runs.                  *)
Fairness ==
    /\ WF_vars(Manager)
    /\ \A c \in Clients : WF_vars(Publish(c) \/ ClientNudge(c))
    /\ WF_vars(RetryPersist \/ RetryNudge)
    /\ WF_vars(Tick)

FairSpec == Spec /\ Fairness

----------------------------------------------------------------------------
(* Properties.                                                               *)

Stages == {"scan", "start", "next", "body", "attempt", "report", "record",
           "commit", "sleep", "down"}

Working == {"body", "attempt", "report", "record", "commit"}

MailType ==
    /\ now \in Nat /\ lastId \in 0..MaxId
    /\ queue \in Records
    /\ DOMAIN blobs \subseteq Hashes /\ \A h \in DOMAIN blobs : blobs[h] \in Nat

ManagerType ==
    /\ pc \in Stages /\ batch \in Records /\ passNow \in Nat /\ wakeAt \in Nat
    /\ IF pc \in Working THEN cur \in Ids /\ msg \in Message /\ before \subseteq Slots(msg)
                         ELSE cur = 0 /\ msg = None /\ before = {}
    /\ rate \in [window : Nat, count : [AllRateKeys -> Nat]]

CallerType ==
    /\ wakeup \in BOOLEAN
    /\ client \in [Clients -> Requests \cup {None}]
    /\ admin \in AdminCalls \cup {None}
    /\ doomed \subseteq Hashes

HistoryType ==
    /\ origin \in Records
    /\ sent \in [Ids \X AllSlots -> Nat] /\ reports \in [Ids \X AllSlots -> Nat]
    /\ failed \subseteq Ids \X AllSlots /\ removed \subseteq Ids /\ nudged \subseteq Nat
    /\ raced \subseteq Hashes
    /\ mishaps \in Nat /\ submitted \in Nat /\ adminOps \in Nat /\ sweeps \in Nat

(* Every variable has its type; the manager holds a working copy exactly in   *)
(* the stages of process_message.                                             *)
TypeOK == MailType /\ ManagerType /\ CallerType /\ HistoryType

(* A recipient of an accepted message is never forgotten: it is still pending *)
(* in the queue, or a copy was handed over, or a bounce report was queued, or *)
(* it failed with nobody to tell, or the administrator deleted the message.   *)
Accounted(id, s) ==
    \/ queue[id] # None /\ IsPending(queue[id].recipients[s])
    \/ sent[<<id, s>>] > 0
    \/ reports[<<id, s>>] > 0
    \/ origin[id].returnPath = NullSender /\ <<id, s>> \in failed
    \/ id \in removed

NoSilentLoss ==
    \A id \in Ids : origin[id] # None => \A s \in Slots(origin[id]) : Accounted(id, s)

(* A recipient is handed over or reported once, and one more time at most for *)
(* every crash, store error, lost reply or retry of a record that had changed.*)
AtMostOneOutcome ==
    \A p \in Ids \X AllSlots : sent[p] + reports[p] <= 1 + mishaps

(* Ids above the counter have been used nowhere.                              *)
Outcomes(id, s) == sent[<<id, s>>] + reports[<<id, s>>]

Unissued(id) ==
    /\ queue[id] = None /\ batch[id] = None /\ origin[id] = None /\ cur # id
    /\ admin # None => admin.id # id
    /\ \A s \in AllSlots : Outcomes(id, s) = 0

FreshIds == \A id \in Ids : id > lastId => Unissued(id)

(* A copy of a message may still settle its pending recipients.               *)
MaySettle(message, id) == \A s \in PendingSlots(message) : Outcomes(id, s) <= mishaps

(* The inductive form of AtMostOneOutcome: whatever copy of a message a pass  *)
(* can start or go on from (the record, the batch's snapshot, the working     *)
(* copy), a recipient pending in it has had no outcome but those that errors  *)
(* account for.  The record of the message in hand is exempt: the pass may    *)
(* have settled what the record still shows as pending.                       *)
OneOutcomeInv ==
    /\ FreshIds
    /\ \A id \in Ids : queue[id] # None /\ id # cur => MaySettle(queue[id], id)
    /\ \A id \in Ids : batch[id] # None => MaySettle(batch[id], id) /\ id # cur
    /\ pc \in Working =>
           /\ MaySettle(msg, cur)
           /\ pc # "commit" => \A s \in NewlyBounced : Outcomes(cur, s) <= mishaps
    /\ AtMostOneOutcome

(* The inductive form of NoSilentLoss: every copy of a message has the        *)
(* recipients it was accepted with, and one that is no longer pending in it   *)
(* has a lasting outcome, or gets its report before the pass commits.         *)
Done(id, s) ==
    \/ sent[<<id, s>>] > 0
    \/ reports[<<id, s>>] > 0
    \/ origin[id].returnPath = NullSender /\ <<id, s>> \in failed
    \/ id \in removed

CopyOf(message, id) ==
    /\ origin[id] # None
    /\ Slots(message) = Slots(origin[id])
    /\ message.returnPath = origin[id].returnPath

SettledIn(message) == Slots(message) \ PendingSlots(message)

Covers(message, id) == CopyOf(message, id) /\ \A s \in SettledIn(message) : Done(id, s)

RequestsPending ==
    \A c \in Clients : client[c] # None => SettledIn(client[c].message) = {}

RecordCovers(id) ==
    /\ origin[id] = None => queue[id] = None
    /\ origin[id] # None =>
           IF queue[id] = None THEN \A s \in Slots(origin[id]) : Done(id, s)
                               ELSE Covers(queue[id], id)

WorkCovers ==
    pc \in Working =>
        /\ CopyOf(msg, cur)
        /\ \A s \in SettledIn(msg) : Done(cur, s) \/ (pc # "commit" /\ s \in NewlyBounced)
        /\ \A s \in NewlyBounced : <<cur, s>> \in failed
        /\ pc # "commit" => PendingSlots(msg) \subseteq before

NoLossInv ==
    /\ RequestsPending
    /\ \A id \in Ids : RecordCovers(id)
    /\ \A id \in Ids : batch[id] # None => Covers(batch[id], id)
    /\ admin # None => Covers(admin.message, admin.id)
    /\ WorkCovers

(* A record younger than the purge grace period has its body, unless the body *)
(* was stored again while a purge had already marked it: enqueue writes the   *)
(* body before the record.                                                    *)
FreshRecordHasBody ==
    \A id \in Ids :
        queue[id] # None /\ now < queue[id].created + PurgeGrace /\ queue[id].blob \notin raced
            => queue[id].blob \in DOMAIN blobs

(* A wakeup is never lost: a message published or retried with a nudge makes  *)
(* the manager scan before it sleeps again, also when the nudge comes in the  *)
(* middle of a pass or finds the channel full.                                *)
NudgeNotLost == nudged # {} => wakeup \/ pc = "scan"

(* The attempts of a recipient that is still pending stay below its limit,    *)
(* and no window lets more messages of a sender or a domain through than the  *)
(* limits say.                                                                *)
WithinLimits ==
    /\ \A id \in Ids : queue[id] # None =>
           \A s \in PendingSlots(queue[id]) :
               LET rcpt == queue[id].recipients[s]
               IN  rcpt.expiry.kind = "attempts" => rcpt.attempts < rcpt.expiry.limit
    /\ \A key \in AllRateKeys : rate.count[key] > 0 => rate.count[key] <= RateLimit(key)

(* What the comment in enqueue promises: "the queue record never points at a  *)
(* missing blob".                                                             *)
RecordHasBody ==
    \A id \in Ids : queue[id] # None => queue[id].blob \in DOMAIN blobs

(* Every queued message leaves the queue: delivered, bounced or deleted.      *)
QueueDrains == \A id \in Ids : queue[id] # None ~> queue[id] = None

----------------------------------------------------------------------------
(* MailTransfer as the queue implements it: a transfer is a recipient of an   *)
(* accepted message, open while it is pending in the record.                  *)
AcceptedTransfers == {p \in Ids \X AllSlots : origin[p[1]] # None /\ p[2] \in Slots(origin[p[1]])}

MuteTransfers == {p \in AcceptedTransfers : origin[p[1]].returnPath = NullSender}

OpenTransfers == {p \in Ids \X AllSlots : queue[p[1]] # None /\ p[2] \in PendingSlots(queue[p[1]])}

ExcusedTransfers ==
    {p \in AcceptedTransfers : p[1] \in removed} \cup (failed \cap MuteTransfers)

TransferOutcomes == [p \in Ids \X AllSlots |-> sent[p] + reports[p]]

Transfer == INSTANCE MailTransfer WITH
    Transfers <- Ids \X AllSlots,
    accepted <- AcceptedTransfers,
    mute     <- MuteTransfers,
    open     <- OpenTransfers,
    outcomes <- TransferOutcomes,
    excused  <- ExcusedTransfers,
    faults   <- mishaps

(* The queue implements MailTransfer: each of its steps (a scan, a batch, a   *)
(* working copy, a commit, a crash, a purge...) is a step of a recipient's    *)
(* transfer or changes none.                                                  *)
ImplementsTransfer == Transfer!TransferSpec
============================================================================
