---------------------------- MODULE MessageStore ----------------------------
(* Message bodies and what keeps them: delivery and append (mail/deliver.rs), *)
(* deletion (mail/read.rs), uploads and reference counts (blob_store_msg.rs), *)
(* the file store (store/fs_blob.rs), quota usage, and the hourly sweep of    *)
(* mail/purge.rs.  Deliveries, deletions and uploads run on several threads   *)
(* at once and interleave at every store or file operation; a write batch is  *)
(* one step.                                                                  *)
EXTENDS Integers, FiniteSets

CONSTANTS
    Workers,        \* threads that deliver, delete or upload
    Accounts,
    Hashes,         \* blob hashes, one per content
    None,           \* an absent record
    QuotaMessages,  \* message quota of an account, 0 is unlimited
    PurgeGrace,     \* PURGE_GRACE_SECS
    ReservationTtl, \* RESERVATION_TTL_SECS
    MaxDocs,        \* bound: document ids
    MaxUploads,     \* bound: uploads
    MaxFailures,    \* bound: calls or sweeps cut short
    MaxTime,        \* bound: the clock
    QuietAfter      \* bound: last time a call begins or fails

Docs == 1..MaxDocs

Record == [account : Accounts, blob : Hashes]

ASSUME MessageStoreAssumption ==
    /\ IsFiniteSet(Workers) /\ IsFiniteSet(Accounts) /\ IsFiniteSet(Hashes)
    /\ None \notin Record /\ None \notin Hashes
    /\ QuotaMessages \in Nat
    /\ PurgeGrace \in Nat \ {0} /\ ReservationTtl \in Nat
    /\ MaxDocs \in Nat /\ MaxUploads \in Nat /\ MaxFailures \in Nat
    /\ MaxTime \in Nat /\ QuietAfter \in Nat

VARIABLES
    now,
    docs,           \* metadata and data record of each document, or None
    lastDoc,        \* document id counter
    blobs,          \* file store: modification time of each stored body
    refs,           \* reference counts, a function on the keys present
    links,          \* account links, a function on the keys present
    reserved,       \* upload reservations: expiry by account and hash
    usage,          \* quota usage, messages of each account
    worker,         \* what each thread is doing
    purge           \* the sweep

(* History the properties read. *)
VARIABLES
    over,           \* deletions of a record that was already gone, by hash
    leaked,         \* references whose release was cut short, by hash
    dropped,        \* count thrown away with a reference key, by hash
    exposed,        \* bodies stored again after the sweep had condemned them
    stalled,        \* bodies whose call outlived the grace period
    overErased,     \* deletions of a record already gone, by account
    uploads, failures

storeVars == <<docs, lastDoc, refs, links, usage>>
history == <<over, leaked, dropped, exposed, stalled, overErased, uploads, failures>>
vars == <<now, storeVars, blobs, reserved, worker, purge, history>>

----------------------------------------------------------------------------
(* Counters and keys: a key springs up at its first write.                   *)
Count(f, key) == IF key \in DOMAIN f THEN f[key] ELSE 0

Put(f, key, value) == [k \in DOMAIN f \cup {key} |-> IF k = key THEN value ELSE f[k]]

Add(f, key, by) == Put(f, key, Count(f, key) + by)

Drop(f, key) == [k \in DOMAIN f \ {key} |-> f[k]]

Empty == [k \in {} |-> 0]

Idle == [stage |-> "idle"]

IdlePurge == [phase |-> "idle", at |-> 0, kept |-> {}, dead |-> {}, orphans |-> {},
              hash |-> None, todo |-> {}, stranded |-> {}]

(* Bodies the sweep has already decided to delete.                           *)
Condemned == {h \in Hashes : h = purge.hash \/ h \in purge.stranded}

UsageOf(a) == IF usage[a] < 0 THEN 0 ELSE usage[a]

MayBegin == now <= QuietAfter

----------------------------------------------------------------------------
(* Mutant: the quota is compared before the message is counted. *)
CheckQuotaLate(w) ==
    /\ worker[w] = Idle /\ MayBegin /\ lastDoc < MaxDocs
    /\ \E a \in Accounts, h \in Hashes :
        /\ QuotaMessages # 0 => UsageOf(a) <= QuotaMessages
        /\ worker' = [worker EXCEPT ![w] = [stage |-> "put", account |-> a, blob |-> h,
                                            doc |-> lastDoc + 1]]
    /\ lastDoc' = lastDoc + 1
    /\ UNCHANGED <<now, docs, refs, links, usage, blobs, reserved, purge, history>>

(* deliver and append_message up to the quota check: the caller has allocated *)
(* the document id, usage is read, nothing is held.  Over quota, the call     *)
(* returns and changes nothing.                                               *)
CheckQuota(w) ==
    /\ worker[w] = Idle /\ MayBegin /\ lastDoc < MaxDocs
    /\ \E a \in Accounts, h \in Hashes :
        /\ QuotaMessages # 0 => UsageOf(a) + 1 <= QuotaMessages
        /\ worker' = [worker EXCEPT ![w] = [stage |-> "put", account |-> a, blob |-> h,
                                            doc |-> lastDoc + 1]]
    /\ lastDoc' = lastDoc + 1
    /\ UNCHANGED <<now, docs, refs, links, usage, blobs, reserved, purge, history>>

BeginUpload(w) ==
    /\ worker[w] = Idle /\ MayBegin /\ uploads < MaxUploads
    /\ uploads' = uploads + 1
    /\ \E a \in Accounts, h \in Hashes :
        worker' = [worker EXCEPT ![w] = [stage |-> "upload", account |-> a, blob |-> h,
                                        begun |-> now]]
    /\ UNCHANGED <<now, storeVars, blobs, reserved, purge, over, leaked, dropped, exposed, stalled,
                   overErased, failures>>

(* put: the body is written, or the one there gets a new modification time.   *)
Touched(h) == Put(blobs, h, now)

PutBody(w) ==
    /\ worker[w].stage = "put"
    /\ blobs' = Touched(worker[w].blob)
    /\ exposed' = exposed \cup ({worker[w].blob} \cap Condemned)
    /\ worker' = [worker EXCEPT ![w] = [stage |-> "file", account |-> @.account, blob |-> @.blob,
                                        doc |-> @.doc, at |-> now]]
    /\ UNCHANGED <<now, storeVars, reserved, purge, over, leaked, dropped, stalled, overErased,
                   uploads, failures>>

(* reserve_upload: the body first, ...                                        *)
PutUpload(w) ==
    /\ worker[w].stage = "upload"
    /\ blobs' = Touched(worker[w].blob)
    /\ exposed' = exposed \cup ({worker[w].blob} \cap Condemned)
    /\ worker' = [worker EXCEPT ![w] = [stage |-> "reserve", account |-> @.account,
                                        blob |-> @.blob, begun |-> @.begun, at |-> now]]
    /\ UNCHANGED <<now, storeVars, reserved, purge, over, leaked, dropped, stalled, overErased,
                   uploads, failures>>

(* Mutant: the batch leaves out the reference. *)
FileUncounted(w) ==
    /\ worker[w].stage = "file"
    /\ LET a == worker[w].account
           h == worker[w].blob
       IN  /\ docs' = [docs EXCEPT ![worker[w].doc] = [account |-> a, blob |-> h]]
           /\ refs' = refs
           /\ links' = Add(links, <<a, h>>, 1)
           /\ usage' = [usage EXCEPT ![a] = @ + 1]
           /\ stalled' = IF worker[w].at + PurgeGrace <= now THEN stalled \cup {h} ELSE stalled
    /\ worker' = [worker EXCEPT ![w] = Idle]
    /\ UNCHANGED <<now, lastDoc, blobs, reserved, purge, over, leaked, dropped, exposed, overErased,
                   uploads, failures>>

(* The delivery batch: both records, reference, link and usage together.  A    *)
(* call that took longer than the grace period no longer has the protection    *)
(* of its body's modification time.                                            *)
File(w) ==
    /\ worker[w].stage = "file"
    /\ LET a == worker[w].account
           h == worker[w].blob
       IN  /\ docs' = [docs EXCEPT ![worker[w].doc] = [account |-> a, blob |-> h]]
           /\ refs' = Add(refs, h, 1)
           /\ links' = Add(links, <<a, h>>, 1)
           /\ usage' = [usage EXCEPT ![a] = @ + 1]
           /\ stalled' = IF worker[w].at + PurgeGrace <= now THEN stalled \cup {h} ELSE stalled
    /\ worker' = [worker EXCEPT ![w] = Idle]
    /\ UNCHANGED <<now, lastDoc, blobs, reserved, purge, over, leaked, dropped, exposed, overErased,
                   uploads, failures>>

(* ... then the reservation, which lasts from the time of the request.        *)
Reserve(w) ==
    /\ worker[w].stage = "reserve"
    /\ LET h == worker[w].blob
       IN  /\ reserved' = Put(reserved, <<worker[w].account, h>>, worker[w].begun + ReservationTtl)
           /\ stalled' = IF worker[w].at + PurgeGrace <= now THEN stalled \cup {h} ELSE stalled
    /\ worker' = [worker EXCEPT ![w] = Idle]
    /\ UNCHANGED <<now, storeVars, blobs, purge, over, leaked, dropped, exposed, overErased,
                   uploads, failures>>

----------------------------------------------------------------------------
(* delete_message: load the data record, ...                                   *)
LoadData(w) ==
    /\ worker[w] = Idle /\ MayBegin
    /\ \E d \in Docs :
        /\ docs[d] # None
        /\ worker' = [worker EXCEPT ![w] = [stage |-> "metadata", account |-> docs[d].account,
                                            doc |-> d]]
    /\ UNCHANGED <<now, storeVars, blobs, reserved, purge, history>>

(* ... then the metadata, which another deletion may have taken away since, ... *)
LoadMetadata(w) ==
    /\ worker[w].stage = "metadata"
    /\ worker' = [worker EXCEPT ![w] =
           [stage |-> "erase", account |-> @.account, doc |-> @.doc,
            blob |-> IF docs[@.doc] = None THEN None ELSE docs[@.doc].blob]]
    /\ UNCHANGED <<now, storeVars, blobs, reserved, purge, history>>

(* Mutant: the batch leaves out the account link. *)
EraseKeepsLink(w) ==
    /\ worker[w].stage = "erase"
    /\ LET a    == worker[w].account
           h    == worker[w].blob
           gone == IF docs[worker[w].doc] = None THEN 1 ELSE 0
       IN  /\ docs' = [docs EXCEPT ![worker[w].doc] = None]
           /\ usage' = [usage EXCEPT ![a] = @ - 1]
           /\ overErased' = [overErased EXCEPT ![a] = @ + gone]
           /\ IF h = None
              THEN /\ worker' = [worker EXCEPT ![w] = Idle]
                   /\ UNCHANGED <<links, over>>
              ELSE /\ worker' = [worker EXCEPT ![w] = [stage |-> "release", account |-> a,
                                                       blob |-> h]]
                   /\ links' = links
                   /\ over' = [over EXCEPT ![h] = @ + gone]
    /\ UNCHANGED <<now, lastDoc, blobs, refs, reserved, purge, leaked, dropped, exposed, stalled,
                   uploads, failures>>

(* ... delete them in one batch with the link and the usage, whether or not    *)
(* another thread has deleted them since, ...                                  *)
Erase(w) ==
    /\ worker[w].stage = "erase"
    /\ LET a    == worker[w].account
           h    == worker[w].blob
           gone == IF docs[worker[w].doc] = None THEN 1 ELSE 0
       IN  /\ docs' = [docs EXCEPT ![worker[w].doc] = None]
           /\ usage' = [usage EXCEPT ![a] = @ - 1]
           /\ overErased' = [overErased EXCEPT ![a] = @ + gone]
           /\ IF h = None
              THEN /\ worker' = [worker EXCEPT ![w] = Idle]
                   /\ UNCHANGED <<links, over>>
              ELSE /\ worker' = [worker EXCEPT ![w] = [stage |-> "release", account |-> a,
                                                       blob |-> h]]
                   /\ links' = Add(links, <<a, h>>, -1)
                   /\ over' = [over EXCEPT ![h] = @ + gone]
    /\ UNCHANGED <<now, lastDoc, blobs, refs, reserved, purge, leaked, dropped, exposed, stalled,
                   uploads, failures>>

(* ... and drop the reference afterwards.                                      *)
Release(w) ==
    /\ worker[w].stage = "release"
    /\ refs' = Add(refs, worker[w].blob, -1)
    /\ worker' = [worker EXCEPT ![w] = Idle]
    /\ UNCHANGED <<now, docs, lastDoc, links, usage, blobs, reserved, purge, history>>

(* A call ends early, on an error or a crash; a pending release is then lost.  *)
CallFails(w) ==
    /\ worker[w] # Idle /\ failures < MaxFailures /\ MayBegin
    /\ failures' = failures + 1
    /\ leaked' = IF worker[w].stage = "release"
                 THEN [leaked EXCEPT ![worker[w].blob] = @ + 1] ELSE leaked
    /\ worker' = [worker EXCEPT ![w] = Idle]
    /\ UNCHANGED <<now, storeVars, blobs, reserved, purge, over, dropped, exposed, stalled,
                   overErased, uploads>>

----------------------------------------------------------------------------
(* purge_orphans.  The scan of the BlobRef subspace sees one snapshot: live   *)
(* reservations, dead reservations and links, counts that are not positive.   *)
PurgeScan ==
    /\ purge.phase = "idle"
    /\ purge' = [IdlePurge EXCEPT
           !.phase = "dead", !.at = now,
           !.kept = {h \in Hashes : \E a \in Accounts : Count(reserved, <<a, h>>) > now},
           !.dead = {<<"reservation", k>> : k \in {r \in DOMAIN reserved : reserved[r] <= now}}
                    \cup {<<"link", k>> : k \in {l \in DOMAIN links : links[l] <= 0}},
           !.orphans = {h \in DOMAIN refs : refs[h] <= 0}]
    /\ UNCHANGED <<now, storeVars, blobs, reserved, worker, history>>

PurgeDead ==
    /\ purge.phase = "dead"
    /\ \E key \in purge.dead :
        /\ purge' = [purge EXCEPT !.dead = @ \ {key}]
        /\ IF key[1] = "reservation"
           THEN reserved' = Drop(reserved, key[2]) /\ UNCHANGED links
           ELSE links' = Drop(links, key[2]) /\ UNCHANGED reserved
    /\ UNCHANGED <<now, docs, lastDoc, refs, usage, blobs, worker, history>>

DeadDone ==
    /\ purge.phase = "dead" /\ purge.dead = {}
    /\ purge' = [purge EXCEPT !.phase = "orphans"]
    /\ UNCHANGED <<now, storeVars, blobs, reserved, worker, history>>

YoungFor(h) == h \in DOMAIN blobs /\ purge.at < blobs[h] + PurgeGrace

(* Mutant: the orphan is deleted however young its body is. *)
PurgeOrphanAnyAge ==
    /\ purge.phase = "orphans"
    /\ \E h \in purge.orphans :
        purge' = IF h \in purge.kept
                 THEN [purge EXCEPT !.orphans = @ \ {h}]
                 ELSE [purge EXCEPT !.orphans = @ \ {h}, !.phase = "body", !.hash = h]
    /\ UNCHANGED <<now, storeVars, blobs, reserved, worker, history>>

(* Each orphan is looked at again: reserved or young ones are passed over.    *)
(* Its count is not read again.                                               *)
PurgeOrphan ==
    /\ purge.phase = "orphans"
    /\ \E h \in purge.orphans :
        purge' = IF h \in purge.kept \/ YoungFor(h)
                 THEN [purge EXCEPT !.orphans = @ \ {h}]
                 ELSE [purge EXCEPT !.orphans = @ \ {h}, !.phase = "body", !.hash = h]
    /\ UNCHANGED <<now, storeVars, blobs, reserved, worker, history>>

PurgeBody ==
    /\ purge.phase = "body"
    /\ blobs' = Drop(blobs, purge.hash)
    /\ purge' = [purge EXCEPT !.phase = "key"]
    /\ UNCHANGED <<now, storeVars, reserved, worker, history>>

(* Mutant: the deleted orphan is not forgotten. *)
PurgeKeyKeepsHash ==
    /\ purge.phase = "key"
    /\ dropped' = [dropped EXCEPT ![purge.hash] = @ + Count(refs, purge.hash)]
    /\ refs' = Drop(refs, purge.hash)
    /\ purge' = [purge EXCEPT !.phase = "orphans"]
    /\ UNCHANGED <<now, docs, lastDoc, links, usage, blobs, reserved, worker, over, leaked,
                   exposed, stalled, overErased, uploads, failures>>

PurgeKey ==
    /\ purge.phase = "key"
    /\ dropped' = [dropped EXCEPT ![purge.hash] = @ + Count(refs, purge.hash)]
    /\ refs' = Drop(refs, purge.hash)
    /\ purge' = [purge EXCEPT !.phase = "orphans", !.hash = None]
    /\ UNCHANGED <<now, docs, lastDoc, links, usage, blobs, reserved, worker, over, leaked,
                   exposed, stalled, overErased, uploads, failures>>

(* Mutant: the files are not walked. *)
OrphansDoneNoWalk ==
    /\ purge.phase = "orphans" /\ purge.orphans = {}
    /\ purge' = [purge EXCEPT !.phase = "sweep"]
    /\ UNCHANGED <<now, storeVars, blobs, reserved, worker, history>>

(* Then the walk over the files for bodies that no count knows of.            *)
OrphansDone ==
    /\ purge.phase = "orphans" /\ purge.orphans = {}
    /\ purge' = [purge EXCEPT !.phase = "walk", !.todo = DOMAIN blobs]
    /\ UNCHANGED <<now, storeVars, blobs, reserved, worker, history>>

(* Mutant: a reservation does not protect the body. *)
StrandedAtReserved(h) ==
    /\ h \in DOMAIN blobs /\ ~YoungFor(h)
    /\ h \notin DOMAIN refs

StrandedAt(h) ==
    /\ h \in DOMAIN blobs /\ ~YoungFor(h)
    /\ h \notin purge.kept
    /\ h \notin DOMAIN refs

(* One file of the walk: its age (the stat of for_each) and its references are *)
(* looked at in one step.  A filing between the two is seen by the lookup; a   *)
(* body stored again there is lost as one stored after the visit (exposed).    *)
PurgeVisit ==
    /\ purge.phase = "walk"
    /\ \E h \in purge.todo :
        purge' = [purge EXCEPT !.todo = @ \ {h},
                               !.stranded = IF StrandedAt(h) THEN @ \cup {h} ELSE @]
    /\ UNCHANGED <<now, storeVars, blobs, reserved, worker, history>>

WalkDone ==
    /\ purge.phase = "walk" /\ purge.todo = {}
    /\ purge' = [purge EXCEPT !.phase = "sweep"]
    /\ UNCHANGED <<now, storeVars, blobs, reserved, worker, history>>

PurgeStranded ==
    /\ purge.phase = "sweep"
    /\ \E h \in purge.stranded :
        /\ blobs' = Drop(blobs, h)
        /\ purge' = [purge EXCEPT !.stranded = @ \ {h}]
    /\ UNCHANGED <<now, storeVars, reserved, worker, history>>

SweepDone ==
    /\ purge.phase = "sweep" /\ purge.stranded = {}
    /\ purge' = IdlePurge
    /\ UNCHANGED <<now, storeVars, blobs, reserved, worker, history>>

(* A sweep ends early, on an error or a crash.                                *)
PurgeFails ==
    /\ purge.phase # "idle" /\ failures < MaxFailures /\ MayBegin
    /\ failures' = failures + 1
    /\ purge' = IdlePurge
    /\ UNCHANGED <<now, storeVars, blobs, reserved, worker, over, leaked, dropped, exposed, stalled,
                   overErased, uploads>>

Tick ==
    /\ now < MaxTime
    /\ now' = now + 1
    /\ UNCHANGED <<storeVars, blobs, reserved, worker, purge, history>>

----------------------------------------------------------------------------
Init ==
    /\ now = 0 /\ lastDoc = 0
    /\ docs = [d \in Docs |-> None]
    /\ blobs = Empty /\ refs = Empty /\ links = Empty /\ reserved = Empty
    /\ usage = [a \in Accounts |-> 0] /\ overErased = [a \in Accounts |-> 0]
    /\ worker = [w \in Workers |-> Idle] /\ purge = IdlePurge
    /\ over = [h \in Hashes |-> 0] /\ leaked = over /\ dropped = over
    /\ exposed = {} /\ stalled = {} /\ uploads = 0 /\ failures = 0

Begin(w) == CheckQuota(w) \/ BeginUpload(w) \/ LoadData(w)

Continue(w) ==
    \/ PutBody(w) \/ File(w) \/ PutUpload(w) \/ Reserve(w)
    \/ LoadMetadata(w) \/ Erase(w) \/ Release(w)

Sweep ==
    \/ PurgeScan \/ PurgeDead \/ DeadDone \/ PurgeOrphan \/ PurgeBody \/ PurgeKey
    \/ OrphansDone \/ PurgeVisit \/ WalkDone \/ PurgeStranded \/ SweepDone

Next ==
    \/ \E w \in Workers : Begin(w) \/ Continue(w) \/ CallFails(w)
    \/ Sweep \/ PurgeFails
    \/ Tick

Spec == Init /\ [][Next]_vars

(* A call that has begun ends, the maintenance task sweeps again and again,   *)
(* the clock runs.                                                            *)
Fairness ==
    /\ \A w \in Workers : WF_vars(Continue(w))
    /\ WF_vars(Sweep)
    /\ WF_vars(Tick)

FairSpec == Spec /\ Fairness

----------------------------------------------------------------------------
(* Properties.                                                               *)

Held(h) == Cardinality({d \in Docs : docs[d] # None /\ docs[d].blob = h})

HeldBy(a, h) ==
    Cardinality({d \in Docs : docs[d] # None /\ docs[d].account = a /\ docs[d].blob = h})

Mailbox(a) == Cardinality({d \in Docs : docs[d] # None /\ docs[d].account = a})

Releasing(h) ==
    Cardinality({w \in Workers : worker[w].stage = "release" /\ worker[w].blob = h})

Busy(h) ==
    \E w \in Workers : worker[w].stage \notin {"idle", "metadata"} /\ worker[w].blob = h

Calls ==
    {Idle}
    \cup [stage : {"put"}, account : Accounts, blob : Hashes, doc : Docs]
    \cup [stage : {"file"}, account : Accounts, blob : Hashes, doc : Docs, at : Nat]
    \cup [stage : {"upload"}, account : Accounts, blob : Hashes, begun : Nat]
    \cup [stage : {"reserve"}, account : Accounts, blob : Hashes, begun : Nat, at : Nat]
    \cup [stage : {"metadata"}, account : Accounts, doc : Docs]
    \cup [stage : {"erase"}, account : Accounts, blob : Hashes \cup {None}, doc : Docs]
    \cup [stage : {"release"}, account : Accounts, blob : Hashes]

(* Values from V under keys from K. *)
Counters(f, K, V) == DOMAIN f \subseteq K /\ \A k \in DOMAIN f : f[k] \in V

KeyType ==
    /\ Counters(blobs, Hashes, Nat) /\ Counters(refs, Hashes, Int)
    /\ Counters(links, Accounts \X Hashes, Int)
    /\ Counters(reserved, Accounts \X Hashes, Nat)

DocType ==
    /\ lastDoc \in 0..MaxDocs /\ docs \in [Docs -> Record \cup {None}]
    /\ usage \in [Accounts -> Int] /\ overErased \in [Accounts -> Nat]

PurgeType ==
    /\ purge \in [phase : {"idle", "dead", "orphans", "body", "key", "walk", "sweep"},
                  at : Nat, kept : SUBSET Hashes,
                  dead : SUBSET ({"reservation", "link"} \X (Accounts \X Hashes)),
                  orphans : SUBSET Hashes, hash : Hashes \cup {None},
                  todo : SUBSET Hashes, stranded : SUBSET Hashes]
    /\ purge.phase \in {"body", "key"} <=> purge.hash # None

HistoryType ==
    /\ over \in [Hashes -> Nat] /\ leaked \in [Hashes -> Nat] /\ dropped \in [Hashes -> Int]
    /\ exposed \subseteq Hashes /\ stalled \subseteq Hashes
    /\ uploads \in Nat /\ failures \in Nat

(* Every variable has its type; the sweep names a body exactly while it       *)
(* deletes an orphan.                                                         *)
TypeOK ==
    /\ now \in Nat /\ worker \in [Workers -> Calls]
    /\ DocType /\ KeyType /\ PurgeType /\ HistoryType

(* The reference count of a body is the number of records that hold it, plus  *)
(* the releases still to come or cut short, less the releases of records that *)
(* another call had already deleted and the counts a sweep threw away.        *)
RefCountExact ==
    \A h \in Hashes :
        Count(refs, h) = Held(h) + Releasing(h) + leaked[h] - over[h] - dropped[h]

(* A record keeps its body through every interleaving of deliveries,          *)
(* deletions and sweeps, but for three: a deletion that ran twice, a body     *)
(* stored again between the sweep's verdict and its deletion, a call that     *)
(* outlived the grace period.                                                 *)
BodyKept ==
    \A d \in Docs : docs[d] # None =>
        LET h == docs[d].blob
        IN  h \in DOMAIN blobs \/ over[h] > 0 \/ h \in exposed \cup stalled

(* account_references_blob lets an account read a body only while it holds a  *)
(* record of it, through double deletions and the sweep of dead links.        *)
LinkWithinRecords ==
    \A a \in Accounts, h \in Hashes : Count(links, <<a, h>>) <= HeldBy(a, h)

(* has_live_reservation means that the uploaded body is there to be imported. *)
ReservationKeepsBody ==
    \A k \in DOMAIN reserved : reserved[k] > now =>
        k[2] \in DOMAIN blobs \cup exposed \cup stalled

(* The quota check holds nothing: deliveries that check before either commits *)
(* exceed the quota, by one message for each further thread and no more; and  *)
(* usage follows the records, less the deletions that ran twice.              *)
QuotaBound ==
    \A a \in Accounts :
        /\ usage[a] = Mailbox(a) - overErased[a]
        /\ QuotaMessages # 0 => usage[a] < QuotaMessages + Cardinality(Workers)

(* A body nothing wants any more and older than the grace period is swept,     *)
(* unless the release of its last reference was cut short.                     *)
Unwanted(h) ==
    /\ h \in DOMAIN blobs /\ blobs[h] + PurgeGrace <= now
    /\ Held(h) = 0 /\ leaked[h] = 0 /\ ~Busy(h)
    /\ \A a \in Accounts : Count(reserved, <<a, h>>) <= now

UnwantedSwept == \A h \in Hashes : Unwanted(h) ~> ~Unwanted(h)

(* "a crash can only ever orphan a blob, never leave a record pointing at a   *)
(* missing one": the comment in delete_message, here also for two deletions   *)
(* of one message that overlap.                                               *)
DeletionKeepsBody ==
    \A d \in Docs : docs[d] # None =>
        docs[d].blob \in DOMAIN blobs \cup exposed \cup stalled
============================================================================
