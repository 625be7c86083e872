------------------------- MODULE MessageStoreProofs -------------------------
(* Reference counts, links and usage are exact, and bodies are kept: the      *)
(* proofs of the invariants of MessageStore.                                  *)
EXTENDS MessageStore, FiniteSetTheorems, TLAPS

(* Documents are written once: an id is above the counter, or drawn and in    *)
(* one delivery's hands, or written; what a deletion has read of a record is  *)
(* what the record says until it is gone.                                     *)
Filing(w) == worker[w].stage \in {"put", "file"}
Deleting(w) == worker[w].stage \in {"metadata", "erase"}

DocsWrittenOnce ==
    /\ \A d \in Docs : docs[d] # None => d <= lastDoc
    /\ \A w \in Workers : Filing(w) =>
         /\ worker[w].doc <= lastDoc /\ docs[worker[w].doc] = None
         /\ \A v \in Workers \ {w} : Filing(v) \/ Deleting(v) => worker[v].doc # worker[w].doc
    /\ \A w \in Workers : Deleting(w) =>
         /\ worker[w].doc <= lastDoc
         /\ docs[worker[w].doc] # None => docs[worker[w].doc].account = worker[w].account
    /\ \A w \in Workers : worker[w].stage = "erase" /\ docs[worker[w].doc] # None =>
         docs[worker[w].doc].blob = worker[w].blob

(* Deliveries that have passed the quota check and not yet committed.         *)
Pending(a) == Cardinality({w \in Workers : Filing(w) /\ worker[w].account = a})

(* Usage follows the records; with the deliveries to come it stays below the  *)
(* quota and one message for each thread.                                     *)
UsageExact(a) ==
    /\ usage[a] = Mailbox(a) - overErased[a]
    /\ QuotaMessages # 0 => usage[a] + Pending(a) < QuotaMessages + Cardinality(Workers)

RefsExact(h) == Count(refs, h) = Held(h) + Releasing(h) + leaked[h] - over[h] - dropped[h]

LinkBelow(a, h) == Count(links, <<a, h>>) <= HeldBy(a, h)

CountsExact ==
    /\ \A a \in Accounts : UsageExact(a)
    /\ \A h \in Hashes : RefsExact(h)
    /\ \A a \in Accounts, h \in Hashes : LinkBelow(a, h)

(* A body neither stored again after its verdict nor left to a call that      *)
(* outlived the grace period; none of the three exceptions has met it.        *)
Unharmed(h) == h \notin exposed \cup stalled
Sound(h) == over[h] = 0 /\ Unharmed(h)

(* A record holds a body; nothing refers to it, or will. *)
Recorded(h) == \E d \in Docs : docs[d] # None /\ docs[d].blob = h

Loose(h) ==
    /\ ~Recorded(h)
    /\ \A w \in Workers : worker[w].stage = "release" => worker[w].blob # h
    /\ leaked[h] = 0

(* A call that has stored its body and is about to commit, and whose body is  *)
(* younger than the grace period.                                             *)
FreshFor(w, h) ==
    /\ worker[w].stage \in {"file", "reserve"} /\ worker[w].blob = h
    /\ now < worker[w].at + PurgeGrace

LiveReservation(h) == \E k \in DOMAIN reserved : k[2] = h /\ now < reserved[k]

Clocks ==
    /\ purge.at <= now
    /\ \A w \in Workers : worker[w].stage \in {"file", "reserve"} => worker[w].at <= now

(* What keeps a body from the sweep: a sweep throws no count away; the body   *)
(* of a call under way is at least as young as the call; an orphan is loose   *)
(* or too young; nobody waits for a condemned body; a live reservation was    *)
(* seen by the scan or is younger than it.                                    *)
CountKept(h) == Sound(h) => dropped[h] = 0

CallKept(h) ==
    h \notin exposed => \A w \in Workers : FreshFor(w, h) =>
        h \in DOMAIN blobs /\ worker[w].at <= blobs[h]

OrphanSafe(h) == h \in purge.orphans /\ Sound(h) => Loose(h) \/ YoungFor(h)

CondemnedSafe(h) ==
    h \in Condemned =>
        /\ Sound(h) => Loose(h)
        /\ h \notin exposed => \A w \in Workers : ~FreshFor(w, h)
        /\ Unharmed(h) => ~LiveReservation(h)

ReservationSeen(h) ==
    purge.phase # "idle" /\ LiveReservation(h) /\ Unharmed(h) =>
        h \in purge.kept \/ YoungFor(h)

BodyPresent(h) ==
    (Sound(h) /\ Recorded(h)) \/ (Unharmed(h) /\ LiveReservation(h)) => h \in DOMAIN blobs

BodyOK(h) ==
    /\ CountKept(h) /\ CallKept(h) /\ OrphanSafe(h)
    /\ CondemnedSafe(h) /\ ReservationSeen(h) /\ BodyPresent(h)

BodyInv == \A h \in Hashes : BodyOK(h)

StoreInv == TypeOK /\ DocsWrittenOnce /\ CountsExact /\ Clocks /\ BodyInv

----------------------------------------------------------------------------
(* What a call holds at each of its stages. *)
LEMMA CallFields ==
    ASSUME NEW c \in Calls
    PROVE  /\ c.stage \in {"idle", "put", "file", "upload", "reserve", "metadata", "erase", "release"}
           /\ c.stage = "idle" => c = Idle
           /\ c.stage \in {"put", "file", "upload", "reserve", "release"} =>
                c.account \in Accounts /\ c.blob \in Hashes
           /\ c.stage \in {"metadata", "erase"} => c.account \in Accounts
           /\ c.stage \in {"put", "file", "metadata", "erase"} => c.doc \in Docs
           /\ c.stage = "erase" => c.blob \in Hashes \cup {None}
           /\ c.stage \in {"file", "reserve"} => c.at \in Nat
           /\ c.stage \in {"upload", "reserve"} => c.begun \in Nat
BY DEF Calls, Idle

(* Keys and counters. *)
LEMMA CountType ==
    ASSUME NEW f, NEW key, \A k \in DOMAIN f : f[k] \in Int
    PROVE  Count(f, key) \in Int
BY DEF Count

LEMMA AddCount ==
    ASSUME NEW f, NEW key, NEW by, NEW k
    PROVE  Count(Add(f, key, by), k) = IF k = key THEN Count(f, key) + by ELSE Count(f, k)
BY DEF Add, Put, Count

LEMMA DropCount ==
    ASSUME NEW f, NEW key, NEW k
    PROVE  Count(Drop(f, key), k) = IF k = key THEN 0 ELSE Count(f, k)
BY DEF Drop, Count

LEMMA PutCounters ==
    ASSUME NEW f, NEW K, NEW V, NEW key \in K, NEW value \in V, Counters(f, K, V)
    PROVE  Counters(Put(f, key, value), K, V)
BY DEF Counters, Put

LEMMA AddCounters ==
    ASSUME NEW f, NEW K, NEW key \in K, NEW by \in Int, Counters(f, K, Int)
    PROVE  Counters(Add(f, key, by), K, Int)
<1>1. Count(f, key) + by \in Int
  BY DEF Counters, Count
<1>. QED  BY <1>1, PutCounters DEF Add

LEMMA DropCounters ==
    ASSUME NEW f, NEW K, NEW V, NEW key, Counters(f, K, V)
    PROVE  Counters(Drop(f, key), K, V)
BY DEF Counters, Drop

----------------------------------------------------------------------------
(* Type correctness. *)
LEMMA TypeInit == Init => TypeOK
<1>. SUFFICES ASSUME Init PROVE TypeOK
  OBVIOUS
<1>1. PurgeType
  BY DEF Init, IdlePurge, PurgeType
<1>2. DocType /\ HistoryType
  BY MessageStoreAssumption DEF Init, DocType, HistoryType
<1>3. KeyType
  BY DEF Init, KeyType, Counters, Empty
<1>. QED  BY <1>1, <1>2, <1>3 DEF Init, TypeOK, Calls

LEMMA BeginType ==
    ASSUME TypeOK, NEW w \in Workers, Begin(w)
    PROVE  TypeOK'
<1>0. now \in Nat /\ DocType /\ KeyType /\ worker \in [Workers -> Calls] /\ PurgeType /\ HistoryType
  BY DEF TypeOK
<1>1. ASSUME NEW c \in Calls, worker' = [worker EXCEPT ![w] = c] PROVE worker' \in [Workers -> Calls]
  BY <1>0, <1>1
<1>2. CASE CheckQuota(w)
  <2>1. lastDoc + 1 \in Docs /\ lastDoc' \in 0..MaxDocs
    BY <1>0, <1>2, MessageStoreAssumption DEF CheckQuota, Docs, DocType
  <2>2. PICK a \in Accounts, h \in Hashes : worker' = [worker EXCEPT ![w] =
            [stage |-> "put", account |-> a, blob |-> h, doc |-> lastDoc + 1]]
    BY <1>2 DEF CheckQuota
  <2>3. worker' \in [Workers -> Calls]
    BY <1>1, <2>1, <2>2 DEF Calls
  <2>4. DocType' /\ KeyType' /\ PurgeType' /\ HistoryType' /\ now' = now
    BY <1>0, <1>2, <2>1 DEF CheckQuota, DocType, KeyType, PurgeType, HistoryType, history
  <2>. QED  BY <1>0, <2>3, <2>4 DEF TypeOK
<1>3. CASE BeginUpload(w)
  <2>1. PICK a \in Accounts, h \in Hashes : worker' = [worker EXCEPT ![w] =
            [stage |-> "upload", account |-> a, blob |-> h, begun |-> now]]
    BY <1>3 DEF BeginUpload
  <2>2. worker' \in [Workers -> Calls]
    BY <1>0, <1>1, <2>1 DEF Calls
  <2>3. DocType' /\ KeyType' /\ PurgeType' /\ HistoryType' /\ now' = now
    BY <1>0, <1>3 DEF BeginUpload, DocType, KeyType, PurgeType, HistoryType, storeVars
  <2>. QED  BY <1>0, <2>2, <2>3 DEF TypeOK
<1>4. CASE LoadData(w)
  <2>1. PICK d \in Docs : docs[d] # None /\ worker' = [worker EXCEPT ![w] =
            [stage |-> "metadata", account |-> docs[d].account, doc |-> d]]
    BY <1>4 DEF LoadData
  <2>2. docs[d].account \in Accounts
    BY <1>0, <2>1 DEF DocType, Record
  <2>3. worker' \in [Workers -> Calls]
    BY <1>1, <2>1, <2>2 DEF Calls
  <2>4. DocType' /\ KeyType' /\ PurgeType' /\ HistoryType' /\ now' = now
    BY <1>0, <1>4 DEF LoadData, DocType, KeyType, PurgeType, HistoryType, storeVars, history
  <2>. QED  BY <1>0, <2>3, <2>4 DEF TypeOK
<1>. QED  BY <1>2, <1>3, <1>4 DEF Begin

LEMMA ContinueType ==
    ASSUME TypeOK, NEW w \in Workers, Continue(w) \/ CallFails(w)
    PROVE  TypeOK'
<1>. DEFINE c == worker[w]
<1>0. now \in Nat /\ DocType /\ KeyType /\ worker \in [Workers -> Calls] /\ PurgeType /\ HistoryType
  BY DEF TypeOK
<1>1. /\ c \in Calls
      /\ c.stage \in {"put", "file", "upload", "reserve", "release"} =>
           c.account \in Accounts /\ c.blob \in Hashes
      /\ c.stage \in {"metadata", "erase"} => c.account \in Accounts
      /\ c.stage \in {"put", "file", "metadata", "erase"} => c.doc \in Docs
      /\ c.stage = "erase" => c.blob \in Hashes \cup {None}
      /\ c.stage \in {"file", "reserve"} => c.at \in Nat
      /\ c.stage \in {"upload", "reserve"} => c.begun \in Nat
  BY <1>0, CallFields
<1>2. ASSUME NEW d \in Calls, worker' = [worker EXCEPT ![w] = d] PROVE worker' \in [Workers -> Calls]
  BY <1>0, <1>2
<1>3. Idle \in Calls
  BY DEF Calls
<1>4. ASSUME NEW h \in Hashes PROVE Counters(Touched(h), Hashes, Nat)
  BY <1>0, PutCounters DEF Touched, KeyType
<1>5. CASE PutBody(w)
  <2>1. /\ c.stage = "put" /\ blobs' = Touched(c.blob) /\ exposed' \subseteq exposed \cup {c.blob}
        /\ worker' = [worker EXCEPT ![w] = [stage |-> "file", account |-> c.account,
                        blob |-> c.blob, doc |-> c.doc, at |-> now]]
    BY <1>5 DEF PutBody
  <2>2. worker' \in [Workers -> Calls]
    BY <1>0, <1>1, <1>2, <2>1 DEF Calls
  <2>3. KeyType' /\ HistoryType'
    BY <1>0, <1>1, <1>4, <1>5, <2>1 DEF PutBody, KeyType, HistoryType, storeVars
  <2>4. DocType' /\ PurgeType' /\ now' = now
    BY <1>0, <1>5 DEF PutBody, DocType, PurgeType, storeVars
  <2>. QED  BY <1>0, <2>2, <2>3, <2>4 DEF TypeOK
<1>6. CASE PutUpload(w)
  <2>1. /\ c.stage = "upload" /\ blobs' = Touched(c.blob) /\ exposed' \subseteq exposed \cup {c.blob}
        /\ worker' = [worker EXCEPT ![w] = [stage |-> "reserve", account |-> c.account,
                        blob |-> c.blob, begun |-> c.begun, at |-> now]]
    BY <1>6 DEF PutUpload
  <2>2. worker' \in [Workers -> Calls]
    BY <1>0, <1>1, <1>2, <2>1 DEF Calls
  <2>3. KeyType' /\ HistoryType'
    BY <1>0, <1>1, <1>4, <1>6, <2>1 DEF PutUpload, KeyType, HistoryType, storeVars
  <2>4. DocType' /\ PurgeType' /\ now' = now
    BY <1>0, <1>6 DEF PutUpload, DocType, PurgeType, storeVars
  <2>. QED  BY <1>0, <2>2, <2>3, <2>4 DEF TypeOK
<1>7. CASE File(w)
  <2>1. /\ c.stage = "file" /\ worker' = [worker EXCEPT ![w] = Idle]
        /\ docs' = [docs EXCEPT ![c.doc] = [account |-> c.account, blob |-> c.blob]]
        /\ refs' = Add(refs, c.blob, 1) /\ links' = Add(links, <<c.account, c.blob>>, 1)
        /\ usage' = [usage EXCEPT ![c.account] = @ + 1]
        /\ stalled' \subseteq stalled \cup {c.blob}
    BY <1>7 DEF File
  <2>2. KeyType'
    <3>1. <<c.account, c.blob>> \in Accounts \X Hashes /\ c.blob \in Hashes
      BY <1>1, <2>1
    <3>2. Counters(refs', Hashes, Int)
      BY <1>0, <2>1, <3>1, AddCounters DEF KeyType
    <3>3. Counters(links', Accounts \X Hashes, Int)
      <4>1. 1 \in Int /\ Counters(links, Accounts \X Hashes, Int)
        BY <1>0 DEF KeyType
      <4>. QED  BY <2>1, <3>1, <4>1, AddCounters
    <3>. QED  BY <1>0, <1>7, <3>2, <3>3 DEF KeyType, File
  <2>3. DocType' /\ HistoryType'
    <3>1. [account |-> c.account, blob |-> c.blob] \in Record
      BY <1>1, <2>1 DEF Record
    <3>2. docs' \in [Docs -> Record \cup {None}] /\ usage' \in [Accounts -> Int]
      BY <1>0, <1>1, <2>1, <3>1 DEF DocType
    <3>. QED  BY <1>0, <1>1, <1>7, <2>1, <3>2 DEF DocType, HistoryType, File
  <2>4. PurgeType' /\ now' = now
    BY <1>0, <1>7 DEF File, PurgeType
  <2>. QED  BY <1>0, <1>2, <1>3, <2>1, <2>2, <2>3, <2>4 DEF TypeOK
<1>8. CASE Reserve(w)
  <2>1. /\ c.stage = "reserve" /\ worker' = [worker EXCEPT ![w] = Idle]
        /\ reserved' = Put(reserved, <<c.account, c.blob>>, c.begun + ReservationTtl)
        /\ stalled' \subseteq stalled \cup {c.blob}
    BY <1>8 DEF Reserve
  <2>2. KeyType'
    <3>1. c.begun + ReservationTtl \in Nat /\ <<c.account, c.blob>> \in Accounts \X Hashes
      BY <1>1, <2>1, MessageStoreAssumption
    <3>2. Counters(reserved', Accounts \X Hashes, Nat)
      BY <1>0, <2>1, <3>1, PutCounters DEF KeyType
    <3>. QED  BY <1>0, <1>8, <3>2 DEF KeyType, Reserve, storeVars
  <2>3. DocType' /\ HistoryType'
    BY <1>0, <1>1, <1>8, <2>1 DEF DocType, HistoryType, Reserve, storeVars
  <2>4. PurgeType' /\ now' = now
    BY <1>0, <1>8 DEF Reserve, PurgeType
  <2>. QED  BY <1>0, <1>2, <1>3, <2>1, <2>2, <2>3, <2>4 DEF TypeOK
<1>9. CASE LoadMetadata(w)
  <2>. DEFINE b == IF docs[c.doc] = None THEN None ELSE docs[c.doc].blob
  <2>1. /\ c.stage = "metadata"
        /\ worker' = [worker EXCEPT ![w] = [stage |-> "erase", account |-> c.account,
                        doc |-> c.doc, blob |-> b]]
    BY <1>9 DEF LoadMetadata
  <2>2. b \in Hashes \cup {None}
    BY <1>0, <1>1, <2>1 DEF DocType, Record
  <2>. HIDE DEF b
  <2>3. worker' \in [Workers -> Calls]
    BY <1>1, <1>2, <2>1, <2>2 DEF Calls
  <2>4. DocType' /\ KeyType' /\ PurgeType' /\ HistoryType' /\ now' = now
    BY <1>0, <1>9 DEF LoadMetadata, DocType, KeyType, PurgeType, HistoryType, history, storeVars
  <2>. QED  BY <1>0, <2>3, <2>4 DEF TypeOK
<1>10. CASE Erase(w)
  <2>. DEFINE gone == IF docs[c.doc] = None THEN 1 ELSE 0
  <2>1. /\ c.stage = "erase" /\ docs' = [docs EXCEPT ![c.doc] = None]
        /\ usage' = [usage EXCEPT ![c.account] = @ - 1]
        /\ overErased' = [overErased EXCEPT ![c.account] = @ + gone]
        /\ \/ c.blob = None /\ worker' = [worker EXCEPT ![w] = Idle] /\ links' = links /\ over' = over
           \/ /\ c.blob # None /\ links' = Add(links, <<c.account, c.blob>>, -1)
              /\ over' = [over EXCEPT ![c.blob] = @ + gone]
              /\ worker' = [worker EXCEPT ![w] = [stage |-> "release", account |-> c.account,
                              blob |-> c.blob]]
    BY <1>10 DEF Erase
  <2>2. gone \in Nat
    OBVIOUS
  <2>. HIDE DEF gone
  <2>3. DocType'
    BY <1>0, <1>1, <1>10, <2>1, <2>2 DEF DocType, Erase
  <2>4. worker' \in [Workers -> Calls]
    BY <1>1, <1>2, <1>3, <2>1 DEF Calls
  <2>5. KeyType'
    <3>1. CASE c.blob # None
      <4>1. <<c.account, c.blob>> \in Accounts \X Hashes
        BY <1>1, <2>1, <3>1
      <4>2. Counters(links', Accounts \X Hashes, Int)
        BY <1>0, <2>1, <3>1, <4>1, AddCounters DEF KeyType
      <4>. QED  BY <1>0, <1>10, <4>2 DEF KeyType, Erase
    <3>2. CASE c.blob = None
      BY <1>0, <1>10, <2>1, <3>2 DEF KeyType, Erase
    <3>. QED  BY <3>1, <3>2
  <2>6. HistoryType'
    BY <1>0, <1>1, <1>10, <2>1, <2>2 DEF HistoryType, Erase
  <2>7. PurgeType' /\ now' = now
    BY <1>0, <1>10 DEF Erase, PurgeType
  <2>. QED  BY <1>0, <2>3, <2>4, <2>5, <2>6, <2>7 DEF TypeOK
<1>11. CASE Release(w)
  <2>1. c.stage = "release" /\ refs' = Add(refs, c.blob, -1) /\ worker' = [worker EXCEPT ![w] = Idle]
    BY <1>11 DEF Release
  <2>2. KeyType'
    <3>1. Counters(refs', Hashes, Int)
      BY <1>0, <1>1, <2>1, AddCounters DEF KeyType
    <3>. QED  BY <1>0, <1>11, <3>1 DEF KeyType, Release
  <2>3. DocType' /\ PurgeType' /\ HistoryType' /\ now' = now
    BY <1>0, <1>11 DEF Release, DocType, PurgeType, HistoryType, history
  <2>. QED  BY <1>0, <1>2, <1>3, <2>1, <2>2, <2>3 DEF TypeOK
<1>12. CASE CallFails(w)
  <2>1. worker' = [worker EXCEPT ![w] = Idle]
    BY <1>12 DEF CallFails
  <2>2. HistoryType'
    BY <1>0, <1>1, <1>12 DEF CallFails, HistoryType
  <2>3. DocType' /\ KeyType' /\ PurgeType' /\ now' = now
    BY <1>0, <1>12 DEF CallFails, DocType, KeyType, PurgeType, storeVars
  <2>. QED  BY <1>0, <1>2, <1>3, <2>1, <2>2, <2>3 DEF TypeOK
<1>. QED  BY <1>5, <1>6, <1>7, <1>8, <1>9, <1>10, <1>11, <1>12 DEF Continue

LEMMA SweepType ==
    ASSUME TypeOK, Sweep \/ PurgeFails
    PROVE  TypeOK'
<1>0. now \in Nat /\ DocType /\ KeyType /\ worker \in [Workers -> Calls] /\ PurgeType /\ HistoryType
  BY DEF TypeOK
<1>1. CASE PurgeScan
  <2>1. /\ purge'.phase = "dead" /\ purge'.hash = None
        /\ purge' = [phase |-> "dead", at |-> now,
             kept |-> {h \in Hashes : \E a \in Accounts : Count(reserved, <<a, h>>) > now},
             dead |-> {<<"reservation", k>> : k \in {r \in DOMAIN reserved : reserved[r] <= now}}
                      \cup {<<"link", k>> : k \in {l \in DOMAIN links : links[l] <= 0}},
             orphans |-> {h \in DOMAIN refs : refs[h] <= 0},
             hash |-> None, todo |-> {}, stranded |-> {}]
    BY <1>1 DEF PurgeScan, IdlePurge
  <2>2. PurgeType'
    <3>1. {<<"reservation", k>> : k \in {r \in DOMAIN reserved : reserved[r] <= now}}
            \cup {<<"link", k>> : k \in {l \in DOMAIN links : links[l] <= 0}}
          \in SUBSET ({"reservation", "link"} \X (Accounts \X Hashes))
      BY <1>0 DEF KeyType, Counters
    <3>2. {h \in DOMAIN refs : refs[h] <= 0} \in SUBSET Hashes
      BY <1>0 DEF KeyType, Counters
    <3>. QED  BY <1>0, <2>1, <3>1, <3>2 DEF PurgeType
  <2>3. DocType' /\ KeyType' /\ HistoryType' /\ now' = now /\ worker' = worker
    BY <1>0, <1>1 DEF PurgeScan, DocType, KeyType, HistoryType, history, storeVars
  <2>. QED  BY <1>0, <2>2, <2>3 DEF TypeOK
<1>2. CASE PurgeDead
  <2>1. PICK key \in purge.dead :
          /\ purge' = [purge EXCEPT !.dead = @ \ {key}]
          /\ \/ reserved' = Drop(reserved, key[2]) /\ links' = links
             \/ links' = Drop(links, key[2]) /\ reserved' = reserved
    BY <1>2 DEF PurgeDead
  <2>2. KeyType'
    BY <1>0, <1>2, <2>1, DropCounters DEF KeyType, PurgeDead
  <2>3. PurgeType'
    BY <1>0, <2>1 DEF PurgeType
  <2>4. DocType' /\ HistoryType' /\ now' = now /\ worker' = worker
    BY <1>0, <1>2 DEF PurgeDead, DocType, HistoryType, history
  <2>. QED  BY <1>0, <2>2, <2>3, <2>4 DEF TypeOK
<1>3. CASE DeadDone \/ PurgeOrphan \/ OrphansDone \/ PurgeVisit \/ WalkDone \/ SweepDone
  <2>1. PurgeType'
    <3>1. CASE DeadDone
      BY <1>0, <3>1 DEF DeadDone, PurgeType
    <3>2. CASE PurgeOrphan
      <4>1. PICK h \in purge.orphans :
              \/ purge' = [purge EXCEPT !.orphans = @ \ {h}]
              \/ purge' = [purge EXCEPT !.orphans = @ \ {h}, !.phase = "body", !.hash = h]
        BY <3>2 DEF PurgeOrphan
      <4>2. h \in Hashes /\ h # None
        BY <1>0, <4>1, MessageStoreAssumption DEF PurgeType
      <4>3. CASE purge' = [purge EXCEPT !.orphans = @ \ {h}]
        BY <1>0, <4>3 DEF PurgeType
      <4>4. CASE purge' = [purge EXCEPT !.orphans = @ \ {h}, !.phase = "body", !.hash = h]
        BY <1>0, <4>2, <4>4 DEF PurgeType
      <4>. QED  BY <4>1, <4>3, <4>4
    <3>3. CASE OrphansDone
      BY <1>0, <3>3 DEF OrphansDone, PurgeType, KeyType, Counters
    <3>4. CASE PurgeVisit
      <4>1. PICK h \in purge.todo, s \in SUBSET (purge.stranded \cup purge.todo) :
                purge' = [purge EXCEPT !.todo = @ \ {h}, !.stranded = s]
        BY <3>4 DEF PurgeVisit
      <4>2. s \in SUBSET Hashes
        BY <1>0, <4>1 DEF PurgeType
      <4>. QED  BY <1>0, <4>1, <4>2 DEF PurgeType
    <3>5. CASE WalkDone
      BY <1>0, <3>5 DEF WalkDone, PurgeType
    <3>6. CASE SweepDone
      BY <3>6 DEF SweepDone, PurgeType, IdlePurge
    <3>. QED  BY <1>3, <3>1, <3>2, <3>3, <3>4, <3>5, <3>6
  <2>2. UNCHANGED <<now, storeVars, blobs, reserved, worker, history>>
    BY <1>3 DEF DeadDone, PurgeOrphan, OrphansDone, PurgeVisit, WalkDone, SweepDone
  <2>. QED  BY <1>0, <2>1, <2>2 DEF TypeOK, DocType, KeyType, HistoryType, history, storeVars
<1>4. CASE PurgeBody \/ PurgeStranded
  <2>1. PICK h : blobs' = Drop(blobs, h)
    BY <1>4 DEF PurgeBody, PurgeStranded
  <2>2. UNCHANGED <<now, storeVars, reserved, worker, history>>
    BY <1>4 DEF PurgeBody, PurgeStranded
  <2>3. KeyType'
    BY <1>0, <2>1, <2>2, DropCounters DEF KeyType, storeVars
  <2>4. PurgeType'
    BY <1>0, <1>4 DEF PurgeBody, PurgeStranded, PurgeType
  <2>. QED  BY <1>0, <2>2, <2>3, <2>4 DEF TypeOK, DocType, HistoryType, history, storeVars
<1>5. CASE PurgeKey
  <2>1. KeyType'
    BY <1>0, <1>5, DropCounters DEF PurgeKey, KeyType
  <2>2. PurgeType'
    BY <1>0, <1>5 DEF PurgeKey, PurgeType
  <2>3. HistoryType'
    <3>1. Count(refs, purge.hash) \in Int
      BY <1>0, CountType DEF KeyType, Counters
    <3>2. PICK n \in Int : dropped' = [dropped EXCEPT ![purge.hash] = @ + n]
      BY <1>5, <3>1 DEF PurgeKey
    <3>3. dropped' \in [Hashes -> Int]
      <4>1. dropped \in [Hashes -> Int] /\ purge.hash \in Hashes
        BY <1>0, <1>5 DEF HistoryType, PurgeType, PurgeKey
      <4>. QED  BY <3>2, <4>1
    <3>. QED  BY <1>0, <1>5, <3>3 DEF PurgeKey, HistoryType
  <2>. QED  BY <1>0, <1>5, <2>1, <2>2, <2>3 DEF TypeOK, DocType, PurgeKey
<1>6. CASE PurgeFails
  <2>1. PurgeType'
    BY <1>6 DEF PurgeFails, PurgeType, IdlePurge
  <2>2. HistoryType'
    BY <1>0, <1>6 DEF PurgeFails, HistoryType
  <2>. QED  BY <1>0, <1>6, <2>1, <2>2 DEF TypeOK, DocType, KeyType, PurgeFails, storeVars
<1>. QED  BY <1>1, <1>2, <1>3, <1>4, <1>5, <1>6 DEF Sweep

LEMMA TypeStep == TypeOK /\ [Next]_vars => TypeOK'
<1>. SUFFICES ASSUME TypeOK, [Next]_vars PROVE TypeOK'
  OBVIOUS
<1>1. CASE Tick \/ UNCHANGED vars
  <2>1. UNCHANGED <<storeVars, blobs, reserved, worker, purge, history>> /\ now' \in Nat
    BY <1>1 DEF Tick, vars, TypeOK
  <2>. QED  BY <2>1 DEF TypeOK, DocType, KeyType, PurgeType, HistoryType, storeVars, history
<1>. QED  BY <1>1, BeginType, ContinueType, SweepType DEF Next

(* Type correctness, for every number of threads, accounts and bodies and     *)
(* every bound.                                                               *)
THEOREM StoreTypeCorrect == Spec => []TypeOK
BY TypeInit, TypeStep, PTL DEF Spec

----------------------------------------------------------------------------
(* Documents are written once. *)

(* A call moves on with the document it has, or with none, or ends.           *)
LEMMA DocsKept ==
    ASSUME TypeOK, DocsWrittenOnce, NEW w \in Workers, NEW c \in Calls,
           worker' = [worker EXCEPT ![w] = c], docs' = docs, lastDoc' = lastDoc,
           c.stage \in {"put", "file"} => Filing(w) /\ c.doc = worker[w].doc,
           c.stage \in {"metadata", "erase"} =>
              /\ Deleting(w) /\ c.doc = worker[w].doc /\ c.account = worker[w].account
              /\ c.stage = "erase" /\ docs[c.doc] # None => docs[c.doc].blob = c.blob
    PROVE  DocsWrittenOnce'
<1>1. worker'[w] = c /\ \A v \in Workers \ {w} : worker'[v] = worker[v]
  BY DEF TypeOK
<1>. QED  BY <1>1 DEF DocsWrittenOnce, Filing, Deleting

LEMMA DocsStep ==
    ASSUME TypeOK, TypeOK', DocsWrittenOnce, [Next]_vars
    PROVE  DocsWrittenOnce'
<1>1. \A w \in Workers : worker[w] \in Calls
  BY DEF TypeOK
<1>2. ASSUME NEW w \in Workers, NEW c \in Calls, worker' = [worker EXCEPT ![w] = c],
             docs' = docs, lastDoc' = lastDoc,
             c.stage \in {"idle", "upload", "reserve", "release"}
      PROVE  DocsWrittenOnce'
  BY <1>2, DocsKept
<1>3. Idle \in Calls /\ Idle.stage = "idle"
  BY DEF Calls, Idle
<1>4. ASSUME NEW w \in Workers, CheckQuota(w) PROVE DocsWrittenOnce'
  <2>1. PICK a \in Accounts, h \in Hashes : worker' = [worker EXCEPT ![w] =
            [stage |-> "put", account |-> a, blob |-> h, doc |-> lastDoc + 1]]
    BY <1>4 DEF CheckQuota
  <2>2. docs' = docs /\ lastDoc' = lastDoc + 1 /\ lastDoc \in Nat /\ lastDoc + 1 \in Docs
    BY <1>4, MessageStoreAssumption DEF CheckQuota, TypeOK, DocType, Docs
  <2>3. /\ worker'[w].stage = "put" /\ worker'[w].doc = lastDoc + 1
        /\ \A v \in Workers \ {w} : worker'[v] = worker[v]
    BY <2>1 DEF TypeOK
  <2>4. \A v \in Workers : Filing(v) \/ Deleting(v) => worker[v].doc \in Nat /\ worker[v].doc <= lastDoc
    BY <1>1, CallFields DEF DocsWrittenOnce, Filing, Deleting, Docs
  <2>5. \A d \in Docs : d \in Nat /\ (docs[d] # None => d <= lastDoc)
    BY DEF DocsWrittenOnce, Docs
  <2>. QED  BY <2>2, <2>3, <2>4, <2>5 DEF DocsWrittenOnce, Filing, Deleting
<1>5. ASSUME NEW w \in Workers, BeginUpload(w) PROVE DocsWrittenOnce'
  <2>1. PICK a \in Accounts, h \in Hashes : worker' = [worker EXCEPT ![w] =
            [stage |-> "upload", account |-> a, blob |-> h, begun |-> now]]
    BY <1>5 DEF BeginUpload
  <2>2. [stage |-> "upload", account |-> a, blob |-> h, begun |-> now] \in Calls
    BY DEF Calls, TypeOK
  <2>. QED  BY <1>2, <1>5, <2>1, <2>2 DEF BeginUpload, storeVars
<1>6. ASSUME NEW w \in Workers, LoadData(w) PROVE DocsWrittenOnce'
  <2>1. PICK d \in Docs : docs[d] # None /\ worker' = [worker EXCEPT ![w] =
            [stage |-> "metadata", account |-> docs[d].account, doc |-> d]]
    BY <1>6 DEF LoadData
  <2>2. docs' = docs /\ lastDoc' = lastDoc
    BY <1>6 DEF LoadData, storeVars
  <2>3. /\ worker'[w].stage = "metadata" /\ worker'[w].doc = d /\ worker'[w].account = docs[d].account
        /\ \A v \in Workers \ {w} : worker'[v] = worker[v]
    BY <2>1 DEF TypeOK
  <2>. QED  BY <2>1, <2>2, <2>3 DEF DocsWrittenOnce, Filing, Deleting
<1>7. ASSUME NEW w \in Workers, PutBody(w) PROVE DocsWrittenOnce'
  <2>. DEFINE c == [stage |-> "file", account |-> worker[w].account, blob |-> worker[w].blob,
                    doc |-> worker[w].doc, at |-> now]
  <2>1. worker[w].stage = "put" /\ worker' = [worker EXCEPT ![w] = c] /\ docs' = docs /\ lastDoc' = lastDoc
    BY <1>7 DEF PutBody, storeVars
  <2>2. c \in Calls
    BY <2>1 DEF TypeOK
  <2>3. c.stage = "file" /\ c.doc = worker[w].doc
    OBVIOUS
  <2>. HIDE DEF c
  <2>. QED  BY <2>1, <2>2, <2>3, DocsKept DEF Filing
<1>8. ASSUME NEW w \in Workers, PutUpload(w) PROVE DocsWrittenOnce'
  <2>. DEFINE c == [stage |-> "reserve", account |-> worker[w].account, blob |-> worker[w].blob,
                    begun |-> worker[w].begun, at |-> now]
  <2>1. worker' = [worker EXCEPT ![w] = c] /\ docs' = docs /\ lastDoc' = lastDoc
    BY <1>8 DEF PutUpload, storeVars
  <2>2. c \in Calls
    BY <2>1 DEF TypeOK
  <2>3. c.stage = "reserve"
    OBVIOUS
  <2>. HIDE DEF c
  <2>. QED  BY <1>2, <2>1, <2>2, <2>3
<1>9. ASSUME NEW w \in Workers, Reserve(w) \/ Release(w) \/ CallFails(w) PROVE DocsWrittenOnce'
  BY <1>2, <1>3, <1>9 DEF Reserve, Release, CallFails, storeVars
<1>10. ASSUME NEW w \in Workers, File(w) PROVE DocsWrittenOnce'
  <2>. DEFINE d == worker[w].doc
  <2>1. /\ worker[w].stage = "file" /\ worker' = [worker EXCEPT ![w] = Idle] /\ lastDoc' = lastDoc
        /\ docs' = [docs EXCEPT ![d] = [account |-> worker[w].account, blob |-> worker[w].blob]]
    BY <1>10 DEF File
  <2>2. worker'[w] = Idle /\ \A v \in Workers \ {w} : worker'[v] = worker[v]
    BY <2>1 DEF TypeOK
  <2>3. \A e \in Docs : e # d => docs'[e] = docs[e]
    BY <2>1 DEF TypeOK, DocType
  <2>4. d <= lastDoc /\ \A v \in Workers \ {w} : Filing(v) \/ Deleting(v) => worker[v].doc # d
    BY <2>1 DEF DocsWrittenOnce, Filing
  <2>5. \A v \in Workers : Filing(v) \/ Deleting(v) => worker[v].doc \in Docs
    BY <1>1, CallFields DEF Filing, Deleting
  <2>6. /\ ~Filing(w)' /\ ~Deleting(w)'
        /\ \A v \in Workers \ {w} : (Filing(v)' <=> Filing(v)) /\ (Deleting(v)' <=> Deleting(v))
    BY <1>3, <2>2 DEF Filing, Deleting
  <2>. HIDE DEF d
  <2>7. \A v \in Workers \ {w} : Filing(v) \/ Deleting(v) => docs'[worker[v].doc] = docs[worker[v].doc]
    BY <2>3, <2>4, <2>5
  <2>8. \A v \in Workers : Filing(v)' =>
          /\ worker'[v].doc <= lastDoc' /\ docs'[worker'[v].doc] = None
          /\ \A u \in Workers \ {v} : Filing(u)' \/ Deleting(u)' => worker'[u].doc # worker'[v].doc
    BY <2>1, <2>2, <2>6, <2>7 DEF DocsWrittenOnce
  <2>9. \A v \in Workers : Deleting(v)' =>
          /\ worker'[v].doc <= lastDoc'
          /\ docs'[worker'[v].doc] # None => docs'[worker'[v].doc].account = worker'[v].account
    BY <2>1, <2>2, <2>6, <2>7 DEF DocsWrittenOnce
  <2>10. \A v \in Workers : worker'[v].stage = "erase" /\ docs'[worker'[v].doc] # None =>
          docs'[worker'[v].doc].blob = worker'[v].blob
    BY <2>2, <2>6, <2>7 DEF DocsWrittenOnce, Deleting
  <2>11. \A e \in Docs : docs'[e] # None => e <= lastDoc'
    BY <2>1, <2>3, <2>4 DEF DocsWrittenOnce
  <2>. QED  BY <2>8, <2>9, <2>10, <2>11 DEF DocsWrittenOnce
<1>11. ASSUME NEW w \in Workers, LoadMetadata(w) PROVE DocsWrittenOnce'
  <2>. DEFINE c == [stage |-> "erase", account |-> worker[w].account, doc |-> worker[w].doc,
         blob |-> IF docs[worker[w].doc] = None THEN None ELSE docs[worker[w].doc].blob]
  <2>1. worker[w].stage = "metadata" /\ worker' = [worker EXCEPT ![w] = c] /\ docs' = docs /\ lastDoc' = lastDoc
    BY <1>11 DEF LoadMetadata, storeVars
  <2>2. c \in Calls
    BY <2>1 DEF TypeOK
  <2>3. /\ c.stage = "erase" /\ c.doc = worker[w].doc /\ c.account = worker[w].account
        /\ docs[c.doc] # None => docs[c.doc].blob = c.blob
    OBVIOUS
  <2>. HIDE DEF c
  <2>. QED  BY <2>1, <2>2, <2>3, DocsKept DEF Deleting
<1>12. ASSUME NEW w \in Workers, Erase(w) PROVE DocsWrittenOnce'
  <2>1. /\ docs' = [docs EXCEPT ![worker[w].doc] = None] /\ lastDoc' = lastDoc
        /\ \E c : worker' = [worker EXCEPT ![w] = c] /\ c.stage \in {"idle", "release"}
    BY <1>3, <1>12 DEF Erase
  <2>2. /\ worker'[w].stage \in {"idle", "release"}
        /\ \A v \in Workers \ {w} : worker'[v] = worker[v]
    BY <2>1 DEF TypeOK
  <2>3. \A e \in Docs : docs'[e] = docs[e] \/ docs'[e] = None
    BY <2>1 DEF TypeOK, DocType
  <2>4. \A v \in Workers : Filing(v) \/ Deleting(v) => worker[v].doc \in Docs
    BY <1>1, CallFields DEF Filing, Deleting
  <2>. QED  BY <2>1, <2>2, <2>3, <2>4 DEF DocsWrittenOnce, Filing, Deleting
<1>13. CASE Sweep \/ PurgeFails \/ Tick \/ UNCHANGED vars
  <2>1. docs' = docs /\ lastDoc' = lastDoc /\ worker' = worker
    BY <1>13 DEF Sweep, PurgeScan, PurgeDead, DeadDone, PurgeOrphan, PurgeBody, PurgeKey,
                 OrphansDone, PurgeVisit, WalkDone, PurgeStranded, SweepDone, PurgeFails, Tick,
                 vars, storeVars
  <2>. QED  BY <2>1 DEF DocsWrittenOnce, Filing, Deleting
<1>. QED  BY <1>4, <1>5, <1>6, <1>7, <1>8, <1>9, <1>10, <1>11, <1>12, <1>13 DEF Next, Begin, Continue

----------------------------------------------------------------------------
(* Counting documents and calls. *)

(* Two sets that differ in x at most. *)
LEMMA CountChange ==
    ASSUME NEW S, NEW T, NEW x, IsFiniteSet(S), S \ {x} = T \ {x}
    PROVE  /\ IsFiniteSet(T) /\ Cardinality(S) \in Nat /\ Cardinality(T) \in Nat
           /\ Cardinality(T) = Cardinality(S) - (IF x \in S THEN 1 ELSE 0) + (IF x \in T THEN 1 ELSE 0)
<1>. DEFINE R == S \ {x}
<1>1. IsFiniteSet(R) /\ Cardinality(R) = IF x \in S THEN Cardinality(S) - 1 ELSE Cardinality(S)
  BY FS_RemoveElement
<1>2. Cardinality(S) \in Nat /\ Cardinality(R) \in Nat
  BY <1>1, FS_CardinalityType
<1>3. IsFiniteSet(R \cup {x}) /\ Cardinality(R \cup {x}) = Cardinality(R) + 1
  BY <1>1, FS_AddElement
<1>4. CASE x \in T
  <2>1. T = R \cup {x}
    BY <1>4
  <2>. HIDE DEF R
  <2>. QED  BY <1>1, <1>2, <1>3, <1>4, <2>1
<1>5. CASE x \notin T
  <2>1. T = R
    BY <1>5
  <2>. HIDE DEF R
  <2>. QED  BY <1>1, <1>2, <1>5, <2>1
<1>. QED  BY <1>4, <1>5

LEMMA DocsFinite ==
    ASSUME NEW S \in SUBSET Docs
    PROVE  IsFiniteSet(S) /\ Cardinality(S) \in Nat
<1>1. IsFiniteSet(Docs)
  BY FS_Interval, MessageStoreAssumption DEF Docs
<1>. QED  BY <1>1, FS_Subset, FS_CardinalityType

LEMMA WorkersFinite ==
    ASSUME NEW S \in SUBSET Workers
    PROVE  IsFiniteSet(S) /\ Cardinality(S) \in Nat /\ Cardinality(S) <= Cardinality(Workers)
           /\ Cardinality(Workers) \in Nat
BY MessageStoreAssumption, FS_Subset, FS_CardinalityType

(* One document is written or erased. *)
LEMMA HeldChange ==
    ASSUME NEW d \in Docs, \A e \in Docs : e # d => docs'[e] = docs[e], NEW h \in Hashes
    PROVE  /\ Held(h) \in Nat /\ Held(h)' \in Nat
           /\ Held(h)' = Held(h) - (IF docs[d] # None /\ docs[d].blob = h THEN 1 ELSE 0)
                + (IF docs'[d] # None /\ docs'[d].blob = h THEN 1 ELSE 0)
<1>. DEFINE S == {e \in Docs : docs[e] # None /\ docs[e].blob = h}
            T == {e \in Docs : docs'[e] # None /\ docs'[e].blob = h}
<1>1. S \ {d} = T \ {d}
  OBVIOUS
<1>2. IsFiniteSet(S)
  BY DocsFinite
<1>3. /\ d \in S <=> docs[d] # None /\ docs[d].blob = h
      /\ d \in T <=> docs'[d] # None /\ docs'[d].blob = h
  OBVIOUS
<1>4. Held(h) = Cardinality(S) /\ Held(h)' = Cardinality(T)
  BY DEF Held
<1>. HIDE DEF S, T
<1>5. /\ Cardinality(S) \in Nat /\ Cardinality(T) \in Nat
      /\ Cardinality(T) = Cardinality(S) - (IF d \in S THEN 1 ELSE 0) + (IF d \in T THEN 1 ELSE 0)
  BY <1>1, <1>2, CountChange
<1>. QED  BY <1>3, <1>4, <1>5

LEMMA MailboxChange ==
    ASSUME NEW d \in Docs, \A e \in Docs : e # d => docs'[e] = docs[e], NEW a \in Accounts
    PROVE  /\ Mailbox(a) \in Nat /\ Mailbox(a)' \in Nat
           /\ Mailbox(a)' = Mailbox(a) - (IF docs[d] # None /\ docs[d].account = a THEN 1 ELSE 0)
                + (IF docs'[d] # None /\ docs'[d].account = a THEN 1 ELSE 0)
<1>. DEFINE S == {e \in Docs : docs[e] # None /\ docs[e].account = a}
            T == {e \in Docs : docs'[e] # None /\ docs'[e].account = a}
<1>1. S \ {d} = T \ {d}
  OBVIOUS
<1>2. IsFiniteSet(S)
  BY DocsFinite
<1>3. /\ d \in S <=> docs[d] # None /\ docs[d].account = a
      /\ d \in T <=> docs'[d] # None /\ docs'[d].account = a
  OBVIOUS
<1>4. Mailbox(a) = Cardinality(S) /\ Mailbox(a)' = Cardinality(T)
  BY DEF Mailbox
<1>. HIDE DEF S, T
<1>5. /\ Cardinality(S) \in Nat /\ Cardinality(T) \in Nat
      /\ Cardinality(T) = Cardinality(S) - (IF d \in S THEN 1 ELSE 0) + (IF d \in T THEN 1 ELSE 0)
  BY <1>1, <1>2, CountChange
<1>. QED  BY <1>3, <1>4, <1>5

LEMMA HeldByChange ==
    ASSUME NEW d \in Docs, \A e \in Docs : e # d => docs'[e] = docs[e], NEW a \in Accounts, NEW h \in Hashes
    PROVE  /\ HeldBy(a, h) \in Nat /\ HeldBy(a, h)' \in Nat
           /\ HeldBy(a, h)' = HeldBy(a, h) - (IF docs[d] # None /\ docs[d].account = a /\ docs[d].blob = h THEN 1 ELSE 0)
                + (IF docs'[d] # None /\ docs'[d].account = a /\ docs'[d].blob = h THEN 1 ELSE 0)
<1>. DEFINE S == {e \in Docs : docs[e] # None /\ docs[e].account = a /\ docs[e].blob = h}
            T == {e \in Docs : docs'[e] # None /\ docs'[e].account = a /\ docs'[e].blob = h}
<1>1. S \ {d} = T \ {d}
  OBVIOUS
<1>2. IsFiniteSet(S)
  BY DocsFinite
<1>3. /\ d \in S <=> docs[d] # None /\ docs[d].account = a /\ docs[d].blob = h
      /\ d \in T <=> docs'[d] # None /\ docs'[d].account = a /\ docs'[d].blob = h
  OBVIOUS
<1>4. HeldBy(a, h) = Cardinality(S) /\ HeldBy(a, h)' = Cardinality(T)
  BY DEF HeldBy
<1>. HIDE DEF S, T
<1>5. /\ Cardinality(S) \in Nat /\ Cardinality(T) \in Nat
      /\ Cardinality(T) = Cardinality(S) - (IF d \in S THEN 1 ELSE 0) + (IF d \in T THEN 1 ELSE 0)
  BY <1>1, <1>2, CountChange
<1>. QED  BY <1>3, <1>4, <1>5

(* One call moves on. *)
LEMMA ReleasingChange ==
    ASSUME NEW w \in Workers, \A v \in Workers : v # w => worker'[v] = worker[v], NEW h \in Hashes
    PROVE  /\ Releasing(h) \in Nat /\ Releasing(h)' \in Nat
           /\ Releasing(h)' = Releasing(h) - (IF worker[w].stage = "release" /\ worker[w].blob = h THEN 1 ELSE 0)
                + (IF worker'[w].stage = "release" /\ worker'[w].blob = h THEN 1 ELSE 0)
<1>. DEFINE S == {v \in Workers : worker[v].stage = "release" /\ worker[v].blob = h}
            T == {v \in Workers : worker'[v].stage = "release" /\ worker'[v].blob = h}
<1>1. S \ {w} = T \ {w}
  OBVIOUS
<1>2. IsFiniteSet(S) /\ Cardinality(T) <= Cardinality(Workers)
  BY WorkersFinite
<1>3. /\ w \in S <=> worker[w].stage = "release" /\ worker[w].blob = h
      /\ w \in T <=> worker'[w].stage = "release" /\ worker'[w].blob = h
  OBVIOUS
<1>4. Releasing(h) = Cardinality(S) /\ Releasing(h)' = Cardinality(T)
  BY DEF Releasing
<1>. HIDE DEF S, T
<1>5. /\ Cardinality(S) \in Nat /\ Cardinality(T) \in Nat
      /\ Cardinality(T) = Cardinality(S) - (IF w \in S THEN 1 ELSE 0) + (IF w \in T THEN 1 ELSE 0)
  BY <1>1, <1>2, CountChange
<1>. QED  BY <1>2, <1>3, <1>4, <1>5

LEMMA PendingChange ==
    ASSUME NEW w \in Workers, \A v \in Workers : v # w => worker'[v] = worker[v], NEW a \in Accounts
    PROVE  /\ Pending(a) \in Nat /\ Pending(a)' \in Nat /\ Pending(a)' <= Cardinality(Workers)
           /\ Pending(a)' = Pending(a) - (IF worker[w].stage \in {"put", "file"} /\ worker[w].account = a THEN 1 ELSE 0)
                + (IF worker'[w].stage \in {"put", "file"} /\ worker'[w].account = a THEN 1 ELSE 0)
<1>. DEFINE S == {v \in Workers : worker[v].stage \in {"put", "file"} /\ worker[v].account = a}
            T == {v \in Workers : worker'[v].stage \in {"put", "file"} /\ worker'[v].account = a}
<1>1. S \ {w} = T \ {w}
  OBVIOUS
<1>2. IsFiniteSet(S) /\ Cardinality(T) <= Cardinality(Workers)
  BY WorkersFinite
<1>3. /\ w \in S <=> worker[w].stage \in {"put", "file"} /\ worker[w].account = a
      /\ w \in T <=> worker'[w].stage \in {"put", "file"} /\ worker'[w].account = a
  OBVIOUS
<1>4. Pending(a) = Cardinality(S) /\ Pending(a)' = Cardinality(T)
  BY DEF Pending, Filing
<1>. HIDE DEF S, T
<1>5. /\ Cardinality(S) \in Nat /\ Cardinality(T) \in Nat
      /\ Cardinality(T) = Cardinality(S) - (IF w \in S THEN 1 ELSE 0) + (IF w \in T THEN 1 ELSE 0)
  BY <1>1, <1>2, CountChange
<1>. QED  BY <1>2, <1>3, <1>4, <1>5

(* What the counts are made of does not change with the documents, the calls, *)
(* or either.                                                                 *)
LEMMA DocCountsKept ==
    ASSUME docs' = docs
    PROVE  /\ \A h \in Hashes : Held(h)' = Held(h)
           /\ \A a \in Accounts : Mailbox(a)' = Mailbox(a)
           /\ \A a \in Accounts, h \in Hashes : HeldBy(a, h)' = HeldBy(a, h)
BY DEF Held, Mailbox, HeldBy

LEMMA CallCountsKept ==
    ASSUME worker' = worker
    PROVE  /\ \A h \in Hashes : Releasing(h)' = Releasing(h)
           /\ \A a \in Accounts : Pending(a)' = Pending(a)
BY DEF Releasing, Pending, Filing

LEMMA CountTypes ==
    ASSUME TypeOK
    PROVE  /\ \A h \in Hashes : /\ Held(h) \in Nat /\ Releasing(h) \in Nat /\ Count(refs, h) \in Int
                                /\ leaked[h] \in Nat /\ over[h] \in Nat /\ dropped[h] \in Int
           /\ \A a \in Accounts : /\ Mailbox(a) \in Nat /\ Pending(a) \in Nat
                                  /\ usage[a] \in Int /\ overErased[a] \in Nat
           /\ \A a \in Accounts, h \in Hashes : HeldBy(a, h) \in Nat /\ Count(links, <<a, h>>) \in Int
           /\ Cardinality(Workers) \in Nat /\ QuotaMessages \in Nat
<1>1. /\ \A h \in Hashes : leaked[h] \in Nat /\ over[h] \in Nat /\ dropped[h] \in Int
      /\ \A a \in Accounts : usage[a] \in Int /\ overErased[a] \in Nat
  BY DEF TypeOK, HistoryType, DocType
<1>2. \A h \in Hashes : Held(h) \in Nat
  BY DocsFinite DEF Held
<1>3. \A a \in Accounts : Mailbox(a) \in Nat
  BY DocsFinite DEF Mailbox
<1>4. \A a \in Accounts, h \in Hashes : HeldBy(a, h) \in Nat
  BY DocsFinite DEF HeldBy
<1>5. \A h \in Hashes : Releasing(h) \in Nat
  BY WorkersFinite DEF Releasing
<1>6. \A a \in Accounts : Pending(a) \in Nat
  BY WorkersFinite DEF Pending
<1>7. \A h \in Hashes : Count(refs, h) \in Int
  BY CountType DEF TypeOK, KeyType, Counters
<1>8. \A k : Count(links, k) \in Int
  BY CountType DEF TypeOK, KeyType, Counters
<1>9. Cardinality(Workers) \in Nat /\ QuotaMessages \in Nat
  BY MessageStoreAssumption, FS_CardinalityType
<1>. QED  BY <1>1, <1>2, <1>3, <1>4, <1>5, <1>6, <1>7, <1>8, <1>9

LEMMA CountsInit == ASSUME Init PROVE CountsExact
<1>1. TypeOK
  BY TypeInit
<1>2. \A h \in Hashes : Held(h) = 0 /\ Releasing(h) = 0
  <2>1. \A h \in Hashes : {d \in Docs : docs[d] # None /\ docs[d].blob = h} = {}
    BY DEF Init
  <2>2. \A h \in Hashes : {w \in Workers : worker[w].stage = "release" /\ worker[w].blob = h} = {}
    BY DEF Init, Idle
  <2>. QED  BY <2>1, <2>2, FS_EmptySet DEF Held, Releasing
<1>3. \A a \in Accounts : Mailbox(a) = 0 /\ Pending(a) = 0
  <2>1. \A a \in Accounts : {d \in Docs : docs[d] # None /\ docs[d].account = a} = {}
    BY DEF Init
  <2>2. \A a \in Accounts : {w \in Workers : Filing(w) /\ worker[w].account = a} = {}
    BY DEF Init, Idle, Filing
  <2>. QED  BY <2>1, <2>2, FS_EmptySet DEF Mailbox, Pending
<1>4. \A k : Count(refs, k) = 0 /\ Count(links, k) = 0
  BY DEF Init, Count, Empty
<1>5. /\ \A a \in Accounts : usage[a] = 0 /\ overErased[a] = 0
      /\ \A h \in Hashes : leaked[h] = 0 /\ over[h] = 0 /\ dropped[h] = 0
  BY DEF Init
<1>6. \A a \in Accounts, h \in Hashes : HeldBy(a, h) \in Nat
  BY <1>1, CountTypes
<1>7. Cardinality(Workers) \in Nat /\ QuotaMessages \in Nat
  BY <1>1, CountTypes
<1>8. \A a \in Accounts : UsageExact(a)
  BY <1>3, <1>5, <1>7 DEF UsageExact
<1>9. \A h \in Hashes : RefsExact(h)
  BY <1>2, <1>4, <1>5 DEF RefsExact
<1>10. \A a \in Accounts, h \in Hashes : LinkBelow(a, h)
  BY <1>4, <1>6 DEF LinkBelow
<1>. QED  BY <1>8, <1>9, <1>10 DEF CountsExact

(* A call moves on without touching what is counted. *)
LEMMA CountsKept ==
    ASSUME TypeOK, CountsExact, NEW w \in Workers, \A v \in Workers : v # w => worker'[v] = worker[v],
           worker'[w].stage # "release", worker[w].stage # "release",
           worker'[w].stage \in {"put", "file"} =>
             worker[w].stage \in {"put", "file"} /\ worker[w].account = worker'[w].account,
           docs' = docs, refs' = refs, links' = links, usage' = usage, over' = over,
           leaked' = leaked, dropped' = dropped, overErased' = overErased
    PROVE  CountsExact'
<1>1. ASSUME NEW a \in Accounts PROVE UsageExact(a)'
  <2>1. Pending(a) \in Nat /\ Pending(a)' \in Nat /\ Pending(a)' <= Pending(a)
    BY PendingChange
  <2>2. Mailbox(a)' = Mailbox(a)
    BY DocCountsKept
  <2>. QED  BY <2>1, <2>2, CountTypes DEF CountsExact, UsageExact
<1>2. ASSUME NEW h \in Hashes PROVE RefsExact(h)'
  <2>1. Releasing(h)' = Releasing(h)
    BY ReleasingChange
  <2>. QED  BY <2>1, DocCountsKept DEF CountsExact, RefsExact
<1>3. \A a \in Accounts, h \in Hashes : LinkBelow(a, h)'
  BY DocCountsKept DEF CountsExact, LinkBelow
<1>. QED  BY <1>1, <1>2, <1>3 DEF CountsExact

(* The quota check counts the delivery among those to come. *)
LEMMA CheckQuotaCounts ==
    ASSUME TypeOK, CountsExact, NEW w \in Workers, CheckQuota(w)
    PROVE  CountsExact'
<1>1. PICK a \in Accounts, h \in Hashes :
        /\ QuotaMessages # 0 => UsageOf(a) + 1 <= QuotaMessages
        /\ worker' = [worker EXCEPT ![w] = [stage |-> "put", account |-> a, blob |-> h,
                                            doc |-> lastDoc + 1]]
  BY DEF CheckQuota
<1>2. /\ docs' = docs /\ refs' = refs /\ links' = links /\ usage' = usage /\ over' = over
      /\ leaked' = leaked /\ dropped' = dropped /\ overErased' = overErased
      /\ worker[w].stage = "idle"
  BY DEF CheckQuota, history, Idle
<1>3. /\ \A v \in Workers : v # w => worker'[v] = worker[v]
      /\ worker'[w].stage = "put" /\ worker'[w].account = a
  BY <1>1 DEF TypeOK
<1>4. ASSUME NEW b \in Accounts PROVE UsageExact(b)'
  <2>1. /\ Pending(b)' \in Nat /\ Pending(b)' <= Cardinality(Workers)
        /\ b # a => Pending(b)' = Pending(b)
    BY <1>2, <1>3, PendingChange
  <2>2. QuotaMessages # 0 => usage[a] + 1 <= QuotaMessages
    BY <1>1, CountTypes DEF UsageOf
  <2>3. QuotaMessages # 0 => usage[b] + Pending(b)' < QuotaMessages + Cardinality(Workers)
    <3>1. CASE b = a
      BY <2>1, <2>2, <3>1, CountTypes
    <3>2. CASE b # a
      BY <2>1, <3>2, CountTypes DEF CountsExact, UsageExact
    <3>. QED  BY <3>1, <3>2
  <2>. QED  BY <1>2, <2>3, DocCountsKept DEF CountsExact, UsageExact
<1>5. ASSUME NEW g \in Hashes PROVE RefsExact(g)'
  <2>1. Releasing(g)' = Releasing(g)
    BY <1>2, <1>3, ReleasingChange
  <2>. QED  BY <1>2, <2>1, DocCountsKept DEF CountsExact, RefsExact
<1>6. \A b \in Accounts, g \in Hashes : LinkBelow(b, g)'
  BY <1>2, DocCountsKept DEF CountsExact, LinkBelow
<1>. QED  BY <1>4, <1>5, <1>6 DEF CountsExact

LEMMA FileCounts ==
    ASSUME TypeOK, CountsExact, DocsWrittenOnce, NEW w \in Workers, File(w)
    PROVE  CountsExact'
<1>. DEFINE c == worker[w]
<1>1. /\ c.stage = "file" /\ worker' = [worker EXCEPT ![w] = Idle]
      /\ docs' = [docs EXCEPT ![c.doc] = [account |-> c.account, blob |-> c.blob]]
      /\ refs' = Add(refs, c.blob, 1) /\ links' = Add(links, <<c.account, c.blob>>, 1)
      /\ usage' = [usage EXCEPT ![c.account] = @ + 1]
      /\ over' = over /\ leaked' = leaked /\ dropped' = dropped /\ overErased' = overErased
  BY DEF File
<1>2. c.doc \in Docs /\ c.account \in Accounts /\ c.blob \in Hashes
  BY <1>1, CallFields DEF TypeOK
<1>3. docs[c.doc] = None
  BY <1>1 DEF DocsWrittenOnce, Filing
<1>4. /\ docs'[c.doc].account = c.account /\ docs'[c.doc].blob = c.blob /\ docs'[c.doc] # None
      /\ \A e \in Docs : e # c.doc => docs'[e] = docs[e]
  BY <1>1, <1>2, MessageStoreAssumption DEF TypeOK, DocType, Record
<1>5. /\ \A v \in Workers : v # w => worker'[v] = worker[v]
      /\ worker'[w].stage = "idle"
  BY <1>1 DEF TypeOK, Idle
<1>. HIDE DEF c
<1>6. ASSUME NEW a \in Accounts PROVE UsageExact(a)'
  <2>1. /\ a = c.account => Mailbox(a)' = Mailbox(a) + 1
        /\ a # c.account => Mailbox(a)' = Mailbox(a)
    BY <1>2, <1>3, <1>4, MailboxChange
  <2>2. /\ a = c.account => Pending(a)' = Pending(a) - 1
        /\ a # c.account => Pending(a)' = Pending(a)
    BY <1>1, <1>5, PendingChange DEF c
  <2>3. /\ a = c.account => usage'[a] = usage[a] + 1
        /\ a # c.account => usage'[a] = usage[a]
    BY <1>1, <1>2 DEF TypeOK, DocType
  <2>4. UsageExact(a)
    BY DEF CountsExact
  <2>5. overErased'[a] = overErased[a]
    BY <1>1
  <2>6. CASE a = c.account
    BY <2>1, <2>2, <2>3, <2>4, <2>5, <2>6, CountTypes DEF UsageExact
  <2>7. CASE a # c.account
    BY <2>1, <2>2, <2>3, <2>4, <2>5, <2>7, CountTypes DEF UsageExact
  <2>. QED  BY <2>6, <2>7
<1>7. ASSUME NEW h \in Hashes PROVE RefsExact(h)'
  <2>1. /\ h = c.blob => Held(h)' = Held(h) + 1
        /\ h # c.blob => Held(h)' = Held(h)
    BY <1>2, <1>3, <1>4, HeldChange
  <2>2. Releasing(h)' = Releasing(h)
    BY <1>1, <1>5, ReleasingChange DEF c
  <2>3. /\ h = c.blob => Count(refs', h) = Count(refs, h) + 1
        /\ h # c.blob => Count(refs', h) = Count(refs, h)
    BY <1>1, AddCount
  <2>. QED  BY <1>1, <2>1, <2>2, <2>3, CountTypes DEF CountsExact, RefsExact
<1>8. ASSUME NEW a \in Accounts, NEW h \in Hashes PROVE LinkBelow(a, h)'
  <2>1. <<a, h>> = <<c.account, c.blob>> <=> a = c.account /\ h = c.blob
    OBVIOUS
  <2>2. /\ a = c.account /\ h = c.blob => HeldBy(a, h)' = HeldBy(a, h) + 1
        /\ ~(a = c.account /\ h = c.blob) => HeldBy(a, h)' = HeldBy(a, h)
    BY <1>2, <1>3, <1>4, HeldByChange
  <2>3. /\ a = c.account /\ h = c.blob => Count(links', <<a, h>>) = Count(links, <<a, h>>) + 1
        /\ ~(a = c.account /\ h = c.blob) => Count(links', <<a, h>>) = Count(links, <<a, h>>)
    BY <1>1, <2>1, AddCount
  <2>. QED  BY <2>2, <2>3, CountTypes DEF CountsExact, LinkBelow
<1>. QED  BY <1>6, <1>7, <1>8 DEF CountsExact

LEMMA EraseCounts ==
    ASSUME TypeOK, CountsExact, DocsWrittenOnce, NEW w \in Workers, Erase(w)
    PROVE  CountsExact'
<1>. DEFINE c == worker[w]
            gone == IF docs[c.doc] = None THEN 1 ELSE 0
<1>1. /\ c.stage = "erase" /\ docs' = [docs EXCEPT ![c.doc] = None]
      /\ usage' = [usage EXCEPT ![c.account] = @ - 1]
      /\ overErased' = [overErased EXCEPT ![c.account] = @ + gone]
      /\ refs' = refs /\ leaked' = leaked /\ dropped' = dropped
      /\ \/ c.blob = None /\ worker' = [worker EXCEPT ![w] = Idle] /\ links' = links /\ over' = over
         \/ /\ c.blob # None /\ links' = Add(links, <<c.account, c.blob>>, -1)
            /\ over' = [over EXCEPT ![c.blob] = @ + gone]
            /\ worker' = [worker EXCEPT ![w] = [stage |-> "release", account |-> c.account,
                            blob |-> c.blob]]
  BY DEF Erase
<1>2. c.doc \in Docs /\ c.account \in Accounts /\ c.blob \in Hashes \cup {None}
  BY <1>1, CallFields DEF TypeOK
<1>3. docs[c.doc] # None => docs[c.doc].account = c.account /\ docs[c.doc].blob = c.blob
  BY <1>1 DEF DocsWrittenOnce, Deleting
<1>4. docs'[c.doc] = None /\ \A e \in Docs : e # c.doc => docs'[e] = docs[e]
  BY <1>1, <1>2 DEF TypeOK, DocType
<1>5. /\ \A v \in Workers : v # w => worker'[v] = worker[v]
      /\ c.blob = None => worker'[w].stage = "idle"
      /\ c.blob # None => worker'[w].stage = "release" /\ worker'[w].blob = c.blob
  BY <1>1 DEF TypeOK, Idle
<1>6. gone \in {0, 1} /\ (gone = 1 <=> docs[c.doc] = None)
  OBVIOUS
<1>7. c.blob = None => docs[c.doc] = None
  BY <1>2, <1>3, MessageStoreAssumption DEF TypeOK, DocType, Record
<1>. HIDE DEF c, gone
<1>8. ASSUME NEW a \in Accounts PROVE UsageExact(a)'
  <2>1. /\ a = c.account => Mailbox(a)' = Mailbox(a) - 1 + gone
        /\ a # c.account => Mailbox(a)' = Mailbox(a)
    <3>1. /\ Mailbox(a) \in Nat
          /\ Mailbox(a)' = Mailbox(a) - (IF docs[c.doc] # None /\ docs[c.doc].account = a THEN 1 ELSE 0)
      BY <1>2, <1>4, MailboxChange
    <3>2. CASE docs[c.doc] = None
      BY <1>6, <3>1, <3>2
    <3>3. CASE docs[c.doc] # None
      BY <1>3, <1>6, <3>1, <3>3
    <3>. QED  BY <3>2, <3>3
  <2>2. Pending(a)' = Pending(a)
    BY <1>1, <1>5, PendingChange DEF c
  <2>3. /\ a = c.account => usage'[a] = usage[a] - 1 /\ overErased'[a] = overErased[a] + gone
        /\ a # c.account => usage'[a] = usage[a] /\ overErased'[a] = overErased[a]
    BY <1>1, <1>2 DEF TypeOK, DocType
  <2>. QED  BY <1>6, <2>1, <2>2, <2>3, CountTypes DEF CountsExact, UsageExact
<1>9. ASSUME NEW h \in Hashes PROVE RefsExact(h)'
  <2>0. h # None
    BY MessageStoreAssumption
  <2>1. /\ h = c.blob => Held(h)' = Held(h) - 1 + gone
        /\ h # c.blob => Held(h)' = Held(h)
    <3>1. /\ Held(h) \in Nat
          /\ Held(h)' = Held(h) - (IF docs[c.doc] # None /\ docs[c.doc].blob = h THEN 1 ELSE 0)
      BY <1>2, <1>4, HeldChange
    <3>2. CASE docs[c.doc] = None
      BY <1>6, <3>1, <3>2
    <3>3. CASE docs[c.doc] # None
      BY <1>3, <1>6, <3>1, <3>3
    <3>. QED  BY <3>2, <3>3
  <2>2. /\ h = c.blob => Releasing(h)' = Releasing(h) + 1
        /\ h # c.blob => Releasing(h)' = Releasing(h)
    BY <1>1, <1>5, <2>0, ReleasingChange DEF c
  <2>3. /\ h = c.blob => over'[h] = over[h] + gone
        /\ h # c.blob => over'[h] = over[h]
    BY <1>1, <1>2, <2>0 DEF TypeOK, HistoryType
  <2>. QED  BY <1>1, <1>6, <2>1, <2>2, <2>3, CountTypes DEF CountsExact, RefsExact
<1>10. ASSUME NEW a \in Accounts, NEW h \in Hashes PROVE LinkBelow(a, h)'
  <2>0. h # None /\ (<<a, h>> = <<c.account, c.blob>> <=> a = c.account /\ h = c.blob)
    BY MessageStoreAssumption
  <2>1. HeldBy(a, h)' = HeldBy(a, h) -
          (IF docs[c.doc] # None /\ docs[c.doc].account = a /\ docs[c.doc].blob = h THEN 1 ELSE 0)
    BY <1>2, <1>4, HeldByChange
  <2>2. /\ a = c.account /\ h = c.blob => HeldBy(a, h)' \in {HeldBy(a, h), HeldBy(a, h) - 1}
        /\ ~(a = c.account /\ h = c.blob) => HeldBy(a, h)' = HeldBy(a, h)
    <3>1. HeldBy(a, h) \in Nat
      BY CountTypes
    <3>2. CASE docs[c.doc] = None
      BY <2>1, <3>1, <3>2
    <3>3. CASE docs[c.doc] # None
      BY <1>3, <2>1, <3>1, <3>3
    <3>. QED  BY <3>2, <3>3
  <2>3. /\ a = c.account /\ h = c.blob => Count(links', <<a, h>>) = Count(links, <<a, h>>) - 1
        /\ ~(a = c.account /\ h = c.blob) => Count(links', <<a, h>>) = Count(links, <<a, h>>)
    <3>1. CASE c.blob = None
      BY <1>1, <2>0, <3>1
    <3>2. CASE c.blob # None
      <4>1. Count(links', <<a, h>>) = IF <<a, h>> = <<c.account, c.blob>>
                                      THEN Count(links, <<a, h>>) + (-1) ELSE Count(links, <<a, h>>)
        BY <1>1, <3>2, AddCount
      <4>. QED  BY <2>0, <4>1, CountTypes
    <3>. QED  BY <3>1, <3>2
  <2>. QED  BY <2>2, <2>3, CountTypes DEF CountsExact, LinkBelow
<1>. QED  BY <1>8, <1>9, <1>10 DEF CountsExact

LEMMA ReleaseCounts ==
    ASSUME TypeOK, CountsExact, NEW w \in Workers, Release(w)
    PROVE  CountsExact'
<1>. DEFINE c == worker[w]
<1>1. /\ c.stage = "release" /\ refs' = Add(refs, c.blob, -1) /\ worker' = [worker EXCEPT ![w] = Idle]
      /\ docs' = docs /\ links' = links /\ usage' = usage /\ over' = over
      /\ leaked' = leaked /\ dropped' = dropped /\ overErased' = overErased
  BY DEF Release, history
<1>2. /\ \A v \in Workers : v # w => worker'[v] = worker[v]
      /\ worker'[w].stage = "idle"
  BY <1>1 DEF TypeOK, Idle
<1>. HIDE DEF c
<1>3. ASSUME NEW a \in Accounts PROVE UsageExact(a)'
  <2>1. Pending(a)' = Pending(a)
    BY <1>1, <1>2, PendingChange DEF c
  <2>. QED  BY <1>1, <2>1, DocCountsKept DEF CountsExact, UsageExact
<1>4. ASSUME NEW h \in Hashes PROVE RefsExact(h)'
  <2>1. /\ h = c.blob => Releasing(h)' = Releasing(h) - 1
        /\ h # c.blob => Releasing(h)' = Releasing(h)
    BY <1>1, <1>2, ReleasingChange DEF c
  <2>2. Count(refs', h) = IF h = c.blob THEN Count(refs, h) + (-1) ELSE Count(refs, h)
    BY <1>1, AddCount
  <2>. QED  BY <1>1, <2>1, <2>2, DocCountsKept, CountTypes DEF CountsExact, RefsExact
<1>5. \A a \in Accounts, h \in Hashes : LinkBelow(a, h)'
  BY <1>1, DocCountsKept DEF CountsExact, LinkBelow
<1>. QED  BY <1>3, <1>4, <1>5 DEF CountsExact

(* The release of a call that fails is counted as leaked. *)
LEMMA FailCounts ==
    ASSUME TypeOK, CountsExact, NEW w \in Workers, CallFails(w)
    PROVE  CountsExact'
<1>. DEFINE c == worker[w]
<1>1. /\ refs' = refs /\ worker' = [worker EXCEPT ![w] = Idle]
      /\ docs' = docs /\ links' = links /\ usage' = usage /\ over' = over
      /\ dropped' = dropped /\ overErased' = overErased
      /\ leaked' = IF c.stage = "release" THEN [leaked EXCEPT ![c.blob] = @ + 1] ELSE leaked
  BY DEF CallFails, storeVars
<1>2. /\ \A v \in Workers : v # w => worker'[v] = worker[v]
      /\ worker'[w].stage = "idle"
  BY <1>1 DEF TypeOK, Idle
<1>. HIDE DEF c
<1>3. ASSUME NEW a \in Accounts PROVE UsageExact(a)'
  <2>1. Pending(a) \in Nat /\ Pending(a)' \in Nat /\ Pending(a)' <= Pending(a)
    BY <1>2, PendingChange
  <2>. QED  BY <1>1, <2>1, DocCountsKept, CountTypes DEF CountsExact, UsageExact
<1>4. ASSUME NEW h \in Hashes PROVE RefsExact(h)'
  <2>1. /\ c.stage = "release" /\ c.blob = h => Releasing(h)' = Releasing(h) - 1
        /\ ~(c.stage = "release" /\ c.blob = h) => Releasing(h)' = Releasing(h)
    BY <1>2, ReleasingChange DEF c
  <2>2. /\ c.stage = "release" /\ c.blob = h => leaked'[h] = leaked[h] + 1
        /\ ~(c.stage = "release" /\ c.blob = h) => leaked'[h] = leaked[h]
    BY <1>1 DEF TypeOK, HistoryType
  <2>. QED  BY <1>1, <2>1, <2>2, DocCountsKept, CountTypes DEF CountsExact, RefsExact
<1>5. \A a \in Accounts, h \in Hashes : LinkBelow(a, h)'
  BY <1>1, DocCountsKept DEF CountsExact, LinkBelow
<1>. QED  BY <1>3, <1>4, <1>5 DEF CountsExact

LEMMA CountsCall ==
    ASSUME TypeOK, CountsExact, DocsWrittenOnce, NEW w \in Workers,
           Begin(w) \/ Continue(w) \/ CallFails(w)
    PROVE  CountsExact'
<1>1. CASE BeginUpload(w) \/ LoadData(w) \/ PutUpload(w) \/ Reserve(w) \/ LoadMetadata(w) \/ PutBody(w)
  <2>1. /\ docs' = docs /\ refs' = refs /\ links' = links /\ usage' = usage /\ over' = over
        /\ leaked' = leaked /\ dropped' = dropped /\ overErased' = overErased
        /\ worker[w].stage # "release"
    BY <1>1 DEF BeginUpload, LoadData, PutUpload, Reserve, LoadMetadata, PutBody, storeVars, history, Idle
  <2>2. \A v \in Workers : v # w => worker'[v] = worker[v]
    BY <1>1 DEF TypeOK, BeginUpload, LoadData, PutUpload, Reserve, LoadMetadata, PutBody
  <2>3. CASE BeginUpload(w) \/ LoadData(w) \/ PutUpload(w) \/ Reserve(w) \/ LoadMetadata(w)
    <3>1. worker'[w].stage \in {"idle", "upload", "reserve", "metadata", "erase"}
      BY <2>3 DEF TypeOK, BeginUpload, LoadData, PutUpload, Reserve, LoadMetadata, Idle
    <3>. QED  BY <2>1, <2>2, <3>1, CountsKept
  <2>4. CASE PutBody(w)
    <3>1. worker[w].stage = "put" /\ worker'[w].stage = "file" /\ worker'[w].account = worker[w].account
      BY <2>4 DEF TypeOK, PutBody
    <3>. QED  BY <2>1, <2>2, <3>1, CountsKept
  <2>. QED  BY <1>1, <2>3, <2>4
<1>. QED  BY <1>1, CheckQuotaCounts, FileCounts, EraseCounts, ReleaseCounts, FailCounts DEF Begin, Continue

LEMMA CountsStep ==
    ASSUME TypeOK, CountsExact, DocsWrittenOnce, [Next]_vars
    PROVE  CountsExact'
<1>1. CASE PurgeDead
  <2>1. PICK key : links' = Drop(links, key) \/ links' = links
    BY <1>1 DEF PurgeDead
  <2>2. /\ refs' = refs /\ worker' = worker /\ docs' = docs /\ usage' = usage /\ over' = over
        /\ leaked' = leaked /\ dropped' = dropped /\ overErased' = overErased
    BY <1>1 DEF PurgeDead, history
  <2>3. ASSUME NEW a \in Accounts, NEW h \in Hashes PROVE LinkBelow(a, h)'
    <3>1. Count(links', <<a, h>>) = Count(links, <<a, h>>) \/ Count(links', <<a, h>>) = 0
      BY <2>1, DropCount
    <3>. QED  BY <2>2, <3>1, DocCountsKept, CountTypes DEF CountsExact, LinkBelow
  <2>. QED  BY <2>2, <2>3, DocCountsKept, CallCountsKept DEF CountsExact, UsageExact, RefsExact
<1>2. CASE PurgeKey
  <2>1. /\ dropped' = [dropped EXCEPT ![purge.hash] = @ + Count(refs, purge.hash)]
        /\ refs' = Drop(refs, purge.hash)
        /\ worker' = worker /\ docs' = docs /\ links' = links /\ usage' = usage /\ over' = over
        /\ leaked' = leaked /\ overErased' = overErased
    BY <1>2 DEF PurgeKey
  <2>2. ASSUME NEW h \in Hashes PROVE RefsExact(h)'
    <3>1. Count(refs', h) = IF h = purge.hash THEN 0 ELSE Count(refs, h)
      BY <2>1, DropCount
    <3>2. dropped'[h] = IF h = purge.hash THEN dropped[h] + Count(refs, h) ELSE dropped[h]
      BY <2>1 DEF TypeOK, HistoryType
    <3>. QED  BY <2>1, <3>1, <3>2, DocCountsKept, CallCountsKept, CountTypes DEF CountsExact, RefsExact
  <2>. QED  BY <2>1, <2>2, DocCountsKept, CallCountsKept DEF CountsExact, UsageExact, LinkBelow
<1>3. CASE \/ PurgeScan \/ DeadDone \/ PurgeOrphan \/ PurgeBody \/ OrphansDone \/ PurgeVisit
           \/ WalkDone \/ PurgeStranded \/ SweepDone \/ PurgeFails \/ Tick \/ UNCHANGED vars
  <2>1. /\ refs' = refs /\ worker' = worker /\ docs' = docs /\ usage' = usage /\ over' = over
        /\ leaked' = leaked /\ dropped' = dropped /\ overErased' = overErased /\ links' = links
    BY <1>3 DEF PurgeScan, DeadDone, PurgeOrphan, PurgeBody, OrphansDone, PurgeVisit,
                WalkDone, PurgeStranded, SweepDone, PurgeFails, Tick, vars, storeVars, history
  <2>. QED  BY <2>1, DocCountsKept, CallCountsKept DEF CountsExact, UsageExact, RefsExact, LinkBelow
<1>. QED  BY <1>1, <1>2, <1>3, CountsCall DEF Next, Sweep

----------------------------------------------------------------------------
(* A call's step leaves the other calls alone. *)
LEMMA OtherCalls ==
    ASSUME TypeOK, NEW w \in Workers, Begin(w) \/ Continue(w) \/ CallFails(w)
    PROVE  \A v \in Workers : v # w => worker'[v] = worker[v]
<1>0. worker \in [Workers -> Calls]
  BY DEF TypeOK
<1>1. CASE Begin(w)
  BY <1>0, <1>1 DEF Begin, CheckQuota, BeginUpload, LoadData
<1>2. CASE PutBody(w) \/ PutUpload(w)
  BY <1>0, <1>2 DEF PutBody, PutUpload
<1>3. CASE File(w) \/ Reserve(w) \/ Release(w) \/ CallFails(w)
  BY <1>0, <1>3 DEF File, Reserve, Release, CallFails
<1>4. CASE LoadMetadata(w)
  BY <1>0, <1>4 DEF LoadMetadata
<1>5. CASE Erase(w)
  BY <1>0, <1>5 DEF Erase
<1>. QED  BY <1>1, <1>2, <1>3, <1>4, <1>5 DEF Continue

(* The clocks of the sweep and of the calls are never ahead. *)
LEMMA ClocksStep ==
    ASSUME TypeOK, Clocks, [Next]_vars
    PROVE  Clocks'
<1>0. now \in Nat /\ worker \in [Workers -> Calls] /\ purge.at \in Nat
  BY DEF TypeOK, PurgeType
<1>1. \A v \in Workers : worker[v].stage \in {"file", "reserve"} => worker[v].at \in Nat
  BY <1>0, CallFields
<1>2. ASSUME NEW w \in Workers, Begin(w) \/ Continue(w) \/ CallFails(w)
      PROVE  Clocks'
  <2>1. now' = now /\ purge' = purge
    BY <1>2 DEF Begin, Continue, CallFails, CheckQuota, BeginUpload, LoadData, PutBody, File,
                PutUpload, Reserve, LoadMetadata, Erase, Release
  <2>2. \A v \in Workers : v # w => worker'[v] = worker[v]
    BY <1>2, OtherCalls
  <2>3. worker'[w].stage \in {"file", "reserve"} => worker'[w].at = now
    <3>1. CASE PutBody(w) \/ PutUpload(w)
      BY <1>0, <3>1 DEF PutBody, PutUpload
    <3>2. CASE \/ Begin(w) \/ File(w) \/ Reserve(w) \/ LoadMetadata(w) \/ Erase(w) \/ Release(w)
               \/ CallFails(w)
      BY <1>0, <3>2 DEF Begin, CallFails, CheckQuota, BeginUpload, LoadData, File, Reserve,
                        LoadMetadata, Erase, Release, Idle
    <3>. QED  BY <1>2, <3>1, <3>2 DEF Continue
  <2>. QED  BY <1>0, <2>1, <2>2, <2>3 DEF Clocks
<1>3. ASSUME Sweep \/ PurgeFails \/ Tick \/ UNCHANGED vars
      PROVE  Clocks'
  <2>1. worker' = worker
    BY <1>3 DEF Sweep, PurgeFails, Tick, vars, PurgeScan, PurgeDead, DeadDone, PurgeOrphan, PurgeBody,
                PurgeKey, OrphansDone, PurgeVisit, WalkDone, PurgeStranded, SweepDone
  <2>2. now' \in Nat /\ now <= now'
    <3>1. now' = now \/ now' = now + 1
      BY <1>3 DEF Sweep, PurgeFails, Tick, vars, PurgeScan, PurgeDead, DeadDone, PurgeOrphan,
                  PurgeBody, PurgeKey, OrphansDone, PurgeVisit, WalkDone, PurgeStranded, SweepDone
    <3>. QED  BY <1>0, <3>1
  <2>3. purge'.at \in {0, now, purge.at}
    <3>0. CASE PurgeScan
      <4>1. purge'.at = now
        BY <3>0 DEF PurgeScan, IdlePurge
      <4>. QED  BY <4>1
    <3>1. CASE PurgeFails \/ SweepDone
      BY <3>1 DEF PurgeFails, SweepDone, IdlePurge
    <3>2. CASE \/ PurgeDead \/ DeadDone \/ PurgeOrphan \/ PurgeBody \/ PurgeKey \/ OrphansDone
               \/ PurgeVisit \/ WalkDone \/ PurgeStranded \/ Tick \/ UNCHANGED vars
      BY <3>2 DEF TypeOK, PurgeType, PurgeDead, DeadDone, PurgeOrphan, PurgeBody,
                PurgeKey, OrphansDone, PurgeVisit, WalkDone, PurgeStranded, Tick, vars
    <3>. QED  BY <1>3, <3>0, <3>1, <3>2 DEF Sweep
  <2>. QED  BY <1>0, <1>1, <2>1, <2>2, <2>3 DEF Clocks
<1>. QED  BY <1>2, <1>3 DEF Next

(* A step that takes nothing from a body and adds no one who waits for it. *)
LEMMA BodyFrame ==
    ASSUME NEW h \in Hashes, BodyOK(h),
           Sound(h)' => Sound(h) /\ dropped'[h] = 0,
           Unharmed(h)' => Unharmed(h), h \notin exposed' => h \notin exposed,
           Loose(h) /\ Sound(h)' => Loose(h)',
           \A w \in Workers : FreshFor(w, h)' => FreshFor(w, h) /\ worker'[w].at = worker[w].at,
           Recorded(h)' => Recorded(h), LiveReservation(h)' => LiveReservation(h),
           h \in DOMAIN blobs => h \in DOMAIN blobs' /\ blobs'[h] = blobs[h],
           h \in purge'.orphans => h \in purge.orphans,
           h \in Condemned' => h \in Condemned,
           \/ /\ purge'.at = purge.at /\ purge'.kept = purge.kept
              /\ purge'.phase # "idle" => purge.phase # "idle"
           \/ purge'.phase = "idle" /\ h \notin purge'.orphans
    PROVE  BodyOK(h)'
<1>1. CountKept(h)' /\ BodyPresent(h)' /\ CallKept(h)'
  BY DEF BodyOK, CountKept, BodyPresent, CallKept
<1>2. CondemnedSafe(h)'
  BY DEF BodyOK, CondemnedSafe
<1>3. YoungFor(h) /\ purge'.at = purge.at => YoungFor(h)'
  BY DEF YoungFor
<1>4. OrphanSafe(h)' /\ ReservationSeen(h)'
  BY <1>3 DEF BodyOK, OrphanSafe, ReservationSeen
<1>. QED  BY <1>1, <1>2, <1>4 DEF BodyOK

(* The body is gone: nothing referred to it, and no one waited for it. *)
LEMMA BodyDeleted ==
    ASSUME NEW h \in Hashes, BodyOK(h), h \in Condemned,
           docs' = docs, worker' = worker, reserved' = reserved, now' = now,
           over' = over, leaked' = leaked, dropped' = dropped, exposed' = exposed, stalled' = stalled
    PROVE  BodyOK(h)'
<1>1. /\ Sound(h)' <=> Sound(h)
      /\ Unharmed(h)' <=> Unharmed(h)
      /\ Loose(h)' <=> Loose(h)
      /\ Recorded(h)' <=> Recorded(h)
      /\ LiveReservation(h)' <=> LiveReservation(h)
      /\ \A w \in Workers : FreshFor(w, h)' <=> FreshFor(w, h)
  BY DEF Sound, Unharmed, Loose, Recorded, LiveReservation, FreshFor
<1>2. CondemnedSafe(h) /\ CountKept(h)
  BY DEF BodyOK
<1>3. CountKept(h)' /\ CallKept(h)'
  BY <1>1, <1>2 DEF CountKept, CallKept, CondemnedSafe
<1>4. OrphanSafe(h)' /\ CondemnedSafe(h)'
  BY <1>1, <1>2 DEF OrphanSafe, CondemnedSafe
<1>5. ~(Sound(h) /\ Recorded(h))
  BY <1>2 DEF CondemnedSafe, Loose
<1>6. ReservationSeen(h)' /\ BodyPresent(h)'
  BY <1>1, <1>2, <1>5 DEF ReservationSeen, BodyPresent, CondemnedSafe
<1>. QED  BY <1>3, <1>4, <1>6 DEF BodyOK

(* The verdict: no count, no reservation and no young body speaks for it. *)
LEMMA BodyCondemned ==
    ASSUME TypeOK, Clocks, NEW h \in Hashes, BodyOK(h), Sound(h) => Loose(h), ~YoungFor(h),
           h \notin purge.kept, purge.phase # "idle",
           docs' = docs, worker' = worker, reserved' = reserved, now' = now, blobs' = blobs,
           over' = over, leaked' = leaked, dropped' = dropped, exposed' = exposed, stalled' = stalled
    PROVE  BodyOK(h)'
<1>1. /\ Sound(h)' <=> Sound(h)
      /\ Unharmed(h)' <=> Unharmed(h)
      /\ Loose(h)' <=> Loose(h)
      /\ Recorded(h)' <=> Recorded(h)
      /\ LiveReservation(h)' <=> LiveReservation(h)
      /\ \A w \in Workers : FreshFor(w, h)' <=> FreshFor(w, h)
  BY DEF Sound, Unharmed, Loose, Recorded, LiveReservation, FreshFor
<1>2. /\ CountKept(h) /\ CallKept(h) /\ ReservationSeen(h) /\ BodyPresent(h)
  BY DEF BodyOK
<1>3. Unharmed(h) => ~LiveReservation(h)
  BY <1>2 DEF ReservationSeen
<1>4. h \notin exposed => \A w \in Workers : ~FreshFor(w, h)
  <2>. SUFFICES ASSUME h \notin exposed, NEW w \in Workers, FreshFor(w, h) PROVE FALSE
    OBVIOUS
  <2>1. h \in DOMAIN blobs /\ worker[w].at <= blobs[h]
    BY <1>2 DEF CallKept
  <2>2. worker[w].at \in Nat /\ blobs[h] \in Nat
    <3>1. worker[w] \in Calls /\ worker[w].stage \in {"file", "reserve"}
      BY DEF TypeOK, FreshFor
    <3>. QED  BY <2>1, <3>1, CallFields DEF TypeOK, KeyType, Counters
  <2>3. now \in Nat /\ purge.at \in Nat /\ PurgeGrace \in Nat
    BY MessageStoreAssumption DEF TypeOK, PurgeType
  <2>4. now < worker[w].at + PurgeGrace /\ purge.at <= now
    BY DEF FreshFor, Clocks
  <2>5. purge.at < blobs[h] + PurgeGrace
    BY <2>1, <2>2, <2>3, <2>4
  <2>. QED  BY <2>1, <2>5 DEF YoungFor
<1>5. CountKept(h)' /\ CallKept(h)' /\ BodyPresent(h)'
  BY <1>1, <1>2 DEF CountKept, CallKept, BodyPresent
<1>6. CondemnedSafe(h)' /\ OrphanSafe(h)' /\ ReservationSeen(h)'
  BY <1>1, <1>3, <1>4 DEF CondemnedSafe, OrphanSafe, ReservationSeen
<1>. QED  BY <1>5, <1>6 DEF BodyOK

(* The body is stored again: it is young, and exposed if it was condemned. *)
LEMMA BodyStored ==
    ASSUME TypeOK, Clocks, NEW h \in Hashes, BodyOK(h), NEW w \in Workers,
           h \in DOMAIN blobs', blobs'[h] = now,
           h \in Condemned => h \in exposed', exposed \subseteq exposed',
           \A v \in Workers : v # w => worker'[v] = worker[v],
           worker[w].stage # "release", worker'[w].stage # "release",
           worker'[w].stage \in {"file", "reserve"} => worker'[w].at = now,
           docs' = docs, reserved' = reserved, now' = now, purge' = purge,
           over' = over, leaked' = leaked, dropped' = dropped, stalled' = stalled
    PROVE  BodyOK(h)'
<1>1. /\ Sound(h)' => Sound(h)
      /\ Unharmed(h)' => Unharmed(h)
      /\ Condemned' = Condemned
      /\ h \in Condemned => ~Unharmed(h)' /\ ~Sound(h)'
  BY DEF Sound, Unharmed, Condemned
<1>2. CountKept(h)' /\ BodyPresent(h)' /\ CondemnedSafe(h)'
  BY <1>1 DEF BodyOK, CountKept, BodyPresent, CondemnedSafe
<1>3. YoungFor(h)'
  <2>1. now \in Nat /\ purge.at \in Nat /\ PurgeGrace \in Nat \ {0} /\ purge.at <= now
    BY MessageStoreAssumption DEF TypeOK, PurgeType, Clocks
  <2>. QED  BY <2>1 DEF YoungFor
<1>4. OrphanSafe(h)' /\ ReservationSeen(h)'
  BY <1>3 DEF OrphanSafe, ReservationSeen
<1>5. CallKept(h)'
  <2>1. \A v \in Workers : worker'[v].stage \in {"file", "reserve"} => worker'[v].at <= now
    BY DEF Clocks, TypeOK
  <2>. QED  BY <2>1 DEF CallKept, FreshFor
<1>. QED  BY <1>2, <1>4, <1>5 DEF BodyOK

(* A call moves on, and h is not the body it has stored. *)
LEMMA BodyCallFrame ==
    ASSUME NEW h \in Hashes, BodyOK(h), NEW w \in Workers,
           \A v \in Workers : v # w => worker'[v] = worker[v],
           worker'[w].stage \in {"file", "reserve"} => worker'[w].blob # h,
           purge' = purge, now' = now, dropped' = dropped,
           h \in DOMAIN blobs => h \in DOMAIN blobs' /\ blobs'[h] = blobs[h],
           Sound(h)' => Sound(h), Unharmed(h)' => Unharmed(h), h \notin exposed' => h \notin exposed,
           Loose(h) /\ Sound(h)' => Loose(h)',
           Recorded(h)' => Recorded(h), LiveReservation(h)' => LiveReservation(h)
    PROVE  BodyOK(h)'
<1>1. Sound(h)' => Sound(h) /\ dropped'[h] = 0
  BY DEF BodyOK, CountKept
<1>2. \A v \in Workers : FreshFor(v, h)' => FreshFor(v, h) /\ worker'[v].at = worker[v].at
  BY DEF FreshFor
<1>3. Condemned' = Condemned
  BY DEF Condemned
<1>. QED  BY <1>1, <1>2, <1>3, BodyFrame

LEMMA BeginBody ==
    ASSUME TypeOK, NEW h \in Hashes, BodyOK(h), NEW w \in Workers, Begin(w) \/ LoadMetadata(w)
    PROVE  BodyOK(h)'
<1>1. /\ docs' = docs /\ blobs' = blobs /\ reserved' = reserved /\ purge' = purge /\ now' = now
      /\ over' = over /\ leaked' = leaked /\ dropped' = dropped /\ exposed' = exposed /\ stalled' = stalled
  BY DEF Begin, CheckQuota, BeginUpload, LoadData, LoadMetadata, storeVars, history
<1>2. \A v \in Workers : v # w => worker'[v] = worker[v]
  BY OtherCalls DEF Continue
<1>3. worker'[w].stage \in {"put", "upload", "metadata", "erase"}
  <2>1. worker \in [Workers -> Calls]
    BY DEF TypeOK
  <2>. QED  BY <2>1 DEF Begin, CheckQuota, BeginUpload, LoadData, LoadMetadata
<1>4. Loose(h) => Loose(h)'
  BY <1>1, <1>2, <1>3 DEF Loose, Recorded
<1>5. /\ Sound(h)' <=> Sound(h)
      /\ Unharmed(h)' <=> Unharmed(h)
      /\ Recorded(h)' <=> Recorded(h)
      /\ LiveReservation(h)' <=> LiveReservation(h)
  BY <1>1 DEF Sound, Unharmed, Recorded, LiveReservation
<1>. QED  BY <1>1, <1>2, <1>3, <1>4, <1>5, BodyCallFrame

LEMMA PutBodies ==
    ASSUME TypeOK, Clocks, NEW h \in Hashes, BodyOK(h), NEW w \in Workers, PutBody(w) \/ PutUpload(w)
    PROVE  BodyOK(h)'
<1>. DEFINE c == worker[w]
<1>1. /\ docs' = docs /\ reserved' = reserved /\ purge' = purge /\ now' = now
      /\ over' = over /\ leaked' = leaked /\ dropped' = dropped /\ stalled' = stalled
      /\ blobs' = Put(blobs, c.blob, now)
      /\ exposed' = exposed \cup ({c.blob} \cap Condemned)
  BY DEF PutBody, PutUpload, storeVars, Touched
<1>2. \A v \in Workers : v # w => worker'[v] = worker[v]
  BY OtherCalls DEF Continue
<1>3. /\ c.stage \in {"put", "upload"} /\ worker'[w].stage \in {"file", "reserve"}
      /\ worker'[w].at = now /\ worker'[w].blob = c.blob
  <2>1. worker \in [Workers -> Calls]
    BY DEF TypeOK
  <2>. QED  BY <2>1 DEF PutBody, PutUpload
<1>. HIDE DEF c
<1>4. CASE h = c.blob
  <2>1. h \in DOMAIN blobs' /\ blobs'[h] = now
    BY <1>1, <1>4 DEF Put
  <2>2. (h \in Condemned => h \in exposed') /\ exposed \subseteq exposed'
    BY <1>1, <1>4
  <2>. QED  BY <1>1, <1>2, <1>3, <2>1, <2>2, BodyStored DEF c
<1>5. CASE h # c.blob
  <2>1. h \in DOMAIN blobs => h \in DOMAIN blobs' /\ blobs'[h] = blobs[h]
    BY <1>1, <1>5 DEF Put
  <2>2. Loose(h) => Loose(h)'
    BY <1>1, <1>2, <1>3 DEF Loose, Recorded
  <2>3. /\ Sound(h)' <=> Sound(h)
        /\ Unharmed(h)' <=> Unharmed(h)
        /\ Recorded(h)' <=> Recorded(h)
        /\ LiveReservation(h)' <=> LiveReservation(h)
        /\ h \notin exposed' <=> h \notin exposed
    BY <1>1, <1>5 DEF Sound, Unharmed, Recorded, LiveReservation
  <2>. QED  BY <1>1, <1>2, <1>3, <1>5, <2>1, <2>2, <2>3, BodyCallFrame
<1>. QED  BY <1>4, <1>5

(* A fresh call's body is there and young, and the sweep has not condemned it. *)
LEMMA FreshBody ==
    ASSUME TypeOK, Clocks, NEW w \in Workers, NEW h \in Hashes, BodyOK(h), FreshFor(w, h), h \notin exposed
    PROVE  h \in DOMAIN blobs /\ YoungFor(h) /\ h \notin Condemned
<1>1. h \in DOMAIN blobs /\ worker[w].at <= blobs[h] /\ h \notin Condemned
  BY DEF BodyOK, CallKept, CondemnedSafe
<1>2. worker[w].at \in Nat /\ blobs[h] \in Nat
  <2>1. worker[w] \in Calls /\ worker[w].stage \in {"file", "reserve"}
    BY DEF TypeOK, FreshFor
  <2>. QED  BY <1>1, <2>1, CallFields DEF TypeOK, KeyType, Counters
<1>3. now \in Nat /\ purge.at \in Nat /\ PurgeGrace \in Nat
  BY MessageStoreAssumption DEF TypeOK, PurgeType
<1>4. now < worker[w].at + PurgeGrace /\ purge.at <= now
  BY DEF FreshFor, Clocks
<1>5. purge.at < blobs[h] + PurgeGrace
  BY <1>1, <1>2, <1>3, <1>4
<1>. QED  BY <1>1, <1>5 DEF YoungFor

(* The call commits, with a record or a reservation of its body. *)
LEMMA BodyCommitted ==
    ASSUME TypeOK, Clocks, NEW h \in Hashes, BodyOK(h), NEW w \in Workers,
           worker[w].stage \in {"file", "reserve"}, worker[w].blob = h, worker'[w].stage = "idle",
           \A v \in Workers : v # w => worker'[v] = worker[v],
           stalled' = IF worker[w].at + PurgeGrace <= now THEN stalled \cup {h} ELSE stalled,
           blobs' = blobs, purge' = purge, now' = now,
           over' = over, leaked' = leaked, dropped' = dropped, exposed' = exposed
    PROVE  BodyOK(h)'
<1>1. /\ Sound(h)' => Sound(h)
      /\ Unharmed(h)' => Unharmed(h)
      /\ \A v \in Workers : FreshFor(v, h)' => FreshFor(v, h) /\ worker'[v].at = worker[v].at
      /\ Condemned' = Condemned
      /\ YoungFor(h)' <=> YoungFor(h)
  BY DEF Sound, Unharmed, FreshFor, Condemned, YoungFor
<1>2. CountKept(h)' /\ CallKept(h)'
  BY <1>1 DEF BodyOK, CountKept, CallKept
<1>3. CASE h \in exposed
  <2>1. ~Sound(h)' /\ ~Unharmed(h)' /\ h \in exposed'
    BY <1>3 DEF Sound, Unharmed
  <2>. QED  BY <1>2, <2>1 DEF BodyOK, OrphanSafe, CondemnedSafe, ReservationSeen, BodyPresent
<1>4. CASE h \notin exposed /\ worker[w].at + PurgeGrace <= now
  <2>1. ~Sound(h)' /\ ~Unharmed(h)'
    BY <1>4 DEF Sound, Unharmed
  <2>2. CondemnedSafe(h)'
    BY <1>1, <2>1 DEF BodyOK, CondemnedSafe
  <2>. QED  BY <1>2, <2>1, <2>2 DEF BodyOK, OrphanSafe, ReservationSeen, BodyPresent
<1>5. CASE h \notin exposed /\ ~(worker[w].at + PurgeGrace <= now)
  <2>1. FreshFor(w, h)
    <3>1. worker[w].at \in Nat /\ now \in Nat /\ PurgeGrace \in Nat
      BY CallFields, MessageStoreAssumption DEF TypeOK
    <3>. QED  BY <1>5, <3>1 DEF FreshFor
  <2>2. h \in DOMAIN blobs' /\ YoungFor(h)' /\ h \notin Condemned'
    BY <1>1, <1>5, <2>1, FreshBody
  <2>. QED  BY <1>2, <2>2 DEF BodyOK, OrphanSafe, CondemnedSafe, ReservationSeen, BodyPresent
<1>. QED  BY <1>3, <1>4, <1>5

LEMMA FileBody ==
    ASSUME TypeOK, Clocks, NEW h \in Hashes, BodyOK(h), NEW w \in Workers, File(w)
    PROVE  BodyOK(h)'
<1>. DEFINE c == worker[w]
<1>1. /\ blobs' = blobs /\ reserved' = reserved /\ purge' = purge /\ now' = now
      /\ over' = over /\ leaked' = leaked /\ dropped' = dropped /\ exposed' = exposed
      /\ stalled' = (IF c.at + PurgeGrace <= now THEN stalled \cup {c.blob} ELSE stalled)
      /\ docs' = [docs EXCEPT ![c.doc] = [account |-> c.account, blob |-> c.blob]]
      /\ c.stage = "file" /\ worker' = [worker EXCEPT ![w] = Idle]
  BY DEF File
<1>2. /\ \A v \in Workers : v # w => worker'[v] = worker[v]
      /\ worker'[w].stage = "idle"
  BY <1>1 DEF TypeOK, Idle
<1>3. c.doc \in Docs
  BY <1>1, CallFields DEF TypeOK
<1>4. \A d \in Docs : docs'[d] = docs[d] \/ docs'[d].blob = c.blob
  BY <1>1, <1>3 DEF TypeOK, DocType
<1>. HIDE DEF c
<1>5. CASE h = c.blob
  BY <1>1, <1>2, <1>5, BodyCommitted DEF c
<1>6. CASE h # c.blob
  <2>1. /\ Sound(h)' <=> Sound(h)
        /\ Unharmed(h)' <=> Unharmed(h)
        /\ LiveReservation(h)' <=> LiveReservation(h)
        /\ Recorded(h)' => Recorded(h)
    BY <1>1, <1>4, <1>6 DEF Sound, Unharmed, Recorded, LiveReservation
  <2>2. Loose(h) => Loose(h)'
    BY <1>1, <1>2, <2>1 DEF Loose
  <2>. QED  BY <1>1, <1>2, <2>1, <2>2, BodyCallFrame
<1>. QED  BY <1>5, <1>6

LEMMA ReserveBody ==
    ASSUME TypeOK, Clocks, NEW h \in Hashes, BodyOK(h), NEW w \in Workers, Reserve(w)
    PROVE  BodyOK(h)'
<1>. DEFINE c == worker[w]
            key == <<c.account, c.blob>>
<1>1. /\ blobs' = blobs /\ docs' = docs /\ purge' = purge /\ now' = now
      /\ over' = over /\ leaked' = leaked /\ dropped' = dropped /\ exposed' = exposed
      /\ stalled' = (IF c.at + PurgeGrace <= now THEN stalled \cup {c.blob} ELSE stalled)
      /\ reserved' = Put(reserved, key, c.begun + ReservationTtl)
      /\ c.stage = "reserve" /\ worker' = [worker EXCEPT ![w] = Idle]
  BY DEF Reserve, storeVars
<1>2. /\ \A v \in Workers : v # w => worker'[v] = worker[v]
      /\ worker'[w].stage = "idle"
  BY <1>1 DEF TypeOK, Idle
<1>3. key[2] = c.blob
  OBVIOUS
<1>. HIDE DEF c, key
<1>4. CASE h = c.blob
  BY <1>1, <1>2, <1>4, BodyCommitted DEF c
<1>5. CASE h # c.blob
  <2>1. \A k \in DOMAIN reserved' : k[2] = h => k \in DOMAIN reserved /\ reserved'[k] = reserved[k]
    BY <1>1, <1>3, <1>5 DEF Put
  <2>2. LiveReservation(h)' => LiveReservation(h)
    BY <1>1, <2>1 DEF LiveReservation
  <2>3. /\ Sound(h)' <=> Sound(h)
        /\ Unharmed(h)' <=> Unharmed(h)
        /\ Recorded(h)' <=> Recorded(h)
    BY <1>1, <1>5 DEF Sound, Unharmed, Recorded
  <2>4. Loose(h) => Loose(h)'
    BY <1>1, <1>2, <2>3 DEF Loose
  <2>. QED  BY <1>1, <1>2, <2>2, <2>3, <2>4, BodyCallFrame
<1>. QED  BY <1>4, <1>5

(* The body of a record that is still there is not loose: a deletion that     *)
(* finds it so comes second, and counts as over.                              *)
LEMMA EraseBody ==
    ASSUME TypeOK, DocsWrittenOnce, NEW h \in Hashes, BodyOK(h), NEW w \in Workers, Erase(w)
    PROVE  BodyOK(h)'
<1>. DEFINE c == worker[w]
            gone == IF docs[c.doc] = None THEN 1 ELSE 0
<1>1. /\ blobs' = blobs /\ reserved' = reserved /\ purge' = purge /\ now' = now
      /\ leaked' = leaked /\ dropped' = dropped /\ exposed' = exposed /\ stalled' = stalled
      /\ c.stage = "erase" /\ docs' = [docs EXCEPT ![c.doc] = None]
      /\ \/ c.blob = None /\ worker' = [worker EXCEPT ![w] = Idle] /\ over' = over
         \/ /\ c.blob # None /\ over' = [over EXCEPT ![c.blob] = @ + gone]
            /\ worker' = [worker EXCEPT ![w] = [stage |-> "release", account |-> c.account,
                            blob |-> c.blob]]
  BY DEF Erase
<1>2. c.doc \in Docs /\ h # None
  BY <1>1, CallFields, MessageStoreAssumption DEF TypeOK
<1>3. docs[c.doc] # None => docs[c.doc].blob = c.blob
  BY <1>1 DEF DocsWrittenOnce
<1>4. \A d \in Docs : docs'[d] = docs[d] \/ docs'[d] = None
  BY <1>1 DEF TypeOK, DocType
<1>5. /\ \A v \in Workers : v # w => worker'[v] = worker[v]
      /\ worker'[w].stage \in {"idle", "release"}
      /\ worker'[w].stage = "release" => worker'[w].blob = c.blob
  BY <1>1 DEF TypeOK, Idle
<1>6. over[h] \in Nat
  BY DEF TypeOK, HistoryType
<1>7. over'[h] = over[h] \/ (h = c.blob /\ over'[h] = over[h] + gone)
  BY <1>1 DEF TypeOK, HistoryType
<1>8. /\ Sound(h)' => Sound(h)
      /\ docs[c.doc] = None /\ h = c.blob => ~Sound(h)'
  <2>1. h = c.blob => over'[h] = over[h] + gone
    BY <1>1, <1>2 DEF TypeOK, HistoryType
  <2>. QED  BY <1>1, <1>6, <1>7, <2>1 DEF Sound, Unharmed
<1>. HIDE DEF c, gone
<1>9. /\ Unharmed(h)' <=> Unharmed(h)
      /\ LiveReservation(h)' <=> LiveReservation(h)
      /\ Recorded(h)' => Recorded(h)
  BY <1>1, <1>4 DEF Unharmed, Recorded, LiveReservation
<1>10. Loose(h) /\ Sound(h)' => Loose(h)'
  <2>1. CASE h = c.blob
    <3>1. Loose(h) => docs[c.doc] = None
      BY <1>2, <1>3, <2>1 DEF Loose, Recorded
    <3>. QED  BY <1>8, <2>1, <3>1
  <2>2. CASE h # c.blob
    BY <1>1, <1>5, <1>9, <2>2 DEF Loose
  <2>. QED  BY <2>1, <2>2
<1>. QED  BY <1>1, <1>5, <1>8, <1>9, <1>10, BodyCallFrame

LEMMA ReleaseBody ==
    ASSUME TypeOK, NEW h \in Hashes, BodyOK(h), NEW w \in Workers, Release(w) \/ CallFails(w)
    PROVE  BodyOK(h)'
<1>. DEFINE c == worker[w]
<1>1. /\ docs' = docs /\ blobs' = blobs /\ reserved' = reserved /\ purge' = purge /\ now' = now
      /\ over' = over /\ dropped' = dropped /\ exposed' = exposed /\ stalled' = stalled
      /\ \/ leaked' = leaked
         \/ c.stage = "release" /\ leaked' = [leaked EXCEPT ![c.blob] = @ + 1]
      /\ worker' = [worker EXCEPT ![w] = Idle]
  BY DEF Release, CallFails, storeVars, history
<1>2. /\ \A v \in Workers : v # w => worker'[v] = worker[v]
      /\ worker'[w].stage = "idle"
  BY <1>1 DEF TypeOK, Idle
<1>3. /\ Sound(h)' <=> Sound(h)
      /\ Unharmed(h)' <=> Unharmed(h)
      /\ Recorded(h)' <=> Recorded(h)
      /\ LiveReservation(h)' <=> LiveReservation(h)
  BY <1>1 DEF Sound, Unharmed, Recorded, LiveReservation
<1>4. Loose(h) => Loose(h)'
  <2>1. Loose(h) => leaked'[h] = leaked[h]
    BY <1>1 DEF Loose, TypeOK, HistoryType
  <2>. QED  BY <1>2, <1>3, <2>1 DEF Loose
<1>. QED  BY <1>1, <1>2, <1>3, <1>4, BodyCallFrame

----------------------------------------------------------------------------
(* Nothing refers to a body exactly when its count says so. *)
LEMMA CountLoose ==
    ASSUME TypeOK, NEW h \in Hashes, RefsExact(h), Sound(h), dropped[h] = 0
    PROVE  Loose(h) <=> Count(refs, h) <= 0
<1>. DEFINE S == {d \in Docs : docs[d] # None /\ docs[d].blob = h}
            T == {w \in Workers : worker[w].stage = "release" /\ worker[w].blob = h}
<1>1. Cardinality(S) \in Nat /\ (Cardinality(S) = 0 <=> S = {})
  BY DocsFinite, FS_EmptySet
<1>2. Cardinality(T) \in Nat /\ (Cardinality(T) = 0 <=> T = {})
  BY WorkersFinite, FS_EmptySet
<1>3. S = {} <=> ~Recorded(h)
  BY DEF Recorded
<1>4. T = {} <=> \A w \in Workers : worker[w].stage = "release" => worker[w].blob # h
  OBVIOUS
<1>5. Count(refs, h) = Cardinality(S) + Cardinality(T) + leaked[h]
  <2>1. Count(refs, h) = Cardinality(S) + Cardinality(T) + leaked[h] - over[h] - dropped[h]
    BY DEF RefsExact, Held, Releasing
  <2>. HIDE DEF S, T
  <2>. QED  BY <1>1, <1>2, <2>1, CountTypes DEF Sound
<1>6. leaked[h] \in Nat
  BY CountTypes
<1>. HIDE DEF S, T
<1>7. Count(refs, h) <= 0 <=> S = {} /\ T = {} /\ leaked[h] = 0
  BY <1>1, <1>2, <1>5, <1>6
<1>. QED  BY <1>3, <1>4, <1>7 DEF Loose

(* The sweep moves on, with no new verdict on h. *)
LEMMA BodySweepFrame ==
    ASSUME NEW h \in Hashes, BodyOK(h),
           docs' = docs, worker' = worker, now' = now,
           over' = over, leaked' = leaked, exposed' = exposed, stalled' = stalled,
           Sound(h) => dropped'[h] = dropped[h],
           LiveReservation(h)' => LiveReservation(h),
           h \in DOMAIN blobs => h \in DOMAIN blobs' /\ blobs'[h] = blobs[h],
           h \in purge'.orphans => h \in purge.orphans,
           h \in Condemned' => h \in Condemned,
           \/ purge'.at = purge.at /\ purge'.kept = purge.kept /\ purge.phase # "idle"
           \/ purge'.phase = "idle" /\ h \notin purge'.orphans
    PROVE  BodyOK(h)'
<1>1. /\ Sound(h)' <=> Sound(h)
      /\ Unharmed(h)' <=> Unharmed(h)
      /\ Loose(h)' <=> Loose(h)
      /\ Recorded(h)' <=> Recorded(h)
      /\ \A w \in Workers : FreshFor(w, h)' <=> FreshFor(w, h)
  BY DEF Sound, Unharmed, Loose, Recorded, FreshFor
<1>2. Sound(h)' => Sound(h) /\ dropped'[h] = 0
  BY <1>1 DEF BodyOK, CountKept
<1>. QED  BY <1>1, <1>2, BodyFrame

(* The scan sees every live reservation, and every orphan is loose. *)
LEMMA ScanBody ==
    ASSUME TypeOK, CountsExact, NEW h \in Hashes, BodyOK(h), PurgeScan
    PROVE  BodyOK(h)'
<1>0. KeyType /\ h # None
  BY MessageStoreAssumption DEF TypeOK
<1>1. /\ docs' = docs /\ worker' = worker /\ now' = now /\ blobs' = blobs /\ reserved' = reserved
      /\ over' = over /\ leaked' = leaked /\ dropped' = dropped /\ exposed' = exposed /\ stalled' = stalled
  BY DEF PurgeScan, storeVars, history
<1>2. /\ purge'.hash = None /\ purge'.stranded = {}
      /\ purge'.kept = {g \in Hashes : \E a \in Accounts : Count(reserved, <<a, g>>) > now}
      /\ purge'.orphans = {g \in DOMAIN refs : refs[g] <= 0}
  BY DEF PurgeScan, IdlePurge
<1>3. /\ Sound(h)' <=> Sound(h)
      /\ Unharmed(h)' <=> Unharmed(h)
      /\ Loose(h)' <=> Loose(h)
      /\ Recorded(h)' <=> Recorded(h)
      /\ LiveReservation(h)' <=> LiveReservation(h)
      /\ \A w \in Workers : FreshFor(w, h)' <=> FreshFor(w, h)
  BY <1>1 DEF Sound, Unharmed, Loose, Recorded, FreshFor, LiveReservation
<1>4. CountKept(h)' /\ CallKept(h)' /\ BodyPresent(h)'
  BY <1>1, <1>3 DEF BodyOK, CountKept, CallKept, BodyPresent
<1>5. CondemnedSafe(h)'
  <2>1. h \notin Condemned'
    BY <1>0, <1>2 DEF Condemned
  <2>. QED  BY <2>1 DEF CondemnedSafe
<1>6. OrphanSafe(h)'
  <2>. SUFFICES ASSUME h \in purge'.orphans, Sound(h) PROVE Loose(h)
    BY <1>3 DEF OrphanSafe
  <2>1. Count(refs, h) <= 0
    BY <1>2 DEF Count
  <2>2. RefsExact(h) /\ dropped[h] = 0
    BY DEF CountsExact, BodyOK, CountKept
  <2>. QED  BY <2>1, <2>2, CountLoose
<1>7. ReservationSeen(h)'
  <2>. SUFFICES ASSUME LiveReservation(h) PROVE h \in purge'.kept
    BY <1>3 DEF ReservationSeen
  <2>1. PICK k \in DOMAIN reserved : k[2] = h /\ now < reserved[k]
    BY DEF LiveReservation
  <2>2. k \in Accounts \X Hashes
    BY <1>0 DEF KeyType, Counters
  <2>3. k = <<k[1], h>> /\ k[1] \in Accounts
    BY <2>1, <2>2
  <2>4. Count(reserved, <<k[1], h>>) = reserved[k]
    BY <2>1, <2>3 DEF Count
  <2>5. reserved[k] \in Nat /\ now \in Nat
    BY <1>0 DEF KeyType, Counters, TypeOK
  <2>6. Count(reserved, <<k[1], h>>) > now
    BY <2>1, <2>4, <2>5
  <2>. QED  BY <1>2, <2>3, <2>6
<1>. QED  BY <1>4, <1>5, <1>6, <1>7 DEF BodyOK

(* Dead keys go; the phases follow each other; a sweep ends. *)
LEMMA PhaseBody ==
    ASSUME TypeOK, NEW h \in Hashes, BodyOK(h),
           PurgeDead \/ DeadDone \/ OrphansDone \/ WalkDone \/ SweepDone \/ PurgeFails
    PROVE  BodyOK(h)'
<1>0. PurgeType /\ h # None
  BY MessageStoreAssumption DEF TypeOK
<1>1. /\ docs' = docs /\ worker' = worker /\ now' = now /\ blobs' = blobs
      /\ over' = over /\ leaked' = leaked /\ dropped' = dropped /\ exposed' = exposed /\ stalled' = stalled
  BY DEF PurgeDead, DeadDone, OrphansDone, WalkDone, SweepDone, PurgeFails, storeVars, history
<1>2. LiveReservation(h)' => LiveReservation(h)
  <2>1. CASE PurgeDead
    <3>1. PICK key : reserved' = Drop(reserved, key) \/ reserved' = reserved
      BY <2>1 DEF PurgeDead
    <3>. QED  BY <1>1, <3>1 DEF LiveReservation, Drop
  <2>2. CASE DeadDone \/ OrphansDone \/ WalkDone \/ SweepDone \/ PurgeFails
    <3>1. reserved' = reserved
      BY <2>2 DEF DeadDone, OrphansDone, WalkDone, SweepDone, PurgeFails
    <3>. QED  BY <1>1, <3>1 DEF LiveReservation
  <2>. QED  BY <2>1, <2>2
<1>3. CASE SweepDone \/ PurgeFails
  <2>1. purge' = IdlePurge
    BY <1>3 DEF SweepDone, PurgeFails
  <2>2. h \notin purge'.orphans /\ h \notin Condemned' /\ purge'.phase = "idle"
    BY <1>0, <2>1 DEF IdlePurge, Condemned
  <2>. QED  BY <1>1, <1>2, <2>2, BodySweepFrame
<1>4. CASE PurgeDead \/ DeadDone \/ OrphansDone \/ WalkDone
  <2>1. /\ purge'.at = purge.at /\ purge'.kept = purge.kept /\ purge.phase # "idle"
        /\ purge'.orphans = purge.orphans /\ purge'.hash = purge.hash
        /\ purge'.stranded = purge.stranded
    BY <1>0, <1>4 DEF PurgeType, PurgeDead, DeadDone, OrphansDone, WalkDone
  <2>2. Condemned' = Condemned
    BY <2>1 DEF Condemned
  <2>. QED  BY <1>1, <1>2, <2>1, <2>2, BodySweepFrame
<1>. QED  BY <1>3, <1>4

LEMMA OrphanBody ==
    ASSUME TypeOK, Clocks, NEW h \in Hashes, BodyOK(h), PurgeOrphan
    PROVE  BodyOK(h)'
<1>0. PurgeType /\ h # None
  BY MessageStoreAssumption DEF TypeOK
<1>1. /\ docs' = docs /\ worker' = worker /\ now' = now /\ blobs' = blobs /\ reserved' = reserved
      /\ over' = over /\ leaked' = leaked /\ dropped' = dropped /\ exposed' = exposed /\ stalled' = stalled
  BY DEF PurgeOrphan, storeVars, history
<1>2. PICK g \in purge.orphans :
        purge' = IF g \in purge.kept \/ YoungFor(g)
                 THEN [purge EXCEPT !.orphans = @ \ {g}]
                 ELSE [purge EXCEPT !.orphans = @ \ {g}, !.phase = "body", !.hash = g]
  BY DEF PurgeOrphan
<1>3. /\ purge'.at = purge.at /\ purge'.kept = purge.kept /\ purge.phase = "orphans"
      /\ purge'.orphans \subseteq purge.orphans /\ purge'.stranded = purge.stranded
      /\ purge'.hash \in {purge.hash, g}
  BY <1>0, <1>2 DEF PurgeType, PurgeOrphan
<1>4. CASE h = g /\ ~(g \in purge.kept \/ YoungFor(g))
  <2>1. Sound(h) => Loose(h)
    BY <1>4 DEF BodyOK, OrphanSafe
  <2>. QED  BY <1>1, <1>3, <1>4, <2>1, BodyCondemned
<1>5. CASE h # g \/ g \in purge.kept \/ YoungFor(g)
  <2>1. h \in Condemned' => h \in Condemned
    <3>1. purge'.hash = h => purge.hash = h
      BY <1>0, <1>2, <1>5 DEF PurgeType
    <3>. QED  BY <1>3, <3>1 DEF Condemned
  <2>2. LiveReservation(h)' <=> LiveReservation(h)
    BY <1>1 DEF LiveReservation
  <2>. QED  BY <1>1, <1>3, <2>1, <2>2, BodySweepFrame
<1>. QED  BY <1>4, <1>5

LEMMA DeleteBody ==
    ASSUME TypeOK, NEW h \in Hashes, BodyOK(h), PurgeBody \/ PurgeStranded
    PROVE  BodyOK(h)'
<1>0. PurgeType /\ h # None
  BY MessageStoreAssumption DEF TypeOK
<1>1. /\ docs' = docs /\ worker' = worker /\ now' = now /\ reserved' = reserved
      /\ over' = over /\ leaked' = leaked /\ dropped' = dropped /\ exposed' = exposed /\ stalled' = stalled
  BY DEF PurgeBody, PurgeStranded, storeVars, history
<1>2. PICK g \in Condemned : blobs' = Drop(blobs, g)
  BY <1>0 DEF PurgeBody, PurgeStranded, Condemned, PurgeType
<1>3. /\ purge'.at = purge.at /\ purge'.kept = purge.kept /\ purge.phase # "idle"
      /\ purge'.orphans = purge.orphans /\ purge'.stranded \subseteq purge.stranded
      /\ purge'.hash = purge.hash
  BY <1>0 DEF PurgeType, PurgeBody, PurgeStranded
<1>4. CASE h = g
  BY <1>1, <1>2, <1>4, BodyDeleted
<1>5. CASE h # g
  <2>1. h \in DOMAIN blobs => h \in DOMAIN blobs' /\ blobs'[h] = blobs[h]
    BY <1>2, <1>5 DEF Drop
  <2>2. h \in Condemned' => h \in Condemned
    BY <1>3 DEF Condemned
  <2>3. LiveReservation(h)' <=> LiveReservation(h)
    BY <1>1 DEF LiveReservation
  <2>. QED  BY <1>1, <1>3, <2>1, <2>2, <2>3, BodySweepFrame
<1>. QED  BY <1>4, <1>5

(* The count thrown away with the key of a sound body is nought. *)
LEMMA KeyBody ==
    ASSUME TypeOK, CountsExact, NEW h \in Hashes, BodyOK(h), PurgeKey
    PROVE  BodyOK(h)'
<1>0. PurgeType /\ h # None
  BY MessageStoreAssumption DEF TypeOK
<1>1. /\ docs' = docs /\ worker' = worker /\ now' = now /\ reserved' = reserved /\ blobs' = blobs
      /\ over' = over /\ leaked' = leaked /\ exposed' = exposed /\ stalled' = stalled
      /\ dropped' = [dropped EXCEPT ![purge.hash] = @ + Count(refs, purge.hash)]
  BY DEF PurgeKey
<1>2. /\ purge'.at = purge.at /\ purge'.kept = purge.kept /\ purge.phase # "idle"
      /\ purge'.orphans = purge.orphans /\ purge'.stranded = purge.stranded
      /\ purge'.hash = None
  BY <1>0 DEF PurgeType, PurgeKey
<1>3. Sound(h) => dropped'[h] = dropped[h]
  <2>. SUFFICES ASSUME Sound(h), h = purge.hash PROVE dropped'[h] = dropped[h]
    BY <1>1 DEF TypeOK, HistoryType
  <2>1. Loose(h) /\ dropped[h] = 0 /\ RefsExact(h)
    BY DEF BodyOK, CondemnedSafe, Condemned, CountKept, CountsExact
  <2>2. Count(refs, h) <= 0
    BY <2>1, CountLoose
  <2>3. Count(refs, h) = Held(h) + Releasing(h) + leaked[h]
    BY <2>1, CountTypes DEF RefsExact, Sound
  <2>4. Count(refs, h) = 0
    BY <2>2, <2>3, CountTypes
  <2>. QED  BY <1>1, <2>1, <2>4 DEF TypeOK, HistoryType
<1>4. h \in Condemned' => h \in Condemned
  BY <1>0, <1>2 DEF Condemned
<1>5. LiveReservation(h)' <=> LiveReservation(h)
  BY <1>1 DEF LiveReservation
<1>. QED  BY <1>1, <1>2, <1>3, <1>4, <1>5, BodySweepFrame

LEMMA VisitBody ==
    ASSUME TypeOK, CountsExact, Clocks, NEW h \in Hashes, BodyOK(h), PurgeVisit
    PROVE  BodyOK(h)'
<1>0. PurgeType /\ h # None
  BY MessageStoreAssumption DEF TypeOK
<1>1. /\ docs' = docs /\ worker' = worker /\ now' = now /\ blobs' = blobs /\ reserved' = reserved
      /\ over' = over /\ leaked' = leaked /\ dropped' = dropped /\ exposed' = exposed /\ stalled' = stalled
  BY DEF PurgeVisit, storeVars, history
<1>2. PICK g \in purge.todo :
        purge' = [purge EXCEPT !.todo = @ \ {g},
                               !.stranded = IF StrandedAt(g) THEN @ \cup {g} ELSE @]
  BY DEF PurgeVisit
<1>3. /\ purge'.at = purge.at /\ purge'.kept = purge.kept /\ purge.phase = "walk"
      /\ purge'.orphans = purge.orphans /\ purge'.hash = purge.hash
      /\ purge'.stranded \subseteq purge.stranded \cup {g}
      /\ ~StrandedAt(g) => purge'.stranded = purge.stranded
  BY <1>0, <1>2 DEF PurgeType, PurgeVisit
<1>4. CASE h = g /\ StrandedAt(g)
  <2>1. h \notin DOMAIN refs /\ ~YoungFor(h) /\ h \notin purge.kept
    BY <1>4 DEF StrandedAt
  <2>2. Sound(h) => Loose(h)
    <3>. SUFFICES ASSUME Sound(h) PROVE Loose(h)
      OBVIOUS
    <3>1. Count(refs, h) <= 0
      BY <2>1 DEF Count
    <3>2. RefsExact(h) /\ dropped[h] = 0
      BY DEF CountsExact, BodyOK, CountKept
    <3>. QED  BY <3>1, <3>2, CountLoose
  <2>. QED  BY <1>1, <1>3, <2>1, <2>2, BodyCondemned
<1>5. CASE ~(h = g /\ StrandedAt(g))
  <2>1. h \in Condemned' => h \in Condemned
    BY <1>3, <1>5 DEF Condemned
  <2>2. LiveReservation(h)' <=> LiveReservation(h)
    BY <1>1 DEF LiveReservation
  <2>. QED  BY <1>1, <1>3, <2>1, <2>2, BodySweepFrame
<1>. QED  BY <1>4, <1>5

(* Time makes bodies, calls and reservations older and nothing else. *)
LEMMA TickBody ==
    ASSUME TypeOK, NEW h \in Hashes, BodyOK(h), Tick
    PROVE  BodyOK(h)'
<1>1. /\ docs' = docs /\ worker' = worker /\ blobs' = blobs /\ reserved' = reserved /\ purge' = purge
      /\ over' = over /\ leaked' = leaked /\ dropped' = dropped /\ exposed' = exposed /\ stalled' = stalled
      /\ now' = now + 1 /\ now \in Nat
  BY DEF Tick, storeVars, history, TypeOK
<1>2. /\ Sound(h)' <=> Sound(h)
      /\ Unharmed(h)' <=> Unharmed(h)
      /\ Loose(h)' <=> Loose(h)
      /\ Recorded(h)' <=> Recorded(h)
      /\ Condemned' = Condemned
  BY <1>1 DEF Sound, Unharmed, Loose, Recorded, Condemned
<1>3. \A w \in Workers : FreshFor(w, h)' => FreshFor(w, h)
  <2>. SUFFICES ASSUME NEW w \in Workers, FreshFor(w, h)' PROVE FreshFor(w, h)
    OBVIOUS
  <2>1. worker[w].stage \in {"file", "reserve"} /\ worker[w].blob = h /\ now + 1 < worker[w].at + PurgeGrace
    BY <1>1 DEF FreshFor
  <2>2. worker[w].at \in Nat /\ PurgeGrace \in Nat
    BY <2>1, CallFields, MessageStoreAssumption DEF TypeOK
  <2>3. now < worker[w].at + PurgeGrace
    BY <1>1, <2>1, <2>2
  <2>. QED  BY <2>1, <2>3 DEF FreshFor
<1>4. LiveReservation(h)' => LiveReservation(h)
  <2>1. \A k \in DOMAIN reserved : reserved[k] \in Nat
    BY DEF TypeOK, KeyType, Counters
  <2>2. \A k \in DOMAIN reserved : now + 1 < reserved[k] => now < reserved[k]
    BY <1>1, <2>1
  <2>. QED  BY <1>1, <2>2 DEF LiveReservation
<1>5. Sound(h)' => Sound(h) /\ dropped'[h] = 0
  BY <1>1, <1>2 DEF BodyOK, CountKept
<1>. QED  BY <1>1, <1>2, <1>3, <1>4, <1>5, BodyFrame

LEMMA BodyStep ==
    ASSUME TypeOK, DocsWrittenOnce, CountsExact, Clocks, BodyInv, [Next]_vars
    PROVE  BodyInv'
<1>. SUFFICES ASSUME NEW h \in Hashes PROVE BodyOK(h)'
  BY DEF BodyInv
<1>0. BodyOK(h)
  BY DEF BodyInv
<1>1. CASE \E w \in Workers : Begin(w) \/ Continue(w) \/ CallFails(w)
  BY <1>0, <1>1, BeginBody, PutBodies, FileBody, ReserveBody, EraseBody, ReleaseBody DEF Continue
<1>2. CASE Sweep \/ PurgeFails
  BY <1>0, <1>2, ScanBody, PhaseBody, OrphanBody, DeleteBody, KeyBody, VisitBody DEF Sweep
<1>3. CASE UNCHANGED vars
  <2>1. /\ docs' = docs /\ worker' = worker /\ now' = now /\ blobs' = blobs /\ reserved' = reserved
        /\ over' = over /\ leaked' = leaked /\ dropped' = dropped /\ exposed' = exposed
        /\ stalled' = stalled /\ purge' = purge
    BY <1>3 DEF vars, storeVars, history
  <2>2. /\ Sound(h)' <=> Sound(h)
        /\ Unharmed(h)' <=> Unharmed(h)
        /\ Loose(h)' <=> Loose(h)
        /\ Recorded(h)' <=> Recorded(h)
        /\ LiveReservation(h)' <=> LiveReservation(h)
        /\ \A w \in Workers : FreshFor(w, h)' <=> FreshFor(w, h)
        /\ Condemned' = Condemned
    BY <2>1 DEF Sound, Unharmed, Loose, Recorded, FreshFor, LiveReservation, Condemned
  <2>3. Sound(h)' => Sound(h) /\ dropped'[h] = 0
    BY <1>0, <2>1, <2>2 DEF BodyOK, CountKept
  <2>. QED  BY <1>0, <2>1, <2>2, <2>3, BodyFrame
<1>. QED  BY <1>0, <1>1, <1>2, <1>3, TickBody DEF Next

LEMMA BodyInit == ASSUME Init PROVE Clocks /\ BodyInv
<1>1. Clocks
  BY DEF Init, Clocks, IdlePurge, Idle
<1>2. ASSUME NEW h \in Hashes PROVE BodyOK(h)
  <2>1. /\ ~Recorded(h) /\ ~LiveReservation(h) /\ dropped[h] = 0
        /\ \A w \in Workers : ~FreshFor(w, h)
    BY DEF Init, Recorded, LiveReservation, Empty, FreshFor, Idle
  <2>2. h \notin purge.orphans /\ h \notin Condemned
    BY MessageStoreAssumption DEF Init, IdlePurge, Condemned
  <2>. QED  BY <2>1, <2>2 DEF BodyOK, CountKept, CallKept, OrphanSafe, CondemnedSafe,
                              ReservationSeen, BodyPresent
<1>. QED  BY <1>1, <1>2 DEF BodyInv

LEMMA DocsInit == ASSUME Init PROVE DocsWrittenOnce
BY DEF Init, DocsWrittenOnce, Filing, Deleting, Idle

(* The invariant all the theorems below rest on. *)
LEMMA StoreInvariant == Spec => []StoreInv
<1>1. Init => StoreInv
  BY TypeInit, DocsInit, CountsInit, BodyInit DEF StoreInv
<1>2. StoreInv /\ [Next]_vars => StoreInv'
  BY TypeStep, DocsStep, CountsStep, ClocksStep, BodyStep DEF StoreInv
<1>. QED  BY <1>1, <1>2, PTL DEF Spec

(* increment_ref and decrement_ref keep the count of a body exact through     *)
(* every interleaving of deliveries, deletions, failures and sweeps: what a   *)
(* double deletion takes away too often, a failed call leaves behind and a    *)
(* sweep throws away accounts for every difference.                           *)
THEOREM RefCountsExact == Spec => []RefCountExact
<1>1. StoreInv => RefCountExact
  BY DEF StoreInv, CountsExact, RefsExact, RefCountExact
<1>. QED  BY <1>1, StoreInvariant, PTL

(* usage_of is exact but for double deletions, and the deliveries that pass   *)
(* the quota check at once exceed the quota by less than their number.        *)
THEOREM QuotaBounded == Spec => []QuotaBound
<1>1. StoreInv => QuotaBound
  <2>. SUFFICES ASSUME StoreInv, NEW a \in Accounts
                PROVE  /\ usage[a] = Mailbox(a) - overErased[a]
                       /\ QuotaMessages # 0 => usage[a] < QuotaMessages + Cardinality(Workers)
    BY DEF QuotaBound
  <2>1. UsageExact(a) /\ TypeOK
    BY DEF StoreInv, CountsExact
  <2>. QED  BY <2>1, CountTypes DEF UsageExact
<1>. QED  BY <1>1, StoreInvariant, PTL

(* account_references_blob never shows an account a body it holds no record   *)
(* of.                                                                        *)
THEOREM LinksWithinRecords == Spec => []LinkWithinRecords
<1>1. StoreInv => LinkWithinRecords
  BY DEF StoreInv, CountsExact, LinkBelow, LinkWithinRecords
<1>. QED  BY <1>1, StoreInvariant, PTL

(* purge_orphans deletes the body of no record, but in the three cases        *)
(* BodyKept names.                                                            *)
THEOREM BodiesKept == Spec => []BodyKept
<1>1. StoreInv => BodyKept
  <2>. SUFFICES ASSUME StoreInv, NEW d \in Docs, docs[d] # None
                PROVE  \/ docs[d].blob \in DOMAIN blobs \/ over[docs[d].blob] > 0
                       \/ docs[d].blob \in exposed \cup stalled
    BY DEF BodyKept
  <2>1. docs[d].blob \in Hashes
    BY DEF StoreInv, TypeOK, DocType, Record
  <2>2. BodyPresent(docs[d].blob) /\ Recorded(docs[d].blob)
    BY <2>1 DEF StoreInv, BodyInv, BodyOK, Recorded
  <2>3. over[docs[d].blob] \in Nat
    BY <2>1 DEF StoreInv, TypeOK, HistoryType
  <2>. QED  BY <2>2, <2>3 DEF BodyPresent, Sound, Unharmed
<1>. QED  BY <1>1, StoreInvariant, PTL

(* A live reservation of reserve_upload keeps its body from the sweep.        *)
THEOREM ReservationsKeepBodies == Spec => []ReservationKeepsBody
<1>1. StoreInv => ReservationKeepsBody
  <2>. SUFFICES ASSUME StoreInv, NEW k \in DOMAIN reserved, reserved[k] > now
                PROVE  k[2] \in DOMAIN blobs \cup exposed \cup stalled
    BY DEF ReservationKeepsBody
  <2>1. k \in Accounts \X Hashes /\ reserved[k] \in Nat /\ now \in Nat
    BY DEF StoreInv, TypeOK, KeyType, Counters
  <2>2. k[2] \in Hashes /\ now < reserved[k]
    BY <2>1
  <2>3. BodyPresent(k[2]) /\ LiveReservation(k[2])
    BY <2>2 DEF StoreInv, BodyInv, BodyOK, LiveReservation
  <2>. QED  BY <2>3 DEF BodyPresent, Unharmed
<1>. QED  BY <1>1, StoreInvariant, PTL
=============================================================================
