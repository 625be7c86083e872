------------------------ MODULE OutboundQueueProofs ------------------------
(* The queue keeps its types, its limits and, within the grace period, the    *)
(* bodies of its records: the proofs of TypeOK, WithinLimits and              *)
(* FreshRecordHasBody.                                                        *)
EXTENDS OutboundQueue, SequenceTheorems, WellFoundedInduction, TLAPS

USE DEF Ids, AllSlots

(* A vector whose entries are replaced one by one keeps its length and type. *)
LEMMA MapType ==
    ASSUME NEW m \in Message, NEW r,
           r = [s \in Slots(m) |-> r[s]],
           \A s \in Slots(m) : r[s] \in QueueRecipient
    PROVE  [m EXCEPT !.recipients = r] \in Message
<1>1. m.recipients \in Seq(QueueRecipient)
  BY DEF Message, QueuedMessage
<1>2. PICK n \in Nat : Slots(m) = 1..n
  BY <1>1 DEF Slots
<1>3. r \in [1..n -> QueueRecipient]
  BY <1>2
<1>4. r \in Seq(QueueRecipient) /\ DOMAIN r = Slots(m)
  BY <1>2, <1>3, IsASeq
<1>. QED  BY <1>4 DEF Message, QueuedMessage, Slots

LEMMA SlotType ==
    ASSUME NEW m \in Message, NEW s \in Slots(m)
    PROVE  m.recipients[s] \in QueueRecipient /\ s \in AllSlots
BY DEF Message, QueuedMessage, Slots

LEMMA HoldBackType ==
    ASSUME NEW m \in Message, NEW t \in Nat
    PROVE  /\ HoldBack(m, t) \in Message
           /\ Slots(HoldBack(m, t)) = Slots(m)
           /\ PendingSlots(HoldBack(m, t)) = PendingSlots(m)
           /\ HoldBack(m, t).returnPath = m.returnPath
<1>. DEFINE r == [s \in Slots(m) |-> IF IsDue(m.recipients[s], t)
             THEN [m.recipients[s] EXCEPT !.due = WindowEnd(t), !.status = "deferred"]
             ELSE m.recipients[s]]
<1>0. WindowEnd(t) \in Nat
  BY QueueModelAssumption DEF WindowEnd, Window
<1>1. \A s \in Slots(m) : r[s] \in QueueRecipient /\ IsPending(r[s]) = IsPending(m.recipients[s])
  BY <1>0, SlotType DEF QueueRecipient, Statuses, IsPending, IsDue
<1>2. HoldBack(m, t) = [m EXCEPT !.recipients = r]
  BY DEF HoldBack, Slots
<1>3. r = [s \in Slots(m) |-> r[s]] /\ DOMAIN r = Slots(m) /\ m \in QueuedMessage
  BY DEF Message
<1>. HIDE DEF r
<1>4. HoldBack(m, t).recipients = r /\ HoldBack(m, t).returnPath = m.returnPath
  BY <1>2, <1>3 DEF QueuedMessage
<1>5. HoldBack(m, t) \in Message
  BY <1>1, <1>2, <1>3, MapType
<1>. QED  BY <1>1, <1>3, <1>4, <1>5 DEF Slots, PendingSlots

LEMMA BackoffType == \A n \in Nat : Backoff(n) \in Nat \ {0}
<1>. SUFFICES ASSUME NEW n \in Nat PROVE Backoff(n) \in Nat \ {0}
  OBVIOUS
<1>. DEFINE shift == IF n < MaxShift THEN n ELSE MaxShift
<1>1. shift \in 0..MaxShift
  BY DEF MaxShift
<1>2. 2^shift \in Nat \ {0}
  BY <1>1, PowerAssumption
<1>. HIDE DEF shift
<1>. DEFINE power == 2^shift
<1>3. power \in Nat \ {0}
  BY <1>2
<1>. HIDE DEF power
<1>4. BaseBackoff * power \in Nat \ {0}
  BY <1>3, QueueModelAssumption
<1>5. Backoff(n) = IF BaseBackoff * power < MaxBackoff THEN BaseBackoff * power ELSE MaxBackoff
  BY DEF Backoff, shift, power
<1>. QED  BY <1>4, <1>5, QueueModelAssumption

LEMMA ApplyAttemptType ==
    ASSUME NEW r \in QueueRecipient, NEW t \in Nat, NEW attempt \in Attempts
    PROVE  ApplyAttempt(r, attempt, t) \in QueueRecipient
<1>1. t + Backoff(r.attempts) \in Nat /\ r.attempts + 1 \in Nat
  BY BackoffType DEF QueueRecipient
<1>2. AfterDeferral(r, t) \in QueueRecipient
  BY <1>1 DEF AfterDeferral, QueueRecipient, Statuses
<1>. QED  BY <1>2 DEF ApplyAttempt, QueueRecipient, Statuses, Attempts

LEMMA AfterAttemptType ==
    ASSUME NEW m \in Message, NEW t \in Nat, NEW attempt \in Attempts, NEW slot \in Slots(m)
    PROVE  /\ AfterAttempt(m, slot, attempt, t) \in Message
           /\ Slots(AfterAttempt(m, slot, attempt, t)) = Slots(m)
           /\ AfterAttempt(m, slot, attempt, t).returnPath = m.returnPath
           /\ \A s \in Slots(m) : AfterAttempt(m, slot, attempt, t).recipients[s] =
                IF s = slot THEN ApplyAttempt(m.recipients[s], attempt, t) ELSE m.recipients[s]
<1>. DEFINE r == [s \in Slots(m) |->
             IF s = slot THEN ApplyAttempt(m.recipients[s], attempt, t) ELSE m.recipients[s]]
<1>1. \A s \in Slots(m) : r[s] \in QueueRecipient
  BY SlotType, ApplyAttemptType
<1>2. AfterAttempt(m, slot, attempt, t) = [m EXCEPT !.recipients = r]
  BY DEF AfterAttempt, Slots
<1>3. m \in QueuedMessage
  BY DEF Message
<1>. HIDE DEF r
<1>4. AfterAttempt(m, slot, attempt, t).recipients = r
  BY <1>2, <1>3 DEF QueuedMessage
<1>5. AfterAttempt(m, slot, attempt, t).returnPath = m.returnPath
  BY <1>2, <1>3 DEF QueuedMessage
<1>6. r = [s \in Slots(m) |-> r[s]] /\ DOMAIN r = Slots(m)
  BY DEF r
<1>7. [m EXCEPT !.recipients = r] \in Message
  BY <1>1, <1>6, MapType
<1>8. Slots(AfterAttempt(m, slot, attempt, t)) = Slots(m)
  BY <1>4, <1>6 DEF Slots
<1>. QED  BY <1>2, <1>4, <1>5, <1>7, <1>8 DEF r

LEMMA BounceAllType ==
    ASSUME NEW m \in Message
    PROVE  /\ BounceAll(m) \in Message
           /\ Slots(BounceAll(m)) = Slots(m)
           /\ BounceAll(m).returnPath = m.returnPath
           /\ \A s \in Slots(m) : BounceAll(m).recipients[s] =
                IF IsPending(m.recipients[s]) THEN [m.recipients[s] EXCEPT !.status = "bounced"]
                                              ELSE m.recipients[s]
<1>. DEFINE r == [s \in Slots(m) |->
             IF IsPending(m.recipients[s]) THEN [m.recipients[s] EXCEPT !.status = "bounced"]
                                           ELSE m.recipients[s]]
<1>1. \A s \in Slots(m) : r[s] \in QueueRecipient
  BY SlotType DEF QueueRecipient, Statuses
<1>2. BounceAll(m) = [m EXCEPT !.recipients = r]
  BY DEF BounceAll, Slots
<1>3. m \in QueuedMessage
  BY DEF Message
<1>. HIDE DEF r
<1>4. BounceAll(m).recipients = r
  BY <1>2, <1>3 DEF QueuedMessage
<1>5. BounceAll(m).returnPath = m.returnPath
  BY <1>2, <1>3 DEF QueuedMessage
<1>6. r = [s \in Slots(m) |-> r[s]] /\ DOMAIN r = Slots(m)
  BY DEF r
<1>7. [m EXCEPT !.recipients = r] \in Message
  BY <1>1, <1>6, MapType
<1>8. Slots(BounceAll(m)) = Slots(m)
  BY <1>4, <1>6 DEF Slots
<1>. QED  BY <1>2, <1>4, <1>5, <1>7, <1>8 DEF r

LEMMA DueNowType ==
    ASSUME NEW m \in Message, NEW t \in Nat
    PROVE  /\ DueNow(m, t) \in Message
           /\ Slots(DueNow(m, t)) = Slots(m)
           /\ PendingSlots(DueNow(m, t)) = PendingSlots(m)
           /\ DueNow(m, t).returnPath = m.returnPath
<1>. DEFINE r == [s \in Slots(m) |->
             IF IsPending(m.recipients[s]) THEN [m.recipients[s] EXCEPT !.due = t]
                                           ELSE m.recipients[s]]
<1>1. \A s \in Slots(m) : r[s] \in QueueRecipient /\ IsPending(r[s]) = IsPending(m.recipients[s])
  BY SlotType DEF QueueRecipient, IsPending
<1>2. DueNow(m, t) = [m EXCEPT !.recipients = r]
  BY DEF DueNow, Slots
<1>3. r = [s \in Slots(m) |-> r[s]] /\ DOMAIN r = Slots(m) /\ m \in QueuedMessage
  BY DEF Message
<1>. HIDE DEF r
<1>4. DueNow(m, t).recipients = r /\ DueNow(m, t).returnPath = m.returnPath
  BY <1>2, <1>3 DEF QueuedMessage
<1>5. DueNow(m, t) \in Message
  BY <1>1, <1>2, <1>3, MapType
<1>. QED  BY <1>1, <1>3, <1>4, <1>5 DEF Slots, PendingSlots

LEMMA NewMessageType ==
    ASSUME NEW t \in Nat, NEW h \in Hashes, NEW from \in ReturnPaths, NEW n \in AllSlots,
           NEW kind \in {"at", "attempts"}
    PROVE  /\ NewMessage(t, h, from, n, kind) \in Message
           /\ SettledIn(NewMessage(t, h, from, n, kind)) = {}
<1>1. ExpiryOf(kind, t) \in Expiries
  BY OutboundQueueAssumption DEF ExpiryOf, Expiries
<1>2. NewRecipient(t, ExpiryOf(kind, t)) \in QueueRecipient
  BY <1>1 DEF NewRecipient, QueueRecipient, Statuses
<1>. DEFINE r == [s \in 1..n |-> NewRecipient(t, ExpiryOf(kind, t))]
<1>3. n \in Nat /\ r \in [1..n -> QueueRecipient]
  BY <1>2, OutboundQueueAssumption
<1>4. r \in Seq(QueueRecipient)
  BY <1>3, IsASeq
<1>5. NewMessage(t, h, from, n, kind) = [created |-> t, blob |-> h, returnPath |-> from, recipients |-> r]
  BY DEF NewMessage
<1>6. 1..n \subseteq AllSlots
  BY OutboundQueueAssumption
<1>7. NewMessage(t, h, from, n, kind) \in Message
  BY <1>4, <1>5, <1>6 DEF Message, QueuedMessage, Slots
<1>8. \A s \in 1..n : IsPending(r[s])
  BY DEF IsPending, NewRecipient
<1>. HIDE DEF r
<1>9. SettledIn(NewMessage(t, h, from, n, kind)) = {}
  BY <1>3, <1>5, <1>8 DEF SettledIn, Slots, PendingSlots
<1>. QED  BY <1>7, <1>9

----------------------------------------------------------------------------
USE DEF Stages, Working, Records

LEMMA NoBatchType == NoBatch \in Records
BY DEF NoBatch

LEMMA PutRecordType ==
    ASSUME queue \in Records, NEW id \in Ids, NEW m \in Message \cup {None}, PutRecord(id, m)
    PROVE  queue' \in Records
BY DEF PutRecord

LEMMA PutBlobType ==
    ASSUME MailType, HistoryType, NEW h \in Hashes, PutBlob(h)
    PROVE  /\ DOMAIN blobs' \subseteq Hashes /\ \A g \in DOMAIN blobs' : blobs'[g] \in Nat
           /\ raced' \subseteq Hashes
BY DEF MailType, HistoryType, PutBlob

LEMMA DsnHashType == \A id \in Nat, t \in Nat : <<id, t>> \in Hashes
BY DEF Hashes

LEMMA NoCountsType == NoCounts \in [AllRateKeys -> Nat]
BY DEF NoCounts

LEMMA WindowType == \A t \in Nat : Window(t) \in Nat
BY QueueModelAssumption DEF Window

(* A non-empty set of naturals has a least element.                           *)
LEMMA NatMin ==
    ASSUME NEW S, S \subseteq Nat, S # {}
    PROVE  \E x \in S : \A y \in S : x <= y
<1>1. \A u, v \in Nat : u < v => <<u, v>> \in OpToRel(<, Nat)
  BY DEF OpToRel
<1>2. PICK R : IsWellFoundedOn(R, Nat) /\ \A u, v \in Nat : u < v => <<u, v>> \in R
  BY <1>1, NatLessThanWellFounded, Zenon
<1>3. IsWellFoundedOn(R, Nat)
  BY <1>2
<1>4. \A u, v \in Nat : u < v => <<u, v>> \in R
  BY <1>2
<1>5. \E m \in S : \A y \in S : ~(<<y, m>> \in R)
  BY <1>3, WFMin, Zenon
<1>6. PICK m \in S : \A y \in S : ~(<<y, m>> \in R)
  BY <1>5
<1>7. ASSUME NEW y \in S PROVE m <= y
  <2>1. y \in Nat /\ m \in Nat
    BY <1>6
  <2>2. ~(y < m)
    BY <1>4, <1>6, <2>1, Zenon
  <2>. QED  BY <2>1, <2>2
<1>. QED  BY <1>7

(* The earliest of the times the manager could wake at is one of them.        *)
LEMMA NextWakeType ==
    ASSUME queue \in Records, NEW t \in Nat
    PROVE  NextWake(t) \in Nat
<1>. DEFINE dues == LaterTimes(t) \cup {t + RefreshInterval}
<1>1. \A m \in Message : DueTimes(m) \subseteq Nat
  BY SlotType DEF DueTimes, PendingSlots, QueueRecipient
<1>2. LaterTimes(t) \subseteq Nat
  BY <1>1 DEF LaterTimes
<1>3. dues \subseteq Nat /\ dues # {}
  BY <1>2, OutboundQueueAssumption
<1>4. NextWake(t) = CHOOSE u \in dues : \A v \in dues : u <= v
  BY DEF NextWake
<1>. HIDE DEF dues
<1>5. \E u \in dues : \A v \in dues : u <= v
  BY <1>3, NatMin
<1>. QED  BY <1>3, <1>4, <1>5

LEMMA FirstIdType ==
    ASSUME batch \in Records, BatchIds # {}
    PROVE  FirstId \in Ids /\ batch[FirstId] \in Message
<1>1. BatchIds \subseteq Ids /\ Ids \subseteq Nat
  BY OutboundQueueAssumption DEF BatchIds
<1>2. \E id \in BatchIds : \A other \in BatchIds : id <= other
  BY <1>1, NatMin
<1>3. FirstId \in BatchIds
  BY <1>2 DEF FirstId
<1>. QED  BY <1>1, <1>3 DEF BatchIds

LEMMA NextSlotType ==
    ASSUME msg \in Message, DueSlots(msg, passNow) # {}
    PROVE  NextSlot \in DueSlots(msg, passNow) /\ NextSlot \in Slots(msg)
<1>. DEFINE dues == DueSlots(msg, passNow)
<1>1. dues \subseteq Slots(msg) /\ dues \subseteq Nat
  BY SlotType, OutboundQueueAssumption DEF DueSlots
<1>2. NextSlot = CHOOSE s \in dues : \A other \in dues : s <= other
  BY DEF NextSlot
<1>. HIDE DEF dues
<1>3. \E s \in dues : \A other \in dues : s <= other
  BY <1>1, NatMin DEF dues
<1>4. NextSlot \in dues
  BY <1>2, <1>3
<1>. QED  BY <1>1, <1>4 DEF dues

(* A message is not None.                                                     *)
LEMMA NotNone == None \notin Message
BY NoneAssumption DEF Message

----------------------------------------------------------------------------
(* Type correctness: one step per action.                                     *)

LEMMA InitType == Init => TypeOK
<1>. SUFFICES ASSUME Init PROVE TypeOK
  OBVIOUS
<1>1. MailType
  BY NoBatchType, OutboundQueueAssumption DEF Init, MailType
<1>2. ManagerType
  BY NoBatchType, NoCountsType DEF Init, ManagerType
<1>3. CallerType
  BY DEF Init, CallerType
<1>4. HistoryType
  BY NoBatchType DEF Init, HistoryType
<1>. QED  BY <1>1, <1>2, <1>3, <1>4 DEF TypeOK

(* The callers of enqueue.                                                    *)
LEMMA CallerTypeStep ==
    ASSUME TypeOK, NEW c \in Clients, Caller(c)
    PROVE  TypeOK'
<1>. USE DEF TypeOK
<1>1. CASE StoreBody(c)
  <2>1. PICK r \in ActiveRoutes, b \in Bodies, count \in AllSlots, from \in ReturnPaths :
           /\ client' = [client EXCEPT ![c] =
                 [message |-> NewMessage(now, b, from, count, Route(r).expiry),
                  stage |-> "record", nudges |-> Route(r).nudges, id |-> 0]]
           /\ PutBlob(b)
    BY <1>1 DEF StoreBody
  <2>2. Route(r).expiry \in {"at", "attempts"} /\ Route(r).nudges \in BOOLEAN
    BY DEF Route
  <2>3. b \in Hashes
    BY DEF Hashes
  <2>4. NewMessage(now, b, from, count, Route(r).expiry) \in Message
    BY <2>2, <2>3, NewMessageType DEF MailType
  <2>5. client' \in [Clients -> Requests \cup {None}]
    BY <2>1, <2>2, <2>4 DEF CallerType, Requests
  <2>6. MailType'
    BY <1>1, <2>1, <2>3, PutBlobType DEF StoreBody, MailType
  <2>7. ManagerType'
    BY <1>1 DEF StoreBody, ManagerType, managerVars
  <2>8. HistoryType'
    BY <1>1, <2>1, <2>3, PutBlobType DEF StoreBody, HistoryType
  <2>. QED  BY <1>1, <2>5, <2>6, <2>7, <2>8 DEF StoreBody, CallerType
<1>2. CASE Publish(c)
  <2>1. client[c] \in Requests /\ client[c].message \in Message /\ lastId + 1 \in Ids
    <3>1. client[c] \in Requests \cup {None} /\ client[c] # None
      BY <1>2 DEF Publish, CallerType
    <3>2. lastId \in 0..MaxId /\ lastId < MaxId /\ MaxId \in Nat
      BY <1>2, OutboundQueueAssumption DEF Publish, MailType
    <3>. QED  BY <3>1, <3>2 DEF Requests
  <2>2. client' \in [Clients -> Requests \cup {None}]
    <3>. DEFINE q == client[c]
    <3>0. q \in Requests /\ lastId + 1 \in Nat
      BY <2>1, OutboundQueueAssumption
    <3>. HIDE DEF q
    <3>1. [q EXCEPT !.stage = "nudge", !.id = lastId + 1] \in Requests
      BY <3>0 DEF Requests
    <3>2. client \in [Clients -> Requests \cup {None}]
      BY DEF CallerType
    <3>. QED  BY <1>2, <3>1, <3>2 DEF Publish, q
  <2>3. MailType' /\ HistoryType'
    BY <1>2, <2>1, PutRecordType DEF Publish, MailType, HistoryType
  <2>4. ManagerType'
    BY <1>2 DEF Publish, ManagerType, managerVars
  <2>. QED  BY <1>2, <2>2, <2>3, <2>4 DEF Publish, CallerType
<1>3. CASE ClientNudge(c)
  <2>1. client[c].id \in Nat
    BY <1>3 DEF ClientNudge, CallerType, Requests
  <2>2. MailType' /\ ManagerType'
    BY <1>3 DEF ClientNudge, MailType, ManagerType, mailVars, managerVars
  <2>. QED  BY <1>3, <2>1, <2>2 DEF ClientNudge, CallerType, HistoryType
<1>4. CASE EnqueueFails(c)
  <2>1. MailType' /\ ManagerType'
    BY <1>4 DEF EnqueueFails, MailType, ManagerType, mailVars, managerVars
  <2>. QED  BY <1>4, <2>1 DEF EnqueueFails, CallerType, HistoryType
<1>. QED  BY <1>1, <1>2, <1>3, <1>4 DEF Caller

(* The administrator and the purge.                                           *)
LEMMA AdministratorTypeStep ==
    ASSUME TypeOK, Administrator \/ PurgeList \/ PurgeDelete
    PROVE  TypeOK'
<1>. USE DEF TypeOK
<1>1. CASE RetryLoad
  <2>1. MailType' /\ ManagerType'
    BY <1>1 DEF RetryLoad, MailType, ManagerType, mailVars, managerVars
  <2>2. admin' \in AdminCalls
    BY <1>1 DEF RetryLoad, AdminCalls, MailType
  <2>. QED  BY <1>1, <2>1, <2>2 DEF RetryLoad, CallerType, HistoryType
<1>2. CASE RetryPersist
  <2>1. admin \in AdminCalls /\ DueNow(admin.message, admin.at) \in Message
    BY <1>2, DueNowType DEF RetryPersist, CallerType, AdminCalls
  <2>2. admin' \in AdminCalls
    BY <1>2, <2>1 DEF RetryPersist, AdminCalls
  <2>3. MailType'
    BY <1>2, <2>1, PutRecordType DEF RetryPersist, MailType, AdminCalls
  <2>4. ManagerType'
    BY <1>2 DEF RetryPersist, ManagerType, managerVars
  <2>. QED  BY <1>2, <2>2, <2>3, <2>4 DEF RetryPersist, CallerType, HistoryType
<1>3. CASE RetryNudge
  <2>1. admin.id \in Nat
    BY <1>3, OutboundQueueAssumption DEF RetryNudge, CallerType, AdminCalls
  <2>2. MailType' /\ ManagerType'
    BY <1>3 DEF RetryNudge, MailType, ManagerType, mailVars, managerVars
  <2>. QED  BY <1>3, <2>1, <2>2 DEF RetryNudge, CallerType, HistoryType
<1>4. CASE AdminDelete
  <2>1. MailType' /\ HistoryType'
    BY <1>4, PutRecordType DEF AdminDelete, MailType, HistoryType
  <2>2. ManagerType'
    BY <1>4 DEF AdminDelete, ManagerType, managerVars
  <2>. QED  BY <1>4, <2>1, <2>2 DEF AdminDelete, CallerType
<1>5. CASE PurgeList
  <2>1. MailType' /\ ManagerType'
    BY <1>5 DEF PurgeList, MailType, ManagerType, mailVars, managerVars
  <2>2. CallerType'
    BY <1>5 DEF PurgeList, CallerType, MailType
  <2>3. HistoryType'
    BY <1>5 DEF PurgeList, HistoryType
  <2>. QED  BY <2>1, <2>2, <2>3
<1>6. CASE PurgeDelete
  <2>1. MailType' /\ CallerType'
    BY <1>6 DEF PurgeDelete, MailType, CallerType
  <2>2. ManagerType' /\ HistoryType'
    BY <1>6 DEF PurgeDelete, ManagerType, HistoryType, managerVars, history
  <2>. QED  BY <2>1, <2>2
<1>. QED  BY <1>1, <1>2, <1>3, <1>4, <1>5, <1>6 DEF Administrator

(* The manager between passes, the failures and the clock.                    *)
LEMMA LoopTypeStep ==
    ASSUME TypeOK,
           \/ Scan \/ ScanFails \/ StartPass \/ EndPass \/ WakeByToken \/ WakeByTimer
           \/ Crash \/ Restart \/ Tick
    PROVE  TypeOK'
<1>. USE DEF TypeOK
<1>1. CASE Scan \/ ScanFails
  <2>1. batch' \in Records
    BY <1>1, NoBatchType DEF Scan, ScanFails, DueIds, MailType
  <2>2. wakeAt' \in Nat
    <3>1. queue \in Records /\ now \in Nat
      BY DEF MailType
    <3>2. NextWake(now) \in Nat /\ now + RefreshInterval \in Nat
      BY <3>1, NextWakeType, OutboundQueueAssumption
    <3>. QED  BY <1>1, <3>2 DEF Scan, ScanFails
  <2>3. ManagerType'
    BY <1>1, <2>1, <2>2 DEF Scan, ScanFails, ManagerType
  <2>4. MailType' /\ CallerType'
    BY <1>1 DEF Scan, ScanFails, MailType, CallerType, mailVars
  <2>5. HistoryType'
    <3>1. CASE Scan
      BY <3>1 DEF Scan, HistoryType
    <3>2. CASE ScanFails
      BY <3>2 DEF ScanFails, HistoryType
    <3>. QED  BY <1>1, <3>1, <3>2
  <2>. QED  BY <2>3, <2>4, <2>5
<1>2. CASE StartPass \/ EndPass \/ WakeByToken \/ WakeByTimer \/ Restart
  <2>1. ManagerType'
    BY <1>2 DEF StartPass, EndPass, WakeByToken, WakeByTimer, Restart, ManagerType, MailType
  <2>2. MailType' /\ CallerType'
    BY <1>2 DEF StartPass, EndPass, WakeByToken, WakeByTimer, Restart, MailType, CallerType, mailVars
  <2>3. HistoryType'
    BY <1>2 DEF StartPass, EndPass, WakeByToken, WakeByTimer, Restart, HistoryType, history
  <2>. QED  BY <2>1, <2>2, <2>3
<1>3. CASE Crash
  <2>1. ManagerType'
    BY <1>3, NoBatchType, NoCountsType DEF Crash, ManagerType
  <2>2. MailType' /\ CallerType'
    BY <1>3 DEF Crash, MailType, CallerType, mailVars
  <2>3. HistoryType'
    BY <1>3 DEF Crash, HistoryType
  <2>. QED  BY <2>1, <2>2, <2>3
<1>4. CASE Tick
  <2>1. ManagerType'
    BY <1>4 DEF Tick, ManagerType, managerVars
  <2>2. MailType' /\ CallerType'
    BY <1>4 DEF Tick, MailType, CallerType
  <2>3. HistoryType'
    BY <1>4 DEF Tick, HistoryType, history
  <2>. QED  BY <2>1, <2>2, <2>3
<1>. QED  BY <1>1, <1>2, <1>3, <1>4

(* The rate limiter's counters.                                               *)
LEMMA RateRecordType ==
    ASSUME TypeOK, NEW from, RateRecord(from)
    PROVE  rate' \in [window : Nat, count : [AllRateKeys -> Nat]]
<1>1. Counts \in [AllRateKeys -> Nat]
  BY NoCountsType DEF Counts, TypeOK, ManagerType
<1>2. Window(now) \in Nat
  BY WindowType DEF TypeOK, MailType
<1>. QED  BY <1>1, <1>2 DEF RateRecord

LEMMA PendingSlotsType == \A m : PendingSlots(m) \subseteq Slots(m)
BY DEF PendingSlots

(* process_message.                                                           *)
LEMMA PassTypeStep ==
    ASSUME TypeOK,
           \/ TakeMessage \/ ReadBody \/ Attempt \/ AttemptsDone \/ NothingToReport
           \/ StoreReport \/ PublishReport \/ Commit \/ PassFails
    PROVE  TypeOK'
<1>. USE DEF TypeOK
<1>1. CASE TakeMessage
  <2>1. FirstId \in Ids /\ batch[FirstId] \in Message
    BY <1>1, FirstIdType DEF TakeMessage, ManagerType
  <2>2. HoldBack(batch[FirstId], passNow) \in Message
    BY <2>1, HoldBackType DEF ManagerType
  <2>3. batch' \in Records
    BY <1>1 DEF TakeMessage, ManagerType
  <2>4. rate' \in [window : Nat, count : [AllRateKeys -> Nat]]
    BY <1>1, RateRecordType DEF TakeMessage, ManagerType
  <2>5. cur' \in Ids /\ pc' \in Working /\ passNow' = passNow /\ wakeAt' = wakeAt
    BY <1>1, <2>1 DEF TakeMessage
  <2>6. msg' \in Message /\ before' \subseteq Slots(msg')
    BY <1>1, <2>1, <2>2, PendingSlotsType DEF TakeMessage
  <2>7. ManagerType'
    BY <2>3, <2>4, <2>5, <2>6 DEF ManagerType
  <2>8. MailType' /\ CallerType'
    BY <1>1 DEF TakeMessage, MailType, CallerType, mailVars
  <2>9. HistoryType'
    BY <1>1 DEF TakeMessage, HistoryType, history
  <2>. QED  BY <2>7, <2>8, <2>9
<1>2. CASE ReadBody
  <2>1. msg \in Message /\ cur \in Ids /\ before \subseteq Slots(msg)
    BY <1>2 DEF ReadBody, ManagerType
  <2>2. msg' \in Message /\ Slots(msg') = Slots(msg) /\ pc' \in Working
    BY <1>2, <2>1, BounceAllType DEF ReadBody
  <2>3. ManagerType'
    BY <1>2, <2>1, <2>2 DEF ReadBody, ManagerType
  <2>4. MailType' /\ CallerType'
    BY <1>2 DEF ReadBody, MailType, CallerType, mailVars
  <2>5. failed' \subseteq Ids \X AllSlots
    BY <1>2, <2>1, SlotType, PendingSlotsType DEF ReadBody, HistoryType
  <2>6. HistoryType'
    BY <1>2, <2>5 DEF ReadBody, HistoryType
  <2>. QED  BY <2>3, <2>4, <2>6
<1>3. CASE Attempt
  <2>1. msg \in Message /\ cur \in Ids /\ before \subseteq Slots(msg) /\ passNow \in Nat
    BY <1>3 DEF Attempt, ManagerType
  <2>2. NextSlot \in Slots(msg) /\ NextSlot \in AllSlots
    BY <1>3, <2>1, NextSlotType, SlotType DEF Attempt
  <2>3. msg' \in Message /\ Slots(msg') = Slots(msg)
    BY <1>3, <2>1, <2>2, AfterAttemptType DEF Attempt
  <2>4. ManagerType'
    BY <1>3, <2>1, <2>3 DEF Attempt, ManagerType
  <2>5. MailType' /\ CallerType'
    BY <1>3 DEF Attempt, MailType, CallerType, mailVars
  <2>6. sent' \in [Ids \X AllSlots -> Nat] /\ failed' \subseteq Ids \X AllSlots /\ mishaps' \in Nat
    BY <1>3, <2>1, <2>2 DEF Attempt, HistoryType
  <2>7. HistoryType'
    BY <1>3, <2>6 DEF Attempt, HistoryType
  <2>. QED  BY <2>4, <2>5, <2>7
<1>4. CASE AttemptsDone \/ NothingToReport
  <2>1. ManagerType'
    BY <1>4 DEF AttemptsDone, NothingToReport, ManagerType
  <2>2. MailType' /\ CallerType'
    BY <1>4 DEF AttemptsDone, NothingToReport, MailType, CallerType, mailVars
  <2>3. HistoryType'
    BY <1>4 DEF AttemptsDone, NothingToReport, HistoryType, history
  <2>. QED  BY <2>1, <2>2, <2>3
<1>5. CASE StoreReport
  <2>1. cur \in Nat /\ passNow \in Nat
    BY <1>5, OutboundQueueAssumption DEF StoreReport, ManagerType
  <2>2. <<cur, passNow>> \in Hashes
    BY <2>1, DsnHashType
  <2>3. ManagerType'
    BY <1>5 DEF StoreReport, ManagerType
  <2>4. MailType'
    BY <1>5, <2>2, PutBlobType DEF StoreReport, MailType
  <2>5. HistoryType'
    BY <1>5, <2>2, PutBlobType DEF StoreReport, HistoryType
  <2>. QED  BY <1>5, <2>3, <2>4, <2>5 DEF StoreReport, CallerType
<1>6. CASE PublishReport
  <2>1. cur \in Nat /\ passNow \in Nat /\ lastId + 1 \in Ids /\ 1 \in AllSlots
    BY <1>6, OutboundQueueAssumption DEF PublishReport, ManagerType, MailType
  <2>2. <<cur, passNow>> \in Hashes /\ NullSender \in ReturnPaths
    BY <2>1, DsnHashType DEF ReturnPaths
  <2>. DEFINE report == NewMessage(passNow, <<cur, passNow>>, NullSender, 1, "at")
  <2>3. report \in Message
    BY <2>1, <2>2, NewMessageType
  <2>. HIDE DEF report
  <2>4. PutRecord(lastId + 1, report) /\ origin' = [origin EXCEPT ![lastId + 1] = report]
    BY <1>6 DEF PublishReport, report
  <2>5. ManagerType'
    BY <1>6 DEF PublishReport, ManagerType
  <2>6. MailType'
    BY <1>6, <2>1, <2>3, <2>4, PutRecordType DEF PublishReport, MailType
  <2>7. reports' \in [Ids \X AllSlots -> Nat]
    BY <1>6 DEF PublishReport, HistoryType
  <2>8. HistoryType'
    BY <1>6, <2>3, <2>4, <2>7 DEF PublishReport, HistoryType
  <2>. QED  BY <1>6, <2>5, <2>6, <2>8 DEF PublishReport, CallerType
<1>7. CASE Commit \/ PassFails
  <2>1. ManagerType'
    BY <1>7 DEF Commit, PassFails, DropWork, ManagerType
  <2>2. queue' \in Records
    BY <1>7, PutRecordType DEF Commit, PassFails, MailType, ManagerType, mailVars
  <2>3. MailType' /\ CallerType'
    BY <1>7, <2>2 DEF Commit, PassFails, MailType, CallerType, mailVars
  <2>4. HistoryType'
    <3>1. CASE Commit
      BY <3>1 DEF Commit, HistoryType, history
    <3>2. CASE PassFails
      BY <3>2 DEF PassFails, HistoryType
    <3>. QED  BY <1>7, <3>1, <3>2
  <2>. QED  BY <2>1, <2>3, <2>4
<1>. QED  BY <1>1, <1>2, <1>3, <1>4, <1>5, <1>6, <1>7

LEMMA TypeStep == TypeOK /\ [Next]_vars => TypeOK'
<1>. SUFFICES ASSUME TypeOK, [Next]_vars PROVE TypeOK'
  OBVIOUS
<1>1. CASE Next
  BY <1>1, CallerTypeStep, AdministratorTypeStep, LoopTypeStep, PassTypeStep
     DEF Next, Manager, Failure
<1>2. CASE UNCHANGED vars
  <2>1. MailType' /\ CallerType'
    BY <1>2 DEF vars, mailVars, TypeOK, MailType, CallerType
  <2>2. ManagerType'
    BY <1>2 DEF vars, managerVars, TypeOK, ManagerType
  <2>3. HistoryType'
    BY <1>2 DEF vars, history, TypeOK, HistoryType
  <2>. QED  BY <2>1, <2>2, <2>3 DEF TypeOK
<1>. QED  BY <1>1, <1>2

(* Every reachable state is well typed, and the manager holds a working copy  *)
(* of a message exactly while it is inside process_message.                   *)
THEOREM TypeCorrect == Spec => []TypeOK
BY InitType, TypeStep, PTL DEF Spec

----------------------------------------------------------------------------
(* Retry limits, rate limits and bodies: what holds of every copy of a        *)
(* message, wherever it is on its way.                                        *)

(* A recipient still pending has attempts left. *)
AttemptsLeft(message) ==
    \A s \in PendingSlots(message) :
        LET rcpt == message.recipients[s]
        IN  rcpt.expiry.kind = "attempts" => rcpt.attempts < rcpt.expiry.limit

(* The body of what was created at time t: written at t or later and in no    *)
(* purge's list, unless its grace period is over or it lost the race.         *)
Backed(hash, t) ==
    /\ t <= now
    /\ \/ hash \in raced
       \/ now >= t + PurgeGrace
       \/ hash \in DOMAIN blobs /\ blobs[hash] >= t /\ hash \notin doomed

Sound(message) == AttemptsLeft(message) /\ Backed(message.blob, message.created)

RatesBounded ==
    \A key \in AllRateKeys : rate.count[key] > 0 => rate.count[key] <= RateLimit(key)

(* The inductive form of WithinLimits and FreshRecordHasBody: it holds of the *)
(* requests, the records, the batch, the working copy, the administrator's    *)
(* copy, and of the report whose body is stored and whose record is not.      *)
ClientsSound == \A c \in Clients : client[c] # None => Sound(client[c].message)
QueueSound == \A id \in Ids : queue[id] # None => Sound(queue[id])
BatchSound == \A id \in Ids : batch[id] # None => Sound(batch[id])
WorkSound == pc \in Working => Sound(msg)
AdminSound == admin # None => Sound(admin.message)
ReportSound == passNow <= now /\ (pc = "record" => Backed(<<cur, passNow>>, passNow))

CopiesSound ==
    ClientsSound /\ QueueSound /\ BatchSound /\ WorkSound /\ AdminSound /\ ReportSound

SoundInv == TypeOK /\ CopiesSound /\ RatesBounded

(* A body stored now backs what is created at or before now, and takes        *)
(* nothing from what was backed.                                              *)
LEMMA PutBacks ==
    ASSUME TypeOK, NEW g, PutBlob(g), UNCHANGED <<now, doomed>>, NEW t \in Nat
    PROVE  /\ t <= now => Backed(g, t)'
           /\ \A h : Backed(h, t) => Backed(h, t)'
<1>1. now \in Nat /\ \A h \in DOMAIN blobs : blobs[h] \in Nat
  BY DEF TypeOK, MailType
<1>2. /\ DOMAIN blobs' = DOMAIN blobs \cup {g} /\ blobs'[g] = now
      /\ \A h \in DOMAIN blobs : h # g => blobs'[h] = blobs[h]
      /\ raced \subseteq raced' /\ (g \in doomed => g \in raced')
  BY DEF PutBlob
<1>3. t <= now => Backed(g, t)'
  BY <1>1, <1>2 DEF Backed
<1>4. ASSUME NEW h, Backed(h, t), h # g PROVE Backed(h, t)'
  BY <1>1, <1>2, <1>4 DEF Backed
<1>. QED  BY <1>3, <1>4 DEF Backed

LEMMA BackedKept ==
    ASSUME TypeOK, [Next]_vars, NEW t \in Nat, NEW h, Backed(h, t)
    PROVE  Backed(h, t)'
<1>0. now \in Nat /\ t + PurgeGrace \in Nat /\ \A g \in DOMAIN blobs : blobs[g] \in Nat
  BY OutboundQueueAssumption DEF TypeOK, MailType
<1>1. CASE UNCHANGED <<now, blobs, raced, doomed>>
  BY <1>1 DEF Backed
<1>2. ASSUME NEW g, PutBlob(g), UNCHANGED <<now, doomed>> PROVE Backed(h, t)'
  BY <1>2, PutBacks
<1>3. CASE Tick
  <2>1. now' = now + 1 /\ UNCHANGED <<blobs, raced, doomed>>
    BY <1>3 DEF Tick, history
  <2>. QED  BY <1>0, <2>1 DEF Backed
<1>4. CASE PurgeList
  <2>1. /\ UNCHANGED <<now, blobs, raced>>
        /\ doomed' = {g \in DOMAIN blobs : blobs[g] + PurgeGrace <= now}
    BY <1>4 DEF PurgeList, mailVars
  <2>2. h \in DOMAIN blobs /\ blobs[h] >= t /\ h \in doomed' => now >= t + PurgeGrace
    BY <1>0, <2>1, OutboundQueueAssumption
  <2>. QED  BY <2>1, <2>2 DEF Backed
<1>5. CASE PurgeDelete
  <2>1. PICK g \in doomed : blobs' = [f \in DOMAIN blobs \ {g} |-> blobs[f]]
                            /\ doomed' = doomed \ {g}
    BY <1>5 DEF PurgeDelete
  <2>2. UNCHANGED <<now, raced>>
    BY <1>5 DEF PurgeDelete, history
  <2>. QED  BY <2>1, <2>2 DEF Backed
<1>6. CASE Crash
  <2>1. UNCHANGED <<now, blobs, raced>> /\ doomed' = {}
    BY <1>6 DEF Crash, mailVars
  <2>. QED  BY <2>1 DEF Backed
<1>7. ASSUME NEW c \in Clients, Caller(c) PROVE Backed(h, t)'
  <2>1. CASE StoreBody(c)
    BY <1>2, <2>1 DEF StoreBody
  <2>2. CASE Publish(c) \/ ClientNudge(c) \/ EnqueueFails(c)
    BY <1>1, <2>2 DEF Publish, ClientNudge, EnqueueFails, mailVars
  <2>. QED  BY <1>7, <2>1, <2>2 DEF Caller
<1>8. CASE Administrator
  BY <1>1, <1>8 DEF Administrator, RetryLoad, RetryPersist, RetryNudge, AdminDelete, mailVars
<1>9. CASE Manager
  <2>1. CASE StoreReport
    BY <1>2, <2>1 DEF StoreReport
  <2>2. CASE Scan \/ StartPass \/ TakeMessage \/ EndPass \/ WakeByToken \/ WakeByTimer \/ Restart
    BY <1>1, <2>2 DEF Scan, StartPass, TakeMessage, EndPass, WakeByToken, WakeByTimer, Restart,
                      mailVars, history
  <2>3. CASE ReadBody \/ Attempt \/ AttemptsDone \/ NothingToReport \/ PublishReport \/ Commit
    BY <1>1, <2>3 DEF ReadBody, Attempt, AttemptsDone, NothingToReport, PublishReport, Commit,
                      mailVars, history
  <2>. QED  BY <1>9, <2>1, <2>2, <2>3 DEF Manager
<1>10. CASE ScanFails \/ PassFails
  BY <1>1, <1>10 DEF ScanFails, PassFails, mailVars
<1>11. CASE UNCHANGED vars
  BY <1>1, <1>11 DEF vars, mailVars, history
<1>. QED
  BY <1>3, <1>4, <1>5, <1>6, <1>7, <1>8, <1>9, <1>10, <1>11 DEF Next, Failure

(* What a copy has it keeps. *)
LEMMA SoundKept ==
    ASSUME TypeOK, [Next]_vars, NEW m \in Message, Sound(m)
    PROVE  Sound(m)'
<1>1. m.created \in Nat
  BY DEF Message, QueuedMessage
<1>2. \A h, t : h = m.blob /\ t = m.created => Backed(h, t)'
  BY <1>1, BackedKept DEF Sound
<1>. QED  BY <1>2 DEF Sound

(* A message with its recipients replaced: each has the limit it had, and if  *)
(* pending, the attempts it had or fewer than the limit.                      *)
LEMMA RemadeSound ==
    ASSUME NEW m \in Message, NEW n \in Message, Slots(n) = Slots(m), AttemptsLeft(m),
           n.blob = m.blob, n.created = m.created,
           \A s \in Slots(m) : IsPending(n.recipients[s]) =>
               \/ /\ IsPending(m.recipients[s]) /\ n.recipients[s].expiry = m.recipients[s].expiry
                  /\ n.recipients[s].attempts = m.recipients[s].attempts
               \/ n.recipients[s].expiry.kind = "attempts" =>
                      n.recipients[s].attempts < n.recipients[s].expiry.limit
    PROVE  AttemptsLeft(n) /\ (Sound(m) => Sound(n))
<1>1. AttemptsLeft(n)
  BY DEF AttemptsLeft, PendingSlots
<1>. QED  BY <1>1 DEF Sound

LEMMA HoldBackSound ==
    ASSUME NEW m \in Message, NEW t \in Nat, Sound(m)
    PROVE  Sound(HoldBack(m, t))
<1>. DEFINE n == HoldBack(m, t)
<1>0. m \in QueuedMessage /\ n \in Message /\ Slots(n) = Slots(m)
  BY HoldBackType DEF Message
<1>1. n.blob = m.blob /\ n.created = m.created
  BY <1>0 DEF HoldBack, QueuedMessage
<1>2. ASSUME NEW s \in Slots(m), IsPending(n.recipients[s])
      PROVE  /\ IsPending(m.recipients[s]) /\ n.recipients[s].expiry = m.recipients[s].expiry
             /\ n.recipients[s].attempts = m.recipients[s].attempts
  <2>1. n.recipients[s] = IF IsDue(m.recipients[s], t)
             THEN [m.recipients[s] EXCEPT !.due = WindowEnd(t), !.status = "deferred"]
             ELSE m.recipients[s]
    BY <1>0 DEF HoldBack, QueuedMessage, Slots
  <2>2. m.recipients[s] \in QueueRecipient
    BY SlotType
  <2>. QED  BY <1>2, <2>1, <2>2 DEF IsDue, QueueRecipient
<1>. HIDE DEF n
<1>3. Sound(n)
  BY <1>0, <1>1, <1>2, RemadeSound DEF Sound
<1>. QED  BY <1>3 DEF n

LEMMA DueNowSound ==
    ASSUME NEW m \in Message, NEW t \in Nat, Sound(m)
    PROVE  Sound(DueNow(m, t))
<1>. DEFINE n == DueNow(m, t)
<1>0. m \in QueuedMessage /\ n \in Message /\ Slots(n) = Slots(m)
  BY DueNowType DEF Message
<1>1. n.blob = m.blob /\ n.created = m.created
  BY <1>0 DEF DueNow, QueuedMessage
<1>2. ASSUME NEW s \in Slots(m), IsPending(n.recipients[s])
      PROVE  /\ IsPending(m.recipients[s]) /\ n.recipients[s].expiry = m.recipients[s].expiry
             /\ n.recipients[s].attempts = m.recipients[s].attempts
  <2>1. n.recipients[s] = IF IsPending(m.recipients[s]) THEN [m.recipients[s] EXCEPT !.due = t]
                                                        ELSE m.recipients[s]
    BY <1>0 DEF DueNow, QueuedMessage, Slots
  <2>2. m.recipients[s] \in QueueRecipient
    BY SlotType
  <2>. QED  BY <1>2, <2>1, <2>2 DEF QueueRecipient
<1>. HIDE DEF n
<1>3. Sound(n)
  BY <1>0, <1>1, <1>2, RemadeSound DEF Sound
<1>. QED  BY <1>3 DEF n

LEMMA BounceAllSound ==
    ASSUME NEW m \in Message, Sound(m)
    PROVE  Sound(BounceAll(m))
<1>. DEFINE n == BounceAll(m)
<1>0. m \in QueuedMessage /\ n \in Message /\ Slots(n) = Slots(m)
  BY BounceAllType DEF Message
<1>1. n.blob = m.blob /\ n.created = m.created
  BY <1>0 DEF BounceAll, QueuedMessage
<1>2. ASSUME NEW s \in Slots(m) PROVE ~IsPending(n.recipients[s])
  <2>1. m.recipients[s] \in QueueRecipient
    BY SlotType
  <2>. QED  BY <2>1, BounceAllType DEF IsPending, QueueRecipient
<1>. HIDE DEF n
<1>3. Sound(n)
  BY <1>0, <1>1, <1>2, RemadeSound DEF Sound
<1>. QED  BY <1>3 DEF n

(* The deadline is checked before the next attempt is scheduled. *)
LEMMA AfterAttemptSound ==
    ASSUME NEW m \in Message, NEW t \in Nat, NEW attempt \in Attempts, NEW slot \in Slots(m),
           Sound(m)
    PROVE  Sound(AfterAttempt(m, slot, attempt, t))
<1>. DEFINE n == AfterAttempt(m, slot, attempt, t)
<1>0. m \in QueuedMessage /\ n \in Message /\ Slots(n) = Slots(m)
  BY AfterAttemptType DEF Message
<1>1. n.blob = m.blob /\ n.created = m.created
  BY <1>0 DEF AfterAttempt, QueuedMessage
<1>2. ASSUME NEW s \in Slots(m), IsPending(n.recipients[s]), s # slot
      PROVE  /\ IsPending(m.recipients[s]) /\ n.recipients[s].expiry = m.recipients[s].expiry
             /\ n.recipients[s].attempts = m.recipients[s].attempts
  BY <1>2, AfterAttemptType
<1>3. ASSUME NEW r \in QueueRecipient, IsPending(ApplyAttempt(r, attempt, t)),
             ApplyAttempt(r, attempt, t).expiry.kind = "attempts"
      PROVE  ApplyAttempt(r, attempt, t).attempts < ApplyAttempt(r, attempt, t).expiry.limit
  <2>. DEFINE a == AfterDeferral(r, t)
  <2>0. r.attempts \in Nat /\ r.expiry.limit \in Nat /\ r.expiry.kind \in {"at", "attempts"}
    BY DEF QueueRecipient, Expiries
  <2>1. ApplyAttempt(r, attempt, t) = a
    BY <1>3 DEF ApplyAttempt, IsPending, QueueRecipient
  <2>2. ~IsExpired(r.expiry, r.attempts + 1, t) /\ a.attempts = r.attempts + 1 /\ a.expiry = r.expiry
    BY <1>3, <2>1 DEF AfterDeferral, IsPending, QueueRecipient
  <2>3. ~(r.attempts + 1 >= r.expiry.limit)
    BY <1>3, <2>1, <2>2 DEF IsExpired
  <2>. HIDE DEF a
  <2>. QED  BY <2>0, <2>1, <2>2, <2>3
<1>4. ASSUME IsPending(n.recipients[slot])
      PROVE  n.recipients[slot].expiry.kind = "attempts" =>
                 n.recipients[slot].attempts < n.recipients[slot].expiry.limit
  <2>1. n.recipients[slot] = ApplyAttempt(m.recipients[slot], attempt, t)
        /\ m.recipients[slot] \in QueueRecipient
    BY AfterAttemptType, SlotType
  <2>. QED  BY <1>3, <1>4, <2>1
<1>. HIDE DEF n
<1>5. Sound(n)
  BY <1>0, <1>1, <1>2, <1>4, RemadeSound DEF Sound
<1>. QED  BY <1>5 DEF n

LEMMA NewMessageFacts ==
    ASSUME NEW t \in Nat, NEW h \in Hashes, NEW from \in ReturnPaths, NEW n \in AllSlots,
           NEW kind \in {"at", "attempts"}
    PROVE  LET m == NewMessage(t, h, from, n, kind)
           IN  m \in Message /\ AttemptsLeft(m) /\ m.blob = h /\ m.created = t
<1>. DEFINE m == NewMessage(t, h, from, n, kind)
<1>1. m \in Message
  BY NewMessageType
<1>2. m.blob = h /\ m.created = t /\ m.recipients = [s \in 1..n |-> NewRecipient(t, ExpiryOf(kind, t))]
  BY DEF NewMessage
<1>3. \A s \in Slots(m) : m.recipients[s] = NewRecipient(t, ExpiryOf(kind, t))
  BY <1>2 DEF Slots
<1>4. NewRecipient(t, ExpiryOf(kind, t)).attempts = 0
      /\ NewRecipient(t, ExpiryOf(kind, t)).expiry = ExpiryOf(kind, t)
  BY DEF NewRecipient
<1>5. ExpiryOf(kind, t).kind = "attempts" => 0 < ExpiryOf(kind, t).limit
  BY OutboundQueueAssumption DEF ExpiryOf
<1>. HIDE DEF m
<1>6. AttemptsLeft(m)
  BY <1>3, <1>4, <1>5 DEF AttemptsLeft, PendingSlots
<1>. QED  BY <1>1, <1>2, <1>6 DEF m

LEMMA ClockStep == [Next]_vars => now' = now \/ now' = now + 1
<1>. SUFFICES ASSUME Next PROVE now' = now \/ now' = now + 1
  BY DEF vars, mailVars
<1>1. CASE Manager
  BY <1>1 DEF Manager, Scan, StartPass, TakeMessage, ReadBody, Attempt, AttemptsDone,
              NothingToReport, StoreReport, PublishReport, Commit, EndPass, WakeByToken,
              WakeByTimer, Restart, mailVars
<1>2. ASSUME NEW c \in Clients, Caller(c) PROVE now' = now
  BY <1>2 DEF Caller, StoreBody, Publish, ClientNudge, EnqueueFails, mailVars
<1>3. CASE Administrator \/ PurgeList \/ PurgeDelete \/ Failure
  BY <1>3 DEF Administrator, RetryLoad, RetryPersist, RetryNudge, AdminDelete, PurgeList,
              PurgeDelete, Failure, ScanFails, PassFails, Crash, mailVars
<1>. QED  BY <1>1, <1>2, <1>3 DEF Next, Tick

(* The parts a step leaves alone. *)
LEMMA SoundFrame ==
    ASSUME TypeOK, CopiesSound, [Next]_vars
    PROVE  /\ UNCHANGED client => ClientsSound'
           /\ UNCHANGED queue => QueueSound'
           /\ UNCHANGED batch => BatchSound'
           /\ UNCHANGED msg /\ (pc' \in Working => pc \in Working) => WorkSound'
           /\ UNCHANGED admin => AdminSound'
           /\ UNCHANGED <<cur, passNow>> /\ (pc' = "record" => pc = "record") => ReportSound'
<1>0. /\ ClientsSound /\ QueueSound /\ BatchSound /\ WorkSound /\ AdminSound /\ ReportSound
      /\ MailType /\ ManagerType /\ CallerType
  BY DEF CopiesSound, TypeOK
<1>1. \A m \in Message : Sound(m) => Sound(m)'
  BY SoundKept
<1>2. ASSUME UNCHANGED client PROVE ClientsSound'
  <2>. SUFFICES ASSUME NEW c \in Clients, client'[c] # None PROVE Sound(client[c].message)'
    BY <1>2 DEF ClientsSound
  <2>1. client[c] # None /\ client[c].message \in Message
    BY <1>0, <1>2 DEF CallerType, Requests
  <2>2. \A m : m = client[c].message => Sound(m)'
    BY <1>0, <1>1, <2>1 DEF ClientsSound
  <2>. QED  BY <1>2, <2>2 DEF Sound, Backed
<1>3. ASSUME UNCHANGED queue PROVE QueueSound'
  <2>. SUFFICES ASSUME NEW id \in Ids, queue'[id] # None PROVE Sound(queue[id])'
    BY <1>3 DEF QueueSound
  <2>1. queue[id] # None /\ queue[id] \in Message
    BY <1>0, <1>3 DEF MailType
  <2>2. \A m : m = queue[id] => Sound(m)'
    BY <1>0, <1>1, <2>1 DEF QueueSound
  <2>. QED  BY <1>3, <2>2 DEF Sound, Backed
<1>4. ASSUME UNCHANGED batch PROVE BatchSound'
  <2>. SUFFICES ASSUME NEW id \in Ids, batch'[id] # None PROVE Sound(batch[id])'
    BY <1>4 DEF BatchSound
  <2>1. batch[id] # None /\ batch[id] \in Message
    BY <1>0, <1>4 DEF ManagerType
  <2>2. \A m : m = batch[id] => Sound(m)'
    BY <1>0, <1>1, <2>1 DEF BatchSound
  <2>. QED  BY <1>4, <2>2 DEF Sound, Backed
<1>5. ASSUME UNCHANGED msg, pc' \in Working => pc \in Working PROVE WorkSound'
  <2>. SUFFICES ASSUME pc \in Working PROVE Sound(msg)'
    BY <1>5 DEF WorkSound
  <2>1. msg \in Message
    BY <1>0 DEF ManagerType
  <2>2. \A m : m = msg => Sound(m)'
    BY <1>0, <1>1, <2>1 DEF WorkSound
  <2>. QED  BY <1>5, <2>2 DEF Sound, Backed
<1>6. ASSUME UNCHANGED admin PROVE AdminSound'
  <2>. SUFFICES ASSUME admin # None PROVE Sound(admin.message)'
    BY <1>6 DEF AdminSound
  <2>1. admin.message \in Message
    BY <1>0 DEF CallerType, AdminCalls
  <2>2. \A m : m = admin.message => Sound(m)'
    BY <1>0, <1>1, <2>1 DEF AdminSound
  <2>. QED  BY <1>6, <2>2 DEF Sound, Backed
<1>7. ASSUME UNCHANGED <<cur, passNow>>, pc' = "record" => pc = "record" PROVE ReportSound'
  <2>0. passNow \in Nat /\ passNow <= now
    BY <1>0 DEF ManagerType, ReportSound
  <2>2. passNow <= now'
    <3>1. now \in Nat /\ (now' = now \/ now' = now + 1)
      BY <1>0, ClockStep DEF MailType
    <3>. QED  BY <2>0, <3>1
  <2>3. ASSUME pc = "record" PROVE Backed(<<cur, passNow>>, passNow)'
    <3>1. \A h, t : h = <<cur, passNow>> /\ t = passNow => Backed(h, t)'
      BY <1>0, <2>0, <2>3, BackedKept DEF ReportSound
    <3>. QED  BY <1>7, <3>1 DEF Backed
  <2>. QED  BY <1>7, <2>2, <2>3 DEF ReportSound
<1>. QED  BY <1>2, <1>3, <1>4, <1>5, <1>6, <1>7

LEMMA PutSound ==
    ASSUME TypeOK, CopiesSound, [Next]_vars, NEW id \in Ids, NEW m, PutRecord(id, m),
           m # None => Sound(m)'
    PROVE  QueueSound'
<1>1. queue \in Records /\ QueueSound
  BY DEF TypeOK, MailType, CopiesSound
<1>2. ASSUME NEW i \in Ids, queue'[i] # None PROVE \A n : n = queue'[i] => Sound(n)'
  <2>1. CASE i = id
    BY <1>1, <1>2, <2>1 DEF PutRecord
  <2>2. CASE i # id
    <3>1. queue'[i] = queue[i] /\ queue[i] \in Message /\ Sound(queue[i])
      BY <1>1, <1>2, <2>2 DEF PutRecord, QueueSound
    <3>. QED  BY <3>1, SoundKept
  <2>. QED  BY <2>1, <2>2
<1>. QED  BY <1>2 DEF QueueSound, Sound, Backed

LEMMA AskSound ==
    ASSUME TypeOK, CopiesSound, [Next]_vars, NEW c \in Clients, NEW q,
           client' = [client EXCEPT ![c] = q], q # None => Sound(q.message)'
    PROVE  ClientsSound'
<1>1. client \in [Clients -> Requests \cup {None}] /\ ClientsSound
  BY DEF TypeOK, CallerType, CopiesSound
<1>2. ASSUME NEW x \in Clients, client'[x] # None
      PROVE  \A m : m = client'[x].message => Sound(m)'
  <2>1. CASE x = c
    BY <1>1, <1>2, <2>1
  <2>2. CASE x # c
    <3>1. client'[x] = client[x] /\ client[x].message \in Message /\ Sound(client[x].message)
      BY <1>1, <1>2, <2>2 DEF Requests, ClientsSound
    <3>. QED  BY <3>1, SoundKept
  <2>. QED  BY <2>1, <2>2
<1>. QED  BY <1>2 DEF ClientsSound, Sound, Backed

LEMMA CallerSound ==
    ASSUME TypeOK, CopiesSound, NEW c \in Clients, Caller(c)
    PROVE  CopiesSound'
<1>0. [Next]_vars /\ now \in Nat /\ client \in [Clients -> Requests \cup {None}] /\ ClientsSound
  BY DEF Next, TypeOK, MailType, CallerType, CopiesSound
<1>1. CASE StoreBody(c)
  <2>1. PICK r \in ActiveRoutes, b \in Bodies, count \in AllSlots, from \in ReturnPaths :
           /\ client' = [client EXCEPT ![c] =
                 [message |-> NewMessage(now, b, from, count, Route(r).expiry),
                  stage |-> "record", nudges |-> Route(r).nudges, id |-> 0]]
           /\ PutBlob(b)
    BY <1>1 DEF StoreBody
  <2>2. /\ UNCHANGED <<now, doomed, queue, batch, msg, pc, admin, cur, passNow>>
    BY <1>1 DEF StoreBody, managerVars
  <2>3. Route(r).expiry \in {"at", "attempts"} /\ b \in Hashes
    BY DEF Route, Hashes
  <2>4. PICK q : q = [message |-> NewMessage(now, b, from, count, Route(r).expiry),
                      stage |-> "record", nudges |-> Route(r).nudges, id |-> 0]
    OBVIOUS
  <2>5. /\ AttemptsLeft(q.message) /\ q.message.blob = b /\ q.message.created = now
    BY <1>0, <2>3, <2>4, NewMessageFacts
  <2>6. \A t : t = now => Backed(b, t)'
    BY <1>0, <2>1, <2>2, PutBacks
  <2>7. Sound(q.message)'
    BY <2>5, <2>6 DEF Sound
  <2>8. ClientsSound'
    BY <1>0, <2>1, <2>4, <2>7, AskSound
  <2>. QED  BY <1>0, <2>2, <2>8, SoundFrame DEF CopiesSound
<1>2. CASE Publish(c)
  <2>1. PICK m : m = client[c].message
    OBVIOUS
  <2>2. client[c] \in Requests /\ m \in Message /\ Sound(m) /\ lastId + 1 \in Ids
    <3>1. client[c] \in Requests
      BY <1>0, <1>2 DEF Publish
    <3>2. lastId \in 0..MaxId /\ lastId < MaxId /\ MaxId \in Nat
      BY <1>2, OutboundQueueAssumption DEF Publish, TypeOK, MailType
    <3>. QED  BY <1>0, <1>2, <2>1, <3>1, <3>2 DEF Requests, ClientsSound, Publish
  <2>3. Sound(m)'
    BY <1>0, <2>2, SoundKept
  <2>4. QueueSound'
    <3>1. PICK id : id = lastId + 1
      OBVIOUS
    <3>2. PutRecord(id, m) /\ id \in Ids
      BY <1>2, <2>1, <2>2, <3>1 DEF Publish
    <3>. QED  BY <1>0, <2>3, <3>2, PutSound
  <2>5. PICK q : q = IF client[c].nudges
                     THEN [client[c] EXCEPT !.stage = "nudge", !.id = lastId + 1] ELSE None
    OBVIOUS
  <2>6. client' = [client EXCEPT ![c] = q]
    BY <1>2, <2>5 DEF Publish
  <2>7. q # None => q.message = m
    BY <2>1, <2>2, <2>5 DEF Requests
  <2>8. ClientsSound'
    BY <1>0, <2>3, <2>6, <2>7, AskSound
  <2>9. UNCHANGED <<batch, msg, pc, admin, cur, passNow>>
    BY <1>2 DEF Publish, managerVars
  <2>. QED  BY <1>0, <2>4, <2>8, <2>9, SoundFrame DEF CopiesSound
<1>3. CASE ClientNudge(c) \/ EnqueueFails(c)
  <2>1. /\ UNCHANGED <<queue, batch, msg, pc, admin, cur, passNow>>
        /\ client' = [client EXCEPT ![c] = None]
    BY <1>3 DEF ClientNudge, EnqueueFails, mailVars, managerVars
  <2>2. ClientsSound'
    BY <1>0, <2>1, AskSound
  <2>. QED  BY <1>0, <2>1, <2>2, SoundFrame DEF CopiesSound
<1>. QED  BY <1>1, <1>2, <1>3 DEF Caller

LEMMA AdministratorSound ==
    ASSUME TypeOK, CopiesSound, Administrator \/ PurgeList \/ PurgeDelete
    PROVE  CopiesSound'
<1>0. /\ [Next]_vars /\ queue \in Records /\ admin \in AdminCalls \cup {None}
      /\ QueueSound /\ AdminSound
  BY DEF Next, TypeOK, MailType, CallerType, CopiesSound
<1>1. CASE RetryLoad
  <2>1. PICK id \in Ids : /\ queue[id] # None
           /\ admin' = [op |-> "persist", id |-> id, message |-> queue[id], at |-> now]
    BY <1>1 DEF RetryLoad
  <2>2. UNCHANGED <<queue, client, batch, msg, pc, cur, passNow>>
    BY <1>1 DEF RetryLoad, mailVars, managerVars
  <2>3. queue[id] \in Message /\ Sound(queue[id])
    BY <1>0, <2>1 DEF QueueSound
  <2>4. \A m : m = admin'.message => Sound(m)'
    BY <1>0, <2>1, <2>3, SoundKept
  <2>5. AdminSound'
    BY <2>4 DEF AdminSound, Sound, Backed
  <2>. QED  BY <1>0, <2>2, <2>5, SoundFrame DEF CopiesSound
<1>2. CASE RetryPersist
  <2>1. admin \in AdminCalls /\ Sound(admin.message)
    BY <1>0, <1>2 DEF RetryPersist, AdminSound
  <2>2. admin.message \in Message /\ admin.at \in Nat /\ admin.id \in Ids
    BY <2>1 DEF AdminCalls
  <2>3. PICK id, m : id = admin.id /\ m = DueNow(admin.message, admin.at)
    OBVIOUS
  <2>4. Sound(m) /\ m \in Message
    BY <2>1, <2>2, <2>3, DueNowSound, DueNowType
  <2>5. Sound(m)' /\ PutRecord(id, m)
    BY <1>0, <1>2, <2>3, <2>4, SoundKept DEF RetryPersist
  <2>6. QueueSound'
    BY <1>0, <2>2, <2>3, <2>5, PutSound
  <2>7. admin'.message = admin.message
    BY <1>2, <2>1 DEF RetryPersist, AdminCalls
  <2>8. \A n : n = admin'.message => Sound(n)'
    BY <1>0, <2>1, <2>2, <2>7, SoundKept
  <2>9. AdminSound'
    BY <2>8 DEF AdminSound, Sound, Backed
  <2>10. UNCHANGED <<client, batch, msg, pc, cur, passNow>>
    BY <1>2 DEF RetryPersist, managerVars
  <2>. QED  BY <1>0, <2>6, <2>9, <2>10, SoundFrame DEF CopiesSound
<1>3. CASE RetryNudge
  <2>1. UNCHANGED <<queue, client, batch, msg, pc, cur, passNow>> /\ admin' = None
    BY <1>3 DEF RetryNudge, mailVars, managerVars
  <2>2. AdminSound'
    BY <2>1 DEF AdminSound
  <2>. QED  BY <1>0, <2>1, <2>2, SoundFrame DEF CopiesSound
<1>4. CASE AdminDelete
  <2>1. PICK id \in Ids : PutRecord(id, None)
    BY <1>4 DEF AdminDelete
  <2>2. QueueSound'
    BY <1>0, <2>1, PutSound
  <2>3. UNCHANGED <<admin, client, batch, msg, pc, cur, passNow>>
    BY <1>4 DEF AdminDelete, managerVars
  <2>. QED  BY <1>0, <2>2, <2>3, SoundFrame DEF CopiesSound
<1>5. CASE PurgeList \/ PurgeDelete
  <2>1. UNCHANGED <<queue, admin, client, batch, msg, pc, cur, passNow>>
    BY <1>5 DEF PurgeList, PurgeDelete, mailVars, managerVars
  <2>. QED  BY <1>0, <2>1, SoundFrame DEF CopiesSound
<1>. QED  BY <1>1, <1>2, <1>3, <1>4, <1>5 DEF Administrator

(* The manager between passes, the crash and the clock. *)
LEMMA LoopSound ==
    ASSUME TypeOK, CopiesSound,
           \/ Scan \/ ScanFails \/ StartPass \/ EndPass \/ WakeByToken \/ WakeByTimer
           \/ Crash \/ Restart \/ Tick
    PROVE  CopiesSound'
<1>0. /\ [Next]_vars /\ queue \in Records /\ now \in Nat
      /\ QueueSound /\ ReportSound
  BY DEF Next, Manager, Failure, TypeOK, MailType, CopiesSound
<1>1. CASE Scan
  <2>1. /\ UNCHANGED <<queue, client, admin, msg, cur, passNow>> /\ pc' = "start"
        /\ batch' = [id \in Ids |-> IF id \in DueIds(now) THEN queue[id] ELSE None]
    BY <1>1 DEF Scan, mailVars
  <2>2. ASSUME NEW id \in Ids, batch'[id] # None PROVE \A m : m = batch'[id] => Sound(m)'
    <3>1. batch'[id] = queue[id] /\ queue[id] \in Message /\ Sound(queue[id])
      BY <1>0, <2>1, <2>2 DEF QueueSound
    <3>. QED  BY <1>0, <3>1, SoundKept
  <2>3. BatchSound'
    BY <2>2 DEF BatchSound, Sound, Backed
  <2>. QED  BY <1>0, <2>1, <2>3, SoundFrame DEF CopiesSound
<1>2. CASE ScanFails
  <2>1. UNCHANGED <<queue, client, admin, msg, cur, passNow>> /\ pc' = "start" /\ batch' = NoBatch
    BY <1>2 DEF ScanFails, mailVars
  <2>2. BatchSound'
    BY <2>1 DEF BatchSound, NoBatch
  <2>. QED  BY <1>0, <2>1, <2>2, SoundFrame DEF CopiesSound
<1>3. CASE StartPass \/ EndPass
  <2>1. /\ UNCHANGED <<now, queue, client, admin, batch, msg>> /\ pc' \in {"next", "sleep"}
        /\ passNow' \in {0, now}
    BY <1>3 DEF StartPass, EndPass, mailVars
  <2>2. ReportSound'
    BY <1>0, <2>1 DEF ReportSound
  <2>. QED  BY <1>0, <2>1, <2>2, SoundFrame DEF CopiesSound
<1>4. CASE WakeByToken \/ WakeByTimer \/ Restart
  <2>1. UNCHANGED <<queue, client, admin, batch, msg, cur, passNow>> /\ pc' = "scan"
    BY <1>4 DEF WakeByToken, WakeByTimer, Restart, mailVars
  <2>. QED  BY <1>0, <2>1, SoundFrame DEF CopiesSound
<1>5. CASE Crash
  <2>1. /\ UNCHANGED <<now, queue>> /\ pc' = "down" /\ batch' = NoBatch /\ passNow' = 0
        /\ client' = [c \in Clients |-> None] /\ admin' = None
    BY <1>5 DEF Crash, mailVars
  <2>2. BatchSound' /\ ClientsSound' /\ AdminSound' /\ WorkSound'
    BY <2>1 DEF BatchSound, NoBatch, ClientsSound, AdminSound, WorkSound
  <2>3. ReportSound'
    BY <1>0, <2>1 DEF ReportSound
  <2>. QED  BY <1>0, <2>1, <2>2, <2>3, SoundFrame DEF CopiesSound
<1>6. CASE Tick
  <2>1. UNCHANGED <<queue, client, admin, batch, msg, cur, passNow, pc>>
    BY <1>6 DEF Tick, managerVars
  <2>. QED  BY <1>0, <2>1, SoundFrame DEF CopiesSound
<1>. QED  BY <1>1, <1>2, <1>3, <1>4, <1>5, <1>6

(* process_message. *)
LEMMA PassSound ==
    ASSUME TypeOK, CopiesSound,
           \/ TakeMessage \/ ReadBody \/ Attempt \/ AttemptsDone \/ NothingToReport
           \/ StoreReport \/ PublishReport \/ Commit \/ PassFails
    PROVE  CopiesSound'
<1>0. /\ [Next]_vars /\ queue \in Records /\ batch \in Records /\ passNow \in Nat /\ now \in Nat
      /\ BatchSound /\ WorkSound /\ ReportSound /\ ManagerType
  BY DEF Next, Manager, Failure, TypeOK, MailType, ManagerType, CopiesSound
<1>1. CASE TakeMessage
  <2>1. FirstId \in Ids /\ batch[FirstId] \in Message
    BY <1>0, <1>1, FirstIdType DEF TakeMessage
  <2>2. Sound(batch[FirstId])
    BY <1>0, <2>1, NotNone DEF BatchSound
  <2>3. /\ UNCHANGED <<queue, client, admin, passNow>> /\ pc' \in {"commit", "body"}
        /\ batch' = [batch EXCEPT ![FirstId] = None] /\ cur' = FirstId
        /\ msg' = batch[FirstId] \/ msg' = HoldBack(batch[FirstId], passNow)
    BY <1>1 DEF TakeMessage, mailVars
  <2>4. PICK m : m = msg'
    OBVIOUS
  <2>5. m \in Message /\ Sound(m)
    BY <1>0, <2>1, <2>2, <2>3, <2>4, HoldBackSound, HoldBackType
  <2>6. Sound(m)'
    BY <1>0, <2>5, SoundKept
  <2>7. WorkSound'
    BY <2>4, <2>6 DEF WorkSound
  <2>8. BatchSound'
    <3>1. ASSUME NEW id \in Ids, batch'[id] # None PROVE \A n : n = batch'[id] => Sound(n)'
      <4>1. batch'[id] = batch[id] /\ batch[id] \in Message /\ Sound(batch[id])
        BY <1>0, <2>1, <2>3, <3>1 DEF BatchSound
      <4>. QED  BY <1>0, <4>1, SoundKept
    <3>. QED  BY <3>1 DEF BatchSound, Sound, Backed
  <2>9. ReportSound'
    <3>1. passNow <= now'
      BY <1>0, ClockStep DEF ReportSound
    <3>. QED  BY <2>3, <3>1 DEF ReportSound
  <2>. QED  BY <1>0, <2>3, <2>7, <2>8, <2>9, SoundFrame DEF CopiesSound
<1>2. CASE ReadBody
  <2>1. msg \in Message /\ Sound(msg)
    BY <1>0, <1>2 DEF ReadBody, ManagerType, WorkSound
  <2>2. /\ UNCHANGED <<queue, client, admin, batch, cur, passNow>> /\ pc' \in {"attempt", "report"}
        /\ msg' = msg \/ msg' = BounceAll(msg)
    BY <1>2 DEF ReadBody, mailVars
  <2>3. PICK m : m = msg'
    OBVIOUS
  <2>4. m \in Message /\ Sound(m)
    BY <2>1, <2>2, <2>3, BounceAllSound, BounceAllType
  <2>5. Sound(m)'
    BY <1>0, <2>4, SoundKept
  <2>6. WorkSound'
    BY <2>3, <2>5 DEF WorkSound
  <2>. QED  BY <1>0, <2>2, <2>6, SoundFrame DEF CopiesSound
<1>3. CASE Attempt
  <2>1. msg \in Message /\ Sound(msg) /\ NextSlot \in Slots(msg)
    BY <1>0, <1>3, NextSlotType DEF Attempt, ManagerType, WorkSound
  <2>2. UNCHANGED <<queue, client, admin, batch, cur, passNow, pc>>
    BY <1>3 DEF Attempt, mailVars
  <2>3. PICK attempt \in Attempts : msg' = AfterAttempt(msg, NextSlot, attempt, passNow)
    BY <1>3 DEF Attempt
  <2>4. PICK m : m = msg'
    OBVIOUS
  <2>5. m \in Message /\ Sound(m)
    BY <1>0, <2>1, <2>3, <2>4, AfterAttemptSound, AfterAttemptType
  <2>6. Sound(m)'
    BY <1>0, <2>5, SoundKept
  <2>7. WorkSound'
    BY <2>4, <2>6 DEF WorkSound
  <2>. QED  BY <1>0, <2>2, <2>7, SoundFrame DEF CopiesSound
<1>4. CASE AttemptsDone \/ NothingToReport
  <2>1. /\ UNCHANGED <<queue, client, admin, batch, msg, cur, passNow>>
        /\ pc \in Working /\ pc' \in {"report", "commit"}
    BY <1>4 DEF AttemptsDone, NothingToReport, mailVars
  <2>. QED  BY <1>0, <2>1, SoundFrame DEF CopiesSound
<1>5. CASE StoreReport
  <2>1. /\ UNCHANGED <<now, doomed, queue, client, admin, batch, msg, cur, passNow>>
        /\ pc \in Working /\ pc' = "record"
    BY <1>5 DEF StoreReport
  <2>2. PICK h, t : h = <<cur, passNow>> /\ t = passNow
    OBVIOUS
  <2>3. Backed(h, t)'
    BY <1>0, <1>5, <2>1, <2>2, PutBacks DEF StoreReport, ReportSound
  <2>4. ReportSound'
    BY <1>0, <2>1, <2>2, <2>3 DEF ReportSound
  <2>. QED  BY <1>0, <2>1, <2>4, SoundFrame DEF CopiesSound
<1>6. CASE PublishReport
  <2>1. cur \in Nat /\ lastId + 1 \in Ids /\ 1 \in AllSlots
    BY <1>0, <1>6, OutboundQueueAssumption DEF PublishReport, ManagerType, TypeOK, MailType
  <2>2. <<cur, passNow>> \in Hashes /\ NullSender \in ReturnPaths
    BY <1>0, <2>1, DsnHashType DEF ReturnPaths
  <2>3. PICK id, m : id = lastId + 1 /\ m = NewMessage(passNow, <<cur, passNow>>, NullSender, 1, "at")
    OBVIOUS
  <2>4. /\ m \in Message /\ AttemptsLeft(m) /\ m.blob = <<cur, passNow>> /\ m.created = passNow
    BY <1>0, <2>1, <2>2, <2>3, NewMessageFacts
  <2>5. Sound(m)
    BY <1>0, <1>6, <2>4 DEF Sound, ReportSound, PublishReport
  <2>6. Sound(m)' /\ PutRecord(id, m)
    BY <1>0, <1>6, <2>3, <2>4, <2>5, SoundKept DEF PublishReport
  <2>7. QueueSound'
    BY <1>0, <2>1, <2>3, <2>6, PutSound
  <2>8. UNCHANGED <<client, admin, batch, msg, cur, passNow>> /\ pc \in Working /\ pc' = "commit"
    BY <1>6 DEF PublishReport
  <2>. QED  BY <1>0, <2>7, <2>8, SoundFrame DEF CopiesSound
<1>7. CASE Commit \/ PassFails
  <2>1. UNCHANGED <<now, client, admin, batch, passNow>> /\ pc' = "next"
    BY <1>7 DEF Commit, PassFails, DropWork, mailVars
  <2>2. WorkSound' /\ ReportSound'
    BY <1>0, <2>1 DEF WorkSound, ReportSound
  <2>3. CASE Commit
    <3>1. cur \in Ids /\ msg \in Message /\ Sound(msg)
      BY <1>0, <2>3 DEF Commit, ManagerType, WorkSound
    <3>2. PICK id, m : id = cur /\ m = IF IsComplete(msg) THEN None ELSE msg
      OBVIOUS
    <3>3. PutRecord(id, m) /\ (m # None => Sound(m)')
      BY <1>0, <2>3, <3>1, <3>2, SoundKept DEF Commit
    <3>4. QueueSound'
      BY <1>0, <3>1, <3>2, <3>3, PutSound
    <3>. QED  BY <1>0, <2>1, <2>2, <3>4, SoundFrame DEF CopiesSound
  <2>4. CASE PassFails
    <3>1. UNCHANGED queue
      BY <2>4 DEF PassFails, mailVars
    <3>. QED  BY <1>0, <2>1, <2>2, <3>1, SoundFrame DEF CopiesSound
  <2>. QED  BY <1>7, <2>3, <2>4
<1>. QED  BY <1>1, <1>2, <1>3, <1>4, <1>5, <1>6, <1>7

(* The limiter asks before it counts. *)
LEMMA RatesStep ==
    ASSUME TypeOK, RatesBounded, [Next]_vars
    PROVE  RatesBounded'
<1>1. CASE UNCHANGED rate
  BY <1>1 DEF RatesBounded, RateLimit
<1>2. CASE rate'.count = NoCounts
  BY <1>2 DEF RatesBounded, NoCounts
<1>3. ASSUME NEW from, RateAllows(from), RateRecord(from) PROVE RatesBounded'
  <2>1. /\ Counts \in [AllRateKeys -> Nat]
        /\ \A key \in AllRateKeys : Counts[key] > 0 => Counts[key] <= RateLimit(key)
    BY NoCountsType DEF Counts, TypeOK, ManagerType, RatesBounded, NoCounts
  <2>2. \A key \in AllRateKeys : RateLimit(key) \in Nat
    BY OutboundQueueAssumption DEF RateLimit
  <2>3. ASSUME NEW key \in AllRateKeys, rate'.count[key] > 0
        PROVE  rate'.count[key] <= RateLimit(key)
    <3>1. rate'.count[key] = IF key \in RateKeys(from) THEN Counts[key] + 1 ELSE Counts[key]
      BY <1>3 DEF RateRecord
    <3>2. key \in RateKeys(from) => Counts[key] < RateLimit(key)
      BY <1>3 DEF RateAllows
    <3>. QED  BY <2>1, <2>2, <2>3, <3>1, <3>2
  <2>. QED  BY <2>3 DEF RatesBounded, RateLimit
<1>4. CASE TakeMessage
  <2>1. \/ UNCHANGED rate
        \/ RateAllows(batch[FirstId].returnPath) /\ RateRecord(batch[FirstId].returnPath)
    BY <1>4 DEF TakeMessage
  <2>. QED  BY <1>1, <1>3, <2>1
<1>5. CASE Crash
  BY <1>2, <1>5 DEF Crash
<1>6. CASE Manager
  BY <1>1, <1>4, <1>6 DEF Manager, Scan, StartPass, ReadBody, Attempt, AttemptsDone,
     NothingToReport, StoreReport, PublishReport, Commit, EndPass, WakeByToken, WakeByTimer, Restart
<1>7. ASSUME NEW c \in Clients, Caller(c) PROVE RatesBounded'
  BY <1>1, <1>7 DEF Caller, StoreBody, Publish, ClientNudge, EnqueueFails, managerVars
<1>8. CASE Administrator \/ PurgeList \/ PurgeDelete \/ ScanFails \/ PassFails \/ Tick
  BY <1>1, <1>8 DEF Administrator, RetryLoad, RetryPersist, RetryNudge, AdminDelete, PurgeList,
     PurgeDelete, ScanFails, PassFails, Tick, managerVars
<1>9. CASE UNCHANGED vars
  BY <1>1, <1>9 DEF vars, managerVars
<1>. QED  BY <1>5, <1>6, <1>7, <1>8, <1>9 DEF Next, Failure

LEMMA SoundInit == Init => SoundInv
<1>. SUFFICES ASSUME Init PROVE SoundInv
  OBVIOUS
<1>1. ClientsSound /\ QueueSound /\ BatchSound /\ WorkSound /\ AdminSound /\ ReportSound
  BY DEF Init, NoBatch, ClientsSound, QueueSound, BatchSound, WorkSound, AdminSound, ReportSound
<1>2. RatesBounded
  BY DEF Init, RatesBounded, NoCounts
<1>. QED  BY <1>1, <1>2, InitType DEF SoundInv, CopiesSound

LEMMA SoundStep == SoundInv /\ [Next]_vars => SoundInv'
<1>. SUFFICES ASSUME TypeOK, CopiesSound, RatesBounded, [Next]_vars PROVE SoundInv'
  BY DEF SoundInv
<1>1. CASE UNCHANGED vars
  <2>1. UNCHANGED <<queue, client, admin, batch, msg, cur, passNow, pc>>
    BY <1>1 DEF vars, mailVars, managerVars
  <2>. QED  BY <2>1, SoundFrame, RatesStep, TypeStep DEF CopiesSound, SoundInv
<1>2. CASE Next
  <2>1. CopiesSound'
    BY <1>2, CallerSound, AdministratorSound, LoopSound, PassSound DEF Next, Manager, Failure
  <2>. QED  BY <2>1, RatesStep, TypeStep DEF SoundInv
<1>. QED  BY <1>1, <1>2

LEMMA SoundInvariant == Spec => []SoundInv
BY SoundInit, SoundStep, PTL DEF Spec

(* A recipient that is still pending has attempts left, whatever copies of    *)
(* its message the manager, the administrator's retry and the limiter pass    *)
(* around, and no window lets more messages of a sender or a domain through   *)
(* than the limits say.                                                       *)
THEOREM LimitsKept == Spec => []WithinLimits
<1>1. SoundInv => WithinLimits
  BY DEF SoundInv, CopiesSound, QueueSound, Sound, AttemptsLeft, RatesBounded, WithinLimits
<1>. QED  BY <1>1, SoundInvariant, PTL

(* A record younger than the purge grace period has its body, unless that     *)
(* body was stored again while a purge had already marked it: whoever writes  *)
(* or rewrites the record, and however the purge interleaves.                 *)
THEOREM FreshRecordsHaveBodies == Spec => []FreshRecordHasBody
<1>1. SoundInv => FreshRecordHasBody
  <2>. SUFFICES ASSUME SoundInv, NEW id \in Ids, queue[id] # None,
                       now < queue[id].created + PurgeGrace, queue[id].blob \notin raced
                PROVE  queue[id].blob \in DOMAIN blobs
    BY DEF FreshRecordHasBody
  <2>1. Backed(queue[id].blob, queue[id].created)
    BY DEF SoundInv, CopiesSound, QueueSound, Sound
  <2>2. now \in Nat /\ queue[id].created + PurgeGrace \in Nat
    <3>1. queue[id] \in Message /\ now \in Nat
      BY DEF SoundInv, TypeOK, MailType
    <3>2. queue[id].created \in Nat
      BY <3>1 DEF Message, QueuedMessage
    <3>. QED  BY <3>1, <3>2, OutboundQueueAssumption
  <2>. QED  BY <2>1, <2>2 DEF Backed
<1>. QED  BY <1>1, SoundInvariant, PTL
=============================================================================
