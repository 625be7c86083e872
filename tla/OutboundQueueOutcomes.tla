----------------------- MODULE OutboundQueueOutcomes -----------------------
(* What the queue promises about each recipient: the proofs of NudgeNotLost, *)
(* AtMostOneOutcome and NoSilentLoss, and that the queue implements          *)
(* MailTransfer.                                                             *)
EXTENDS OutboundQueueProofs

USE DEF Ids, AllSlots, Records, Working

LEMMA NudgeInit == Init => NudgeNotLost
BY DEF Init, NudgeNotLost

LEMMA NudgeStep == NudgeNotLost /\ [Next]_vars => NudgeNotLost'
<1>. SUFFICES ASSUME NudgeNotLost, [Next]_vars PROVE NudgeNotLost'
  OBVIOUS
<1>. USE DEF NudgeNotLost
<1>1. CASE Scan \/ ScanFails \/ Crash
  BY <1>1 DEF Scan, ScanFails, Crash
<1>2. CASE WakeByToken \/ WakeByTimer \/ Restart
  BY <1>2 DEF WakeByToken, WakeByTimer, Restart
<1>3. CASE RetryNudge \/ \E c \in Clients : ClientNudge(c)
  BY <1>3 DEF RetryNudge, ClientNudge
<1>4. CASE StartPass \/ TakeMessage \/ ReadBody \/ Attempt \/ AttemptsDone \/ NothingToReport
           \/ StoreReport \/ PublishReport \/ Commit \/ EndPass \/ PassFails
  BY <1>4 DEF StartPass, TakeMessage, ReadBody, Attempt, AttemptsDone, NothingToReport,
              StoreReport, PublishReport, Commit, EndPass, PassFails, DropWork, history
<1>5. CASE \E c \in Clients : StoreBody(c) \/ Publish(c) \/ EnqueueFails(c)
  BY <1>5 DEF StoreBody, Publish, EnqueueFails, managerVars
<1>6. CASE RetryLoad \/ RetryPersist \/ AdminDelete \/ PurgeList \/ PurgeDelete \/ Tick
  BY <1>6 DEF RetryLoad, RetryPersist, AdminDelete, PurgeList, PurgeDelete, Tick, managerVars, history
<1>7. CASE UNCHANGED vars
  BY <1>7 DEF vars, managerVars, history
<1>. QED  BY <1>1, <1>2, <1>3, <1>4, <1>5, <1>6, <1>7
          DEF Next, Manager, Caller, Administrator, Failure

(* A nudge is never lost: once a message was published or retried with one,   *)
(* the manager's channel keeps its token until the manager scans again.       *)
THEOREM NudgeNeverLost == Spec => []NudgeNotLost
BY NudgeInit, NudgeStep, PTL DEF Spec

----------------------------------------------------------------------------
(* At most one outcome per recipient.                                         *)

LEMMA OneOutcomeInit == Init => OneOutcomeInv
<1>. SUFFICES ASSUME Init PROVE OneOutcomeInv
  OBVIOUS
<1>1. \A p \in Ids \X AllSlots : sent[p] = 0 /\ reports[p] = 0
  BY DEF Init
<1>2. FreshIds
  BY <1>1 DEF Init, FreshIds, Unissued, Outcomes, NoBatch
<1>3. AtMostOneOutcome
  BY <1>1 DEF Init, AtMostOneOutcome
<1>. QED  BY <1>2, <1>3 DEF Init, OneOutcomeInv, NoBatch

(* Steps that move no message and settle no recipient.                        *)
LEMMA OneOutcomeFrame ==
    ASSUME TypeOK, OneOutcomeInv, mishaps' \in Nat, mishaps' >= mishaps,
           UNCHANGED <<queue, lastId, batch, cur, msg, before, origin, sent, reports>>,
           pc' \in Working => pc \in Working /\ (pc' # "commit" => pc # "commit"),
           admin' # None => \/ admin # None /\ admin'.id = admin.id
                            \/ queue[admin'.id] # None
    PROVE  OneOutcomeInv'
<1>. USE DEF OneOutcomeInv
<1>1. \A id \in Ids, s \in AllSlots : Outcomes(id, s)' = Outcomes(id, s) /\ Outcomes(id, s) \in Nat
  BY DEF Outcomes, TypeOK, HistoryType
<1>2. FreshIds'
  BY <1>1 DEF FreshIds, Unissued
<1>3. ASSUME NEW m \in Message, NEW id \in Ids, MaySettle(m, id)
      PROVE  \A s \in PendingSlots(m) : Outcomes(id, s)' <= mishaps'
  BY <1>1, <1>3, SlotType, PendingSlotsType DEF MaySettle, TypeOK, HistoryType
<1>4. \A id \in Ids : queue'[id] # None /\ id # cur' => MaySettle(queue[id], id)'
  BY <1>3 DEF MaySettle, TypeOK, MailType
<1>5. \A id \in Ids : batch'[id] # None => MaySettle(batch[id], id)' /\ id # cur'
  BY <1>3 DEF MaySettle, TypeOK, ManagerType
<1>6. pc' \in Working => MaySettle(msg, cur)'
  BY <1>3 DEF MaySettle, TypeOK, ManagerType
<1>7. ASSUME pc' \in Working, pc' # "commit", NEW s \in NewlyBounced'
      PROVE  Outcomes(cur, s)' <= mishaps'
  <2>1. s \in NewlyBounced /\ s \in AllSlots /\ cur \in Ids
    BY <1>7, SlotType DEF NewlyBounced, TypeOK, ManagerType
  <2>2. Outcomes(cur, s) <= mishaps /\ Outcomes(cur, s)' = Outcomes(cur, s)
    BY <1>1, <1>7, <2>1
  <2>. QED  BY <1>1, <2>1, <2>2 DEF TypeOK, HistoryType
<1>8. AtMostOneOutcome'
  BY DEF AtMostOneOutcome, TypeOK, HistoryType
<1>. QED  BY <1>2, <1>4, <1>5, <1>6, <1>7, <1>8

(* A copy keeps its licence to settle while the outcomes stay as they are, and *)
(* every copy gains it with an error that is counted.                          *)
LEMMA MaySettleKept ==
    ASSUME TypeOK, TypeOK', mishaps' >= mishaps, NEW id \in Ids, NEW m \in Message,
           \A s \in AllSlots : Outcomes(id, s)' = Outcomes(id, s),
           MaySettle(m, id) \/ (AtMostOneOutcome /\ mishaps' = mishaps + 1)
    PROVE  \A s \in PendingSlots(m) : Outcomes(id, s)' <= mishaps'
<1>. SUFFICES ASSUME NEW s \in PendingSlots(m) PROVE Outcomes(id, s)' <= mishaps'
  OBVIOUS
<1>1. s \in AllSlots
  BY SlotType, PendingSlotsType
<1>2. Outcomes(id, s) \in Nat /\ mishaps \in Nat /\ mishaps' \in Nat
  BY <1>1 DEF Outcomes, TypeOK, HistoryType
<1>3. CASE MaySettle(m, id)
  BY <1>1, <1>2, <1>3 DEF MaySettle
<1>4. CASE AtMostOneOutcome /\ mishaps' = mishaps + 1
  <2>1. Outcomes(id, s) <= 1 + mishaps
    BY <1>1, <1>4 DEF AtMostOneOutcome, Outcomes
  <2>. QED  BY <1>1, <1>2, <1>4, <2>1
<1>. QED  BY <1>3, <1>4

(* A message published under a new id: Publish, and PublishReport's record.   *)
LEMMA PublishOneOutcome ==
    ASSUME TypeOK, TypeOK', OneOutcomeInv, NEW c \in Clients, Publish(c)
    PROVE  OneOutcomeInv'
<1>. USE DEF OneOutcomeInv
<1>1. \A id \in Ids, s \in AllSlots : Outcomes(id, s)' = Outcomes(id, s) /\ Outcomes(id, s) \in Nat
  BY DEF Publish, Outcomes, TypeOK, HistoryType
<1>2. /\ UNCHANGED <<pc, batch, cur, msg, before, mishaps, admin, sent, reports>>
      /\ lastId' = lastId + 1 /\ lastId \in Nat /\ mishaps \in Nat /\ mishaps' >= mishaps
      /\ \A id \in Ids : id # lastId + 1 => queue'[id] = queue[id] /\ origin'[id] = origin[id]
  BY DEF Publish, PutRecord, managerVars, TypeOK, MailType, HistoryType
<1>3. FreshIds'
  <2>. SUFFICES ASSUME NEW id \in Ids, id > lastId' PROVE Unissued(id)'
    BY DEF FreshIds
  <2>1. id > lastId /\ id # lastId + 1
    BY <1>2
  <2>2. Unissued(id)
    BY <2>1 DEF FreshIds
  <2>. QED  BY <1>1, <1>2, <2>1, <2>2 DEF Unissued
<1>4. ASSUME NEW id \in Ids, queue'[id] # None, id # cur' PROVE MaySettle(queue[id], id)'
  <2>1. queue'[id] \in Message
    BY <1>4 DEF TypeOK, MailType
  <2>2. CASE id = lastId + 1
    <3>1. \A s \in AllSlots : Outcomes(id, s) = 0
      BY <1>2, <2>2 DEF FreshIds, Unissued
    <3>2. \A s \in PendingSlots(queue'[id]) : s \in AllSlots
      BY <2>1, SlotType, PendingSlotsType
    <3>. QED  BY <1>1, <1>2, <3>1, <3>2 DEF MaySettle, TypeOK, HistoryType
  <2>3. CASE id # lastId + 1
    BY <1>1, <1>2, <1>4, <2>1, <2>3, MaySettleKept DEF MaySettle
  <2>. QED  BY <2>2, <2>3
<1>5. ASSUME NEW id \in Ids, batch'[id] # None PROVE MaySettle(batch[id], id)' /\ id # cur'
  BY <1>1, <1>2, <1>5, MaySettleKept DEF MaySettle, TypeOK, ManagerType
<1>6. pc' \in Working => MaySettle(msg, cur)'
  BY <1>1, <1>2, MaySettleKept DEF MaySettle, TypeOK, ManagerType
<1>7. ASSUME pc' \in Working, pc' # "commit", NEW s \in NewlyBounced'
      PROVE  Outcomes(cur, s)' <= mishaps'
  BY <1>1, <1>2, <1>7, SlotType DEF NewlyBounced, TypeOK, ManagerType
<1>8. AtMostOneOutcome'
  BY <1>2 DEF AtMostOneOutcome
<1>. QED  BY <1>3, <1>4, <1>5, <1>6, <1>7, <1>8

(* The administrator's write and delete.                                      *)
LEMMA AdminOneOutcome ==
    ASSUME TypeOK, TypeOK', OneOutcomeInv, RetryPersist \/ AdminDelete
    PROVE  OneOutcomeInv'
<1>. USE DEF OneOutcomeInv
<1>1. \A id \in Ids, s \in AllSlots : Outcomes(id, s)' = Outcomes(id, s) /\ Outcomes(id, s) \in Nat
  BY DEF RetryPersist, AdminDelete, Outcomes, TypeOK, HistoryType
<1>2. /\ UNCHANGED <<pc, batch, cur, msg, before, sent, reports, lastId, origin>>
      /\ mishaps \in Nat /\ mishaps' \in Nat /\ mishaps' >= mishaps
      /\ admin' # None => admin # None /\ admin'.id = admin.id
  BY DEF RetryPersist, AdminDelete, managerVars, TypeOK, HistoryType, CallerType, AdminCalls
<1>3. ASSUME NEW id \in Ids, queue'[id] # None, queue'[id] # queue[id]
      PROVE  /\ RetryPersist /\ id = admin.id /\ admin # None
             /\ queue'[id] = DueNow(admin.message, admin.at)
             /\ admin.message \in Message /\ admin.at \in Nat
  BY <1>3 DEF RetryPersist, AdminDelete, PutRecord, TypeOK, MailType, CallerType, AdminCalls
<1>4. FreshIds'
  <2>. SUFFICES ASSUME NEW id \in Ids, id > lastId' PROVE Unissued(id)'
    BY DEF FreshIds
  <2>1. Unissued(id)
    BY <1>2 DEF FreshIds
  <2>2. queue'[id] = None
    BY <1>3, <2>1 DEF Unissued
  <2>. QED  BY <1>1, <1>2, <2>1, <2>2 DEF Unissued
<1>5. ASSUME NEW id \in Ids, queue'[id] # None, id # cur' PROVE MaySettle(queue[id], id)'
  <2>1. queue'[id] \in Message
    BY <1>5 DEF TypeOK, MailType
  <2>2. CASE queue'[id] = queue[id]
    BY <1>1, <1>2, <1>5, <2>1, <2>2, MaySettleKept DEF MaySettle
  <2>3. CASE queue'[id] # queue[id] /\ queue[id] # admin.message
    <3>1. mishaps' = mishaps + 1
      BY <1>3, <1>5, <2>3 DEF RetryPersist
    <3>. QED  BY <1>1, <1>2, <2>1, <3>1, MaySettleKept DEF MaySettle
  <2>4. CASE queue'[id] # queue[id] /\ queue[id] = admin.message
    <3>1. PendingSlots(queue'[id]) = PendingSlots(queue[id])
      BY <1>3, <1>5, <2>4, DueNowType
    <3>2. queue[id] \in Message /\ MaySettle(queue[id], id)
      BY <1>2, <1>3, <1>5, <2>4, NotNone
    <3>. QED  BY <1>1, <1>2, <3>1, <3>2, MaySettleKept DEF MaySettle
  <2>. QED  BY <2>2, <2>3, <2>4
<1>6. ASSUME NEW id \in Ids, batch'[id] # None PROVE MaySettle(batch[id], id)' /\ id # cur'
  BY <1>1, <1>2, <1>6, MaySettleKept DEF MaySettle, TypeOK, ManagerType
<1>7. pc' \in Working => MaySettle(msg, cur)'
  BY <1>1, <1>2, MaySettleKept DEF MaySettle, TypeOK, ManagerType
<1>8. ASSUME pc' \in Working, pc' # "commit", NEW s \in NewlyBounced'
      PROVE  Outcomes(cur, s)' <= mishaps'
  <2>1. s \in NewlyBounced /\ s \in AllSlots /\ cur \in Ids
    BY <1>2, <1>8, SlotType DEF NewlyBounced, TypeOK, ManagerType
  <2>2. Outcomes(cur, s) <= mishaps /\ Outcomes(cur, s)' = Outcomes(cur, s) /\ Outcomes(cur, s) \in Nat
    BY <1>1, <1>2, <1>8, <2>1
  <2>. QED  BY <1>2, <2>1, <2>2
<1>9. AtMostOneOutcome'
  BY <1>2 DEF AtMostOneOutcome, TypeOK, HistoryType
<1>. QED  BY <1>4, <1>5, <1>6, <1>7, <1>8, <1>9

(* The manager takes its snapshots, takes one up, or gives up on one.         *)
LEMMA LoopOneOutcome ==
    ASSUME TypeOK, TypeOK', OneOutcomeInv,
           Scan \/ ScanFails \/ TakeMessage \/ PassFails \/ Crash
    PROVE  OneOutcomeInv'
<1>. USE DEF OneOutcomeInv
<1>1. UNCHANGED <<queue, lastId, origin, sent, reports>> /\ admin' \in {admin, None}
  BY DEF Scan, ScanFails, TakeMessage, PassFails, Crash, mailVars, history
<1>2. \A id \in Ids, s \in AllSlots : Outcomes(id, s)' = Outcomes(id, s) /\ Outcomes(id, s) \in Nat
  BY <1>1 DEF Outcomes, TypeOK, HistoryType
<1>3. mishaps \in Nat /\ mishaps' \in {mishaps, mishaps + 1} /\ mishaps' >= mishaps
  <2>1. mishaps' \in {mishaps, mishaps + 1}
    BY DEF Scan, ScanFails, TakeMessage, PassFails, Crash, history
  <2>. QED  BY <2>1 DEF TypeOK, HistoryType
<1>4. \A id \in Ids : batch'[id] \in {batch[id], queue[id], None}
  BY DEF Scan, ScanFails, TakeMessage, PassFails, Crash, NoBatch, TypeOK, ManagerType
<1>5. cur' = 0 \/ (TakeMessage /\ FirstId \in BatchIds /\ FirstId \in Ids /\ cur' = FirstId)
  BY FirstIdType, NotNone
     DEF Scan, ScanFails, TakeMessage, PassFails, Crash, DropWork, BatchIds, TypeOK, ManagerType
<1>6. FreshIds'
  <2>. SUFFICES ASSUME NEW id \in Ids, id > lastId' PROVE Unissued(id)'
    BY DEF FreshIds
  <2>1. Unissued(id)
    BY <1>1 DEF FreshIds
  <2>2. id # cur' /\ batch'[id] = None
    BY <1>4, <1>5, <2>1, OutboundQueueAssumption DEF Unissued, BatchIds
  <2>. QED  BY <1>1, <1>2, <2>1, <2>2 DEF Unissued
<1>7. ASSUME NEW id \in Ids, queue'[id] # None, id # cur' PROVE MaySettle(queue[id], id)'
  <2>1. queue[id] \in Message /\ queue'[id] = queue[id]
    BY <1>1, <1>7 DEF TypeOK, MailType
  <2>2. MaySettle(queue[id], id) \/ (AtMostOneOutcome /\ mishaps' = mishaps + 1)
    <3>1. CASE PassFails \/ Crash
      BY <3>1 DEF PassFails, Crash
    <3>2. CASE Scan \/ ScanFails \/ TakeMessage
      <4>1. cur = 0
        BY <3>2 DEF Scan, ScanFails, TakeMessage, TypeOK, ManagerType
      <4>. QED  BY <1>7, <2>1, <4>1, NotNone, OutboundQueueAssumption
    <3>. QED  BY <3>1, <3>2
  <2>. QED  BY <1>2, <1>3, <2>1, <2>2, MaySettleKept DEF MaySettle
<1>8. ASSUME NEW id \in Ids, batch'[id] # None PROVE MaySettle(batch[id], id)' /\ id # cur'
  <2>1. CASE Scan
    <3>1. cur = 0 /\ cur' = 0 /\ batch'[id] = queue[id] /\ queue[id] \in Message
      BY <1>8, <2>1 DEF Scan, TypeOK, ManagerType, MailType
    <3>2. MaySettle(queue[id], id) /\ id # cur'
      BY <3>1, NotNone, OutboundQueueAssumption
    <3>. QED  BY <1>2, <1>3, <3>1, <3>2, MaySettleKept DEF MaySettle
  <2>2. CASE ~Scan
    <3>0. ~ScanFails /\ ~Crash
      BY <1>8 DEF ScanFails, Crash, NoBatch
    <3>1. batch'[id] = batch[id] /\ batch[id] \in Message /\ id # cur'
      <4>1. CASE TakeMessage
        BY <1>8, <4>1 DEF TakeMessage, TypeOK, ManagerType
      <4>2. CASE PassFails
        BY <1>8, <4>2, OutboundQueueAssumption DEF PassFails, DropWork, TypeOK, ManagerType
      <4>. QED  BY <2>2, <3>0, <4>1, <4>2
    <3>2. MaySettle(batch[id], id)
      BY <3>1, NotNone
    <3>. QED  BY <1>2, <1>3, <3>1, <3>2, MaySettleKept DEF MaySettle
  <2>. QED  BY <2>1, <2>2
<1>9. ASSUME pc' \in Working
      PROVE  /\ MaySettle(msg, cur)'
             /\ pc' # "commit" => \A s \in NewlyBounced' : Outcomes(cur, s)' <= mishaps'
  <2>1. TakeMessage
    BY <1>9 DEF Scan, ScanFails, PassFails, Crash, DropWork
  <2>2. PICK id \in Ids : id = FirstId /\ batch[id] \in Message /\ cur' = id /\ passNow \in Nat
    BY <2>1, FirstIdType DEF TakeMessage, TypeOK, ManagerType
  <2>3. PendingSlots(msg') = PendingSlots(batch[id])
    BY <2>1, <2>2, HoldBackType DEF TakeMessage
  <2>4. MaySettle(batch[id], id)
    BY <2>2, NotNone
  <2>5. \A s \in PendingSlots(msg') : Outcomes(id, s)' <= mishaps'
    BY <1>2, <1>3, <2>2, <2>3, <2>4, MaySettleKept
  <2>6. MaySettle(msg, cur)'
    BY <2>2, <2>5 DEF MaySettle, Outcomes
  <2>7. pc' # "commit" => NewlyBounced' \subseteq PendingSlots(msg')
    BY <2>1, <2>3 DEF TakeMessage, NewlyBounced
  <2>. QED  BY <2>2, <2>5, <2>6, <2>7 DEF Outcomes
<1>10. AtMostOneOutcome'
  BY <1>1, <1>3 DEF AtMostOneOutcome, TypeOK, HistoryType
<1>. QED  BY <1>6, <1>7, <1>8, <1>9, <1>10

(* The body is missing: what was pending is now newly bounced.                *)
LEMMA ReadBodyOneOutcome ==
    ASSUME TypeOK, TypeOK', OneOutcomeInv, ReadBody
    PROVE  OneOutcomeInv'
<1>. USE DEF OneOutcomeInv
<1>1. /\ UNCHANGED <<queue, lastId, origin, batch, cur, before, admin, sent, reports, mishaps>>
      /\ pc = "body" /\ cur \in Ids /\ msg \in Message
  BY DEF ReadBody, mailVars, TypeOK, ManagerType
<1>2. PendingSlots(msg') \subseteq PendingSlots(msg)
  <2>. SUFFICES ASSUME NEW s \in PendingSlots(msg'), s \notin PendingSlots(msg) PROVE FALSE
    OBVIOUS
  <2>1. s \in Slots(msg) /\ IsPending(msg'.recipients[s]) /\ ~IsPending(msg.recipients[s])
    BY <1>1, BounceAllType DEF ReadBody, PendingSlots
  <2>. QED  BY <1>1, <2>1, BounceAllType DEF ReadBody
<1>3. NewlyBounced' \subseteq NewlyBounced \cup PendingSlots(msg)
  <2>1. before \subseteq Slots(msg)
    BY <1>1 DEF TypeOK, ManagerType
  <2>. QED  BY <1>1, <2>1, BounceAllType DEF ReadBody, NewlyBounced, PendingSlots
<1>4. UNCHANGED FreshIds /\ UNCHANGED AtMostOneOutcome
  BY <1>1 DEF FreshIds, Unissued, Outcomes, AtMostOneOutcome
<1>5. \A s \in NewlyBounced \cup PendingSlots(msg) : Outcomes(cur, s)' <= mishaps'
  BY <1>1 DEF MaySettle, Outcomes
<1>6. \A id \in Ids : queue'[id] # None /\ id # cur' => MaySettle(queue[id], id)'
  BY <1>1 DEF MaySettle, Outcomes
<1>7. \A id \in Ids : batch'[id] # None => MaySettle(batch[id], id)' /\ id # cur'
  BY <1>1 DEF MaySettle, Outcomes
<1>8. MaySettle(msg, cur)'
  BY <1>2, <1>5 DEF MaySettle
<1>. QED  BY <1>3, <1>4, <1>5, <1>6, <1>7, <1>8

(* One attempt: only the recipient tried can gain an outcome, and it was      *)
(* pending.                                                                   *)
LEMMA AttemptOneOutcome ==
    ASSUME TypeOK, TypeOK', OneOutcomeInv, Attempt
    PROVE  OneOutcomeInv'
<1>. USE DEF OneOutcomeInv
<1>1. /\ UNCHANGED <<pc, queue, lastId, origin, batch, cur, before, admin, reports>>
      /\ pc = "attempt" /\ cur \in Ids /\ msg \in Message /\ passNow \in Nat
  BY DEF Attempt, mailVars, TypeOK, ManagerType
<1>2. PICK attempt \in Attempts :
        /\ mishaps' = mishaps + (IF attempt = "lostReply" THEN 1 ELSE 0)
        /\ msg' = AfterAttempt(msg, NextSlot, attempt, passNow)
        /\ sent' = IF attempt \in {"delivered", "lostReply"}
                   THEN [sent EXCEPT ![<<cur, NextSlot>>] = @ + 1] ELSE sent
  BY DEF Attempt
<1>3. PICK k \in AllSlots : k = NextSlot /\ k \in Slots(msg) /\ k \in PendingSlots(msg)
  BY <1>1, NextSlotType, SlotType DEF Attempt, DueSlots, PendingSlots, IsDue
<1>4. PICK id \in Ids : id = cur
  BY <1>1
<1>5. mishaps \in Nat /\ mishaps' \in Nat /\ mishaps' >= mishaps
  BY <1>2 DEF TypeOK, HistoryType
<1>6. \A i \in Ids, s \in AllSlots :
         /\ Outcomes(i, s) \in Nat
         /\ <<i, s>> # <<id, k>> => Outcomes(i, s)' = Outcomes(i, s)
  <2>1. sent \in [Ids \X AllSlots -> Nat] /\ reports \in [Ids \X AllSlots -> Nat]
    BY DEF TypeOK, HistoryType
  <2>2. \A p \in Ids \X AllSlots : p # <<id, k>> => sent'[p] = sent[p]
    BY <1>2, <1>3, <1>4, <2>1
  <2>3. ASSUME NEW i \in Ids, NEW s \in AllSlots, <<i, s>> # <<id, k>>
        PROVE  Outcomes(i, s)' = Outcomes(i, s)
    <3>1. sent'[<<i, s>>] = sent[<<i, s>>]
      BY <2>2, <2>3
    <3>. QED  BY <1>1, <3>1 DEF Outcomes
  <2>4. \A i \in Ids, s \in AllSlots : Outcomes(i, s) \in Nat
    BY <2>1 DEF Outcomes
  <2>. QED  BY <2>3, <2>4
<1>7. Outcomes(id, k) <= mishaps
  BY <1>1, <1>3, <1>4 DEF MaySettle
<1>8. Outcomes(id, k)' = Outcomes(id, k) + (IF attempt \in {"delivered", "lostReply"} THEN 1 ELSE 0)
  BY <1>1, <1>2, <1>3, <1>4 DEF Outcomes, TypeOK, HistoryType
<1>9. Outcomes(id, k)' <= 1 + mishaps' /\ (attempt # "delivered" => Outcomes(id, k)' <= mishaps')
  BY <1>2, <1>5, <1>6, <1>7, <1>8
<1>10. /\ Slots(msg') = Slots(msg)
       /\ \A s \in Slots(msg) : s # k => msg'.recipients[s] = msg.recipients[s]
       /\ msg'.recipients[k] = ApplyAttempt(msg.recipients[k], attempt, passNow)
  BY <1>1, <1>2, <1>3, AfterAttemptType
<1>11. attempt = "delivered" => msg'.recipients[k].status = "delivered"
  <2>1. msg.recipients[k] \in QueueRecipient
    BY <1>1, <1>3, SlotType
  <2>. QED  BY <1>10, <2>1 DEF ApplyAttempt, QueueRecipient
<1>12. FreshIds'
  <2>. SUFFICES ASSUME NEW i \in Ids, i > lastId' PROVE Unissued(i)'
    BY DEF FreshIds
  <2>1. Unissued(i) /\ i # id
    BY <1>1, <1>4 DEF FreshIds, Unissued
  <2>. QED  BY <1>1, <1>6, <2>1 DEF Unissued
<1>13. ASSUME NEW i \in Ids, queue'[i] # None, i # cur' PROVE MaySettle(queue[i], i)'
  <2>1. queue'[i] = queue[i] /\ queue[i] \in Message /\ i # id
    BY <1>1, <1>4, <1>13 DEF TypeOK, MailType
  <2>. QED  BY <1>1, <1>5, <1>6, <1>13, <2>1, MaySettleKept DEF MaySettle
<1>14. ASSUME NEW i \in Ids, batch'[i] # None PROVE MaySettle(batch[i], i)' /\ i # cur'
  <2>1. batch'[i] = batch[i] /\ batch[i] \in Message /\ i # id
    BY <1>1, <1>4, <1>14 DEF TypeOK, ManagerType
  <2>. QED  BY <1>1, <1>4, <1>5, <1>6, <1>14, <2>1, MaySettleKept DEF MaySettle
<1>15. \A s \in PendingSlots(msg') : Outcomes(id, s)' <= mishaps'
  <2>. SUFFICES ASSUME NEW s \in PendingSlots(msg') PROVE Outcomes(id, s)' <= mishaps'
    OBVIOUS
  <2>1. CASE s = k
    BY <1>9, <1>11, <2>1 DEF PendingSlots, IsPending
  <2>2. CASE s # k
    <3>1. s \in PendingSlots(msg) /\ s \in AllSlots
      BY <1>1, <1>10, <2>2, SlotType DEF PendingSlots
    <3>2. Outcomes(id, s) <= mishaps
      BY <1>1, <1>4, <3>1 DEF MaySettle
    <3>. QED  BY <1>5, <1>6, <2>2, <3>1, <3>2
  <2>. QED  BY <2>1, <2>2
<1>16. \A s \in NewlyBounced' : Outcomes(id, s)' <= mishaps'
  <2>. SUFFICES ASSUME NEW s \in NewlyBounced' PROVE Outcomes(id, s)' <= mishaps'
    OBVIOUS
  <2>1. CASE s = k
    BY <1>9, <1>11, <2>1 DEF NewlyBounced
  <2>2. CASE s # k
    <3>1. before \subseteq Slots(msg)
      BY <1>1 DEF TypeOK, ManagerType
    <3>2. s \in NewlyBounced /\ s \in AllSlots
      BY <1>1, <1>10, <2>2, <3>1, SlotType DEF NewlyBounced
    <3>3. Outcomes(id, s) <= mishaps
      BY <1>1, <1>4, <3>2
    <3>. QED  BY <1>5, <1>6, <2>2, <3>2, <3>3
  <2>. QED  BY <2>1, <2>2
<1>17. AtMostOneOutcome'
  <2>1. \A i \in Ids, s \in AllSlots : Outcomes(i, s) <= 1 + mishaps
    BY DEF AtMostOneOutcome, Outcomes
  <2>2. \A i \in Ids, s \in AllSlots : Outcomes(i, s)' <= 1 + mishaps'
    BY <1>5, <1>6, <1>9, <2>1
  <2>. QED  BY <2>2 DEF AtMostOneOutcome, Outcomes
<1>18. MaySettle(msg, cur)' /\ \A s \in NewlyBounced' : Outcomes(cur, s)' <= mishaps'
  BY <1>1, <1>4, <1>15, <1>16 DEF MaySettle, Outcomes
<1>. QED  BY <1>12, <1>13, <1>14, <1>17, <1>18

(* The report is queued: each newly bounced recipient gains its one outcome.  *)
LEMMA PublishReportOneOutcome ==
    ASSUME TypeOK, TypeOK', OneOutcomeInv, PublishReport
    PROVE  OneOutcomeInv'
<1>. USE DEF OneOutcomeInv
<1>1. /\ UNCHANGED <<batch, cur, msg, before, admin, sent, mishaps>>
      /\ pc = "record" /\ pc' = "commit" /\ cur \in Ids /\ msg \in Message
      /\ lastId' = lastId + 1 /\ lastId \in Nat
      /\ mishaps \in Nat /\ mishaps' >= mishaps
      /\ \A i \in Ids : i # lastId + 1 => queue'[i] = queue[i] /\ origin'[i] = origin[i]
  BY DEF PublishReport, PutRecord, TypeOK, MailType, ManagerType, HistoryType
<1>2. PICK id \in Ids : id = cur
  BY <1>1
<1>3. \A s \in NewlyBounced : s \in AllSlots /\ s \notin PendingSlots(msg)
  BY <1>1, SlotType DEF NewlyBounced, PendingSlots, IsPending, TypeOK, ManagerType
<1>4. ASSUME NEW i \in Ids, NEW s \in AllSlots
      PROVE  /\ Outcomes(i, s) \in Nat
             /\ Outcomes(i, s)' = Outcomes(i, s) + (IF i = id /\ s \in NewlyBounced THEN 1 ELSE 0)
  <2>1. reports'[<<i, s>>] = reports[<<i, s>>] + (IF i = id /\ s \in NewlyBounced THEN 1 ELSE 0)
    BY <1>2 DEF PublishReport, TypeOK, HistoryType
  <2>2. sent[<<i, s>>] \in Nat /\ reports[<<i, s>>] \in Nat /\ sent' = sent
    BY <1>1 DEF TypeOK, HistoryType
  <2>. QED  BY <2>1, <2>2 DEF Outcomes
<1>5. FreshIds'
  <2>. SUFFICES ASSUME NEW i \in Ids, i > lastId' PROVE Unissued(i)'
    BY DEF FreshIds
  <2>1. i > lastId /\ i # lastId + 1
    BY <1>1
  <2>2. Unissued(i) /\ i # id
    BY <1>2, <2>1 DEF FreshIds, Unissued
  <2>3. \A s \in AllSlots : Outcomes(i, s)' = 0
    BY <1>4, <2>2 DEF Unissued
  <2>. QED  BY <1>1, <2>1, <2>2, <2>3 DEF Unissued
<1>6. ASSUME NEW i \in Ids, queue'[i] # None, i # cur' PROVE MaySettle(queue[i], i)'
  <2>1. queue'[i] \in Message /\ i # id
    BY <1>1, <1>2, <1>6 DEF TypeOK, MailType
  <2>2. CASE i = lastId + 1
    <3>1. \A s \in AllSlots : Outcomes(i, s) = 0
      BY <1>1, <2>2 DEF FreshIds, Unissued
    <3>2. \A s \in PendingSlots(queue'[i]) : s \in AllSlots
      BY <2>1, SlotType, PendingSlotsType
    <3>. QED  BY <1>1, <1>4, <2>1, <3>1, <3>2 DEF MaySettle
  <2>3. CASE i # lastId + 1
    BY <1>1, <1>4, <1>6, <2>1, <2>3, MaySettleKept DEF MaySettle
  <2>. QED  BY <2>2, <2>3
<1>7. ASSUME NEW i \in Ids, batch'[i] # None PROVE MaySettle(batch[i], i)' /\ i # cur'
  <2>1. batch'[i] = batch[i] /\ batch[i] \in Message /\ i # id
    BY <1>1, <1>2, <1>7 DEF TypeOK, ManagerType
  <2>. QED  BY <1>1, <1>4, <1>7, <2>1, MaySettleKept DEF MaySettle
<1>8. MaySettle(msg, cur)'
  <2>1. \A s \in PendingSlots(msg) : s \in AllSlots /\ s \notin NewlyBounced /\ Outcomes(id, s) <= mishaps
    BY <1>1, <1>2, <1>3, SlotType, PendingSlotsType DEF MaySettle
  <2>2. \A s \in PendingSlots(msg) : Outcomes(id, s)' <= mishaps'
    BY <1>1, <1>4, <2>1
  <2>. QED  BY <1>1, <1>2, <2>2 DEF MaySettle, Outcomes
<1>9. AtMostOneOutcome'
  <2>1. \A i \in Ids, s \in AllSlots : Outcomes(i, s) <= 1 + mishaps
    BY DEF AtMostOneOutcome, Outcomes
  <2>2. \A s \in NewlyBounced : Outcomes(id, s) <= mishaps
    BY <1>1, <1>2
  <2>3. \A i \in Ids, s \in AllSlots : Outcomes(i, s)' <= 1 + mishaps'
    BY <1>1, <1>4, <2>1, <2>2
  <2>. QED  BY <2>3 DEF AtMostOneOutcome, Outcomes
<1>. QED  BY <1>1, <1>5, <1>6, <1>7, <1>8, <1>9

(* The working copy becomes the record: what it shows as pending is.          *)
LEMMA CommitOneOutcome ==
    ASSUME TypeOK, TypeOK', OneOutcomeInv, Commit
    PROVE  OneOutcomeInv'
<1>. USE DEF OneOutcomeInv
<1>1. /\ UNCHANGED <<batch, lastId, origin, admin, sent, reports, mishaps>>
      /\ pc = "commit" /\ pc' = "next" /\ cur \in Ids /\ msg \in Message /\ cur' = 0
      /\ queue' = [queue EXCEPT ![cur] = IF IsComplete(msg) THEN None ELSE msg]
  BY DEF Commit, DropWork, PutRecord, history, TypeOK, ManagerType
<1>2. \A i \in Ids : i # cur => queue'[i] = queue[i]
  BY <1>1 DEF TypeOK, MailType
<1>3. queue'[cur] \in {None, msg}
  BY <1>1 DEF TypeOK, MailType
<1>4. FreshIds'
  <2>. SUFFICES ASSUME NEW i \in Ids, i > lastId' PROVE Unissued(i)'
    BY DEF FreshIds
  <2>1. Unissued(i)
    BY <1>1 DEF FreshIds
  <2>. QED  BY <1>1, <1>2, <2>1, OutboundQueueAssumption DEF Unissued, Outcomes
<1>5. ASSUME NEW i \in Ids, queue'[i] # None PROVE MaySettle(queue[i], i)'
  <2>1. CASE i = cur
    BY <1>1, <1>3, <1>5, <2>1 DEF MaySettle, Outcomes
  <2>2. CASE i # cur
    BY <1>1, <1>2, <1>5, <2>2 DEF MaySettle, Outcomes
  <2>. QED  BY <2>1, <2>2
<1>6. ASSUME NEW i \in Ids, batch'[i] # None PROVE MaySettle(batch[i], i)' /\ i # cur'
  BY <1>1, <1>6, OutboundQueueAssumption DEF MaySettle, Outcomes
<1>7. AtMostOneOutcome'
  BY <1>1 DEF AtMostOneOutcome
<1>. QED  BY <1>1, <1>4, <1>5, <1>6, <1>7

LEMMA OneOutcomeStep ==
    ASSUME TypeOK, TypeOK', OneOutcomeInv, [Next]_vars
    PROVE  OneOutcomeInv'
<1>1. ASSUME NEW c \in Clients, StoreBody(c) \/ ClientNudge(c) \/ EnqueueFails(c)
      PROVE  OneOutcomeInv'
  BY <1>1, OneOutcomeFrame
     DEF StoreBody, ClientNudge, EnqueueFails, mailVars, managerVars, TypeOK, HistoryType
<1>2. CASE StartPass \/ AttemptsDone \/ NothingToReport \/ StoreReport \/ EndPass
           \/ WakeByToken \/ WakeByTimer \/ Restart
  BY <1>2, OneOutcomeFrame
     DEF StartPass, AttemptsDone, NothingToReport, StoreReport, EndPass, WakeByToken,
         WakeByTimer, Restart, mailVars, history, TypeOK, HistoryType
<1>3. CASE RetryLoad
  <2>1. admin'.id \in Ids /\ queue[admin'.id] # None
    BY <1>3 DEF RetryLoad
  <2>. QED  BY <1>3, <2>1, OneOutcomeFrame DEF RetryLoad, mailVars, managerVars, TypeOK, HistoryType
<1>5. CASE RetryNudge \/ PurgeList \/ PurgeDelete \/ Tick
  <2>1. mishaps' = mishaps /\ mishaps \in Nat
    BY <1>5 DEF RetryNudge, PurgeList, PurgeDelete, Tick, history, TypeOK, HistoryType
  <2>. QED  BY <1>5, <2>1, OneOutcomeFrame
            DEF RetryNudge, PurgeList, PurgeDelete, Tick, mailVars, managerVars, history
<1>4. CASE UNCHANGED vars
  BY <1>4, OneOutcomeFrame DEF vars, mailVars, managerVars, history, TypeOK, HistoryType
<1>. QED  BY <1>1, <1>2, <1>3, <1>4, <1>5, PublishOneOutcome, AdminOneOutcome, LoopOneOutcome,
             ReadBodyOneOutcome, AttemptOneOutcome, PublishReportOneOutcome, CommitOneOutcome
          DEF Next, Manager, Caller, Administrator, Failure

(* The inductive invariant itself: no copy of a message that a pass can go on *)
(* from (record, snapshot of the scan, working copy) shows as pending a       *)
(* recipient whose outcome a mishap does not account for.                     *)
THEOREM CopiesMaySettle == Spec => []OneOutcomeInv
<1>1. TypeOK /\ TypeOK' /\ OneOutcomeInv /\ [Next]_vars => OneOutcomeInv'
  BY OneOutcomeStep
<1>. QED  BY <1>1, OneOutcomeInit, TypeCorrect, PTL DEF Spec

(* A recipient is handed over or reported at most once more than errors,      *)
(* crashes, lost replies and stale retries account for, whatever the limits,  *)
(* backoff, interleaving of callers and administrator, and purge.             *)
THEOREM OneOutcome == Spec => []AtMostOneOutcome
<1>1. OneOutcomeInv => AtMostOneOutcome
  BY DEF OneOutcomeInv
<1>. QED  BY <1>1, CopiesMaySettle, PTL

----------------------------------------------------------------------------
(* No recipient is forgotten.                                                 *)

(* What has been recorded stays recorded.                                     *)
Grows ==
    /\ \A p \in Ids \X AllSlots : sent'[p] >= sent[p] /\ reports'[p] >= reports[p]
    /\ failed \subseteq failed' /\ removed \subseteq removed'

LEMMA DoneKept ==
    ASSUME TypeOK, TypeOK', Grows, NEW id \in Ids, origin'[id] = origin[id],
           NEW s \in AllSlots, Done(id, s)
    PROVE  Done(id, s)'
<1>1. /\ sent[<<id, s>>] \in Nat /\ sent'[<<id, s>>] \in Nat /\ sent'[<<id, s>>] >= sent[<<id, s>>]
      /\ reports[<<id, s>>] \in Nat /\ reports'[<<id, s>>] \in Nat
      /\ reports'[<<id, s>>] >= reports[<<id, s>>]
  BY DEF TypeOK, HistoryType, Grows
<1>. QED  BY <1>1 DEF Done, Grows

LEMMA CoversKept ==
    ASSUME TypeOK, TypeOK', Grows, NEW id \in Ids, origin'[id] = origin[id],
           NEW m \in Message, Covers(m, id)
    PROVE  Covers(m, id)'
<1>1. CopyOf(m, id)'
  BY DEF CopyOf, Covers
<1>2. \A s \in SettledIn(m) : Done(id, s)'
  BY DoneKept, SlotType DEF Covers, SettledIn
<1>. QED  BY <1>1, <1>2 DEF Covers

(* The copies a step leaves where they are.                                   *)
LEMMA NoLossKept ==
    ASSUME TypeOK, TypeOK', Grows, NoLossInv, NEW id \in Ids, origin'[id] = origin[id]
    PROVE  /\ queue'[id] = queue[id] => RecordCovers(id)'
           /\ batch'[id] # None /\ batch'[id] = batch[id] => Covers(batch[id], id)'
<1>. USE DEF NoLossInv
<1>1. ASSUME queue'[id] = queue[id], origin[id] # None, queue[id] = None, NEW s \in Slots(origin[id])
      PROVE  Done(id, s)'
  <2>1. origin[id] \in Message
    BY <1>1 DEF TypeOK, HistoryType
  <2>2. s \in AllSlots /\ Done(id, s)
    BY <1>1, <2>1, SlotType DEF RecordCovers
  <2>. QED  BY <2>2, DoneKept
<1>2. ASSUME queue'[id] = queue[id], queue[id] # None PROVE Covers(queue[id], id)'
  BY <1>2, CoversKept DEF TypeOK, MailType, Covers, SettledIn, CopyOf, RecordCovers
<1>3. ASSUME batch'[id] # None, batch'[id] = batch[id] PROVE Covers(batch[id], id)'
  BY <1>3, CoversKept DEF TypeOK, ManagerType, Covers, SettledIn, CopyOf
<1>. QED  BY <1>1, <1>2, <1>3 DEF RecordCovers

LEMMA RetryKept ==
    ASSUME TypeOK, TypeOK', Grows, NoLossInv, admin' # None, admin # None,
           admin'.id = admin.id, admin'.message = admin.message,
           origin'[admin.id] = origin[admin.id]
    PROVE  Covers(admin.message, admin.id)'
<1>1. PICK id \in Ids, m \in Message : id = admin.id /\ m = admin.message
  BY DEF TypeOK, CallerType, AdminCalls
<1>2. Covers(m, id)'
  BY <1>1, CoversKept DEF NoLossInv
<1>. QED  BY <1>1, <1>2 DEF Covers, CopyOf, Done

LEMMA WorkKept ==
    ASSUME TypeOK, TypeOK', Grows, WorkCovers, UNCHANGED <<cur, msg, before>>,
           pc \in Working => origin'[cur] = origin[cur],
           pc' \in Working => pc \in Working /\ (pc' = "commit" <=> pc = "commit")
    PROVE  WorkCovers'
<1>. SUFFICES ASSUME pc' \in Working
              PROVE  /\ CopyOf(msg, cur)'
                     /\ \A s \in SettledIn(msg) :
                            Done(cur, s)' \/ (pc' # "commit" /\ s \in NewlyBounced)
                     /\ \A s \in NewlyBounced : <<cur, s>> \in failed'
                     /\ pc' # "commit" => PendingSlots(msg) \subseteq before
  BY DEF WorkCovers, NewlyBounced
<1>1. PICK id \in Ids : id = cur /\ msg \in Message /\ origin'[id] = origin[id]
  BY DEF TypeOK, ManagerType
<1>2. CopyOf(msg, cur)'
  BY <1>1 DEF WorkCovers, CopyOf
<1>3. ASSUME NEW s \in SettledIn(msg) PROVE Done(cur, s)' \/ (pc' # "commit" /\ s \in NewlyBounced)
  <2>1. s \in AllSlots
    BY <1>1, <1>3, SlotType DEF SettledIn
  <2>2. CASE Done(id, s)
    <3>1. Done(id, s)'
      BY <1>1, <2>1, <2>2, DoneKept
    <3>. QED  BY <1>1, <3>1 DEF Done
  <2>3. CASE ~Done(id, s)
    BY <1>1, <1>3, <2>3 DEF WorkCovers
  <2>. QED  BY <2>2, <2>3
<1>. QED  BY <1>2, <1>3 DEF WorkCovers, Grows

LEMMA NoLossInit == Init => NoLossInv
BY DEF Init, NoLossInv, RequestsPending, RecordCovers, WorkCovers, NoBatch

(* Steps that move no message and settle no recipient.                        *)
LEMMA NoLossFrame ==
    ASSUME TypeOK, TypeOK', NoLossInv, RequestsPending',
           UNCHANGED <<queue, batch, cur, msg, before, origin, sent, reports, failed, removed>>,
           pc' \in Working => pc \in Working /\ (pc' = "commit" <=> pc = "commit"),
           admin' \in {admin, None}
    PROVE  NoLossInv'
<1>1. Grows
  BY DEF Grows, TypeOK, HistoryType
<1>2. \A id \in Ids : RecordCovers(id)' /\ (batch'[id] # None => Covers(batch[id], id)')
  BY <1>1, NoLossKept
<1>3. admin' # None => Covers(admin.message, admin.id)'
  BY <1>1, RetryKept
<1>4. WorkCovers'
  BY <1>1, WorkKept DEF NoLossInv
<1>. QED  BY <1>2, <1>3, <1>4 DEF NoLossInv

(* The callers: a message is published with all its recipients pending.       *)
LEMMA CallerNoLoss ==
    ASSUME TypeOK, TypeOK', NoLossInv, FreshIds, NEW c \in Clients, Caller(c)
    PROVE  NoLossInv'
<1>. DEFINE kept == \A d \in Clients : client'[d] # None =>
                       client'[d] = client[d] \/ SettledIn(client'[d].message) = {}
<1>1. ASSUME kept PROVE RequestsPending'
  BY <1>1 DEF NoLossInv, RequestsPending
<1>2. CASE StoreBody(c)
  <2>1. PICK r \in ActiveRoutes, b \in Bodies, count \in AllSlots, from \in ReturnPaths :
           client' = [client EXCEPT ![c] =
                 [message |-> NewMessage(now, b, from, count, Route(r).expiry),
                  stage |-> "record", nudges |-> Route(r).nudges, id |-> 0]]
    BY <1>2 DEF StoreBody
  <2>2. Route(r).expiry \in {"at", "attempts"} /\ b \in Hashes /\ now \in Nat
    BY DEF Route, Hashes, TypeOK, MailType
  <2>3. SettledIn(NewMessage(now, b, from, count, Route(r).expiry)) = {}
    BY <2>2, NewMessageType
  <2>4. kept
    BY <2>1, <2>3 DEF TypeOK, CallerType
  <2>. QED  BY <1>1, <1>2, <2>4, NoLossFrame DEF StoreBody, managerVars
<1>3. CASE ClientNudge(c) \/ EnqueueFails(c)
  <2>1. kept
    BY <1>3 DEF ClientNudge, EnqueueFails, TypeOK, CallerType
  <2>. QED  BY <1>1, <1>3, <2>1, NoLossFrame DEF ClientNudge, EnqueueFails, mailVars, managerVars
<1>4. CASE Publish(c)
  <2>1. PICK j \in Ids, m \in Message :
           /\ j = lastId + 1 /\ j > lastId /\ m = client[c].message /\ SettledIn(m) = {}
           /\ queue' = [queue EXCEPT ![j] = m] /\ origin' = [origin EXCEPT ![j] = m]
    <3>1. client[c] \in Requests /\ client[c] # None /\ client[c].message \in Message
      <4>1. client[c] \in Requests \cup {None} /\ client[c] # None
        BY <1>4 DEF Publish, TypeOK, CallerType
      <4>. QED  BY <4>1 DEF Requests
    <3>2. lastId + 1 \in Ids /\ lastId + 1 > lastId
      <4>1. lastId \in 0..MaxId /\ lastId < MaxId /\ MaxId \in Nat
        BY <1>4, OutboundQueueAssumption DEF Publish, TypeOK, MailType
      <4>. QED  BY <4>1
    <3>3. SettledIn(client[c].message) = {}
      BY <3>1 DEF NoLossInv, RequestsPending
    <3>. QED  BY <1>4, <3>1, <3>2, <3>3 DEF Publish, PutRecord
  <2>2. Unissued(j)
    BY <2>1 DEF FreshIds
  <2>3. UNCHANGED <<pc, batch, cur, msg, before, admin, sent, reports, failed, removed>> /\ Grows
    BY <1>4 DEF Publish, managerVars, Grows, TypeOK, HistoryType
  <2>4. \A id \in Ids : id # j => origin'[id] = origin[id] /\ queue'[id] = queue[id]
    BY <2>1 DEF TypeOK, MailType, HistoryType
  <2>5. origin'[j] = m /\ queue'[j] = m /\ m # None
    BY <2>1, NotNone DEF TypeOK, MailType, HistoryType
  <2>6. RecordCovers(j)'
    BY <2>1, <2>5 DEF RecordCovers, Covers, CopyOf
  <2>7. \A id \in Ids : RecordCovers(id)' /\ (batch'[id] # None => Covers(batch[id], id)')
    BY <2>2, <2>3, <2>4, <2>6, NoLossKept DEF Unissued
  <2>8. admin' # None => Covers(admin.message, admin.id)'
    <3>1. admin # None => admin.id \in Ids /\ admin.id # j
      BY <2>2 DEF Unissued, TypeOK, CallerType, AdminCalls
    <3>. QED  BY <2>3, <2>4, <3>1, RetryKept
  <2>9. WorkCovers'
    <3>1. pc \in Working => cur \in Ids /\ cur # j
      BY <2>2 DEF Unissued, TypeOK, ManagerType
    <3>. QED  BY <2>3, <2>4, <3>1, WorkKept DEF NoLossInv
  <2>10. kept
    <3>1. \A d \in Clients : d # c => client'[d] = client[d]
      BY <1>4 DEF Publish, TypeOK, CallerType
    <3>2. client'[c] # None => client'[c].message = m
      BY <1>4, <2>1 DEF Publish, TypeOK, CallerType, Requests
    <3>. QED  BY <2>1, <3>1, <3>2
  <2>. QED  BY <1>1, <2>7, <2>8, <2>9, <2>10 DEF NoLossInv
<1>. QED  BY <1>2, <1>3, <1>4 DEF Caller

(* The administrator: a retry brings back a copy that covers, a delete counts *)
(* as an outcome.                                                             *)
LEMMA AdminNoLoss ==
    ASSUME TypeOK, TypeOK', NoLossInv, RetryLoad \/ RetryPersist \/ AdminDelete
    PROVE  NoLossInv'
<1>1. UNCHANGED <<pc, batch, cur, msg, before, origin, client, sent, reports, failed>> /\ Grows
  BY DEF RetryLoad, RetryPersist, AdminDelete, managerVars, Grows, TypeOK, HistoryType
<1>2. RequestsPending'
  BY <1>1 DEF NoLossInv, RequestsPending
<1>3. WorkCovers'
  BY <1>1, WorkKept DEF NoLossInv
<1>4. \A id \in Ids : batch'[id] # None => Covers(batch[id], id)'
  BY <1>1, NoLossKept
<1>5. CASE RetryLoad
  <2>1. PICK id \in Ids, m \in Message : m = queue[id] /\ m # None
                                        /\ admin'.id = id /\ admin'.message = m
    BY <1>5, NotNone DEF RetryLoad, TypeOK, MailType
  <2>2. Covers(m, id)'
    BY <1>1, <2>1, CoversKept DEF NoLossInv, RecordCovers
  <2>3. Covers(admin.message, admin.id)'
    BY <2>1, <2>2 DEF Covers, CopyOf, Done
  <2>4. \A i \in Ids : RecordCovers(i)'
    BY <1>1, <1>5, NoLossKept DEF RetryLoad, mailVars
  <2>. QED  BY <1>2, <1>3, <1>4, <2>3, <2>4 DEF NoLossInv
<1>6. CASE RetryPersist
  <2>1. PICK id \in Ids, m \in Message, t \in Nat :
           /\ id = admin.id /\ m = admin.message /\ t = admin.at /\ admin # None
           /\ queue' = [queue EXCEPT ![id] = DueNow(m, t)]
           /\ admin'.id = id /\ admin'.message = m
    BY <1>6 DEF RetryPersist, PutRecord, TypeOK, CallerType, AdminCalls
  <2>2. queue'[id] = DueNow(m, t) /\ \A i \in Ids : i # id => queue'[i] = queue[i]
    BY <2>1 DEF TypeOK, MailType
  <2>3. Covers(m, id)'
    BY <1>1, <2>1, CoversKept DEF NoLossInv
  <2>4. Slots(queue'[id]) = Slots(m) /\ PendingSlots(queue'[id]) = PendingSlots(m)
        /\ queue'[id].returnPath = m.returnPath /\ queue'[id] # None
    BY <2>2, DueNowType, NotNone
  <2>5. RecordCovers(id)'
    BY <2>3, <2>4 DEF RecordCovers, Covers, CopyOf, SettledIn
  <2>6. \A i \in Ids : RecordCovers(i)'
    BY <1>1, <2>2, <2>5, NoLossKept
  <2>7. admin' # None => Covers(admin.message, admin.id)'
    BY <1>1, <2>1, RetryKept
  <2>. QED  BY <1>2, <1>3, <1>4, <2>6, <2>7 DEF NoLossInv
<1>7. CASE AdminDelete
  <2>1. PICK id \in Ids : /\ queue[id] # None /\ queue' = [queue EXCEPT ![id] = None]
                         /\ id \in removed' /\ admin' = admin
    BY <1>7 DEF AdminDelete, PutRecord
  <2>2. queue'[id] = None /\ \A i \in Ids : i # id => queue'[i] = queue[i]
    BY <2>1 DEF TypeOK, MailType
  <2>3. RecordCovers(id)'
    BY <2>1, <2>2 DEF RecordCovers, Done
  <2>4. \A i \in Ids : RecordCovers(i)'
    BY <1>1, <2>2, <2>3, NoLossKept
  <2>5. admin' # None => Covers(admin.message, admin.id)'
    BY <1>1, <2>1, RetryKept
  <2>. QED  BY <1>2, <1>3, <1>4, <2>4, <2>5 DEF NoLossInv
<1>. QED  BY <1>5, <1>6, <1>7

(* The manager takes its snapshots, takes one up, or gives up on one.         *)
LEMMA LoopNoLoss ==
    ASSUME TypeOK, TypeOK', NoLossInv, Scan \/ ScanFails \/ TakeMessage \/ PassFails \/ Crash
    PROVE  NoLossInv'
<1>1. /\ UNCHANGED <<queue, origin, sent, reports, failed, removed>> /\ Grows
      /\ admin' \in {admin, None} /\ client' \in {client, [c \in Clients |-> None]}
  BY DEF Scan, ScanFails, TakeMessage, PassFails, Crash, mailVars, history, Grows, TypeOK, HistoryType
<1>2. RequestsPending'
  BY <1>1 DEF NoLossInv, RequestsPending
<1>3. \A id \in Ids : RecordCovers(id)'
  BY <1>1, NoLossKept
<1>4. admin' # None => Covers(admin.message, admin.id)'
  BY <1>1, RetryKept
<1>5. ASSUME NEW id \in Ids, batch'[id] # None PROVE Covers(batch[id], id)'
  <2>1. batch'[id] \in {batch[id], queue[id], None}
    BY DEF Scan, ScanFails, TakeMessage, PassFails, Crash, NoBatch, TypeOK, ManagerType
  <2>2. CASE batch'[id] = queue[id]
    <3>1. PICK m \in Message : m = queue[id] /\ m # None
      BY <1>5, <2>2, NotNone DEF TypeOK, MailType
    <3>2. Covers(m, id)'
      BY <1>1, <3>1, CoversKept DEF NoLossInv, RecordCovers
    <3>. QED  BY <2>2, <3>1, <3>2 DEF Covers, CopyOf
  <2>. QED  BY <1>1, <1>5, <2>1, <2>2, NoLossKept
<1>6. WorkCovers'
  <2>1. CASE ~TakeMessage
    BY <2>1 DEF Scan, ScanFails, PassFails, Crash, DropWork, WorkCovers
  <2>2. CASE TakeMessage
    <3>1. PICK id \in Ids, m \in Message : m = batch[id] /\ m # None /\ cur' = id /\ id = FirstId
      BY <2>2, FirstIdType, NotNone DEF TakeMessage, TypeOK, ManagerType
    <3>2. /\ Slots(msg') = Slots(m) /\ PendingSlots(msg') = PendingSlots(m)
          /\ msg'.returnPath = m.returnPath
          /\ before' = PendingSlots(m) \/ (before' = {} /\ pc' = "commit")
      <4>1. \/ msg' = HoldBack(m, passNow) /\ before' = {} /\ pc' = "commit"
            \/ msg' = m /\ before' = PendingSlots(m)
        BY <2>2, <3>1 DEF TakeMessage
      <4>2. passNow \in Nat
        BY DEF TypeOK, ManagerType
      <4>. QED  BY <4>1, <4>2, HoldBackType
    <3>3. Covers(m, id)'
      BY <1>1, <3>1, CoversKept DEF NoLossInv
    <3>4. NewlyBounced' = {}
      BY <3>2 DEF NewlyBounced, PendingSlots, IsPending
    <3>5. CopyOf(msg, cur)'
      BY <3>1, <3>2, <3>3 DEF Covers, CopyOf
    <3>6. \A s \in SettledIn(msg') : Done(id, s)'
      BY <3>2, <3>3 DEF Covers, SettledIn
    <3>7. \A s \in SettledIn(msg') : Done(cur, s)'
      BY <3>1, <3>6 DEF Done
    <3>8. pc' # "commit" => PendingSlots(msg') \subseteq before'
      BY <3>2
    <3>. QED  BY <3>4, <3>5, <3>7, <3>8 DEF WorkCovers
  <2>. QED  BY <2>1, <2>2
<1>. QED  BY <1>2, <1>3, <1>4, <1>5, <1>6 DEF NoLossInv

(* Inside a pass: what the working copy settles is recorded as sent or as     *)
(* failed, and what failed is reported before the commit unless there is no   *)
(* one to tell.                                                               *)
LEMMA PassFrameNoLoss ==
    ASSUME TypeOK, TypeOK', NoLossInv, Grows, WorkCovers',
           UNCHANGED <<queue, batch, origin, admin, client>>
    PROVE  NoLossInv'
<1>1. \A id \in Ids : RecordCovers(id)' /\ (batch'[id] # None => Covers(batch[id], id)')
  BY NoLossKept
<1>2. admin' # None => Covers(admin.message, admin.id)'
  BY RetryKept
<1>. QED  BY <1>1, <1>2 DEF NoLossInv, RequestsPending

LEMMA ReadBodyNoLoss ==
    ASSUME TypeOK, TypeOK', NoLossInv, ReadBody
    PROVE  NoLossInv'
<1>1. /\ UNCHANGED <<queue, batch, origin, admin, client, cur, before, sent, reports, removed>>
      /\ pc = "body" /\ msg \in Message /\ cur \in Ids
  BY DEF ReadBody, mailVars, TypeOK, ManagerType
<1>2. Grows
  BY DEF ReadBody, Grows, TypeOK, HistoryType
<1>3. CASE msg.blob \in DOMAIN blobs
  <2>1. UNCHANGED <<cur, msg, before>> /\ pc' = "attempt"
    BY <1>1, <1>3 DEF ReadBody
  <2>. QED  BY <1>1, <1>2, <2>1, WorkKept, PassFrameNoLoss DEF NoLossInv
<1>4. CASE msg.blob \notin DOMAIN blobs
  <2>1. /\ pc' = "report" /\ msg' = BounceAll(msg)
        /\ failed' = failed \cup {<<cur, s>> : s \in PendingSlots(msg)}
    BY <1>4 DEF ReadBody
  <2>2. /\ Slots(msg') = Slots(msg) /\ msg'.returnPath = msg.returnPath
        /\ \A s \in Slots(msg) : s \notin PendingSlots(msg) => msg'.recipients[s] = msg.recipients[s]
    BY <1>1, <2>1, BounceAllType DEF PendingSlots
  <2>3. \A s \in PendingSlots(msg) : s \in before /\ msg'.recipients[s].status = "bounced"
    <3>1. \A s \in Slots(msg) : msg.recipients[s] \in QueueRecipient
      BY <1>1, SlotType
    <3>. QED  BY <1>1, <2>1, <3>1, BounceAllType
              DEF PendingSlots, QueueRecipient, NoLossInv, WorkCovers
  <2>4. before \subseteq Slots(msg) /\ PendingSlots(msg) \subseteq Slots(msg)
    BY <1>1 DEF TypeOK, ManagerType, PendingSlots
  <2>5. NewlyBounced' = NewlyBounced \cup PendingSlots(msg)
    BY <1>1, <2>2, <2>3, <2>4 DEF NewlyBounced
  <2>6. SettledIn(msg') \subseteq SettledIn(msg) \cup PendingSlots(msg) /\ PendingSlots(msg') = {}
    BY <2>2, <2>3 DEF SettledIn, PendingSlots, IsPending
  <2>7. \A s \in SettledIn(msg) : Done(cur, s)' \/ s \in NewlyBounced
    BY <1>1, <1>2, DoneKept, SlotType DEF NoLossInv, WorkCovers, SettledIn, Done, Grows
  <2>8. CopyOf(msg, cur)'
    BY <1>1, <2>2 DEF NoLossInv, WorkCovers, CopyOf
  <2>9. \A s \in NewlyBounced' : <<cur, s>> \in failed'
    BY <1>1, <2>1, <2>5 DEF NoLossInv, WorkCovers
  <2>10. WorkCovers'
    BY <1>1, <2>1, <2>5, <2>6, <2>7, <2>8, <2>9 DEF WorkCovers
  <2>. QED  BY <1>1, <1>2, <2>10, PassFrameNoLoss
<1>. QED  BY <1>3, <1>4

LEMMA AttemptNoLoss ==
    ASSUME TypeOK, TypeOK', NoLossInv, Attempt
    PROVE  NoLossInv'
<1>1. /\ UNCHANGED <<pc, queue, batch, origin, admin, client, cur, before, reports, removed>>
      /\ pc = "attempt" /\ msg \in Message /\ cur \in Ids /\ passNow \in Nat
  BY DEF Attempt, mailVars, TypeOK, ManagerType
<1>2. PICK attempt \in Attempts :
        /\ msg' = AfterAttempt(msg, NextSlot, attempt, passNow)
        /\ sent' = IF attempt \in {"delivered", "lostReply"}
                   THEN [sent EXCEPT ![<<cur, NextSlot>>] = @ + 1] ELSE sent
        /\ failed' = IF msg'.recipients[NextSlot].status = "bounced"
                     THEN failed \cup {<<cur, NextSlot>>} ELSE failed
  BY DEF Attempt
<1>3. PICK k \in AllSlots : k = NextSlot /\ k \in Slots(msg) /\ k \in PendingSlots(msg)
  BY <1>1, NextSlotType, SlotType DEF Attempt, DueSlots, PendingSlots, IsDue
<1>4. PICK id \in Ids : id = cur
  BY <1>1
<1>5. Grows
  <2>1. sent \in [Ids \X AllSlots -> Nat] /\ reports \in [Ids \X AllSlots -> Nat]
    BY DEF TypeOK, HistoryType
  <2>2. \A p \in Ids \X AllSlots : sent'[p] >= sent[p]
    BY <1>2, <1>3, <1>4, <2>1
  <2>3. \A p \in Ids \X AllSlots : reports'[p] >= reports[p]
    BY <1>1, <2>1
  <2>. QED  BY <1>1, <1>2, <2>2, <2>3 DEF Grows
<1>6. /\ Slots(msg') = Slots(msg) /\ msg'.returnPath = msg.returnPath
      /\ \A s \in Slots(msg) : s # k => msg'.recipients[s] = msg.recipients[s]
      /\ msg'.recipients[k] = ApplyAttempt(msg.recipients[k], attempt, passNow)
  BY <1>1, <1>2, <1>3, AfterAttemptType
<1>7. \/ msg'.recipients[k].status = "bounced"
      \/ msg'.recipients[k].status = "deferred"
      \/ msg'.recipients[k].status = "delivered" /\ attempt = "delivered"
  <2>1. msg.recipients[k] \in QueueRecipient
    BY <1>1, <1>3, SlotType
  <2>. QED  BY <1>6, <2>1 DEF ApplyAttempt, AfterDeferral, QueueRecipient, Attempts
<1>8. before \subseteq Slots(msg) /\ k \in before
  BY <1>1, <1>3 DEF NoLossInv, WorkCovers, TypeOK, ManagerType
<1>9. CopyOf(msg, cur)'
  BY <1>1, <1>6 DEF NoLossInv, WorkCovers, CopyOf
<1>10. ASSUME NEW s \in SettledIn(msg') PROVE Done(id, s)' \/ s \in NewlyBounced'
  <2>1. CASE s # k
    <3>1. s \in SettledIn(msg) /\ s \in AllSlots
      BY <1>1, <1>6, <2>1, SlotType DEF SettledIn, PendingSlots
    <3>2. Done(id, s) \/ s \in NewlyBounced
      BY <1>1, <1>4, <3>1 DEF NoLossInv, WorkCovers
    <3>3. Done(id, s) => Done(id, s)'
      BY <1>1, <1>5, <3>1, DoneKept
    <3>4. s \in NewlyBounced => s \in NewlyBounced'
      BY <1>1, <1>6, <1>8, <2>1 DEF NewlyBounced
    <3>. QED  BY <3>2, <3>3, <3>4
  <2>2. CASE s = k /\ msg'.recipients[k].status = "bounced"
    BY <1>1, <1>8, <2>2 DEF NewlyBounced
  <2>3. CASE s = k /\ msg'.recipients[k].status = "delivered" /\ attempt = "delivered"
    <3>1. sent'[<<id, k>>] > 0
      BY <1>2, <1>3, <1>4, <2>3 DEF TypeOK, HistoryType
    <3>. QED  BY <2>3, <3>1 DEF Done
  <2>4. CASE s = k /\ msg'.recipients[k].status = "deferred"
    BY <2>4 DEF SettledIn, PendingSlots, IsPending
  <2>. QED  BY <1>7, <2>1, <2>2, <2>3, <2>4
<1>11. ASSUME NEW s \in NewlyBounced' PROVE <<id, s>> \in failed'
  <2>1. CASE s # k
    <3>1. s \in NewlyBounced
      BY <1>1, <1>6, <1>8, <2>1 DEF NewlyBounced
    <3>. QED  BY <1>1, <1>4, <1>5, <3>1 DEF NoLossInv, WorkCovers, Grows
  <2>2. CASE s = k
    BY <1>2, <1>3, <1>4, <2>2 DEF NewlyBounced
  <2>. QED  BY <2>1, <2>2
<1>12. PendingSlots(msg') \subseteq before'
  <2>1. PendingSlots(msg) \subseteq before
    BY <1>1 DEF NoLossInv, WorkCovers
  <2>. QED  BY <1>1, <1>3, <1>6, <2>1 DEF PendingSlots
<1>13. WorkCovers'
  <2>1. \A s \in SettledIn(msg') : Done(cur, s)' \/ s \in NewlyBounced'
    BY <1>1, <1>4, <1>10 DEF Done
  <2>2. \A s \in NewlyBounced' : <<cur', s>> \in failed'
    BY <1>1, <1>4, <1>11
  <2>. QED  BY <1>1, <1>9, <1>12, <2>1, <2>2 DEF WorkCovers
<1>. QED  BY <1>1, <1>5, <1>13, PassFrameNoLoss

(* Nothing to report: no recipient bounced in this pass, or the message came  *)
(* from the empty return path.                                                *)
LEMMA NothingToReportNoLoss ==
    ASSUME TypeOK, TypeOK', NoLossInv, NothingToReport
    PROVE  NoLossInv'
<1>1. /\ UNCHANGED <<queue, batch, origin, admin, client, cur, msg, before, sent, reports, failed, removed>>
      /\ pc = "report" /\ pc' = "commit" /\ Grows
      /\ msg.returnPath = NullSender \/ NewlyBounced = {}
  BY DEF NothingToReport, mailVars, history, Grows, TypeOK, HistoryType
<1>2. \A s \in SettledIn(msg) : Done(cur, s)
  BY <1>1 DEF NoLossInv, WorkCovers, Done, CopyOf
<1>3. WorkCovers'
  BY <1>1, <1>2 DEF NoLossInv, WorkCovers, Done, CopyOf, NewlyBounced
<1>. QED  BY <1>1, <1>3, PassFrameNoLoss

LEMMA PublishReportNoLoss ==
    ASSUME TypeOK, TypeOK', NoLossInv, FreshIds, PublishReport
    PROVE  NoLossInv'
<1>1. /\ UNCHANGED <<batch, admin, client, cur, msg, before, sent, failed, removed>>
      /\ pc = "record" /\ pc' = "commit" /\ cur \in Ids /\ msg \in Message /\ passNow \in Nat
  BY DEF PublishReport, TypeOK, ManagerType
<1>2. PICK j \in Ids, m \in Message :
         /\ j > lastId /\ SettledIn(m) = {}
         /\ queue' = [queue EXCEPT ![j] = m] /\ origin' = [origin EXCEPT ![j] = m]
  <2>. DEFINE report == NewMessage(passNow, <<cur, passNow>>, NullSender, 1, "at")
  <2>1. lastId + 1 \in Ids /\ lastId + 1 > lastId /\ 1 \in AllSlots /\ cur \in Nat
    BY <1>1, OutboundQueueAssumption DEF PublishReport, TypeOK, MailType
  <2>2. report \in Message /\ SettledIn(report) = {}
    BY <1>1, <2>1, DsnHashType, NewMessageType DEF ReturnPaths
  <2>. HIDE DEF report
  <2>3. queue' = [queue EXCEPT ![lastId + 1] = report] /\ origin' = [origin EXCEPT ![lastId + 1] = report]
    BY DEF PublishReport, PutRecord, report
  <2>. QED  BY <2>1, <2>2, <2>3
<1>3. PICK id \in Ids : id = cur
  BY <1>1
<1>4. Unissued(j) /\ j # id
  BY <1>2, <1>3 DEF FreshIds, Unissued
<1>5. \A s \in AllSlots : reports'[<<id, s>>] =
          IF s \in NewlyBounced THEN reports[<<id, s>>] + 1 ELSE reports[<<id, s>>]
  BY <1>3 DEF PublishReport
<1>6. Grows
  BY <1>1 DEF PublishReport, Grows, TypeOK, HistoryType
<1>7. \A i \in Ids : i # j => origin'[i] = origin[i] /\ queue'[i] = queue[i]
  BY <1>2 DEF TypeOK, MailType, HistoryType
<1>8. origin'[j] = m /\ queue'[j] = m /\ m # None
  BY <1>2, NotNone DEF TypeOK, MailType, HistoryType
<1>9. RecordCovers(j)'
  BY <1>2, <1>8 DEF RecordCovers, Covers, CopyOf
<1>10. \A i \in Ids : RecordCovers(i)' /\ (batch'[i] # None => Covers(batch[i], i)')
  BY <1>1, <1>4, <1>6, <1>7, <1>9, NoLossKept DEF Unissued
<1>11. admin' # None => Covers(admin.message, admin.id)'
  <2>1. admin # None => admin.id \in Ids /\ admin.id # j
    BY <1>4 DEF Unissued, TypeOK, CallerType, AdminCalls
  <2>. QED  BY <1>1, <1>6, <1>7, <2>1, RetryKept
<1>12. ASSUME NEW s \in SettledIn(msg) PROVE Done(id, s)'
  <2>1. s \in AllSlots
    BY <1>1, <1>12, SlotType DEF SettledIn
  <2>2. CASE Done(id, s)
    BY <1>3, <1>4, <1>6, <1>7, <2>1, <2>2, DoneKept
  <2>3. CASE s \in NewlyBounced
    <3>1. reports'[<<id, s>>] > 0
      BY <1>5, <2>1, <2>3 DEF TypeOK, HistoryType
    <3>. QED  BY <3>1 DEF Done
  <2>. QED  BY <1>1, <1>3, <1>12, <2>2, <2>3 DEF NoLossInv, WorkCovers
<1>13. WorkCovers'
  <2>1. CopyOf(msg, cur)'
    BY <1>1, <1>3, <1>4, <1>7 DEF NoLossInv, WorkCovers, CopyOf
  <2>2. \A s \in SettledIn(msg') : Done(cur, s)'
    BY <1>1, <1>3, <1>12 DEF Done
  <2>3. \A s \in NewlyBounced' : <<cur', s>> \in failed'
    BY <1>1 DEF NoLossInv, WorkCovers, NewlyBounced
  <2>. QED  BY <1>1, <2>1, <2>2, <2>3 DEF WorkCovers
<1>. QED  BY <1>1, <1>10, <1>11, <1>13 DEF NoLossInv, RequestsPending

LEMMA CommitNoLoss ==
    ASSUME TypeOK, TypeOK', NoLossInv, Commit
    PROVE  NoLossInv'
<1>1. /\ UNCHANGED <<batch, origin, admin, client, sent, reports, failed, removed>> /\ Grows
      /\ pc = "commit" /\ pc' = "next" /\ cur \in Ids /\ msg \in Message
      /\ queue' = [queue EXCEPT ![cur] = IF IsComplete(msg) THEN None ELSE msg]
  BY DEF Commit, DropWork, PutRecord, history, Grows, TypeOK, ManagerType, HistoryType
<1>2. PICK id \in Ids : id = cur
  BY <1>1
<1>3. queue'[id] = (IF IsComplete(msg) THEN None ELSE msg) /\ \A i \in Ids : i # id => queue'[i] = queue[i]
  BY <1>1, <1>2 DEF TypeOK, MailType
<1>4. CopyOf(msg, id) /\ \A s \in SettledIn(msg) : Done(id, s)
  BY <1>1, <1>2 DEF NoLossInv, WorkCovers
<1>5. \A s : Done(id, s)' <=> Done(id, s)
  BY <1>1 DEF Done
<1>6. RecordCovers(id)'
  <2>1. CASE IsComplete(msg)
    BY <1>1, <1>3, <1>4, <1>5, <2>1 DEF RecordCovers, CopyOf, IsComplete, SettledIn
  <2>2. CASE ~IsComplete(msg)
    BY <1>1, <1>3, <1>4, <1>5, <2>2, NotNone DEF RecordCovers, Covers, CopyOf
  <2>. QED  BY <2>1, <2>2
<1>7. \A i \in Ids : RecordCovers(i)' /\ (batch'[i] # None => Covers(batch[i], i)')
  BY <1>1, <1>3, <1>6, NoLossKept
<1>8. admin' # None => Covers(admin.message, admin.id)'
  BY <1>1, RetryKept
<1>9. WorkCovers' /\ RequestsPending'
  BY <1>1 DEF WorkCovers, NoLossInv, RequestsPending
<1>. QED  BY <1>7, <1>8, <1>9 DEF NoLossInv

LEMMA NoLossStep ==
    ASSUME TypeOK, TypeOK', FreshIds, NoLossInv, [Next]_vars
    PROVE  NoLossInv'
<1>1. ASSUME UNCHANGED client PROVE RequestsPending'
  BY <1>1 DEF NoLossInv, RequestsPending
<1>2. CASE StartPass \/ AttemptsDone \/ StoreReport \/ EndPass \/ WakeByToken \/ WakeByTimer \/ Restart
  BY <1>1, <1>2, NoLossFrame
     DEF StartPass, AttemptsDone, StoreReport, EndPass, WakeByToken, WakeByTimer, Restart,
         mailVars, history
<1>3. CASE RetryNudge \/ PurgeList \/ PurgeDelete \/ Tick
  BY <1>1, <1>3, NoLossFrame
     DEF RetryNudge, PurgeList, PurgeDelete, Tick, mailVars, managerVars, history
<1>4. CASE UNCHANGED vars
  BY <1>1, <1>4, NoLossFrame DEF vars, mailVars, managerVars, history
<1>. QED  BY <1>2, <1>3, <1>4, CallerNoLoss, AdminNoLoss, LoopNoLoss, ReadBodyNoLoss, AttemptNoLoss,
             NothingToReportNoLoss, PublishReportNoLoss, CommitNoLoss
          DEF Next, Manager, Administrator, Failure

(* The inductive invariant itself: every copy of a message covers the         *)
(* recipients it was accepted with, and one settled in a copy is settled.     *)
THEOREM CopiesCover == Spec => []NoLossInv
<1>1. TypeOK /\ TypeOK' /\ OneOutcomeInv /\ NoLossInv /\ [Next]_vars => NoLossInv'
  BY NoLossStep DEF OneOutcomeInv
<1>. QED  BY <1>1, NoLossInit, CopiesMaySettle, TypeCorrect, PTL DEF Spec

(* A recipient of an accepted message is never forgotten, through any number  *)
(* of passes, errors, crashes, retries, deletes and purges.                   *)
THEOREM NothingLost == Spec => []NoSilentLoss
<1>1. NoLossInv => NoSilentLoss
  BY DEF NoLossInv, NoSilentLoss, RecordCovers, Accounted, Done, Covers, CopyOf, SettledIn, PendingSlots
<1>. QED  BY <1>1, CopiesCover, PTL

----------------------------------------------------------------------------
(* Each step of the queue is a step of the transfers it stands for, or leaves *)
(* them alone.                                                                *)

(* Nothing was deleted or has failed under an id that is not issued yet.      *)
NothingUnderFreshIds ==
    \A id \in Ids : id > lastId =>
        id \notin removed /\ \A s \in AllSlots : <<id, s>> \notin failed

LEMMA FreshHistoryStep ==
    ASSUME TypeOK, TypeOK', FreshIds, NothingUnderFreshIds, [Next]_vars
    PROVE  NothingUnderFreshIds'
<1>. USE DEF NothingUnderFreshIds
<1>1. lastId' >= lastId /\ lastId \in Nat /\ lastId' \in Nat
  <2>1. lastId \in Nat /\ lastId' \in Nat
    BY DEF TypeOK, MailType
  <2>2. lastId' = lastId \/ lastId' = lastId + 1
    BY DEF Next, Manager, Caller, Administrator, Failure, vars, mailVars, Scan, ScanFails,
           StartPass, TakeMessage, ReadBody, Attempt, AttemptsDone, NothingToReport, StoreReport,
           PublishReport, Commit, PassFails, EndPass, WakeByToken, WakeByTimer, Restart, StoreBody,
           Publish, ClientNudge, EnqueueFails, RetryLoad, RetryPersist, RetryNudge, AdminDelete,
           PurgeList, PurgeDelete, Crash, Tick
  <2>. QED  BY <2>1, <2>2
<1>2. CASE ReadBody \/ Attempt
  <2>1. cur \in Ids /\ ~(cur > lastId) /\ UNCHANGED removed
    BY <1>2 DEF ReadBody, Attempt, TypeOK, ManagerType, FreshIds, Unissued
  <2>2. \A id \in Ids, s \in AllSlots : <<id, s>> \in failed' => <<id, s>> \in failed \/ id = cur
    BY <1>2 DEF ReadBody, Attempt
  <2>3. ASSUME NEW id \in Ids, id > lastId' PROVE id > lastId
    BY <1>1, <2>3
  <2>. QED  BY <2>1, <2>2, <2>3
<1>3. CASE AdminDelete
  <2>1. PICK id \in Ids : queue[id] # None /\ removed' = removed \cup {id}
    BY <1>3 DEF AdminDelete
  <2>2. ~(id > lastId) /\ UNCHANGED failed
    BY <1>3, <2>1 DEF AdminDelete, FreshIds, Unissued
  <2>3. ASSUME NEW i \in Ids, i > lastId' PROVE i > lastId
    BY <1>1, <2>3
  <2>. QED  BY <2>1, <2>2, <2>3
<1>4. CASE UNCHANGED <<removed, failed>>
  BY <1>1, <1>4
<1>5. ReadBody \/ Attempt \/ AdminDelete \/ UNCHANGED <<removed, failed>>
  BY DEF Next, Manager, Caller, Administrator, Failure, vars, history, Scan, ScanFails,
         StartPass, TakeMessage, AttemptsDone, NothingToReport, StoreReport,
         PublishReport, Commit, PassFails, EndPass, WakeByToken, WakeByTimer, Restart, StoreBody,
         Publish, ClientNudge, EnqueueFails, RetryLoad, RetryPersist, RetryNudge,
         PurgeList, PurgeDelete, Crash, Tick
<1>. QED  BY <1>2, <1>3, <1>4, <1>5

(* A report is under way only about a message whose sender can be told.       *)
ReportsHaveReader == pc = "record" => msg.returnPath # NullSender

LEMMA ReportStageStep ==
    ASSUME ReportsHaveReader, [Next]_vars
    PROVE  ReportsHaveReader'
<1>. USE DEF ReportsHaveReader
<1>1. CASE StoreReport
  BY <1>1 DEF StoreReport
<1>2. CASE pc' # "record"
  BY <1>2
<1>3. CASE UNCHANGED <<pc, msg>>
  BY <1>3
<1>4. StoreReport \/ pc' # "record" \/ UNCHANGED <<pc, msg>>
  BY DEF Next, Manager, Caller, Administrator, Failure, vars, managerVars, DropWork, Scan,
         ScanFails, StartPass, TakeMessage, ReadBody, Attempt, AttemptsDone, NothingToReport,
         PublishReport, Commit, PassFails, EndPass, WakeByToken, WakeByTimer, Restart, StoreBody,
         Publish, ClientNudge, EnqueueFails, RetryLoad, RetryPersist, RetryNudge, AdminDelete,
         PurgeList, PurgeDelete, Crash, Tick
<1>. QED  BY <1>1, <1>2, <1>3, <1>4

TransferMoves == Transfer!TransferNext \/ UNCHANGED Transfer!transferVars

LEMMA TransferFrame ==
    ASSUME mishaps' \in {mishaps, mishaps + 1},
           UNCHANGED <<queue, origin, sent, reports, failed, removed>>
    PROVE  TransferMoves
<1>1. UNCHANGED <<AcceptedTransfers, MuteTransfers, OpenTransfers, TransferOutcomes, ExcusedTransfers>>
  BY DEF AcceptedTransfers, MuteTransfers, OpenTransfers, TransferOutcomes, ExcusedTransfers
<1>. QED  BY <1>1 DEF TransferMoves, Transfer!TransferNext, Transfer!Fault, Transfer!transferVars

(* A message published under a new id adds its recipients, all pending.       *)
LEMMA PublishedTransfers ==
    ASSUME TypeOK, TypeOK', FreshIds, NothingUnderFreshIds, NEW m \in Message,
           SettledIn(m) = {}, lastId < MaxId,
           queue' = [queue EXCEPT ![lastId + 1] = m],
           origin' = [origin EXCEPT ![lastId + 1] = m],
           UNCHANGED <<failed, removed>>
    PROVE  LET N == {p \in Ids \X AllSlots : p[1] = lastId + 1 /\ p[2] \in Slots(m)}
           IN  /\ N \in SUBSET ((Ids \X AllSlots) \ AcceptedTransfers)
               /\ AcceptedTransfers' = AcceptedTransfers \cup N
               /\ OpenTransfers' = OpenTransfers \cup N
               /\ MuteTransfers' = IF m.returnPath = NullSender THEN MuteTransfers \cup N
                                                                ELSE MuteTransfers
               /\ ExcusedTransfers' = ExcusedTransfers
<1>. DEFINE N == {p \in Ids \X AllSlots : p[1] = lastId + 1 /\ p[2] \in Slots(m)}
<1>0. /\ lastId + 1 \in Ids /\ lastId + 1 > lastId /\ m # None
      /\ origin \in Records /\ queue \in Records
      /\ Slots(m) \subseteq AllSlots /\ PendingSlots(m) = Slots(m)
  BY OutboundQueueAssumption, NotNone, PendingSlotsType
     DEF TypeOK, MailType, HistoryType, Message, SettledIn
<1>1. /\ origin[lastId + 1] = None /\ queue[lastId + 1] = None
      /\ lastId + 1 \notin removed /\ \A s \in AllSlots : <<lastId + 1, s>> \notin failed
  BY <1>0 DEF FreshIds, Unissued, NothingUnderFreshIds
<1>2. /\ origin'[lastId + 1] = m /\ queue'[lastId + 1] = m
      /\ \A id \in Ids : id # lastId + 1 => origin'[id] = origin[id] /\ queue'[id] = queue[id]
  BY <1>0
<1>3. N \in SUBSET ((Ids \X AllSlots) \ AcceptedTransfers)
  BY <1>1 DEF AcceptedTransfers
<1>4. AcceptedTransfers' = AcceptedTransfers \cup N
  BY <1>0, <1>1, <1>2 DEF AcceptedTransfers
<1>5. OpenTransfers' = OpenTransfers \cup N
  BY <1>0, <1>1, <1>2 DEF OpenTransfers
<1>6. MuteTransfers' = IF m.returnPath = NullSender THEN MuteTransfers \cup N ELSE MuteTransfers
  <2>1. \A p \in N : origin'[p[1]].returnPath = m.returnPath
    BY <1>2
  <2>2. \A p \in AcceptedTransfers : origin'[p[1]] = origin[p[1]]
    BY <1>1, <1>2 DEF AcceptedTransfers
  <2>. QED  BY <1>4, <2>1, <2>2 DEF MuteTransfers
<1>7. ExcusedTransfers' = ExcusedTransfers
  <2>1. \A p \in N : p[1] \notin removed /\ p \notin failed
    BY <1>1
  <2>2. MuteTransfers' \ MuteTransfers \subseteq N /\ MuteTransfers \subseteq MuteTransfers'
    BY <1>6
  <2>. QED  BY <1>4, <2>1, <2>2 DEF ExcusedTransfers
<1>. QED  BY <1>3, <1>4, <1>5, <1>6, <1>7

LEMMA PublishTransfer ==
    ASSUME TypeOK, TypeOK', FreshIds, NoLossInv, NothingUnderFreshIds, NEW c \in Clients, Publish(c)
    PROVE  TransferMoves
<1>. DEFINE m == client[c].message
            N == {p \in Ids \X AllSlots : p[1] = lastId + 1 /\ p[2] \in Slots(m)}
<1>1. m \in Message /\ SettledIn(m) = {}
  BY DEF Publish, TypeOK, CallerType, Requests, NoLossInv, RequestsPending
<1>2. /\ lastId < MaxId /\ queue' = [queue EXCEPT ![lastId + 1] = m]
      /\ origin' = [origin EXCEPT ![lastId + 1] = m]
      /\ UNCHANGED <<failed, removed, sent, reports, mishaps>>
  BY DEF Publish, PutRecord
<1>. HIDE DEF m
<1>3. /\ N \in SUBSET ((Ids \X AllSlots) \ AcceptedTransfers)
      /\ AcceptedTransfers' = AcceptedTransfers \cup N
      /\ OpenTransfers' = OpenTransfers \cup N
      /\ MuteTransfers' \in {MuteTransfers, MuteTransfers \cup N}
      /\ ExcusedTransfers' = ExcusedTransfers
  BY <1>1, <1>2, PublishedTransfers
<1>4. UNCHANGED <<TransferOutcomes, mishaps>>
  BY <1>2 DEF TransferOutcomes
<1>. HIDE DEF N
<1>5. Transfer!Accept
  BY <1>3, <1>4 DEF Transfer!Accept
<1>. QED  BY <1>5 DEF TransferMoves, Transfer!TransferNext

LEMMA PublishReportTransfer ==
    ASSUME TypeOK, TypeOK', OneOutcomeInv, NoLossInv, NothingUnderFreshIds, ReportsHaveReader,
           PublishReport
    PROVE  TransferMoves
<1>. DEFINE m == NewMessage(passNow, <<cur, passNow>>, NullSender, 1, "at")
            N == {p \in Ids \X AllSlots : p[1] = lastId + 1 /\ p[2] \in Slots(m)}
            T == {p \in Ids \X AllSlots : p[1] = cur /\ p[2] \in NewlyBounced}
<1>1. cur \in Ids /\ msg \in Message /\ passNow \in Nat /\ pc \in Working /\ pc # "commit"
  BY DEF PublishReport, TypeOK, ManagerType
<1>2. m \in Message /\ SettledIn(m) = {} /\ m.returnPath = NullSender
  <2>1. m \in Message
    BY <1>1, NewMessageType, DsnHashType, OutboundQueueAssumption DEF ReturnPaths
  <2>2. SettledIn(m) = {}
    BY DEF NewMessage, NewRecipient, SettledIn, PendingSlots, IsPending, Slots
  <2>. QED  BY <2>1, <2>2 DEF NewMessage
<1>3. /\ lastId < MaxId /\ queue' = [queue EXCEPT ![lastId + 1] = m]
      /\ origin' = [origin EXCEPT ![lastId + 1] = m]
      /\ UNCHANGED <<failed, removed, sent, mishaps>>
      /\ reports' = [p \in Ids \X AllSlots |->
             IF p[1] = cur /\ p[2] \in NewlyBounced THEN reports[p] + 1 ELSE reports[p]]
  BY DEF PublishReport, PutRecord
<1>. HIDE DEF m
<1>4. /\ N \in SUBSET ((Ids \X AllSlots) \ AcceptedTransfers)
      /\ AcceptedTransfers' = AcceptedTransfers \cup N
      /\ OpenTransfers' = OpenTransfers \cup N
      /\ MuteTransfers' = MuteTransfers \cup N
      /\ ExcusedTransfers' = ExcusedTransfers
  BY <1>2, <1>3, PublishedTransfers DEF OneOutcomeInv
<1>. HIDE DEF N
<1>5. CopyOf(msg, cur) /\ NewlyBounced \subseteq Slots(msg)
  BY <1>1 DEF NoLossInv, WorkCovers, NewlyBounced, TypeOK, ManagerType
<1>6. msg.returnPath # NullSender
  BY DEF PublishReport, ReportsHaveReader
<1>7. T \in SUBSET (AcceptedTransfers \ MuteTransfers)
  BY <1>5, <1>6 DEF CopyOf, AcceptedTransfers, MuteTransfers
<1>8. \A t \in T : TransferOutcomes[t] <= mishaps
  BY <1>1 DEF OneOutcomeInv, Outcomes, TransferOutcomes
<1>9. TransferOutcomes' = [t \in Ids \X AllSlots |-> TransferOutcomes[t] + (IF t \in T THEN 1 ELSE 0)]
  BY <1>3 DEF TransferOutcomes, TypeOK, HistoryType
<1>. HIDE DEF T
<1>10. Transfer!Report
  BY <1>3, <1>4, <1>7, <1>8, <1>9 DEF Transfer!Report, Transfer!MayHave, Transfer!Counted
<1>. QED  BY <1>10 DEF TransferMoves, Transfer!TransferNext

(* Steps that change no record leave what is accepted, mute and open alone.   *)
LEMMA RecordsKept ==
    ASSUME UNCHANGED <<queue, origin, removed>>
    PROVE  UNCHANGED <<AcceptedTransfers, MuteTransfers, OpenTransfers>>
BY DEF AcceptedTransfers, MuteTransfers, OpenTransfers

LEMMA ReadBodyTransfer ==
    ASSUME TypeOK, ReadBody
    PROVE  TransferMoves
<1>. DEFINE T == {p \in MuteTransfers : p \in failed' /\ p \notin failed}
<1>1. UNCHANGED <<queue, origin, removed, sent, reports, mishaps>>
  BY DEF ReadBody, mailVars
<1>2. UNCHANGED <<AcceptedTransfers, MuteTransfers, OpenTransfers, TransferOutcomes>>
  BY <1>1, RecordsKept DEF TransferOutcomes
<1>3. failed \subseteq failed'
  BY DEF ReadBody
<1>4. ExcusedTransfers' = ExcusedTransfers \cup T
  BY <1>1, <1>2, <1>3 DEF ExcusedTransfers
<1>5. Transfer!GiveUp
  BY <1>1, <1>2, <1>4 DEF Transfer!GiveUp
<1>. QED  BY <1>5 DEF TransferMoves, Transfer!TransferNext

LEMMA AttemptTransfer ==
    ASSUME TypeOK, TypeOK', OneOutcomeInv, NoLossInv, Attempt
    PROVE  TransferMoves
<1>. DEFINE t == <<cur, NextSlot>>
<1>1. cur \in Ids /\ msg \in Message /\ passNow \in Nat /\ pc \in Working
  BY DEF Attempt, TypeOK, ManagerType
<1>2. NextSlot \in DueSlots(msg, passNow)
  BY <1>1, NextSlotType DEF Attempt
<1>3. NextSlot \in PendingSlots(msg) /\ NextSlot \in Slots(msg) /\ NextSlot \in AllSlots
  BY <1>1, <1>2, SlotType DEF DueSlots, IsDue, PendingSlots
<1>4. /\ UNCHANGED <<queue, origin, removed, reports>>
      /\ mishaps' \in {mishaps, mishaps + 1} /\ mishaps \in Nat
      /\ failed' \in {failed, failed \cup {t}}
  BY DEF Attempt, mailVars, TypeOK, HistoryType
<1>5. t \in AcceptedTransfers /\ TransferOutcomes[t] <= mishaps
  BY <1>1, <1>3 DEF NoLossInv, WorkCovers, CopyOf, AcceptedTransfers, OneOutcomeInv, MaySettle,
                    Outcomes, TransferOutcomes
<1>6. UNCHANGED <<AcceptedTransfers, MuteTransfers, OpenTransfers>>
  BY <1>4, RecordsKept
<1>7. ExcusedTransfers' \in {ExcusedTransfers, ExcusedTransfers \cup ({t} \cap MuteTransfers)}
  BY <1>4, <1>6 DEF ExcusedTransfers
<1>8. CASE sent' = sent
  <2>1. UNCHANGED TransferOutcomes
    BY <1>4, <1>8 DEF TransferOutcomes
  <2>2. CASE mishaps' = mishaps
    <3>1. ASSUME ExcusedTransfers' = ExcusedTransfers PROVE Transfer!GiveUp
      <4>1. ExcusedTransfers' = ExcusedTransfers \cup {} /\ {} \in SUBSET MuteTransfers
        BY <3>1
      <4>. QED  BY <1>6, <2>1, <2>2, <4>1 DEF Transfer!GiveUp
    <3>2. ASSUME ExcusedTransfers' = ExcusedTransfers \cup ({t} \cap MuteTransfers)
          PROVE  Transfer!GiveUp
      <4>. DEFINE T == {t} \cap MuteTransfers
      <4>1. ExcusedTransfers' = ExcusedTransfers \cup T /\ T \in SUBSET MuteTransfers
        BY <3>2
      <4>. HIDE DEF T
      <4>. QED  BY <1>6, <2>1, <2>2, <4>1 DEF Transfer!GiveUp
    <3>3. Transfer!GiveUp
      BY <1>7, <3>1, <3>2
    <3>. QED  BY <3>3 DEF TransferMoves, Transfer!TransferNext
  <2>3. mishaps' = mishaps
    BY <1>1, <1>3, <1>4, <1>8 DEF Attempt, TypeOK, HistoryType
  <2>. QED  BY <2>2, <2>3
<1>9. CASE sent' # sent
  <2>1. sent' = [sent EXCEPT ![t] = @ + 1]
    BY <1>9 DEF Attempt
  <2>2. TransferOutcomes' = [p \in Ids \X AllSlots |-> TransferOutcomes[p] + (IF p \in {t} THEN 1 ELSE 0)]
    <3>1. t \in Ids \X AllSlots /\ sent \in [Ids \X AllSlots -> Nat]
      BY <1>1, <1>3 DEF TypeOK, HistoryType
    <3>. HIDE DEF t
    <3>2. \A p \in Ids \X AllSlots : sent'[p] = sent[p] + (IF p \in {t} THEN 1 ELSE 0)
      BY <2>1, <3>1
    <3>3. \A p \in Ids \X AllSlots : reports'[p] = reports[p] /\ reports[p] \in Nat /\ sent[p] \in Nat
      BY <1>4, <3>1 DEF TypeOK, HistoryType
    <3>. QED  BY <3>2, <3>3 DEF TransferOutcomes
  <2>. HIDE DEF t
  <2>3. CASE mishaps' = mishaps + 1
    <3>1. Transfer!HandOverUnheard
      BY <1>5, <1>6, <1>7, <2>2, <2>3 DEF Transfer!HandOverUnheard, Transfer!MayHave, Transfer!Counted
    <3>. QED  BY <3>1 DEF TransferMoves, Transfer!TransferNext
  <2>4. CASE mishaps' = mishaps
    <3>1. UNCHANGED failed
      BY <1>1, <1>3, <1>9, <2>4 DEF Attempt, AfterAttempt, ApplyAttempt, TypeOK, HistoryType, Slots
    <3>2. UNCHANGED ExcusedTransfers
      BY <1>4, <1>6, <3>1 DEF ExcusedTransfers
    <3>3. Transfer!HandOver
      BY <1>5, <1>6, <2>2, <2>4, <3>2 DEF Transfer!HandOver, Transfer!MayHave, Transfer!Counted
    <3>. QED  BY <3>3 DEF TransferMoves, Transfer!TransferNext
  <2>. QED  BY <1>4, <2>3, <2>4
<1>. QED  BY <1>8, <1>9

(* A step that writes one record afresh: what it closes has its outcome, what *)
(* it opens may still have one.                                               *)
LEMMA RewriteTransfer ==
    ASSUME TypeOK, TypeOK', NoLossInv, NoLossInv', OneOutcomeInv, NEW id \in Ids,
           NEW m \in Message, CopyOf(m, id),
           queue' = [queue EXCEPT ![id] = IF IsComplete(m) THEN None ELSE m]
              \/ queue' = [queue EXCEPT ![id] = m],
           \A s \in PendingSlots(m) : Outcomes(id, s) <= mishaps',
           mishaps' \in {mishaps, mishaps + 1},
           UNCHANGED <<origin, sent, reports, failed, removed>>
    PROVE  TransferMoves
<1>1. UNCHANGED <<AcceptedTransfers, MuteTransfers, TransferOutcomes, ExcusedTransfers>>
  BY DEF AcceptedTransfers, MuteTransfers, TransferOutcomes, ExcusedTransfers
<1>2. /\ \A i \in Ids : i # id => queue'[i] = queue[i]
      /\ queue'[id] # None => queue'[id] = m
      /\ queue'[id] = None => PendingSlots(m) = {}
  BY NotNone DEF TypeOK, MailType, IsComplete
<1>3. OpenTransfers' \subseteq AcceptedTransfers
  <2>. SUFFICES ASSUME NEW p \in Ids \X AllSlots, queue'[p[1]] # None,
                       p[2] \in PendingSlots(queue'[p[1]])
                PROVE  p \in AcceptedTransfers
    BY DEF OpenTransfers
  <2>1. CopyOf(queue[p[1]], p[1])'
    BY DEF NoLossInv, RecordCovers, Covers
  <2>. QED  BY <2>1, PendingSlotsType DEF CopyOf, AcceptedTransfers
<1>4. \A p \in OpenTransfers' \ OpenTransfers : TransferOutcomes[p] <= mishaps'
  <2>. SUFFICES ASSUME NEW p \in Ids \X AllSlots, p \in OpenTransfers', p \notin OpenTransfers
                PROVE  TransferOutcomes[p] <= mishaps'
    BY DEF OpenTransfers
  <2>1. p[1] = id /\ p[2] \in PendingSlots(m)
    BY <1>2 DEF OpenTransfers
  <2>. QED  BY <2>1 DEF Outcomes, TransferOutcomes
<1>5. OpenTransfers \ OpenTransfers' \subseteq
          {p \in AcceptedTransfers : TransferOutcomes[p] > 0} \cup ExcusedTransfers
  <2>. SUFFICES ASSUME NEW p \in Ids \X AllSlots, p \in OpenTransfers, p \notin OpenTransfers'
                PROVE  \/ p \in AcceptedTransfers /\ TransferOutcomes[p] > 0
                       \/ p \in ExcusedTransfers
    BY DEF OpenTransfers
  <2>1. p[1] = id /\ queue[id] # None /\ p[2] \in PendingSlots(queue[id])
    BY <1>2 DEF OpenTransfers
  <2>2. p[2] \in Slots(origin[id]) /\ origin[id] # None
    BY <2>1, PendingSlotsType DEF NoLossInv, RecordCovers, Covers, CopyOf
  <2>3. Done(id, p[2])'
    <3>1. CASE queue'[id] = None
      BY <2>2, <3>1 DEF NoLossInv, RecordCovers
    <3>2. CASE queue'[id] # None
      <4>1. p[2] \notin PendingSlots(m) /\ queue'[id] = m /\ p[2] \in Slots(m)
        BY <1>2, <2>1, <2>2, <3>2 DEF OpenTransfers, CopyOf
      <4>. QED  BY <2>2, <3>2, <4>1 DEF NoLossInv, RecordCovers, Covers, SettledIn
    <3>. QED  BY <3>1, <3>2
  <2>4. p \in AcceptedTransfers /\ p = <<id, p[2]>>
    BY <2>1, <2>2 DEF AcceptedTransfers
  <2>5. sent[p] \in Nat /\ reports[p] \in Nat
    BY DEF TypeOK, HistoryType
  <2>. QED  BY <2>1, <2>3, <2>4, <2>5 DEF Done, TransferOutcomes, ExcusedTransfers, MuteTransfers
<1>6. Transfer!Rewrite
  BY <1>1, <1>3, <1>4, <1>5 DEF Transfer!Rewrite, Transfer!Settled
<1>. QED  BY <1>6 DEF TransferMoves, Transfer!TransferNext

LEMMA CommitTransfer ==
    ASSUME TypeOK, TypeOK', OneOutcomeInv, NoLossInv, NoLossInv', Commit
    PROVE  TransferMoves
<1>1. cur \in Ids /\ msg \in Message /\ pc \in Working
  BY DEF Commit, TypeOK, ManagerType
<1>2. CopyOf(msg, cur) /\ MaySettle(msg, cur)
  BY <1>1 DEF NoLossInv, WorkCovers, OneOutcomeInv
<1>3. /\ queue' = [queue EXCEPT ![cur] = IF IsComplete(msg) THEN None ELSE msg]
      /\ UNCHANGED <<origin, sent, reports, failed, removed, mishaps>>
  BY DEF Commit, PutRecord, history
<1>. QED  BY <1>1, <1>2, <1>3, RewriteTransfer DEF MaySettle

LEMMA RetryTransfer ==
    ASSUME TypeOK, TypeOK', OneOutcomeInv, NoLossInv, NoLossInv', RetryPersist
    PROVE  TransferMoves
<1>. DEFINE id == admin.id
            m == DueNow(admin.message, admin.at)
<1>1. id \in Ids /\ admin.message \in Message /\ admin.at \in Nat
  BY DEF RetryPersist, TypeOK, CallerType, AdminCalls
<1>2. m \in Message /\ Slots(m) = Slots(admin.message) /\ PendingSlots(m) = PendingSlots(admin.message)
      /\ m.returnPath = admin.message.returnPath
  BY <1>1, DueNowType
<1>3. CopyOf(m, id)
  BY <1>2 DEF RetryPersist, NoLossInv, Covers, CopyOf
<1>4. /\ queue' = [queue EXCEPT ![id] = m]
      /\ mishaps' = mishaps + (IF queue[id] = admin.message THEN 0 ELSE 1)
      /\ UNCHANGED <<origin, sent, reports, failed, removed>>
      /\ mishaps \in Nat
  BY DEF RetryPersist, PutRecord, TypeOK, HistoryType
<1>. HIDE DEF m
<1>5. CASE queue[id] # admin.message
  <2>1. mishaps' = mishaps + 1
    BY <1>4, <1>5
  <2>2. \A s \in PendingSlots(m) : Outcomes(id, s) <= mishaps'
    BY <1>1, <1>2, <1>4, <2>1, SlotType, PendingSlotsType DEF OneOutcomeInv, AtMostOneOutcome, Outcomes
  <2>. QED  BY <1>1, <1>2, <1>3, <1>4, <2>1, <2>2, RewriteTransfer
<1>6. CASE queue[id] = admin.message
  <2>1. queue[id] # None /\ queue'[id] = m /\ m # None /\ mishaps' = mishaps
    BY <1>1, <1>2, <1>4, <1>6, NotNone DEF TypeOK, MailType
  <2>2. OpenTransfers' = OpenTransfers
    BY <1>1, <1>2, <1>4, <1>6, <2>1 DEF OpenTransfers, TypeOK, MailType
  <2>3. UNCHANGED <<AcceptedTransfers, MuteTransfers, TransferOutcomes, ExcusedTransfers>>
    BY <1>4 DEF AcceptedTransfers, MuteTransfers, TransferOutcomes, ExcusedTransfers
  <2>. QED  BY <2>1, <2>2, <2>3 DEF TransferMoves, Transfer!transferVars
<1>. QED  BY <1>5, <1>6

LEMMA DeleteTransfer ==
    ASSUME TypeOK, NoLossInv, AdminDelete
    PROVE  TransferMoves
<1>1. PICK id \in Ids : /\ queue[id] # None
                        /\ queue' = [queue EXCEPT ![id] = None]
                        /\ removed' = removed \cup {id}
  BY DEF AdminDelete, PutRecord
<1>2. UNCHANGED <<origin, sent, reports, failed, mishaps>>
  BY DEF AdminDelete
<1>. DEFINE T == {p \in AcceptedTransfers : p[1] = id}
<1>3. UNCHANGED <<AcceptedTransfers, MuteTransfers, TransferOutcomes>>
  BY <1>2 DEF AcceptedTransfers, MuteTransfers, TransferOutcomes
<1>4. ExcusedTransfers' = ExcusedTransfers \cup T
  BY <1>1, <1>2, <1>3 DEF ExcusedTransfers
<1>5. OpenTransfers' = OpenTransfers \ T
  <2>1. \A p \in OpenTransfers : p[1] = id => p \in AcceptedTransfers
    BY <1>1, PendingSlotsType DEF OpenTransfers, AcceptedTransfers, NoLossInv, RecordCovers, Covers, CopyOf
  <2>2. OpenTransfers' = {p \in OpenTransfers : p[1] # id}
    BY <1>1 DEF OpenTransfers, TypeOK, MailType
  <2>3. T \subseteq Ids \X AllSlots /\ OpenTransfers \subseteq Ids \X AllSlots
    BY DEF AcceptedTransfers, OpenTransfers
  <2>. QED  BY <2>1, <2>2, <2>3
<1>6. T \in SUBSET AcceptedTransfers
  OBVIOUS
<1>. HIDE DEF T
<1>7. Transfer!Withdraw
  BY <1>2, <1>3, <1>4, <1>5, <1>6 DEF Transfer!Withdraw
<1>. QED  BY <1>7 DEF TransferMoves, Transfer!TransferNext

LEMMA TransferStep ==
    ASSUME TypeOK, TypeOK', OneOutcomeInv, NoLossInv, NoLossInv', NothingUnderFreshIds,
           ReportsHaveReader, [Next]_vars
    PROVE  TransferMoves
<1>0. FreshIds
  BY DEF OneOutcomeInv
<1>1. CASE Scan \/ StartPass \/ TakeMessage \/ AttemptsDone \/ NothingToReport \/ StoreReport
           \/ EndPass \/ WakeByToken \/ WakeByTimer \/ Restart
  BY <1>1, TransferFrame
     DEF Scan, StartPass, TakeMessage, AttemptsDone, NothingToReport, StoreReport, EndPass,
         WakeByToken, WakeByTimer, Restart, mailVars, history
<1>2. CASE ScanFails \/ PassFails \/ Crash
  BY <1>2, TransferFrame DEF ScanFails, PassFails, Crash, mailVars
<1>3. CASE RetryLoad \/ RetryNudge \/ PurgeList \/ PurgeDelete \/ Tick
  BY <1>3, TransferFrame DEF RetryLoad, RetryNudge, PurgeList, PurgeDelete, Tick, mailVars, history
<1>4. ASSUME NEW c \in Clients, StoreBody(c) \/ ClientNudge(c) \/ EnqueueFails(c)
      PROVE  TransferMoves
  BY <1>4, TransferFrame DEF StoreBody, ClientNudge, EnqueueFails, mailVars
<1>5. CASE UNCHANGED vars
  BY <1>5, TransferFrame DEF vars, mailVars, history
<1>. QED  BY <1>0, <1>1, <1>2, <1>3, <1>4, <1>5, PublishTransfer, ReadBodyTransfer, AttemptTransfer,
             PublishReportTransfer, CommitTransfer, RetryTransfer, DeleteTransfer
          DEF Next, Manager, Caller, Administrator, Failure

LEMMA TransferInitial == Init => Transfer!TransferInit
<1>. SUFFICES ASSUME Init PROVE Transfer!TransferInit
  OBVIOUS
<1>1. \A id \in Ids : queue[id] = None /\ origin[id] = None
  BY DEF Init, NoBatch
<1>2. AcceptedTransfers = {} /\ OpenTransfers = {}
  BY <1>1 DEF AcceptedTransfers, OpenTransfers
<1>3. MuteTransfers = {} /\ ExcusedTransfers = {}
  BY <1>2 DEF MuteTransfers, ExcusedTransfers
<1>4. TransferOutcomes = [p \in Ids \X AllSlots |-> 0]
  BY DEF Init, TransferOutcomes
<1>. QED  BY <1>2, <1>3, <1>4 DEF Init, Transfer!TransferInit

(* The queue with its scans, batches, working copies, crashes, retries and    *)
(* purges implements MailTransfer, for any number of messages, callers and    *)
(* failures: every step of queue_enqueue.rs, queue_manager.rs and             *)
(* queue_deliver.rs is a step of the transfers or changes none of them.       *)
THEOREM QueueImplementsTransfer == Spec => ImplementsTransfer
<1>1. TypeOK /\ TypeOK' /\ OneOutcomeInv /\ [Next]_vars => OneOutcomeInv'
  BY OneOutcomeStep
<1>2. TypeOK /\ TypeOK' /\ OneOutcomeInv /\ NoLossInv /\ [Next]_vars => NoLossInv'
  BY NoLossStep DEF OneOutcomeInv
<1>3. TypeOK /\ TypeOK' /\ OneOutcomeInv /\ NothingUnderFreshIds /\ [Next]_vars => NothingUnderFreshIds'
  BY FreshHistoryStep DEF OneOutcomeInv
<1>4. Init => NothingUnderFreshIds /\ ReportsHaveReader
  BY DEF Init, NothingUnderFreshIds, ReportsHaveReader
<1>5. ReportsHaveReader /\ [Next]_vars => ReportsHaveReader'
  BY ReportStageStep
<1>6. TypeOK /\ TypeOK' /\ OneOutcomeInv /\ NoLossInv /\ NoLossInv' /\ NothingUnderFreshIds
        /\ ReportsHaveReader /\ [Next]_vars
      => [Transfer!TransferNext]_(Transfer!transferVars)
  BY TransferStep DEF TransferMoves
<1>. QED  BY <1>1, <1>2, <1>3, <1>4, <1>5, <1>6, OneOutcomeInit, NoLossInit, TransferInitial,
             TypeCorrect, PTL DEF Spec, ImplementsTransfer, Transfer!TransferSpec
============================================================================
