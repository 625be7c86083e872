------------------------- MODULE MailTransferProofs -------------------------
(* MailTransfer keeps its promise. *)
EXTENDS MailTransfer, TLAPS

TransferType ==
    /\ accepted \subseteq Transfers /\ mute \subseteq accepted /\ open \subseteq accepted
    /\ outcomes \in [Transfers -> Nat] /\ faults \in Nat

TransferInv == TransferType /\ TransferPromise

LEMMA CountedType ==
    ASSUME outcomes \in [Transfers -> Nat], faults \in Nat, NEW T \in SUBSET Transfers,
           MayHave(T), \A t \in Transfers : outcomes[t] <= 1 + faults
    PROVE  /\ Counted(T) \in [Transfers -> Nat]
           /\ \A t \in Transfers : Counted(T)[t] <= 1 + faults /\ outcomes[t] <= Counted(T)[t]
BY DEF Counted, MayHave

(* Outcomes are only added: what was settled stays settled.                   *)
LEMMA SettledGrows ==
    ASSUME TransferInv, accepted \subseteq accepted', outcomes' \in [Transfers -> Nat],
           \A t \in Transfers : outcomes[t] <= outcomes'[t]
    PROVE  Settled \subseteq Settled'
BY DEF Settled, TransferInv, TransferType

LEMMA TransferInvStep ==
    ASSUME TransferInv, [TransferNext]_transferVars
    PROVE  TransferInv'
<1>. USE DEF TransferInv, TransferType, TransferPromise
<1>1. CASE Accept
  <2>1. accepted \subseteq accepted' /\ Settled \subseteq Settled'
    BY <1>1, SettledGrows DEF Accept
  <2>. QED  BY <1>1, <2>1 DEF Accept
<1>2. CASE HandOver
  <2>1. PICK t \in accepted : MayHave({t}) /\ outcomes' = Counted({t})
    BY <1>2 DEF HandOver
  <2>2. {t} \in SUBSET Transfers
    BY <2>1
  <2>3. Settled \subseteq Settled'
    BY <1>2, <2>1, <2>2, CountedType, SettledGrows DEF HandOver
  <2>. QED  BY <1>2, <2>1, <2>2, <2>3, CountedType DEF HandOver
<1>3. CASE HandOverUnheard
  <2>1. PICK t \in accepted : /\ MayHave({t}) /\ outcomes' = Counted({t})
                              /\ excused' \in {excused, excused \cup ({t} \cap mute)}
    BY <1>3 DEF HandOverUnheard
  <2>2. {t} \in SUBSET Transfers
    BY <2>1
  <2>3. Settled \subseteq Settled'
    BY <1>3, <2>1, <2>2, CountedType, SettledGrows DEF HandOverUnheard
  <2>4. \A x \in Transfers : outcomes'[x] <= 1 + faults'
    BY <1>3, <2>1, <2>2, CountedType DEF HandOverUnheard
  <2>. QED  BY <1>3, <2>1, <2>2, <2>3, <2>4, CountedType DEF HandOverUnheard
<1>4. CASE Report
  <2>1. PICK N \in SUBSET (Transfers \ accepted) :
            accepted' = accepted \cup N /\ open' = open \cup N /\ mute' = mute \cup N
    BY <1>4 DEF Report
  <2>2. PICK T \in SUBSET (accepted \ mute) : MayHave(T) /\ outcomes' = Counted(T)
    BY <1>4 DEF Report
  <2>3. T \in SUBSET Transfers
    BY <2>2
  <2>4. Settled \subseteq Settled'
    BY <2>1, <2>2, <2>3, CountedType, SettledGrows
  <2>. QED  BY <1>4, <2>1, <2>2, <2>3, <2>4, CountedType DEF Report
<1>5. CASE GiveUp
  BY <1>5 DEF GiveUp, Settled
<1>6. CASE Rewrite
  BY <1>6 DEF Rewrite, Settled
<1>7. CASE Withdraw
  BY <1>7 DEF Withdraw, Settled
<1>8. CASE Fault
  BY <1>8 DEF Fault, Settled
<1>9. CASE UNCHANGED transferVars
  BY <1>9 DEF transferVars, Settled
<1>. QED  BY <1>1, <1>2, <1>3, <1>4, <1>5, <1>6, <1>7, <1>8, <1>9 DEF TransferNext

(* What is accepted is open, settled or excused, and settled once but for     *)
(* faults: with QueueImplementsTransfer, the promise of the outbound queue.   *)
THEOREM TransfersKeepPromise == TransferSpec => []TransferPromise
<1>1. TransferInit => TransferInv
  BY DEF TransferInit, TransferInv, TransferType, TransferPromise, Settled
<1>2. TransferInv /\ [TransferNext]_transferVars => TransferInv'
  BY TransferInvStep
<1>3. TransferInv => TransferPromise
  BY DEF TransferInv
<1>. QED  BY <1>1, <1>2, <1>3, PTL DEF TransferSpec
=============================================================================
