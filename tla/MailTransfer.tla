---------------------------- MODULE MailTransfer ----------------------------
(* What the outbound queue promises, with the queue left out.  A transfer is  *)
(* one recipient of one accepted message.  It is open while the server still  *)
(* owes it an outcome: the copy handed over, or a report to the sender.  An   *)
(* outcome comes twice only after a fault, and a transfer is closed only when *)
(* it has one, is withdrawn, or has failed with nobody to tell.               *)
EXTENDS Naturals

CONSTANTS Transfers

VARIABLES
    accepted,   \* transfers taken on
    mute,       \* those of messages from the empty return path
    open,       \* those still owed an outcome
    outcomes,   \* copies handed over and reports sent, per transfer
    excused,    \* withdrawn, or failed with nobody to tell
    faults      \* crashes, store errors, lost replies and stale rewrites

transferVars == <<accepted, mute, open, outcomes, excused, faults>>

Counted(T) == [t \in Transfers |-> outcomes[t] + (IF t \in T THEN 1 ELSE 0)]

MayHave(T) == \A t \in T : outcomes[t] <= faults

(* A message comes in. *)
Accept ==
    /\ UNCHANGED <<outcomes, excused, faults>>
    /\ \E N \in SUBSET (Transfers \ accepted) :
        /\ accepted' = accepted \cup N /\ open' = open \cup N
        /\ mute' \in {mute, mute \cup N}

(* A copy is handed over. *)
HandOver ==
    /\ UNCHANGED <<accepted, mute, open, excused, faults>>
    /\ \E t \in accepted : MayHave({t}) /\ outcomes' = Counted({t})

(* A copy is handed over but the answer is lost: it may come again, or be     *)
(* given up.                                                                  *)
HandOverUnheard ==
    /\ faults' = faults + 1
    /\ UNCHANGED <<accepted, mute, open>>
    /\ \E t \in accepted :
        /\ MayHave({t}) /\ outcomes' = Counted({t})
        /\ excused' \in {excused, excused \cup ({t} \cap mute)}

(* A report on some failed transfers of one message: itself a transfer, and   *)
(* one that is never reported on.                                             *)
Report ==
    /\ UNCHANGED <<excused, faults>>
    /\ \E N \in SUBSET (Transfers \ accepted) :
        accepted' = accepted \cup N /\ open' = open \cup N /\ mute' = mute \cup N
    /\ \E T \in SUBSET (accepted \ mute) : MayHave(T) /\ outcomes' = Counted(T)

(* Transfers with nobody to tell have failed. *)
GiveUp ==
    /\ UNCHANGED <<accepted, mute, open, outcomes, faults>>
    /\ \E T \in SUBSET mute : excused' = excused \cup T

Settled == {t \in accepted : outcomes[t] > 0}

(* What is open is written down afresh.  What is closed has its outcome or is *)
(* excused; what is opened again may still have one.                          *)
Rewrite ==
    /\ UNCHANGED <<accepted, mute, outcomes, excused>>
    /\ faults' \in {faults, faults + 1}
    /\ open' \subseteq accepted
    /\ open \ open' \subseteq Settled \cup excused
    /\ \A t \in open' \ open : outcomes[t] <= faults'

(* The administrator deletes a message. *)
Withdraw ==
    /\ UNCHANGED <<accepted, mute, outcomes, faults>>
    /\ \E T \in SUBSET accepted : open' = open \ T /\ excused' = excused \cup T

Fault ==
    /\ faults' = faults + 1
    /\ UNCHANGED <<accepted, mute, open, outcomes, excused>>

TransferInit ==
    /\ accepted = {} /\ mute = {} /\ open = {} /\ excused = {} /\ faults = 0
    /\ outcomes = [t \in Transfers |-> 0]

TransferNext ==
    \/ Accept \/ HandOver \/ HandOverUnheard \/ Report \/ GiveUp \/ Rewrite \/ Withdraw \/ Fault

TransferSpec == TransferInit /\ [][TransferNext]_transferVars

----------------------------------------------------------------------------
(* Every accepted transfer is open, settled or excused, and none has more     *)
(* outcomes than one and one for each fault.                                  *)
TransferPromise ==
    /\ accepted \subseteq open \cup Settled \cup excused
    /\ \A t \in Transfers : outcomes[t] <= 1 + faults
=============================================================================
