---------------------------- MODULE QueueModel ----------------------------
(* The data of the outbound queue and the pure functions on it:            *)
(* crates/smtp/src/queue_model.rs, retry.rs and the window arithmetic of   *)
(* ratelimit_out.rs.  A queued message is what one record of the Queue     *)
(* subspace holds; a recipient is known by its position in the vector, its *)
(* address and the reason texts are left out.                              *)
EXTENDS Naturals, Sequences

CONSTANTS
    Senders,        \* non-empty return paths
    NullSender,     \* the empty return path, ""
    Bodies,         \* contents of the messages handed in
    None,           \* an absent record
    BaseBackoff,    \* BASE_BACKOFF, 300 s
    MaxBackoff,     \* MAX_BACKOFF, 7200 s
    RateWindow      \* window of the outbound rate limiter

ReturnPaths == Senders \cup {NullSender}

(* A blob hash stands for its content.  The content of a bounce report is   *)
(* fixed by the queue id it is about and the time of the pass (build_dsn).  *)
Hashes == Bodies \cup (Nat \X Nat)

ASSUME QueueModelAssumption ==
    /\ NullSender \notin Senders
    /\ BaseBackoff \in Nat \ {0}
    /\ MaxBackoff \in Nat \ {0}
    /\ RateWindow \in Nat \ {0}

----------------------------------------------------------------------------
Statuses == {"scheduled", "delivered", "deferred", "bounced"}

Expiries == [kind : {"at", "attempts"}, limit : Nat]

QueueRecipient ==
    [status : Statuses, attempts : Nat, due : Nat, expiry : Expiries]

QueuedMessage ==
    [created : Nat, blob : Hashes, returnPath : ReturnPaths,
     recipients : Seq(QueueRecipient)]

ASSUME NoneAssumption == None \notin QueuedMessage

NewRecipient(due, expiry) ==
    [status |-> "scheduled", attempts |-> 0, due |-> due, expiry |-> expiry]

IsPending(rcpt) == rcpt.status \in {"scheduled", "deferred"}

IsDue(rcpt, time) == IsPending(rcpt) /\ time >= rcpt.due

Slots(message) == DOMAIN message.recipients

PendingSlots(message) == {s \in Slots(message) : IsPending(message.recipients[s])}

DueSlots(message, time) == {s \in Slots(message) : IsDue(message.recipients[s], time)}

HasDueRecipient(message, time) == DueSlots(message, time) # {}

IsComplete(message) == PendingSlots(message) = {}

(* next_due: the earliest due time of a pending recipient. *)
DueTimes(message) == {message.recipients[s].due : s \in PendingSlots(message)}

----------------------------------------------------------------------------
(* Mutant: the limit is one attempt too generous. *)
IsExpiredLate(expiry, attempts, time) ==
    IF expiry.kind = "at" THEN time >= expiry.limit ELSE attempts > expiry.limit

IsExpired(expiry, attempts, time) ==
    IF expiry.kind = "at" THEN time >= expiry.limit ELSE attempts >= expiry.limit

MaxShift == 16

Backoff(attempts) ==
    LET shift  == IF attempts < MaxShift THEN attempts ELSE MaxShift
        scaled == BaseBackoff * 2^shift
    IN  IF scaled < MaxBackoff THEN scaled ELSE MaxBackoff

(* Powers of two are naturals: what the provers need to know about ^.      *)
ASSUME PowerAssumption == \A k \in 0..MaxShift : 2^k \in Nat \ {0}

(* next_after_deferral with the part of apply_attempt that stores its       *)
(* decision: the deadline is checked before the next attempt is scheduled,  *)
(* and the wait is the one of the attempts made before this one.            *)
AfterDeferral(rcpt, time) ==
    IF IsExpired(rcpt.expiry, rcpt.attempts + 1, time)
    THEN [rcpt EXCEPT !.status = "bounced"]
    ELSE [rcpt EXCEPT !.status = "deferred",
                      !.attempts = @ + 1,
                      !.due = time + Backoff(rcpt.attempts)]

(* What an attempt can come back with: lostReply is a Deferred verdict on a *)
(* message the other side did take.                                         *)
Attempts == {"delivered", "deferred", "lostReply", "bounced"}

ApplyAttempt(rcpt, attempt, time) ==
    CASE attempt = "delivered" -> [rcpt EXCEPT !.status = "delivered"]
      [] attempt = "bounced"   -> [rcpt EXCEPT !.status = "bounced"]
      [] OTHER                 -> AfterDeferral(rcpt, time)

(* The message after an attempt on the recipient in one slot.               *)
AfterAttempt(message, slot, attempt, time) ==
    [message EXCEPT !.recipients =
        [s \in DOMAIN @ |-> IF s = slot THEN ApplyAttempt(@[s], attempt, time) ELSE @[s]]]

----------------------------------------------------------------------------
Window(time) == time \div RateWindow

WindowEnd(time) == (Window(time) + 1) * RateWindow

(* A rate-limited pass moves the due recipients to the end of the window    *)
(* and leaves their attempts alone.                                         *)
HoldBack(message, time) ==
    [message EXCEPT !.recipients =
        [s \in DOMAIN @ |-> IF IsDue(@[s], time)
                            THEN [@[s] EXCEPT !.due = WindowEnd(time), !.status = "deferred"]
                            ELSE @[s]]]

(* The body is gone: every pending recipient bounces.                       *)
BounceAll(message) ==
    [message EXCEPT !.recipients =
        [s \in DOMAIN @ |-> IF IsPending(@[s]) THEN [@[s] EXCEPT !.status = "bounced"]
                                               ELSE @[s]]]

(* retry_now makes every pending recipient due.                             *)
DueNow(message, time) ==
    [message EXCEPT !.recipients =
        [s \in DOMAIN @ |-> IF IsPending(@[s]) THEN [@[s] EXCEPT !.due = time] ELSE @[s]]]
============================================================================
