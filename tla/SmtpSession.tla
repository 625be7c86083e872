---------------------------- MODULE SmtpSession ----------------------------
(* One SMTP connection, inbound or submission: the command stages of its      *)
(* session (session.rs), STARTTLS and AUTH, plain and chunked bodies, and     *)
(* what becomes of an accepted body: queued, filed, forwarded, relayed,       *)
(* bounced.  The rest of the server is what the connection meets: a directory *)
(* that changes, and a rate limiter, a greylist, a block list, a filter and a *)
(* quota that may decide either way, since other connections share them.      *)
EXTENDS Naturals, Sequences, SequencesExt

CONSTANTS
    Rcpts,          \* recipient addresses
    Remote,         \* those in no hosted domain
    Modes,          \* the SmtpMode values served
    MaxRecipients,  \* DEFAULT_MAX_RECIPIENTS, 100
    MaxMails,       \* bound: transactions begun
    MaxConnects,    \* bound: connections opened, one after the other
    MaxChanges,     \* bound: changes of the directory
    MaxFaults,      \* bound: store errors, lost connections, crashes
    None

ASSUME SmtpAssumption ==
    /\ Remote \subseteq Rcpts
    /\ Modes \subseteq {"inbound", "submission"}
    /\ {MaxRecipients, MaxMails, MaxConnects, MaxChanges, MaxFaults} \subseteq Nat

VARIABLES
    sess,       \* the session, None while there is no connection
    dir,        \* what the directory says of each hosted address
    lastTx,     \* transactions begun so far
    faults, changes, connects   \* counted for the bounds

bounds == <<faults, changes, connects>>
vars == <<sess, dir, lastTx, bounds>>

Tx == 1..MaxMails

(* A sender is the empty return path or not; nothing else of it matters.     *)
Sender == {"someone", "nobody"}

Hosted == {"account", "forward", "dangling", "unknown"}

(* An accepted recipient, with the transaction whose RCPT named it and the    *)
(* channel it came over.                                                      *)
Path == [addr : Rcpts, tx : Tx, tls : BOOLEAN]

(* A DeliveryOutcome: whether a copy is kept and whether copies are relayed.  *)
Delivery == {d \in [kept : {"filed", "discarded", "away", "overQuota"}, relays : BOOLEAN] :
                d.kept = "away" => d.relays}

(* A body in accept_submission or accept_inbound.  fate and lost say what     *)
(* became of its recipients so far and whose loss was only logged.            *)
Job == [stage : {"queue", "rate", "judge", "resolve", "file", "settle", "reply"},
        tx : Tx, from : Sender, rcpts : Seq(Path), body : SUBSET Tx,
        at : Nat \ {0}, held : Seq(Rcpts), got : Seq(Delivery),
        fate : [Rcpts -> SUBSET {"queued", "forwarded", "filed", "discarded", "relayed",
                                 "bounced", "dropped"}],
        lost : SUBSET (Rcpts \X {"directory", "queue"}),
        reply : {"none", "ok", "refused"}]

(* SessionData and Session.  chunks is the set of transactions whose BDAT     *)
(* bytes are in the buffer; tx 0 stands for mail_from = None.                 *)
Session == [mode : Modes, stage : {"connected", "greeted", "mail", "rcpt"},
            tls : BOOLEAN, auth : BOOLEAN, listed : BOOLEAN,
            tx : 0..MaxMails, from : Sender, rcpts : Seq(Path), chunks : SUBSET Tx,
            job : Job \cup {None}]

ASSUME NoneAssumption == None \notin Session /\ None \notin Job

NewSession(mode, tls, listed) ==
    [mode |-> mode, stage |-> "connected", tls |-> tls, auth |-> FALSE, listed |-> listed,
     tx |-> 0, from |-> "nobody", rcpts |-> <<>>, chunks |-> {}, job |-> None]

(* Mutant: the recipients outlive the sender. *)
ResetTransactionKeepsRcpts(s) == [s EXCEPT !.tx = 0, !.from = "nobody"]

ResetTransaction(s) == [s EXCEPT !.tx = 0, !.from = "nobody", !.rcpts = <<>>]

Connected == sess # None

(* The session reads its next command. *)
Ready == Connected /\ sess.job = None

SetSession(s) == sess' = s

(* submission_gate: on the submission ports nothing happens before AUTH.     *)
Gate == sess.mode = "submission" => sess.auth

MayFault == faults < MaxFaults

----------------------------------------------------------------------------
(* The listeners: a connection in clear or under TLS from the start.  run     *)
(* asks the block list, which only inbound services have.                     *)
Connect ==
    /\ sess = None /\ connects < MaxConnects
    /\ \E mode \in Modes, tls, listed \in BOOLEAN :
        /\ listed => mode = "inbound"
        /\ SetSession(NewSession(mode, tls, listed))
    /\ connects' = connects + 1
    /\ UNCHANGED <<dir, lastTx, faults, changes>>

(* QUIT, a closed connection, or a chunk too large to drain.                  *)
Quit ==
    /\ Ready
    /\ SetSession(None)
    /\ UNCHANGED <<dir, lastTx, bounds>>

(* EHLO and HELO. *)
Greet ==
    /\ Ready
    /\ SetSession([ResetTransaction(sess) EXCEPT !.chunks = {}, !.stage = "greeted"])
    /\ UNCHANGED <<dir, lastTx, bounds>>

(* Mutant: an accepted MAIL leaves the chunk buffer alone. *)
MailKeepsChunks ==
    /\ Ready /\ Gate /\ lastTx < MaxMails
    /\ sess.stage # "connected" /\ sess.tx = 0
    /\ \E from \in Sender :
        SetSession([ResetTransaction(sess) EXCEPT
                         !.tx = lastTx + 1, !.from = from, !.stage = "mail"])
    /\ lastTx' = lastTx + 1
    /\ UNCHANGED <<dir, bounds>>

(* MAIL.  A submission's sender is one the account owns or the empty path;    *)
(* refusals change nothing.                                                   *)
Mail ==
    /\ Ready /\ Gate /\ lastTx < MaxMails
    /\ sess.stage # "connected" /\ sess.tx = 0
    /\ \E from \in Sender :
        SetSession([ResetTransaction(sess) EXCEPT
                         !.chunks = {}, !.tx = lastTx + 1, !.from = from, !.stage = "mail"])
    /\ lastTx' = lastTx + 1
    /\ UNCHANGED <<dir, bounds>>

(* classify_recipient and rcpt_reply. *)
Takes(r) == IF r \in Remote THEN sess.auth ELSE dir[r] # "unknown"

(* RCPT.  A recipient the greylist defers is refused like any other.         *)
Rcpt(r) ==
    /\ Ready /\ Gate /\ sess.tx # 0
    /\ Len(sess.rcpts) < MaxRecipients /\ Takes(r)
    /\ SetSession([sess EXCEPT !.rcpts = Append(@, [addr |-> r, tx |-> sess.tx, tls |-> sess.tls]),
                               !.stage = "rcpt"])
    /\ UNCHANGED <<dir, lastTx, bounds>>

Rset ==
    /\ Ready
    /\ SetSession([ResetTransaction(sess) EXCEPT !.chunks = {},
                        !.stage = IF @ = "connected" THEN @ ELSE "greeted"])
    /\ UNCHANGED <<dir, lastTx, bounds>>

(* STARTTLS: the listener starts a new session on the secured stream, which   *)
(* asks the block list again but is not counted as a connection.              *)
StartTls ==
    /\ Ready /\ ~sess.tls
    /\ \E listed \in BOOLEAN :
        /\ listed => sess.mode = "inbound"
        /\ SetSession(NewSession(sess.mode, TRUE, listed))
    /\ UNCHANGED <<dir, lastTx, bounds>>

(* A granted AUTH; a denied or throttled one changes nothing here.            *)
Auth ==
    /\ Ready /\ sess.tls /\ ~sess.auth
    /\ SetSession([sess EXCEPT !.auth = TRUE])
    /\ UNCHANGED <<dir, lastTx, bounds>>

----------------------------------------------------------------------------
(* accept_body is handed the sender and the recipients, which leave the       *)
(* session, and the body.                                                     *)
Accept(s, body) ==
    [s EXCEPT !.tx = 0, !.rcpts = <<>>,
       !.job = [stage |-> IF s.mode = "submission" THEN "queue" ELSE "rate",
                tx |-> s.tx, from |-> s.from, rcpts |-> s.rcpts, body |-> body,
                at |-> 1, held |-> <<>>, got |-> <<>>,
                fate |-> [r \in Rcpts |-> {}], lost |-> {}, reply |-> "none"]]

Data ==
    /\ Ready /\ Gate /\ sess.stage = "rcpt"
    /\ SetSession(Accept(sess, {sess.tx}))
    /\ UNCHANGED <<dir, lastTx, bounds>>

(* A body over MAX_MESSAGE_SIZE ends the transaction; DATA leaves the chunk   *)
(* buffer alone, BDAT empties it.                                             *)
TooLarge ==
    /\ Ready /\ Gate /\ sess.stage = "rcpt"
    /\ \E chunks \in {sess.chunks, {}} :
        SetSession([ResetTransaction(sess) EXCEPT !.chunks = chunks, !.stage = "greeted"])
    /\ UNCHANGED <<dir, lastTx, bounds>>

Bdat ==
    /\ Ready /\ Gate /\ sess.stage = "rcpt"
    /\ SetSession([sess EXCEPT !.chunks = @ \cup {sess.tx}])
    /\ UNCHANGED <<dir, lastTx, bounds>>

BdatLast ==
    /\ Ready /\ Gate /\ sess.stage = "rcpt"
    /\ SetSession([Accept(sess, sess.chunks \cup {sess.tx}) EXCEPT !.chunks = {}])
    /\ UNCHANGED <<dir, lastTx, bounds>>

(* BDAT out of place: the chunk is drained, the buffer emptied.               *)
BdatRejected ==
    /\ Ready /\ Gate /\ sess.stage # "rcpt"
    /\ SetSession([sess EXCEPT !.chunks = {}])
    /\ UNCHANGED <<dir, lastTx, bounds>>

----------------------------------------------------------------------------
(* What becomes of an accepted body.                                         *)
job == sess.job

At(stage) == Connected /\ job # None /\ job.stage = stage

SetJob(j) == SetSession([sess EXCEPT !.job = j])

Goto(j, stage) == [j EXCEPT !.stage = stage, !.at = 1]

Answered(j, reply) == [j EXCEPT !.stage = "reply", !.reply = reply]

(* The recipients rs meet the fate f, or their loss is logged. *)
Meet(j, rs, f) == [j EXCEPT !.fate = [r \in Rcpts |-> IF r \in rs THEN @[r] \cup {f} ELSE @[r]]]

Lose(j, rs, why) == [j EXCEPT !.lost = @ \cup (rs \X {why})]

Recipients(j) == {path.addr : path \in ToSet(j.rcpts)}

Someone(j, f) == \E r \in Rcpts : f \in j.fate[r]

(* The reply ends the transaction. *)
SendReply ==
    /\ At("reply")
    /\ SetSession([ResetTransaction(sess) EXCEPT !.stage = "greeted", !.job = None])
    /\ UNCHANGED <<dir, lastTx, bounds>>

(* accept_submission: signed and queued for every recipient, or refused for   *)
(* now when signing or the queue fails.                                       *)
Submit ==
    /\ At("queue")
    /\ \/ /\ SetJob(Answered(Meet(job, Recipients(job), "queued"), "ok"))
          /\ UNCHANGED faults
       \/ /\ MayFault /\ faults' = faults + 1
          /\ SetJob(Answered(job, "refused"))
    /\ UNCHANGED <<dir, lastTx, changes, connects>>

(* rate_limit_message: over the limit, or on to the checks.                   *)
Rate ==
    /\ At("rate")
    /\ SetJob(Answered(job, "refused")) \/ SetJob(Goto(job, "judge"))
    /\ UNCHANGED <<dir, lastTx, bounds>>

(* run_gauntlet: the loop check, the block list and the sender's policy       *)
(* decide.  The block list's verdict is used up by the first message.         *)
Judge ==
    /\ At("judge")
    /\ \/ SetSession([sess EXCEPT !.listed = FALSE, !.job = Answered(@, "refused")])
       \/ ~sess.listed /\ SetJob(Goto(job, "resolve"))
    /\ UNCHANGED <<dir, lastTx, bounds>>

(* deliver_inbound asks the directory again for each recipient: an account to *)
(* file for, a forward queued at once, or nothing, which is only logged.      *)
Resolves(r) == IF r \in Remote THEN "unknown" ELSE dir[r]

ResolveOne ==
    /\ At("resolve") /\ job.at <= Len(job.rcpts)
    /\ LET r    == job.rcpts[job.at].addr
           next == [job EXCEPT !.at = @ + 1]
       IN  \/ /\ Resolves(r) = "account"
              /\ SetJob([next EXCEPT !.held = Append(@, r)])
              /\ UNCHANGED faults
           \/ /\ Resolves(r) = "forward"
              /\ SetJob(Meet(next, {r}, "forwarded"))
              /\ UNCHANGED faults
           \/ /\ Resolves(r) = "forward" /\ MayFault /\ faults' = faults + 1
              /\ SetJob(Lose(next, {r}, "queue"))
           \/ /\ Resolves(r) \in {"dangling", "unknown"}
              /\ SetJob(Lose(next, {r}, "directory"))
              /\ UNCHANGED faults
    /\ UNCHANGED <<dir, lastTx, changes, connects>>

NobodyLeft(j) == IF Someone(j, "forwarded") THEN "ok" ELSE "refused"

ResolveDone ==
    /\ At("resolve") /\ job.at > Len(job.rcpts)
    /\ SetJob(IF job.held = <<>> THEN Answered(job, NobodyLeft(job))
                                       ELSE Goto(job, "file"))
    /\ UNCHANGED <<dir, lastTx, bounds>>

(* deliver, one recipient after the other: the filter's or the forwarding     *)
(* rule's decision, or the quota's.                                           *)
FileOne ==
    /\ At("file") /\ job.at <= Len(job.held)
    /\ \E d \in Delivery :
        LET next == [job EXCEPT !.at = @ + 1, !.got = Append(@, d)]
        IN  SetJob(IF d.kept \in {"filed", "discarded"}
                      THEN Meet(next, {job.held[job.at]}, d.kept) ELSE next)
    /\ UNCHANGED <<dir, lastTx, bounds>>

FileDone ==
    /\ At("file") /\ job.at > Len(job.held)
    /\ SetJob(Goto(job, "settle"))
    /\ UNCHANGED <<dir, lastTx, bounds>>

Relayed(j) == {j.held[i] : i \in {k \in DOMAIN j.got : j.got[k].relays}}
OverQuota(j) == {j.held[i] : i \in {k \in DOMAIN j.got : j.got[k].kept = "overQuota"}}

(* Mutant: copies already forwarded are forgotten. *)
RefusedEverywhereHere(j) ==
    \A i \in DOMAIN j.got : j.got[i].kept = "overQuota" /\ ~j.got[i].relays

RefusedEverywhere(j) ==
    /\ ~Someone(j, "forwarded")
    /\ \A i \in DOMAIN j.got : j.got[i].kept = "overQuota" /\ ~j.got[i].relays

(* Mutant: nobody is told of a full mailbox unless every one is full. *)
BouncedNever(j) == {}

(* bounce_over_quota: the empty path gets no report.                          *)
Bounced(j) == IF j.from = "nobody" THEN {} ELSE OverQuota(j)

Dropped(j) == IF j.from = "nobody" THEN OverQuota(j) ELSE {}

(* Every mailbox full: refused for now.  Otherwise the relay copies and the   *)
(* over-quota report are queued; what cannot be queued is only logged, copy   *)
(* by copy (a recipient counts as relayed when one of its copies was queued). *)
(* The vacation replies queued last concern no recipient of this message.     *)
Settle ==
    /\ At("settle")
    /\ \/ /\ RefusedEverywhere(job)
          /\ SetJob(Answered(job, "refused"))
          /\ UNCHANGED faults
       \/ /\ ~RefusedEverywhere(job)
          /\ \E relayed \in SUBSET Relayed(job), bounced \in {Bounced(job), {}} :
               LET failed  == (Relayed(job) \ relayed) \cup (Bounced(job) \ bounced)
                   settled == Meet(Meet(Meet(job, relayed, "relayed"), bounced, "bounced"),
                                   Dropped(job), "dropped")
                   done    == Lose(settled, failed, "queue")
               IN  /\ failed # {} => MayFault
                   /\ faults' = IF failed = {} THEN faults ELSE faults + 1
                   /\ SetJob(Answered(done, "ok"))
    /\ UNCHANGED <<dir, lastTx, changes, connects>>

(* A store error that deliver_inbound passes on, or a reply that cannot be    *)
(* written: the connection ends without one.                                  *)
Abort ==
    /\ Connected /\ job # None /\ MayFault
    /\ SetSession(None)
    /\ faults' = faults + 1
    /\ UNCHANGED <<dir, lastTx, changes, connects>>

----------------------------------------------------------------------------
(* The administrator changes a hosted address, also between RCPT and delivery. *)
ChangeDirectory ==
    /\ changes < MaxChanges
    /\ \E r \in Rcpts \ Remote, kind \in Hosted :
        dir[r] # kind /\ dir' = [dir EXCEPT ![r] = kind]
    /\ changes' = changes + 1
    /\ UNCHANGED <<sess, lastTx, faults, connects>>

Init ==
    /\ sess = None /\ lastTx = 0
    /\ dir \in [Rcpts -> Hosted] /\ \A r \in Remote : dir[r] = "unknown"
    /\ faults = 0 /\ changes = 0 /\ connects = 0

Command ==
    \/ Connect \/ Quit \/ Greet \/ Mail \/ Rset \/ StartTls \/ Auth
    \/ \E r \in Rcpts : Rcpt(r)
    \/ Data \/ TooLarge \/ Bdat \/ BdatLast \/ BdatRejected

Handling ==
    \/ Submit \/ Rate \/ Judge \/ ResolveOne \/ ResolveDone \/ FileOne \/ FileDone
    \/ Settle \/ SendReply \/ Abort

Next == Command \/ Handling \/ ChangeDirectory

Spec == Init /\ [][Next]_vars

----------------------------------------------------------------------------
(* Every variable has its type, and the stage of a session that reads its     *)
(* next command agrees with what it holds: MAIL or RCPT with a sender, RCPT   *)
(* with a recipient, nothing else with either (DATA and BDAT ask the stage,   *)
(* MAIL and RCPT the sender).                                                 *)
TypeOK ==
    /\ dir \in [Rcpts -> Hosted] /\ lastTx \in 0..MaxMails
    /\ sess \in Session \cup {None}
    /\ Ready => /\ sess.tx # 0 <=> sess.stage \in {"mail", "rcpt"}
                /\ sess.rcpts # <<>> <=> sess.stage = "rcpt"

Accepted == Connected /\ job # None

(* An accepted body consists of bytes of its own transaction, and goes to the *)
(* recipients that transaction named over the present channel: no leftover    *)
(* chunk, recipient or sender of an abandoned transaction, or of the time     *)
(* before STARTTLS, gets into it.                                             *)
OneTransaction ==
    Accepted =>
        /\ job.body = {job.tx}
        /\ \A i \in DOMAIN job.rcpts : job.rcpts[i].tx = job.tx /\ job.rcpts[i].tls = sess.tls

(* "250 Message accepted" accounts for every recipient: queued, forwarded,    *)
(* filed, relayed, discarded by its own filter, reported over quota, dropped  *)
(* over quota for want of a return path, or logged as lost because its        *)
(* address no longer resolves or the queue failed.  And it reaches somebody   *)
(* ("a message that reaches nobody must not be acknowledged"), but for copies *)
(* the queue refused after the mailboxes were done with.                      *)
AckAccounts ==
    Accepted /\ job.reply = "ok" =>
        /\ \A r \in Recipients(job) : job.fate[r] # {} \/ r \in {loss[1] : loss \in job.lost}
        /\ \/ \E r \in Recipients(job) : job.fate[r] # {}
           \/ \E loss \in job.lost : loss[2] = "queue"

(* A refusal, temporary or not, keeps nothing: the sender that tries again    *)
(* doubles nothing.                                                           *)
RefusalKeepsNothing ==
    Accepted /\ job.reply = "refused" => \A r \in Rcpts : job.fate[r] = {}
============================================================================
