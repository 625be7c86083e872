----------------------------- MODULE MailAccess -----------------------------
(***************************************************************************)
(* One account's messages while IMAP sessions, POP3 sessions, JMAP calls   *)
(* and deliveries work on them at once (crates/imap/src/session.rs,        *)
(* crates/pop3/src/session.rs, crates/jmap/src/email_set.rs,               *)
(* crates/mail/src/read.rs and deliver.rs).  No lock is held across an     *)
(* operation: each one takes a snapshot of the account, then loads and     *)
(* writes one message record after the other, and the others run between   *)
(* any two of those store calls.                                           *)
(*                                                                         *)
(* A message record maps each mailbox to the UID the message has there (0: *)
(* not filed there) and holds the keywords the server itself acts on.      *)
(* What an IMAP client has been told is kept as `view', the UIDs behind    *)
(* the sequence numbers 1, 2, ... it believes in.                          *)
(***************************************************************************)
EXTENDS Naturals, Sequences, FiniteSets, SequencesExt

CONSTANTS
    Docs,           \* document ids
    Inbox,          \* the mailbox mail is delivered to
    Folders,        \* the other mailboxes
    Imap,           \* IMAP connections, all of this account
    Pop3,           \* POP3 connections
    Jmap,           \* JMAP method calls
    Mtas,           \* deliveries from the queue and from inbound SMTP
    Initial,        \* the messages the inbox starts with, oldest first
    Ranges,         \* the message sets a client names
    MaxUid,         \* bound on the UIDs of a mailbox
    MaxOps,         \* bound on the operations started
    UpdateAttempts, \* UPDATE_RACE_ATTEMPTS
    None

Boxes == {Inbox} \cup Folders
Actors == Imap \cup Pop3 \cup Jmap \cup Mtas

ASSUME AccessAssumption ==
    /\ MaxUid \in Nat /\ MaxOps \in Nat /\ UpdateAttempts \in Nat \ {0}
    /\ Initial \in Seq(Docs) /\ Len(Initial) <= MaxUid
    /\ \A i, j \in 1..Len(Initial) : Initial[i] = Initial[j] => i = j
    /\ Ranges \subseteq SUBSET (1..MaxUid)
    /\ Inbox \notin Folders /\ None \notin Docs /\ None \notin Boxes
    /\ Imap \cap Pop3 = {} /\ Jmap \cap Mtas = {}
    /\ (Imap \cup Pop3) \cap (Jmap \cup Mtas) = {}

VARIABLES
    data,     \* the message records, None for a document that has none
    lastUid,  \* the UID counter of every mailbox
    fresh,    \* document ids not handed out yet
    job,      \* the operation an actor is in the middle of
    sess,     \* the IMAP sessions
    drop,     \* the POP3 maildrops
    ops,      \* operations that may still start
    owner     \* history: the document each UID was handed out for

vars == <<data, lastUid, fresh, job, sess, drop, ops, owner>>

Keywords == {"Seen", "Deleted"}
Uids == 0..MaxUid
Data == [uid : [Boxes -> Uids], kw : SUBSET Keywords]
Acts == {"seen", "file", "move", "unfile", "expunge", "delete", "plus",
         "minus", "replace", "refile", "insert"}
Item == [doc : Docs, act : Acts, from : Boxes \cup {None},
         to : Boxes \cup {None}, uid : Uids]
Commands == {"fetch", "store", "copy", "move", "expunge", "close", "append",
             "quit", "patch", "destroy", "deliver"}
Job == [cmd : Commands, todo : Seq(Item), held : [Docs -> Data \cup {None}],
        loaded : BOOLEAN, tries : 0..UpdateAttempts, lines : Seq(Nat)]
Session == [state : {"authenticated", "selected"}, box : Boxes \cup {None},
            readOnly : BOOLEAN, last : 0..MaxUid, view : Seq(Uids),
            idle : BOOLEAN, note : BOOLEAN, qresync : BOOLEAN,
            moved : BOOLEAN]
Entry == [doc : Docs, deleted : BOOLEAN]

Unselected == [state |-> "authenticated", box |-> None, readOnly |-> FALSE,
               last |-> 0, view |-> <<>>, idle |-> FALSE, note |-> FALSE,
               qresync |-> FALSE, moved |-> FALSE]
NothingHeld == [d \in Docs |-> None]

ASSUME NoRecordAssumption == None \notin Data /\ None \notin Job

-----------------------------------------------------------------------------
(* The messages of a mailbox, as MessageStoreCache::build shows them.      *)

Members(dt, b) == {d \in Docs : dt[d] # None /\ dt[d].uid[b] # 0}

\* A finite set of numbers in ascending order.
Ascending(S) ==
    CHOOSE q \in [1..Cardinality(S) -> S] :
        \A i, j \in 1..Cardinality(S) : i < j => q[i] < q[j]

\* The UIDs of a mailbox in ascending order; sequence number n is the n-th.
UidSet(dt, b) == {dt[d].uid[b] : d \in Members(dt, b)}
List(dt, b) == Ascending(UidSet(dt, b))

DocWith(dt, b, u) == CHOOSE d \in Members(dt, b) : dt[d].uid[b] = u
DocAt(dt, b, n) == DocWith(dt, b, List(dt, b)[n])

\* The sequence numbers of a mailbox that a message set names, by number or
\* by UID.
Hits(dt, b, set, uidMode) ==
    {n \in 1..Len(List(dt, b)) : (IF uidMode THEN List(dt, b)[n] ELSE n) \in set}

\* Mutant: the numbers before the first message went.
ExpungeLinesStale(hits) == hits

\* The untagged EXPUNGE lines for messages taken away in this order.
ExpungeLines(hits) == [k \in 1..Len(hits) |-> hits[k] - (k - 1)]

\* What a client makes of one EXPUNGE line: it forgets that number.
Forget(view, n) == IF n \in 1..Len(view) THEN RemoveAt(view, n) ELSE view

Told(view, lines) ==
    LET after[k \in 0..Len(lines)] ==
          IF k = 0 THEN view ELSE Forget(after[k - 1], lines[k])
    IN  after[Len(lines)]

\* And of VANISHED: it forgets those UIDs.
Without(view, gone) ==
    LET kept == Ascending({n \in 1..Len(view) : view[n] \notin gone})
    IN  [k \in 1..Len(kept) |-> view[kept[k]]]

-----------------------------------------------------------------------------
(* Writing the store.                                                      *)

\* A commit by `a' that other sessions are not told of moves the messages
\* under the sequence numbers of session s.
Displaces(a, s, nd) ==
    LET was == List(data, sess[s].box)
        now == List(nd, sess[s].box)
    IN  IF a = s
        THEN \E u \in ToSet(now) \ ToSet(was) : \E v \in ToSet(was) : v > u
        ELSE ~IsPrefix(was, now)

\* One batch: the records, and a notice to every idling session.
Write(a, nd) ==
    /\ data' = nd
    /\ sess' = [s \in Imap |->
                  [sess[s] EXCEPT
                     !.moved = @ \/ (/\ sess[s].state = "selected"
                                     /\ Displaces(a, s, nd)),
                     !.note = @ \/ sess[s].idle]]

\* MessageData::add_mailbox: a mailbox the message is in keeps its UID.
Filed(r, b, u) == IF r.uid[b] # 0 THEN r ELSE [r EXCEPT !.uid[b] = u]

Unfiled(r, b) == [r EXCEPT !.uid[b] = 0]

Mutated(r, it) ==
    CASE it.act = "seen" -> [r EXCEPT !.kw = @ \cup {"Seen"}]
      [] it.act = "file" -> Filed(r, it.to, it.uid)
      [] it.act = "move" -> Unfiled(Filed(r, it.to, it.uid), it.from)
      [] it.act = "unfile" -> Unfiled(r, it.from)
      [] it.act = "expunge" ->
           [Unfiled(r, it.from) EXCEPT !.kw = @ \ {"Deleted"}]
      [] it.act = "plus" -> [r EXCEPT !.kw = @ \cup {"Deleted"}]
      [] it.act = "minus" -> [r EXCEPT !.kw = @ \ {"Deleted"}]
      [] it.act = "replace" -> [r EXCEPT !.kw = {}]
      [] it.act = "refile" ->
           [r EXCEPT !.uid = [b \in Boxes |->
                                IF b = it.to THEN Filed(r, b, it.uid).uid[b] ELSE 0]]
      [] it.act = "insert" -> r
      [] it.act = "delete" -> None

ToDo(cmd, items, lines) ==
    [cmd |-> cmd, todo |-> items, held |-> NothingHeld, loaded |-> FALSE,
     tries |-> 0, lines |-> lines]

Begin(a, cmd, items, lines) ==
    /\ ops > 0
    /\ ops' = ops - 1
    /\ job' = [job EXCEPT ![a] = ToDo(cmd, items, lines)]

OneItem(d, act, from, to) ==
    [doc |-> d, act |-> act, from |-> from, to |-> to, uid |-> 0]

-----------------------------------------------------------------------------
(* The steps of an operation: update_message and delete_message load the   *)
(* record and write it back unconditionally, one message after the other.  *)

Busy(a) == job[a] # None

\* Mutant: the counter is read and not raised.
TakeUidUncounted(b, d) ==
    /\ lastUid[b] < MaxUid
    /\ owner' = [owner EXCEPT ![b][lastUid[b] + 1] = d]
    /\ UNCHANGED lastUid

\* Mailbox::next_uid, for a document about to be filed.
TakeUid(b, d) ==
    /\ lastUid[b] < MaxUid
    /\ lastUid' = [lastUid EXCEPT ![b] = @ + 1]
    /\ owner' = [owner EXCEPT ![b][lastUid[b] + 1] = d]

\* COPY and MOVE draw the target's UID before they load the record, a JMAP
\* patch draws it inside, and only for a mailbox the message is not in.  The
\* draw and the load are one step here: a UID drawn touches no record.
TakesUid(a, it) ==
    /\ it.act \in {"file", "move", "refile"}
    /\ a \in Jmap =>
         /\ data[it.doc] # None
         /\ data[it.doc].uid[it.to] = 0

LoadRecord(a) ==
    /\ Busy(a) /\ job[a].cmd # "store" /\ job[a].todo # <<>> /\ ~job[a].loaded
    /\ LET it == Head(job[a].todo)
           draws == TakesUid(a, it)
           held == [it EXCEPT !.uid = IF draws THEN lastUid[it.to] + 1 ELSE 0]
       IN  /\ IF draws THEN TakeUid(it.to, it.doc)
                       ELSE UNCHANGED <<lastUid, owner>>
           /\ job' = [job EXCEPT
                ![a].loaded = data[it.doc] # None,
                ![a].held[it.doc] = data[it.doc],
                ![a].todo = IF data[it.doc] = None THEN Tail(@)
                            ELSE <<held>> \o Tail(@)]
    /\ UNCHANGED <<data, fresh, sess, drop, ops>>

WriteRecord(a) ==
    /\ Busy(a) /\ job[a].cmd # "store" /\ job[a].todo # <<>> /\ job[a].loaded
    /\ LET it == Head(job[a].todo)
       IN  Write(a, [data EXCEPT ![it.doc] = Mutated(job[a].held[it.doc], it)])
    /\ job' = [job EXCEPT ![a].todo = Tail(@), ![a].loaded = FALSE,
                          ![a].held = NothingHeld]
    /\ UNCHANGED <<lastUid, fresh, drop, ops, owner>>

\* update_messages: read every record, then write them in one batch that
\* asserts that none of those it changes has changed since.
LoadForStore(a) ==
    /\ Busy(a) /\ job[a].cmd = "store" /\ job[a].todo # <<>> /\ ~job[a].loaded
    /\ LET ids == {job[a].todo[n].doc : n \in 1..Len(job[a].todo)}
       IN  job' = [job EXCEPT
             ![a].loaded = TRUE,
             ![a].held = [d \in Docs |-> IF d \in ids THEN data[d] ELSE None]]
    /\ UNCHANGED <<data, lastUid, fresh, sess, drop, ops, owner>>

Changed(a) ==
    {d \in Docs : LET r == job[a].held[d]
                  IN  r # None /\ Mutated(r, Head(job[a].todo)) # r}

\* Mutant: the batch asserts nothing.
AssertsDropped(a) == TRUE

AssertsHold(a) == \A d \in Changed(a) : data[d] = job[a].held[d]

CommitStore(a) ==
    /\ Busy(a) /\ job[a].cmd = "store" /\ job[a].todo # <<>> /\ job[a].loaded
    /\ IF AssertsHold(a)
       THEN /\ IF Changed(a) = {}
               THEN UNCHANGED <<data, sess>>
               ELSE Write(a, [d \in Docs |->
                      IF d \in Changed(a)
                      THEN Mutated(job[a].held[d], Head(job[a].todo))
                      ELSE data[d]])
            /\ job' = [job EXCEPT ![a].todo = <<>>]
       ELSE /\ job' = [job EXCEPT
                 ![a].tries = @ + 1, ![a].loaded = FALSE,
                 ![a].held = NothingHeld,
                 ![a].todo = IF job[a].tries + 1 = UpdateAttempts
                             THEN <<>> ELSE @]
            /\ UNCHANGED <<data, sess>>
    /\ UNCHANGED <<lastUid, fresh, drop, ops, owner>>

-----------------------------------------------------------------------------
(* Mail coming in: deliver and append_message draw the document id and the *)
(* UIDs, then write the record in one batch.                               *)

StartInsert(a, cmd, d, boxes, kw) ==
    /\ ops > 0 /\ ops' = ops - 1
    /\ fresh' = fresh \ {d}
    /\ \A b \in boxes : lastUid[b] < MaxUid
    /\ lastUid' = [b \in Boxes |-> IF b \in boxes THEN lastUid[b] + 1
                                   ELSE lastUid[b]]
    /\ owner' = [b \in Boxes |->
                   IF b \in boxes THEN [owner[b] EXCEPT ![lastUid[b] + 1] = d]
                   ELSE owner[b]]
    /\ job' = [job EXCEPT ![a] =
         [ToDo(cmd, <<OneItem(d, "insert", None, None)>>, <<>>) EXCEPT
            !.loaded = TRUE,
            !.held[d] = [uid |-> [b \in Boxes |-> IF b \in boxes
                                                  THEN lastUid[b] + 1 ELSE 0],
                         kw |-> kw]]]
    /\ UNCHANGED <<data, sess, drop>>

Deliver(a) ==
    /\ a \in Mtas /\ ~Busy(a)
    /\ \E d \in fresh, boxes \in {{Inbox}, Boxes} :
         StartInsert(a, "deliver", d, boxes, {})

\* APPEND does not look at the selected mailbox: no EXISTS follows it.
Append1(s) ==
    /\ s \in Imap /\ ~Busy(s) /\ ~sess[s].idle
    /\ \E d \in fresh, b \in Boxes, kw \in {{}, {"Deleted"}} :
         StartInsert(s, "append", d, {b}, kw)

-----------------------------------------------------------------------------
(* IMAP commands.                                                          *)

Selected(s) == s \in Imap /\ ~Busy(s) /\ sess[s].state = "selected"
Ready(s) == Selected(s) /\ ~sess[s].idle

Select(s, b, examine) ==
    /\ s \in Imap /\ ~Busy(s) /\ ~sess[s].idle
    /\ ops > 0 /\ ops' = ops - 1
    /\ sess' = [sess EXCEPT
         ![s] = [@ EXCEPT !.state = "selected", !.box = b,
                          !.readOnly = examine, !.moved = FALSE,
                          !.view = List(data, b),
                          !.last = Len(List(data, b))]]
    /\ UNCHANGED <<data, lastUid, fresh, job, drop, owner>>

\* push_new_mail: EXISTS is sent only when there is more than last time.
PushNewMail(s) ==
    LET uids == List(data, sess[s].box)
        known == Len(sess[s].view)
    IN  IF sess[s].state = "selected" /\ Len(uids) > sess[s].last
        THEN [sess[s] EXCEPT !.last = Len(uids),
                             !.view = @ \o SubSeq(uids, known + 1, Len(uids))]
        ELSE sess[s]

Noop(s) ==
    /\ s \in Imap /\ ~Busy(s) /\ ~sess[s].idle
    /\ sess' = [sess EXCEPT ![s] = PushNewMail(s)]
    /\ UNCHANGED <<data, lastUid, fresh, job, drop, ops, owner>>

Enable(s) ==
    /\ s \in Imap /\ ~Busy(s) /\ ~sess[s].idle
    /\ sess' = [sess EXCEPT ![s].qresync = TRUE]
    /\ UNCHANGED <<data, lastUid, fresh, job, drop, ops, owner>>

\* IDLE subscribes, and from then on every notice is a push_new_mail.
Idle(s) ==
    /\ s \in Imap /\ ~Busy(s) /\ ~sess[s].idle
    /\ sess' = [sess EXCEPT ![s].idle = TRUE, ![s].note = FALSE]
    /\ UNCHANGED <<data, lastUid, fresh, job, drop, ops, owner>>

IdleNotice(s) ==
    /\ s \in Imap /\ sess[s].idle /\ sess[s].note
    /\ sess' = [sess EXCEPT ![s] = [PushNewMail(s) EXCEPT !.note = FALSE]]
    /\ UNCHANGED <<data, lastUid, fresh, job, drop, ops, owner>>

IdleDone(s) ==
    /\ s \in Imap /\ sess[s].idle
    /\ sess' = [sess EXCEPT ![s].idle = FALSE, ![s].note = FALSE]
    /\ UNCHANGED <<data, lastUid, fresh, job, drop, ops, owner>>

\* The documents a command works through, by ascending number.
Targets(s, hits) ==
    [k \in 1..Cardinality(hits) |-> DocAt(data, sess[s].box, Ascending(hits)[k])]

\* FETCH of a body sets \Seen on what has it not, except after EXAMINE.
SetsSeen(s) == ~sess[s].readOnly

Fetch(s, set, uidMode) ==
    /\ Ready(s)
    /\ LET hits == {n \in Hits(data, sess[s].box, set, uidMode) :
                       "Seen" \notin data[DocAt(data, sess[s].box, n)].kw}
       IN  /\ SetsSeen(s) /\ hits # {}
           /\ Begin(s, "fetch", [k \in 1..Cardinality(hits) |->
                      OneItem(Targets(s, hits)[k], "seen", None, None)], <<>>)
    /\ UNCHANGED <<data, lastUid, fresh, sess, drop, owner>>

\* UNCHANGEDSINCE leaves out messages the change log says have changed: the
\* log is not part of this module, so any part of those named may remain.
Store(s, set, uidMode, act) ==
    /\ Ready(s) /\ ~sess[s].readOnly
    /\ \E hits \in SUBSET Hits(data, sess[s].box, set, uidMode) :
         /\ hits # {}
         /\ Begin(s, "store", [k \in 1..Cardinality(hits) |->
                    OneItem(Targets(s, hits)[k], act, None, None)], <<>>)
    /\ UNCHANGED <<data, lastUid, fresh, sess, drop, owner>>

\* A message the snapshot already shows in the target keeps its UID there.
CopyItem(d, source, target, moving) ==
    IF data[d].uid[target] # 0
    THEN OneItem(d, "unfile", source, None)
    ELSE OneItem(d, IF moving THEN "move" ELSE "file", source, target)

Copy(s, set, uidMode, target, moving) ==
    /\ Ready(s)
    /\ moving => ~sess[s].readOnly
    /\ target # sess[s].box
    /\ LET all == Hits(data, sess[s].box, set, uidMode)
           hits == IF moving THEN all
                   ELSE {n \in all : data[DocAt(data, sess[s].box, n)].uid[target] = 0}
       IN  /\ hits # {}
           /\ Begin(s, IF moving THEN "move" ELSE "copy",
                    [k \in 1..Cardinality(hits) |->
                       CopyItem(Targets(s, hits)[k], sess[s].box, target, moving)],
                    IF moving THEN ExpungeLines(Ascending(hits)) ELSE <<>>)
    /\ UNCHANGED <<data, lastUid, fresh, sess, drop, owner>>

\* The last mailbox takes the message with it, another only lets it go.
ExpungeItem(d, b) ==
    IF Cardinality({x \in Boxes : data[d].uid[x] # 0}) <= 1
    THEN OneItem(d, "delete", None, None)
    ELSE OneItem(d, "expunge", b, None)

Doomed(s, uids) ==
    {n \in Hits(data, sess[s].box, uids, TRUE) :
        "Deleted" \in data[DocAt(data, sess[s].box, n)].kw}

ApplyExpunge(s, cmd, hits) ==
    Begin(s, cmd,
          [k \in 1..Cardinality(hits) |-> ExpungeItem(Targets(s, hits)[k], sess[s].box)],
          IF cmd = "close" THEN <<>>
          ELSE IF sess[s].qresync
               THEN [k \in 1..Cardinality(hits) |->
                       List(data, sess[s].box)[Ascending(hits)[k]]]
          ELSE ExpungeLines(Ascending(hits)))

\* EXPUNGE, and UID EXPUNGE of one UID set.
Expunge(s, uids) ==
    /\ Ready(s) /\ ~sess[s].readOnly
    /\ Doomed(s, uids) # {}
    /\ ApplyExpunge(s, "expunge", Doomed(s, uids))
    /\ UNCHANGED <<data, lastUid, fresh, sess, drop, owner>>

\* CLOSE expunges without a word, UNSELECT and a dropped connection do not.
Close(s) ==
    /\ Ready(s) /\ ~sess[s].readOnly
    /\ ApplyExpunge(s, "close", Doomed(s, 1..MaxUid))
    /\ UNCHANGED <<data, lastUid, fresh, sess, drop, owner>>

Unselect(s) ==
    /\ Ready(s)
    /\ sess' = [sess EXCEPT ![s] = [Unselected EXCEPT !.qresync = sess[s].qresync]]
    /\ UNCHANGED <<data, lastUid, fresh, job, drop, ops, owner>>

Logout(s) ==
    /\ s \in Imap /\ ~Busy(s)
    /\ sess' = [sess EXCEPT ![s] = Unselected]
    /\ UNCHANGED <<data, lastUid, fresh, job, drop, ops, owner>>

\* The client's list once the untagged responses of a command are in.
Heard(z, j) ==
    IF j.cmd = "expunge" /\ z.qresync
    THEN Without(z.view, ToSet(j.lines))
    ELSE Told(z.view, j.lines)

\* Mutant: CLOSE leaves the mailbox selected.
InformedKeepsBox(s, j) ==
    IF j.cmd = "close"
    THEN [Unselected EXCEPT !.qresync = sess[s].qresync, !.box = sess[s].box]
    ELSE [sess[s] EXCEPT !.view = Heard(sess[s], j)]

\* The responses of a finished command reach the client.
Informed(s, j) ==
    IF j.cmd = "close"
    THEN [Unselected EXCEPT !.qresync = sess[s].qresync]
    ELSE [sess[s] EXCEPT !.view = Heard(sess[s], j)]

Finish(a) ==
    /\ Busy(a) /\ job[a].todo = <<>>
    /\ job' = [job EXCEPT ![a] = None]
    /\ sess' = [s \in Imap |-> IF s = a THEN Informed(s, job[a]) ELSE sess[s]]
    /\ drop' = [p \in Pop3 |-> IF p = a THEN None ELSE drop[p]]
    /\ UNCHANGED <<data, lastUid, fresh, ops, owner>>

-----------------------------------------------------------------------------
(* POP3: the maildrop is a snapshot of the inbox taken at login, DELE only *)
(* marks, QUIT deletes what is marked, and a lost connection nothing.      *)

LoadMaildrop(p) ==
    /\ p \in Pop3 /\ ~Busy(p) /\ drop[p] = None
    /\ ops > 0 /\ ops' = ops - 1
    /\ LET uids == List(data, Inbox)
       IN  drop' = [drop EXCEPT ![p] = [n \in 1..Len(uids) |->
                      [doc |-> DocWith(data, Inbox, uids[n]),
                       deleted |-> FALSE]]]
    /\ UNCHANGED <<data, lastUid, fresh, job, sess, owner>>

Dele(p, n) ==
    /\ p \in Pop3 /\ ~Busy(p) /\ drop[p] # None
    /\ n \in 1..Len(drop[p]) /\ ~drop[p][n].deleted
    /\ drop' = [drop EXCEPT ![p][n].deleted = TRUE]
    /\ UNCHANGED <<data, lastUid, fresh, job, sess, ops, owner>>

Rset(p) ==
    /\ p \in Pop3 /\ ~Busy(p) /\ drop[p] # None
    /\ drop' = [drop EXCEPT ![p] = [n \in 1..Len(@) |->
                                      [@[n] EXCEPT !.deleted = FALSE]]]
    /\ UNCHANGED <<data, lastUid, fresh, job, sess, ops, owner>>

\* commit_deletions: the message goes from every mailbox it is filed in.
Quit(p) ==
    /\ p \in Pop3 /\ ~Busy(p) /\ drop[p] # None
    /\ LET marked == Ascending({n \in 1..Len(drop[p]) : drop[p][n].deleted})
       IN  job' = [job EXCEPT ![p] = ToDo("quit", [k \in 1..Len(marked) |->
                     OneItem(drop[p][marked[k]].doc, "delete", None, None)], <<>>)]
    /\ UNCHANGED <<data, lastUid, fresh, sess, drop, ops, owner>>

Disconnect(p) ==
    /\ p \in Pop3 /\ ~Busy(p)
    /\ drop' = [drop EXCEPT ![p] = None]
    /\ UNCHANGED <<data, lastUid, fresh, job, sess, ops, owner>>

-----------------------------------------------------------------------------
(* JMAP Email/set: patches of keywords and mailboxIds, and destroy.        *)

Patches(d) ==
    {OneItem(d, act, None, None) : act \in {"replace", "seen"}}
      \cup {OneItem(d, act, None, b) : act \in {"file", "refile"}, b \in Boxes}
      \cup {OneItem(d, "unfile", b, None) : b \in Boxes}

EmailSet(j) ==
    /\ j \in Jmap /\ ~Busy(j)
    /\ \E d \in Docs \ fresh :
         \/ \E it \in Patches(d) : Begin(j, "patch", <<it>>, <<>>)
         \/ Begin(j, "destroy", <<OneItem(d, "delete", None, None)>>, <<>>)
    /\ UNCHANGED <<data, lastUid, fresh, sess, drop, owner>>

-----------------------------------------------------------------------------
\* A restart ends every connection and every operation under way; the
\* records and the counters are in the store.
Restart ==
    /\ ops > 0 /\ ops' = ops - 1
    /\ job' = [a \in Actors |-> None]
    /\ sess' = [s \in Imap |-> Unselected]
    /\ drop' = [p \in Pop3 |-> None]
    /\ UNCHANGED <<data, lastUid, fresh, owner>>

Init ==
    /\ \E kw \in {{}, {"Deleted"}} :
         data = [d \in Docs |->
                   IF d \in ToSet(Initial)
                   THEN [uid |-> [b \in Boxes |->
                                    IF b = Inbox
                                    THEN CHOOSE n \in 1..Len(Initial) : Initial[n] = d
                                    ELSE 0],
                         kw |-> kw]
                   ELSE None]
    /\ lastUid = [b \in Boxes |-> IF b = Inbox THEN Len(Initial) ELSE 0]
    /\ fresh = Docs \ ToSet(Initial)
    /\ job = [a \in Actors |-> None]
    /\ sess = [s \in Imap |-> Unselected]
    /\ drop = [p \in Pop3 |-> None]
    /\ ops = MaxOps
    /\ owner = [b \in Boxes |-> [u \in 1..MaxUid |->
                  IF b = Inbox /\ u <= Len(Initial) THEN Initial[u] ELSE None]]

ImapNext(s) ==
    \/ \E b \in Boxes, examine \in BOOLEAN : Select(s, b, examine)
    \/ \E set \in Ranges, uidMode \in BOOLEAN :
         \/ Fetch(s, set, uidMode)
         \/ \E act \in {"plus", "minus", "replace"} : Store(s, set, uidMode, act)
         \/ \E target \in Boxes, moving \in BOOLEAN :
              Copy(s, set, uidMode, target, moving)
    \/ \E uids \in Ranges : Expunge(s, uids)
    \/ Noop(s) \/ Enable(s) \/ Idle(s) \/ IdleNotice(s) \/ IdleDone(s)
    \/ Append1(s) \/ Close(s) \/ Unselect(s) \/ Logout(s)

Pop3Next(p) ==
    \/ LoadMaildrop(p) \/ Rset(p) \/ Quit(p) \/ Disconnect(p)
    \/ \E n \in 1..MaxUid : Dele(p, n)

Next ==
    \/ \E m \in Mtas : Deliver(m)
    \/ \E s \in Imap : ImapNext(s)
    \/ \E p \in Pop3 : Pop3Next(p)
    \/ \E j \in Jmap : EmailSet(j)
    \/ \E a \in Actors :
         \/ LoadRecord(a) \/ WriteRecord(a)
         \/ LoadForStore(a) \/ CommitStore(a)
         \/ Finish(a)
    \/ Restart

Spec == Init /\ [][Next]_vars

-----------------------------------------------------------------------------
\* Every variable has its type, and a session has a mailbox exactly while it
\* is in the selected state (the commands of that state use it unchecked).
TypeOK ==
    /\ data \in [Docs -> Data \cup {None}]
    /\ lastUid \in [Boxes -> Uids]
    /\ fresh \subseteq Docs
    /\ job \in [Actors -> Job \cup {None}]
    /\ sess \in [Imap -> Session]
    /\ \A s \in Imap : sess[s].state = "selected" <=> sess[s].box # None
    /\ drop \in [Pop3 -> Seq(Entry) \cup {None}]
    /\ ops \in 0..MaxOps
    /\ owner \in [Boxes -> [1..MaxUid -> Docs \cup {None}]]

\* A UID of a mailbox means one message for ever: whatever copies, moves,
\* patches and deliveries race, no record carries a UID that was handed out
\* for another document (Mailbox::next_uid before every filing).
UidOwner ==
    \A d \in Docs, b \in Boxes :
        data[d] # None /\ data[d].uid[b] # 0 => owner[b][data[d].uid[b]] = d

\* While nothing else takes a message out of the selected mailbox or puts
\* one before its end, the sequence numbers an IMAP client has been told of
\* name the messages the server resolves them to: EXISTS, the renumbering
\* EXPUNGE lines of EXPUNGE and MOVE, and VANISHED all keep the client's
\* list a prefix of the server's.
ViewFollows ==
    \A s \in Imap :
        sess[s].state = "selected" /\ ~Busy(s) /\ ~sess[s].moved
          => IsPrefix(sess[s].view, List(data, sess[s].box))

\* STORE merges with concurrent writes: the record it writes is the one in
\* the store at that instant with nothing but its own flags changed, however
\* long ago it read the record (the assertions of update_messages).
StoreMerges ==
    [][\A s \in Imap :
         CommitStore(s) =>
           \A d \in Docs : data'[d] # data[d] =>
             /\ data[d] # None
             /\ data'[d] = Mutated(data[d], Head(job[s].todo))]_vars
=============================================================================
