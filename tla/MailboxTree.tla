---------------------------- MODULE MailboxTree ----------------------------
(***************************************************************************)
(* The mailboxes of one account (crates/mail/src/mailbox_admin.rs,         *)
(* mailbox.rs and provision.rs; Mailbox/set in crates/jmap/src/            *)
(* mailbox_set.rs; CREATE, DELETE and RENAME in crates/imap/src/           *)
(* session.rs).  IMAP sessions and JMAP calls create, rename and delete    *)
(* mailboxes while messages are delivered, copied, moved and patched into  *)
(* them; nothing is locked, so the others run between any two store calls  *)
(* of an operation.  update_message and delete_message (read.rs) load a    *)
(* record and write it back later whatever happened to it meanwhile.       *)
(***************************************************************************)
EXTENDS Naturals, FiniteSets, FiniteSetsExt

CONSTANTS
    Actors,    \* IMAP sessions, JMAP calls, deliveries
    Names,     \* the names of user mailboxes
    Docs,      \* messages
    SpamId,    \* SPAM_ID: the system mailboxes are 1..SpamId
    CreatedAt, \* the creation time of the account, as UIDVALIDITY shows it
    MaxId,     \* bound on mailbox ids
    MaxUid,    \* bound on the UIDs of a mailbox
    None

Ids == 1..MaxId
System == 1..SpamId

ASSUME TreeAssumption ==
    /\ SpamId \in Nat \ {0} /\ MaxId \in Nat /\ MaxUid \in Nat
    /\ SpamId < MaxId
    /\ None \notin Names /\ "system" \notin Names

VARIABLES
    rows,     \* the mailbox rows, None where there is none
    counter,  \* the mailbox id counter
    lastUid,  \* the UID counter of every mailbox
    born,     \* messages that have been given a document id
    mail,     \* where every message is filed and under which UID
    job,      \* the operation an actor is in the middle of
    dead,     \* history: ids of mailboxes that have been deleted
    raced,    \* history: messages put in a mailbox gone or going, see Overlaps
    named     \* history: the messages a name, UIDVALIDITY and UID has meant

vars == <<rows, counter, lastUid, born, mail, job, dead, raced, named>>

Row == [name : Names \cup {"system"}, validity : {CreatedAt}]

Filing == [Ids -> 0..MaxUid]

ASSUME RowAssumption == None \notin Row /\ None \notin Filing

Steps == {"none", "alloc", "floor", "raise", "insert", "load", "rename",
          "purge", "unfile", "copy", "patch", "write"}
Job == [step : Steps, id : 0..MaxId, name : Names \cup {None},
        floor : 0..MaxId, row : Row \cup {None},
        members : SUBSET Docs, alone : SUBSET Docs,
        doc : Docs \cup {None}, held : Filing \cup {None},
        from : 0..MaxId, uid : 0..MaxUid]

Free == [step |-> "none", id |-> 0, name |-> None, floor |-> 0, row |-> None,
         members |-> {}, alone |-> {}, doc |-> None, held |-> None,
         from |-> 0, uid |-> 0]

Exists(i) == rows[i] # None
NameTaken(n, except) == \E i \in Ids \ except : Exists(i) /\ rows[i].name = n
BoxesOf(record) == {i \in Ids : record # None /\ record[i] # 0}
Boxes(d) == BoxesOf(mail[d])

\* assign_uid_validity of what every caller passes: the account's creation.
UidValidity == CreatedAt

Start(a, j) ==
    /\ job[a] = Free
    /\ job' = [job EXCEPT ![a] = j]

-----------------------------------------------------------------------------
(* create_mailbox, from IMAP CREATE and from Mailbox/set create.           *)

Create(a, n) ==
    /\ ~NameTaken(n, {})
    /\ Start(a, [Free EXCEPT !.step = "alloc", !.name = n])
    /\ UNCHANGED <<rows, counter, lastUid, born, mail, dead, raced, named>>

\* allocate_mailbox_id: draw, compare with the rows, draw again if behind.
AllocFirst(a) ==
    /\ job[a].step = "alloc" /\ counter < MaxId
    /\ counter' = counter + 1
    /\ job' = [job EXCEPT ![a].step = "floor", ![a].id = counter + 1]
    /\ UNCHANGED <<rows, lastUid, born, mail, dead, raced, named>>

RowFloor == Max({i \in Ids : Exists(i)} \cup {SpamId})

AllocFloor(a) ==
    /\ job[a].step = "floor"
    /\ job' = IF job[a].id > RowFloor
              THEN [job EXCEPT ![a].step = "insert"]
              ELSE [job EXCEPT ![a].step = "raise", ![a].floor = RowFloor]
    /\ UNCHANGED <<rows, counter, lastUid, born, mail, dead, raced, named>>

\* Mutant: the id is one above the floor, whoever else raised the counter.
AllocRaiseToFloor(a) ==
    /\ job[a].step = "raise"
    /\ job[a].floor + 1 <= MaxId
    /\ counter' = Max({counter, job[a].floor + 1})
    /\ job' = [job EXCEPT ![a].step = "insert", ![a].id = job[a].floor + 1,
                          ![a].floor = 0]
    /\ UNCHANGED <<rows, lastUid, born, mail, dead, raced, named>>

\* The id is what the counter holds after the second draw.
AllocRaise(a) ==
    /\ job[a].step = "raise"
    /\ LET next == counter + (job[a].floor + 1 - job[a].id)
       IN  /\ next <= MaxId
           /\ counter' = next
           /\ job' = [job EXCEPT ![a].step = "insert", ![a].id = next,
                                 ![a].floor = 0]
    /\ UNCHANGED <<rows, lastUid, born, mail, dead, raced, named>>

InsertRow(a) ==
    /\ job[a].step = "insert"
    /\ rows' = [rows EXCEPT ![job[a].id] = [name |-> job[a].name,
                                            validity |-> UidValidity]]
    /\ job' = [job EXCEPT ![a] = Free]
    /\ UNCHANGED <<counter, lastUid, born, mail, dead, raced, named>>

-----------------------------------------------------------------------------
(* rename_mailbox: the row is loaded and written back unconditionally.     *)

Rename(a, i, n) ==
    /\ i \in Ids \ System /\ ~NameTaken(n, {i})
    /\ Start(a, [Free EXCEPT !.step = "load", !.id = i, !.name = n])
    /\ UNCHANGED <<rows, counter, lastUid, born, mail, dead, raced, named>>

RenameLoad(a) ==
    /\ job[a].step = "load"
    /\ job' = IF Exists(job[a].id)
              THEN [job EXCEPT ![a].step = "rename", ![a].row = rows[job[a].id]]
              ELSE [job EXCEPT ![a] = Free]
    /\ UNCHANGED <<rows, counter, lastUid, born, mail, dead, raced, named>>

RenameWrite(a) ==
    /\ job[a].step = "rename"
    /\ rows' = [rows EXCEPT ![job[a].id] =
                  [job[a].row EXCEPT !.name = job[a].name]]
    /\ job' = [job EXCEPT ![a] = Free]
    /\ UNCHANGED <<counter, lastUid, born, mail, dead, raced, named>>

-----------------------------------------------------------------------------
(* delete_mailbox: a snapshot of the members and of how many mailboxes     *)
(* each is in, then one message after the other, the row last.  Mailbox/   *)
(* set destroys by id, existing or not, and may ask to keep the mail.      *)

Members(i) == {d \in Docs : i \in Boxes(d)}

\* Mutant: every member goes with its mailbox.
AloneUnchecked(i) == Members(i)

Alone(i) == {d \in Members(i) : Cardinality(Boxes(d)) <= 1}

\* Mutant: system mailboxes may be deleted.
DeleteAny(a, i, removeEmails) ==
    /\ removeEmails \/ Members(i) = {}
    /\ Start(a, [Free EXCEPT !.step = "purge", !.id = i,
                             !.members = Members(i), !.alone = Alone(i)])
    /\ UNCHANGED <<rows, counter, lastUid, born, mail, dead, raced, named>>

Delete(a, i, removeEmails) ==
    /\ i \in Ids \ System
    /\ removeEmails \/ Members(i) = {}
    /\ Start(a, [Free EXCEPT !.step = "purge", !.id = i,
                             !.members = Members(i), !.alone = Alone(i)])
    /\ UNCHANGED <<rows, counter, lastUid, born, mail, dead, raced, named>>

\* A deletion on its list of members or writing one of them back.
Purging(a) == job[a].step \in {"purge", "unfile"}

\* The record is loaded: one whose count in the snapshot was one is to go,
\* any other is to leave the mailbox.
PurgeLoad(a, d) ==
    /\ job[a].step = "purge" /\ d \in job[a].members
    /\ job' = IF mail[d] = None
              THEN [job EXCEPT ![a].members = @ \ {d}]
              ELSE [job EXCEPT ![a].step = "unfile", ![a].doc = d,
                     ![a].held = IF d \in job[a].alone THEN None
                                 ELSE [mail[d] EXCEPT ![job[a].id] = 0]]
    /\ UNCHANGED <<rows, counter, lastUid, born, mail, dead, raced, named>>

\* The write puts message d in the mailboxes added, one of which is not
\* there or being deleted, or d is on the list of a deletion under way.
Overlaps(a, d, added) ==
    \/ \E i \in added : ~Exists(i)
    \/ \E b \in Actors \ {a} : Purging(b)
         /\ (job[b].id \in added \/ (added # {} /\ d \in job[b].members))

\* The batch of update_message, delete_message and append_message: the
\* record as this caller holds it, whatever the store has by now.
Put(a) ==
    LET d == job[a].doc
        held == job[a].held
        added == BoxesOf(held) \ Boxes(d)
    IN  /\ mail' = [mail EXCEPT ![d] = held]
        /\ raced' = IF Overlaps(a, d, added) THEN raced \cup {d} ELSE raced
        /\ named' = named \cup
             {<<rows[i].name, rows[i].validity, held[i], d>> :
                i \in {k \in added \ System : Exists(k)}}

PurgeWrite(a) ==
    /\ job[a].step = "unfile"
    /\ Put(a)
    /\ job' = [job EXCEPT ![a].step = "purge", ![a].doc = None,
                          ![a].held = None,
                          ![a].members = @ \ {job[a].doc}]
    /\ UNCHANGED <<rows, counter, lastUid, born, dead>>

\* Mutant: the row goes before the mail.
PurgedAnyway(a) == TRUE

Purged(a) == job[a].members = {}

DropRow(a) ==
    /\ job[a].step = "purge" /\ Purged(a)
    /\ rows' = [rows EXCEPT ![job[a].id] = None]
    /\ dead' = IF Exists(job[a].id) THEN dead \cup {job[a].id} ELSE dead
    /\ job' = [job EXCEPT ![a] = Free]
    /\ UNCHANGED <<counter, lastUid, born, mail, raced, named>>

-----------------------------------------------------------------------------
(* Mail gets into a mailbox by delivery and APPEND, by COPY and MOVE, and  *)
(* by Email/set, which asks nobody whether there is such a mailbox.        *)

Unfiled == [i \in Ids |-> 0]

DrawUid(i) ==
    /\ lastUid[i] < MaxUid
    /\ lastUid' = [lastUid EXCEPT ![i] = @ + 1]

\* deliver and append_message: a new document, a mailbox among the rows, its
\* next UID; the record is written by WriteBack.
Deliver(a, d, i) ==
    /\ d \notin born /\ Exists(i)
    /\ DrawUid(i)
    /\ Start(a, [Free EXCEPT !.step = "write", !.doc = d,
                             !.held = [Unfiled EXCEPT ![i] = lastUid[i] + 1]])
    /\ born' = born \cup {d}
    /\ UNCHANGED <<rows, counter, mail, dead, raced, named>>

\* COPY and MOVE of a message of the selected mailbox k to mailbox i: the
\* UID is drawn before the record is loaded, and not drawn at all when the
\* message is in i already, which leaves a MOVE only the source to clear.
Copy(a, d, k, i, move) ==
    /\ k \in Boxes(d) /\ Exists(i)
    /\ IF i \in Boxes(d)
       THEN move /\ UNCHANGED lastUid
       ELSE DrawUid(i)
    /\ Start(a, [Free EXCEPT !.step = "copy", !.doc = d, !.id = i,
                             !.uid = IF i \in Boxes(d) THEN 0
                                     ELSE lastUid[i] + 1,
                             !.from = IF move THEN k ELSE 0])
    /\ UNCHANGED <<rows, counter, born, mail, dead, raced, named>>

\* The copied record: in i under the UID drawn unless it was there already,
\* and out of the source of a MOVE.
Copied(j, record) ==
    [k \in Ids |-> IF k = j.from THEN 0
                   ELSE IF k = j.id /\ record[k] = 0 THEN j.uid
                   ELSE record[k]]

CopyLoad(a) ==
    /\ job[a].step = "copy"
    /\ LET j == job[a]
       IN  job' = [job EXCEPT ![a] =
             IF mail[j.doc] = None THEN Free
             ELSE [Free EXCEPT !.step = "write", !.doc = j.doc,
                               !.held = Copied(j, mail[j.doc])]]
    /\ UNCHANGED <<rows, counter, lastUid, born, mail, dead, raced, named>>

\* Email/set update: the record is loaded and every mailbox of the patch set
\* or cleared in it, a UID drawn for each one set, existing or not.  The
\* update of an EXPUNGE that leaves the message in other mailboxes is the
\* patch that clears one.
EmailSet(a, d) ==
    /\ mail[d] # None
    /\ Start(a, [Free EXCEPT !.step = "patch", !.doc = d, !.held = mail[d]])
    /\ UNCHANGED <<rows, counter, lastUid, born, mail, dead, raced, named>>

PatchAdd(a, i) ==
    /\ job[a].step = "patch" /\ job[a].held[i] = 0
    /\ DrawUid(i)
    /\ job' = [job EXCEPT ![a].held[i] = lastUid[i] + 1]
    /\ UNCHANGED <<rows, counter, born, mail, dead, raced, named>>

PatchRemove(a, i) ==
    /\ job[a].step = "patch" /\ job[a].held[i] # 0
    /\ job' = [job EXCEPT ![a].held[i] = 0]
    /\ UNCHANGED <<rows, counter, lastUid, born, mail, dead, raced, named>>

WriteBack(a) ==
    /\ job[a].step \in {"write", "patch"}
    /\ Put(a)
    /\ job' = [job EXCEPT ![a] = Free]
    /\ UNCHANGED <<rows, counter, lastUid, born, dead>>

-----------------------------------------------------------------------------
\* A restart loses the operations under way; the counters are in the store.
Restart ==
    /\ job' = [a \in Actors |-> Free]
    /\ UNCHANGED <<rows, counter, lastUid, born, mail, dead, raced, named>>

Init ==
    /\ rows = [i \in Ids |-> IF i \in System
                 THEN [name |-> "system", validity |-> UidValidity] ELSE None]
    /\ counter = 0
    /\ lastUid = [i \in Ids |-> 0]
    /\ born = {}
    /\ mail = [d \in Docs |-> None]
    /\ job = [a \in Actors |-> Free]
    /\ dead = {} /\ raced = {} /\ named = {}

ActorNext(a) ==
    \/ \E n \in Names : Create(a, n)
    \/ AllocFirst(a) \/ AllocFloor(a) \/ AllocRaise(a) \/ InsertRow(a)
    \/ \E i \in Ids, n \in Names : Rename(a, i, n)
    \/ RenameLoad(a) \/ RenameWrite(a)
    \/ \E i \in Ids, remove \in BOOLEAN : Delete(a, i, remove)
    \/ \E d \in Docs : PurgeLoad(a, d)
    \/ PurgeWrite(a) \/ DropRow(a)
    \/ \E d \in Docs, i \in Ids : Deliver(a, d, i)
    \/ \E d \in Docs, k, i \in Ids, move \in BOOLEAN : Copy(a, d, k, i, move)
    \/ CopyLoad(a)
    \/ \E d \in Docs : EmailSet(a, d)
    \/ \E i \in Ids : PatchAdd(a, i) \/ PatchRemove(a, i)
    \/ WriteBack(a)

Next == (\E a \in Actors : ActorNext(a)) \/ Restart

Spec == Init /\ [][Next]_vars

-----------------------------------------------------------------------------
\* Every variable has its type, and the system mailboxes are there: no
\* operation deletes or overwrites one.
TypeOK ==
    /\ rows \in [Ids -> Row \cup {None}]
    /\ counter \in 0..MaxId
    /\ lastUid \in [Ids -> 0..MaxUid]
    /\ born \subseteq Docs
    /\ mail \in [Docs -> Filing \cup {None}]
    /\ job \in [Actors -> Job]
    /\ dead \subseteq Ids /\ raced \subseteq Docs
    /\ \A i \in System : Exists(i)

\* The id allocate_mailbox_id hands to a creation belongs to no mailbox, has
\* belonged to none, and is in no other hands, however many creations run
\* at once and whatever was deleted between the two draws.
IdsFresh ==
    \A a \in Actors : job[a].step = "insert" =>
        /\ job[a].id > SpamId
        /\ job[a].id \notin dead /\ ~Exists(job[a].id)
        /\ \A b \in Actors \ {a} :
             job[b].step = "insert" => job[b].id # job[a].id

\* A message is only in mailboxes there are, unless some write put it in one
\* that was gone or going: what delete_mailbox finds in its mailbox is out of
\* it before the row goes, however loads and writes of the same record by
\* other deletions, copies and patches fall between its own.
NoStrandedMail ==
    \A d \in Docs \ raced : \A i \in Boxes(d) : Exists(i)

\* A deletion takes a message away only with its last mailbox, unless some
\* write put it in another while the deletion had it on its list.
SharedMailKept ==
    [][\A d \in Docs \ raced :
         mail[d] # None /\ mail'[d] = None => Cardinality(Boxes(d)) <= 1]_vars

\* What the tests of mailbox.rs and provision.rs say of UIDVALIDITY: it
\* changes when a mailbox is created anew, so that a name, a UIDVALIDITY and
\* a UID mean one message.
UidMeansOneMessage ==
    \A x, y \in named :
        x[1] = y[1] /\ x[2] = y[2] /\ x[3] = y[3] => x[4] = y[4]
=============================================================================
