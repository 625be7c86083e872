----------------------------- MODULE ChangeSync -----------------------------
(***************************************************************************)
(* The change log of one account and the clients that follow it            *)
(* (crates/store/src/changelog.rs, crates/jmap/src/reply.rs, email_get.rs  *)
(* and query_changes.rs, the QRESYNC part of crates/imap/src/session.rs).  *)
(*                                                                         *)
(* Change ids, document ids and the tombstones of expunged UIDs are drawn  *)
(* from one counter, outside the batch that writes the record and its log  *)
(* entry.  The contents of a message are abstracted to the change id of    *)
(* the last batch that wrote it, 0 when it has no record; there is one     *)
(* mailbox, so a document stands for its UID too.                          *)
(***************************************************************************)
EXTENDS Naturals, Sequences, FiniteSets, SequencesExt, FiniteSetsExt

CONSTANTS
    Writers,   \* operations that write message records
    Clients,   \* JMAP and IMAP clients that keep a copy of the mailbox
    Pages,     \* the values of maxChanges a client asks for
    MaxId,     \* bound on the shared counter
    KeepLast   \* CHANGELOG_RETAIN

\* A client follows Email/changes, Email/queryChanges or QRESYNC.
Protocols == {"changes", "query", "qresync"}
Ids == 1..MaxId
Kinds == {"Insert", "Update", "Delete"}

ASSUME SyncAssumption ==
    /\ MaxId \in Nat \ {0} /\ KeepLast \in Nat \ {0}
    /\ Pages \subseteq Nat \ {0}

VARIABLES
    counter,   \* the last id drawn
    docs,      \* the records: document id -> change id of its last writer
    log,       \* the Email partition: change id -> entry, or NoEntry
    vanished,  \* the EmailVanished partition: change id -> document, or 0
    floor,     \* the floor of the Email partition
    vfloor,    \* the floor of the EmailVanished partition
    writer,    \* what every writer is about to commit
    client,    \* what every client knows, and the call it is in
    revived,   \* history: records written after they were deleted
    raced      \* history: the clients that one of the races below has met

vars == <<counter, docs, log, vanished, floor, vfloor, writer, client,
          revived, raced>>

Nothing == [d \in Ids |-> 0]
NoEntry == [doc |-> 0, kind |-> "None"]
Entry == [doc : Ids, kind : Kinds] \cup {NoEntry}
Calls == {"none", "get", "page", "fetch", "entries", "ids", "state",
          "vanished", "modseqs", "flags"}
Idle == [kind |-> "None", doc |-> 0, vid |-> 0, id |-> 0]
Writer == [kind : Kinds \cup {"None"}, doc : 0..MaxId, vid : 0..MaxId,
           id : 0..MaxId]
Client == [proto : Protocols, since : 0..MaxId, known : [Ids -> 0..MaxId], call : Calls,
           read : [Ids -> 0..MaxId], todo : SUBSET Ids, gone : SUBSET Ids,
           highest : 0..MaxId, synced : BOOLEAN]

-----------------------------------------------------------------------------
(* Writers: deliver, append_message, update_message and delete_message.    *)

\* allocate_document_id: the counter of the change ids.
StartInsert(w) ==
    /\ writer[w] = Idle /\ counter < MaxId
    /\ counter' = counter + 1
    /\ writer' = [writer EXCEPT ![w] =
                    [Idle EXCEPT !.kind = "Insert", !.doc = counter + 1]]
    /\ UNCHANGED <<docs, log, vanished, floor, vfloor, client, revived, raced>>

\* load_data of update_message and delete_message.
Load(w, d, kind) ==
    /\ writer[w] = Idle /\ docs[d] # 0 /\ kind \in {"Update", "Delete"}
    /\ writer' = [writer EXCEPT ![w] = [Idle EXCEPT !.kind = kind, !.doc = d]]
    /\ UNCHANGED <<counter, docs, log, vanished, floor, vfloor, client,
                   revived, raced>>

RecordVanishedOp(w) ==
    /\ writer[w].kind = "Delete" /\ writer[w].vid = 0 /\ counter < MaxId
    /\ counter' = counter + 1
    /\ writer' = [writer EXCEPT ![w].vid = counter + 1]
    /\ UNCHANGED <<docs, log, vanished, floor, vfloor, client, revived, raced>>

RecordOp(w) ==
    /\ writer[w] # Idle /\ writer[w].id = 0 /\ counter < MaxId
    /\ writer[w].kind = "Delete" => writer[w].vid # 0
    /\ counter' = counter + 1
    /\ writer' = [writer EXCEPT ![w].id = counter + 1]
    /\ UNCHANGED <<docs, log, vanished, floor, vfloor, client, revived, raced>>

\* A client meets a race when a batch commits an id its state is already
\* past, or one it will be told of by a state read after the data.
MeetsCommit(c, wr) ==
    \/ wr.id <= client[c].since
    \/ wr.vid # 0 /\ wr.vid <= client[c].since
    \/ client[c].call \in {"get", "ids", "state"}
    \/ client[c].call \in {"vanished", "modseqs", "flags"} /\
         (wr.id <= client[c].highest \/ (wr.vid # 0 /\ wr.vid <= client[c].highest))

\* One batch: the record, its log entry and the tombstone.
Commit(w) ==
    /\ writer[w].id # 0
    /\ LET wr == writer[w]
       IN  /\ docs' = [docs EXCEPT ![wr.doc] =
                         IF wr.kind = "Delete" THEN 0 ELSE wr.id]
           /\ log' = [log EXCEPT ![wr.id] = [doc |-> wr.doc, kind |-> wr.kind]]
           /\ vanished' = IF wr.vid = 0 THEN vanished
                          ELSE [vanished EXCEPT ![wr.vid] = wr.doc]
           /\ revived' = IF wr.kind = "Update" /\ docs[wr.doc] = 0
                         THEN revived \cup {wr.doc} ELSE revived
           /\ raced' = raced \cup {c \in Clients : MeetsCommit(c, wr)}
    /\ writer' = [writer EXCEPT ![w] = Idle]
    /\ UNCHANGED <<counter, floor, vfloor, client>>

-----------------------------------------------------------------------------
(* prune_change_logs, one partition at a time.                             *)

Cutoff == IF counter > KeepLast THEN counter - KeepLast ELSE 0

\* Mutant: entries go and the floor stays.
FloorKept(old) == old

\* The floor covers every id a prune takes away.
RaisedFloor(old) == IF old > Cutoff THEN old ELSE Cutoff

PruneEmail ==
    /\ \E i \in 1..Cutoff : log[i] # NoEntry
    /\ log' = [i \in Ids |-> IF i <= Cutoff THEN NoEntry ELSE log[i]]
    /\ floor' = RaisedFloor(floor)
    /\ raced' = raced \cup {c \in Clients :
                  client[c].call \in {"page", "entries", "vanished", "modseqs"}}
    /\ UNCHANGED <<counter, docs, vanished, vfloor, writer, client, revived>>

PruneVanished ==
    /\ \E i \in 1..Cutoff : vanished[i] # 0
    /\ vanished' = [i \in Ids |-> IF i <= Cutoff THEN 0 ELSE vanished[i]]
    /\ vfloor' = RaisedFloor(vfloor)
    /\ raced' = raced \cup {c \in Clients : client[c].call = "vanished"}
    /\ UNCHANGED <<counter, docs, log, floor, writer, client, revived>>

-----------------------------------------------------------------------------
(* Reading the log.                                                        *)

Since(n) == {i \in Ids : i > n /\ log[i] # NoEntry}

\* changes_page: the first max entries after a state, in order of their id.
ChangesPage(n, max) ==
    {i \in Since(n) : Cardinality({k \in Since(n) : k < i}) < max}

CanCalculate(n) == n >= floor

In(page, d, kind) == \E i \in page : log[i] = [doc |-> d, kind |-> kind]

Created(page) ==
    {d \in Ids : In(page, d, "Insert") /\ ~In(page, d, "Delete")}
Destroyed(page) ==
    {d \in Ids : In(page, d, "Delete") /\ ~In(page, d, "Insert")}
Updated(page) ==
    {d \in Ids : /\ In(page, d, "Update")
                 /\ ~In(page, d, "Insert") /\ ~In(page, d, "Delete")}

\* Mutants: the state is the counter, or one past the page.
StateFromCounter(n, page) == counter
StateBeyondPage(n, page) == IF page = {} THEN n ELSE Max(page) + 1

\* The state after a page is the last id on it.
NewState(n, page) == IF page = {} THEN n ELSE Max(page)

-----------------------------------------------------------------------------
(* JMAP clients.  Email/get reads the records, then the counter.  A call   *)
(* without ids lists at most MAX_OBJECTS_IN_GET; the mailbox is taken to   *)
(* fit.                                                                    *)

EmailGet(c) ==
    /\ client[c].proto # "qresync" /\ client[c].call = "none"
    /\ client' = [client EXCEPT ![c].call = "get", ![c].read = docs]
    /\ UNCHANGED <<counter, docs, log, vanished, floor, vfloor, writer,
                   revived, raced>>

\* A client that starts afresh replaces all it knew.  A race that met it
\* before stays on record (raced), since a batch may still be about to commit
\* an id below the state it is given here: what is said of clients outside
\* raced is not said of it again.
EmailGetState(c) ==
    /\ client[c].call = "get"
    /\ client' = [client EXCEPT ![c].call = "none", ![c].since = counter,
                                ![c].known = client[c].read,
                                ![c].read = Nothing, ![c].synced = TRUE]
    /\ UNCHANGED <<counter, docs, log, vanished, floor, vfloor, writer,
                   revived, raced>>

\* The floor is read before the log is.  A floor that cannot be read refuses
\* nobody (unwrap_or(true)), and a client that is behind it has met a race.
AskFloor(c, next) ==
    \/ /\ client' = IF CanCalculate(client[c].since)
                    THEN [client EXCEPT ![c].call = next]
                    ELSE [client EXCEPT ![c].synced = FALSE]
       /\ UNCHANGED raced
    \/ /\ ~CanCalculate(client[c].since)
       /\ client' = [client EXCEPT ![c].call = next]
       /\ raced' = raced \cup {c}

\* collection_changes.
EmailChanges(c) ==
    /\ client[c].proto = "changes" /\ client[c].call = "none" /\ client[c].synced
    /\ AskFloor(c, "page")
    /\ UNCHANGED <<counter, docs, log, vanished, floor, vfloor, writer, revived>>

\* A log that cannot be read is an empty page (unwrap_or_default).
EmailChangesPage(c, max) ==
    /\ client[c].call = "page"
    /\ \E page \in {ChangesPage(client[c].since, max), {}} :
         client' = [client EXCEPT
             ![c].call = "fetch",
             ![c].since = NewState(client[c].since, page),
             ![c].todo = Created(page) \cup Updated(page),
             ![c].known = [d \in Ids |->
                IF d \in Destroyed(page) THEN 0 ELSE client[c].known[d]]]
    /\ UNCHANGED <<counter, docs, log, vanished, floor, vfloor, writer,
                   revived, raced>>

\* The client gets what was created or updated by id.
FetchChanged(c) ==
    /\ client[c].call = "fetch"
    /\ client' = [client EXCEPT
         ![c].call = "none", ![c].todo = {},
         ![c].known = [d \in Ids |->
            IF d \in client[c].todo THEN docs[d] ELSE client[c].known[d]]]
    /\ UNCHANGED <<counter, docs, log, vanished, floor, vfloor, writer,
                   revived, raced>>

\* Email/queryChanges: floor, log, query and counter are four reads.
QueryChanges(c) ==
    /\ client[c].proto = "query" /\ client[c].call = "none" /\ client[c].synced
    /\ AskFloor(c, "entries")
    /\ UNCHANGED <<counter, docs, log, vanished, floor, vfloor, writer, revived>>

\* The entry that decides whether d still counts as changed.
LastOf(page, d) == CHOOSE i \in page :
    log[i].doc = d /\ \A k \in page : log[k].doc = d => k <= i

\* Mutant: deleted messages stay in the result.
RemovedUpdates(page) == {d \in Ids : In(page, d, "Update")}

Removed(page) ==
    {d \in Ids : In(page, d, "Update") \/ In(page, d, "Delete")}

\* Here an unreadable log is no change either, but the new state is the
\* counter all the same: what the log held is passed over.
QueryEntries(c) ==
    /\ client[c].call = "entries"
    /\ \E page \in {Since(client[c].since), {}} :
         LET touched == {log[i].doc : i \in page}
         IN  /\ client' = [client EXCEPT
                   ![c].call = "ids",
                   ![c].todo = {d \in touched :
                                  log[LastOf(page, d)].kind # "Delete"},
                   ![c].gone = Removed(page)]
             /\ raced' = IF page = Since(client[c].since) THEN raced
                         ELSE raced \cup {c}
    /\ UNCHANGED <<counter, docs, log, vanished, floor, vfloor, writer, revived>>

QueryIds(c) ==
    /\ client[c].call = "ids"
    /\ client' = [client EXCEPT
         ![c].call = "state",
         ![c].read = [d \in Ids |->
            IF d \in client[c].todo /\ docs[d] # 0 THEN docs[d]
            ELSE IF d \in client[c].gone THEN 0 ELSE client[c].known[d]]]
    /\ UNCHANGED <<counter, docs, log, vanished, floor, vfloor, writer,
                   revived, raced>>

QueryState(c) ==
    /\ client[c].call = "state"
    /\ client' = [client EXCEPT ![c].call = "none", ![c].since = counter,
                                ![c].known = client[c].read,
                                ![c].read = Nothing,
                                ![c].todo = {}, ![c].gone = {}]
    /\ UNCHANGED <<counter, docs, log, vanished, floor, vfloor, writer,
                   revived, raced>>

-----------------------------------------------------------------------------
(* IMAP clients.  SELECT reads HIGHESTMODSEQ first, QRESYNC then replays   *)
(* the tombstones, the modification sequences and the flags.  No floor is  *)
(* consulted, so a client that is behind one has met a race as well.       *)

\* highest_modseq_value: never 0, so an account without any change answers
\* 1, which is the id its first document will take and no change ever has.
HighestModseq == IF counter > 1 THEN counter ELSE 1

Select(c) ==
    /\ client[c].proto = "qresync" /\ client[c].call = "none"
    /\ client' = [client EXCEPT ![c].highest = HighestModseq,
                    ![c].call = IF client[c].synced THEN "vanished" ELSE "flags"]
    /\ raced' = IF client[c].synced
                   /\ (client[c].since < floor \/ client[c].since < vfloor)
                THEN raced \cup {c} ELSE raced
    /\ UNCHANGED <<counter, docs, log, vanished, floor, vfloor, writer, revived>>

ReplayVanished(c) ==
    /\ client[c].call = "vanished"
    /\ LET uids == {vanished[i] : i \in {k \in Ids : k > client[c].since}}
       IN  client' = [client EXCEPT
             ![c].call = "modseqs",
             ![c].known = [d \in Ids |-> IF d \in uids THEN 0
                                         ELSE client[c].known[d]]]
    /\ UNCHANGED <<counter, docs, log, vanished, floor, vfloor, writer,
                   revived, raced>>

\* Mutant: the first entry of a message counts.
FirstModseq(d) ==
    LET ids == {i \in Ids : log[i].doc = d}
    IN  IF ids = {} THEN 1 ELSE Min(ids)

\* modseq_map: 1 for a message the log no longer names.
Modseq(d) ==
    LET ids == {i \in Ids : log[i].doc = d}
    IN  IF ids = {} THEN 1 ELSE Max(ids)

ReadModseqs(c) ==
    /\ client[c].call = "modseqs"
    /\ client' = [client EXCEPT
         ![c].call = "flags",
         ![c].todo = {d \in Ids : Modseq(d) > client[c].since}]
    /\ UNCHANGED <<counter, docs, log, vanished, floor, vfloor, writer,
                   revived, raced>>

\* The FETCH lines of the replay; without a state, of the whole mailbox.
ReplayFlags(c) ==
    /\ client[c].call = "flags"
    /\ client' = [client EXCEPT
         ![c].call = "none", ![c].since = client[c].highest,
         ![c].highest = 0, ![c].todo = {}, ![c].synced = TRUE,
         ![c].known = [d \in Ids |->
            IF ~client[c].synced THEN docs[d]
            ELSE IF d \in client[c].todo /\ docs[d] # 0 THEN docs[d]
            ELSE client[c].known[d]]]
    /\ UNCHANGED <<counter, docs, log, vanished, floor, vfloor, writer,
                   revived, raced>>

-----------------------------------------------------------------------------
\* A restart loses every operation that has not committed; its ids stay
\* drawn.  Calls under way end without an answer.
Restart ==
    /\ writer' = [w \in Writers |-> Idle]
    /\ client' = [c \in Clients |-> [client[c] EXCEPT
                    !.call = "none", !.todo = {}, !.gone = {},
                    !.read = Nothing, !.highest = 0,
                    !.synced = @ /\ client[c].call \in {"none", "get", "page",
                                   "entries", "ids", "state"}]]
    /\ UNCHANGED <<counter, docs, log, vanished, floor, vfloor, revived, raced>>

NewClient(p) == [proto |-> p, since |-> 0, known |-> Nothing, call |-> "none",
              read |-> Nothing, todo |-> {}, gone |-> {},
              highest |-> 0, synced |-> FALSE]

Init ==
    /\ counter = 0
    /\ docs = [d \in Ids |-> 0]
    /\ log = [i \in Ids |-> NoEntry]
    /\ vanished = [i \in Ids |-> 0]
    /\ floor = 0 /\ vfloor = 0
    /\ writer = [w \in Writers |-> Idle]
    /\ \E p \in [Clients -> Protocols] :
         client = [c \in Clients |-> NewClient(p[c])]
    /\ revived = {} /\ raced = {}

WriterNext(w) ==
    \/ StartInsert(w) \/ RecordVanishedOp(w) \/ RecordOp(w) \/ Commit(w)
    \/ \E d \in Ids, kind \in Kinds : Load(w, d, kind)

ClientNext(c) ==
    \/ EmailGet(c) \/ EmailGetState(c) \/ EmailChanges(c) \/ FetchChanged(c)
    \/ \E max \in Pages : EmailChangesPage(c, max)
    \/ QueryChanges(c) \/ QueryEntries(c) \/ QueryIds(c) \/ QueryState(c)
    \/ Select(c) \/ ReplayVanished(c) \/ ReadModseqs(c) \/ ReplayFlags(c)

Next ==
    \/ \E w \in Writers : WriterNext(w)
    \/ \E c \in Clients : ClientNext(c)
    \/ PruneEmail \/ PruneVanished \/ Restart

Spec == Init /\ [][Next]_vars

-----------------------------------------------------------------------------
\* Every variable has its type; no client, and no floor, is ahead of the
\* counter, or changes between the two would never be reported.  The one
\* exception is an IMAP client of an account that had no change yet: it was
\* told 1 (highest_modseq_value), and nothing is ever logged or buried there.
TypeOK ==
    /\ counter \in 0..MaxId
    /\ docs \in [Ids -> 0..MaxId]
    /\ log \in [Ids -> Entry]
    /\ vanished \in [Ids -> 0..MaxId]
    /\ floor \in 0..MaxId /\ vfloor \in 0..MaxId
    /\ writer \in [Writers -> Writer]
    /\ client \in [Clients -> Client]
    /\ \A c \in Clients :
         \/ client[c].since <= counter
         \/ client[c].proto = "qresync" /\ client[c].since = 1
    /\ log[1] = NoEntry /\ vanished[1] = 0
    /\ floor <= counter /\ vfloor <= counter
    /\ revived \subseteq Ids /\ raced \subseteq Clients

\* The state a client holds still leads to d: the log has an entry for d
\* after it, or the next call will say that changes cannot be calculated.
Leads(c, d) ==
    \/ \E i \in Since(client[c].since) : log[i].doc = d
    \/ client[c].since < floor

\* No change is lost on a JMAP client, however its pages, the writers and
\* the prunes interleave: unless one of the named races met it, whatever it
\* believes wrongly of a message is still ahead of the state it holds.
MailSync ==
    \A c \in Clients \ raced :
      client[c].proto = "changes" /\ client[c].synced =>
        \A d \in Ids \ (revived \cup client[c].todo) :
            client[c].known[d] # docs[d] => Leads(c, d)

\* The same for a client of Email/queryChanges, which knows only whether a
\* message is in the result.
QuerySync ==
    \A c \in Clients \ raced :
      client[c].proto = "query" /\ client[c].synced =>
        \A d \in Ids \ revived :
            (client[c].known[d] = 0) # (docs[d] = 0) => Leads(c, d)

\* And for an IMAP client between two QRESYNC selections: what it has wrong
\* of a message that exists has a log entry after its modseq, and of one
\* that is gone a tombstone.
QresyncSync ==
    \A c \in Clients \ raced :
      client[c].proto = "qresync" /\ client[c].synced
        /\ client[c].call = "none" =>
        \A d \in Ids \ revived : client[c].known[d] # docs[d] =>
            IF docs[d] # 0 THEN Leads(c, d)
            ELSE \/ \E i \in Ids : i > client[c].since /\ vanished[i] = d
                 \/ client[c].since < vfloor

\* Whatever the log has forgotten is at or below its floor: the last write
\* of every record is either still in the log or refused to clients whose
\* state is older (prune raises the floor in the batch that deletes).
FloorCoversPruned ==
    \A d \in Ids : docs[d] # 0 =>
        log[docs[d]].doc = d \/ docs[d] <= floor
=============================================================================
