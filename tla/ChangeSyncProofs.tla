-------------------------- MODULE ChangeSyncProofs --------------------------
(* No change of the log is lost on a client that follows it: the proofs of    *)
(* TypeOK, FloorCoversPruned, MailSync, QuerySync and QresyncSync.            *)
EXTENDS ChangeSync, FiniteSetTheorems, WellFoundedInduction, TLAPS

----------------------------------------------------------------------------
(* What the log says of the records.                                         *)

(* d was handed out before now and is in no insert still to commit.          *)
Born(d) ==
    d <= counter /\ \A w \in Writers : writer[w].kind = "Insert" => writer[w].doc # d

(* A writer that draws an id has a document; what it has drawn nobody has     *)
(* written yet.                                                               *)
WriterOK(w) ==
    LET wr == writer[w]
    IN  /\ wr = Idle \/ (wr.kind \in Kinds /\ wr.doc \in Ids)
        /\ wr.doc <= counter /\ wr.vid <= counter /\ wr.id <= counter
        /\ wr.kind \in {"Update", "Delete"} => Born(wr.doc)
        /\ wr.id # 0 => log[wr.id] = NoEntry
        /\ wr.vid # 0 => vanished[wr.vid] = 0
        /\ wr.kind = "Delete" /\ wr.id # 0 => wr.vid # 0
        /\ wr.vid # 0 => wr.kind = "Delete"
        /\ wr.id # 1 /\ wr.vid # 1

(* No two writers share an id, and no two inserts a document.                 *)
DrawnApart ==
    \A v, w \in Writers : v # w =>
        /\ writer[v].id # 0 => writer[v].id # writer[w].id
        /\ writer[v].vid # 0 => writer[v].vid # writer[w].vid
        /\ writer[v].kind = "Insert" => writer[v].doc # writer[w].doc

(* Whatever is written carries ids drawn before, of documents inserted before.*)
WrittenBefore ==
    /\ \A d \in Ids : docs[d] <= counter /\ (docs[d] # 0 => Born(d))
    /\ \A i \in Ids : log[i] # NoEntry => i <= counter /\ Born(log[i].doc)
    /\ \A i \in Ids : vanished[i] # 0 => i <= counter /\ Born(vanished[i])

(* The entry of an insert comes before every other of the document, those     *)
(* still to commit included.                                                  *)
InsertFirst ==
    \A i \in Ids : log[i].kind = "Insert" =>
        /\ \A k \in Ids : log[k].doc = log[i].doc /\ k # i => i < k
        /\ \A w \in Writers : writer[w].doc = log[i].doc /\ writer[w].id # 0 => i < writer[w].id

(* A delete in the log, or a tombstone, is the end of a document, unless an   *)
(* update that had loaded the record revived it.                              *)
DeleteFinal ==
    \A d \in Ids \ revived, i \in Ids :
        log[i] = [doc |-> d, kind |-> "Delete"] \/ vanished[i] = d => docs[d] = 0

(* Of a document that is gone the log does not name the insert alone.         *)
InsertUndone ==
    \A d \in Ids, i \in Ids :
        log[i] = [doc |-> d, kind |-> "Insert"] /\ docs[d] = 0 =>
            \E k \in Ids : log[k] = [doc |-> d, kind |-> "Delete"]

LogInv ==
    /\ TypeOK /\ (\A w \in Writers : WriterOK(w)) /\ DrawnApart /\ WrittenBefore
    /\ InsertFirst /\ DeleteFinal /\ InsertUndone /\ FloorCoversPruned

----------------------------------------------------------------------------
(* What a client knows, as long as no race has met it.                       *)

ClientShape(c) ==
    LET cl == client[c]
    IN  /\ cl.proto = "changes" => cl.call \in {"none", "get", "page", "fetch"}
        /\ cl.proto = "query" => cl.call \in {"none", "get", "entries", "ids", "state"}
        /\ cl.proto = "qresync" => cl.call \in {"none", "vanished", "modseqs", "flags"}
        /\ cl.highest <= counter \/ cl.highest = 1
        /\ cl.call \in {"vanished", "modseqs", "flags"} /\ cl.synced => cl.since <= cl.highest
        /\ cl.proto = "changes" /\ cl.call # "fetch" => cl.todo = {}
        /\ cl.call \in {"page", "entries"} => cl.synced

(* What was read before the state, and the floor before the log, still hold.  *)
ReadHolds(c) ==
    LET cl == client[c]
    IN  /\ cl.call = "get" => cl.read = docs
        /\ cl.call \in {"page", "entries", "vanished", "modseqs"} => cl.since >= floor
        /\ cl.call = "vanished" => cl.since >= vfloor

(* A message the client knows, or is about to fetch, was inserted at or       *)
(* before its state.                                                          *)
KnownBorn(c) ==
    \A d \in Ids : client[c].known[d] # 0 \/ d \in client[c].todo =>
        /\ Born(d)
        /\ \A i \in Ids : log[i] = [doc |-> d, kind |-> "Insert"] => i <= client[c].since

(* The log, or the tombstones, lead from the id n to d. *)
Entered(n, d) == (\E i \in Ids : i > n /\ log[i].doc = d) \/ n < floor
Buried(n, d) == (\E i \in Ids : i > n /\ vanished[i] = d) \/ n < vfloor

ChangesOK(c) ==
    client[c].proto = "changes" /\ client[c].synced =>
        /\ KnownBorn(c)
        /\ \A d \in Ids \ (revived \cup client[c].todo) :
             client[c].known[d] # docs[d] => Entered(client[c].since, d)

(* What QueryIds will make of a message. *)
Settles(c, d) ==
    IF d \in client[c].todo /\ docs[d] # 0 THEN TRUE
    ELSE IF d \in client[c].gone THEN docs[d] = 0
    ELSE client[c].known[d] = 0 <=> docs[d] = 0

QueryOK(c) ==
    /\ client[c].proto = "query" /\ client[c].synced =>
         \A d \in Ids \ revived :
             ~(client[c].known[d] = 0 <=> docs[d] = 0) => Entered(client[c].since, d)
    /\ client[c].call = "ids" => \A d \in Ids \ revived : Settles(c, d)
    /\ client[c].call = "state" =>
         \A d \in Ids \ revived : client[c].read[d] = 0 <=> docs[d] = 0

QresyncOK(c) ==
    client[c].proto = "qresync" /\ client[c].synced =>
        \A d \in Ids \ revived : client[c].known[d] # docs[d] =>
            /\ docs[d] # 0 /\ client[c].call # "flags" => Entered(client[c].since, d)
            /\ docs[d] # 0 /\ client[c].call = "flags" =>
                 d \in client[c].todo \/ Entered(client[c].highest, d)
            /\ docs[d] = 0 /\ client[c].call \notin {"modseqs", "flags"} =>
                 Buried(client[c].since, d)
            /\ docs[d] = 0 /\ client[c].call \in {"modseqs", "flags"} =>
                 Buried(client[c].highest, d)

ClientOK(c) ==
    /\ ClientShape(c)
    /\ c \notin raced => ReadHolds(c) /\ ChangesOK(c) /\ QueryOK(c) /\ QresyncOK(c)

SyncInv == LogInv /\ \A c \in Clients : ClientOK(c)

----------------------------------------------------------------------------
(* Lemmas about the log.                                                     *)

LEMMA FirstId == 1 \in Ids
BY SyncAssumption DEF Ids

LEMMA IdType == MaxId \in Nat /\ Ids \subseteq Nat /\ (\A i \in Ids : i > 0 /\ i <= MaxId)
BY SyncAssumption DEF Ids

(* A set of ids has a greatest one. *)
LEMMA MaxIs ==
    ASSUME NEW S \in SUBSET Ids, S # {}
    PROVE  Max(S) \in S /\ \A y \in S : y <= Max(S)
<1>. DEFINE D == {MaxId - y : y \in S}
<1>1. D \subseteq Nat /\ D # {}
  <2>1. \A y \in S : MaxId - y \in Nat
    BY IdType
  <2>. QED  BY <2>1
<1>2. PICK n \in D : \A m \in D : n <= m
  <2>. DEFINE R == {ss \in Nat \X Nat : ss[1] < ss[2]}
  <2>1. IsWellFoundedOn(R, Nat)
    BY NatLessThanWellFounded DEF OpToRel
  <2>. HIDE DEF D, R
  <2>2. PICK n \in D : \A m \in D : ~(<<m, n>> \in R)
    BY <1>1, <2>1, WFMin
  <2>3. \A m \in D : <<m, n>> \in Nat \X Nat /\ <<m, n>>[1] = m /\ <<m, n>>[2] = n
    BY <1>1
  <2>4. \A m \in D : ~(m < n)
    BY <2>2, <2>3 DEF R
  <2>. QED  BY <1>1, <2>4
<1>3. PICK x \in S : n = MaxId - x
  BY <1>2
<1>4. \A y \in S : x >= y
  <2>. TAKE y \in S
  <2>1. MaxId - y \in D /\ y \in Nat /\ x \in Nat
    BY IdType
  <2>2. MaxId - x <= MaxId - y
    BY <1>2, <1>3, <2>1
  <2>. QED  BY <2>1, <2>2, IdType
<1>5. Max(S) \in S /\ \A y \in S : Max(S) >= y
  BY <1>3, <1>4 DEF Max
<1>. QED  BY <1>5, IdType

(* A page is the beginning of what follows the state: what it leaves out is   *)
(* after all of it.                                                           *)
LEMMA PageFirst ==
    ASSUME NEW n \in Nat, NEW max \in Nat, NEW i \in Since(n), NEW k \in ChangesPage(n, max),
           i \notin ChangesPage(n, max)
    PROVE  k < i
<1>1. Since(n) \subseteq Ids /\ k \in Since(n) /\ i \in Nat /\ k \in Nat
  BY IdType DEF Since, ChangesPage
<1>. DEFINE Before(x) == {y \in Since(n) : y < x}
<1>2. IsFiniteSet(Before(k)) /\ IsFiniteSet(Before(i))
  <2>1. IsFiniteSet(Ids)
    BY FS_Interval, IdType DEF Ids
  <2>2. Before(k) \in SUBSET Ids /\ Before(i) \in SUBSET Ids
    BY <1>1
  <2>. QED  BY <2>1, <2>2, FS_Subset
<1>3. Cardinality(Before(k)) \in Nat /\ Cardinality(Before(i)) \in Nat
  BY <1>2, FS_CardinalityType
<1>4. Cardinality(Before(k)) < max /\ ~(Cardinality(Before(i)) < max)
  BY DEF ChangesPage
<1>5. ASSUME i <= k PROVE FALSE
  <2>1. Before(i) \in SUBSET Before(k)
    <3>1. \A y \in Since(n) : y \in Nat
      BY <1>1, IdType
    <3>2. \A y \in Nat : y < i => y < k
      BY <1>1, <1>5
    <3>. QED  BY <3>1, <3>2
  <2>. HIDE DEF Before
  <2>2. Cardinality(Before(i)) <= Cardinality(Before(k))
    BY <1>2, <2>1, FS_Subset
  <2>. QED  BY <1>3, <1>4, <2>2
<1>. QED  BY <1>1, <1>5

----------------------------------------------------------------------------
(* The writers up to the commit: ids are drawn, nothing is written.          *)

LEMMA BornStable ==
    ASSUME NEW d \in Nat, Born(d), counter \in Nat, counter' \in Nat, counter <= counter',
           \A w \in Writers : writer'[w].kind = "Insert" =>
               \/ writer'[w].doc \in Nat /\ writer'[w].doc > counter
               \/ writer[w].kind = "Insert" /\ writer'[w].doc = writer[w].doc
    PROVE  Born(d)'
<1>1. d <= counter'
  BY DEF Born
<1>2. ASSUME NEW w \in Writers, writer'[w].kind = "Insert" PROVE writer'[w].doc # d
  BY <1>2 DEF Born
<1>. QED  BY <1>1, <1>2 DEF Born

LEMMA LogTypes ==
    ASSUME LogInv
    PROVE  /\ counter \in Nat /\ counter \in 0..MaxId /\ MaxId \in Nat
           /\ \A w \in Writers : /\ writer[w] \in Writer /\ writer[w].doc \in Nat
                                 /\ writer[w].vid \in Nat /\ writer[w].id \in Nat
           /\ \A i \in Ids : /\ i \in Nat /\ docs[i] \in Nat /\ vanished[i] \in Nat
                             /\ log[i] \in Entry /\ log[i].doc \in Nat
           /\ floor \in Nat /\ vfloor \in Nat
<1>1. /\ counter \in 0..MaxId /\ MaxId \in Nat /\ floor \in 0..MaxId /\ vfloor \in 0..MaxId
      /\ writer \in [Writers -> Writer] /\ docs \in [Ids -> 0..MaxId]
      /\ log \in [Ids -> Entry] /\ vanished \in [Ids -> 0..MaxId]
  BY IdType DEF LogInv, TypeOK
<1>2. \A w \in Writers : /\ writer[w] \in Writer /\ writer[w].doc \in Nat
                         /\ writer[w].vid \in Nat /\ writer[w].id \in Nat
  <2>1. \A w \in Writers : writer[w] \in Writer
    BY <1>1
  <2>. QED  BY <1>1, <2>1 DEF Writer
<1>3. \A i \in Ids : log[i] \in Entry /\ log[i].doc \in Nat
  <2>1. \A e \in Entry : e.doc \in Nat
    BY IdType DEF Entry, NoEntry
  <2>. QED  BY <1>1, <2>1
<1>4. \A i \in Ids : i \in Nat /\ docs[i] \in Nat /\ vanished[i] \in Nat
  BY <1>1, IdType
<1>. QED  BY <1>1, <1>2, <1>3, <1>4

LEMMA DrawStep ==
    ASSUME LogInv, NEW w \in Writers, NEW new \in Writer, writer' = [writer EXCEPT ![w] = new],
           UNCHANGED <<docs, log, vanished, floor, vfloor, client, revived, raced>>,
           counter' \in {counter, counter + 1}, counter' <= MaxId,
           new.kind \in Kinds, new.doc \in Ids, new.doc <= counter',
           new.kind = "Insert" => new.doc = counter + 1 \/
                                  (writer[w].kind = "Insert" /\ new.doc = writer[w].doc),
           new.kind \in {"Update", "Delete"} => Born(new.doc),
           new.id = 0 \/ (new.id = counter + 1 /\ counter' = counter + 1),
           new.vid \in {0, writer[w].vid} \/ (new.vid = counter + 1 /\ counter' = counter + 1),
           new.kind = "Delete" /\ new.id # 0 => new.vid # 0,
           new.vid # 0 => new.kind = "Delete",
           new.id # 1, new.vid # 1
    PROVE  LogInv' /\ counter <= counter' /\ counter' \in Nat /\ \A d \in Nat : Born(d) => Born(d)'
<1>1. /\ counter \in Nat /\ counter' \in Nat /\ counter' \in 0..MaxId /\ counter <= counter'
      /\ \A v \in Writers : writer[v].doc \in Nat /\ writer[v].vid \in Nat /\ writer[v].id \in Nat
      /\ \A i \in Ids : /\ i \in Nat /\ docs[i] \in Nat /\ vanished[i] \in Nat
                        /\ log[i] \in Entry /\ log[i].doc \in Nat
      /\ new.doc \in Nat /\ new.vid \in Nat /\ new.id \in Nat
  <2>1. new.doc \in Nat /\ new.vid \in Nat /\ new.id \in Nat
    BY IdType DEF Writer
  <2>2. counter \in Nat /\ MaxId \in Nat
    BY LogTypes
  <2>3. counter' \in Nat /\ counter' \in 0..MaxId /\ counter <= counter'
    BY <2>2
  <2>. QED  BY <2>1, <2>2, <2>3, LogTypes
<1>2. writer'[w] = new /\ \A v \in Writers : v # w => writer'[v] = writer[v]
  BY DEF LogInv, TypeOK
<1>3. TypeOK'
  <2>1. writer' \in [Writers -> Writer]
    BY DEF LogInv, TypeOK
  <2>2. (\A c \in Clients : client[c].since <= counter' \/ (client[c].proto = "qresync" /\ client[c].since = 1)) /\ floor <= counter' /\ vfloor <= counter'
    <3>1. \A c \in Clients : client[c].since \in Nat
      <4>1. \A c \in Clients : client[c] \in Client
        BY DEF LogInv, TypeOK
      <4>. QED  BY <4>1, IdType DEF Client
    <3>2. floor \in Nat /\ vfloor \in Nat
      BY LogTypes
    <3>. QED  BY <1>1, <3>1, <3>2 DEF LogInv, TypeOK
  <2>. QED  BY <1>1, <2>1, <2>2 DEF LogInv, TypeOK
<1>4. ASSUME NEW d \in Nat, Born(d) PROVE Born(d)'
  <2>1. \A v \in Writers : writer'[v].kind = "Insert" =>
               \/ writer'[v].doc \in Nat /\ writer'[v].doc > counter
               \/ writer[v].kind = "Insert" /\ writer'[v].doc = writer[v].doc
    BY <1>1, <1>2
  <2>. QED  BY <1>1, <1>4, <2>1, BornStable
<1>5. ASSUME NEW v \in Writers PROVE WriterOK(v)'
  <2>1. CASE v # w
    <3>1. WriterOK(v) /\ writer'[v] = writer[v]
      BY <1>2, <2>1 DEF LogInv
    <3>2. writer[v].doc <= counter' /\ writer[v].vid <= counter' /\ writer[v].id <= counter'
      BY <1>1, <3>1 DEF WriterOK
    <3>. QED  BY <1>1, <1>4, <3>1, <3>2 DEF WriterOK
  <2>2. CASE v = w
    <3>1. WriterOK(w) /\ writer'[v] = new
      BY <1>2, <2>2 DEF LogInv
    <3>2. new.id <= counter' /\ new.vid <= counter'
      BY <1>1, <3>1 DEF WriterOK
    <3>3. new.id # 0 => log[new.id] = NoEntry
      <4>1. new.id # 0 => new.id \in Ids /\ ~(new.id <= counter)
        BY <1>1, IdType DEF Ids
      <4>. QED  BY <4>1 DEF LogInv, WrittenBefore
    <3>4. new.vid # 0 => vanished[new.vid] = 0
      <4>1. CASE new.vid \in {0, writer[w].vid}
        BY <3>1, <4>1 DEF WriterOK
      <4>2. CASE new.vid = counter + 1 /\ counter' = counter + 1
        <5>1. new.vid \in Ids /\ ~(new.vid <= counter)
          BY <1>1, <4>2, IdType DEF Ids
        <5>. QED  BY <5>1 DEF LogInv, WrittenBefore
      <4>. QED  BY <4>1, <4>2
    <3>5. new.kind \in {"Update", "Delete"} => Born(new.doc)'
      BY <1>1, <1>4
    <3>. QED  BY <3>1, <3>2, <3>3, <3>4, <3>5 DEF WriterOK
  <2>. QED  BY <2>1, <2>2
<1>6. DrawnApart'
  <2>. SUFFICES ASSUME NEW u \in Writers, NEW v \in Writers, u # v
                PROVE  /\ writer'[u].id # 0 => writer'[u].id # writer'[v].id
                       /\ writer'[u].vid # 0 => writer'[u].vid # writer'[v].vid
                       /\ writer'[u].kind = "Insert" => writer'[u].doc # writer'[v].doc
    BY DEF DrawnApart
  <2>1. /\ writer[u].id # 0 => writer[u].id # writer[v].id
        /\ writer[v].id # 0 => writer[v].id # writer[u].id
        /\ writer[u].vid # 0 => writer[u].vid # writer[v].vid
        /\ writer[v].vid # 0 => writer[v].vid # writer[u].vid
        /\ writer[u].kind = "Insert" => writer[u].doc # writer[v].doc
        /\ writer[v].kind = "Insert" => writer[v].doc # writer[u].doc
    BY DEF LogInv, DrawnApart
  <2>2. WriterOK(u) /\ WriterOK(v)
    BY DEF LogInv
  <2>3. /\ writer[u].doc <= counter /\ writer[u].vid <= counter /\ writer[u].id <= counter
        /\ writer[v].doc <= counter /\ writer[v].vid <= counter /\ writer[v].id <= counter
    BY <2>2 DEF WriterOK
  <2>4. CASE u = w
    <3>1. writer'[u] = new /\ writer'[v] = writer[v]
      BY <1>2, <2>4
    <3>. QED  BY <1>1, <2>1, <2>3, <2>4, <3>1
  <2>5. CASE v = w
    <3>1. writer'[v] = new /\ writer'[u] = writer[u]
      BY <1>2, <2>5
    <3>2. writer[u].kind = "Insert" => writer[u].doc # new.doc
      <4>1. new.kind \in {"Update", "Delete"} /\ writer[u].kind = "Insert" => writer[u].doc # new.doc
        BY DEF Born
      <4>2. new.kind = "Insert" /\ writer[u].kind = "Insert" => writer[u].doc # new.doc
        BY <1>1, <2>1, <2>3, <2>5
      <4>. QED  BY <4>1, <4>2 DEF Kinds
    <3>. QED  BY <1>1, <2>1, <2>3, <2>5, <3>1, <3>2
  <2>6. CASE u # w /\ v # w
    BY <1>2, <2>1, <2>6
  <2>. QED  BY <2>4, <2>5, <2>6
<1>7. WrittenBefore'
  <2>1. /\ \A d \in Ids : docs[d] <= counter /\ (docs[d] # 0 => Born(d))
        /\ \A i \in Ids : log[i] # NoEntry => i <= counter /\ Born(log[i].doc)
        /\ \A i \in Ids : vanished[i] # 0 => i <= counter /\ Born(vanished[i])
    BY DEF LogInv, WrittenBefore
  <2>2. \A d \in Ids : docs[d] <= counter' /\ (docs[d] # 0 => Born(d)')
    BY <1>1, <1>4, <2>1
  <2>3. \A i \in Ids : log[i] # NoEntry => i <= counter' /\ Born(log[i].doc)'
    BY <1>1, <1>4, <2>1
  <2>4. \A i \in Ids : vanished[i] # 0 => i <= counter' /\ Born(vanished[i])'
    BY <1>1, <1>4, <2>1
  <2>. QED  BY <2>2, <2>3, <2>4 DEF WrittenBefore
<1>8. InsertFirst'
  <2>. SUFFICES ASSUME NEW i \in Ids, log[i].kind = "Insert"
                PROVE  /\ \A k \in Ids : log[k].doc = log[i].doc /\ k # i => i < k
                       /\ \A v \in Writers : writer'[v].doc = log[i].doc /\ writer'[v].id # 0 =>
                                                i < writer'[v].id
    BY DEF InsertFirst
  <2>1. /\ \A k \in Ids : log[k].doc = log[i].doc /\ k # i => i < k
        /\ \A v \in Writers : writer[v].doc = log[i].doc /\ writer[v].id # 0 => i < writer[v].id
    BY DEF LogInv, InsertFirst
  <2>2. i <= counter
    BY DEF LogInv, WrittenBefore, NoEntry
  <2>3. new.id # 0 => i < new.id
    BY <1>1, <2>2
  <2>. QED  BY <1>2, <2>1, <2>3
<1>9. DeleteFinal' /\ InsertUndone' /\ FloorCoversPruned'
  BY DEF LogInv, DeleteFinal, InsertUndone, FloorCoversPruned
<1>. QED  BY <1>1, <1>3, <1>4, <1>5, <1>6, <1>7, <1>8, <1>9 DEF LogInv

(* The client side of a step that only draws ids. *)
Untouched == UNCHANGED <<docs, log, vanished, floor, vfloor, client, revived, raced>>

Drawing(w) ==
    \/ StartInsert(w) \/ RecordVanishedOp(w) \/ RecordOp(w)
    \/ \E d \in Ids, kind \in Kinds : Load(w, d, kind)

LEMMA DrawingStep ==
    ASSUME LogInv, NEW w \in Writers, Drawing(w)
    PROVE  /\ LogInv' /\ Untouched /\ counter <= counter' /\ counter' \in Nat
           /\ \A d \in Nat : Born(d) => Born(d)'
<1>0. /\ counter \in Nat /\ MaxId \in Nat /\ writer[w] \in Writer /\ WriterOK(w)
      /\ writer \in [Writers -> Writer] /\ writer[w].doc \in Nat
  BY LogTypes DEF LogInv, TypeOK
<1>1. Untouched
  BY DEF Drawing, StartInsert, RecordVanishedOp, RecordOp, Load, Untouched
<1>2. CASE StartInsert(w)
  <2>. DEFINE new == [Idle EXCEPT !.kind = "Insert", !.doc = counter + 1]
  <2>1. counter < MaxId /\ counter' = counter + 1 /\ writer' = [writer EXCEPT ![w] = new]
    BY <1>2 DEF StartInsert
  <2>2. counter + 1 \in Ids /\ counter + 1 \in 0..MaxId /\ 0 \in 0..MaxId /\ counter' <= MaxId
    BY <1>0, <2>1 DEF Ids
  <2>3. Idle \in Writer /\ Idle.id = 0 /\ Idle.vid = 0
    BY <2>2 DEF Idle, Writer
  <2>4. new \in Writer /\ new.kind = "Insert" /\ new.doc = counter + 1 /\ new.id = 0 /\ new.vid = 0
    BY <2>2, <2>3 DEF Writer, Kinds
  <2>. HIDE DEF new
  <2>5. new.doc <= counter' /\ new.doc \in Ids /\ new.kind \in Kinds
    BY <1>0, <2>1, <2>2, <2>4 DEF Kinds
  <2>6. new.id # 1 /\ new.vid # 1
    BY <2>4
  <2>. QED  BY <1>1, <2>1, <2>2, <2>4, <2>5, <2>6, DrawStep DEF Untouched
<1>3. CASE RecordVanishedOp(w)
  <2>. DEFINE new == [writer[w] EXCEPT !.vid = counter + 1]
  <2>1. /\ counter < MaxId /\ counter' = counter + 1 /\ writer[w].kind = "Delete"
        /\ writer[w].vid = 0
    BY <1>3 DEF RecordVanishedOp
  <2>2. writer' = [writer EXCEPT ![w] = new]
    BY <1>0, <1>3 DEF RecordVanishedOp
  <2>3. counter + 1 \in 0..MaxId /\ counter + 1 # 0 /\ counter' <= MaxId
    BY <1>0, <2>1
  <2>4. /\ new \in Writer /\ new.kind = "Delete" /\ new.doc = writer[w].doc /\ new.id = writer[w].id
        /\ new.vid = counter + 1
    BY <1>0, <2>1, <2>3 DEF Writer
  <2>. HIDE DEF new
  <2>5. writer[w].doc \in Ids /\ Born(writer[w].doc) /\ writer[w].id = 0 /\ writer[w].doc <= counter
    BY <1>0, <2>1 DEF WriterOK, Idle
  <2>6. new.doc <= counter' /\ new.doc \in Ids /\ new.kind \in Kinds
    BY <1>0, <2>1, <2>4, <2>5 DEF Kinds
  <2>7. new.id # 1 /\ new.vid # 1
    <3>1. counter # 0
      BY <1>0, <2>5, IdType
    <3>. QED  BY <1>0, <2>4, <2>5, <3>1
  <2>. QED  BY <1>1, <2>1, <2>2, <2>3, <2>4, <2>5, <2>6, <2>7, DrawStep DEF Untouched
<1>4. CASE RecordOp(w)
  <2>. DEFINE new == [writer[w] EXCEPT !.id = counter + 1]
  <2>1. /\ counter < MaxId /\ counter' = counter + 1 /\ writer[w] # Idle
        /\ writer[w].id = 0 /\ (writer[w].kind = "Delete" => writer[w].vid # 0)
    BY <1>4 DEF RecordOp
  <2>2. writer' = [writer EXCEPT ![w] = new]
    BY <1>0, <1>4 DEF RecordOp
  <2>3. counter + 1 \in 0..MaxId /\ counter + 1 # 0 /\ counter' <= MaxId
    BY <1>0, <2>1
  <2>4. /\ new \in Writer /\ new.kind = writer[w].kind /\ new.doc = writer[w].doc
        /\ new.id = counter + 1 /\ new.vid = writer[w].vid
    BY <1>0, <2>1, <2>3 DEF Writer
  <2>. HIDE DEF new
  <2>5. /\ writer[w].doc \in Ids /\ writer[w].kind \in Kinds /\ writer[w].doc <= counter
        /\ writer[w].kind \in {"Update", "Delete"} => Born(writer[w].doc)
        /\ writer[w].vid # 0 => writer[w].kind = "Delete"
    BY <1>0, <2>1 DEF WriterOK
  <2>6. new.doc <= counter' /\ new.doc \in Ids /\ new.kind \in Kinds
    BY <1>0, <2>1, <2>4, <2>5
  <2>7. new.id # 1 /\ new.vid # 1
    <3>1. counter # 0
      BY <1>0, <2>5, IdType
    <3>2. writer[w].vid # 1
      BY <1>0 DEF WriterOK
    <3>. QED  BY <1>0, <2>4, <3>1, <3>2
  <2>. QED  BY <1>1, <2>1, <2>2, <2>3, <2>4, <2>5, <2>6, <2>7, DrawStep DEF Untouched
<1>5. ASSUME NEW d \in Ids, NEW kind \in Kinds, Load(w, d, kind)
      PROVE  LogInv' /\ counter <= counter' /\ counter' \in Nat /\ \A x \in Nat : Born(x) => Born(x)'
  <2>. DEFINE new == [Idle EXCEPT !.kind = kind, !.doc = d]
  <2>1. /\ counter' = counter /\ docs[d] # 0 /\ kind \in {"Update", "Delete"}
        /\ writer' = [writer EXCEPT ![w] = new]
    BY <1>5 DEF Load
  <2>2. d \in 0..MaxId /\ Idle \in Writer /\ Idle.id = 0 /\ Idle.vid = 0
    BY <1>0, IdType DEF Idle, Ids, Writer
  <2>3. new \in Writer /\ new.kind = kind /\ new.doc = d /\ new.id = 0 /\ new.vid = 0
    BY <2>2 DEF Writer
  <2>. HIDE DEF new
  <2>4. Born(d) /\ d <= counter
    BY <2>1 DEF LogInv, WrittenBefore, Born
  <2>5. counter' \in {counter, counter + 1} /\ counter' <= MaxId
    BY <2>1, LogTypes
  <2>6. new.id # 1 /\ new.vid # 1
    BY <2>3
  <2>. QED  BY <1>1, <2>1, <2>3, <2>4, <2>5, <2>6, DrawStep DEF Untouched
<1>. QED  BY <1>1, <1>2, <1>3, <1>4, <1>5 DEF Drawing

----------------------------------------------------------------------------
(* A commit, point by point. *)
LEMMA CommitFacts ==
    ASSUME LogInv, NEW w \in Writers, Commit(w)
    PROVE  /\ writer[w].kind \in Kinds /\ writer[w].doc \in Ids /\ writer[w].id \in Ids
           /\ writer[w].vid # 0 => writer[w].vid \in Ids
           /\ counter' = counter /\ floor' = floor /\ vfloor' = vfloor /\ client' = client
           /\ writer'[w] = Idle /\ (\A v \in Writers : v # w => writer'[v] = writer[v])
           /\ docs'[writer[w].doc] = IF writer[w].kind = "Delete" THEN 0 ELSE writer[w].id
           /\ \A d \in Ids : d # writer[w].doc => docs'[d] = docs[d]
           /\ log'[writer[w].id] = [doc |-> writer[w].doc, kind |-> writer[w].kind]
           /\ \A i \in Ids : i # writer[w].id => log'[i] = log[i]
           /\ log[writer[w].id] = NoEntry
           /\ writer[w].vid # 0 => vanished'[writer[w].vid] = writer[w].doc
           /\ \A i \in Ids : i # writer[w].vid => vanished'[i] = vanished[i]
           /\ writer[w].kind = "Delete" <=> writer[w].vid # 0
           /\ writer[w].vid # 0 => vanished[writer[w].vid] = 0
           /\ revived \subseteq revived'
           /\ writer[w].kind = "Update" /\ docs[writer[w].doc] = 0 => writer[w].doc \in revived'
           /\ raced' = raced \cup {c \in Clients : MeetsCommit(c, writer[w])}
           /\ TypeOK' /\ \A d \in Nat : Born(d) \/ d = writer[w].doc => Born(d)'
<1>. DEFINE wr == writer[w]
<1>1. /\ wr.id # 0 /\ WriterOK(w) /\ wr.id \in Nat /\ wr.vid \in Nat /\ wr.doc \in Nat
      /\ counter \in Nat /\ counter <= MaxId /\ MaxId \in Nat
  BY LogTypes DEF LogInv, Commit
<1>2. wr # Idle /\ wr.id # 1 /\ wr.vid # 1
  BY <1>1 DEF Idle, WriterOK
<1>3. /\ wr.kind \in Kinds /\ wr.doc \in Ids /\ wr.id \in Ids /\ (wr.vid # 0 => wr.vid \in Ids)
      /\ log[wr.id] = NoEntry /\ (wr.kind = "Delete" <=> wr.vid # 0)
      /\ (wr.vid # 0 => vanished[wr.vid] = 0)
  <2>1. /\ wr.kind \in Kinds /\ wr.doc \in Ids /\ wr.id <= counter /\ wr.vid <= counter
        /\ log[wr.id] = NoEntry /\ (wr.kind = "Delete" <=> wr.vid # 0)
        /\ (wr.vid # 0 => vanished[wr.vid] = 0)
    BY <1>1, <1>2 DEF WriterOK
  <2>. QED  BY <1>1, <2>1 DEF Ids
<1>4. /\ counter' = counter /\ floor' = floor /\ vfloor' = vfloor /\ client' = client
      /\ docs' = [docs EXCEPT ![wr.doc] = IF wr.kind = "Delete" THEN 0 ELSE wr.id]
      /\ log' = [log EXCEPT ![wr.id] = [doc |-> wr.doc, kind |-> wr.kind]]
      /\ vanished' = (IF wr.vid = 0 THEN vanished ELSE [vanished EXCEPT ![wr.vid] = wr.doc])
      /\ revived' = (IF wr.kind = "Update" /\ docs[wr.doc] = 0
                     THEN revived \cup {wr.doc} ELSE revived)
      /\ raced' = raced \cup {c \in Clients : MeetsCommit(c, wr)}
      /\ writer' = [writer EXCEPT ![w] = Idle]
  BY DEF Commit
<1>5. /\ docs \in [Ids -> 0..MaxId] /\ log \in [Ids -> Entry] /\ vanished \in [Ids -> 0..MaxId]
      /\ writer \in [Writers -> Writer] /\ revived \subseteq Ids /\ raced \subseteq Clients
  BY DEF LogInv, TypeOK
<1>. HIDE DEF wr
<1>6. /\ docs'[wr.doc] = (IF wr.kind = "Delete" THEN 0 ELSE wr.id)
      /\ \A d \in Ids : d # wr.doc => docs'[d] = docs[d]
      /\ docs' \in [Ids -> 0..MaxId]
  <2>1. (IF wr.kind = "Delete" THEN 0 ELSE wr.id) \in 0..MaxId
    BY <1>1, <1>3, IdType
  <2>. QED  BY <1>3, <1>4, <1>5, <2>1
<1>7. /\ log'[wr.id] = [doc |-> wr.doc, kind |-> wr.kind]
      /\ \A i \in Ids : i # wr.id => log'[i] = log[i]
      /\ log' \in [Ids -> Entry]
  <2>1. [doc |-> wr.doc, kind |-> wr.kind] \in Entry
    BY <1>3 DEF Entry
  <2>. QED  BY <1>3, <1>4, <1>5, <2>1
<1>8. /\ wr.vid # 0 => vanished'[wr.vid] = wr.doc
      /\ \A i \in Ids : i # wr.vid => vanished'[i] = vanished[i]
      /\ vanished' \in [Ids -> 0..MaxId]
  <2>1. wr.doc \in 0..MaxId
    BY <1>3, IdType DEF Ids
  <2>2. CASE wr.vid = 0
    BY <1>4, <1>5, <2>2
  <2>3. CASE wr.vid # 0
    BY <1>3, <1>4, <1>5, <2>1, <2>3
  <2>. QED  BY <2>2, <2>3
<1>9. writer'[w] = Idle /\ (\A v \in Writers : v # w => writer'[v] = writer[v])
      /\ writer' \in [Writers -> Writer]
  <2>1. Idle \in Writer
    BY <1>1 DEF Idle, Writer
  <2>. QED  BY <1>4, <1>5, <2>1
<1>10. TypeOK'
  <2>1. revived' \subseteq Ids /\ raced' \subseteq Clients
    BY <1>3, <1>4, <1>5
  <2>2. log'[1] = NoEntry /\ vanished'[1] = 0
    <3>1. log[1] = NoEntry /\ vanished[1] = 0
      BY DEF LogInv, TypeOK
    <3>. QED  BY <1>2, <1>7, <1>8, <3>1, FirstId
  <2>. QED  BY <1>4, <1>6, <1>7, <1>8, <1>9, <2>1, <2>2 DEF LogInv, TypeOK
<1>11. \A v \in Writers : writer'[v].kind = "Insert" =>
          v # w /\ writer[v].kind = "Insert" /\ writer'[v].doc = writer[v].doc
  BY <1>9 DEF Idle
<1>12. ASSUME NEW d \in Nat, Born(d) PROVE Born(d)'
  <2>1. counter' \in Nat /\ counter <= counter'
    BY <1>1, <1>4
  <2>. QED  BY <1>1, <1>11, <1>12, <2>1, BornStable
<1>13. ASSUME NEW d \in Nat, d = wr.doc PROVE Born(d)'
  <2>1. CASE wr.kind # "Insert"
    <3>1. Born(d)
      BY <1>1, <1>3, <1>13, <2>1 DEF WriterOK, Kinds, wr
    <3>. QED  BY <1>12, <3>1
  <2>2. CASE wr.kind = "Insert"
    <3>1. \A v \in Writers : v # w => writer[v].doc # d
      BY <1>13, <2>2 DEF LogInv, DrawnApart, wr
    <3>2. d <= counter'
      BY <1>1, <1>4, <1>13 DEF WriterOK, wr
    <3>. QED  BY <1>11, <3>1, <3>2 DEF Born
  <2>. QED  BY <2>1, <2>2
<1>14. revived \subseteq revived' /\ (wr.kind = "Update" /\ docs[wr.doc] = 0 => wr.doc \in revived')
  BY <1>4
<1>. QED  BY <1>3, <1>4, <1>6, <1>7, <1>8, <1>9, <1>10, <1>12, <1>13, <1>14 DEF wr

LEMMA CommitLog ==
    ASSUME LogInv, NEW w \in Writers, Commit(w)
    PROVE  LogInv'
<1>. DEFINE wr == writer[w]
<1>1. /\ wr.kind \in Kinds /\ wr.doc \in Ids /\ wr.id \in Ids /\ (wr.vid # 0 => wr.vid \in Ids)
      /\ counter' = counter /\ floor' = floor
      /\ writer'[w] = Idle /\ (\A v \in Writers : v # w => writer'[v] = writer[v])
      /\ (wr.kind = "Delete" <=> wr.vid # 0)
  BY CommitFacts
<1>2. /\ docs'[wr.doc] = (IF wr.kind = "Delete" THEN 0 ELSE wr.id)
      /\ \A d \in Ids : d # wr.doc => docs'[d] = docs[d]
  BY CommitFacts
<1>3. /\ log'[wr.id] = [doc |-> wr.doc, kind |-> wr.kind]
      /\ \A i \in Ids : i # wr.id => log'[i] = log[i]
      /\ log[wr.id] = NoEntry
  BY CommitFacts
<1>4. /\ wr.vid # 0 => vanished'[wr.vid] = wr.doc
      /\ \A i \in Ids : i # wr.vid => vanished'[i] = vanished[i]
      /\ wr.vid # 0 => vanished[wr.vid] = 0
  BY CommitFacts
<1>5. /\ revived \subseteq revived'
      /\ wr.kind = "Update" /\ docs[wr.doc] = 0 => wr.doc \in revived'
      /\ TypeOK'
  BY CommitFacts
<1>6. \A d \in Nat : Born(d) \/ d = wr.doc => Born(d)'
  BY CommitFacts
<1>7. /\ counter \in Nat /\ wr.id <= counter /\ wr.vid <= counter /\ wr.doc # 0 /\ wr.id # 0
      /\ \A v \in Writers : writer[v].doc \in Nat
      /\ \A i \in Ids : i \in Nat /\ i # 0 /\ log[i].doc \in Nat /\ vanished[i] \in Nat
  <2>1. WriterOK(w)
    BY DEF LogInv
  <2>. QED  BY <1>1, <2>1, LogTypes, IdType DEF WriterOK
<1>. HIDE DEF wr
<1>8. ASSUME NEW v \in Writers PROVE WriterOK(v)'
  <2>1. CASE v = w
    BY <1>1, <1>7, <2>1 DEF WriterOK, Idle
  <2>2. CASE v # w
    <3>1. WriterOK(v) /\ writer'[v] = writer[v]
      BY <1>1, <2>2 DEF LogInv
    <3>2. writer[v].id # wr.id /\ (writer[v].vid # 0 => writer[v].vid # wr.vid)
      BY <1>7, <2>2 DEF LogInv, DrawnApart, wr
    <3>3. writer[v].id # 0 => log'[writer[v].id] = NoEntry
      <4>1. writer[v].id # 0 => writer[v].id \in Ids
        BY <3>1, LogTypes DEF WriterOK, Ids
      <4>. QED  BY <1>3, <3>1, <3>2, <4>1 DEF WriterOK
    <3>4. writer[v].vid # 0 => vanished'[writer[v].vid] = 0
      <4>1. writer[v].vid # 0 => writer[v].vid \in Ids
        BY <3>1, LogTypes DEF WriterOK, Ids
      <4>. QED  BY <1>4, <3>1, <3>2, <4>1 DEF WriterOK
    <3>5. writer[v].kind \in {"Update", "Delete"} => Born(writer[v].doc)'
      BY <1>6, <1>7, <3>1 DEF WriterOK
    <3>. QED  BY <1>1, <3>1, <3>3, <3>4, <3>5 DEF WriterOK
  <2>. QED  BY <2>1, <2>2
<1>9. DrawnApart'
  <2>. SUFFICES ASSUME NEW u \in Writers, NEW v \in Writers, u # v
                PROVE  /\ writer'[u].id # 0 => writer'[u].id # writer'[v].id
                       /\ writer'[u].vid # 0 => writer'[u].vid # writer'[v].vid
                       /\ writer'[u].kind = "Insert" => writer'[u].doc # writer'[v].doc
    BY DEF DrawnApart
  <2>1. /\ writer[u].id # 0 => writer[u].id # writer[v].id
        /\ writer[u].vid # 0 => writer[u].vid # writer[v].vid
        /\ writer[u].kind = "Insert" => writer[u].doc # writer[v].doc
    BY DEF LogInv, DrawnApart
  <2>2. writer[u].kind = "Insert" => writer[u].doc # 0
    <3>1. WriterOK(u)
      BY DEF LogInv
    <3>. QED  BY <1>7, <3>1 DEF WriterOK, Idle
  <2>3. Idle.id = 0 /\ Idle.vid = 0 /\ Idle.doc = 0 /\ Idle.kind = "None"
    BY DEF Idle
  <2>. QED  BY <1>1, <2>1, <2>2, <2>3
<1>10. WrittenBefore'
  <2>1. /\ \A d \in Ids : docs[d] <= counter /\ (docs[d] # 0 => Born(d))
        /\ \A i \in Ids : log[i] # NoEntry => i <= counter /\ Born(log[i].doc)
        /\ \A i \in Ids : vanished[i] # 0 => i <= counter /\ Born(vanished[i])
    BY DEF LogInv, WrittenBefore
  <2>2. ASSUME NEW d \in Ids PROVE docs'[d] <= counter' /\ (docs'[d] # 0 => Born(d)')
    <3>1. CASE d = wr.doc
      BY <1>1, <1>2, <1>6, <1>7, <3>1
    <3>2. CASE d # wr.doc
      BY <1>1, <1>2, <1>6, <1>7, <2>1, <3>2
    <3>. QED  BY <3>1, <3>2
  <2>3. ASSUME NEW i \in Ids, log'[i] # NoEntry PROVE (i <= counter /\ Born(log[i].doc))'
    <3>1. CASE i = wr.id
      <4>1. log'[i].doc = wr.doc
        BY <1>3, <3>1
      <4>. QED  BY <1>1, <1>6, <1>7, <3>1, <4>1
    <3>2. CASE i # wr.id
      BY <1>1, <1>3, <1>6, <1>7, <2>1, <2>3, <3>2
    <3>. QED  BY <3>1, <3>2
  <2>4. ASSUME NEW i \in Ids, vanished'[i] # 0 PROVE (i <= counter /\ Born(vanished[i]))'
    <3>1. CASE i = wr.vid
      BY <1>1, <1>4, <1>6, <1>7, <3>1
    <3>2. CASE i # wr.vid
      BY <1>1, <1>4, <1>6, <1>7, <2>1, <2>4, <3>2
    <3>. QED  BY <3>1, <3>2
  <2>. QED  BY <2>2, <2>3, <2>4 DEF WrittenBefore
<1>11. wr.kind = "Insert" =>
         /\ \A i \in Ids : log[i].doc # wr.doc /\ vanished[i] # wr.doc
         /\ \A v \in Writers : v # w => writer[v].doc # wr.doc
  <2>. SUFFICES ASSUME wr.kind = "Insert"
                PROVE  /\ \A i \in Ids : log[i].doc # wr.doc /\ vanished[i] # wr.doc
                       /\ \A v \in Writers : v # w => writer[v].doc # wr.doc
    OBVIOUS
  <2>1. ~Born(wr.doc)
    BY DEF Born, wr
  <2>2. \A i \in Ids : log[i].doc # wr.doc /\ vanished[i] # wr.doc
    BY <1>7, <2>1 DEF LogInv, WrittenBefore, NoEntry
  <2>3. \A v \in Writers : v # w => writer[v].doc # wr.doc
    BY DEF LogInv, DrawnApart, wr
  <2>. QED  BY <2>2, <2>3
<1>12. InsertFirst'
  <2>. SUFFICES ASSUME NEW i \in Ids, log'[i].kind = "Insert"
                PROVE  /\ \A k \in Ids : log'[k].doc = log'[i].doc /\ k # i => i < k
                       /\ \A v \in Writers : writer'[v].doc = log'[i].doc /\ writer'[v].id # 0 =>
                                                i < writer'[v].id
    BY DEF InsertFirst
  <2>1. CASE i = wr.id
    <3>1. log'[i].doc = wr.doc /\ wr.kind = "Insert"
      BY <1>3, <2>1
    <3>. QED  BY <1>1, <1>3, <1>11, <2>1, <3>1 DEF Idle
  <2>2. CASE i # wr.id
    <3>1. log'[i] = log[i]
      BY <1>3, <2>2
    <3>2. /\ \A k \in Ids : log[k].doc = log[i].doc /\ k # i => i < k
          /\ \A v \in Writers : writer[v].doc = log[i].doc /\ writer[v].id # 0 => i < writer[v].id
      BY <3>1 DEF LogInv, InsertFirst
    <3>3. wr.doc = log[i].doc => i < wr.id
      BY <1>7, <3>2 DEF wr
    <3>4. log'[wr.id].doc = wr.doc
      BY <1>3
    <3>. QED  BY <1>1, <1>3, <3>1, <3>2, <3>3, <3>4 DEF Idle
  <2>. QED  BY <2>1, <2>2
<1>13. DeleteFinal'
  <2>. SUFFICES ASSUME NEW d \in Ids \ revived', NEW i \in Ids,
                       log'[i] = [doc |-> d, kind |-> "Delete"] \/ vanished'[i] = d
                PROVE  docs'[d] = 0
    BY DEF DeleteFinal
  <2>0. d \notin revived /\ d \in Ids
    BY <1>5
  <2>1. (log[i] = [doc |-> d, kind |-> "Delete"] \/ vanished[i] = d) => docs[d] = 0
    BY <2>0 DEF LogInv, DeleteFinal
  <2>2. /\ [doc |-> d, kind |-> "Delete"].doc = d /\ [doc |-> d, kind |-> "Delete"].kind = "Delete"
        /\ log'[wr.id].doc = wr.doc /\ log'[wr.id].kind = wr.kind
    BY <1>3
  <2>3. CASE d # wr.doc
    <3>1. log[i] = [doc |-> d, kind |-> "Delete"] \/ vanished[i] = d
      BY <1>3, <1>4, <1>7, <2>2, <2>3
    <3>. QED  BY <1>2, <2>0, <2>1, <2>3, <3>1
  <2>4. CASE d = wr.doc /\ wr.kind = "Delete"
    BY <1>2, <2>4
  <2>5. CASE d = wr.doc /\ wr.kind # "Delete"
    <3>1. log[i] = [doc |-> d, kind |-> "Delete"] \/ vanished[i] = d
      BY <1>1, <1>3, <1>4, <1>7, <2>2, <2>5
    <3>2. wr.kind # "Insert"
      BY <1>11, <2>2, <2>5, <3>1
    <3>3. wr.kind = "Update" /\ docs[d] = 0
      BY <1>1, <2>1, <2>5, <3>1, <3>2 DEF Kinds
    <3>. QED  BY <1>5, <2>5, <3>3
  <2>. QED  BY <2>3, <2>4, <2>5
<1>14. InsertUndone'
  <2>. SUFFICES ASSUME NEW d \in Ids, NEW i \in Ids,
                       log'[i] = [doc |-> d, kind |-> "Insert"], docs'[d] = 0
                PROVE  \E k \in Ids : log'[k] = [doc |-> d, kind |-> "Delete"]
    BY DEF InsertUndone
  <2>1. CASE d = wr.doc
    <3>1. wr.kind = "Delete"
      BY <1>2, <1>7, <2>1
    <3>. QED  BY <1>1, <1>3, <2>1, <3>1
  <2>2. CASE d # wr.doc
    <3>1. i # wr.id
      <4>1. log'[i].doc = d /\ log'[wr.id].doc = wr.doc
        BY <1>3
      <4>. QED  BY <2>2, <4>1
    <3>2. log[i] = [doc |-> d, kind |-> "Insert"] /\ docs[d] = 0
      BY <1>2, <1>3, <2>2, <3>1
    <3>3. PICK k \in Ids : log[k] = [doc |-> d, kind |-> "Delete"]
      BY <3>2 DEF LogInv, InsertUndone
    <3>4. k # wr.id
      <4>1. log[k].doc = d /\ log[wr.id].doc = 0
        BY <1>3, <3>3 DEF NoEntry
      <4>. QED  BY <1>7, <4>1
    <3>. QED  BY <1>3, <3>3, <3>4
  <2>. QED  BY <2>1, <2>2
<1>15. FloorCoversPruned'
  <2>. SUFFICES ASSUME NEW d \in Ids, docs'[d] # 0
                PROVE  log'[docs'[d]].doc = d \/ docs'[d] <= floor'
    BY DEF FloorCoversPruned
  <2>1. CASE d = wr.doc
    BY <1>2, <1>3, <2>1
  <2>2. CASE d # wr.doc
    <3>1. docs'[d] = docs[d] /\ docs[d] \in Ids
      <4>1. docs'[d] = docs[d] /\ docs[d] \in 0..MaxId
        BY <1>2, <2>2 DEF LogInv, TypeOK
      <4>. QED  BY <4>1, IdType DEF Ids
    <3>2. log[docs[d]].doc = d \/ docs[d] <= floor
      BY <3>1 DEF LogInv, FloorCoversPruned
    <3>3. log[docs[d]].doc = d => docs[d] # wr.id
      BY <1>3, <1>7 DEF NoEntry
    <3>. QED  BY <1>1, <1>3, <3>1, <3>2, <3>3
  <2>. QED  BY <2>1, <2>2
<1>. QED  BY <1>5, <1>8, <1>9, <1>10, <1>12, <1>13, <1>14, <1>15 DEF LogInv

----------------------------------------------------------------------------
(* The prunes. *)
LEMMA CutoffType ==
    ASSUME LogInv, NEW old \in Nat, old <= counter
    PROVE  /\ Cutoff \in Nat /\ Cutoff <= counter /\ RaisedFloor(old) \in Nat
           /\ old <= RaisedFloor(old) /\ Cutoff <= RaisedFloor(old) /\ RaisedFloor(old) <= counter
<1>1. counter \in Nat /\ KeepLast \in Nat
  BY LogTypes, SyncAssumption
<1>2. Cutoff \in Nat /\ Cutoff <= counter
  BY <1>1 DEF Cutoff
<1>. HIDE DEF Cutoff
<1>. QED  BY <1>1, <1>2 DEF RaisedFloor

LEMMA PruneFacts ==
    ASSUME LogInv, PruneEmail
    PROVE  /\ counter' = counter /\ docs' = docs /\ vanished' = vanished /\ vfloor' = vfloor
           /\ writer' = writer /\ client' = client /\ revived' = revived
           /\ floor' \in Nat /\ floor <= floor' /\ floor' <= counter
           /\ \A i \in Ids : log'[i] = log[i] \/ (log'[i] = NoEntry /\ i <= floor')
           /\ \A i, k \in Ids : i <= k /\ log'[k] = NoEntry /\ log[k] # NoEntry => log'[i] = NoEntry
           /\ raced' = raced \cup {c \in Clients :
                         client[c].call \in {"page", "entries", "vanished", "modseqs"}}
           /\ TypeOK'
<1>1. floor \in Nat /\ floor <= counter /\ counter \in 0..MaxId /\ MaxId \in Nat
  BY LogTypes DEF LogInv, TypeOK
<1>2. /\ Cutoff \in Nat /\ floor' \in Nat /\ floor <= floor' /\ Cutoff <= floor' /\ floor' <= counter
  BY <1>1, CutoffType DEF PruneEmail
<1>3. log' = [i \in Ids |-> IF i <= Cutoff THEN NoEntry ELSE log[i]]
  BY DEF PruneEmail
<1>. HIDE DEF Cutoff
<1>4. \A i \in Ids : log'[i] = log[i] \/ (log'[i] = NoEntry /\ i <= floor')
  <2>1. \A i \in Ids : i \in Nat
    BY IdType
  <2>. QED  BY <1>2, <1>3, <2>1
<1>5. \A i, k \in Ids : i <= k /\ log'[k] = NoEntry /\ log[k] # NoEntry => log'[i] = NoEntry
  <2>. SUFFICES ASSUME NEW i \in Ids, NEW k \in Ids, i <= k, log'[k] = NoEntry, log[k] # NoEntry
                PROVE  log'[i] = NoEntry
    OBVIOUS
  <2>1. k <= Cutoff /\ i \in Nat /\ k \in Nat
    BY <1>3, IdType
  <2>2. i <= Cutoff
    BY <1>2, <2>1
  <2>. QED  BY <1>3, <2>2
<1>6. TypeOK'
  <2>1. log' \in [Ids -> Entry]
    <3>1. NoEntry \in Entry /\ log \in [Ids -> Entry]
      BY DEF Entry, LogInv, TypeOK
    <3>. QED  BY <1>3, <3>1
  <2>2. floor' \in 0..MaxId /\ raced' \subseteq Clients
    <3>1. raced' \subseteq Clients
      BY DEF PruneEmail, LogInv, TypeOK
    <3>. QED  BY <1>1, <1>2, <3>1
  <2>3. log'[1] = NoEntry
    BY <1>4, FirstId DEF LogInv, TypeOK
  <2>. QED  BY <1>2, <2>1, <2>2, <2>3 DEF PruneEmail, LogInv, TypeOK
<1>. QED  BY <1>2, <1>4, <1>5, <1>6 DEF PruneEmail

LEMMA PruneVanishedFacts ==
    ASSUME LogInv, PruneVanished
    PROVE  /\ counter' = counter /\ docs' = docs /\ log' = log /\ floor' = floor
           /\ writer' = writer /\ client' = client /\ revived' = revived
           /\ vfloor' \in Nat /\ vfloor <= vfloor' /\ vfloor' <= counter
           /\ \A i \in Ids : vanished'[i] = vanished[i] \/ (vanished'[i] = 0 /\ i <= vfloor')
           /\ raced' = raced \cup {c \in Clients : client[c].call = "vanished"}
           /\ TypeOK'
<1>1. vfloor \in Nat /\ vfloor <= counter /\ counter \in 0..MaxId /\ MaxId \in Nat
  BY LogTypes DEF LogInv, TypeOK
<1>2. Cutoff \in Nat /\ vfloor' \in Nat /\ vfloor <= vfloor' /\ Cutoff <= vfloor' /\ vfloor' <= counter
  BY <1>1, CutoffType DEF PruneVanished
<1>3. vanished' = [i \in Ids |-> IF i <= Cutoff THEN 0 ELSE vanished[i]]
  BY DEF PruneVanished
<1>. HIDE DEF Cutoff
<1>4. \A i \in Ids : vanished'[i] = vanished[i] \/ (vanished'[i] = 0 /\ i <= vfloor')
  <2>1. \A i \in Ids : i \in Nat
    BY IdType
  <2>. QED  BY <1>2, <1>3, <2>1
<1>5. TypeOK'
  <2>1. vanished' \in [Ids -> 0..MaxId]
    <3>1. 0 \in 0..MaxId /\ vanished \in [Ids -> 0..MaxId]
      BY <1>1 DEF LogInv, TypeOK
    <3>. QED  BY <1>3, <3>1
  <2>2. vfloor' \in 0..MaxId /\ raced' \subseteq Clients
    <3>1. raced' \subseteq Clients
      BY DEF PruneVanished, LogInv, TypeOK
    <3>. QED  BY <1>1, <1>2, <3>1
  <2>3. vanished'[1] = 0
    BY <1>4, FirstId DEF LogInv, TypeOK
  <2>. QED  BY <1>2, <2>1, <2>2, <2>3 DEF PruneVanished, LogInv, TypeOK
<1>. QED  BY <1>2, <1>4, <1>5 DEF PruneVanished

(* What a prune takes away the new floor covers. *)
LEMMA PruneLog ==
    ASSUME LogInv, PruneEmail \/ PruneVanished
    PROVE  LogInv' /\ \A d : Born(d) => Born(d)'
<1>1. /\ counter' = counter /\ docs' = docs /\ writer' = writer /\ revived' = revived /\ TypeOK'
      /\ floor' \in Nat /\ floor <= floor'
      /\ \A i \in Ids : log'[i] = log[i] \/ (log'[i] = NoEntry /\ i <= floor')
      /\ \A i, k \in Ids : i <= k /\ log'[k] = NoEntry /\ log[k] # NoEntry => log'[i] = NoEntry
      /\ \A i \in Ids : vanished'[i] = vanished[i] \/ vanished'[i] = 0
  <2>1. CASE PruneEmail
    BY <2>1, PruneFacts
  <2>2. CASE PruneVanished
    <3>1. log' = log /\ floor' = floor /\ floor \in Nat
      BY <2>2, LogTypes, PruneVanishedFacts
    <3>. QED  BY <2>2, <3>1, PruneVanishedFacts
  <2>. QED  BY <2>1, <2>2
<1>2. \A d : Born(d) => Born(d)'
  BY <1>1 DEF Born
<1>3. NoEntry.doc = 0 /\ NoEntry.kind = "None" /\ \A i \in Ids : i # 0 /\ i \in Nat
  BY IdType DEF NoEntry
<1>4. ASSUME NEW w \in Writers PROVE WriterOK(w)'
  <2>1. WriterOK(w) /\ writer[w].id \in Nat /\ writer[w].vid \in Nat
    BY LogTypes DEF LogInv
  <2>2. /\ writer[w].id # 0 => writer[w].id \in Ids
        /\ writer[w].vid # 0 => writer[w].vid \in Ids
    BY <2>1, LogTypes DEF WriterOK, Ids
  <2>. QED  BY <1>1, <1>2, <2>1, <2>2 DEF WriterOK
<1>5. DrawnApart'
  BY <1>1 DEF LogInv, DrawnApart
<1>6. WrittenBefore'
  <2>1. /\ \A d \in Ids : docs[d] <= counter /\ (docs[d] # 0 => Born(d))
        /\ \A i \in Ids : log[i] # NoEntry => i <= counter /\ Born(log[i].doc)
        /\ \A i \in Ids : vanished[i] # 0 => i <= counter /\ Born(vanished[i])
    BY DEF LogInv, WrittenBefore
  <2>. QED  BY <1>1, <1>2, <2>1 DEF WrittenBefore
<1>7. InsertFirst'
  <2>. SUFFICES ASSUME NEW i \in Ids, log'[i].kind = "Insert"
                PROVE  /\ \A k \in Ids : log'[k].doc = log'[i].doc /\ k # i => i < k
                       /\ \A w \in Writers : writer[w].doc = log'[i].doc /\ writer[w].id # 0 =>
                                                i < writer[w].id
    BY <1>1 DEF InsertFirst
  <2>1. log'[i] = log[i]
    BY <1>1, <1>3
  <2>2. log[i].doc # 0
    <3>1. log[i] \in Entry
      BY LogTypes
    <3>. QED  BY <1>3, <2>1, <3>1 DEF Entry
  <2>3. \A k \in Ids : log'[k].doc = log[i].doc => log'[k] = log[k]
    BY <1>1, <1>3, <2>2
  <2>. QED  BY <2>1, <2>3 DEF LogInv, InsertFirst
<1>8. DeleteFinal'
  <2>. SUFFICES ASSUME NEW d \in Ids \ revived, NEW i \in Ids,
                       log'[i] = [doc |-> d, kind |-> "Delete"] \/ vanished'[i] = d
                PROVE  docs[d] = 0
    BY <1>1 DEF DeleteFinal
  <2>1. [doc |-> d, kind |-> "Delete"] # NoEntry /\ d # 0
    BY <1>3
  <2>2. log[i] = [doc |-> d, kind |-> "Delete"] \/ vanished[i] = d
    BY <1>1, <2>1
  <2>. QED  BY <2>2 DEF LogInv, DeleteFinal
<1>9. InsertUndone'
  <2>. SUFFICES ASSUME NEW d \in Ids, NEW i \in Ids,
                       log'[i] = [doc |-> d, kind |-> "Insert"], docs[d] = 0
                PROVE  \E k \in Ids : log'[k] = [doc |-> d, kind |-> "Delete"]
    BY <1>1 DEF InsertUndone
  <2>1. log'[i] # NoEntry /\ log[i] = log'[i]
    BY <1>1, <1>3
  <2>2. PICK k \in Ids : log[k] = [doc |-> d, kind |-> "Delete"]
    BY <2>1 DEF LogInv, InsertUndone
  <2>3. log[k] # NoEntry /\ k # i /\ log[k].doc = log[i].doc /\ log[i].kind = "Insert"
    BY <1>3, <2>1, <2>2
  <2>4. i < k
    BY <2>3 DEF LogInv, InsertFirst
  <2>5. i <= k
    BY <1>3, <2>4
  <2>6. log'[k] # NoEntry
    BY <1>1, <2>1, <2>3, <2>5
  <2>7. log'[k] = log[k]
    BY <1>1, <2>6
  <2>. QED  BY <2>2, <2>7
<1>10. FloorCoversPruned'
  <2>. SUFFICES ASSUME NEW d \in Ids, docs[d] # 0
                PROVE  log'[docs[d]].doc = d \/ docs[d] <= floor'
    BY <1>1 DEF FloorCoversPruned
  <2>1. docs[d] \in Ids /\ docs[d] \in Nat /\ floor \in Nat
    <3>1. docs[d] \in Nat /\ docs[d] <= counter /\ counter \in 0..MaxId /\ MaxId \in Nat
      BY LogTypes DEF LogInv, WrittenBefore
    <3>. QED  BY <3>1, LogTypes DEF Ids
  <2>2. log[docs[d]].doc = d \/ docs[d] <= floor
    BY DEF LogInv, FloorCoversPruned
  <2>. QED  BY <1>1, <2>1, <2>2
<1>. QED  BY <1>1, <1>2, <1>4, <1>5, <1>6, <1>7, <1>8, <1>9, <1>10 DEF LogInv

----------------------------------------------------------------------------
(* Steps of clients, and a restart, write nothing. *)
LEMMA ReadLog ==
    ASSUME LogInv, TypeOK', UNCHANGED <<counter, docs, log, vanished, floor, vfloor, writer, revived>>
    PROVE  LogInv' /\ \A d : Born(d) => Born(d)'
<1>1. \A d : Born(d) <=> Born(d)'
  BY DEF Born
<1>2. \A w \in Writers : WriterOK(w)'
  BY <1>1 DEF LogInv, WriterOK
<1>3. WrittenBefore'
  BY <1>1 DEF LogInv, WrittenBefore
<1>. QED  BY <1>1, <1>2, <1>3
          DEF LogInv, DrawnApart, InsertFirst, DeleteFinal, InsertUndone, FloorCoversPruned

LEMMA RestartLog ==
    ASSUME LogInv, TypeOK', writer' = [w \in Writers |-> Idle],
           UNCHANGED <<counter, docs, log, vanished, floor, vfloor, revived>>
    PROVE  LogInv' /\ \A d : Born(d) => Born(d)'
<1>1. \A w \in Writers : writer'[w] = Idle
  OBVIOUS
<1>2. Idle.id = 0 /\ Idle.vid = 0 /\ Idle.doc = 0 /\ Idle.kind = "None"
  BY DEF Idle
<1>3. \A d : Born(d) => Born(d)'
  BY <1>1, <1>2 DEF Born
<1>4. \A w \in Writers : WriterOK(w)'
  BY <1>1, <1>2, LogTypes DEF WriterOK
<1>5. DrawnApart' /\ InsertFirst'
  BY <1>1, <1>2 DEF LogInv, DrawnApart, InsertFirst
<1>6. WrittenBefore'
  BY <1>3 DEF LogInv, WrittenBefore
<1>. QED  BY <1>3, <1>4, <1>5, <1>6 DEF LogInv, DeleteFinal, InsertUndone, FloorCoversPruned

----------------------------------------------------------------------------
(* Clients while others work.                                                *)

(* A client is not ahead of the counter, or was told 1 by a fresh account.    *)
Reaches(cl) == cl.since <= counter \/ (cl.proto = "qresync" /\ cl.since = 1)

LEMMA ClientTypes ==
    ASSUME TypeOK, NEW c \in Clients
    PROVE  /\ client[c] \in Client /\ client[c].since \in Nat /\ client[c].highest \in Nat
           /\ Reaches(client[c]) /\ client[c].known \in [Ids -> 0..MaxId]
           /\ client[c].read \in [Ids -> 0..MaxId] /\ client[c].todo \in SUBSET Ids
           /\ client[c].gone \in SUBSET Ids /\ client[c].synced \in BOOLEAN
           /\ client[c].proto \in Protocols /\ client[c].call \in Calls
<1>1. client[c] \in Client /\ Reaches(client[c])
  BY DEF TypeOK, Reaches
<1>. QED  BY <1>1, IdType DEF Client

(* What was true of a client stays true when the records do not change and    *)
(* the log leads no worse to them.                                            *)
LEMMA ClientFrame ==
    ASSUME TypeOK, NEW c \in Clients, ClientOK(c), client'[c] = client[c], c \in raced => c \in raced',
           docs' = docs, revived' = revived, counter \in Nat, counter' \in Nat, counter <= counter',
           \A d \in Ids : Born(d) => Born(d)',
           \A n \in Nat, d \in Ids : Entered(n, d) => Entered(n, d)',
           \A n \in Nat, d \in Ids : Buried(n, d) => Buried(n, d)',
           \A i, d \in Ids : log'[i] = [doc |-> d, kind |-> "Insert"] =>
                             log[i] = [doc |-> d, kind |-> "Insert"],
           c \notin raced' /\ ReadHolds(c) => ReadHolds(c)'
    PROVE  ClientOK(c)'
<1>1. client[c].since \in Nat /\ client[c].highest \in Nat
  BY ClientTypes
<1>2. ClientShape(c)'
  BY <1>1 DEF ClientOK, ClientShape
<1>. SUFFICES ASSUME c \notin raced'
              PROVE  ReadHolds(c)' /\ ChangesOK(c)' /\ QueryOK(c)' /\ QresyncOK(c)'
  BY <1>2 DEF ClientOK
<1>3. ReadHolds(c) /\ ChangesOK(c) /\ QueryOK(c) /\ QresyncOK(c)
  BY DEF ClientOK
<1>4. \A d \in Ids : /\ Entered(client[c].since, d) => Entered(client[c].since, d)'
                     /\ Entered(client[c].highest, d) => Entered(client[c].highest, d)'
                     /\ Buried(client[c].since, d) => Buried(client[c].since, d)'
                     /\ Buried(client[c].highest, d) => Buried(client[c].highest, d)'
  BY <1>1
<1>5. ChangesOK(c)'
  <2>1. KnownBorn(c) => KnownBorn(c)'
    BY DEF KnownBorn
  <2>. QED  BY <1>3, <1>4, <2>1 DEF ChangesOK
<1>6. QueryOK(c)'
  BY <1>3, <1>4 DEF QueryOK, Settles
<1>7. QresyncOK(c)'
  BY <1>3, <1>4 DEF QresyncOK
<1>. QED  BY <1>3, <1>5, <1>6, <1>7

LEMMA DrawingClients ==
    ASSUME SyncInv, NEW w \in Writers, Drawing(w)
    PROVE  SyncInv'
<1>1. LogInv /\ TypeOK
  BY DEF SyncInv, LogInv
<1>2. /\ LogInv' /\ Untouched /\ counter <= counter' /\ counter' \in Nat
      /\ \A d \in Nat : Born(d) => Born(d)'
  BY <1>1, DrawingStep
<1>3. counter \in Nat /\ Ids \subseteq Nat
  BY <1>1, LogTypes, IdType
<1>4. ASSUME NEW c \in Clients PROVE ClientOK(c)'
  <2>1. ClientOK(c)
    BY DEF SyncInv
  <2>2. /\ \A n \in Nat, d \in Ids : Entered(n, d) => Entered(n, d)'
        /\ \A n \in Nat, d \in Ids : Buried(n, d) => Buried(n, d)'
        /\ ReadHolds(c) => ReadHolds(c)'
    BY <1>2 DEF Untouched, Entered, Buried, ReadHolds
  <2>. QED  BY <1>1, <1>2, <1>3, <2>1, <2>2, ClientFrame DEF Untouched
<1>. QED  BY <1>2, <1>4 DEF SyncInv

LEMMA PruneClients ==
    ASSUME SyncInv, PruneEmail \/ PruneVanished
    PROVE  SyncInv'
<1>1. LogInv /\ TypeOK
  BY DEF SyncInv, LogInv
<1>2. LogInv' /\ \A d : Born(d) => Born(d)'
  BY <1>1, PruneLog
<1>3. counter \in Nat /\ floor \in Nat /\ vfloor \in Nat /\ \A i \in Ids : i \in Nat /\ i # 0
  BY <1>1, LogTypes, IdType
<1>4. NoEntry.doc = 0 /\ \A d \in Ids : [doc |-> d, kind |-> "Insert"] # NoEntry
  BY <1>3 DEF NoEntry
<1>5. CASE PruneEmail
  <2>1. /\ counter' = counter /\ docs' = docs /\ vanished' = vanished /\ vfloor' = vfloor
        /\ client' = client /\ revived' = revived
        /\ floor' \in Nat /\ floor <= floor'
        /\ \A i \in Ids : log'[i] = log[i] \/ (log'[i] = NoEntry /\ i <= floor')
        /\ raced' = raced \cup {c \in Clients :
                      client[c].call \in {"page", "entries", "vanished", "modseqs"}}
    BY <1>1, <1>5, PruneFacts
  <2>2. \A n \in Nat, d \in Ids : Entered(n, d) => Entered(n, d)'
    BY <1>3, <2>1 DEF Entered
  <2>3. \A n \in Nat, d \in Ids : Buried(n, d) => Buried(n, d)'
    BY <2>1 DEF Buried
  <2>4. \A i, d \in Ids : log'[i] = [doc |-> d, kind |-> "Insert"] =>
                          log[i] = [doc |-> d, kind |-> "Insert"]
    BY <1>4, <2>1
  <2>5. ASSUME NEW c \in Clients PROVE ClientOK(c)'
    <3>1. c \notin raced' /\ ReadHolds(c) => ReadHolds(c)'
      BY <2>1 DEF ReadHolds
    <3>2. ClientOK(c) /\ client'[c] = client[c] /\ (c \in raced => c \in raced')
      BY <2>1 DEF SyncInv
    <3>. QED  BY <1>1, <1>2, <1>3, <2>1, <2>2, <2>3, <2>4, <3>1, <3>2, ClientFrame
  <2>. QED  BY <1>2, <2>5 DEF SyncInv
<1>6. CASE PruneVanished
  <2>1. /\ counter' = counter /\ docs' = docs /\ log' = log /\ floor' = floor
        /\ client' = client /\ revived' = revived
        /\ vfloor' \in Nat /\ vfloor <= vfloor'
        /\ \A i \in Ids : vanished'[i] = vanished[i] \/ (vanished'[i] = 0 /\ i <= vfloor')
        /\ raced' = raced \cup {c \in Clients : client[c].call = "vanished"}
    BY <1>1, <1>6, PruneVanishedFacts
  <2>2. \A n \in Nat, d \in Ids : Entered(n, d) => Entered(n, d)'
    BY <2>1 DEF Entered
  <2>3. \A n \in Nat, d \in Ids : Buried(n, d) => Buried(n, d)'
    BY <1>3, <2>1 DEF Buried
  <2>5. ASSUME NEW c \in Clients PROVE ClientOK(c)'
    <3>1. c \notin raced' /\ ReadHolds(c) => ReadHolds(c)'
      BY <2>1 DEF ReadHolds
    <3>2. ClientOK(c) /\ client'[c] = client[c] /\ (c \in raced => c \in raced')
      BY <2>1 DEF SyncInv
    <3>. QED  BY <1>1, <1>2, <1>3, <2>1, <2>2, <2>3, <3>1, <3>2, ClientFrame
  <2>. QED  BY <1>2, <2>5 DEF SyncInv
<1>. QED  BY <1>5, <1>6

(* A commit leads from every earlier id to what it wrote. *)
LEMMA CommitLeads ==
    ASSUME LogInv, NEW w \in Writers, Commit(w), NEW n \in Nat, NEW d \in Ids
    PROVE  /\ Entered(n, d) => Entered(n, d)'
           /\ Buried(n, d) => Buried(n, d)'
           /\ d = writer[w].doc /\ n < writer[w].id => Entered(n, d)'
           /\ d = writer[w].doc /\ writer[w].vid # 0 /\ n < writer[w].vid => Buried(n, d)'
<1>. DEFINE wr == writer[w]
<1>1. /\ wr.id \in Ids /\ (wr.vid # 0 => wr.vid \in Ids) /\ floor' = floor /\ vfloor' = vfloor
      /\ log'[wr.id] = [doc |-> wr.doc, kind |-> wr.kind]
      /\ \A i \in Ids : i # wr.id => log'[i] = log[i]
      /\ log[wr.id] = NoEntry
      /\ wr.vid # 0 => vanished'[wr.vid] = wr.doc
      /\ \A i \in Ids : i # wr.vid => vanished'[i] = vanished[i]
      /\ wr.vid # 0 => vanished[wr.vid] = 0
  BY CommitFacts
<1>2. d # 0 /\ NoEntry.doc = 0 /\ log'[wr.id].doc = wr.doc /\ \A i \in Ids : i \in Nat
  BY <1>1, IdType DEF NoEntry
<1>. HIDE DEF wr
<1>3. Entered(n, d) => Entered(n, d)'
  BY <1>1, <1>2 DEF Entered
<1>4. Buried(n, d) => Buried(n, d)'
  BY <1>1, <1>2 DEF Buried
<1>5. d = wr.doc /\ n < wr.id => Entered(n, d)'
  BY <1>1, <1>2 DEF Entered
<1>6. d = wr.doc /\ wr.vid # 0 /\ n < wr.vid => Buried(n, d)'
  BY <1>1, <1>2 DEF Buried
<1>. QED  BY <1>3, <1>4, <1>5, <1>6 DEF wr

LEMMA CommitClients ==
    ASSUME SyncInv, NEW w \in Writers, Commit(w)
    PROVE  SyncInv'
<1>. DEFINE wr == writer[w]
<1>0. LogInv /\ TypeOK
  BY DEF SyncInv, LogInv
<1>1. LogInv'
  BY <1>0, CommitLog
<1>2. /\ wr.kind \in Kinds /\ wr.doc \in Ids /\ wr.id \in Ids /\ wr.id \in Nat /\ wr.vid \in Nat
      /\ counter' = counter /\ floor' = floor /\ vfloor' = vfloor /\ client' = client
      /\ docs'[wr.doc] = (IF wr.kind = "Delete" THEN 0 ELSE wr.id)
      /\ \A d \in Ids : d # wr.doc => docs'[d] = docs[d]
      /\ log'[wr.id] = [doc |-> wr.doc, kind |-> wr.kind]
      /\ \A i \in Ids : i # wr.id => log'[i] = log[i]
      /\ (wr.kind = "Delete" <=> wr.vid # 0)
      /\ revived \subseteq revived'
      /\ raced' = raced \cup {c \in Clients : MeetsCommit(c, wr)}
      /\ \A d \in Nat : Born(d) \/ d = wr.doc => Born(d)'
  BY <1>0, CommitFacts, IdType, LogTypes
<1>3. \A n \in Nat, d \in Ids :
           /\ Entered(n, d) => Entered(n, d)'
           /\ Buried(n, d) => Buried(n, d)'
           /\ d = wr.doc /\ n < wr.id => Entered(n, d)'
           /\ d = wr.doc /\ wr.vid # 0 /\ n < wr.vid => Buried(n, d)'
  BY <1>0, CommitLeads
<1>4. wr.kind = "Insert" => ~Born(wr.doc)
  BY DEF Born
<1>5. Ids \subseteq Nat
  BY IdType
<1>. HIDE DEF wr
<1>6. ASSUME NEW c \in Clients PROVE ClientOK(c)'
  <2>0. ClientOK(c)
    BY DEF SyncInv
  <2>1. ClientShape(c)'
    BY <1>2, <2>0 DEF ClientOK, ClientShape
  <2>. SUFFICES ASSUME c \notin raced'
                PROVE  ReadHolds(c)' /\ ChangesOK(c)' /\ QueryOK(c)' /\ QresyncOK(c)'
    BY <2>1 DEF ClientOK
  <2>2. ReadHolds(c) /\ ChangesOK(c) /\ QueryOK(c) /\ QresyncOK(c)
    BY <1>2, <2>0 DEF ClientOK
  <2>3. client[c].since \in Nat /\ client[c].highest \in Nat
    BY <1>0, ClientTypes
  <2>4. /\ client[c].since < wr.id
        /\ wr.vid # 0 => client[c].since < wr.vid
        /\ client[c].call \notin {"get", "ids", "state"}
        /\ client[c].call \in {"vanished", "modseqs", "flags"} =>
             client[c].highest < wr.id /\ (wr.vid # 0 => client[c].highest < wr.vid)
    <3>1. ~MeetsCommit(c, wr)
      BY <1>2
    <3>. QED  BY <1>2, <2>3, <3>1 DEF MeetsCommit
  <2>5. \A d \in Ids :
           /\ Entered(client[c].since, d) \/ d = wr.doc => Entered(client[c].since, d)'
           /\ Buried(client[c].since, d) \/ (d = wr.doc /\ wr.vid # 0) => Buried(client[c].since, d)'
    BY <1>2, <1>3, <2>3, <2>4
  <2>6. client[c].call \in {"vanished", "modseqs", "flags"} => \A d \in Ids :
           /\ Entered(client[c].highest, d) \/ d = wr.doc => Entered(client[c].highest, d)'
           /\ Buried(client[c].highest, d) \/ (d = wr.doc /\ wr.vid # 0) => Buried(client[c].highest, d)'
    BY <1>2, <1>3, <2>3, <2>4
  <2>7. ReadHolds(c)'
    BY <1>2, <2>2, <2>4 DEF ReadHolds
  <2>8. KnownBorn(c) => KnownBorn(c)'
    <3>. SUFFICES ASSUME KnownBorn(c), NEW d \in Ids, client[c].known[d] # 0 \/ d \in client[c].todo
                  PROVE  /\ Born(d)'
                         /\ \A i \in Ids : log'[i] = [doc |-> d, kind |-> "Insert"] =>
                                             i <= client[c].since
      BY <1>2 DEF KnownBorn
    <3>1. Born(d) /\ \A i \in Ids : log[i] = [doc |-> d, kind |-> "Insert"] => i <= client[c].since
      BY DEF KnownBorn
    <3>2. log'[wr.id] # [doc |-> d, kind |-> "Insert"]
      <4>1. log'[wr.id].doc = wr.doc /\ log'[wr.id].kind = wr.kind
        BY <1>2
      <4>. QED  BY <1>4, <3>1, <4>1
    <3>. QED  BY <1>2, <1>5, <3>1, <3>2
  <2>9. ChangesOK(c)'
    BY <1>2, <2>2, <2>5, <2>8 DEF ChangesOK
  <2>10. QueryOK(c)'
    BY <1>2, <2>2, <2>4, <2>5 DEF QueryOK
  <2>11. QresyncOK(c)'
    <3>. SUFFICES ASSUME client[c].proto = "qresync", client[c].synced,
                         NEW d \in Ids \ revived', client[c].known[d] # docs'[d]
                  PROVE  /\ docs'[d] # 0 /\ client[c].call # "flags" => Entered(client[c].since, d)'
                         /\ docs'[d] # 0 /\ client[c].call = "flags" =>
                              d \in client[c].todo \/ Entered(client[c].highest, d)'
                         /\ docs'[d] = 0 /\ client[c].call \notin {"modseqs", "flags"} =>
                              Buried(client[c].since, d)'
                         /\ docs'[d] = 0 /\ client[c].call \in {"modseqs", "flags"} =>
                              Buried(client[c].highest, d)'
      BY <1>2 DEF QresyncOK
    <3>1. CASE d = wr.doc
      <4>1. docs'[d] = 0 => wr.vid # 0
        BY <1>2, <1>5, <3>1, IdType
      <4>. QED  BY <2>5, <2>6, <3>1, <4>1
    <3>2. CASE d # wr.doc
      <4>1. docs'[d] = docs[d] /\ d \in Ids \ revived
        BY <1>2, <3>2
      <4>. QED  BY <2>2, <2>5, <2>6, <4>1 DEF QresyncOK
    <3>. QED  BY <3>1, <3>2
  <2>. QED  BY <2>7, <2>9, <2>10, <2>11
<1>. QED  BY <1>1, <1>6 DEF SyncInv

(* A restart ends the calls: what a client had before them still holds.       *)
LEMMA RestartClients ==
    ASSUME SyncInv, Restart
    PROVE  SyncInv'
<1>0. LogInv /\ TypeOK
  BY DEF SyncInv, LogInv
<1>1. UNCHANGED <<counter, docs, log, vanished, floor, vfloor, revived, raced>>
  BY DEF Restart
<1>2. ASSUME NEW c \in Clients
      PROVE  /\ client'[c] \in Client /\ client'[c].since = client[c].since
             /\ client'[c].proto = client[c].proto /\ client'[c].known = client[c].known
             /\ client'[c].call = "none" /\ client'[c].todo = {} /\ client'[c].highest = 0
             /\ client'[c].synced => client[c].synced /\
                  client[c].call \in {"none", "get", "page", "entries", "ids", "state"}
  <2>1. client'[c] = [client[c] EXCEPT
                    !.call = "none", !.todo = {}, !.gone = {},
                    !.read = Nothing, !.highest = 0,
                    !.synced = @ /\ client[c].call \in {"none", "get", "page",
                                   "entries", "ids", "state"}]
    BY DEF Restart
  <2>2. client[c] \in Client
    BY <1>0, ClientTypes
  <2>3. Nothing \in [Ids -> 0..MaxId] /\ 0 \in 0..MaxId
    BY IdType DEF Nothing
  <2>4. (client[c].synced /\ client[c].call \in {"none", "get", "page", "entries", "ids", "state"})
          \in BOOLEAN
    OBVIOUS
  <2>. QED  BY <2>1, <2>2, <2>3, <2>4 DEF Client, Calls
<1>3. TypeOK'
  <2>1. client' \in [Clients -> Client]
    BY <1>2 DEF Restart
  <2>2. writer' \in [Writers -> Writer]
    <3>1. Idle \in Writer
      BY IdType DEF Idle, Writer
    <3>. QED  BY <3>1 DEF Restart
  <2>. QED  BY <1>0, <1>1, <1>2, <2>1, <2>2 DEF TypeOK
<1>4. LogInv' /\ \A d : Born(d) => Born(d)'
  BY <1>0, <1>1, <1>3, RestartLog DEF Restart
<1>5. \A n, d : (Entered(n, d) => Entered(n, d)') /\ (Buried(n, d) => Buried(n, d)')
  BY <1>1 DEF Entered, Buried
<1>6. ASSUME NEW c \in Clients PROVE ClientOK(c)'
  <2>1. ClientOK(c) /\ counter \in Nat
    BY <1>0, LogTypes DEF SyncInv
  <2>2. ClientShape(c)'
    BY <1>1, <1>2, <2>1 DEF ClientShape
  <2>. SUFFICES ASSUME c \notin raced
                PROVE  ReadHolds(c)' /\ ChangesOK(c)' /\ QueryOK(c)' /\ QresyncOK(c)'
    BY <1>1, <2>2 DEF ClientOK
  <2>3. ChangesOK(c) /\ QueryOK(c) /\ QresyncOK(c) /\ ClientShape(c)
    BY <2>1 DEF ClientOK
  <2>4. ReadHolds(c)'
    BY <1>2 DEF ReadHolds
  <2>5. ChangesOK(c)'
    <3>. SUFFICES ASSUME client[c].proto = "changes", client[c].synced, client[c].todo = {}
                  PROVE  ChangesOK(c)'
      BY <1>2, <2>3 DEF ChangesOK, ClientShape
    <3>1. KnownBorn(c)'
      BY <1>1, <1>2, <1>4, <2>3 DEF ChangesOK, KnownBorn
    <3>. QED  BY <1>1, <1>2, <1>5, <2>3, <3>1 DEF ChangesOK
  <2>6. QueryOK(c)'
    BY <1>1, <1>2, <1>5, <2>3 DEF QueryOK
  <2>7. QresyncOK(c)'
    BY <1>1, <1>2, <1>5, <2>3 DEF QresyncOK, ClientShape
  <2>. QED  BY <2>4, <2>5, <2>6, <2>7
<1>. QED  BY <1>4, <1>6 DEF SyncInv

----------------------------------------------------------------------------
(* The steps of a client.                                                    *)

Unwritten == UNCHANGED <<counter, docs, log, vanished, floor, vfloor, writer, revived>>

LEMMA Unmoved ==
    ASSUME Unwritten
    PROVE  /\ \A d : Born(d) <=> Born(d)'
           /\ \A n, d : (Entered(n, d) <=> Entered(n, d)') /\ (Buried(n, d) <=> Buried(n, d)')
BY DEF Unwritten, Born, Entered, Buried

LEMMA ClientStep ==
    ASSUME SyncInv, NEW c \in Clients, NEW new \in Client, client' = [client EXCEPT ![c] = new],
           Unwritten, raced' = raced \/ raced' = raced \cup {c}, Reaches(new),
           ClientOK(c)'
    PROVE  SyncInv'
<1>0. LogInv /\ TypeOK /\ counter \in Nat
  BY LogTypes DEF SyncInv, LogInv
<1>1. TypeOK'
  BY <1>0 DEF TypeOK, Unwritten, Reaches
<1>2. LogInv' /\ \A d : Born(d) => Born(d)'
  BY <1>0, <1>1, ReadLog DEF Unwritten
<1>3. \A n, d : (Entered(n, d) => Entered(n, d)') /\ (Buried(n, d) => Buried(n, d)')
  BY Unmoved
<1>4. ASSUME NEW b \in Clients, b # c PROVE ClientOK(b)'
  <2>1. ClientOK(b) /\ client'[b] = client[b] /\ (b \in raced => b \in raced')
    BY <1>0, <1>4 DEF SyncInv, TypeOK
  <2>2. ReadHolds(b) => ReadHolds(b)'
    BY <2>1 DEF Unwritten, ReadHolds
  <2>3. docs' = docs /\ revived' = revived /\ log' = log /\ counter' \in Nat /\ counter <= counter'
    BY <1>0 DEF Unwritten
  <2>. QED  BY <1>0, <1>2, <1>3, <2>1, <2>2, <2>3, ClientFrame
<1>. QED  BY <1>2, <1>4 DEF SyncInv

(* What there is to know of the client that takes a step. *)
LEMMA Stepping ==
    ASSUME SyncInv, NEW c \in Clients
    PROVE  /\ LogInv /\ TypeOK /\ ClientOK(c) /\ ClientShape(c) /\ counter \in Nat
           /\ floor \in Nat /\ vfloor \in Nat /\ floor <= counter
           /\ c \notin raced => ReadHolds(c) /\ ChangesOK(c) /\ QueryOK(c) /\ QresyncOK(c)
           /\ client \in [Clients -> Client] /\ client[c] \in Client
           /\ docs \in [Ids -> 0..MaxId] /\ counter \in 0..MaxId
           /\ Nothing \in [Ids -> 0..MaxId] /\ 0 \in 0..MaxId
<1>1. LogInv /\ TypeOK /\ ClientOK(c)
  BY DEF SyncInv, LogInv
<1>2. Nothing \in [Ids -> 0..MaxId] /\ 0 \in 0..MaxId
  BY IdType DEF Nothing
<1>. QED  BY <1>1, <1>2, LogTypes DEF ClientOK, TypeOK

LEMMA EmailGetStep ==
    ASSUME SyncInv, NEW c \in Clients, EmailGet(c)
    PROVE  SyncInv'
<1>. DEFINE new == [client[c] EXCEPT !.call = "get", !.read = docs]
<1>0. Unwritten /\ raced' = raced /\ client[c].proto # "qresync" /\ client[c].call = "none"
  BY DEF EmailGet, Unwritten
<1>1. client' = [client EXCEPT ![c] = new]
  BY Stepping DEF EmailGet
<1>2. /\ new \in Client /\ new.call = "get" /\ new.read = docs /\ new.proto = client[c].proto
      /\ new.since = client[c].since /\ new.known = client[c].known /\ new.todo = client[c].todo
      /\ new.synced = client[c].synced /\ new.highest = client[c].highest
  BY Stepping DEF Client, Calls
<1>. HIDE DEF new
<1>3. client'[c] = new
  BY <1>1, Stepping
<1>4. ClientShape(c)'
  BY <1>0, <1>2, <1>3, Stepping, ClientTypes DEF ClientShape, Unwritten, Protocols
<1>5. c \notin raced => ReadHolds(c)' /\ ChangesOK(c)' /\ QueryOK(c)' /\ QresyncOK(c)'
  <2>. SUFFICES ASSUME c \notin raced PROVE ReadHolds(c)' /\ ChangesOK(c)' /\ QueryOK(c)' /\ QresyncOK(c)'
    OBVIOUS
  <2>1. ChangesOK(c) /\ QueryOK(c)
    BY Stepping
  <2>2. ReadHolds(c)'
    BY <1>0, <1>2, <1>3 DEF ReadHolds, Unwritten
  <2>3. KnownBorn(c) => KnownBorn(c)'
    BY <1>0, <1>2, <1>3, Unmoved DEF KnownBorn, Unwritten
  <2>4. ChangesOK(c)'
    BY <1>0, <1>2, <1>3, <2>1, <2>3, Unmoved DEF ChangesOK, Unwritten
  <2>5. QueryOK(c)'
    BY <1>0, <1>2, <1>3, <2>1, Unmoved DEF QueryOK, Unwritten
  <2>6. QresyncOK(c)'
    BY <1>0, <1>2, <1>3 DEF QresyncOK
  <2>. QED  BY <2>2, <2>4, <2>5, <2>6
<1>6. ClientOK(c)'
  BY <1>0, <1>4, <1>5 DEF ClientOK
<1>7. Reaches(new)
  BY <1>2, Stepping, ClientTypes DEF Reaches
<1>. QED  BY <1>0, <1>1, <1>2, <1>6, <1>7, ClientStep

LEMMA EmailGetStateStep ==
    ASSUME SyncInv, NEW c \in Clients, EmailGetState(c)
    PROVE  SyncInv'
<1>. DEFINE new == [client[c] EXCEPT !.call = "none", !.since = counter, !.known = client[c].read,
                                     !.read = Nothing, !.synced = TRUE]
<1>0. Unwritten /\ raced' = raced /\ client[c].call = "get" /\ client[c].proto # "qresync"
  BY Stepping DEF EmailGetState, Unwritten, ClientShape
<1>1. client' = [client EXCEPT ![c] = new]
  BY Stepping DEF EmailGetState
<1>2. /\ new \in Client /\ new.call = "none" /\ new.proto = client[c].proto
      /\ new.since = counter /\ new.known = client[c].read /\ new.todo = client[c].todo
      /\ new.synced = TRUE /\ new.highest = client[c].highest
  <2>1. client[c].read \in [Ids -> 0..MaxId]
    BY Stepping, ClientTypes
  <2>. QED  BY <2>1, Stepping DEF Client, Calls
<1>. HIDE DEF new
<1>3. client'[c] = new
  BY <1>1, Stepping
<1>4. ClientShape(c)'
  BY <1>0, <1>2, <1>3, Stepping, ClientTypes DEF ClientShape, Unwritten, Protocols
<1>5. c \notin raced => ReadHolds(c)' /\ ChangesOK(c)' /\ QueryOK(c)' /\ QresyncOK(c)'
  <2>. SUFFICES ASSUME c \notin raced PROVE ReadHolds(c)' /\ ChangesOK(c)' /\ QueryOK(c)' /\ QresyncOK(c)'
    OBVIOUS
  <2>1. client[c].read = docs
    BY <1>0, Stepping DEF ReadHolds
  <2>2. ReadHolds(c)'
    BY <1>2, <1>3 DEF ReadHolds
  <2>3. client[c].proto = "changes" => KnownBorn(c)'
    <3>. SUFFICES ASSUME client[c].proto = "changes", NEW d \in Ids, docs[d] # 0
                  PROVE  /\ Born(d)'
                         /\ \A i \in Ids : log[i] = [doc |-> d, kind |-> "Insert"] => i <= counter
      <4>1. client[c].proto = "changes" => client[c].todo = {}
        BY <1>0, Stepping DEF ClientShape
      <4>. QED  BY <1>0, <1>2, <1>3, <2>1, <4>1 DEF KnownBorn, Unwritten
    <3>1. WrittenBefore
      BY Stepping DEF LogInv
    <3>2. [doc |-> d, kind |-> "Insert"] # NoEntry
      BY IdType DEF NoEntry
    <3>. QED  BY <1>0, <3>1, <3>2, Unmoved DEF WrittenBefore
  <2>4. ChangesOK(c)'
    BY <1>0, <1>2, <1>3, <2>1, <2>3 DEF ChangesOK, Unwritten
  <2>5. QueryOK(c)'
    BY <1>0, <1>2, <1>3, <2>1 DEF QueryOK, Unwritten
  <2>6. QresyncOK(c)'
    BY <1>0, <1>2, <1>3 DEF QresyncOK
  <2>. QED  BY <2>2, <2>4, <2>5, <2>6
<1>6. ClientOK(c)'
  BY <1>0, <1>4, <1>5 DEF ClientOK
<1>7. Reaches(new)
  BY <1>2, Stepping DEF Reaches
<1>. QED  BY <1>0, <1>1, <1>2, <1>6, <1>7, ClientStep

(* The floor refuses, or the log may be read. *)
LEMMA AskStep ==
    ASSUME SyncInv, NEW c \in Clients, EmailChanges(c) \/ QueryChanges(c)
    PROVE  SyncInv'
<1>. DEFINE next == IF client[c].proto = "changes" THEN "page" ELSE "entries"
            asked == [client[c] EXCEPT !.call = next]
            refused == [client[c] EXCEPT !.synced = FALSE]
<1>0. /\ Unwritten /\ client[c].proto \in {"changes", "query"} /\ client[c].call = "none"
      /\ client[c].synced
  BY DEF EmailChanges, QueryChanges, Unwritten
<1>1. \/ client' = [client EXCEPT ![c] = asked] /\ raced' = raced /\ client[c].since >= floor
      \/ client' = [client EXCEPT ![c] = refused] /\ raced' = raced
      \/ client' = [client EXCEPT ![c] = asked] /\ raced' = raced \cup {c}
  <2>1. AskFloor(c, next)
    BY DEF EmailChanges, QueryChanges
  <2>2. client[c] \in Client /\ client \in [Clients -> Client]
    BY Stepping
  <2>. QED  BY <2>1, <2>2 DEF AskFloor, CanCalculate
<1>2. /\ asked \in Client /\ asked.call = next /\ asked.proto = client[c].proto
      /\ asked.since = client[c].since /\ asked.known = client[c].known
      /\ asked.todo = client[c].todo /\ asked.highest = client[c].highest
      /\ asked.synced = client[c].synced
  BY Stepping DEF Client, Calls
<1>3. /\ refused \in Client /\ refused.call = "none" /\ refused.proto = client[c].proto
      /\ refused.since = client[c].since /\ refused.known = client[c].known
      /\ refused.todo = client[c].todo /\ refused.highest = client[c].highest
      /\ refused.synced = FALSE
  BY <1>0, Stepping DEF Client
<1>. HIDE DEF asked, refused
<1>4. PICK new \in {asked, refused} :
        /\ client' = [client EXCEPT ![c] = new] /\ (raced' = raced \/ raced' = raced \cup {c})
        /\ c \notin raced' => c \notin raced /\ (new = refused \/ client[c].since >= floor)
  BY <1>1
<1>5. /\ new \in Client /\ new.call \in {"none", next} /\ new.proto = client[c].proto
      /\ new.since = client[c].since /\ new.known = client[c].known
      /\ new.todo = client[c].todo /\ new.highest = client[c].highest
      /\ new.synced => client[c].synced
      /\ new = refused => new.call = "none"
      /\ new.call # "none" => new.synced
  BY <1>0, <1>2, <1>3
<1>6. client'[c] = new
  BY <1>4, Stepping
<1>7. ClientShape(c)'
  BY <1>0, <1>5, <1>6, Stepping DEF ClientShape, Unwritten
<1>8. c \notin raced' => ReadHolds(c)' /\ ChangesOK(c)' /\ QueryOK(c)' /\ QresyncOK(c)'
  <2>. SUFFICES ASSUME c \notin raced' PROVE ReadHolds(c)' /\ ChangesOK(c)' /\ QueryOK(c)' /\ QresyncOK(c)'
    OBVIOUS
  <2>1. ChangesOK(c) /\ QueryOK(c) /\ new.call \in {"none", "page", "entries"}
    BY <1>4, <1>5, Stepping
  <2>2. ReadHolds(c)'
    BY <1>0, <1>4, <1>5, <1>6, <2>1 DEF ReadHolds, Unwritten
  <2>3. KnownBorn(c) => KnownBorn(c)'
    BY <1>0, <1>5, <1>6, Unmoved DEF KnownBorn, Unwritten
  <2>4. ChangesOK(c)'
    BY <1>0, <1>5, <1>6, <2>1, <2>3, Unmoved DEF ChangesOK, Unwritten
  <2>5. QueryOK(c)'
    BY <1>0, <1>5, <1>6, <2>1, Unmoved DEF QueryOK, Unwritten
  <2>6. QresyncOK(c)'
    BY <1>0, <1>5, <1>6 DEF QresyncOK
  <2>. QED  BY <2>2, <2>4, <2>5, <2>6
<1>9. ClientOK(c)'
  BY <1>7, <1>8 DEF ClientOK
<1>10. Reaches(new)
  BY <1>5, Stepping, ClientTypes DEF Reaches
<1>. QED  BY <1>0, <1>4, <1>5, <1>9, <1>10, ClientStep

(* Every id after the state is on the page or after the new state. *)
LEMMA PageState ==
    ASSUME LogInv, NEW n \in Nat, n <= counter, NEW max \in Nat,
           NEW page, page = ChangesPage(n, max) \/ page = {}
    PROVE  /\ page \subseteq Since(n) /\ Since(n) \subseteq Ids
           /\ NewState(n, page) \in Nat /\ n <= NewState(n, page) /\ NewState(n, page) <= counter
           /\ \A k \in page : k <= NewState(n, page)
           /\ \A i \in Since(n) : i \in page \/ i > NewState(n, page)
<1>1. page \subseteq Since(n) /\ Since(n) \subseteq Ids
  BY DEF ChangesPage, Since
<1>2. \A i \in Since(n) : i \in Nat /\ i > n /\ i <= counter
  BY IdType DEF Since, LogInv, WrittenBefore
<1>3. CASE page = {}
  BY <1>1, <1>2, <1>3 DEF NewState
<1>4. CASE page # {}
  <2>1. page \in SUBSET Ids
    BY <1>1
  <2>2. NewState(n, page) \in page /\ \A k \in page : k <= NewState(n, page)
    BY <1>4, <2>1, MaxIs DEF NewState
  <2>3. NewState(n, page) \in Since(n)
    BY <1>1, <2>2
  <2>4. \A i \in Since(n) : i \in page \/ NewState(n, page) < i
    <3>1. page = ChangesPage(n, max)
      BY <1>4
    <3>. QED  BY <2>2, <3>1, PageFirst
  <2>5. NewState(n, page) \in Nat /\ NewState(n, page) > n /\ NewState(n, page) <= counter
    BY <1>2, <2>3
  <2>. HIDE DEF NewState
  <2>6. \A i \in Since(n) : i \in page \/ i > NewState(n, page)
    BY <1>2, <2>4, <2>5
  <2>. QED  BY <1>1, <2>2, <2>5, <2>6
<1>. QED  BY <1>3, <1>4

(* The entries of a page say how each message on it must be treated.          *)
LEMMA PageEntries ==
    ASSUME LogInv, NEW n \in Nat, NEW page \in SUBSET Since(n), NEW d \in Ids
    PROVE  /\ (\E k \in page : log[k].doc = d) =>
                In(page, d, "Insert") \/ In(page, d, "Update") \/ In(page, d, "Delete")
           /\ In(page, d, "Insert") \/ In(page, d, "Update") \/ In(page, d, "Delete") =>
                \E k \in page : log[k].doc = d
           /\ d \notin revived /\ In(page, d, "Delete") => docs[d] = 0
<1>1. \A k \in page : k \in Ids /\ log[k] # NoEntry
  BY DEF Since
<1>2. ASSUME NEW k \in page, log[k].doc = d
      PROVE  In(page, d, "Insert") \/ In(page, d, "Update") \/ In(page, d, "Delete")
  <2>1. log[k] \in [doc : Ids, kind : Kinds]
    BY <1>1, LogTypes DEF Entry
  <2>2. log[k] = [doc |-> d, kind |-> log[k].kind] /\ log[k].kind \in Kinds
    BY <1>2, <2>1
  <2>. QED  BY <2>2 DEF In, Kinds
<1>3. \A kind : In(page, d, kind) => \E k \in page : log[k].doc = d
  <2>. SUFFICES ASSUME NEW kind, NEW k \in page, log[k] = [doc |-> d, kind |-> kind]
                PROVE  log[k].doc = d
    BY DEF In
  <2>. QED  OBVIOUS
<1>4. d \notin revived /\ In(page, d, "Delete") => docs[d] = 0
  BY <1>1 DEF In, LogInv, DeleteFinal
<1>. QED  BY <1>2, <1>3, <1>4

LEMMA FetchStep ==
    ASSUME SyncInv, NEW c \in Clients, FetchChanged(c)
    PROVE  SyncInv'
<1>. DEFINE known == [d \in Ids |-> IF d \in client[c].todo THEN docs[d] ELSE client[c].known[d]]
            new == [client[c] EXCEPT !.call = "none", !.todo = {}, !.known = known]
<1>0. Unwritten /\ raced' = raced /\ client[c].call = "fetch" /\ client[c].proto = "changes"
  BY Stepping, ClientTypes DEF FetchChanged, Unwritten, ClientShape, Protocols
<1>1. client' = [client EXCEPT ![c] = new]
  BY Stepping DEF FetchChanged
<1>2. known \in [Ids -> 0..MaxId]
  BY Stepping, ClientTypes
<1>3. /\ new \in Client /\ new.call = "none" /\ new.proto = "changes"
      /\ new.since = client[c].since /\ new.known = known /\ new.todo = {}
      /\ new.synced = client[c].synced /\ new.highest = client[c].highest
  <2>. HIDE DEF known
  <2>. QED  BY <1>0, <1>2, Stepping DEF Client, Calls
<1>. HIDE DEF new
<1>4. client'[c] = new
  BY <1>1, Stepping
<1>5. ClientShape(c)'
  BY <1>0, <1>3, <1>4, Stepping DEF ClientShape, Unwritten
<1>6. c \notin raced => ReadHolds(c)' /\ ChangesOK(c)' /\ QueryOK(c)' /\ QresyncOK(c)'
  <2>. SUFFICES ASSUME c \notin raced PROVE ReadHolds(c)' /\ ChangesOK(c)' /\ QueryOK(c)' /\ QresyncOK(c)'
    OBVIOUS
  <2>1. ChangesOK(c)
    BY Stepping
  <2>2. KnownBorn(c) => KnownBorn(c)'
    <3>. SUFFICES ASSUME KnownBorn(c), NEW d \in Ids, known[d] # 0
                  PROVE  Born(d) /\ \A i \in Ids : log[i] = [doc |-> d, kind |-> "Insert"] =>
                                                     i <= client[c].since
      BY <1>0, <1>3, <1>4, Unmoved DEF KnownBorn, Unwritten
    <3>. QED  BY DEF KnownBorn
  <2>3. \A d \in Ids : known[d] # docs[d] => d \notin client[c].todo /\ client[c].known[d] # docs[d]
    OBVIOUS
  <2>. HIDE DEF known
  <2>4. ChangesOK(c)'
    BY <1>0, <1>3, <1>4, <2>1, <2>2, <2>3, Unmoved DEF ChangesOK, Unwritten
  <2>5. ReadHolds(c)' /\ QueryOK(c)' /\ QresyncOK(c)'
    BY <1>3, <1>4 DEF ReadHolds, QueryOK, QresyncOK
  <2>. QED  BY <2>4, <2>5
<1>7. ClientOK(c)'
  BY <1>0, <1>5, <1>6 DEF ClientOK
<1>8. Reaches(new)
  BY <1>0, <1>3, Stepping, ClientTypes DEF Reaches
<1>. QED  BY <1>0, <1>1, <1>3, <1>7, <1>8, ClientStep

(* What a page leaves wrong is after the state it brings.                     *)
LEMMA PageStep ==
    ASSUME SyncInv, NEW c \in Clients, NEW max \in Pages, EmailChangesPage(c, max)
    PROVE  SyncInv'
<1>. DEFINE since == client[c].since
<1>0. Unwritten /\ raced' = raced /\ client[c].call = "page" /\ client[c].proto = "changes"
  BY Stepping, ClientTypes DEF EmailChangesPage, Unwritten, ClientShape, Protocols
<1>1. PICK page \in {ChangesPage(since, max), {}} :
        client' = [client EXCEPT
             ![c].call = "fetch",
             ![c].since = NewState(client[c].since, page),
             ![c].todo = Created(page) \cup Updated(page),
             ![c].known = [d \in Ids |->
                IF d \in Destroyed(page) THEN 0 ELSE client[c].known[d]]]
  BY DEF EmailChangesPage
<1>. DEFINE known == [d \in Ids |-> IF d \in Destroyed(page) THEN 0 ELSE client[c].known[d]]
            todo == Created(page) \cup Updated(page)
            state == NewState(since, page)
            new == [client[c] EXCEPT !.call = "fetch", !.since = state, !.todo = todo, !.known = known]
<1>2. since \in Nat /\ since <= counter /\ max \in Nat
  BY <1>0, Stepping, ClientTypes, SyncAssumption DEF Reaches
<1>3. /\ page \subseteq Since(since) /\ Since(since) \subseteq Ids
      /\ state \in Nat /\ since <= state /\ state <= counter
      /\ \A k \in page : k <= state
      /\ \A i \in Since(since) : i \in page \/ i > state
  BY <1>2, Stepping, PageState
<1>4. client' = [client EXCEPT ![c] = new]
  BY <1>1, Stepping
<1>5. known \in [Ids -> 0..MaxId] /\ todo \in SUBSET Ids /\ state \in 0..MaxId
  <2>1. known \in [Ids -> 0..MaxId]
    BY Stepping, ClientTypes
  <2>2. todo \in SUBSET Ids
    BY DEF Created, Updated
  <2>3. state \in 0..MaxId
    BY <1>3, Stepping, IdType
  <2>. QED  BY <2>1, <2>2, <2>3
<1>. HIDE DEF state
<1>6. /\ new \in Client /\ new.call = "fetch" /\ new.proto = "changes"
      /\ new.since = state /\ new.known = known /\ new.todo = todo
      /\ new.synced = client[c].synced /\ new.highest = client[c].highest
  <2>. HIDE DEF known, todo
  <2>1. client[c] \in Client /\ "fetch" \in Calls
    BY Stepping DEF Calls
  <2>2. /\ new \in Client /\ new.call = "fetch" /\ new.since = state /\ new.known = known
        /\ new.todo = todo
    BY <1>5, <2>1 DEF Client
  <2>3. /\ new.proto = client[c].proto /\ new.synced = client[c].synced
        /\ new.highest = client[c].highest
    BY <2>1 DEF Client
  <2>. QED  BY <1>0, <2>2, <2>3
<1>. HIDE DEF new
<1>7. client'[c] = new
  BY <1>4, Stepping
<1>8. ClientShape(c)'
  BY <1>0, <1>6, <1>7, Stepping DEF ClientShape, Unwritten
<1>9. c \notin raced => ReadHolds(c)' /\ ChangesOK(c)' /\ QueryOK(c)' /\ QresyncOK(c)'
  <2>. SUFFICES ASSUME c \notin raced PROVE ReadHolds(c)' /\ ChangesOK(c)' /\ QueryOK(c)' /\ QresyncOK(c)'
    OBVIOUS
  <2>0. LogInv /\ page \in SUBSET Since(since)
    BY <1>3, Stepping
  <2>1. /\ client[c].todo = {} /\ since >= floor /\ floor \in Nat /\ ChangesOK(c)
    BY <1>0, Stepping DEF ClientShape, ReadHolds
  <2>2. ReadHolds(c)' /\ QueryOK(c)' /\ QresyncOK(c)'
    BY <1>6, <1>7 DEF ReadHolds, QueryOK, QresyncOK
  <2>3. ASSUME KnownBorn(c), NEW d \in Ids, known[d] # 0 \/ d \in todo
        PROVE  Born(d) /\ \A i \in Ids : log[i] = [doc |-> d, kind |-> "Insert"] => i <= state
    <3>1. CASE known[d] # 0
      <4>1. client[c].known[d] # 0
        BY <3>1
      <4>2. Born(d) /\ \A i \in Ids : log[i] = [doc |-> d, kind |-> "Insert"] => i <= since
        BY <2>3, <4>1 DEF KnownBorn
      <4>. QED  BY <1>2, <1>3, <4>2, IdType
    <3>2. CASE d \in todo
      <4>1. PICK k \in page : log[k].doc = d
        <5>1. In(page, d, "Insert") \/ In(page, d, "Update")
          BY <3>2 DEF Created, Updated
        <5>. QED  BY <1>2, <2>0, <5>1, PageEntries
      <4>2. k \in Ids /\ log[k] # NoEntry /\ k \in Nat /\ k <= state
        BY <1>3, <4>1, IdType DEF Since
      <4>3. Born(d)
        BY <2>0, <4>1, <4>2 DEF LogInv, WrittenBefore
      <4>4. ASSUME NEW i \in Ids, log[i] = [doc |-> d, kind |-> "Insert"] PROVE i <= state
        <5>1. log[i].kind = "Insert" /\ log[i].doc = d /\ i \in Nat
          BY <4>4, IdType
        <5>2. i = k \/ i < k
          BY <2>0, <4>1, <4>2, <5>1 DEF LogInv, InsertFirst
        <5>. QED  BY <1>3, <4>2, <5>1, <5>2
      <4>. QED  BY <4>3, <4>4
    <3>. QED  BY <2>3, <3>1, <3>2
  <2>4. KnownBorn(c) => KnownBorn(c)'
    <3>. HIDE DEF known, todo
    <3>. QED  BY <1>0, <1>6, <1>7, <2>3, Unmoved DEF KnownBorn, Unwritten
  <2>5. ASSUME client[c].synced, NEW d \in Ids, d \notin revived, d \notin todo, known[d] # docs[d]
        PROVE  Entered(state, d)
    <3>0. /\ KnownBorn(c)
          /\ client[c].known[d] # docs[d] => Entered(since, d)
      BY <1>0, <2>1, <2>5 DEF ChangesOK
    <3>1. CASE \E k \in page : log[k].doc = d
      <4>1. In(page, d, "Delete")
        <5>1. In(page, d, "Insert") \/ In(page, d, "Update") \/ In(page, d, "Delete")
          BY <1>2, <2>0, <3>1, PageEntries
        <5>. QED  BY <2>5, <5>1 DEF Created, Updated
      <4>2. docs[d] = 0
        BY <1>2, <2>0, <2>5, <4>1, PageEntries
      <4>3. In(page, d, "Insert") /\ client[c].known[d] # 0
        BY <2>5, <4>1, <4>2 DEF Destroyed
      <4>4. PICK i \in page : log[i] = [doc |-> d, kind |-> "Insert"]
        BY <4>3 DEF In
      <4>5. i \in Ids /\ i > since /\ i \in Nat
        BY <1>3, IdType DEF Since
      <4>6. i <= since
        BY <3>0, <4>3, <4>4, <4>5 DEF KnownBorn
      <4>. QED  BY <1>2, <4>5, <4>6
    <3>2. CASE ~ \E k \in page : log[k].doc = d
      <4>1. d \notin Destroyed(page)
        BY <1>2, <2>0, <3>2, PageEntries DEF Destroyed
      <4>2. Entered(since, d)
        BY <2>5, <3>0, <4>1
      <4>3. PICK i \in Ids : i > since /\ log[i].doc = d
        BY <1>2, <2>1, <4>2 DEF Entered
      <4>4. i \in Since(since)
        BY <4>3, IdType DEF Since, NoEntry
      <4>5. i > state
        BY <1>3, <3>2, <4>3, <4>4
      <4>. QED  BY <4>3, <4>5 DEF Entered
    <3>. QED  BY <3>1, <3>2
  <2>6. ChangesOK(c)'
    <3>. HIDE DEF known, todo
    <3>. QED  BY <1>0, <1>6, <1>7, <2>1, <2>4, <2>5, Unmoved DEF ChangesOK, Unwritten
  <2>. QED  BY <2>2, <2>6
<1>10. ClientOK(c)'
  BY <1>0, <1>8, <1>9 DEF ClientOK
<1>11. Reaches(new)
  BY <1>3, <1>6 DEF Reaches
<1>. QED  BY <1>0, <1>4, <1>6, <1>10, <1>11, ClientStep

LEMMA LastOfIs ==
    ASSUME NEW page \in SUBSET Ids, NEW d, NEW k \in page, log[k].doc = d
    PROVE  LastOf(page, d) \in page /\ log[LastOf(page, d)].doc = d
<1>. DEFINE S == {i \in page : log[i].doc = d}
<1>1. S \in SUBSET Ids /\ S # {}
  OBVIOUS
<1>. HIDE DEF S
<1>2. Max(S) \in S /\ \A y \in S : y <= Max(S)
  BY <1>1, MaxIs
<1>3. \E i \in page : log[i].doc = d /\ \A x \in page : log[x].doc = d => x <= i
  BY <1>2 DEF S
<1>. QED  BY <1>3 DEF LastOf

LEMMA QueryEntriesStep ==
    ASSUME SyncInv, NEW c \in Clients, QueryEntries(c)
    PROVE  SyncInv'
<1>. DEFINE since == client[c].since
<1>0. Unwritten /\ client[c].call = "entries" /\ client[c].proto = "query"
  BY Stepping, ClientTypes DEF QueryEntries, Unwritten, ClientShape, Protocols
<1>1. PICK page \in {Since(since), {}} :
        /\ client' = [client EXCEPT
                   ![c].call = "ids",
                   ![c].todo = {d \in {log[i].doc : i \in page} :
                                  log[LastOf(page, d)].kind # "Delete"},
                   ![c].gone = Removed(page)]
        /\ raced' = IF page = Since(since) THEN raced ELSE raced \cup {c}
  BY DEF QueryEntries
<1>. DEFINE todo == {d \in {log[i].doc : i \in page} : log[LastOf(page, d)].kind # "Delete"}
            gone == Removed(page)
            new == [client[c] EXCEPT !.call = "ids", !.todo = todo, !.gone = gone]
<1>2. client' = [client EXCEPT ![c] = new]
  BY <1>1, Stepping
<1>3. page \subseteq Since(since) /\ page \in SUBSET Ids /\ LogInv /\ since \in Nat
  BY Stepping, ClientTypes DEF Since
<1>4. todo \in SUBSET Ids /\ gone \in SUBSET Ids
  <2>1. \A i \in page : log[i].doc \in Ids
    <3>1. \A i \in page : log[i] \in Entry /\ log[i] # NoEntry
      BY <1>3, LogTypes DEF Since
    <3>. QED  BY <3>1 DEF Entry
  <2>. QED  BY <2>1 DEF Removed
<1>5. /\ new \in Client /\ new.call = "ids" /\ new.proto = "query"
      /\ new.since = since /\ new.known = client[c].known /\ new.todo = todo /\ new.gone = gone
      /\ new.synced = client[c].synced /\ new.highest = client[c].highest
  <2>. HIDE DEF todo, gone
  <2>. QED  BY <1>0, <1>4, Stepping DEF Client, Calls
<1>. HIDE DEF new
<1>6. client'[c] = new
  BY <1>2, Stepping
<1>7. ClientShape(c)'
  BY <1>0, <1>5, <1>6, Stepping DEF ClientShape, Unwritten
<1>8. c \notin raced' => ReadHolds(c)' /\ ChangesOK(c)' /\ QueryOK(c)' /\ QresyncOK(c)'
  <2>. SUFFICES ASSUME c \notin raced' PROVE ReadHolds(c)' /\ ChangesOK(c)' /\ QueryOK(c)' /\ QresyncOK(c)'
    OBVIOUS
  <2>1. page = Since(since) /\ c \notin raced
    BY <1>1
  <2>2. since >= floor /\ floor \in Nat /\ QueryOK(c)
    BY <1>0, <2>1, Stepping DEF ReadHolds
  <2>3. ReadHolds(c)' /\ ChangesOK(c)' /\ QresyncOK(c)'
    BY <1>5, <1>6 DEF ReadHolds, ChangesOK, QresyncOK
  <2>4. client[c].synced
    BY <1>0, Stepping DEF ClientShape
  <2>5. ASSUME NEW d \in Ids, d \notin revived
        PROVE  \/ d \in todo /\ docs[d] # 0
               \/ d \in gone /\ docs[d] = 0
               \/ d \notin gone /\ ~(d \in todo /\ docs[d] # 0) /\
                    (client[c].known[d] = 0 <=> docs[d] = 0)
    <3>1. CASE \E k \in page : log[k].doc = d
      <4>1. PICK k \in page : log[k].doc = d
        BY <3>1
      <4>. DEFINE last == LastOf(page, d)
      <4>2. last \in page /\ log[last].doc = d
        BY <1>3, <4>1, LastOfIs
      <4>3. CASE log[last].kind # "Delete"
        <5>1. d \in todo
          BY <4>1, <4>3
        <5>2. docs[d] = 0 => d \in gone
          <6>. SUFFICES ASSUME docs[d] = 0, ~In(page, d, "Update"), ~In(page, d, "Delete") PROVE FALSE
            BY DEF Removed
          <6>1. In(page, d, "Insert")
            BY <1>3, <3>1, PageEntries
          <6>2. PICK i \in page : log[i] = [doc |-> d, kind |-> "Insert"]
            BY <6>1 DEF In
          <6>3. i \in Ids /\ i > since /\ i \in Nat
            BY <1>3, IdType DEF Since
          <6>4. PICK x \in Ids : log[x] = [doc |-> d, kind |-> "Delete"]
            BY <1>3, <6>2, <6>3 DEF LogInv, InsertUndone
          <6>5. log[x].doc = log[i].doc /\ log[i].kind = "Insert" /\ x # i
            BY <6>2, <6>4
          <6>6. i < x
            BY <1>3, <6>3, <6>5 DEF LogInv, InsertFirst
          <6>7. x > since
            BY <1>3, <6>3, <6>6, IdType
          <6>8. log[x] # NoEntry
            BY <6>4 DEF NoEntry
          <6>9. x \in page
            BY <2>1, <6>7, <6>8 DEF Since
          <6>. QED  BY <6>4, <6>9 DEF In
        <5>. QED  BY <5>1, <5>2
      <4>4. CASE log[last].kind = "Delete"
        <5>1. In(page, d, "Delete")
          <6>1. last \in Ids /\ log[last] \in Entry /\ log[last] # NoEntry
            BY <1>3, <4>2, LogTypes DEF Since
          <6>2. log[last] = [doc |-> d, kind |-> "Delete"]
            BY <4>2, <4>4, <6>1 DEF Entry
          <6>. QED  BY <4>2, <6>2 DEF In
        <5>2. docs[d] = 0
          BY <1>3, <2>5, <5>1, PageEntries
        <5>. QED  BY <5>1, <5>2 DEF Removed
      <4>. QED  BY <4>3, <4>4
    <3>2. CASE ~ \E k \in page : log[k].doc = d
      <4>1. d \notin gone /\ d \notin todo
        BY <1>3, <3>2, PageEntries DEF Removed
      <4>2. ~Entered(since, d)
        <5>. SUFFICES ASSUME NEW i \in Ids, i > since, log[i].doc = d PROVE FALSE
          BY <1>3, <2>2 DEF Entered
        <5>1. i \in page
          BY <2>1, IdType DEF Since, NoEntry
        <5>. QED  BY <3>2, <5>1
      <4>. QED  BY <1>0, <2>2, <2>4, <2>5, <4>1, <4>2 DEF QueryOK
    <3>. QED  BY <3>1, <3>2
  <2>6. QueryOK(c)'
    <3>. HIDE DEF todo, gone
    <3>. QED  BY <1>0, <1>5, <1>6, <2>2, <2>5, Unmoved DEF QueryOK, Settles, Unwritten
  <2>. QED  BY <2>3, <2>6
<1>9. ClientOK(c)'
  BY <1>7, <1>8 DEF ClientOK
<1>10. Reaches(new)
  BY <1>0, <1>5, Stepping, ClientTypes DEF Reaches
<1>11. raced' = raced \/ raced' = raced \cup {c}
  BY <1>1
<1>. QED  BY <1>0, <1>2, <1>5, <1>9, <1>10, <1>11, ClientStep

LEMMA QueryIdsStep ==
    ASSUME SyncInv, NEW c \in Clients, QueryIds(c)
    PROVE  SyncInv'
<1>. DEFINE read == [d \in Ids |->
              IF d \in client[c].todo /\ docs[d] # 0 THEN docs[d]
              ELSE IF d \in client[c].gone THEN 0 ELSE client[c].known[d]]
            new == [client[c] EXCEPT !.call = "state", !.read = read]
<1>0. Unwritten /\ raced' = raced /\ client[c].call = "ids" /\ client[c].proto = "query"
  BY Stepping, ClientTypes DEF QueryIds, Unwritten, ClientShape, Protocols
<1>1. client' = [client EXCEPT ![c] = new]
  BY Stepping DEF QueryIds
<1>2. read \in [Ids -> 0..MaxId]
  BY Stepping, ClientTypes
<1>3. /\ new \in Client /\ new.call = "state" /\ new.proto = "query"
      /\ new.since = client[c].since /\ new.known = client[c].known /\ new.read = read
      /\ new.synced = client[c].synced /\ new.highest = client[c].highest
  <2>. HIDE DEF read
  <2>. QED  BY <1>0, <1>2, Stepping DEF Client, Calls
<1>. HIDE DEF new
<1>4. client'[c] = new
  BY <1>1, Stepping
<1>5. ClientShape(c)'
  BY <1>0, <1>3, <1>4, Stepping DEF ClientShape, Unwritten
<1>6. c \notin raced => ReadHolds(c)' /\ ChangesOK(c)' /\ QueryOK(c)' /\ QresyncOK(c)'
  <2>. SUFFICES ASSUME c \notin raced PROVE ReadHolds(c)' /\ ChangesOK(c)' /\ QueryOK(c)' /\ QresyncOK(c)'
    OBVIOUS
  <2>1. QueryOK(c)
    BY Stepping
  <2>2. \A d \in Ids \ revived : read[d] = 0 <=> docs[d] = 0
    BY <1>0, <2>1 DEF QueryOK, Settles
  <2>. HIDE DEF read
  <2>3. QueryOK(c)'
    BY <1>0, <1>3, <1>4, <2>1, <2>2, Unmoved DEF QueryOK, Unwritten
  <2>4. ReadHolds(c)' /\ ChangesOK(c)' /\ QresyncOK(c)'
    BY <1>3, <1>4 DEF ReadHolds, ChangesOK, QresyncOK
  <2>. QED  BY <2>3, <2>4
<1>7. ClientOK(c)'
  BY <1>0, <1>5, <1>6 DEF ClientOK
<1>8. Reaches(new)
  BY <1>0, <1>3, Stepping, ClientTypes DEF Reaches
<1>. QED  BY <1>0, <1>1, <1>3, <1>7, <1>8, ClientStep

LEMMA QueryStateStep ==
    ASSUME SyncInv, NEW c \in Clients, QueryState(c)
    PROVE  SyncInv'
<1>. DEFINE new == [client[c] EXCEPT !.call = "none", !.since = counter, !.known = client[c].read,
                                     !.read = Nothing, !.todo = {}, !.gone = {}]
<1>0. Unwritten /\ raced' = raced /\ client[c].call = "state" /\ client[c].proto = "query"
  BY Stepping, ClientTypes DEF QueryState, Unwritten, ClientShape, Protocols
<1>1. client' = [client EXCEPT ![c] = new]
  BY Stepping DEF QueryState
<1>2. client[c].read \in [Ids -> 0..MaxId]
  BY Stepping, ClientTypes
<1>3. /\ new \in Client /\ new.call = "none" /\ new.proto = "query"
      /\ new.since = counter /\ new.known = client[c].read
      /\ new.synced = client[c].synced /\ new.highest = client[c].highest
  BY <1>0, <1>2, Stepping DEF Client, Calls
<1>. HIDE DEF new
<1>4. client'[c] = new
  BY <1>1, Stepping
<1>5. ClientShape(c)'
  BY <1>0, <1>3, <1>4, Stepping DEF ClientShape, Unwritten
<1>6. c \notin raced => ReadHolds(c)' /\ ChangesOK(c)' /\ QueryOK(c)' /\ QresyncOK(c)'
  <2>. SUFFICES ASSUME c \notin raced PROVE ReadHolds(c)' /\ ChangesOK(c)' /\ QueryOK(c)' /\ QresyncOK(c)'
    OBVIOUS
  <2>1. \A d \in Ids \ revived : client[c].read[d] = 0 <=> docs[d] = 0
    BY <1>0, Stepping DEF QueryOK
  <2>2. QueryOK(c)'
    BY <1>0, <1>3, <1>4, <2>1 DEF QueryOK, Unwritten
  <2>3. ReadHolds(c)' /\ ChangesOK(c)' /\ QresyncOK(c)'
    BY <1>3, <1>4 DEF ReadHolds, ChangesOK, QresyncOK
  <2>. QED  BY <2>2, <2>3
<1>7. ClientOK(c)'
  BY <1>0, <1>5, <1>6 DEF ClientOK
<1>8. Reaches(new)
  BY <1>3, Stepping DEF Reaches
<1>. QED  BY <1>0, <1>1, <1>3, <1>7, <1>8, ClientStep

LEMMA SelectStep ==
    ASSUME SyncInv, NEW c \in Clients, Select(c)
    PROVE  SyncInv'
<1>. DEFINE next == IF client[c].synced THEN "vanished" ELSE "flags"
            new == [client[c] EXCEPT !.highest = HighestModseq, !.call = next]
<1>0. Unwritten /\ client[c].call = "none" /\ client[c].proto = "qresync"
  BY DEF Select, Unwritten
<1>1. client' = [client EXCEPT ![c] = new]
  BY Stepping DEF Select
<1>2. /\ next \in Calls /\ next \in {"vanished", "flags"} /\ (client[c].synced <=> next = "vanished")
      /\ HighestModseq \in 0..MaxId /\ counter <= HighestModseq /\ 1 <= HighestModseq
      /\ HighestModseq <= counter \/ HighestModseq = 1
  BY Stepping, SyncAssumption DEF Calls, HighestModseq
<1>3. /\ new \in Client /\ new.call = next /\ new.proto = "qresync"
      /\ new.since = client[c].since /\ new.known = client[c].known
      /\ new.synced = client[c].synced /\ new.highest = HighestModseq
  <2>. HIDE DEF next
  <2>. QED  BY <1>0, <1>2, Stepping DEF Client
<1>. HIDE DEF new, next
<1>4. client'[c] = new
  BY <1>1, Stepping
<1>5. /\ raced' = raced \/ raced' = raced \cup {c}
      /\ c \notin raced' /\ client[c].synced => client[c].since >= floor /\ client[c].since >= vfloor
      /\ c \notin raced' => c \notin raced
  <2>1. client[c].since \in Nat /\ floor \in Nat /\ vfloor \in Nat
    BY Stepping, ClientTypes
  <2>. QED  BY <2>1 DEF Select
<1>6. ClientShape(c)'
  <2>1. client[c].since <= HighestModseq
    BY <1>2, Stepping, ClientTypes DEF Reaches
  <2>. QED  BY <1>0, <1>2, <1>3, <1>4, <2>1, Stepping DEF ClientShape, Unwritten
<1>7. c \notin raced' => ReadHolds(c)' /\ ChangesOK(c)' /\ QueryOK(c)' /\ QresyncOK(c)'
  <2>. SUFFICES ASSUME c \notin raced' PROVE ReadHolds(c)' /\ ChangesOK(c)' /\ QueryOK(c)' /\ QresyncOK(c)'
    OBVIOUS
  <2>1. QresyncOK(c)
    BY <1>5, Stepping
  <2>2. ReadHolds(c)'
    BY <1>0, <1>2, <1>3, <1>4, <1>5 DEF ReadHolds, Unwritten
  <2>3. ChangesOK(c)' /\ QueryOK(c)'
    BY <1>2, <1>3, <1>4 DEF ChangesOK, QueryOK
  <2>4. QresyncOK(c)'
    BY <1>0, <1>2, <1>3, <1>4, <2>1, Unmoved DEF QresyncOK, Unwritten
  <2>. QED  BY <2>2, <2>3, <2>4
<1>8. ClientOK(c)'
  BY <1>6, <1>7 DEF ClientOK
<1>9. Reaches(new)
  BY <1>3, Stepping, ClientTypes DEF Reaches
<1>. QED  BY <1>0, <1>1, <1>3, <1>5, <1>8, <1>9, ClientStep

LEMMA ReplayVanishedStep ==
    ASSUME SyncInv, NEW c \in Clients, ReplayVanished(c)
    PROVE  SyncInv'
<1>. DEFINE uids == {vanished[i] : i \in {k \in Ids : k > client[c].since}}
            known == [d \in Ids |-> IF d \in uids THEN 0 ELSE client[c].known[d]]
            new == [client[c] EXCEPT !.call = "modseqs", !.known = known]
<1>0. Unwritten /\ raced' = raced /\ client[c].call = "vanished" /\ client[c].proto = "qresync"
  BY Stepping, ClientTypes DEF ReplayVanished, Unwritten, ClientShape, Protocols
<1>1. client' = [client EXCEPT ![c] = new]
  BY Stepping DEF ReplayVanished
<1>2. known \in [Ids -> 0..MaxId]
  BY Stepping, ClientTypes
<1>3. /\ new \in Client /\ new.call = "modseqs" /\ new.proto = "qresync"
      /\ new.since = client[c].since /\ new.known = known
      /\ new.synced = client[c].synced /\ new.highest = client[c].highest
  <2>. HIDE DEF known
  <2>. QED  BY <1>0, <1>2, Stepping DEF Client, Calls
<1>. HIDE DEF new
<1>4. client'[c] = new
  BY <1>1, Stepping
<1>5. ClientShape(c)'
  BY <1>0, <1>3, <1>4, Stepping DEF ClientShape, Unwritten
<1>6. c \notin raced => ReadHolds(c)' /\ ChangesOK(c)' /\ QueryOK(c)' /\ QresyncOK(c)'
  <2>. SUFFICES ASSUME c \notin raced PROVE ReadHolds(c)' /\ ChangesOK(c)' /\ QueryOK(c)' /\ QresyncOK(c)'
    OBVIOUS
  <2>1. /\ QresyncOK(c) /\ client[c].since >= floor /\ client[c].since >= vfloor
        /\ client[c].since \in Nat /\ vfloor \in Nat
    BY <1>0, Stepping, ClientTypes DEF ReadHolds
  <2>2. ReadHolds(c)'
    <3>1. client'[c].call = "modseqs" /\ client'[c].since >= floor'
      BY <1>0, <1>3, <1>4, <2>1 DEF Unwritten
    <3>. QED  BY <3>1 DEF ReadHolds
  <2>3. ChangesOK(c)' /\ QueryOK(c)'
    BY <1>3, <1>4 DEF ChangesOK, QueryOK
  <2>4. ASSUME client[c].synced, NEW d \in Ids, d \notin revived, known[d] # docs[d]
        PROVE  docs[d] # 0 /\ Entered(client[c].since, d)
    <3>1. d \notin uids
      <4>. SUFFICES ASSUME NEW i \in Ids, i > client[c].since, vanished[i] = d PROVE FALSE
        OBVIOUS
      <4>1. docs[d] = 0
        BY <2>4, Stepping DEF LogInv, DeleteFinal
      <4>2. d \in uids
        OBVIOUS
      <4>. QED  BY <2>4, <4>1, <4>2
    <3>2. client[c].known[d] # docs[d]
      BY <2>4, <3>1
    <3>3. ~Buried(client[c].since, d)
      BY <2>1, <3>1 DEF Buried
    <3>. QED  BY <1>0, <2>1, <2>4, <3>2, <3>3 DEF QresyncOK
  <2>5. QresyncOK(c)'
    <3>. HIDE DEF known
    <3>. QED  BY <1>0, <1>3, <1>4, <2>4, Unmoved DEF QresyncOK, Unwritten
  <2>. QED  BY <2>2, <2>3, <2>5
<1>7. ClientOK(c)'
  BY <1>0, <1>5, <1>6 DEF ClientOK
<1>8. Reaches(new)
  BY <1>0, <1>3, Stepping, ClientTypes DEF Reaches
<1>. QED  BY <1>0, <1>1, <1>3, <1>7, <1>8, ClientStep

LEMMA ReadModseqsStep ==
    ASSUME SyncInv, NEW c \in Clients, ReadModseqs(c)
    PROVE  SyncInv'
<1>. DEFINE todo == {d \in Ids : Modseq(d) > client[c].since}
            new == [client[c] EXCEPT !.call = "flags", !.todo = todo]
<1>0. Unwritten /\ raced' = raced /\ client[c].call = "modseqs" /\ client[c].proto = "qresync"
  BY Stepping, ClientTypes DEF ReadModseqs, Unwritten, ClientShape, Protocols
<1>1. client' = [client EXCEPT ![c] = new]
  BY Stepping DEF ReadModseqs
<1>2. todo \in SUBSET Ids
  OBVIOUS
<1>3. /\ new \in Client /\ new.call = "flags" /\ new.proto = "qresync"
      /\ new.since = client[c].since /\ new.known = client[c].known /\ new.todo = todo
      /\ new.synced = client[c].synced /\ new.highest = client[c].highest
  <2>. HIDE DEF todo
  <2>. QED  BY <1>0, <1>2, Stepping DEF Client, Calls
<1>. HIDE DEF new
<1>4. client'[c] = new
  BY <1>1, Stepping
<1>5. ClientShape(c)'
  BY <1>0, <1>3, <1>4, Stepping DEF ClientShape, Unwritten
<1>6. c \notin raced => ReadHolds(c)' /\ ChangesOK(c)' /\ QueryOK(c)' /\ QresyncOK(c)'
  <2>. SUFFICES ASSUME c \notin raced PROVE ReadHolds(c)' /\ ChangesOK(c)' /\ QueryOK(c)' /\ QresyncOK(c)'
    OBVIOUS
  <2>1. /\ QresyncOK(c) /\ client[c].since >= floor /\ client[c].since \in Nat /\ floor \in Nat
    BY <1>0, Stepping, ClientTypes DEF ReadHolds
  <2>2. ReadHolds(c)' /\ ChangesOK(c)' /\ QueryOK(c)'
    BY <1>3, <1>4 DEF ReadHolds, ChangesOK, QueryOK
  <2>3. ASSUME NEW d \in Ids, Entered(client[c].since, d) PROVE d \in todo
    <3>1. PICK i \in Ids : i > client[c].since /\ log[i].doc = d
      BY <2>1, <2>3 DEF Entered
    <3>. DEFINE S == {x \in Ids : log[x].doc = d}
    <3>2. S \in SUBSET Ids /\ S # {} /\ i \in S
      BY <3>1
    <3>3. Modseq(d) = Max(S)
      BY <3>2 DEF Modseq
    <3>. HIDE DEF S
    <3>4. Max(S) \in S /\ i <= Max(S)
      BY <3>2, MaxIs
    <3>5. Max(S) \in Nat /\ i \in Nat
      BY <3>2, <3>4, IdType
    <3>6. Modseq(d) > client[c].since
      BY <2>1, <3>1, <3>3, <3>4, <3>5
    <3>. QED  BY <3>6
  <2>4. QresyncOK(c)'
    <3>. HIDE DEF todo
    <3>. QED  BY <1>0, <1>3, <1>4, <2>1, <2>3, Unmoved DEF QresyncOK, Unwritten
  <2>. QED  BY <2>2, <2>4
<1>7. ClientOK(c)'
  BY <1>0, <1>5, <1>6 DEF ClientOK
<1>8. Reaches(new)
  BY <1>0, <1>3, Stepping, ClientTypes DEF Reaches
<1>. QED  BY <1>0, <1>1, <1>3, <1>7, <1>8, ClientStep

LEMMA ReplayFlagsStep ==
    ASSUME SyncInv, NEW c \in Clients, ReplayFlags(c)
    PROVE  SyncInv'
<1>. DEFINE known == [d \in Ids |->
              IF ~client[c].synced THEN docs[d]
              ELSE IF d \in client[c].todo /\ docs[d] # 0 THEN docs[d]
              ELSE client[c].known[d]]
            new == [client[c] EXCEPT !.call = "none", !.since = client[c].highest, !.highest = 0,
                                     !.todo = {}, !.synced = TRUE, !.known = known]
<1>0. Unwritten /\ raced' = raced /\ client[c].call = "flags" /\ client[c].proto = "qresync"
  BY Stepping, ClientTypes DEF ReplayFlags, Unwritten, ClientShape, Protocols
<1>1. client' = [client EXCEPT ![c] = new]
  BY Stepping DEF ReplayFlags
<1>2. known \in [Ids -> 0..MaxId]
  BY Stepping, ClientTypes
<1>3. /\ new \in Client /\ new.call = "none" /\ new.proto = "qresync"
      /\ new.since = client[c].highest /\ new.known = known
      /\ new.synced = TRUE /\ new.highest = 0
  <2>. HIDE DEF known
  <2>. QED  BY <1>0, <1>2, Stepping DEF Client, Calls
<1>. HIDE DEF new
<1>4. client'[c] = new
  BY <1>1, Stepping
<1>5. ClientShape(c)'
  BY <1>0, <1>3, <1>4, Stepping DEF ClientShape, Unwritten
<1>6. c \notin raced => ReadHolds(c)' /\ ChangesOK(c)' /\ QueryOK(c)' /\ QresyncOK(c)'
  <2>. SUFFICES ASSUME c \notin raced PROVE ReadHolds(c)' /\ ChangesOK(c)' /\ QueryOK(c)' /\ QresyncOK(c)'
    OBVIOUS
  <2>1. QresyncOK(c)
    BY Stepping
  <2>2. ReadHolds(c)' /\ ChangesOK(c)' /\ QueryOK(c)'
    BY <1>3, <1>4 DEF ReadHolds, ChangesOK, QueryOK
  <2>3. ASSUME NEW d \in Ids, d \notin revived, known[d] # docs[d]
        PROVE  /\ docs[d] # 0 => Entered(client[c].highest, d)
               /\ docs[d] = 0 => Buried(client[c].highest, d)
    <3>1. client[c].synced /\ client[c].known[d] # docs[d] /\ (docs[d] # 0 => d \notin client[c].todo)
      BY <2>3
    <3>. QED  BY <1>0, <2>1, <2>3, <3>1 DEF QresyncOK
  <2>4. QresyncOK(c)'
    <3>. HIDE DEF known
    <3>. QED  BY <1>0, <1>3, <1>4, <2>3, Unmoved DEF QresyncOK, Unwritten
  <2>. QED  BY <2>2, <2>4
<1>7. ClientOK(c)'
  BY <1>0, <1>5, <1>6 DEF ClientOK
<1>8. Reaches(new)
  BY <1>3, Stepping DEF ClientShape, Reaches
<1>. QED  BY <1>0, <1>1, <1>3, <1>7, <1>8, ClientStep

----------------------------------------------------------------------------
(* The invariant and what follows from it.                                   *)

LEMMA SyncInit ==
    ASSUME Init
    PROVE  SyncInv
<1>0. /\ counter = 0 /\ floor = 0 /\ vfloor = 0 /\ revived = {} /\ raced = {}
      /\ docs = [d \in Ids |-> 0] /\ log = [i \in Ids |-> NoEntry] /\ vanished = [i \in Ids |-> 0]
      /\ writer = [w \in Writers |-> Idle]
  BY DEF Init
<1>1. PICK p \in [Clients -> Protocols] : client = [c \in Clients |-> NewClient(p[c])]
  BY DEF Init
<1>2. 0 \in 0..MaxId /\ 0 \in Nat /\ MaxId \in Nat /\ NoEntry \in Entry /\ NoEntry.doc = 0
      /\ NoEntry.kind = "None"
  BY IdType DEF Entry, NoEntry
<1>3. Idle \in Writer /\ Idle.kind = "None" /\ Idle.doc = 0 /\ Idle.vid = 0 /\ Idle.id = 0
  BY <1>2 DEF Idle, Writer
<1>4. Nothing \in [Ids -> 0..MaxId]
  BY <1>2 DEF Nothing
<1>5. ASSUME NEW q \in Protocols
      PROVE  /\ NewClient(q) \in Client /\ NewClient(q).since = 0 /\ NewClient(q).call = "none"
             /\ ~NewClient(q).synced /\ NewClient(q).highest = 0 /\ NewClient(q).todo = {}
  BY <1>2, <1>4 DEF NewClient, Client, Calls
<1>6. ASSUME NEW c \in Clients
      PROVE  /\ client[c] \in Client /\ client[c].since = 0 /\ client[c].call = "none"
             /\ ~client[c].synced /\ client[c].highest = 0 /\ client[c].todo = {}
  <2>1. p[c] \in Protocols /\ client[c] = NewClient(p[c])
    BY <1>1
  <2>. QED  BY <2>1, <1>5
<1>7. client \in [Clients -> Client]
  <2>1. client = [c \in Clients |-> client[c]]
    BY <1>1
  <2>. QED  BY <1>6, <2>1
<1>8. writer \in [Writers -> Writer] /\ \A w \in Writers : writer[w] = Idle
  BY <1>0, <1>3
<1>9. TypeOK
  <2>1. docs \in [Ids -> 0..MaxId] /\ log \in [Ids -> Entry] /\ vanished \in [Ids -> 0..MaxId]
    BY <1>0, <1>2
  <2>2. counter \in 0..MaxId /\ floor \in 0..MaxId /\ vfloor \in 0..MaxId
        /\ floor <= counter /\ vfloor <= counter
    BY <1>0, <1>2
  <2>3. \A c \in Clients : client[c].since <= counter \/ (client[c].proto = "qresync" /\ client[c].since = 1)
    BY <1>0, <1>2, <1>6
  <2>4. revived \subseteq Ids /\ raced \subseteq Clients
    BY <1>0
  <2>5. log[1] = NoEntry /\ vanished[1] = 0
    BY <1>0, FirstId
  <2>. QED  BY <1>7, <1>8, <2>1, <2>2, <2>3, <2>4, <2>5 DEF TypeOK
<1>10. /\ \A d \in Ids : docs[d] = 0 /\ log[d] = NoEntry /\ vanished[d] = 0
       /\ \A d \in Ids : d \in Nat /\ d # 0
  BY <1>0, IdType
<1>11. ASSUME NEW w \in Writers PROVE WriterOK(w)
  BY <1>0, <1>2, <1>3, <1>8 DEF WriterOK
<1>12. DrawnApart
  BY <1>3, <1>8 DEF DrawnApart
<1>13. WrittenBefore
  BY <1>0, <1>2, <1>10 DEF WrittenBefore
<1>14. InsertFirst /\ DeleteFinal /\ FloorCoversPruned
  BY <1>2, <1>10 DEF InsertFirst, DeleteFinal, FloorCoversPruned
<1>15. InsertUndone
  BY <1>2, <1>10 DEF InsertUndone
<1>16. LogInv
  BY <1>9, <1>11, <1>12, <1>13, <1>14, <1>15 DEF LogInv
<1>17. ASSUME NEW c \in Clients PROVE ClientOK(c)
  <2>1. client[c].proto \in Protocols
    BY <1>9, ClientTypes
  <2>2. ClientShape(c)
    <3>1. client[c].highest <= counter \/ client[c].highest = 1
      BY <1>0, <1>6
    <3>. QED  BY <1>6, <3>1 DEF ClientShape
  <2>3. ReadHolds(c)
    BY <1>6 DEF ReadHolds
  <2>4. ChangesOK(c) /\ QueryOK(c) /\ QresyncOK(c)
    BY <1>6 DEF ChangesOK, QueryOK, QresyncOK
  <2>. QED  BY <2>2, <2>3, <2>4 DEF ClientOK
<1>. QED  BY <1>16, <1>17 DEF SyncInv

LEMMA SyncClientNext ==
    ASSUME SyncInv, NEW c \in Clients, ClientNext(c)
    PROVE  SyncInv'
<1>1. CASE EmailGet(c)
  BY <1>1, EmailGetStep
<1>2. CASE EmailGetState(c)
  BY <1>2, EmailGetStateStep
<1>3. CASE EmailChanges(c) \/ QueryChanges(c)
  BY <1>3, AskStep
<1>4. CASE FetchChanged(c)
  BY <1>4, FetchStep
<1>5. CASE \E max \in Pages : EmailChangesPage(c, max)
  BY <1>5, PageStep
<1>6. CASE QueryEntries(c)
  BY <1>6, QueryEntriesStep
<1>7. CASE QueryIds(c)
  BY <1>7, QueryIdsStep
<1>8. CASE QueryState(c)
  BY <1>8, QueryStateStep
<1>9. CASE Select(c)
  BY <1>9, SelectStep
<1>10. CASE ReplayVanished(c)
  BY <1>10, ReplayVanishedStep
<1>11. CASE ReadModseqs(c)
  BY <1>11, ReadModseqsStep
<1>12. CASE ReplayFlags(c)
  BY <1>12, ReplayFlagsStep
<1>. QED
  BY <1>1, <1>2, <1>3, <1>4, <1>5, <1>6, <1>7, <1>8, <1>9, <1>10, <1>11, <1>12 DEF ClientNext

LEMMA SyncStutter ==
    ASSUME SyncInv, UNCHANGED vars
    PROVE  SyncInv'
<1>1. LogInv /\ TypeOK /\ counter \in Nat
  BY LogTypes DEF SyncInv, LogInv
<1>2. /\ Unwritten /\ client' = client /\ raced' = raced
      /\ docs' = docs /\ log' = log /\ revived' = revived /\ counter' = counter
      /\ floor' = floor /\ vfloor' = vfloor
  BY DEF vars, Unwritten
<1>3. TypeOK'
  BY <1>1, <1>2 DEF TypeOK, Unwritten
<1>4. LogInv' /\ \A d : Born(d) => Born(d)'
  BY <1>1, <1>2, <1>3, ReadLog DEF Unwritten
<1>5. \A n, d : (Entered(n, d) => Entered(n, d)') /\ (Buried(n, d) => Buried(n, d)')
  BY <1>2, Unmoved
<1>6. ASSUME NEW c \in Clients PROVE ClientOK(c)'
  <2>1. ReadHolds(c) => ReadHolds(c)'
    BY <1>2 DEF ReadHolds
  <2>2. ClientOK(c)
    BY DEF SyncInv
  <2>3. counter <= counter' /\ counter' \in Nat /\ client'[c] = client[c]
    BY <1>1, <1>2
  <2>. QED  BY <1>1, <1>2, <1>4, <1>5, <2>1, <2>2, <2>3, ClientFrame
<1>. QED  BY <1>4, <1>6 DEF SyncInv

LEMMA SyncInvariant == Spec => []SyncInv
<1>1. Init => SyncInv
  BY SyncInit
<1>2. SyncInv /\ [Next]_vars => SyncInv'
  <2>. SUFFICES ASSUME SyncInv, [Next]_vars PROVE SyncInv'
    OBVIOUS
  <2>1. ASSUME NEW w \in Writers, WriterNext(w) PROVE SyncInv'
    <3>1. CASE Commit(w)
      BY <3>1, CommitClients
    <3>2. CASE Drawing(w)
      BY <3>2, DrawingClients
    <3>. QED  BY <2>1, <3>1, <3>2 DEF WriterNext, Drawing
  <2>2. ASSUME NEW c \in Clients, ClientNext(c) PROVE SyncInv'
    BY <2>2, SyncClientNext
  <2>3. CASE PruneEmail \/ PruneVanished
    BY <2>3, PruneClients
  <2>4. CASE Restart
    BY <2>4, RestartClients
  <2>5. CASE UNCHANGED vars
    BY <2>5, SyncStutter
  <2>. QED  BY <2>1, <2>2, <2>3, <2>4, <2>5 DEF Next
<1>. QED  BY <1>1, <1>2, PTL DEF Spec

(* An entry after n is one the log has for a document. *)
LEMMA EnteredLeads ==
    ASSUME NEW c \in Clients, NEW d \in Ids, Entered(client[c].since, d)
    PROVE  Leads(c, d)
<1>1. NoEntry.doc = 0 /\ d # 0
  BY IdType DEF NoEntry
<1>. QED  BY <1>1 DEF Entered, Leads, Since

----------------------------------------------------------------------------
(* Every variable keeps its type, and no client and no floor of the change    *)
(* log is ever ahead of the counter that numbers the changes.                 *)
THEOREM SyncTypeCorrect == Spec => []TypeOK
<1>1. SyncInv => TypeOK
  BY DEF SyncInv, LogInv
<1>. QED  BY <1>1, SyncInvariant, PTL

(* prune_change_logs forgets nothing above the floor it leaves: the last      *)
(* write of every record is in the log or at or below the floor.              *)
THEOREM FloorsCoverPruned == Spec => []FloorCoversPruned
<1>1. SyncInv => FloorCoversPruned
  BY DEF SyncInv, LogInv
<1>. QED  BY <1>1, SyncInvariant, PTL

(* Email/changes loses no change on a client no race has met, whatever page   *)
(* sizes it asks for and however many writers and prunes run between its      *)
(* calls: what it has wrong of a message, the log still leads it to.          *)
THEOREM MailStaysInSync == Spec => []MailSync
<1>1. SyncInv => MailSync
  <2>. SUFFICES ASSUME SyncInv, NEW c \in Clients \ raced,
                       client[c].proto = "changes", client[c].synced,
                       NEW d \in Ids \ (revived \cup client[c].todo),
                       client[c].known[d] # docs[d]
                PROVE  Leads(c, d)
    BY DEF MailSync
  <2>1. ChangesOK(c)
    BY DEF SyncInv, ClientOK
  <2>2. Entered(client[c].since, d)
    BY <2>1 DEF ChangesOK
  <2>. QED  BY <2>2, EnteredLeads
<1>. QED  BY <1>1, SyncInvariant, PTL

(* Email/queryChanges loses no message that enters or leaves the result on a  *)
(* client no race has met, though floor, log, query and counter are read one  *)
(* after the other.                                                           *)
THEOREM QueriesStayInSync == Spec => []QuerySync
<1>1. SyncInv => QuerySync
  <2>. SUFFICES ASSUME SyncInv, NEW c \in Clients \ raced,
                       client[c].proto = "query", client[c].synced,
                       NEW d \in Ids \ revived,
                       (client[c].known[d] = 0) # (docs[d] = 0)
                PROVE  Leads(c, d)
    BY DEF QuerySync
  <2>1. QueryOK(c)
    BY DEF SyncInv, ClientOK
  <2>2. ~(client[c].known[d] = 0 <=> docs[d] = 0)
    BY Zenon
  <2>3. Entered(client[c].since, d)
    BY <2>1, <2>2 DEF QueryOK
  <2>. QED  BY <2>3, EnteredLeads
<1>. QED  BY <1>1, SyncInvariant, PTL

(* QRESYNC leaves an IMAP client no race has met with a modseq from which the *)
(* log leads to every message it has wrong, and the tombstones to every one   *)
(* that is gone.                                                              *)
THEOREM QresyncStaysInSync == Spec => []QresyncSync
<1>1. SyncInv => QresyncSync
  <2>. SUFFICES ASSUME SyncInv, NEW c \in Clients \ raced,
                       client[c].proto = "qresync", client[c].synced, client[c].call = "none",
                       NEW d \in Ids \ revived, client[c].known[d] # docs[d]
                PROVE  IF docs[d] # 0 THEN Leads(c, d)
                       ELSE \/ \E i \in Ids : i > client[c].since /\ vanished[i] = d
                            \/ client[c].since < vfloor
    BY DEF QresyncSync
  <2>1. QresyncOK(c)
    BY DEF SyncInv, ClientOK
  <2>2. docs[d] # 0 => Entered(client[c].since, d)
    BY <2>1 DEF QresyncOK
  <2>3. docs[d] = 0 => Buried(client[c].since, d)
    BY <2>1 DEF QresyncOK
  <2>. QED  BY <2>2, <2>3, EnteredLeads DEF Buried
<1>. QED  BY <1>1, SyncInvariant, PTL
=============================================================================
