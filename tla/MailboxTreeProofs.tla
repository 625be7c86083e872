------------------------- MODULE MailboxTreeProofs -------------------------
(* Mailbox ids are never handed out twice; a deletion clears its mailbox and  *)
(* keeps what is filed elsewhere, but for messages that a write puts in a     *)
(* mailbox gone or going: TypeOK, IdsFresh, NoStrandedMail, SharedMailKept.   *)
EXTENDS MailboxTree, FiniteSetTheorems, WellFoundedInduction, TLAPS

USE DEF Ids, System

(* Ids that a mailbox has or had. *)
Used == {i \in Ids : Exists(i)} \cup dead

(* An operation that has drawn an id and not yet written its row.             *)
Holds(a) == job[a].step \in {"floor", "raise", "insert"}

(* What an operation that is to write a record holds of it. *)
Carries(j) ==
    /\ j.step \in {"unfile", "copy", "patch", "write"} => j.doc \in Docs
    /\ j.step \in {"patch", "write"} => j.held # None
    /\ j.step = "unfile" =>
         /\ j.doc \in j.members
         /\ IF j.held = None THEN j.doc \in j.alone ELSE j.held[j.id] = 0

(* The inductive form of IdsFresh: the counter is past every id in use but    *)
(* the system's, a drawn id is in nobody else's hands, and the second draw is *)
(* as wide as the rows found above the first.                                 *)
AllocInv ==
    /\ \A i \in Used : i <= SpamId \/ i <= counter
    /\ \A a \in Actors : Holds(a) =>
         /\ job[a].id \in 1..counter
         /\ job[a].id > SpamId => job[a].id \notin Used
         /\ \A b \in Actors \ {a} : Holds(b) => job[b].id # job[a].id
    /\ \A a \in Actors : job[a].step = "insert" => job[a].id > SpamId
    /\ \A a \in Actors : job[a].step = "raise" =>
         job[a].floor >= SpamId /\ job[a].id <= job[a].floor
    /\ \A a \in Actors : job[a].step = "rename" => job[a].id \in Used
    /\ \A a \in Actors : job[a].step \in {"load", "rename", "purge", "unfile"} =>
         job[a].id \in Ids \ System
    /\ \A a \in Actors : job[a].step = "rename" => job[a].row # None
    /\ \A a \in Actors : job[a].step \in {"alloc", "floor", "raise", "insert", "load", "rename"} =>
         job[a].name # None
    /\ \A a \in Actors : Carries(job[a])

LEMMA FreeType == Free \in Job
BY TreeAssumption DEF Free, Job, Steps

LEMMA FreeCarries == Carries(Free)
BY DEF Free, Carries

LEMMA FilingType == None \notin Filing /\ Unfiled \in Filing
BY RowAssumption, TreeAssumption DEF Unfiled, Filing

(* One actor's operation moves on. *)
LEMMA AllocStep ==
    ASSUME TypeOK, AllocInv, NEW a \in Actors, NEW j \in Job, job' = [job EXCEPT ![a] = j],
           Used \subseteq Used', counter' \in Nat, counter <= counter',
           \A i \in Used' \ Used : i <= counter' /\ \A b \in Actors \ {a} : Holds(b) => job[b].id # i,
           j.step \in {"floor", "raise", "insert"} =>
               /\ j.id \in 1..counter' /\ (j.id > SpamId => j.id \notin Used')
               /\ \A b \in Actors \ {a} : Holds(b) => job[b].id # j.id,
           j.step = "insert" => j.id > SpamId,
           j.step = "raise" => j.floor >= SpamId /\ j.id <= j.floor,
           j.step = "rename" => j.id \in Used' /\ j.row # None,
           j.step \in {"load", "rename", "purge", "unfile"} => j.id \in Ids \ System,
           j.step \in {"alloc", "floor", "raise", "insert", "load", "rename"} => j.name # None,
           Carries(j)
    PROVE  AllocInv'
<1>. USE DEF AllocInv
<1>1. job'[a] = j /\ \A b \in Actors \ {a} : job'[b] = job[b] /\ job[b] \in Job
  BY DEF TypeOK
<1>2. /\ Holds(a)' <=> j.step \in {"floor", "raise", "insert"}
      /\ \A b \in Actors \ {a} : Holds(b)' <=> Holds(b)
  BY <1>1 DEF Holds
<1>3. \A i \in Used' : i <= SpamId \/ i <= counter'
  BY TreeAssumption DEF TypeOK, Used
<1>4. ASSUME NEW b \in Actors, Holds(b)'
      PROVE  /\ job'[b].id \in 1..counter'
             /\ job'[b].id > SpamId => job'[b].id \notin Used'
             /\ \A c \in Actors \ {b} : Holds(c)' => job'[c].id # job'[b].id
  <2>1. CASE b = a
    BY <1>1, <1>2, <1>4, <2>1
  <2>2. CASE b # a
    <3>1. Holds(b) /\ job'[b] = job[b] /\ job[b] \in Job
      BY <1>1, <1>2, <1>4, <2>2
    <3>2. job[b].id \in 1..counter'
      BY <3>1 DEF TypeOK
    <3>3. job[b].id > SpamId => job[b].id \notin Used'
      BY <2>2, <3>1
    <3>. QED  BY <1>1, <1>2, <2>2, <3>1, <3>2, <3>3
  <2>. QED  BY <2>1, <2>2
<1>5. \A b \in Actors : job'[b].step = "insert" => job'[b].id > SpamId
  BY <1>1
<1>6. \A b \in Actors : job'[b].step = "raise" => job'[b].floor >= SpamId /\ job'[b].id <= job'[b].floor
  BY <1>1
<1>7. \A b \in Actors : job'[b].step = "rename" => job'[b].id \in Used' /\ job'[b].row # None
  BY <1>1
<1>8. \A b \in Actors :
        /\ job'[b].step \in {"load", "rename", "purge", "unfile"} => job'[b].id \in Ids \ System
        /\ job'[b].step \in {"alloc", "floor", "raise", "insert", "load", "rename"} => job'[b].name # None
        /\ Carries(job'[b])
  BY <1>1
<1>. QED  BY <1>3, <1>4, <1>5, <1>6, <1>7, <1>8

(* Steps that change neither rows nor the counter and draw no id.             *)
LEMMA AllocFrame ==
    ASSUME TypeOK, AllocInv, NEW a \in Actors, NEW j \in Job, job' = [job EXCEPT ![a] = j],
           UNCHANGED <<rows, counter, dead>>,
           j.step \in {"none", "alloc", "load", "purge", "unfile", "copy", "patch", "write"},
           j.step \in {"load", "purge", "unfile"} => j.id \in Ids \ System,
           j.step \in {"alloc", "load"} => j.name # None,
           Carries(j)
    PROVE  AllocInv'
<1>1. Used' = Used
  BY DEF Used, Exists
<1>2. counter' \in Nat /\ counter <= counter'
  BY DEF TypeOK
<1>. QED  BY <1>1, <1>2, AllocStep

(* Steps of allocate_mailbox_id. *)
LEMMA AllocHold ==
    ASSUME TypeOK, AllocInv, NEW a \in Actors, NEW j \in Job, job' = [job EXCEPT ![a] = j],
           UNCHANGED <<rows, dead>>, counter' \in Nat, counter <= counter',
           j.step \in {"floor", "raise", "insert"},
           j.id \in 1..counter', j.id > SpamId => j.id \notin Used,
           \A b \in Actors \ {a} : Holds(b) => job[b].id # j.id,
           j.step = "insert" => j.id > SpamId,
           j.step = "raise" => j.floor >= SpamId /\ j.id <= j.floor,
           j.name # None
    PROVE  AllocInv'
<1>1. Used' = Used
  BY DEF Used, Exists
<1>2. Used' \ Used = {} /\ Used \subseteq Used'
  BY <1>1
<1>3. /\ j.step # "rename" /\ j.step \notin {"load", "rename", "purge", "unfile"}
      /\ Carries(j)
  BY DEF Carries
<1>. QED  BY <1>1, <1>2, <1>3, AllocStep

LEMMA BeginStep ==
    ASSUME TypeOK, AllocInv, NEW a \in Actors,
           \/ \E n \in Names : Create(a, n)
           \/ \E i \in Ids, n \in Names : Rename(a, i, n)
           \/ \E i \in Ids, remove \in BOOLEAN : Delete(a, i, remove)
    PROVE  TypeOK' /\ AllocInv'
<1>1. ASSUME NEW n \in Names, Create(a, n) PROVE TypeOK' /\ AllocInv'
  <2>. DEFINE j == [Free EXCEPT !.step = "alloc", !.name = n]
  <2>1. j \in Job /\ j.step = "alloc" /\ j.name # None
    BY FreeType, TreeAssumption DEF Job, Steps
  <2>2. job' = [job EXCEPT ![a] = j] /\ UNCHANGED <<rows, counter, lastUid, born, mail, dead, raced>>
    BY <1>1 DEF Create, Start
  <2>. HIDE DEF j
  <2>3c. Carries(j)
    BY <2>1 DEF Carries
  <2>3. AllocInv'
    BY <2>1, <2>2, <2>3c, AllocFrame
  <2>. QED  BY <2>1, <2>2, <2>3 DEF TypeOK, Exists
<1>2. ASSUME NEW i \in Ids, NEW n \in Names, Rename(a, i, n) PROVE TypeOK' /\ AllocInv'
  <2>. DEFINE j == [Free EXCEPT !.step = "load", !.id = i, !.name = n]
  <2>1. j \in Job /\ j.step = "load" /\ j.name # None /\ j.id \in Ids \ System
    <3>0. i \in Ids \ System
      BY <1>2, Zenon DEF Rename
    <3>1. i \in 0..MaxId /\ n # None
      BY TreeAssumption
    <3>2. j \in Job
      BY <3>1, FreeType DEF Job, Steps
    <3>3. j.step = "load" /\ j.name = n /\ j.id = i
      BY FreeType DEF Job
    <3>. QED  BY <3>0, <3>1, <3>2, <3>3
  <2>2. job' = [job EXCEPT ![a] = j] /\ UNCHANGED <<rows, counter, lastUid, born, mail, dead, raced>>
    BY <1>2 DEF Rename, Start
  <2>. HIDE DEF j
  <2>3c. Carries(j)
    BY <2>1 DEF Carries
  <2>3. AllocInv'
    BY <2>1, <2>2, <2>3c, AllocFrame
  <2>. QED  BY <2>1, <2>2, <2>3 DEF TypeOK, Exists
<1>3. ASSUME NEW i \in Ids, NEW remove \in BOOLEAN, Delete(a, i, remove) PROVE TypeOK' /\ AllocInv'
  <2>. DEFINE j == [Free EXCEPT !.step = "purge", !.id = i,
                                !.members = Members(i), !.alone = Alone(i)]
  <2>1. Members(i) \subseteq Docs /\ Alone(i) \subseteq Docs
    BY DEF Members, Alone
  <2>2. j \in Job /\ j.step = "purge" /\ j.id \in Ids \ System
    <3>0. i \in Ids \ System
      BY <1>3, Zenon DEF Delete
    <3>1. i \in 0..MaxId
      BY TreeAssumption
    <3>2. j \in Job
      BY <2>1, <3>1, FreeType DEF Job, Steps
    <3>3. j.step = "purge" /\ j.id = i
      BY FreeType DEF Job
    <3>. QED  BY <3>0, <3>1, <3>2, <3>3
  <2>3. job' = [job EXCEPT ![a] = j] /\ UNCHANGED <<rows, counter, lastUid, born, mail, dead, raced>>
    BY <1>3 DEF Delete, Start
  <2>. HIDE DEF j
  <2>4c. Carries(j)
    BY <2>2 DEF Carries
  <2>4. AllocInv'
    BY <2>2, <2>3, <2>4c, AllocFrame
  <2>. QED  BY <2>2, <2>3, <2>4 DEF TypeOK, Exists
<1>. QED  BY <1>1, <1>2, <1>3

LEMMA UidDrawn ==
    ASSUME TypeOK, NEW i \in Ids, DrawUid(i)
    PROVE  lastUid[i] + 1 \in 0..MaxUid /\ lastUid' \in [Ids -> 0..MaxUid]
<1>1. lastUid[i] \in 0..MaxUid /\ lastUid[i] < MaxUid
  BY DEF TypeOK, DrawUid
<1>2. lastUid[i] + 1 \in 0..MaxUid
  BY <1>1, TreeAssumption
<1>. QED  BY <1>2 DEF TypeOK, DrawUid

(* Operations that begin to put mail into a mailbox. *)
LEMMA FilingStep ==
    ASSUME TypeOK, AllocInv, NEW a \in Actors, NEW d \in Docs,
           \/ \E i \in Ids : Deliver(a, d, i)
           \/ \E k, i \in Ids, move \in BOOLEAN : Copy(a, d, k, i, move)
           \/ EmailSet(a, d)
    PROVE  TypeOK' /\ AllocInv'
<1>1. ASSUME NEW i \in Ids, Deliver(a, d, i) PROVE TypeOK' /\ AllocInv'
  <2>. DEFINE h == [Unfiled EXCEPT ![i] = lastUid[i] + 1]
              j == [Free EXCEPT !.step = "write", !.doc = d, !.held = h]
  <2>1. lastUid[i] + 1 \in 0..MaxUid /\ lastUid' \in [Ids -> 0..MaxUid]
    BY <1>1, UidDrawn DEF Deliver
  <2>2. h \in Filing
    BY <2>1, FilingType DEF Filing
  <2>3. /\ job' = [job EXCEPT ![a] = j] /\ born' = born \cup {d}
        /\ UNCHANGED <<rows, counter, mail, dead, raced>>
    BY <1>1 DEF Deliver, Start
  <2>. HIDE DEF h
  <2>4. j \in Job /\ j.step = "write" /\ j.doc = d /\ j.held = h
    BY <2>2, FreeType DEF Job, Steps
  <2>. HIDE DEF j
  <2>5. Carries(j)
    BY <2>2, <2>4, FilingType DEF Carries
  <2>6. AllocInv'
    BY <2>3, <2>4, <2>5, AllocFrame
  <2>. QED  BY <2>1, <2>3, <2>4, <2>6 DEF TypeOK, Exists
<1>2. ASSUME NEW k \in Ids, NEW i \in Ids, NEW move \in BOOLEAN, Copy(a, d, k, i, move)
      PROVE TypeOK' /\ AllocInv'
  <2>. DEFINE u == IF i \in Boxes(d) THEN 0 ELSE lastUid[i] + 1
              f == IF move THEN k ELSE 0
              j == [Free EXCEPT !.step = "copy", !.doc = d, !.id = i, !.uid = u, !.from = f]
  <2>1. u \in 0..MaxUid /\ lastUid' \in [Ids -> 0..MaxUid]
    <3>1. CASE i \in Boxes(d)
      <4>1. lastUid' = lastUid
        BY <1>2, <3>1 DEF Copy
      <4>. QED  BY <3>1, <4>1, TreeAssumption DEF TypeOK
    <3>2. CASE i \notin Boxes(d)
      BY <1>2, <3>2, UidDrawn DEF Copy
    <3>. QED  BY <3>1, <3>2
  <2>2. f \in 0..MaxId /\ i \in 0..MaxId
    BY TreeAssumption
  <2>3. /\ job' = [job EXCEPT ![a] = j]
        /\ UNCHANGED <<rows, counter, born, mail, dead, raced>>
    BY <1>2 DEF Copy, Start
  <2>. HIDE DEF u, f
  <2>4. j \in Job /\ j.step = "copy" /\ j.doc = d
    BY <2>1, <2>2, FreeType DEF Job, Steps
  <2>. HIDE DEF j
  <2>5. Carries(j)
    BY <2>4 DEF Carries
  <2>6. AllocInv'
    BY <2>3, <2>4, <2>5, AllocFrame
  <2>. QED  BY <2>1, <2>3, <2>4, <2>6 DEF TypeOK, Exists
<1>3. ASSUME EmailSet(a, d) PROVE TypeOK' /\ AllocInv'
  <2>. DEFINE j == [Free EXCEPT !.step = "patch", !.doc = d, !.held = mail[d]]
  <2>1. mail[d] # None /\ mail[d] \in Filing
    BY <1>3 DEF EmailSet, TypeOK
  <2>2. /\ job' = [job EXCEPT ![a] = j]
        /\ UNCHANGED <<rows, counter, lastUid, born, mail, dead, raced>>
    BY <1>3 DEF EmailSet, Start
  <2>3. j \in Job /\ j.step = "patch" /\ j.doc = d /\ j.held = mail[d]
    BY <2>1, FreeType DEF Job, Steps
  <2>. HIDE DEF j
  <2>4. Carries(j)
    BY <2>1, <2>3 DEF Carries
  <2>5. AllocInv'
    BY <2>2, <2>3, <2>4, AllocFrame
  <2>. QED  BY <2>2, <2>3, <2>5 DEF TypeOK, Exists
<1>. QED  BY <1>1, <1>2, <1>3

(* The record loaded by COPY, and the patch applied to the record held. *)
LEMMA HoldingStep ==
    ASSUME TypeOK, AllocInv, NEW a \in Actors,
           CopyLoad(a) \/ \E i \in Ids : PatchAdd(a, i) \/ PatchRemove(a, i)
    PROVE  TypeOK' /\ AllocInv'
<1>0. job[a] \in Job /\ Carries(job[a])
  BY DEF TypeOK, AllocInv
<1>1. CASE CopyLoad(a)
  <2>1. job[a].step = "copy" /\ job[a].doc \in Docs
    BY <1>0, <1>1 DEF CopyLoad, Carries
  <2>2. UNCHANGED <<rows, counter, lastUid, born, mail, dead, raced>>
    BY <1>1 DEF CopyLoad
  <2>3. CASE mail[job[a].doc] = None
    <3>1. job' = [job EXCEPT ![a] = Free] /\ Free.step = "none"
      BY <1>1, <2>3 DEF CopyLoad, Free
    <3>2. AllocInv'
      BY <2>2, <3>1, FreeType, FreeCarries, AllocFrame
    <3>. QED  BY <2>2, <3>1, <3>2, FreeType DEF TypeOK, Exists
  <2>4. CASE mail[job[a].doc] # None
    <3>. DEFINE h == Copied(job[a], mail[job[a].doc])
                j == [Free EXCEPT !.step = "write", !.doc = job[a].doc, !.held = h]
    <3>1. job' = [job EXCEPT ![a] = j]
      BY <1>1, <2>4 DEF CopyLoad
    <3>2. h \in Filing
      <4>1. mail[job[a].doc] \in Filing /\ job[a].uid \in 0..MaxUid
        BY <1>0, <2>1, <2>4 DEF TypeOK, Job
      <4>. QED  BY <4>1, TreeAssumption DEF Copied, Filing
    <3>. HIDE DEF h
    <3>3. j \in Job /\ j.step = "write" /\ j.doc = job[a].doc /\ j.held = h
      BY <2>1, <3>2, FreeType DEF Job, Steps
    <3>. HIDE DEF j
    <3>4. Carries(j)
      BY <2>1, <3>2, <3>3, FilingType DEF Carries
    <3>5. AllocInv'
      BY <2>2, <3>1, <3>3, <3>4, AllocFrame
    <3>. QED  BY <2>2, <3>1, <3>3, <3>5 DEF TypeOK, Exists
  <2>. QED  BY <2>3, <2>4
<1>2. ASSUME NEW i \in Ids, PatchAdd(a, i) \/ PatchRemove(a, i) PROVE TypeOK' /\ AllocInv'
  <2>1. /\ job[a].step = "patch" /\ job[a].doc \in Docs
        /\ job[a].held \in Filing
    BY <1>0, <1>2 DEF PatchAdd, PatchRemove, Carries, Job
  <2>2. PICK u \in 0..MaxUid : job' = [job EXCEPT ![a].held[i] = u]
    <3>1. CASE PatchAdd(a, i)
      <4>1. lastUid[i] + 1 \in 0..MaxUid
        BY <3>1, UidDrawn DEF PatchAdd
      <4>2. job' = [job EXCEPT ![a].held[i] = lastUid[i] + 1]
        BY <3>1 DEF PatchAdd
      <4>. QED  BY <4>1, <4>2, Zenon
    <3>2. CASE PatchRemove(a, i)
      <4>1. 0 \in 0..MaxUid
        BY TreeAssumption
      <4>2. job' = [job EXCEPT ![a].held[i] = 0]
        BY <3>2 DEF PatchRemove
      <4>. QED  BY <4>1, <4>2, Zenon
    <3>. QED  BY <1>2, <3>1, <3>2
  <2>3. /\ lastUid' \in [Ids -> 0..MaxUid]
        /\ UNCHANGED <<rows, counter, born, mail, dead, raced>>
    <3>1. CASE PatchAdd(a, i)
      BY <3>1, UidDrawn DEF PatchAdd
    <3>2. CASE PatchRemove(a, i)
      BY <3>2 DEF PatchRemove, TypeOK
    <3>. QED  BY <1>2, <3>1, <3>2
  <2>. DEFINE h == [job[a].held EXCEPT ![i] = u]
              j == [job[a] EXCEPT !.held = h]
  <2>4. job' = [job EXCEPT ![a] = j]
    BY <2>2
  <2>5. h \in Filing
    BY <2>1, <2>2 DEF Filing
  <2>. HIDE DEF h
  <2>6. j \in Job /\ j.step = "patch" /\ j.doc \in Docs /\ j.held = h
    BY <1>0, <2>1, <2>5 DEF Job
  <2>. HIDE DEF j
  <2>7. Carries(j)
    BY <2>5, <2>6, FilingType DEF Carries
  <2>8. AllocInv'
    BY <2>3, <2>4, <2>6, <2>7, AllocFrame
  <2>. QED  BY <2>3, <2>4, <2>6, <2>8 DEF TypeOK, Exists
<1>. QED  BY <1>1, <1>2

(* A set of numbers up to a bound has a greatest element.                     *)
LEMMA GreatestBelow ==
    ASSUME NEW n \in Nat, NEW S, S \subseteq 0..n, S # {}
    PROVE  Max(S) \in S /\ \A y \in S : y <= Max(S)
<1>. DEFINE R == {n - x : x \in S}
<1>0. R \subseteq Nat /\ R # {}
  <2>1. \A x \in S : x \in 0..n
    OBVIOUS
  <2>2. \A x \in S : n - x \in Nat
    BY <2>1
  <2>3. PICK x : x \in S
    OBVIOUS
  <2>4. n - x \in R
    BY <2>3
  <2>. QED  BY <2>2, <2>4
<1>1. \E x \in S : \A y \in S : y <= x
  <2>1. \A u, v \in Nat : u < v => <<u, v>> \in OpToRel(<, Nat)
    BY DEF OpToRel
  <2>2. PICK W : IsWellFoundedOn(W, Nat) /\ \A u, v \in Nat : u < v => <<u, v>> \in W
    BY <2>1, NatLessThanWellFounded, Zenon
  <2>3. IsWellFoundedOn(W, Nat)
    BY <2>2
  <2>. HIDE DEF R
  <2>4. \E m \in R : \A y \in R : ~(<<y, m>> \in W)
    BY <1>0, <2>3, WFMin, Zenon
  <2>5. PICK m \in R : \A y \in R : ~(<<y, m>> \in W)
    BY <2>4
  <2>6. ASSUME NEW y \in R PROVE m <= y
    <3>1. y \in Nat /\ m \in Nat
      BY <1>0, <2>5
    <3>2. ~(y < m)
      BY <2>2, <2>5, <3>1, Zenon
    <3>. QED  BY <3>1, <3>2
  <2>7. PICK x \in S : m = n - x
    BY <2>5 DEF R
  <2>8. ASSUME NEW y \in S PROVE y <= x
    <3>1. n - y \in R
      BY DEF R
    <3>2. n - x <= n - y
      BY <2>6, <2>7, <3>1
    <3>. QED  BY <3>2
  <2>. QED  BY <2>8
<1>2. PICK g \in S : \A y \in S : g >= y
  BY <1>1
<1>3. Max(S) \in S /\ \A y \in S : Max(S) >= y
  BY <1>2 DEF Max
<1>. QED  BY <1>3

LEMMA RowFloorType ==
    ASSUME TypeOK
    PROVE  RowFloor \in 0..MaxId /\ RowFloor >= SpamId /\ \A i \in Ids : Exists(i) => i <= RowFloor
<1>. DEFINE S == {i \in Ids : Exists(i)} \cup {SpamId}
<1>1. S \subseteq 0..MaxId /\ S # {} /\ MaxId \in Nat
  BY TreeAssumption
<1>2. RowFloor = Max(S)
  BY DEF RowFloor
<1>3. SpamId \in S /\ \A i \in Ids : Exists(i) => i \in S
  OBVIOUS
<1>. HIDE DEF S
<1>4. Max(S) \in S /\ \A y \in S : y <= Max(S)
  BY <1>1, GreatestBelow
<1>. QED  BY <1>1, <1>2, <1>3, <1>4, TreeAssumption

LEMMA AllocFirstStep ==
    ASSUME TypeOK, AllocInv, NEW a \in Actors, AllocFirst(a)
    PROVE  TypeOK' /\ AllocInv'
<1>. DEFINE j == [job[a] EXCEPT !.step = "floor", !.id = counter + 1]
<1>1. job[a] \in Job /\ job[a].step = "alloc" /\ job[a].name # None
  BY DEF TypeOK, AllocFirst, AllocInv
<1>2. counter \in Nat /\ counter + 1 \in 0..MaxId /\ counter' = counter + 1
  BY TreeAssumption DEF TypeOK, AllocFirst
<1>3. j \in Job /\ j.step = "floor" /\ j.id = counter + 1 /\ j.name # None
  BY <1>1, <1>2 DEF Job, Steps
<1>4. /\ job' = [job EXCEPT ![a] = j]
      /\ UNCHANGED <<rows, lastUid, born, mail, dead, raced>>
  BY DEF AllocFirst
<1>. HIDE DEF j
<1>6. /\ j.id > SpamId => j.id \notin Used
      /\ \A b \in Actors \ {a} : Holds(b) => job[b].id # j.id
  <2>1. \A i \in Used : i <= SpamId \/ i <= counter
    BY DEF AllocInv
  <2>2. \A b \in Actors : Holds(b) => job[b].id \in 1..counter
    BY DEF AllocInv
  <2>. QED  BY <1>2, <1>3, <2>1, <2>2, TreeAssumption
<1>7. j.id \in 1..counter' /\ counter' \in Nat /\ counter <= counter'
  BY <1>2, <1>3
<1>8. AllocInv'
  BY <1>3, <1>4, <1>6, <1>7, AllocHold
<1>. QED  BY <1>2, <1>3, <1>4, <1>8 DEF TypeOK, Exists

LEMMA AllocFloorStep ==
    ASSUME TypeOK, AllocInv, NEW a \in Actors, AllocFloor(a)
    PROVE  TypeOK' /\ AllocInv'
<1>1. job[a] \in Job /\ job[a].step = "floor" /\ Holds(a)
  BY DEF TypeOK, AllocFloor, Holds
<1>2. /\ job[a].id \in 1..counter /\ job[a].name # None
      /\ job[a].id > SpamId => job[a].id \notin Used
      /\ \A b \in Actors \ {a} : Holds(b) => job[b].id # job[a].id
  BY <1>1 DEF AllocInv
<1>3. /\ UNCHANGED <<rows, counter, lastUid, born, mail, dead, raced>>
      /\ counter \in Nat /\ counter' \in Nat /\ counter <= counter'
  BY DEF AllocFloor, TypeOK
<1>4. CASE job[a].id > RowFloor
  <2>. DEFINE j == [job[a] EXCEPT !.step = "insert"]
  <2>1. job' = [job EXCEPT ![a] = j]
    BY <1>4 DEF AllocFloor
  <2>2. j \in Job /\ j.step = "insert" /\ j.id = job[a].id /\ j.name = job[a].name
    BY <1>1 DEF Job, Steps
  <2>3. job[a].id > SpamId
    BY <1>2, <1>4, RowFloorType, TreeAssumption
  <2>. HIDE DEF j
  <2>4. /\ j.id \in 1..counter' /\ (j.id > SpamId => j.id \notin Used) /\ j.name # None
        /\ \A b \in Actors \ {a} : Holds(b) => job[b].id # j.id
    BY <1>2, <1>3, <2>2
  <2>5. AllocInv'
    BY <1>3, <2>1, <2>2, <2>3, <2>4, AllocHold
  <2>. QED  BY <1>3, <2>1, <2>2, <2>5 DEF TypeOK, Exists
<1>5. CASE ~(job[a].id > RowFloor)
  <2>. DEFINE j == [job[a] EXCEPT !.step = "raise", !.floor = RowFloor]
  <2>1. job' = [job EXCEPT ![a] = j]
    BY <1>5 DEF AllocFloor
  <2>2. j \in Job /\ j.step = "raise" /\ j.id = job[a].id /\ j.name = job[a].name /\ j.floor = RowFloor
    BY <1>1, RowFloorType DEF Job, Steps
  <2>3. RowFloor >= SpamId /\ job[a].id <= RowFloor
    BY <1>2, <1>3, <1>5, RowFloorType
  <2>. HIDE DEF j
  <2>4. /\ j.id \in 1..counter' /\ (j.id > SpamId => j.id \notin Used) /\ j.name # None
        /\ \A b \in Actors \ {a} : Holds(b) => job[b].id # j.id
    BY <1>2, <1>3, <2>2
  <2>5. AllocInv'
    BY <1>3, <2>1, <2>2, <2>3, <2>4, AllocHold
  <2>. QED  BY <1>3, <2>1, <2>2, <2>5 DEF TypeOK, Exists
<1>. QED  BY <1>4, <1>5

LEMMA AllocRaiseStep ==
    ASSUME TypeOK, AllocInv, NEW a \in Actors, AllocRaise(a)
    PROVE  TypeOK' /\ AllocInv'
<1>. DEFINE next == counter + (job[a].floor + 1 - job[a].id)
            j == [job[a] EXCEPT !.step = "insert", !.id = next, !.floor = 0]
<1>1. job[a] \in Job /\ job[a].step = "raise" /\ Holds(a)
  BY DEF TypeOK, AllocRaise, Holds
<1>2. /\ job[a].id \in 1..counter /\ job[a].name # None
      /\ job[a].floor >= SpamId /\ job[a].id <= job[a].floor
  BY <1>1 DEF AllocInv
<1>3. counter \in Nat /\ job[a].floor \in Nat
  BY <1>1 DEF TypeOK, Job
<1>4. next <= MaxId /\ counter' = next /\ job' = [job EXCEPT ![a] = j]
      /\ UNCHANGED <<rows, lastUid, born, mail, dead, raced>>
  BY DEF AllocRaise
<1>5. next \in Nat /\ next > counter /\ next > SpamId /\ next \in 0..MaxId
  BY <1>2, <1>3, <1>4, TreeAssumption
<1>. HIDE DEF next
<1>6. j \in Job /\ j.step = "insert" /\ j.id = next /\ j.name = job[a].name
  <2>1. 0 \in 0..MaxId
    BY TreeAssumption
  <2>. QED  BY <1>1, <1>5, <2>1 DEF Job, Steps
<1>7. next \in 1..counter' /\ counter' \in Nat /\ counter <= counter'
  BY <1>3, <1>4, <1>5
<1>. HIDE DEF j
<1>8. next \notin Used /\ \A b \in Actors \ {a} : Holds(b) => job[b].id # next
  BY <1>3, <1>5, TreeAssumption DEF AllocInv
<1>9. AllocInv'
  BY <1>2, <1>4, <1>5, <1>6, <1>7, <1>8, AllocHold
<1>. QED  BY <1>4, <1>5, <1>6, <1>9 DEF TypeOK, Exists

LEMMA InsertRowStep ==
    ASSUME TypeOK, AllocInv, NEW a \in Actors, InsertRow(a)
    PROVE  TypeOK' /\ AllocInv'
<1>. DEFINE row == [name |-> job[a].name, validity |-> UidValidity]
<1>1. job[a] \in Job /\ job[a].step = "insert" /\ Holds(a)
  BY DEF TypeOK, InsertRow, Holds
<1>2. /\ job[a].id \in 1..counter /\ job[a].name # None /\ job[a].id > SpamId
      /\ \A b \in Actors \ {a} : Holds(b) => job[b].id # job[a].id
  BY <1>1 DEF AllocInv
<1>3. row \in Row /\ job[a].id \in Ids /\ counter \in Nat
  BY <1>1, <1>2, TreeAssumption DEF TypeOK, Job, Row, UidValidity
<1>4. /\ rows' = [rows EXCEPT ![job[a].id] = row] /\ job' = [job EXCEPT ![a] = Free]
      /\ UNCHANGED <<counter, lastUid, born, mail, dead, raced>>
  BY DEF InsertRow
<1>. HIDE DEF row
<1>5. rows' \in [Ids -> Row \cup {None}] /\ \A i \in Ids : i # job[a].id => rows'[i] = rows[i]
  BY <1>3, <1>4 DEF TypeOK
<1>6. Used \subseteq Used' \cup {job[a].id} /\ Used' \subseteq Used \cup {job[a].id}
  BY <1>4, <1>5 DEF Used, Exists
<1>7. CASE rows'[job[a].id] # None
  <2>1. Used \subseteq Used'
    BY <1>3, <1>6, <1>7 DEF Used, Exists
  <2>2. Free.step = "none"
    BY DEF Free
  <2>5. counter' \in Nat /\ counter <= counter'
    BY <1>3, <1>4
  <2>6. \A i \in Used' \ Used : i <= counter' /\ \A b \in Actors \ {a} : Holds(b) => job[b].id # i
    BY <1>2, <1>4, <1>6
  <2>3. AllocInv'
    BY <1>4, <2>1, <2>2, <2>5, <2>6, FreeType, FreeCarries, AllocStep
  <2>4. \A i \in System : Exists(i)'
    BY <1>2, <1>5, TreeAssumption DEF TypeOK, Exists
  <2>. QED  BY <1>4, <1>5, <2>3, <2>4, FreeType DEF TypeOK
<1>8. rows'[job[a].id] # None
  <2>1. rows'[job[a].id] = row
    BY <1>3, <1>4 DEF TypeOK
  <2>. QED  BY <1>3, <2>1, RowAssumption
<1>. QED  BY <1>7, <1>8

LEMMA RenameStep ==
    ASSUME TypeOK, AllocInv, NEW a \in Actors, RenameLoad(a) \/ RenameWrite(a)
    PROVE  TypeOK' /\ AllocInv'
<1>0. job[a] \in Job /\ counter \in Nat /\ Free.step = "none"
  BY DEF TypeOK, Free
<1>1. CASE RenameLoad(a) /\ Exists(job[a].id)
  <2>. DEFINE j == [job[a] EXCEPT !.step = "rename", !.row = rows[job[a].id]]
  <2>1. job[a].step = "load" /\ job[a].id \in Ids \ System /\ job[a].name # None
    BY <1>1 DEF RenameLoad, AllocInv
  <2>2. rows[job[a].id] \in Row /\ rows[job[a].id] # None /\ job[a].id \in Used
    BY <1>1, <2>1 DEF TypeOK, Exists, Used
  <2>3. j \in Job /\ j.step = "rename" /\ j.id = job[a].id /\ j.name = job[a].name /\ j.row # None
    BY <1>0, <2>2 DEF Job, Steps
  <2>4. job' = [job EXCEPT ![a] = j] /\ UNCHANGED <<rows, counter, lastUid, born, mail, dead, raced>>
    BY <1>1 DEF RenameLoad
  <2>5. Used' = Used
    BY <2>4 DEF Used, Exists
  <2>. HIDE DEF j
  <2>6. /\ Used \subseteq Used' /\ Used' \ Used = {} /\ counter' \in Nat /\ counter <= counter'
        /\ j.id \in Used' /\ j.id \in Ids \ System
    BY <1>0, <2>1, <2>2, <2>3, <2>4, <2>5
  <2>7c. Carries(j)
    BY <2>3 DEF Carries
  <2>7. AllocInv'
    BY <2>1, <2>3, <2>4, <2>6, <2>7c, AllocStep
  <2>. QED  BY <2>3, <2>4, <2>7 DEF TypeOK, Exists
<1>2. CASE RenameLoad(a) /\ ~Exists(job[a].id)
  <2>1. job' = [job EXCEPT ![a] = Free] /\ UNCHANGED <<rows, counter, lastUid, born, mail, dead, raced>>
    BY <1>2 DEF RenameLoad
  <2>2. AllocInv'
    BY <1>0, <2>1, FreeType, FreeCarries, AllocFrame
  <2>. QED  BY <2>1, <2>2, FreeType DEF TypeOK, Exists
<1>3. CASE RenameWrite(a)
  <2>. DEFINE row == [job[a].row EXCEPT !.name = job[a].name]
  <2>1. /\ job[a].step = "rename" /\ job[a].id \in Ids \ System /\ job[a].name # None
        /\ job[a].row # None /\ job[a].id \in Used
    BY <1>3 DEF RenameWrite, AllocInv
  <2>2. row \in Row /\ row # None
    <3>1. job[a].row \in Row /\ job[a].name \in Names
      BY <1>0, <2>1 DEF Job
    <3>2. row \in Row
      BY <3>1 DEF Row
    <3>. QED  BY <3>2, RowAssumption
  <2>3. /\ rows' = [rows EXCEPT ![job[a].id] = row] /\ job' = [job EXCEPT ![a] = Free]
        /\ UNCHANGED <<counter, lastUid, born, mail, dead, raced>>
    BY <1>3 DEF RenameWrite
  <2>. HIDE DEF row
  <2>4. /\ rows' \in [Ids -> Row \cup {None}] /\ rows'[job[a].id] # None
        /\ \A i \in Ids : i # job[a].id => rows'[i] = rows[i]
    BY <2>1, <2>2, <2>3 DEF TypeOK
  <2>5. Used' = Used
    BY <2>1, <2>3, <2>4 DEF Used, Exists
  <2>6. Used \subseteq Used' /\ Used' \ Used = {} /\ counter' \in Nat /\ counter <= counter'
    BY <1>0, <2>3, <2>5
  <2>7. AllocInv'
    BY <1>0, <2>3, <2>6, FreeType, FreeCarries, AllocStep
  <2>8. \A i \in System : Exists(i)'
    BY <2>1, <2>4, TreeAssumption DEF TypeOK, Exists
  <2>. QED  BY <2>3, <2>4, <2>7, <2>8, FreeType DEF TypeOK
<1>. QED  BY <1>1, <1>2, <1>3

LEMMA DeletionStep ==
    ASSUME TypeOK, AllocInv, NEW a \in Actors, (\E d \in Docs : PurgeLoad(a, d)) \/ DropRow(a)
    PROVE  TypeOK' /\ AllocInv'
<1>0. /\ job[a] \in Job /\ counter \in Nat /\ Free.step = "none"
      /\ job[a].step = "purge" /\ job[a].id \in Ids \ System
  <2>1. job[a].step = "purge"
    BY DEF PurgeLoad, DropRow
  <2>2. job[a].id \in Ids \ System
    BY <2>1 DEF AllocInv, Carries
  <2>. QED  BY <2>1, <2>2 DEF TypeOK, Free
<1>1. ASSUME NEW d \in Docs, PurgeLoad(a, d) PROVE TypeOK' /\ AllocInv'
  <2>0. UNCHANGED <<rows, counter, lastUid, born, mail, dead, raced>> /\ d \in job[a].members
    BY <1>1 DEF PurgeLoad
  <2>1. CASE mail[d] = None
    <3>. DEFINE j == [job[a] EXCEPT !.members = @ \ {d}]
    <3>1. j \in Job /\ j.step = "purge" /\ j.id = job[a].id
      BY <1>0 DEF Job
    <3>2. job' = [job EXCEPT ![a] = j]
      BY <1>1, <2>1 DEF PurgeLoad
    <3>. HIDE DEF j
    <3>3c. Carries(j)
      BY <3>1 DEF Carries
    <3>3. AllocInv'
      BY <1>0, <2>0, <3>1, <3>2, <3>3c, AllocFrame
    <3>. QED  BY <2>0, <3>1, <3>2, <3>3 DEF TypeOK, Exists
  <2>2. CASE mail[d] # None
    <3>. DEFINE h == IF d \in job[a].alone THEN None ELSE [mail[d] EXCEPT ![job[a].id] = 0]
                j == [job[a] EXCEPT !.step = "unfile", !.doc = d, !.held = h]
    <3>1. job' = [job EXCEPT ![a] = j]
      BY <1>1, <2>2 DEF PurgeLoad
    <3>2. \/ h = None /\ d \in job[a].alone
          \/ h \in Filing /\ h[job[a].id] = 0
      <4>1. mail[d] \in Filing
        BY <2>2 DEF TypeOK
      <4>2. [mail[d] EXCEPT ![job[a].id] = 0] \in Filing
        BY <1>0, <4>1, TreeAssumption DEF Filing
      <4>3. [mail[d] EXCEPT ![job[a].id] = 0][job[a].id] = 0
        BY <1>0, <4>1 DEF Filing
      <4>. QED  BY <4>2, <4>3
    <3>. HIDE DEF h
    <3>3. /\ j \in Job /\ j.step = "unfile" /\ j.id = job[a].id /\ j.doc = d /\ j.held = h
          /\ j.members = job[a].members /\ j.alone = job[a].alone
      BY <1>0, <3>2 DEF Job, Steps
    <3>. HIDE DEF j
    <3>4. Carries(j)
      BY <2>0, <3>2, <3>3, FilingType DEF Carries
    <3>5. AllocInv'
      BY <1>0, <2>0, <3>1, <3>3, <3>4, AllocFrame
    <3>. QED  BY <2>0, <3>1, <3>3, <3>5 DEF TypeOK, Exists
  <2>. QED  BY <2>1, <2>2
<1>2. CASE DropRow(a)
  <2>1. /\ rows' = [rows EXCEPT ![job[a].id] = None] /\ job' = [job EXCEPT ![a] = Free]
        /\ dead' = IF Exists(job[a].id) THEN dead \cup {job[a].id} ELSE dead
        /\ UNCHANGED <<counter, lastUid, born, mail, raced>>
    BY <1>2 DEF DropRow
  <2>2. /\ rows' \in [Ids -> Row \cup {None}] /\ rows'[job[a].id] = None
        /\ \A i \in Ids : i # job[a].id => rows'[i] = rows[i]
    BY <1>0, <2>1 DEF TypeOK
  <2>3. Used' = Used
    BY <1>0, <2>1, <2>2 DEF Used, Exists
  <2>4. Used \subseteq Used' /\ Used' \ Used = {} /\ counter' \in Nat /\ counter <= counter'
    BY <1>0, <2>1, <2>3
  <2>5. AllocInv'
    BY <1>0, <2>1, <2>4, FreeType, FreeCarries, AllocStep
  <2>6. \A i \in System : Exists(i)'
    <3>1. \A i \in System : i \in Ids /\ i # job[a].id
      BY <1>0, TreeAssumption
    <3>2. \A i \in System : rows[i] # None
      BY DEF TypeOK, Exists
    <3>. QED  BY <2>2, <3>1, <3>2 DEF Exists
  <2>. QED  BY <1>0, <2>1, <2>2, <2>5, <2>6, FreeType DEF TypeOK
<1>. QED  BY <1>1, <1>2

LEMMA PutTypes ==
    ASSUME TypeOK, AllocInv, NEW a \in Actors,
           job[a].step \in {"unfile", "patch", "write"}, Put(a)
    PROVE  /\ job[a].doc \in Docs /\ job[a].held \in Filing \cup {None}
           /\ mail' = [mail EXCEPT ![job[a].doc] = job[a].held]
           /\ mail' \in [Docs -> Filing \cup {None}] /\ raced' \subseteq Docs
<1>1. job[a] \in Job /\ Carries(job[a])
  BY DEF TypeOK, AllocInv
<1>2. job[a].doc \in Docs /\ job[a].held \in Filing \cup {None}
  BY <1>1 DEF Carries, Job
<1>3. mail' = [mail EXCEPT ![job[a].doc] = job[a].held]
  BY DEF Put
<1>4. raced' \subseteq Docs
  BY <1>2 DEF Put, TypeOK
<1>. QED  BY <1>2, <1>3, <1>4 DEF TypeOK

LEMMA WriteStep ==
    ASSUME TypeOK, AllocInv, NEW a \in Actors, PurgeWrite(a) \/ WriteBack(a)
    PROVE  TypeOK' /\ AllocInv'
<1>1. job[a].step \in {"unfile", "patch", "write"} /\ Put(a)
  BY DEF PurgeWrite, WriteBack
<1>2. mail' \in [Docs -> Filing \cup {None}] /\ raced' \subseteq Docs
  BY <1>1, PutTypes
<1>3. UNCHANGED <<rows, counter, lastUid, born, dead>>
  BY DEF PurgeWrite, WriteBack
<1>4. CASE WriteBack(a)
  <2>1. job' = [job EXCEPT ![a] = Free] /\ Free.step = "none"
    BY <1>4 DEF WriteBack, Free
  <2>2. AllocInv'
    BY <1>3, <2>1, FreeType, FreeCarries, AllocFrame
  <2>. QED  BY <1>2, <1>3, <2>1, <2>2, FreeType DEF TypeOK, Exists
<1>5. CASE PurgeWrite(a)
  <2>. DEFINE j == [job[a] EXCEPT !.step = "purge", !.doc = None, !.held = None,
                                  !.members = @ \ {job[a].doc}]
  <2>1. job[a] \in Job /\ job[a].step = "unfile" /\ job[a].id \in Ids \ System
    BY <1>5 DEF TypeOK, AllocInv, PurgeWrite
  <2>2. job' = [job EXCEPT ![a] = j]
    BY <1>5 DEF PurgeWrite
  <2>3. j \in Job /\ j.step = "purge" /\ j.id = job[a].id
    BY <2>1 DEF Job, Steps
  <2>. HIDE DEF j
  <2>4c. Carries(j)
    BY <2>3 DEF Carries
  <2>4. AllocInv'
    BY <1>3, <2>1, <2>2, <2>3, <2>4c, AllocFrame
  <2>. QED  BY <1>2, <1>3, <2>2, <2>3, <2>4 DEF TypeOK, Exists
<1>. QED  BY <1>4, <1>5

LEMMA TreeStep ==
    ASSUME TypeOK, AllocInv, [Next]_vars
    PROVE  TypeOK' /\ AllocInv'
<1>1. CASE Restart
  <2>1. job' = [a \in Actors |-> Free] /\ UNCHANGED <<rows, counter, lastUid, born, mail, dead, raced>>
    BY <1>1 DEF Restart
  <2>2. Used' = Used /\ \A a \in Actors : job'[a] = Free /\ Free.step = "none"
    BY <2>1 DEF Used, Exists, Free
  <2>3. AllocInv'
    BY <2>1, <2>2 DEF AllocInv, Holds, Carries
  <2>. QED  BY <2>1, <2>3, FreeType DEF TypeOK, Exists
<1>2. CASE UNCHANGED vars
  BY <1>2 DEF vars, TypeOK, AllocInv, Holds, Used, Exists
<1>. QED  BY <1>1, <1>2, BeginStep, AllocFirstStep, AllocFloorStep, AllocRaiseStep, InsertRowStep,
             RenameStep, DeletionStep, FilingStep, HoldingStep, WriteStep
          DEF Next, ActorNext

LEMMA TreeInitial == Init => TypeOK /\ AllocInv
<1>. SUFFICES ASSUME Init PROVE TypeOK /\ AllocInv
  OBVIOUS
<1>1. TypeOK
  <2>1. [name |-> "system", validity |-> UidValidity] \in Row
    BY DEF Row, UidValidity
  <2>2. rows \in [Ids -> Row \cup {None}] /\ \A i \in System : Exists(i)
    BY <2>1, RowAssumption, TreeAssumption DEF Init, Exists
  <2>. QED  BY <2>2, FreeType, TreeAssumption DEF Init, TypeOK, Filing
<1>2. \A i \in Used : i <= SpamId
  BY TreeAssumption DEF Init, Used, Exists
<1>3. \A a \in Actors : job[a].step = "none"
  BY DEF Init, Free
<1>. QED  BY <1>1, <1>2, <1>3 DEF AllocInv, Holds, Carries

(* Every variable keeps its type and the system mailboxes stay, whatever is   *)
(* created, renamed, deleted and filed at once (mailbox_admin.rs).            *)
THEOREM TreeTypeCorrect == Spec => []TypeOK
<1>1. TypeOK /\ AllocInv /\ [Next]_vars => TypeOK' /\ AllocInv'
  BY TreeStep
<1>. QED  BY <1>1, TreeInitial, PTL DEF Spec

(* allocate_mailbox_id never hands out an id that a mailbox has, had, or that *)
(* another creation holds, for any number of concurrent operations.           *)
THEOREM MailboxIdsFresh == Spec => []IdsFresh
<1>1. TypeOK /\ AllocInv /\ [Next]_vars => TypeOK' /\ AllocInv'
  BY TreeStep
<1>2. TypeOK /\ AllocInv => IdsFresh
  <2>. SUFFICES ASSUME TypeOK, AllocInv, NEW a \in Actors, job[a].step = "insert"
                PROVE  /\ job[a].id > SpamId
                       /\ job[a].id \notin dead /\ ~Exists(job[a].id)
                       /\ \A b \in Actors \ {a} : job[b].step = "insert" => job[b].id # job[a].id
    BY DEF IdsFresh
  <2>1. Holds(a) /\ job[a].id > SpamId /\ job[a].id \in 1..counter /\ counter \in 0..MaxId
    BY DEF Holds, AllocInv, TypeOK
  <2>2. job[a].id \notin Used /\ job[a].id \in Ids
    BY <2>1, TreeAssumption DEF AllocInv
  <2>3. \A b \in Actors \ {a} : job[b].step = "insert" => job[b].id # job[a].id
    BY <2>1 DEF AllocInv, Holds
  <2>. QED  BY <2>1, <2>2, <2>3 DEF Used
<1>. QED  BY <1>1, <1>2, TreeInitial, PTL DEF Spec

----------------------------------------------------------------------------
(* Deletions.                                                                *)

(* A deletion under way still has every message of the mailbox on its list,   *)
(* and those it will take away altogether are in no other, apart from what    *)
(* was put in a mailbox after it made the list.                               *)
SweepOK(a) ==
    Purging(a) => \A d \in Docs \ raced :
        /\ job[a].id \in Boxes(d) => d \in job[a].members
        /\ d \in job[a].members \cap job[a].alone => Cardinality(Boxes(d)) <= 1

(* The inductive form of NoStrandedMail and SharedMailKept. *)
DeletionInv == NoStrandedMail /\ \A a \in Actors : SweepOK(a)

TreeInv == TypeOK /\ AllocInv /\ DeletionInv

LEMMA BoxesFinite ==
    ASSUME NEW d
    PROVE  /\ Cardinality(Boxes(d)) \in Nat
           /\ \A S \in SUBSET Boxes(d) : Cardinality(S) \in Nat /\ Cardinality(S) <= Cardinality(Boxes(d))
<1>1. IsFiniteSet(Ids)
  BY FS_Interval, TreeAssumption
<1>2. IsFiniteSet(Boxes(d))
  BY <1>1, FS_Subset DEF Boxes, BoxesOf
<1>. QED  BY <1>2, FS_Subset, FS_CardinalityType

LEMMA SweepKept ==
    ASSUME NEW a \in Actors, SweepOK(a), job'[a] = job[a], raced \subseteq raced',
           \A d \in Docs \ raced' : Boxes(d)' \subseteq Boxes(d)
    PROVE  SweepOK(a)'
<1>. SUFFICES ASSUME Purging(a), NEW d \in Docs \ raced'
              PROVE  /\ job[a].id \in Boxes(d)' => d \in job[a].members
                     /\ d \in job[a].members \cap job[a].alone => Cardinality(Boxes(d)') <= 1
  BY DEF SweepOK, Purging
<1>1. d \in Docs \ raced /\ Boxes(d)' \in SUBSET Boxes(d)
  OBVIOUS
<1>2. /\ job[a].id \in Boxes(d) => d \in job[a].members
      /\ d \in job[a].members \cap job[a].alone => Cardinality(Boxes(d)) <= 1
  BY <1>1 DEF SweepOK
<1>3. /\ Cardinality(Boxes(d)) \in Nat /\ Cardinality(Boxes(d)') \in Nat
      /\ Cardinality(Boxes(d)') <= Cardinality(Boxes(d))
  BY <1>1, BoxesFinite
<1>4. Cardinality(Boxes(d)) <= 1 => Cardinality(Boxes(d)') <= 1
  BY <1>3
<1>. QED  BY <1>1, <1>2, <1>4

(* Steps that move no mail and drop no row. *)
LEMMA MailKept ==
    ASSUME DeletionInv, NEW a \in Actors, UNCHANGED <<mail, raced>>,
           \A b \in Actors \ {a} : job'[b] = job[b],
           \A i \in Ids : Exists(i) => Exists(i)',
           job'[a].step \notin {"purge", "unfile"}
    PROVE  DeletionInv'
<1>1. \A d : Boxes(d)' = Boxes(d)
  BY DEF Boxes, BoxesOf
<1>2. NoStrandedMail'
  <2>. SUFFICES ASSUME NEW d \in Docs \ raced', NEW i \in Boxes(d)' PROVE Exists(i)'
    BY DEF NoStrandedMail
  <2>1. i \in Boxes(d) /\ i \in Ids /\ d \in Docs \ raced
    BY <1>1 DEF Boxes, BoxesOf
  <2>. QED  BY <2>1 DEF DeletionInv, NoStrandedMail
<1>3. ASSUME NEW b \in Actors PROVE SweepOK(b)'
  <2>1. CASE b = a
    BY <2>1 DEF SweepOK, Purging
  <2>2. CASE b # a
    BY <1>1, <2>2, SweepKept DEF DeletionInv
  <2>. QED  BY <2>1, <2>2
<1>. QED  BY <1>2, <1>3 DEF DeletionInv

LEMMA StartedDeletions ==
    ASSUME TypeOK, DeletionInv, NEW a \in Actors,
           \/ \E n \in Names : Create(a, n)
           \/ \E i \in Ids, n \in Names : Rename(a, i, n)
           \/ \E d \in Docs, i \in Ids : Deliver(a, d, i)
           \/ \E d \in Docs, k, i \in Ids, move \in BOOLEAN : Copy(a, d, k, i, move)
           \/ \E d \in Docs : EmailSet(a, d)
    PROVE  DeletionInv'
<1>0. job \in [Actors -> Job] /\ Free \in Job
  BY FreeType DEF TypeOK
<1>1. UNCHANGED <<mail, raced, rows>>
  BY DEF Create, Rename, Deliver, Copy, EmailSet
<1>2. \A i \in Ids : Exists(i) => Exists(i)'
  BY <1>1 DEF Exists
<1>. DEFINE Moved == (\A b \in Actors \ {a} : job'[b] = job[b])
                     /\ job'[a].step \notin {"purge", "unfile"}
<1>3. Moved
  <2>1. ASSUME NEW n \in Names, Create(a, n) PROVE Moved
    BY <1>0, <2>1 DEF Create, Start, Job
  <2>2. ASSUME NEW i \in Ids, NEW n \in Names, Rename(a, i, n) PROVE Moved
    BY <1>0, <2>2 DEF Rename, Start, Job
  <2>3. ASSUME NEW i \in Ids, NEW d \in Docs, Deliver(a, d, i) PROVE Moved
    BY <1>0, <2>3 DEF Deliver, Start, Job
  <2>4. ASSUME NEW d \in Docs, NEW k \in Ids, NEW i \in Ids, NEW move \in BOOLEAN,
               Copy(a, d, k, i, move)
        PROVE  Moved
    BY <1>0, <2>4 DEF Copy, Start, Job
  <2>5. ASSUME NEW d \in Docs, EmailSet(a, d) PROVE Moved
    BY <1>0, <2>5 DEF EmailSet, Start, Job
  <2>. HIDE DEF Moved
  <2>. QED  BY <2>1, <2>2, <2>3, <2>4, <2>5
<1>. QED  BY <1>1, <1>2, <1>3, MailKept

LEMMA GoingOnDeletions ==
    ASSUME TypeOK, DeletionInv, NEW a \in Actors,
           \/ AllocFirst(a) \/ AllocFloor(a) \/ AllocRaise(a) \/ RenameLoad(a) \/ CopyLoad(a)
           \/ \E i \in Ids : PatchAdd(a, i) \/ PatchRemove(a, i)
    PROVE  DeletionInv'
<1>0. job \in [Actors -> Job] /\ job[a] \in Job /\ Free \in Job /\ Free.step = "none"
  BY FreeType DEF TypeOK, Free
<1>1. UNCHANGED <<mail, raced, rows>>
  BY DEF AllocFirst, AllocFloor, AllocRaise, RenameLoad, CopyLoad, PatchAdd, PatchRemove
<1>2. \A i \in Ids : Exists(i) => Exists(i)'
  BY <1>1 DEF Exists
<1>. DEFINE Moved == (\A b \in Actors \ {a} : job'[b] = job[b])
                     /\ job'[a].step \notin {"purge", "unfile"}
<1>3. Moved
  <2>1. ASSUME AllocFirst(a) \/ AllocRaise(a) PROVE Moved
    BY <1>0, <2>1 DEF AllocFirst, AllocRaise, Job
  <2>2. ASSUME AllocFloor(a) PROVE Moved
    BY <1>0, <2>2 DEF AllocFloor, Job
  <2>3. ASSUME RenameLoad(a) PROVE Moved
    BY <1>0, <2>3 DEF RenameLoad, Job
  <2>4. ASSUME CopyLoad(a) PROVE Moved
    BY <1>0, <2>4 DEF CopyLoad, Job
  <2>5. ASSUME NEW i \in Ids, PatchAdd(a, i) \/ PatchRemove(a, i) PROVE Moved
    BY <1>0, <2>5 DEF PatchAdd, PatchRemove, Job
  <2>. HIDE DEF Moved
  <2>. QED  BY <2>1, <2>2, <2>3, <2>4, <2>5
<1>. QED  BY <1>1, <1>2, <1>3, MailKept

(* A row that is written is a row. *)
LEMMA WrittenDeletions ==
    ASSUME TypeOK, AllocInv, DeletionInv, NEW a \in Actors, InsertRow(a) \/ RenameWrite(a)
    PROVE  DeletionInv'
<1>0. job \in [Actors -> Job] /\ job[a] \in Job /\ Free.step = "none" /\ job[a].name \in Names
  BY DEF TypeOK, Free, AllocInv, InsertRow, RenameWrite, Job
<1>1. UNCHANGED <<mail, raced>> /\ job' = [job EXCEPT ![a] = Free]
  BY DEF InsertRow, RenameWrite
<1>2. PICK row \in Row : rows' = [rows EXCEPT ![job[a].id] = row]
  <2>1. CASE InsertRow(a)
    <3>1. [name |-> job[a].name, validity |-> UidValidity] \in Row
      BY <1>0 DEF Row, UidValidity
    <3>. QED  BY <2>1, <3>1 DEF InsertRow
  <2>2. CASE RenameWrite(a)
    <3>1. job[a].row \in Row
      BY <1>0, <2>2 DEF RenameWrite, AllocInv, Job
    <3>2. [job[a].row EXCEPT !.name = job[a].name] \in Row
      BY <1>0, <3>1 DEF Row
    <3>. QED  BY <2>2, <3>2 DEF RenameWrite
  <2>. QED  BY <2>1, <2>2
<1>3. \A i \in Ids : Exists(i) => Exists(i)'
  BY <1>2, RowAssumption DEF Exists, TypeOK
<1>4. (\A b \in Actors \ {a} : job'[b] = job[b]) /\ job'[a].step \notin {"purge", "unfile"}
  BY <1>0, <1>1
<1>. QED  BY <1>1, <1>3, <1>4, MailKept

(* The snapshot with which a deletion begins. *)
LEMMA DeleteDeletions ==
    ASSUME TypeOK, DeletionInv, NEW a \in Actors, NEW i \in Ids, NEW remove \in BOOLEAN,
           Delete(a, i, remove)
    PROVE  DeletionInv'
<1>. DEFINE j == [Free EXCEPT !.step = "purge", !.id = i,
                              !.members = Members(i), !.alone = Alone(i)]
<1>0. job' = [job EXCEPT ![a] = j] /\ job \in [Actors -> Job] /\ UNCHANGED <<rows, mail, raced>>
  BY DEF Delete, Start, TypeOK
<1>1. j.id = i /\ j.members = Members(i) /\ j.alone = Alone(i)
  BY FreeType DEF Job
<1>. HIDE DEF j
<1>2. job'[a] = j /\ \A b \in Actors \ {a} : job'[b] = job[b]
  BY <1>0
<1>3. \A d : Boxes(d)' = Boxes(d)
  BY <1>0 DEF Boxes, BoxesOf
<1>4. NoStrandedMail'
  BY <1>0, <1>3 DEF DeletionInv, NoStrandedMail, Exists
<1>5. SweepOK(a)'
  <2>. SUFFICES ASSUME NEW d \in Docs
                PROVE  /\ i \in Boxes(d)' => d \in j.members
                       /\ d \in j.members \cap j.alone => Cardinality(Boxes(d)') <= 1
    BY <1>1, <1>2 DEF SweepOK, Purging
  <2>. QED  BY <1>1, <1>3 DEF Members, Alone
<1>6. ASSUME NEW b \in Actors, b # a PROVE SweepOK(b)'
  BY <1>0, <1>2, <1>3, <1>6, SweepKept DEF DeletionInv
<1>. QED  BY <1>4, <1>5, <1>6 DEF DeletionInv

(* A message of the list is loaded, or found gone. *)
LEMMA PurgeLoadDeletions ==
    ASSUME TypeOK, DeletionInv, NEW a \in Actors, NEW d \in Docs, PurgeLoad(a, d)
    PROVE  DeletionInv'
<1>0. /\ job \in [Actors -> Job] /\ job[a] \in Job /\ job[a].step = "purge"
      /\ UNCHANGED <<rows, mail, raced>>
  BY DEF TypeOK, PurgeLoad
<1>1. \A e : Boxes(e)' = Boxes(e)
  BY <1>0 DEF Boxes
<1>2. /\ \A b \in Actors \ {a} : job'[b] = job[b]
      /\ job'[a].id = job[a].id /\ job'[a].alone = job[a].alone
      /\ \/ job'[a].members = job[a].members
         \/ mail[d] = None /\ job'[a].members = job[a].members \ {d}
  <2>1. CASE mail[d] = None
    BY <1>0, <2>1 DEF PurgeLoad, Job
  <2>2. CASE mail[d] # None
    BY <1>0, <2>2 DEF PurgeLoad, Job
  <2>. QED  BY <2>1, <2>2
<1>3. NoStrandedMail'
  BY <1>0, <1>1 DEF DeletionInv, NoStrandedMail, Exists
<1>4. SweepOK(a)'
  <2>. SUFFICES ASSUME NEW e \in Docs \ raced
                PROVE  /\ job[a].id \in Boxes(e) => e \in job'[a].members
                       /\ e \in job'[a].members \cap job[a].alone => Cardinality(Boxes(e)) <= 1
    BY <1>0, <1>1, <1>2 DEF SweepOK
  <2>1. /\ job[a].id \in Boxes(e) => e \in job[a].members
        /\ e \in job[a].members \cap job[a].alone => Cardinality(Boxes(e)) <= 1
    BY <1>0 DEF DeletionInv, SweepOK, Purging
  <2>2. mail[d] = None => Boxes(d) = {}
    BY DEF Boxes, BoxesOf
  <2>. QED  BY <1>2, <2>1, <2>2
<1>5. ASSUME NEW b \in Actors, b # a PROVE SweepOK(b)'
  BY <1>0, <1>1, <1>2, <1>5, SweepKept DEF DeletionInv
<1>. QED  BY <1>3, <1>4, <1>5 DEF DeletionInv

(* A record is written, current or stale: a message it puts where a deletion  *)
(* could miss it counts as raced.                                             *)
LEMMA PutDeletions ==
    ASSUME TypeOK, AllocInv, DeletionInv, NEW a \in Actors,
           job[a].step \in {"unfile", "patch", "write"}, Put(a), UNCHANGED rows,
           \A b \in Actors \ {a} : job'[b] = job[b]
    PROVE  /\ raced \subseteq raced'
           /\ \A e \in Docs : e # job[a].doc => Boxes(e)' = Boxes(e)
           /\ NoStrandedMail'
           /\ \A b \in Actors \ {a} : SweepOK(b)'
<1>0. PICK d : d = job[a].doc
  OBVIOUS
<1>1. PICK held : held = job[a].held
  OBVIOUS
<1>2. PICK added : added = BoxesOf(held) \ Boxes(d)
  OBVIOUS
<1>3. PICK overlaps \in BOOLEAN : overlaps <=> Overlaps(a, d, added)
  OBVIOUS
<1>4. /\ d \in Docs /\ mail \in [Docs -> Filing \cup {None}]
      /\ mail' = [mail EXCEPT ![d] = held]
      /\ raced' = IF overlaps THEN raced \cup {d} ELSE raced
  BY <1>0, <1>1, <1>2, <1>3, PutTypes DEF Put, TypeOK
<1>5. mail'[d] = held /\ \A e \in Docs : e # d => mail'[e] = mail[e]
  BY <1>4
<1>6. Boxes(d)' = BoxesOf(held) /\ \A e \in Docs : e # d => Boxes(e)' = Boxes(e)
  BY <1>5 DEF Boxes
<1>7. raced \subseteq raced' /\ (overlaps => d \in raced')
  BY <1>4
<1>8. ~overlaps => /\ \A i \in added : Exists(i)
                   /\ \A b \in Actors \ {a} : Purging(b) =>
                        job[b].id \notin added /\ (added = {} \/ d \notin job[b].members)
  BY <1>3 DEF Overlaps
<1>9. NoStrandedMail'
  <2>. SUFFICES ASSUME NEW e \in Docs \ raced', NEW i \in Boxes(e)' PROVE Exists(i)
    BY DEF NoStrandedMail, Exists
  <2>1. e \in Docs \ raced
    BY <1>7
  <2>2. i \in Boxes(e) => Exists(i)
    BY <2>1 DEF DeletionInv, NoStrandedMail
  <2>3. i \notin Boxes(e) => e = d /\ i \in added /\ ~overlaps
    BY <1>2, <1>6, <1>7
  <2>. QED  BY <1>8, <2>2, <2>3
<1>10. ASSUME NEW b \in Actors \ {a} PROVE SweepOK(b)'
  <2>1. job'[b] = job[b] /\ SweepOK(b)
    BY DEF DeletionInv
  <2>. SUFFICES ASSUME Purging(b), NEW e \in Docs \ raced'
                PROVE  /\ job[b].id \in Boxes(e)' => e \in job[b].members
                       /\ e \in job[b].members \cap job[b].alone => Cardinality(Boxes(e)') <= 1
    BY <2>1 DEF SweepOK, Purging
  <2>2. e \in Docs \ raced
    BY <1>7
  <2>3. /\ job[b].id \in Boxes(e) => e \in job[b].members
        /\ e \in job[b].members \cap job[b].alone => Cardinality(Boxes(e)) <= 1
    BY <2>1, <2>2 DEF SweepOK
  <2>4. CASE Boxes(e)' \subseteq Boxes(e)
    <3>1. Boxes(e)' \in SUBSET Boxes(e)
      BY <2>4
    <3>2. /\ Cardinality(Boxes(e)) \in Nat /\ Cardinality(Boxes(e)') \in Nat
          /\ Cardinality(Boxes(e)') <= Cardinality(Boxes(e))
      BY <3>1, BoxesFinite
    <3>3. Cardinality(Boxes(e)) <= 1 => Cardinality(Boxes(e)') <= 1
      BY <3>2
    <3>. QED  BY <2>3, <2>4, <3>3
  <2>5. CASE ~(Boxes(e)' \subseteq Boxes(e))
    <3>1. e = d /\ added # {} /\ ~overlaps
      BY <1>2, <1>6, <1>7, <2>5
    <3>2. job[b].id \notin added /\ d \notin job[b].members
      BY <1>8, <3>1
    <3>3. job[b].id \in Boxes(e)' => job[b].id \in Boxes(e)
      BY <1>2, <1>6, <3>1, <3>2
    <3>. QED  BY <2>3, <3>1, <3>2, <3>3
  <2>. QED  BY <2>4, <2>5
<1>. QED  BY <1>0, <1>6, <1>7, <1>9, <1>10

(* The message written is off the list, out of the mailbox or gone. *)
LEMMA WriteDeletions ==
    ASSUME TypeOK, AllocInv, DeletionInv, NEW a \in Actors, PurgeWrite(a) \/ WriteBack(a)
    PROVE  DeletionInv'
<1>0. job \in [Actors -> Job] /\ job[a] \in Job /\ UNCHANGED rows /\ Put(a)
      /\ job[a].step \in {"unfile", "patch", "write"}
  BY DEF TypeOK, PurgeWrite, WriteBack
<1>1. \A b \in Actors \ {a} : job'[b] = job[b]
  BY <1>0 DEF PurgeWrite, WriteBack
<1>2. /\ raced \subseteq raced'
      /\ \A e \in Docs : e # job[a].doc => Boxes(e)' = Boxes(e)
      /\ NoStrandedMail'
      /\ \A b \in Actors \ {a} : SweepOK(b)'
  BY <1>0, <1>1, PutDeletions
<1>3. CASE WriteBack(a)
  <2>1. job'[a].step = "none"
    BY <1>0, <1>3 DEF WriteBack, Free
  <2>. QED  BY <1>2, <2>1 DEF DeletionInv, SweepOK, Purging
<1>4. CASE PurgeWrite(a)
  <2>0. PICK d : d = job[a].doc
    OBVIOUS
  <2>1. job[a].step = "unfile" /\ Carries(job[a]) /\ job[a].id \in Ids
    BY <1>4 DEF PurgeWrite, AllocInv
  <2>2. /\ job'[a].id = job[a].id /\ job'[a].alone = job[a].alone
        /\ job'[a].members = job[a].members \ {d}
    BY <1>0, <1>4, <2>0 DEF PurgeWrite, Job
  <2>3. mail'[d] = job[a].held /\ d \in Docs
    BY <1>0, <2>0, PutTypes DEF TypeOK
  <2>4. job[a].id \notin Boxes(d)'
    <3>1. mail'[d] = None \/ mail'[d][job[a].id] = 0
      BY <2>1, <2>3 DEF Carries
    <3>. QED  BY <3>1 DEF Boxes, BoxesOf
  <2>5. SweepOK(a)'
    <3>. SUFFICES ASSUME NEW e \in Docs \ raced'
                  PROVE  /\ job[a].id \in Boxes(e)' => e \in job[a].members \ {d}
                         /\ e \in (job[a].members \ {d}) \cap job[a].alone =>
                              Cardinality(Boxes(e)') <= 1
      BY <2>2 DEF SweepOK
    <3>1. /\ job[a].id \in Boxes(e) => e \in job[a].members
          /\ e \in job[a].members \cap job[a].alone => Cardinality(Boxes(e)) <= 1
      BY <1>2, <2>1 DEF DeletionInv, SweepOK, Purging
    <3>2. CASE e = d
      BY <2>4, <3>2
    <3>3. CASE e # d
      <4>1. Boxes(e)' = Boxes(e)
        BY <1>2, <2>0, <3>3
      <4>. QED  BY <3>1, <3>3, <4>1
    <3>. QED  BY <3>2, <3>3
  <2>. QED  BY <1>2, <2>5 DEF DeletionInv
<1>. QED  BY <1>3, <1>4

(* The row goes last, when the list is empty. *)
LEMMA DropDeletions ==
    ASSUME TypeOK, DeletionInv, NEW a \in Actors, DropRow(a)
    PROVE  DeletionInv'
<1>0. /\ job \in [Actors -> Job] /\ job[a].step = "purge" /\ job[a].members = {}
      /\ UNCHANGED <<mail, raced>> /\ job' = [job EXCEPT ![a] = Free] /\ Free.step = "none"
      /\ rows' = [rows EXCEPT ![job[a].id] = None] /\ rows \in [Ids -> Row \cup {None}]
  BY DEF TypeOK, DropRow, Purged, Free
<1>1. \A d : Boxes(d)' = Boxes(d)
  BY <1>0 DEF Boxes, BoxesOf
<1>2. NoStrandedMail'
  <2>. SUFFICES ASSUME NEW d \in Docs \ raced, NEW i \in Boxes(d) PROVE Exists(i)'
    BY <1>0, <1>1 DEF NoStrandedMail
  <2>1. i # job[a].id
    BY <1>0 DEF DeletionInv, SweepOK, Purging
  <2>2. i \in Ids /\ Exists(i)
    BY DEF Boxes, BoxesOf, DeletionInv, NoStrandedMail
  <2>. QED  BY <1>0, <2>1, <2>2 DEF Exists
<1>3. SweepOK(a)'
  BY <1>0 DEF SweepOK, Purging
<1>4. ASSUME NEW b \in Actors, b # a PROVE SweepOK(b)'
  <2>1. job'[b] = job[b]
    BY <1>0, <1>4
  <2>. QED  BY <1>0, <1>1, <2>1, SweepKept DEF DeletionInv
<1>. QED  BY <1>2, <1>3, <1>4 DEF DeletionInv

LEMMA DeletionStays ==
    ASSUME TreeInv, [Next]_vars
    PROVE  TreeInv'
<1>0. TypeOK /\ AllocInv /\ DeletionInv /\ TypeOK' /\ AllocInv'
  BY TreeStep DEF TreeInv
<1>1. CASE Restart
  <2>1. /\ \A a \in Actors : job'[a] = Free /\ Free.step = "none"
        /\ UNCHANGED <<rows, mail, raced>>
    BY <1>1 DEF Restart, Free
  <2>2. NoStrandedMail'
    BY <1>0, <2>1 DEF DeletionInv, NoStrandedMail, Boxes, BoxesOf, Exists
  <2>. QED  BY <1>0, <2>1, <2>2 DEF DeletionInv, SweepOK, Purging, TreeInv
<1>2. CASE UNCHANGED vars
  <2>1. UNCHANGED <<rows, mail, raced, job>>
    BY <1>2 DEF vars
  <2>2. NoStrandedMail'
    BY <1>0, <2>1 DEF DeletionInv, NoStrandedMail, Boxes, BoxesOf, Exists
  <2>3. \A d : Boxes(d)' = Boxes(d)
    BY <2>1 DEF Boxes, BoxesOf
  <2>. QED  BY <1>0, <2>1, <2>2, <2>3, SweepKept DEF DeletionInv, TreeInv
<1>3. ASSUME NEW a \in Actors, ActorNext(a) PROVE DeletionInv'
  BY <1>0, <1>3, StartedDeletions, GoingOnDeletions, WrittenDeletions, DeleteDeletions,
     PurgeLoadDeletions, WriteDeletions, DropDeletions DEF ActorNext
<1>. QED  BY <1>0, <1>1, <1>2, <1>3 DEF Next, TreeInv

LEMMA DeletionStart == Init => TreeInv
<1>. SUFFICES ASSUME Init PROVE TreeInv
  OBVIOUS
<1>1. \A a \in Actors : job[a].step = "none"
  BY DEF Init, Free
<1>2. \A d \in Docs : Boxes(d) = {}
  BY DEF Init, Boxes, BoxesOf
<1>. QED  BY <1>1, <1>2, TreeInitial DEF TreeInv, DeletionInv, NoStrandedMail, SweepOK, Purging

(* A message is in a mailbox that is gone only after a write that put it in   *)
(* one gone or going, for any number of deletions, creations, renames,        *)
(* deliveries, copies and patches at once (mailbox_admin.rs, read.rs).        *)
THEOREM NothingStranded == Spec => []NoStrandedMail
<1>1. TreeInv /\ [Next]_vars => TreeInv'
  BY DeletionStays
<1>2. TreeInv => NoStrandedMail
  BY DEF TreeInv, DeletionInv
<1>. QED  BY <1>1, <1>2, DeletionStart, PTL DEF Spec

(* A message disappears only with the last mailbox it is in, although the     *)
(* list of those that are in no other is made before the first is taken away, *)
(* unless a write put it in another while a deletion had it on its list.      *)
THEOREM SharedMailStays == Spec => SharedMailKept
<1>. DEFINE Kept == \A d \in Docs \ raced :
                      mail[d] # None /\ mail'[d] = None => Cardinality(Boxes(d)) <= 1
<1>1. TreeInv /\ [Next]_vars => TreeInv'
  BY DeletionStays
<1>2. TreeInv /\ [Next]_vars => [Kept]_vars
  <2>. SUFFICES ASSUME TreeInv, Next, NEW d \in Docs \ raced, mail[d] # None, mail'[d] = None
                PROVE  Cardinality(Boxes(d)) <= 1
    OBVIOUS
  <2>0. mail \in [Docs -> Filing \cup {None}] /\ TypeOK /\ AllocInv /\ DeletionInv
    BY DEF TreeInv, TypeOK
  <2>1. PICK a \in Actors : ActorNext(a)
    BY DEF Next, Restart
  <2>2. ASSUME PurgeWrite(a) \/ WriteBack(a) PROVE Cardinality(Boxes(d)) <= 1
    <3>1. Put(a) /\ job[a].step \in {"unfile", "patch", "write"} /\ Carries(job[a])
      BY <2>0, <2>2 DEF PurgeWrite, WriteBack, AllocInv
    <3>2. job[a].doc \in Docs /\ mail' = [mail EXCEPT ![job[a].doc] = job[a].held]
      BY <2>0, <3>1, PutTypes
    <3>3. d = job[a].doc /\ job[a].held = None
      BY <2>0, <3>2
    <3>4. job[a].step = "unfile" /\ d \in job[a].members \cap job[a].alone
      BY <3>1, <3>3 DEF Carries
    <3>. QED  BY <2>0, <3>4 DEF DeletionInv, SweepOK, Purging
  <2>3. CASE UNCHANGED mail
    BY <2>3
  <2>. QED
    BY <2>1, <2>2, <2>3 DEF ActorNext, Create, AllocFirst, AllocFloor, AllocRaise, InsertRow,
       Rename, RenameLoad, RenameWrite, Delete, PurgeLoad, DropRow, Deliver, Copy, CopyLoad,
       EmailSet, PatchAdd, PatchRemove
<1>. QED  BY <1>1, <1>2, DeletionStart, PTL DEF Spec, SharedMailKept
=============================================================================
