------------------------- MODULE MailAccessProofs -------------------------
(* A UID means one message, STORE merges, and the client's sequence numbers    *)
(* follow the mailbox: the proofs of TypeOK, UidOwner, StoreMerges and         *)
(* ViewFollows.                                                                *)
EXTENDS MailAccess, FiniteSetTheorems, SequenceTheorems, WellFoundedInduction, TLAPS

(* The UIDs of a record were handed out for its document; so was the UID an    *)
(* operation has drawn for the message in hand.                                *)
Owned(r, d, lu, ow) ==
    \A b \in Boxes : r.uid[b] # 0 => r.uid[b] <= lu[b] /\ ow[b][r.uid[b]] = d

Filings == {"file", "move", "refile"}
Drawn(it, lu, ow) ==
    it.act \in Filings /\ it.uid # 0 => it.uid <= lu[it.to] /\ ow[it.to][it.uid] = it.doc

(* What an operation holds: the record of its first item's document and no     *)
(* other; STORE the records of all.                                            *)
HoldsHead(j, lu, ow) ==
    /\ \A d \in Docs : j.held[d] # None => j.loaded /\ j.todo # <<>> /\ d = Head(j.todo).doc
    /\ j.loaded => /\ j.todo # <<>> /\ j.held[Head(j.todo).doc] # None
                   /\ Drawn(Head(j.todo), lu, ow)

Inserts == {"deliver", "append"}
ItemOK(it, cmd) ==
    /\ it.act \in Filings => it.to \in Boxes
    /\ it.act = "insert" <=> cmd \in Inserts
    /\ cmd = "store" => it.act \in {"plus", "minus", "replace"}

JobOK(j, lu, ow) ==
    /\ j.todo # <<>> => j.tries < UpdateAttempts
    /\ \A d \in Docs : j.held[d] # None => Owned(j.held[d], d, lu, ow)
    /\ \A n \in 1..Len(j.todo) : ItemOK(j.todo[n], j.cmd)
    /\ j.cmd # "store" => HoldsHead(j, lu, ow)
    /\ j.cmd \in Inserts => Len(j.todo) <= 1 /\ (j.todo # <<>> => j.loaded)

RecordsOwned ==
    /\ \A d \in Docs : data[d] # None => Owned(data[d], d, lastUid, owner)
    /\ \A a \in Actors : job[a] # None => JobOK(job[a], lastUid, owner)

OwnerInv == TypeOK /\ RecordsOwned

(* A document that is being inserted is nobody else's yet.                     *)
Inserting(j) == j.cmd \in Inserts /\ j.todo # <<>>
InsertsApart ==
    /\ \A d \in fresh : data[d] = None /\ \A a \in Actors : job[a] # None => job[a].held[d] = None
    /\ \A a \in Actors : job[a] # None /\ Inserting(job[a]) =>
         LET d == Head(job[a].todo).doc
         IN  /\ data[d] = None
             /\ \A b \in Actors \ {a} : job[b] # None => job[b].held[d] = None

(* What a session's command does to the mailbox it has selected.               *)
ImapCommands == {"fetch", "store", "copy", "move", "expunge", "close", "append"}
DoesTo(it, cmd, b) ==
    /\ cmd = "fetch" => it.act = "seen"
    /\ cmd = "copy" => it.act = "file" /\ it.to # b
    /\ cmd = "move" => \/ it.act = "move" /\ it.to # b /\ it.from = b
                       \/ it.act = "unfile" /\ it.from = b
    /\ cmd = "expunge" => it.act = "delete" \/ (it.act = "expunge" /\ it.from = b)

SessionJob(j, z) ==
    /\ j.cmd \in ImapCommands
    /\ z.state = "selected" =>
         /\ \A n \in 1..Len(j.todo) : DoesTo(j.todo[n], j.cmd, z.box)
         /\ z.readOnly => j.cmd \in {"append", "copy"}
    /\ z.state # "selected" => j.cmd = "append"

SessionJobs == \A s \in Imap : job[s] # None => ~sess[s].idle /\ SessionJob(job[s], sess[s])

(* While nothing has moved under the session, the messages its command still   *)
(* has to do are where the snapshot showed them.                               *)
Present(j, z, dt) ==
    /\ \A n \in 1..Len(j.todo) :
         /\ dt[j.todo[n].doc] # None /\ dt[j.todo[n].doc].uid[z.box] # 0
         /\ \A m \in 1..Len(j.todo) : j.todo[m].doc = j.todo[n].doc => m = n
    /\ j.loaded => j.held[Head(j.todo).doc].uid[z.box] = dt[Head(j.todo).doc].uid[z.box]

Leaving(j, z, dt) ==
    IF j.cmd \in {"move", "expunge"}
    THEN {dt[j.todo[n].doc].uid[z.box] : n \in 1..Len(j.todo)}
    ELSE {}

(* The list the client will have once it has heard of the command under way is *)
(* a prefix of what will be left of the mailbox.                               *)
ViewOK(j, z, dt) ==
    z.state = "selected" /\ ~z.moved =>
        IF j = None THEN IsPrefix(z.view, List(dt, z.box))
        ELSE j.cmd # "close" =>
               /\ j.cmd \in {"fetch", "copy", "move", "expunge"} => Present(j, z, dt)
               /\ IsPrefix(Heard(z, j), Ascending(UidSet(dt, z.box) \ Leaving(j, z, dt)))

ViewsFollow == \A s \in Imap : ViewOK(job[s], sess[s], data)

AccessInv == OwnerInv /\ InsertsApart /\ SessionJobs /\ ViewsFollow
----------------------------------------------------------------------------
(* Ascending enumerations.                                                     *)

LEMMA NatLeast ==
    ASSUME NEW S, S \subseteq Nat, S # {}
    PROVE  \E x \in S : \A y \in S : x <= y
<1>1. \A u, v \in Nat : u < v => <<u, v>> \in OpToRel(<, Nat)
  BY DEF OpToRel
<1>2. PICK R : IsWellFoundedOn(R, Nat) /\ \A u, v \in Nat : u < v => <<u, v>> \in R
  BY <1>1, NatLessThanWellFounded, Zenon
<1>3. PICK m \in S : \A y \in S : ~(<<y, m>> \in R)
  <2>1. IsWellFoundedOn(R, Nat)
    BY <1>2
  <2>. QED  BY <2>1, WFMin, Zenon
<1>4. ASSUME NEW y \in S PROVE m <= y
  <2>1. y \in Nat /\ m \in Nat /\ ~(y < m)
    BY <1>2, <1>3
  <2>. QED  BY <2>1
<1>. QED  BY <1>4

(* q runs upwards through 1..n.                                                *)
Rising(q, n) == \A i, j \in 1..n : i < j => q[i] < q[j]

LEMMA AscendingExists ==
    ASSUME NEW S, S \subseteq Nat, IsFiniteSet(S)
    PROVE  \E q \in [1..Cardinality(S) -> S] : Rising(q, Cardinality(S))
<1>. DEFINE Lacks(T, n) == ~\E q \in [1..n -> T] : Rising(q, n)
            Bad == {n \in Nat : \E T \in SUBSET Nat :
                      IsFiniteSet(T) /\ Cardinality(T) = n /\ Lacks(T, n)}
<1>. SUFFICES ASSUME Bad # {} PROVE FALSE
  <2>1. Cardinality(S) \in Nat
    BY FS_CardinalityType
  <2>. QED  BY <2>1
<1>1. PICK n \in Bad : \A m \in Bad : n <= m
  BY NatLeast
<1>2. PICK T \in SUBSET Nat : IsFiniteSet(T) /\ Cardinality(T) = n /\ Lacks(T, n)
  BY <1>1
<1>. n \in Nat
  OBVIOUS
<1>3. n # 0
  <2>. SUFFICES ASSUME n = 0 PROVE FALSE
    OBVIOUS
  <2>1. [i \in 1..0 |-> 0] \in [1..n -> T]
    OBVIOUS
  <2>2. Rising([i \in 1..0 |-> 0], n)
    BY DEF Rising
  <2>. QED  BY <1>2, <2>1, <2>2
<1>4. T # {}
  BY <1>2, <1>3, FS_EmptySet
<1>5. PICK m \in T : \A y \in T : m <= y
  BY <1>4, NatLeast
<1>6. IsFiniteSet(T \ {m}) /\ Cardinality(T \ {m}) = n - 1
  BY <1>2, <1>5, FS_RemoveElement
<1>7. PICK q \in [1..(n - 1) -> T \ {m}] : Rising(q, n - 1)
  <2>1. n - 1 \in Nat /\ ~(n <= n - 1)
    BY <1>3
  <2>2. n - 1 \notin Bad
    BY <1>1, <2>1
  <2>3. ~Lacks(T \ {m}, n - 1)
    BY <1>6, <2>1, <2>2
  <2>. QED  BY <2>3
<1>. DEFINE r == [i \in 1..n |-> IF i = 1 THEN m ELSE q[i - 1]]
<1>8. r \in [1..n -> T]
  <2>1. \A i \in 1..n : i # 1 => i - 1 \in 1..(n - 1)
    OBVIOUS
  <2>. QED  BY <1>5, <1>7, <2>1
<1>9. Rising(r, n)
  <2>. SUFFICES ASSUME NEW i \in 1..n, NEW j \in 1..n, i < j PROVE r[i] < r[j]
    BY DEF Rising
  <2>1. j # 1 /\ j - 1 \in 1..(n - 1) /\ r[j] = q[j - 1] /\ q[j - 1] \in T \ {m}
    BY <1>7
  <2>2. CASE i = 1
    <3>1. r[i] = m /\ m <= q[j - 1] /\ m # q[j - 1] /\ m \in Nat /\ q[j - 1] \in Nat
      BY <1>5, <2>1, <2>2
    <3>. QED  BY <2>1, <3>1
  <2>3. CASE i # 1
    <3>1. i - 1 \in 1..(n - 1) /\ r[i] = q[i - 1] /\ i - 1 < j - 1
      BY <2>3
    <3>. QED  BY <1>7, <2>1, <3>1 DEF Rising
  <2>. QED  BY <2>2, <2>3
<1>. QED  BY <1>2, <1>8, <1>9

LEMMA AscendingIs ==
    ASSUME NEW S, S \subseteq Nat, IsFiniteSet(S)
    PROVE  /\ Cardinality(S) \in Nat
           /\ Ascending(S) \in [1..Cardinality(S) -> S]
           /\ Rising(Ascending(S), Cardinality(S))
           /\ \A x \in S : \E i \in 1..Cardinality(S) : Ascending(S)[i] = x
           /\ Ascending(S) \in Seq(S) /\ Len(Ascending(S)) = Cardinality(S)
<1>. DEFINE n == Cardinality(S)
            q == Ascending(S)
<1>1. n \in Nat
  BY FS_CardinalityType
<1>2. q \in [1..n -> S] /\ Rising(q, n)
  <2>1. \E f \in [1..n -> S] : \A i, j \in 1..n : i < j => f[i] < f[j]
    BY AscendingExists DEF Rising
  <2>. QED  BY <2>1, Zenon DEF Ascending, Rising
<1>. HIDE DEF q
<1>3. \A x \in S : \E i \in 1..n : q[i] = x
  <2>1. \A i, j \in 1..n : q[i] = q[j] => i = j
    <3>. SUFFICES ASSUME NEW i \in 1..n, NEW j \in 1..n, q[i] = q[j], i # j PROVE FALSE
      OBVIOUS
    <3>0. q[i] \in S /\ q[j] \in S /\ i \in Nat /\ j \in Nat
      BY <1>1, <1>2
    <3>a. q[i] \in Nat /\ q[j] \in Nat
      BY <3>0
    <3>b. i < j \/ j < i
      BY <3>0
    <3>1. q[i] \in Nat /\ q[j] \in Nat /\ (i < j \/ j < i)
      BY <3>a, <3>b
    <3>2. q[i] < q[j] \/ q[j] < q[i]
      BY <1>2, <3>1 DEF Rising
    <3>. QED  BY <3>1, <3>2
  <2>2. q \in Injection(1..n, S)
    BY <1>2, <2>1 DEF Injection, IsInjective
  <2>3. Cardinality(1..n) = n
    BY <1>1, FS_Interval
  <2>4. q \in Surjection(1..n, S)
    BY <2>2, <2>3, FS_Injection
  <2>. QED  BY <2>4 DEF Surjection
<1>4. q \in Seq(S) /\ Len(q) = n
  BY <1>1, <1>2
<1>. QED  BY <1>1, <1>2, <1>3, <1>4 DEF q

(* There is only one.                                                          *)
LEMMA AscendingUnique ==
    ASSUME NEW S, S \subseteq Nat, NEW n \in Nat, NEW q \in [1..n -> S],
           Rising(q, n), \A x \in S : \E i \in 1..n : q[i] = x
    PROVE  IsFiniteSet(S) /\ Cardinality(S) = n /\ Ascending(S) = q
<1>1. \A i, j \in 1..n : q[i] = q[j] => i = j
  <2>. SUFFICES ASSUME NEW i \in 1..n, NEW j \in 1..n, q[i] = q[j], i # j PROVE FALSE
    OBVIOUS
  <2>0. q[i] \in S /\ q[j] \in S /\ i \in Nat /\ j \in Nat
    OBVIOUS
  <2>a. q[i] \in Nat /\ q[j] \in Nat
    BY <2>0
  <2>b. i < j \/ j < i
    BY <2>0
  <2>1. q[i] \in Nat /\ q[j] \in Nat /\ (i < j \/ j < i)
    BY <2>a, <2>b
  <2>2. q[i] < q[j] \/ q[j] < q[i]
    BY <2>1 DEF Rising
  <2>. QED  BY <2>1, <2>2
<1>2. q \in Bijection(1..n, S)
  BY <1>1 DEF Bijection, Injection, Surjection, IsInjective
<1>3. ExistsBijection(1..n, S)
  BY <1>2 DEF ExistsBijection
<1>4. IsFiniteSet(S) /\ Cardinality(S) = n
  BY <1>3, FS_NatBijection, FS_CountingElements
<1>. DEFINE r == Ascending(S)
<1>5. r \in [1..n -> S] /\ Rising(r, n) /\ \A x \in S : \E i \in 1..n : r[i] = x
  BY <1>4, AscendingIs
<1>. HIDE DEF r
<1>. DEFINE Off == {i \in 1..n : q[i] # r[i]}
<1>6. Off = {}
  <2>. SUFFICES ASSUME Off # {} PROVE FALSE
    OBVIOUS
  <2>0. Off \subseteq Nat
    OBVIOUS
  <2>1. PICK i \in Off : \A j \in Off : i <= j
    BY <2>0, NatLeast
  <2>2. i \in 1..n /\ q[i] # r[i] /\ q[i] \in Nat /\ r[i] \in Nat /\ q[i] \in S /\ r[i] \in S
    BY <1>5
  <2>3. \A j \in 1..n : j < i => q[j] = r[j]
    <3>1. \A j \in 1..n : j < i => ~(i <= j)
      BY <2>2
    <3>. QED  BY <2>1, <3>1
  <2>4. CASE q[i] < r[i]
    <3>1. PICK j \in 1..n : r[j] = q[i]
      BY <1>5, <2>2
    <3>2. j < i
      <4>. SUFFICES ASSUME ~(j < i) PROVE FALSE
        OBVIOUS
      <4>1. j = i \/ i < j
        OBVIOUS
      <4>2. r[j] = r[i] \/ r[i] < r[j]
        BY <1>5, <2>2, <4>1 DEF Rising
      <4>. QED  BY <2>2, <2>4, <3>1, <4>2
    <3>3. q[j] = q[i] /\ j # i
      BY <2>3, <3>1, <3>2
    <3>. QED  BY <1>1, <2>2, <3>3
  <2>5. CASE r[i] < q[i]
    <3>1. PICK j \in 1..n : q[j] = r[i]
      BY <2>2
    <3>2. j < i
      <4>. SUFFICES ASSUME ~(j < i) PROVE FALSE
        OBVIOUS
      <4>1. j = i \/ i < j
        OBVIOUS
      <4>2. q[j] = q[i] \/ q[i] < q[j]
        BY <2>2, <4>1 DEF Rising
      <4>. QED  BY <2>2, <2>5, <3>1, <4>2
    <3>3. r[j] = r[i]
      BY <2>3, <3>1, <3>2
    <3>4. r[j] < r[i]
      BY <1>5, <2>2, <3>2 DEF Rising
    <3>. QED  BY <2>2, <3>3, <3>4
  <2>. QED  BY <2>2, <2>4, <2>5
<1>7. q = r
  BY <1>5, <1>6
<1>. QED  BY <1>4, <1>7 DEF r

LEMMA AscendingAbove ==
    ASSUME NEW S, S \subseteq Nat \ {0}, IsFiniteSet(S), NEW k \in 1..Cardinality(S)
    PROVE  Ascending(S)[k] >= k
<1>. DEFINE n == Cardinality(S)
            q == Ascending(S)
            Low == {i \in 1..n : ~(q[i] >= i)}
<1>1. n \in Nat /\ q \in [1..n -> S] /\ Rising(q, n)
  BY AscendingIs
<1>. HIDE DEF n, q
<1>2. Low = {}
  <2>. SUFFICES ASSUME Low # {} PROVE FALSE
    OBVIOUS
  <2>0. Low \subseteq Nat
    BY <1>1
  <2>1. PICK i \in Low : \A j \in Low : i <= j
    BY <2>0, NatLeast
  <2>2. i \in 1..n /\ i \in Nat /\ q[i] \in Nat \ {0} /\ q[i] < i
    <3>1. i \in 1..n /\ ~(q[i] >= i)
      OBVIOUS
    <3>2. q[i] \in S /\ i \in Nat
      BY <1>1, <3>1
    <3>3. q[i] \in Nat \ {0}
      BY <3>2
    <3>4. q[i] < i
      BY <3>1, <3>2, <3>3
    <3>. QED  BY <3>1, <3>2, <3>3, <3>4
  <2>3. i # 1 /\ i - 1 \in 1..n /\ i - 1 < i /\ ~(i <= i - 1)
    BY <1>1, <2>2
  <2>4. q[i - 1] >= i - 1
    BY <2>1, <2>3
  <2>5. q[i - 1] < q[i] /\ q[i - 1] \in Nat
    BY <1>1, <2>2, <2>3 DEF Rising
  <2>. QED  BY <2>2, <2>4, <2>5
<1>. QED  BY <1>2 DEF n, q
----------------------------------------------------------------------------
(* Prefixes.                                                                   *)

LEMMA PrefixIff ==
    ASSUME NEW v \in Seq(Nat), NEW w \in Seq(Nat)
    PROVE  IsPrefix(v, w) <=> Len(v) <= Len(w) /\ \A i \in 1..Len(v) : v[i] = w[i]
<1>0. Len(v) \in Nat /\ Len(w) \in Nat
  BY LenProperties
<1>1. SubSeq(v, 1, Len(v)) = v
  BY SubSeqFull
<1>2. ASSUME Len(v) <= Len(w)
      PROVE  SubSeq(w, 1, Len(v)) = v <=> \A i \in 1..Len(v) : v[i] = w[i]
  <2>. DEFINE u == SubSeq(w, 1, Len(v))
  <2>1. \A i \in 1..Len(v) : w[i] \in Nat
    BY <1>0, <1>2, LenProperties
  <2>2. u \in Seq(Nat) /\ Len(u) = Len(v) /\ \A i \in 1..Len(v) : u[i] = w[i]
    <3>1. /\ u \in Seq(Nat) /\ Len(u) = IF 1 <= Len(v) THEN Len(v) - 1 + 1 ELSE 0
          /\ \A i \in 1..(Len(v) - 1 + 1) : u[i] = w[1 + i - 1]
      BY <1>0, <2>1, SubSeqProperties
    <3>2. Len(v) - 1 + 1 = Len(v) /\ (~(1 <= Len(v)) => Len(v) = 0)
      BY <1>0
    <3>3. \A i \in 1..Len(v) : 1 + i - 1 = i
      BY <1>0
    <3>. QED  BY <3>1, <3>2, <3>3
  <2>. HIDE DEF u
  <2>3. u = v <=> \A i \in 1..Len(v) : v[i] = w[i]
    <3>1. (\A i \in 1..Len(v) : v[i] = w[i]) => u = v
      BY <2>2, SeqEqual
    <3>. QED  BY <2>2, <3>1
  <2>. QED  BY <2>3 DEF u
<1>. QED  BY <1>1, <1>2 DEF IsPrefix

LEMMA PrefixTransitive ==
    ASSUME NEW u \in Seq(Nat), NEW v \in Seq(Nat), NEW w \in Seq(Nat),
           IsPrefix(u, v), IsPrefix(v, w)
    PROVE  IsPrefix(u, w)
<1>1. Len(u) \in Nat /\ Len(v) \in Nat /\ Len(w) \in Nat
  BY LenProperties
<1>2. Len(u) <= Len(v) /\ \A i \in 1..Len(u) : u[i] = v[i]
  BY PrefixIff
<1>3. Len(v) <= Len(w) /\ \A i \in 1..Len(v) : v[i] = w[i]
  BY PrefixIff
<1>4. \A i \in 1..Len(u) : i \in 1..Len(v)
  BY <1>1, <1>2
<1>5. Len(u) <= Len(w) /\ \A i \in 1..Len(u) : u[i] = w[i]
  BY <1>1, <1>2, <1>3, <1>4
<1>. QED  BY <1>5, PrefixIff

(* A lower part of a set is enumerated first.                                  *)
LEMMA LowerPrefix ==
    ASSUME NEW T, T \subseteq Nat, IsFiniteSet(T), NEW S, S \subseteq T,
           \A x \in S, y \in T \ S : x < y
    PROVE  IsPrefix(Ascending(S), Ascending(T))
<1>. DEFINE R == T \ S
            n == Cardinality(S)
            m == Cardinality(R)
            s == Ascending(S)
            r == Ascending(R)
<1>1. IsFiniteSet(S) /\ IsFiniteSet(R) /\ S \subseteq Nat /\ R \subseteq Nat
  BY FS_Subset
<1>2. /\ n \in Nat /\ s \in [1..n -> S] /\ Rising(s, n)
      /\ \A x \in S : \E i \in 1..n : s[i] = x
      /\ s \in Seq(S) /\ Len(s) = n
  BY <1>1, AscendingIs
<1>3. /\ m \in Nat /\ r \in [1..m -> R] /\ Rising(r, m)
      /\ \A x \in R : \E i \in 1..m : r[i] = x
  BY <1>1, AscendingIs
<1>. DEFINE q == [i \in 1..(n + m) |-> IF i <= n THEN s[i] ELSE r[i - n]]
<1>. HIDE DEF R, n, m, s, r
<1>4. \A i \in 1..(n + m) : /\ i <= n => i \in 1..n /\ q[i] = s[i] /\ s[i] \in S
                            /\ ~(i <= n) => i - n \in 1..m /\ q[i] = r[i - n] /\ r[i - n] \in R
  BY <1>2, <1>3
<1>5. q \in [1..(n + m) -> T]
  BY <1>4 DEF R
<1>6. Rising(q, n + m)
  <2>. SUFFICES ASSUME NEW i \in 1..(n + m), NEW j \in 1..(n + m), i < j PROVE q[i] < q[j]
    BY DEF Rising
  <2>1. CASE j <= n
    <3>1. i <= n
      BY <1>2, <1>3, <2>1
    <3>2. i \in 1..n /\ j \in 1..n /\ q[i] = s[i] /\ q[j] = s[j]
      BY <1>4, <2>1, <3>1
    <3>. QED  BY <1>2, <3>2 DEF Rising
  <2>2. CASE i <= n /\ ~(j <= n)
    BY <1>4, <2>2 DEF R
  <2>3. CASE ~(i <= n)
    <3>1. ~(j <= n) /\ i - n < j - n
      BY <1>2, <1>3, <2>3
    <3>2. i - n \in 1..m /\ j - n \in 1..m /\ q[i] = r[i - n] /\ q[j] = r[j - n]
      BY <1>4, <2>3, <3>1
    <3>. QED  BY <1>3, <3>1, <3>2 DEF Rising
  <2>. QED  BY <2>1, <2>2, <2>3
<1>7. \A x \in T : \E i \in 1..(n + m) : q[i] = x
  <2>. TAKE x \in T
  <2>1. CASE x \in S
    <3>1. PICK i \in 1..n : s[i] = x
      BY <1>2, <2>1
    <3>2. i \in 1..(n + m) /\ i <= n
      BY <1>2, <1>3
    <3>. QED  BY <1>4, <3>1, <3>2
  <2>2. CASE x \in R
    <3>1. PICK i \in 1..m : r[i] = x
      BY <1>3, <2>2
    <3>2. i + n \in 1..(n + m) /\ ~(i + n <= n) /\ (i + n) - n = i
      BY <1>2, <1>3
    <3>. QED  BY <1>4, <3>1, <3>2
  <2>. QED  BY <2>1, <2>2 DEF R
<1>. HIDE DEF q
<1>8. PICK l \in Nat : l = n + m
  BY <1>2, <1>3
<1>9. Cardinality(T) = l /\ Ascending(T) = q
  <2>1. q \in [1..l -> T] /\ Rising(q, l) /\ \A x \in T : \E i \in 1..l : q[i] = x
    BY <1>5, <1>6, <1>7, <1>8
  <2>. QED  BY <2>1, AscendingUnique
<1>10. q \in Seq(T) /\ Len(q) = l
  BY <1>9, AscendingIs
<1>11. q \in Seq(Nat) /\ s \in Seq(Nat)
  BY <1>1, <1>2, <1>10, SeqMonotonic
<1>12. n <= l /\ \A i \in 1..n : i \in 1..(n + m) /\ i <= n
  BY <1>2, <1>3, <1>8
<1>13. \A i \in 1..n : s[i] = q[i]
  BY <1>4, <1>12
<1>14. IsPrefix(s, q)
  BY <1>2, <1>10, <1>11, <1>12, <1>13, PrefixIff
<1>. QED  BY <1>9, <1>14 DEF s

(* And what is a prefix of an enumeration enumerates a lower part.             *)
LEMMA PrefixLower ==
    ASSUME NEW T, T \subseteq Nat, IsFiniteSet(T), NEW v \in Seq(Nat),
           IsPrefix(v, Ascending(T))
    PROVE  /\ v = Ascending(ToSet(v)) /\ ToSet(v) \subseteq T /\ IsFiniteSet(ToSet(v))
           /\ Cardinality(ToSet(v)) = Len(v)
           /\ \A x \in ToSet(v), y \in T \ ToSet(v) : x < y
<1>. DEFINE V == ToSet(v)
            t == Ascending(T)
            n == Len(v)
            m == Cardinality(T)
<1>1. /\ m \in Nat /\ t \in [1..m -> T] /\ Rising(t, m)
      /\ \A x \in T : \E i \in 1..m : t[i] = x
      /\ t \in Seq(T) /\ Len(t) = m
  BY AscendingIs
<1>2. n \in Nat /\ v \in [1..n -> Nat] /\ DOMAIN v = 1..n
  BY LenProperties
<1>3. t \in Seq(Nat)
  BY <1>1, SeqMonotonic
<1>4. n <= m /\ \A i \in 1..n : v[i] = t[i]
  BY <1>1, <1>3, PrefixIff
<1>5. V = {v[i] : i \in 1..n}
  BY <1>2 DEF ToSet
<1>. HIDE DEF V, t, n, m
<1>6. \A i \in 1..n : i \in 1..m
  BY <1>1, <1>2, <1>4
<1>7. V \subseteq T
  BY <1>1, <1>4, <1>5, <1>6
<1>8. v \in [1..n -> V] /\ Rising(v, n) /\ \A x \in V : \E i \in 1..n : v[i] = x
  <2>1. v \in [1..n -> V] /\ \A x \in V : \E i \in 1..n : v[i] = x
    BY <1>2, <1>5
  <2>2. Rising(v, n)
    BY <1>1, <1>4, <1>6 DEF Rising
  <2>. QED  BY <2>1, <2>2
<1>9. IsFiniteSet(V) /\ Cardinality(V) = n /\ Ascending(V) = v
  <2>1. V \subseteq Nat
    BY <1>7
  <2>. QED  BY <1>2, <1>8, <2>1, AscendingUnique
<1>10. ASSUME NEW x \in V, NEW y \in T \ V PROVE x < y
  <2>1. PICK i \in 1..n : v[i] = x
    BY <1>5
  <2>2. PICK j \in 1..m : t[j] = y
    BY <1>1
  <2>3. ~(j <= n)
    <3>. SUFFICES ASSUME j <= n PROVE FALSE
      OBVIOUS
    <3>1. j \in 1..n
      BY <1>1, <1>2
    <3>. QED  BY <1>4, <1>5, <2>2, <3>1
  <2>4. i < j /\ i \in 1..m
    BY <1>1, <1>2, <1>6, <2>3
  <2>. QED  BY <1>1, <1>4, <2>1, <2>2, <2>4 DEF Rising
<1>. QED  BY <1>7, <1>9, <1>10 DEF V, n
----------------------------------------------------------------------------
(* What a client makes of EXPUNGE lines and of VANISHED.                       *)

LEMMA RemoveAtIs ==
    ASSUME NEW S, NEW v \in Seq(S), NEW p \in 1..Len(v)
    PROVE  /\ RemoveAt(v, p) \in Seq(S) /\ Len(RemoveAt(v, p)) = Len(v) - 1
           /\ \A i \in 1..(Len(v) - 1) : RemoveAt(v, p)[i] = IF i < p THEN v[i] ELSE v[i + 1]
<1>. DEFINE n == Len(v)
            x == SubSeq(v, 1, p - 1)
            y == SubSeq(v, p + 1, n)
<1>1. n \in Nat /\ (\A i \in 1..n : v[i] \in S) /\ p \in Nat /\ 1 <= p /\ p <= n
  BY LenProperties
<1>. HIDE DEF n
<1>2. x \in Seq(S) /\ Len(x) = p - 1 /\ \A i \in 1..(p - 1) : x[i] = v[i]
  <2>1. \A i \in 1..(p - 1) : v[i] \in S
    BY <1>1
  <2>2. 1 \in Int /\ p - 1 \in Int
    BY <1>1
  <2>3. /\ x \in Seq(S) /\ Len(x) = IF 1 <= p - 1 THEN (p - 1) - 1 + 1 ELSE 0
        /\ \A i \in 1..((p - 1) - 1 + 1) : x[i] = v[1 + i - 1]
    BY <2>1, <2>2, SubSeqProperties
  <2>4. (p - 1) - 1 + 1 = p - 1 /\ (~(1 <= p - 1) => p - 1 = 0)
    BY <1>1
  <2>5. \A i \in 1..(p - 1) : 1 + i - 1 = i
    BY <1>1
  <2>. QED  BY <2>3, <2>4, <2>5
<1>3. y \in Seq(S) /\ Len(y) = n - p /\ \A i \in 1..(n - p) : y[i] = v[i + p]
  <2>1. \A i \in (p + 1)..n : v[i] \in S
    BY <1>1
  <2>2. p + 1 \in Int /\ n \in Int
    BY <1>1
  <2>3. /\ y \in Seq(S) /\ Len(y) = IF p + 1 <= n THEN n - (p + 1) + 1 ELSE 0
        /\ \A i \in 1..(n - (p + 1) + 1) : y[i] = v[(p + 1) + i - 1]
    BY <2>1, <2>2, SubSeqProperties
  <2>4. n - (p + 1) + 1 = n - p /\ (~(p + 1 <= n) => n - p = 0)
    BY <1>1
  <2>5. \A i \in 1..(n - p) : (p + 1) + i - 1 = i + p
    BY <1>1
  <2>. QED  BY <2>3, <2>4, <2>5
<1>. HIDE DEF x, y
<1>4. /\ x \o y \in Seq(S) /\ Len(x \o y) = (p - 1) + (n - p)
      /\ \A i \in 1..((p - 1) + (n - p)) :
           (x \o y)[i] = IF i <= p - 1 THEN x[i] ELSE y[i - (p - 1)]
  BY <1>2, <1>3, ConcatProperties
<1>5. (p - 1) + (n - p) = n - 1
  BY <1>1
<1>6. ASSUME NEW i \in 1..(n - 1) PROVE (x \o y)[i] = IF i < p THEN v[i] ELSE v[i + 1]
  <2>1. CASE i < p
    <3>1. i <= p - 1 /\ i \in 1..(p - 1)
      BY <1>1, <2>1
    <3>. QED  BY <1>2, <1>4, <1>5, <2>1, <3>1
  <2>2. CASE ~(i < p)
    <3>1. ~(i <= p - 1) /\ i - (p - 1) \in 1..(n - p) /\ (i - (p - 1)) + p = i + 1
      BY <1>1, <2>2
    <3>. QED  BY <1>3, <1>4, <1>5, <2>2, <3>1
  <2>. QED  BY <2>1, <2>2
<1>7. RemoveAt(v, p) = x \o y
  BY DEF RemoveAt, x, y, n
<1>. QED  BY <1>4, <1>5, <1>6, <1>7 DEF n

LEMMA ForgetType ==
    ASSUME NEW S, NEW v \in Seq(S), NEW p
    PROVE  Forget(v, p) \in Seq(S)
BY RemoveAtIs DEF Forget

LEMMA ForgetPrefix ==
    ASSUME NEW v \in Seq(Nat), NEW w \in Seq(Nat), IsPrefix(v, w), NEW p \in 1..Len(w)
    PROVE  IsPrefix(Forget(v, p), Forget(w, p))
<1>. DEFINE a == Forget(v, p)
            b == Forget(w, p)
            n == Len(v)
            m == Len(w)
<1>1. n \in Nat /\ m \in Nat /\ p \in Nat
  BY LenProperties
<1>2. n <= m /\ \A i \in 1..n : v[i] = w[i]
  BY PrefixIff
<1>3. /\ b \in Seq(Nat) /\ Len(b) = m - 1
      /\ \A i \in 1..(m - 1) : b[i] = IF i < p THEN w[i] ELSE w[i + 1]
  BY RemoveAtIs DEF Forget
<1>4. CASE p \in 1..n
  <2>1. /\ a \in Seq(Nat) /\ Len(a) = n - 1
        /\ \A i \in 1..(n - 1) : a[i] = IF i < p THEN v[i] ELSE v[i + 1]
    BY <1>4, RemoveAtIs DEF Forget
  <2>. HIDE DEF a, b, n, m
  <2>2. \A i \in 1..(n - 1) : i \in 1..(m - 1) /\ i \in 1..n /\ i + 1 \in 1..n
    BY <1>1, <1>2
  <2>3. n - 1 <= m - 1
    BY <1>1, <1>2
  <2>4. \A i \in 1..(n - 1) : a[i] = b[i]
    BY <1>2, <1>3, <2>1, <2>2
  <2>5. IsPrefix(a, b)
    BY <1>3, <2>1, <2>3, <2>4, PrefixIff
  <2>. QED  BY <2>5 DEF a, b
<1>5. CASE p \notin 1..n
  <2>1. a = v
    BY <1>5 DEF Forget
  <2>2. p \in 1..m
    OBVIOUS
  <2>. HIDE DEF a, b, n, m
  <2>3. n < p /\ p <= m
    BY <1>1, <1>5, <2>2
  <2>4. n <= m - 1 /\ \A i \in 1..n : i < p /\ i \in 1..(m - 1)
    BY <1>1, <2>3
  <2>5. \A i \in 1..n : v[i] = b[i]
    BY <1>2, <1>3, <2>4
  <2>6. IsPrefix(v, b)
    BY <1>3, <2>4, <2>5, PrefixIff DEF n
  <2>. QED  BY <2>1, <2>6 DEF a, b
<1>. QED  BY <1>4, <1>5

(* Forgetting the p-th of an enumeration enumerates the rest.                  *)
LEMMA ForgetAscending ==
    ASSUME NEW S, S \subseteq Nat, IsFiniteSet(S), NEW p \in 1..Cardinality(S)
    PROVE  Forget(Ascending(S), p) = Ascending(S \ {Ascending(S)[p]})
<1>. DEFINE n == Cardinality(S)
            q == Ascending(S)
            R == S \ {q[p]}
            r == Forget(q, p)
<1>1. /\ n \in Nat /\ q \in [1..n -> S] /\ Rising(q, n)
      /\ \A x \in S : \E i \in 1..n : q[i] = x
      /\ q \in Seq(S) /\ Len(q) = n
  BY AscendingIs
<1>2. p \in 1..n
  OBVIOUS
<1>. HIDE DEF n, q
<1>3. /\ r \in Seq(S) /\ Len(r) = n - 1
      /\ \A i \in 1..(n - 1) : r[i] = IF i < p THEN q[i] ELSE q[i + 1]
  <2>1. p \in 1..Len(q)
    BY <1>1, <1>2
  <2>. QED  BY <1>1, <2>1, RemoveAtIs DEF Forget
<1>. HIDE DEF r
<1>4. PICK k \in Nat : k = n - 1
  BY <1>1, <1>2
<1>5. \A i \in 1..k : \E j \in 1..n : j # p /\ r[i] = q[j] /\ j = IF i < p THEN i ELSE i + 1
  <2>. TAKE i \in 1..k
  <2>1. CASE i < p
    <3>1. i \in 1..n /\ i # p
      BY <1>1, <1>4, <2>1
    <3>. QED  BY <1>3, <1>4, <2>1, <3>1
  <2>2. CASE ~(i < p)
    <3>1. i + 1 \in 1..n /\ i + 1 # p
      BY <1>1, <1>2, <1>4, <2>2
    <3>. QED  BY <1>3, <1>4, <2>2, <3>1
  <2>. QED  BY <2>1, <2>2
<1>6. \A i \in 1..n : i # p => q[i] # q[p] /\ q[i] \in S
  <2>. TAKE i \in 1..n
  <2>. HAVE i # p
  <2>1. q[i] \in S /\ q[p] \in S
    BY <1>1, <1>2
  <2>2. i < p \/ p < i
    BY <1>1, <1>2
  <2>3. q[i] < q[p] \/ q[p] < q[i]
    BY <1>1, <1>2, <2>2 DEF Rising
  <2>4. q[i] \in Nat /\ q[p] \in Nat
    BY <2>1
  <2>. QED  BY <2>1, <2>3, <2>4
<1>7. r \in [1..k -> R]
  <2>1. r \in [1..k -> S]
    BY <1>3, <1>4, LenProperties
  <2>2. \A i \in 1..k : r[i] \in R
    BY <1>5, <1>6
  <2>. QED  BY <2>1, <2>2
<1>8. Rising(r, k)
  <2>. SUFFICES ASSUME NEW i \in 1..k, NEW j \in 1..k, i < j PROVE r[i] < r[j]
    BY DEF Rising
  <2>1. PICK x \in 1..n : r[i] = q[x] /\ x = IF i < p THEN i ELSE i + 1
    BY <1>5
  <2>2. PICK y \in 1..n : r[j] = q[y] /\ y = IF j < p THEN j ELSE j + 1
    BY <1>5
  <2>3. x < y
    BY <1>2, <1>4, <2>1, <2>2
  <2>. QED  BY <1>1, <2>1, <2>2, <2>3 DEF Rising
<1>9. \A x \in R : \E i \in 1..k : r[i] = x
  <2>. TAKE x \in R
  <2>1. PICK j \in 1..n : q[j] = x
    BY <1>1
  <2>2. j # p
    BY <2>1
  <2>3. CASE j < p
    <3>1. j \in 1..k
      BY <1>1, <1>2, <1>4, <2>3
    <3>. QED  BY <1>3, <1>4, <2>1, <2>3, <3>1
  <2>4. CASE ~(j < p)
    <3>1. j - 1 \in 1..k /\ ~(j - 1 < p) /\ (j - 1) + 1 = j
      BY <1>1, <1>2, <1>4, <2>2, <2>4
    <3>. QED  BY <1>3, <1>4, <2>1, <3>1
  <2>. QED  BY <2>3, <2>4
<1>10. Ascending(R) = r
  <2>1. R \subseteq Nat
    OBVIOUS
  <2>. HIDE DEF R
  <2>. QED  BY <1>7, <1>8, <1>9, <2>1, AscendingUnique
<1>. QED  BY <1>10 DEF r, q

LEMMA ToldSteps ==
    ASSUME NEW view, NEW lines, Len(lines) \in Nat
    PROVE  \E f : /\ f[0] = view
                  /\ \A k \in 1..Len(lines) : f[k] = Forget(f[k - 1], lines[k])
                  /\ Told(view, lines) = f[Len(lines)]
<1>. DEFINE n == Len(lines)
            Is(f, m) == f = [k \in 0..m |-> IF k = 0 THEN view ELSE Forget(f[k - 1], lines[k])]
            Bad == {m \in Nat : ~\E f : Is(f, m)}
<1>1. Bad = {}
  <2>. SUFFICES ASSUME Bad # {} PROVE FALSE
    OBVIOUS
  <2>1. PICK m \in Bad : \A l \in Bad : m <= l
    BY NatLeast
  <2>2. m \in Nat /\ \A f : ~Is(f, m)
    OBVIOUS
  <2>3. m # 0
    <3>. SUFFICES ASSUME m = 0 PROVE FALSE
      OBVIOUS
    <3>. DEFINE g == [k \in 0..0 |-> view]
    <3>1. Is(g, 0)
      OBVIOUS
    <3>. QED  BY <2>2, <3>1
  <2>4. m - 1 \in Nat /\ ~(m <= m - 1)
    BY <2>2, <2>3
  <2>5. PICK f : Is(f, m - 1)
    BY <2>1, <2>4
  <2>. DEFINE g == [k \in 0..m |-> IF k = m THEN Forget(f[m - 1], lines[m]) ELSE f[k]]
  <2>6. \A k \in 0..m : g[k] = IF k = 0 THEN view ELSE Forget(g[k - 1], lines[k])
    <3>. TAKE k \in 0..m
    <3>0. g[k] = IF k = m THEN Forget(f[m - 1], lines[m]) ELSE f[k]
      OBVIOUS
    <3>1. CASE k = m
      <4>1. m - 1 \in 0..m /\ m - 1 # m
        BY <2>2, <2>4
      <4>2. g[m - 1] = f[m - 1]
        BY <4>1
      <4>. QED  BY <2>3, <3>0, <3>1, <4>2
    <3>2. CASE k # m
      <4>1. k \in 0..(m - 1)
        BY <2>2, <3>2
      <4>2. f[k] = IF k = 0 THEN view ELSE Forget(f[k - 1], lines[k])
        BY <2>5, <4>1
      <4>3. CASE k = 0
        BY <3>0, <3>2, <4>2, <4>3
      <4>4. CASE k # 0
        <5>1. k - 1 \in 0..m /\ k - 1 # m
          BY <2>2, <4>1, <4>4
        <5>2. g[k - 1] = f[k - 1]
          BY <5>1
        <5>. QED  BY <3>0, <3>2, <4>2, <4>4, <5>2
      <4>. QED  BY <4>3, <4>4
    <3>. QED  BY <3>1, <3>2
  <2>7. Is(g, m)
    <3>. HIDE DEF g
    <3>1. g = [k \in 0..m |-> g[k]]
      BY DEF g
    <3>. QED  BY <2>6, <3>1
  <2>. QED  BY <2>2, <2>7
<1>2. \E f : Is(f, n)
  BY <1>1
<1>. DEFINE after == CHOOSE f : Is(f, n)
<1>3. Is(after, n)
  BY <1>2
<1>4. Told(view, lines) = after[n]
  BY DEF Told
<1>. HIDE DEF after
<1>5. after[0] = view
  BY <1>3
<1>6. \A k \in 1..n : after[k] = Forget(after[k - 1], lines[k])
  <2>. TAKE k \in 1..n
  <2>1. k \in 0..n /\ k # 0
    OBVIOUS
  <2>. QED  BY <1>3, <2>1
<1>. QED  BY <1>4, <1>5, <1>6
LEMMA ToldType ==
    ASSUME NEW S, NEW view \in Seq(S), NEW lines, Len(lines) \in Nat
    PROVE  Told(view, lines) \in Seq(S)
<1>. DEFINE n == Len(lines)
<1>1. PICK f : /\ f[0] = view
               /\ \A k \in 1..n : f[k] = Forget(f[k - 1], lines[k])
               /\ Told(view, lines) = f[n]
  BY ToldSteps
<1>. DEFINE Bad == {k \in 0..n : f[k] \notin Seq(S)}
<1>2. Bad = {}
  <2>. SUFFICES ASSUME Bad # {} PROVE FALSE
    OBVIOUS
  <2>0. Bad \subseteq Nat
    OBVIOUS
  <2>1. PICK k \in Bad : \A l \in Bad : k <= l
    BY <2>0, NatLeast
  <2>2. k \in 0..n /\ f[k] \notin Seq(S)
    OBVIOUS
  <2>3. k # 0
    BY <1>1, <2>2
  <2>4. k \in 1..n /\ k - 1 \in 0..n /\ ~(k <= k - 1)
    BY <2>2, <2>3
  <2>5. f[k - 1] \in Seq(S)
    BY <2>1, <2>4
  <2>. QED  BY <1>1, <2>2, <2>4, <2>5, ForgetType
<1>3. n \in 0..n
  OBVIOUS
<1>. QED  BY <1>1, <1>2, <1>3

LEMMA ToldNothing ==
    ASSUME NEW view
    PROVE  Told(view, <<>>) = view
<1>1. Len(<<>>) = 0
  OBVIOUS
<1>2. PICK f : f[0] = view /\ Told(view, <<>>) = f[Len(<<>>)]
  BY <1>1, ToldSteps
<1>. QED  BY <1>1, <1>2

(* The renumbered lines take away what was hit: after k of them what follows   *)
(* the k-th hit has moved down by k.                                           *)
LEMMA ToldPrefix ==
    ASSUME NEW U, U \subseteq Nat, IsFiniteSet(U), NEW h, h \subseteq 1..Cardinality(U),
           NEW view \in Seq(Nat), IsPrefix(view, Ascending(U))
    PROVE  IsPrefix(Told(view, ExpungeLines(Ascending(h))),
                    Ascending(U \ {Ascending(U)[n] : n \in h}))
<1>. DEFINE N == Cardinality(U)
            L == Ascending(U)
            H == Ascending(h)
            K == Cardinality(h)
            lines == ExpungeLines(H)
<1>1. /\ N \in Nat /\ L \in [1..N -> U] /\ Rising(L, N)
      /\ L \in Seq(U) /\ Len(L) = N
  BY AscendingIs
<1>2. IsFiniteSet(h) /\ h \subseteq Nat \ {0} /\ h \subseteq Nat /\ h \subseteq 1..N
  <2>1. IsFiniteSet(1..N)
    BY <1>1, FS_Interval
  <2>2. IsFiniteSet(h)
    BY <2>1, FS_Subset
  <2>. QED  BY <1>1, <2>2
<1>3. /\ K \in Nat /\ H \in [1..K -> h] /\ Rising(H, K) /\ Len(H) = K
      /\ \A x \in h : \E i \in 1..K : H[i] = x
  BY <1>2, AscendingIs
<1>4. \A k \in 1..K : H[k] \in Nat /\ k <= H[k] /\ H[k] <= N /\ H[k] \in 1..N
  <2>. TAKE k \in 1..K
  <2>1. H[k] \in h /\ H[k] >= k
    BY <1>2, <1>3, AscendingAbove
  <2>. HIDE DEF H, N, K
  <2>2. H[k] \in 1..N /\ k \in Nat
    <3>1. H[k] \in 1..N
      BY <1>2, <2>1
    <3>. QED  BY <1>3, <3>1
  <2>3. H[k] \in Nat /\ H[k] <= N
    BY <1>1, <2>2
  <2>. QED  BY <2>1, <2>2, <2>3
<1>5. L \in Seq(Nat) /\ IsPrefix(view, L)
  BY <1>1, SeqMonotonic
<1>. HIDE DEF N, L, H, K
<1>6. Len(lines) = K /\ \A k \in 1..K : lines[k] = H[k] - (k - 1)
  BY <1>3 DEF ExpungeLines
<1>. HIDE DEF lines
<1>7. PICK f : /\ f[0] = view
               /\ \A k \in 1..K : f[k] = Forget(f[k - 1], lines[k])
               /\ Told(view, lines) = f[K]
  <2>1. Len(lines) \in Nat
    BY <1>3, <1>6
  <2>2. \E f : /\ f[0] = view
               /\ \A k \in 1..Len(lines) : f[k] = Forget(f[k - 1], lines[k])
               /\ Told(view, lines) = f[Len(lines)]
    BY <2>1, ToldSteps
  <2>. QED  BY <1>6, <2>2
<1>8. PICK g : /\ g[0] = L
               /\ \A k \in 1..K : g[k] = Forget(g[k - 1], lines[k])
  <2>1. Len(lines) \in Nat
    BY <1>3, <1>6
  <2>2. \E g : /\ g[0] = L
               /\ \A k \in 1..Len(lines) : g[k] = Forget(g[k - 1], lines[k])
               /\ Told(L, lines) = g[Len(lines)]
    BY <2>1, ToldSteps
  <2>. QED  BY <1>6, <2>2
<1>. DEFINE W(k) == U \ {L[H[j]] : j \in 1..k}
            Good(k) == /\ f[k] \in Seq(Nat) /\ IsPrefix(f[k], g[k])
                       /\ g[k] = Ascending(W(k)) /\ Cardinality(W(k)) = N - k
                       /\ \A i \in 1..(N - k) : k = 0 \/ i >= H[k] - k + 1 => g[k][i] = L[i + k]
<1>9. Good(0)
  <2>1. W(0) = U
    OBVIOUS
  <2>2. g[0] = Ascending(W(0)) /\ Cardinality(W(0)) = N - 0
    <3>1. N - 0 = N
      BY <1>1
    <3>. HIDE DEF W
    <3>. QED  BY <1>8, <2>1, <3>1 DEF L, N
  <2>3. \A i \in 1..(N - 0) : g[0][i] = L[i + 0]
    BY <1>1, <1>8
  <2>4. f[0] \in Seq(Nat) /\ IsPrefix(f[0], g[0])
    BY <1>5, <1>7, <1>8
  <2>. HIDE DEF W
  <2>. QED  BY <2>2, <2>3, <2>4
<1>10. ASSUME NEW k \in 1..K, Good(k - 1) PROVE Good(k)
  <2>. DEFINE c == k - 1
              p == H[k] - c
              x == L[H[k]]
  <2>1. c \in Nat /\ k \in Nat /\ c <= K /\ k = c + 1 /\ N \in Nat
    BY <1>1, <1>3
  <2>2. H[k] \in Nat /\ k <= H[k] /\ H[k] <= N
    BY <1>4
  <2>3. p \in 1..(N - c) /\ p + c = H[k]
    BY <2>1, <2>2
  <2>4. c = 0 \/ p >= H[c] - c + 1
    <3>1. CASE c # 0
      <4>1. c \in 1..K /\ c < k
        BY <1>3, <2>1, <3>1
      <4>2. H[c] < H[k] /\ H[c] \in Nat
        BY <1>3, <1>4, <4>1 DEF Rising
      <4>. QED  BY <2>1, <2>2, <4>2
    <3>. QED  BY <3>1
  <2>5. /\ f[c] \in Seq(Nat) /\ IsPrefix(f[c], g[c])
        /\ g[c] = Ascending(W(c)) /\ Cardinality(W(c)) = N - c
        /\ \A i \in 1..(N - c) : c = 0 \/ i >= H[c] - c + 1 => g[c][i] = L[i + c]
    BY <1>10
  <2>6. g[c][p] = x
    BY <2>3, <2>4, <2>5
  <2>7. f[k] = Forget(f[c], p) /\ g[k] = Forget(g[c], p)
    BY <1>6, <1>7, <1>8
  <2>8. W(k) = W(c) \ {x}
    <3>1. \A j : j \in 1..k <=> j \in 1..c \/ j = k
      BY <2>1
    <3>. QED  BY <3>1
  <2>9. IsFiniteSet(W(c)) /\ W(c) \subseteq Nat
    BY FS_Subset
  <2>. HIDE DEF W
  <2>10. p \in 1..Cardinality(W(c))
    BY <2>3, <2>5
  <2>11. g[k] = Ascending(W(k))
    <3>1. Forget(Ascending(W(c)), p) = Ascending(W(c) \ {Ascending(W(c))[p]})
      <4>. HIDE DEF p, c
      <4>. QED  BY <2>9, <2>10, ForgetAscending
    <3>. QED  BY <2>5, <2>6, <2>7, <2>8, <3>1
  <2>12. /\ g[c] \in Seq(Nat) /\ Len(g[c]) = N - c
         /\ g[c] \in [1..Cardinality(W(c)) -> W(c)]
    <3>. HIDE DEF c, p, x
    <3>1. g[c] \in Seq(W(c)) /\ Len(g[c]) = N - c /\ g[c] \in [1..Cardinality(W(c)) -> W(c)]
      BY <2>5, <2>9, AscendingIs
    <3>. QED  BY <2>9, <3>1, SeqMonotonic
  <2>13. Cardinality(W(k)) = N - k
    <3>1. x \in W(c)
      BY <2>6, <2>10, <2>12
    <3>2. Cardinality(W(c) \ {x}) = Cardinality(W(c)) - 1
      <4>. HIDE DEF x, c
      <4>. QED  BY <2>9, <3>1, FS_RemoveElement
    <3>3. (N - c) - 1 = N - k
      BY <2>1
    <3>. QED  BY <2>5, <2>8, <3>2, <3>3
  <2>14. f[k] \in Seq(Nat) /\ IsPrefix(f[k], g[k])
    <3>. HIDE DEF c, p, x
    <3>1. p \in 1..Len(g[c])
      BY <2>3, <2>12
    <3>. QED  BY <2>5, <2>7, <2>12, <3>1, ForgetPrefix, ForgetType
  <2>15. ASSUME NEW i \in 1..(N - k), k = 0 \/ i >= H[k] - k + 1
         PROVE  g[k][i] = L[i + k]
    <3>1. i >= p /\ i + 1 \in 1..(N - c) /\ ~(i < p) /\ i \in 1..((N - c) - 1) /\ (i + 1) + c = i + k
      BY <2>1, <2>2, <2>15
    <3>2. c = 0 \/ i + 1 >= H[c] - c + 1
      <4>1. CASE c # 0
        <5>1. c \in 1..K
          BY <1>3, <2>1, <4>1
        <5>2. H[c] \in Nat
          BY <1>4, <5>1
        <5>. QED  BY <2>1, <2>2, <2>4, <3>1, <5>2
      <4>. QED  BY <4>1
    <3>3. Forget(g[c], p)[i] = g[c][i + 1]
      <4>1. p \in 1..Len(g[c])
        BY <2>3, <2>12
      <4>. HIDE DEF c, p
      <4>. QED  BY <2>12, <3>1, <4>1, RemoveAtIs DEF Forget
    <3>4. g[c][i + 1] = L[(i + 1) + c]
      BY <2>5, <3>1, <3>2
    <3>. QED  BY <2>7, <3>1, <3>3, <3>4
  <2>. QED  BY <2>11, <2>13, <2>14, <2>15
<1>11. Good(K)
  <2>. DEFINE Bad == {k \in 0..K : ~Good(k)}
  <2>. HIDE DEF Good
  <2>1. Bad = {}
    <3>. SUFFICES ASSUME Bad # {} PROVE FALSE
      OBVIOUS
    <3>0. Bad \subseteq Nat
      BY <1>3
    <3>1. PICK k \in Bad : \A l \in Bad : k <= l
      BY <3>0, NatLeast
    <3>2. k \in 0..K /\ ~Good(k)
      OBVIOUS
    <3>3. k # 0
      BY <1>9, <3>2
    <3>4. k \in 1..K /\ k - 1 \in 0..K /\ ~(k <= k - 1)
      BY <1>3, <3>2, <3>3
    <3>5. Good(k - 1)
      BY <3>1, <3>4
    <3>. QED  BY <1>10, <3>2, <3>4, <3>5
  <2>. QED  BY <1>3, <2>1
<1>12. W(K) = U \ {L[n] : n \in h}
  <2>1. \A n : n \in h <=> \E j \in 1..K : n = H[j]
    BY <1>3
  <2>2. {L[H[j]] : j \in 1..K} = {L[n] : n \in h}
    <3>1. ASSUME NEW n \in h PROVE L[n] \in {L[H[j]] : j \in 1..K}
      <4>1. PICK j \in 1..K : n = H[j]
        BY <2>1
      <4>. QED  BY <4>1
    <3>2. ASSUME NEW j \in 1..K PROVE L[H[j]] \in {L[n] : n \in h}
      BY <2>1
    <3>. QED  BY <3>1, <3>2
  <2>. QED  BY <2>2
<1>13. IsPrefix(f[K], Ascending(W(K)))
  <2>. HIDE DEF W
  <2>. QED  BY <1>11
<1>14. IsPrefix(Told(view, lines), Ascending(U \ {L[n] : n \in h}))
  BY <1>7, <1>12, <1>13
<1>. QED  BY <1>14 DEF lines, L, H

LEMMA WithoutIs ==
    ASSUME NEW S, NEW view \in Seq(S), NEW G
    PROVE  \E kept : /\ kept = Ascending({n \in 1..Len(view) : view[n] \notin G})
                     /\ Len(kept) \in Nat /\ Rising(kept, Len(kept))
                     /\ kept \in [1..Len(kept) -> {n \in 1..Len(view) : view[n] \notin G}]
                     /\ \A n \in 1..Len(view) : view[n] \notin G => \E k \in 1..Len(kept) : kept[k] = n
                     /\ Without(view, G) = [k \in 1..Len(kept) |-> view[kept[k]]]
                     /\ Without(view, G) \in Seq(S)
<1>. DEFINE X == {n \in 1..Len(view) : view[n] \notin G}
            kept == Ascending(X)
<1>1. Len(view) \in Nat /\ \A n \in 1..Len(view) : view[n] \in S
  BY LenProperties
<1>2. X \subseteq Nat /\ IsFiniteSet(X)
  <2>1. IsFiniteSet(1..Len(view))
    BY <1>1, FS_Interval
  <2>. QED  BY <1>1, <2>1, FS_Subset
<1>3. /\ Len(kept) \in Nat /\ kept \in [1..Len(kept) -> X] /\ Rising(kept, Len(kept))
      /\ \A x \in X : \E i \in 1..Len(kept) : kept[i] = x
  <2>. HIDE DEF X
  <2>. QED  BY <1>2, AscendingIs
<1>4. Without(view, G) = [k \in 1..Len(kept) |-> view[kept[k]]]
  BY DEF Without
<1>. HIDE DEF kept
<1>5. [k \in 1..Len(kept) |-> view[kept[k]]] \in Seq(S)
  <2>1. \A k \in 1..Len(kept) : view[kept[k]] \in S
    BY <1>1, <1>3
  <2>. QED  BY <1>3, <2>1
<1>. QED  BY <1>3, <1>4, <1>5 DEF kept

LEMMA WithoutPrefix ==
    ASSUME NEW U, U \subseteq Nat, IsFiniteSet(U), NEW G,
           NEW view \in Seq(Nat), IsPrefix(view, Ascending(U))
    PROVE  IsPrefix(Without(view, G), Ascending(U \ G))
<1>. DEFINE V == ToSet(view)
            n == Len(view)
<1>1. /\ view = Ascending(V) /\ V \subseteq U /\ IsFiniteSet(V) /\ Cardinality(V) = n
      /\ \A x \in V, y \in U \ V : x < y
  BY PrefixLower
<1>2. /\ n \in Nat /\ view \in [1..n -> V] /\ Rising(view, n)
      /\ \A x \in V : \E i \in 1..n : view[i] = x
  <2>. HIDE DEF V, n
  <2>. QED  BY <1>1, AscendingIs
<1>3. PICK kept : /\ Len(kept) \in Nat /\ Rising(kept, Len(kept))
                  /\ kept \in [1..Len(kept) -> {i \in 1..n : view[i] \notin G}]
                  /\ \A i \in 1..n : view[i] \notin G => \E k \in 1..Len(kept) : kept[k] = i
                  /\ Without(view, G) = [k \in 1..Len(kept) |-> view[kept[k]]]
  <2>1. \E kept : /\ kept = Ascending({i \in 1..Len(view) : view[i] \notin G})
                  /\ Len(kept) \in Nat /\ Rising(kept, Len(kept))
                  /\ kept \in [1..Len(kept) -> {i \in 1..Len(view) : view[i] \notin G}]
                  /\ \A i \in 1..Len(view) : view[i] \notin G => \E k \in 1..Len(kept) : kept[k] = i
                  /\ Without(view, G) = [k \in 1..Len(kept) |-> view[kept[k]]]
                  /\ Without(view, G) \in Seq(Nat)
    BY WithoutIs
  <2>. QED  BY <2>1
<1>. HIDE DEF V, n
<1>. DEFINE w == Without(view, G)
            m == Len(kept)
<1>4. \A k \in 1..m : kept[k] \in 1..n /\ w[k] = view[kept[k]] /\ w[k] \in V \ G
  BY <1>2, <1>3
<1>5. w \in [1..m -> V \ G]
  BY <1>3, <1>4
<1>6. Rising(w, m)
  BY <1>2, <1>3, <1>4 DEF Rising
<1>7. \A x \in V \ G : \E k \in 1..m : w[k] = x
  <2>. TAKE x \in V \ G
  <2>1. PICK i \in 1..n : view[i] = x
    BY <1>2
  <2>2. PICK k \in 1..m : kept[k] = i
    BY <1>3, <2>1
  <2>. QED  BY <1>4, <2>1, <2>2
<1>8. w = Ascending(V \ G)
  <2>1. V \ G \subseteq Nat /\ m \in Nat
    BY <1>1, <1>3
  <2>. HIDE DEF w, m
  <2>. QED  BY <1>5, <1>6, <1>7, <2>1, AscendingUnique
<1>9. IsPrefix(Ascending(V \ G), Ascending(U \ G))
  <2>1. V \ G \subseteq U \ G /\ U \ G \subseteq Nat /\ IsFiniteSet(U \ G)
    BY <1>1, FS_Subset
  <2>2. \A x \in V \ G, y \in (U \ G) \ (V \ G) : x < y
    BY <1>1
  <2>. QED  BY <2>1, <2>2, LowerPrefix
<1>. QED  BY <1>8, <1>9

----------------------------------------------------------------------------
(* The lists of a mailbox.                                                     *)

Table == [Docs -> Data \cup {None}]

LEMMA RecordType ==
    ASSUME NEW dt \in Table, NEW d \in Docs, dt[d] # None
    PROVE  /\ dt[d] \in Data /\ dt[d].kw \subseteq Keywords
           /\ \A b \in Boxes : dt[d].uid[b] \in Uids
BY DEF Table, Data

LEMMA ListIs ==
    ASSUME NEW dt \in Table, NEW b \in Boxes
    PROVE  /\ UidSet(dt, b) \subseteq 1..MaxUid /\ UidSet(dt, b) \subseteq Nat
           /\ IsFiniteSet(UidSet(dt, b))
           /\ Len(List(dt, b)) = Cardinality(UidSet(dt, b)) /\ Len(List(dt, b)) \in 0..MaxUid
           /\ List(dt, b) \in [1..Len(List(dt, b)) -> UidSet(dt, b)]
           /\ List(dt, b) \in Seq(Uids) /\ List(dt, b) \in Seq(Nat)
           /\ Rising(List(dt, b), Len(List(dt, b)))
<1>. DEFINE U == UidSet(dt, b)
            n == Cardinality(U)
<1>0. MaxUid \in Nat
  BY AccessAssumption
<1>1. U \subseteq 1..MaxUid
  <2>. SUFFICES ASSUME NEW d \in Docs, dt[d] # None, dt[d].uid[b] # 0
                PROVE  dt[d].uid[b] \in 1..MaxUid
    BY DEF UidSet, Members
  <2>1. dt[d].uid[b] \in 0..MaxUid
    BY RecordType DEF Uids
  <2>. QED  BY <1>0, <2>1
<1>2. U \subseteq Nat /\ U \subseteq Uids
  BY <1>0, <1>1 DEF Uids
<1>3. IsFiniteSet(1..MaxUid) /\ Cardinality(1..MaxUid) = MaxUid
  BY <1>0, FS_Interval
<1>4. IsFiniteSet(U) /\ n <= MaxUid
  <2>. HIDE DEF U
  <2>. QED  BY <1>1, <1>3, FS_Subset
<1>5. /\ n \in Nat /\ List(dt, b) \in [1..n -> U] /\ Rising(List(dt, b), n)
      /\ List(dt, b) \in Seq(U) /\ Len(List(dt, b)) = n
  <2>. HIDE DEF U, n
  <2>1. /\ Cardinality(U) \in Nat /\ Ascending(U) \in [1..Cardinality(U) -> U]
        /\ Rising(Ascending(U), Cardinality(U))
        /\ Ascending(U) \in Seq(U) /\ Len(Ascending(U)) = Cardinality(U)
    BY <1>2, <1>4, AscendingIs
  <2>. QED  BY <2>1 DEF List, U, n
<1>6. List(dt, b) \in Seq(Uids) /\ List(dt, b) \in Seq(Nat)
  <2>. HIDE DEF U, n
  <2>. QED  BY <1>2, <1>5, SeqMonotonic
<1>7. n \in 0..MaxUid
  <2>. HIDE DEF n
  <2>. QED  BY <1>0, <1>4, <1>5
<1>. QED  BY <1>1, <1>2, <1>4, <1>5, <1>6, <1>7

LEMMA DocAtIs ==
    ASSUME NEW dt \in Table, NEW b \in Boxes, NEW n \in 1..Len(List(dt, b))
    PROVE  /\ DocAt(dt, b, n) \in Docs /\ dt[DocAt(dt, b, n)] # None
           /\ dt[DocAt(dt, b, n)].uid[b] = List(dt, b)[n]
           /\ dt[DocAt(dt, b, n)].uid[b] # 0
<1>. DEFINE u == List(dt, b)[n]
<1>1. u \in UidSet(dt, b)
  BY ListIs
<1>2. \E d \in Members(dt, b) : dt[d].uid[b] = u
  BY <1>1 DEF UidSet
<1>. HIDE DEF u
<1>3. DocWith(dt, b, u) \in Members(dt, b) /\ dt[DocWith(dt, b, u)].uid[b] = u
  BY <1>2 DEF DocWith
<1>. QED  BY <1>3 DEF DocAt, Members, u

TargetAt(s, hits, k) ==
    /\ Ascending(hits)[k] \in hits
    /\ Targets(s, hits)[k] = DocAt(data, sess[s].box, Ascending(hits)[k])
    /\ Targets(s, hits)[k] \in Docs /\ data[Targets(s, hits)[k]] # None
    /\ data[Targets(s, hits)[k]].uid[sess[s].box] = List(data, sess[s].box)[Ascending(hits)[k]]
    /\ data[Targets(s, hits)[k]].uid[sess[s].box] # 0
    /\ \A m \in 1..Cardinality(hits) : Targets(s, hits)[m] = Targets(s, hits)[k] => m = k

LEMMA TargetsIs ==
    ASSUME data \in Table, NEW s, sess[s].box \in Boxes, NEW hits,
           hits \subseteq 1..Len(List(data, sess[s].box))
    PROVE  /\ Cardinality(hits) \in Nat
           /\ \A k \in 1..Cardinality(hits) : TargetAt(s, hits, k)
           /\ Ascending(hits) \in Seq(Nat) /\ Len(Ascending(hits)) = Cardinality(hits)
           /\ \A n \in hits : \E k \in 1..Cardinality(hits) : Ascending(hits)[k] = n
           /\ \A k \in 1..Cardinality(hits) : Ascending(hits)[k] \in Nat /\ Ascending(hits)[k] >= k
<1>. DEFINE b == sess[s].box
            L == List(data, b)
            q == Ascending(hits)
            c == Cardinality(hits)
<1>1. Len(L) \in Nat /\ L \in [1..Len(L) -> UidSet(data, b)] /\ UidSet(data, b) \subseteq Nat /\ Rising(L, Len(L))
  <2>1. MaxUid \in Nat
    BY AccessAssumption
  <2>. QED  BY <2>1, ListIs
<1>2. IsFiniteSet(hits) /\ hits \subseteq Nat /\ hits \subseteq Nat \ {0}
  <2>1. IsFiniteSet(1..Len(L))
    BY <1>1, FS_Interval
  <2>2. IsFiniteSet(hits)
    BY <2>1, FS_Subset
  <2>. HIDE DEF L
  <2>. QED  BY <1>1, <2>2 DEF L
<1>3. /\ c \in Nat /\ q \in [1..c -> hits] /\ Rising(q, c) /\ q \in Seq(hits) /\ Len(q) = c
      /\ \A x \in hits : \E i \in 1..c : q[i] = x
  BY <1>2, AscendingIs
<1>4. \A k \in 1..c : q[k] >= k /\ q[k] \in Nat
  BY <1>2, <1>3, AscendingAbove
<1>5. q \in Seq(Nat)
  BY <1>2, <1>3, SeqMonotonic
<1>6. \A k \in 1..c : /\ q[k] \in hits /\ q[k] \in 1..Len(L)
                      /\ Targets(s, hits)[k] = DocAt(data, b, q[k])
  BY <1>3 DEF Targets
<1>7. \A k \in 1..c : /\ Targets(s, hits)[k] \in Docs /\ data[Targets(s, hits)[k]] # None
                      /\ data[Targets(s, hits)[k]].uid[b] = L[q[k]]
                      /\ data[Targets(s, hits)[k]].uid[b] # 0
  <2>. TAKE k \in 1..c
  <2>1. PICK n \in 1..Len(L) : n = q[k]
    BY <1>6
  <2>2. /\ DocAt(data, b, n) \in Docs /\ data[DocAt(data, b, n)] # None
        /\ data[DocAt(data, b, n)].uid[b] = L[n] /\ data[DocAt(data, b, n)].uid[b] # 0
    BY DocAtIs
  <2>. QED  BY <1>6, <2>1, <2>2
<1>8. ASSUME NEW k \in 1..c, NEW m \in 1..c, Targets(s, hits)[m] = Targets(s, hits)[k]
      PROVE  m = k
  <2>. HIDE DEF L, q, c, b
  <2>. SUFFICES ASSUME m # k PROVE FALSE
    OBVIOUS
  <2>1. L[q[m]] = L[q[k]]
    BY <1>7, <1>8
  <2>2. q[m] \in 1..Len(L) /\ q[k] \in 1..Len(L) /\ L[q[m]] \in Nat /\ L[q[k]] \in Nat
    BY <1>1, <1>6
  <2>3. m < k \/ k < m
    BY <1>3
  <2>4. q[m] < q[k] \/ q[k] < q[m]
    BY <1>3, <2>3 DEF Rising
  <2>5. L[q[m]] < L[q[k]] \/ L[q[k]] < L[q[m]]
    BY <1>1, <2>2, <2>4 DEF Rising
  <2>. QED  BY <2>1, <2>2, <2>5
<1>9. \A k \in 1..c : TargetAt(s, hits, k)
  BY <1>6, <1>7, <1>8 DEF TargetAt
<1>. QED  BY <1>3, <1>4, <1>5, <1>9

----------------------------------------------------------------------------
(* What an item does to a record.                                              *)

LEMMA FiledIs ==
    ASSUME NEW r \in Data, NEW b \in Boxes, NEW u \in Uids
    PROVE  /\ Filed(r, b, u) \in Data /\ Filed(r, b, u).kw = r.kw
           /\ \A x \in Boxes : Filed(r, b, u).uid[x] = IF x = b /\ r.uid[b] = 0 THEN u ELSE r.uid[x]
BY DEF Filed, Data

LEMMA UnfiledIs ==
    ASSUME NEW r \in Data, NEW b
    PROVE  /\ Unfiled(r, b) \in Data /\ Unfiled(r, b).kw = r.kw
           /\ \A x \in Boxes : Unfiled(r, b).uid[x] = IF x = b THEN 0 ELSE r.uid[x]
<1>1. MaxUid \in Nat
  BY AccessAssumption
<1>. QED  BY <1>1 DEF Unfiled, Data, Uids

LEMMA MutatedIs ==
    ASSUME NEW r \in Data, NEW it \in Item, it.act \in Filings => it.to \in Boxes
    PROVE  /\ it.act = "delete" => Mutated(r, it) = None
           /\ it.act # "delete" => Mutated(r, it) \in Data
           /\ it.act \in {"seen", "plus", "minus", "replace", "insert"} =>
                Mutated(r, it).uid = r.uid
           /\ it.act = "file" => Mutated(r, it) = Filed(r, it.to, it.uid)
           /\ it.act \in {"file", "move", "refile", "unfile", "expunge"} =>
                \A x \in Boxes :
                   \/ Mutated(r, it).uid[x] = r.uid[x]
                   \/ Mutated(r, it).uid[x] = 0
                   \/ it.act \in Filings /\ x = it.to /\ Mutated(r, it).uid[x] = it.uid
           /\ it.act \in {"unfile", "expunge", "move"} /\ it.from \in Boxes =>
                Mutated(r, it).uid[it.from] = 0
<1>0. it.uid \in Uids /\ it.act \in Acts /\ 0 \in Uids
  <2>1. MaxUid \in Nat
    BY AccessAssumption
  <2>. QED  BY <2>1 DEF Item, Uids
<1>1. r.kw \subseteq Keywords /\ r.uid \in [Boxes -> Uids] /\ r = [uid |-> r.uid, kw |-> r.kw]
  BY DEF Data
<1>2. CASE it.act = "seen"
  BY <1>1, <1>2 DEF Mutated, Data, Keywords, Filings
<1>3. CASE it.act = "plus"
  BY <1>1, <1>3 DEF Mutated, Data, Keywords, Filings
<1>4. CASE it.act = "minus"
  BY <1>1, <1>4 DEF Mutated, Data, Keywords, Filings
<1>5. CASE it.act = "replace"
  BY <1>1, <1>5 DEF Mutated, Data, Keywords, Filings
<1>6. CASE it.act = "insert"
  BY <1>6 DEF Mutated, Filings
<1>7. CASE it.act = "delete"
  BY <1>7 DEF Mutated, Filings
<1>8. CASE it.act = "file"
  <2>1. Mutated(r, it) = Filed(r, it.to, it.uid) /\ it.to \in Boxes
    BY <1>8 DEF Mutated, Filings
  <2>. QED  BY <1>0, <1>8, <2>1, FiledIs DEF Filings
<1>9. CASE it.act = "unfile"
  <2>1. Mutated(r, it) = Unfiled(r, it.from)
    BY <1>9 DEF Mutated
  <2>. QED  BY <1>9, <2>1, UnfiledIs
<1>10. CASE it.act = "expunge"
  <2>. DEFINE w == Unfiled(r, it.from)
  <2>1. Mutated(r, it) = [w EXCEPT !.kw = @ \ {"Deleted"}]
    BY <1>10 DEF Mutated
  <2>2. w \in Data /\ \A x \in Boxes : w.uid[x] = IF x = it.from THEN 0 ELSE r.uid[x]
    BY UnfiledIs
  <2>. HIDE DEF w
  <2>3. Mutated(r, it) \in Data /\ Mutated(r, it).uid = w.uid
    BY <2>1, <2>2 DEF Data
  <2>. QED  BY <1>10, <2>2, <2>3
<1>11. CASE it.act = "move"
  <2>. DEFINE v == Filed(r, it.to, it.uid)
  <2>1. Mutated(r, it) = Unfiled(v, it.from) /\ it.to \in Boxes
    BY <1>11 DEF Mutated, Filings
  <2>2. v \in Data /\ \A x \in Boxes : v.uid[x] = IF x = it.to /\ r.uid[it.to] = 0 THEN it.uid ELSE r.uid[x]
    BY <1>0, <2>1, FiledIs
  <2>. HIDE DEF v
  <2>3. Mutated(r, it) \in Data /\ \A x \in Boxes : Mutated(r, it).uid[x] = IF x = it.from THEN 0 ELSE v.uid[x]
    BY <2>1, <2>2, UnfiledIs
  <2>. QED  BY <1>11, <2>2, <2>3 DEF Filings
<1>12. CASE it.act = "refile"
  <2>. DEFINE g == [b \in Boxes |-> IF b = it.to THEN Filed(r, b, it.uid).uid[b] ELSE 0]
  <2>1. Mutated(r, it) = [r EXCEPT !.uid = g] /\ it.to \in Boxes
    BY <1>12 DEF Mutated, Filings
  <2>2. Filed(r, it.to, it.uid).uid[it.to] = IF r.uid[it.to] = 0 THEN it.uid ELSE r.uid[it.to]
    BY <1>0, <2>1, FiledIs
  <2>3. \A x \in Boxes : g[x] = IF x = it.to THEN (IF r.uid[it.to] = 0 THEN it.uid ELSE r.uid[it.to]) ELSE 0
    BY <2>2
  <2>4. g \in [Boxes -> Uids]
    BY <1>0, <1>1, <2>1, <2>3
  <2>. HIDE DEF g
  <2>5. Mutated(r, it) \in Data /\ Mutated(r, it).uid = g
    BY <1>1, <2>1, <2>4 DEF Data
  <2>. QED  BY <1>12, <2>3, <2>5 DEF Filings
<1>. QED  BY <1>0, <1>2, <1>3, <1>4, <1>5, <1>6, <1>7, <1>8, <1>9, <1>10, <1>11, <1>12 DEF Acts

LEMMA MutatedOwned ==
    ASSUME NEW r \in Data, NEW it \in Item, it.act \in Filings => it.to \in Boxes,
           NEW lu, NEW ow, NEW d, Owned(r, d, lu, ow), Drawn(it, lu, ow),
           it.act \in Filings => it.doc = d
    PROVE  Mutated(r, it) # None => Owned(Mutated(r, it), d, lu, ow)
<1>. SUFFICES ASSUME Mutated(r, it) # None, NEW b \in Boxes, Mutated(r, it).uid[b] # 0
              PROVE  Mutated(r, it).uid[b] <= lu[b] /\ ow[b][Mutated(r, it).uid[b]] = d
  BY DEF Owned
<1>1. it.act # "delete" /\ it.act \in Acts
  BY MutatedIs DEF Item
<1>2. \/ Mutated(r, it).uid[b] = r.uid[b]
      \/ it.act \in Filings /\ b = it.to /\ Mutated(r, it).uid[b] = it.uid
  BY <1>1, MutatedIs DEF Acts
<1>. QED  BY <1>2 DEF Owned, Drawn

----------------------------------------------------------------------------
(* Types and ownership.                                                        *)

SessionOK(z) == z \in Session /\ (z.state = "selected" <=> z.box # None)
Jobs == [Actors -> Job \cup {None}]
Drops == [Pop3 -> Seq(Entry) \cup {None}]
Owners == [Boxes -> [1..MaxUid -> Docs \cup {None}]]

LEMMA TypeParts ==
    ASSUME TypeOK
    PROVE  /\ data \in Table /\ lastUid \in [Boxes -> Uids] /\ fresh \subseteq Docs
           /\ job \in Jobs /\ sess \in [Imap -> Session] /\ drop \in Drops
           /\ ops \in Nat /\ ops <= MaxOps /\ owner \in Owners
           /\ \A s \in Imap : SessionOK(sess[s])
           /\ \A a \in Actors : job[a] # None => job[a] \in Job
BY AccessAssumption DEF TypeOK, Table, Jobs, Drops, Owners, SessionOK

LEMMA SessionParts ==
    ASSUME NEW z, SessionOK(z)
    PROVE  /\ z.view \in Seq(Uids) /\ z.view \in Seq(Nat) /\ Len(z.view) \in Nat
           /\ z.last \in 0..MaxUid /\ z.state \in {"authenticated", "selected"}
           /\ z.moved \in BOOLEAN /\ z.readOnly \in BOOLEAN /\ z.idle \in BOOLEAN
           /\ z.note \in BOOLEAN /\ z.qresync \in BOOLEAN
           /\ z.state = "selected" => z.box \in Boxes
<1>1. z \in Session
  BY DEF SessionOK
<1>2. z.view \in Seq(Uids) /\ Uids \subseteq Nat
  BY <1>1, AccessAssumption DEF Session, Uids
<1>3. z.view \in Seq(Nat) /\ Len(z.view) \in Nat
  BY <1>2, SeqMonotonic, LenProperties
<1>. QED  BY <1>1, <1>2, <1>3 DEF Session, SessionOK

LEMMA JobParts ==
    ASSUME NEW j \in Job
    PROVE  /\ j.cmd \in Commands /\ j.todo \in Seq(Item) /\ j.held \in Table
           /\ j.loaded \in BOOLEAN /\ j.tries \in 0..UpdateAttempts /\ j.lines \in Seq(Nat)
           /\ Len(j.todo) \in Nat /\ Len(j.lines) \in Nat
           /\ \A n \in 1..Len(j.todo) : j.todo[n] \in Item /\ j.todo[n].doc \in Docs
           /\ j.todo # <<>> => /\ Len(j.todo) > 0 /\ 1 \in 1..Len(j.todo) /\ Head(j.todo) = j.todo[1]
                               /\ Head(j.todo) \in Item /\ Head(j.todo).doc \in Docs
                               /\ Tail(j.todo) \in Seq(Item) /\ Len(Tail(j.todo)) = Len(j.todo) - 1
                               /\ \A n \in 1..(Len(j.todo) - 1) : Tail(j.todo)[n] = j.todo[n + 1]
<1>1. j.todo \in Seq(Item) /\ j.lines \in Seq(Nat) /\ j.held \in Table /\ j.cmd \in Commands
      /\ j.loaded \in BOOLEAN /\ j.tries \in 0..UpdateAttempts
  BY DEF Job, Table
<1>. DEFINE q == j.todo
<1>2. Len(q) \in Nat /\ Len(j.lines) \in Nat /\ \A n \in 1..Len(q) : q[n] \in Item
  BY <1>1, LenProperties
<1>3. \A it \in Item : it.doc \in Docs
  BY DEF Item
<1>4. q # <<>> => Len(q) > 0
  BY <1>1, EmptySeq
<1>. HIDE DEF q
<1>5. ASSUME q # <<>>
      PROVE  /\ Head(q) \in Item /\ Tail(q) \in Seq(Item) /\ Len(Tail(q)) = Len(q) - 1
             /\ \A n \in 1..(Len(q) - 1) : Tail(q)[n] = q[n + 1]
             /\ 1 \in 1..Len(q) /\ Head(q) = q[1]
  <2>1. q \in Seq(Item)
    BY <1>1 DEF q
  <2>2. /\ Head(q) \in Item /\ Tail(q) \in Seq(Item) /\ Len(Tail(q)) = Len(q) - 1
        /\ \A n \in 1..Len(Tail(q)) : Tail(q)[n] = q[n + 1]
    BY <1>5, <2>1, HeadTailProperties
  <2>3. 1 \in 1..Len(q)
    BY <1>2, <1>4, <1>5
  <2>4. Head(q) = q[1]
    BY <1>5, <2>1
  <2>. QED  BY <2>2, <2>3, <2>4
<1>. QED  BY <1>1, <1>2, <1>3, <1>4, <1>5 DEF q

LEMMA ToDoIs ==
    ASSUME NEW cmd \in Commands, cmd \notin Inserts, NEW items \in Seq(Item), NEW lines \in Seq(Nat),
           \A n \in 1..Len(items) : ItemOK(items[n], cmd), NEW lu, NEW ow
    PROVE  /\ ToDo(cmd, items, lines) \in Job
           /\ JobOK(ToDo(cmd, items, lines), lu, ow)
           /\ ToDo(cmd, items, lines).cmd = cmd /\ ToDo(cmd, items, lines).todo = items
           /\ ToDo(cmd, items, lines).lines = lines /\ ~ToDo(cmd, items, lines).loaded
           /\ \A d \in Docs : ToDo(cmd, items, lines).held[d] = None
<1>. DEFINE j == ToDo(cmd, items, lines)
<1>1. /\ j.cmd = cmd /\ j.todo = items /\ j.lines = lines /\ ~j.loaded /\ j.tries = 0
      /\ \A d \in Docs : j.held[d] = None
  BY DEF ToDo, NothingHeld
<1>2. 0 \in 0..UpdateAttempts /\ 0 < UpdateAttempts
  BY AccessAssumption
<1>3. NothingHeld \in [Docs -> Data \cup {None}]
  BY DEF NothingHeld
<1>4. j \in Job
  BY <1>2, <1>3 DEF ToDo, Job
<1>. HIDE DEF j
<1>5. JobOK(j, lu, ow)
  BY <1>1, <1>2 DEF JobOK, HoldsHead
<1>. QED  BY <1>1, <1>4, <1>5 DEF j

(* Counters grow, and what was handed out stays handed out.                    *)
Grown(lu, ow, lu2, ow2) ==
    \A b \in Boxes : lu[b] <= lu2[b] /\ \A u \in 1..lu[b] : ow2[b][u] = ow[b][u]

LEMMA OwnedGrown ==
    ASSUME NEW lu \in [Boxes -> Uids], NEW ow, NEW lu2 \in [Boxes -> Uids], NEW ow2, Grown(lu, ow, lu2, ow2),
           NEW r \in Data, NEW d, Owned(r, d, lu, ow)
    PROVE  Owned(r, d, lu2, ow2)
<1>. SUFFICES ASSUME NEW b \in Boxes, r.uid[b] # 0
              PROVE  r.uid[b] <= lu2[b] /\ ow2[b][r.uid[b]] = d
  BY DEF Owned
<1>1. r.uid[b] \in 0..MaxUid /\ MaxUid \in Nat /\ lu[b] \in 0..MaxUid /\ lu2[b] \in 0..MaxUid
  BY AccessAssumption DEF Data, Uids
<1>2. r.uid[b] <= lu[b] /\ ow[b][r.uid[b]] = d
  BY DEF Owned
<1>3. r.uid[b] \in 1..lu[b] /\ lu[b] <= lu2[b]
  BY <1>1, <1>2 DEF Grown
<1>. QED  BY <1>1, <1>2, <1>3 DEF Grown

LEMMA DrawnGrown ==
    ASSUME NEW lu \in [Boxes -> Uids], NEW ow, NEW lu2 \in [Boxes -> Uids], NEW ow2, Grown(lu, ow, lu2, ow2),
           NEW it \in Item, it.act \in Filings => it.to \in Boxes, Drawn(it, lu, ow)
    PROVE  Drawn(it, lu2, ow2)
<1>. SUFFICES ASSUME it.act \in Filings, it.uid # 0
              PROVE  it.uid <= lu2[it.to] /\ ow2[it.to][it.uid] = it.doc
  BY DEF Drawn
<1>1. /\ it.uid \in 0..MaxUid /\ MaxUid \in Nat /\ it.to \in Boxes
      /\ lu[it.to] \in 0..MaxUid /\ lu2[it.to] \in 0..MaxUid
  BY AccessAssumption DEF Item, Uids
<1>2. it.uid <= lu[it.to] /\ ow[it.to][it.uid] = it.doc
  BY DEF Drawn
<1>3. it.uid \in 1..lu[it.to] /\ lu[it.to] <= lu2[it.to]
  BY <1>1, <1>2 DEF Grown
<1>. QED  BY <1>1, <1>2, <1>3 DEF Grown

LEMMA JobGrown ==
    ASSUME NEW lu \in [Boxes -> Uids], NEW ow, NEW lu2 \in [Boxes -> Uids], NEW ow2, Grown(lu, ow, lu2, ow2),
           NEW j \in Job, JobOK(j, lu, ow)
    PROVE  JobOK(j, lu2, ow2)
<1>1. \A d \in Docs : j.held[d] # None => Owned(j.held[d], d, lu2, ow2)
  <2>. TAKE d \in Docs
  <2>. HAVE j.held[d] # None
  <2>1. j.held[d] \in Data /\ Owned(j.held[d], d, lu, ow)
    BY JobParts, RecordType DEF JobOK
  <2>. QED  BY <2>1, OwnedGrown
<1>2. j.cmd # "store" => HoldsHead(j, lu2, ow2)
  <2>. HAVE j.cmd # "store"
  <2>1. HoldsHead(j, lu, ow)
    BY DEF JobOK
  <2>2. ASSUME j.loaded PROVE Drawn(Head(j.todo), lu2, ow2)
    <3>1. j.todo # <<>> /\ Drawn(Head(j.todo), lu, ow)
      BY <2>1, <2>2 DEF HoldsHead
    <3>2. Head(j.todo) \in Item /\ ItemOK(Head(j.todo), j.cmd)
      BY <3>1, JobParts DEF JobOK
    <3>3. Head(j.todo).act \in Filings => Head(j.todo).to \in Boxes
      BY <3>2 DEF ItemOK
    <3>. QED  BY <3>1, <3>2, <3>3, DrawnGrown
  <2>. QED  BY <2>1, <2>2 DEF HoldsHead
<1>. QED  BY <1>1, <1>2 DEF JobOK

(* Steps that leave the records and the counters alone.                        *)
LEMMA OwnerKeeps ==
    ASSUME OwnerInv, data' = data, lastUid' = lastUid, owner' = owner, fresh' = fresh,
           job' \in Jobs, \A a \in Actors : job'[a] # None => JobOK(job'[a], lastUid, owner),
           sess' \in [Imap -> Session], \A s \in Imap : SessionOK(sess'[s]),
           drop' \in Drops, ops' \in 0..MaxOps
    PROVE  OwnerInv'
<1>1. TypeOK'
  BY DEF OwnerInv, TypeOK, Jobs, Drops, SessionOK
<1>2. RecordsOwned'
  BY DEF OwnerInv, RecordsOwned
<1>. QED  BY <1>1, <1>2 DEF OwnerInv

(* Those that change one session only.                                         *)
LEMMA OwnerSession ==
    ASSUME OwnerInv, NEW s \in Imap, NEW z, SessionOK(z), sess' = [sess EXCEPT ![s] = z],
           data' = data, lastUid' = lastUid, owner' = owner, fresh' = fresh,
           job' = job, drop' = drop, ops' \in 0..MaxOps
    PROVE  OwnerInv'
<1>1. TypeOK /\ RecordsOwned
  BY DEF OwnerInv
<1>2. sess' \in [Imap -> Session] /\ \A x \in Imap : SessionOK(sess'[x])
  BY <1>1, TypeParts DEF SessionOK
<1>3. \A a \in Actors : job'[a] # None => JobOK(job'[a], lastUid, owner)
  BY <1>1 DEF RecordsOwned
<1>4. job' \in Jobs /\ drop' \in Drops
  BY <1>1, TypeParts
<1>. QED  BY <1>2, <1>3, <1>4, OwnerKeeps

(* Those that change one operation only.                                       *)
LEMMA OwnerJob ==
    ASSUME OwnerInv, NEW a \in Actors, NEW j, j # None => j \in Job /\ JobOK(j, lastUid, owner),
           job' = [job EXCEPT ![a] = j],
           data' = data, lastUid' = lastUid, owner' = owner, fresh' = fresh,
           sess' = sess, drop' = drop, ops' \in 0..MaxOps
    PROVE  OwnerInv'
<1>1. TypeOK /\ RecordsOwned
  BY DEF OwnerInv
<1>2. job' \in Jobs
  BY <1>1, TypeParts DEF Jobs
<1>3. \A x \in Actors : job'[x] # None => JobOK(job'[x], lastUid, owner)
  BY <1>1, TypeParts DEF RecordsOwned, Jobs
<1>4. sess' \in [Imap -> Session] /\ (\A x \in Imap : SessionOK(sess'[x])) /\ drop' \in Drops
  BY <1>1, TypeParts
<1>. QED  BY <1>2, <1>3, <1>4, OwnerKeeps

LEMMA OpsDown ==
    ASSUME TypeOK, ops' = ops \/ (ops > 0 /\ ops' = ops - 1)
    PROVE  ops' \in 0..MaxOps
<1>1. ops \in Nat /\ ops <= MaxOps /\ MaxOps \in Nat
  BY TypeParts, AccessAssumption
<1>. QED  BY <1>1

LEMMA SelectedOK ==
    ASSUME TypeOK, NEW s \in Imap, NEW b \in Boxes, NEW examine \in BOOLEAN
    PROVE  SessionOK([sess[s] EXCEPT !.state = "selected", !.box = b, !.readOnly = examine,
                        !.moved = FALSE, !.view = List(data, b), !.last = Len(List(data, b))])
<1>1. sess[s] \in Session /\ data \in Table
  BY TypeParts DEF SessionOK
<1>2. List(data, b) \in Seq(Uids) /\ Len(List(data, b)) \in 0..MaxUid
  BY <1>1, ListIs
<1>3. b # None
  BY AccessAssumption
<1>. DEFINE v == List(data, b)
            l == Len(v)
<1>. HIDE DEF v, l
<1>4. v \in Seq(Uids) /\ l \in 0..MaxUid
  BY <1>2 DEF v, l
<1>5. SessionOK([sess[s] EXCEPT !.state = "selected", !.box = b, !.readOnly = examine,
                   !.moved = FALSE, !.view = v, !.last = l])
  BY <1>1, <1>3, <1>4 DEF SessionOK, Session
<1>. QED  BY <1>5 DEF v, l

LEMMA PushIs ==
    ASSUME TypeOK, NEW s \in Imap
    PROVE  /\ SessionOK(PushNewMail(s))
           /\ \A f \in {"state", "box", "readOnly", "idle", "note", "qresync", "moved"} :
                PushNewMail(s)[f] = sess[s][f]
           /\ PushNewMail(s).view \in Seq(Nat)
           /\ sess[s].state = "selected" =>
                \/ PushNewMail(s).view = sess[s].view
                \/ PushNewMail(s).view =
                     sess[s].view \o SubSeq(List(data, sess[s].box), Len(sess[s].view) + 1,
                                            Len(List(data, sess[s].box)))
<1>. DEFINE z == sess[s]
            u == List(data, z.box)
            n == Len(z.view)
            t == SubSeq(u, n + 1, Len(u))
<1>1. SessionOK(z) /\ data \in Table /\ z \in Session
  BY TypeParts DEF SessionOK
<1>2. z.view \in Seq(Uids) /\ z.view \in Seq(Nat) /\ n \in Nat /\ (z.state = "selected" => z.box \in Boxes)
  BY <1>1, SessionParts
<1>3. CASE z.state = "selected" /\ Len(u) > z.last
  <2>1. u \in Seq(Uids) /\ Len(u) \in 0..MaxUid
    BY <1>1, <1>2, <1>3, ListIs
  <2>2. Len(u) \in Nat /\ \A i \in (n + 1)..Len(u) : u[i] \in Uids
    BY <1>2, <2>1, LenProperties
  <2>3. t \in Seq(Uids)
    <3>1. n + 1 \in Int /\ Len(u) \in Int
      BY <1>2, <2>2
    <3>. HIDE DEF n, u
    <3>. QED  BY <2>2, <3>1, SubSeqProperties
  <2>4. z.view \o t \in Seq(Uids)
    <3>. HIDE DEF t
    <3>. QED  BY <1>2, <2>3, ConcatProperties
  <2>5. PushNewMail(s) = [z EXCEPT !.last = Len(u), !.view = z.view \o t]
    BY <1>3 DEF PushNewMail
  <2>. DEFINE l == Len(u)
              v == z.view \o t
  <2>6. l \in 0..MaxUid /\ v \in Seq(Uids) /\ PushNewMail(s) = [z EXCEPT !.last = l, !.view = v]
    BY <2>1, <2>4, <2>5
  <2>. HIDE DEF l, v, z
  <2>7. SessionOK(PushNewMail(s)) /\ PushNewMail(s).view = v
    BY <1>1, <2>6 DEF SessionOK, Session
  <2>8. \A f \in {"state", "box", "readOnly", "idle", "note", "qresync", "moved"} :
          PushNewMail(s)[f] = z[f]
    BY <1>1, <2>6 DEF Session
  <2>9. PushNewMail(s).view \in Seq(Nat)
    BY <2>7, SessionParts
  <2>. QED  BY <2>7, <2>8, <2>9 DEF z, v
<1>4. CASE ~(z.state = "selected" /\ Len(u) > z.last)
  <2>1. PushNewMail(s) = z
    BY <1>4 DEF PushNewMail
  <2>. QED  BY <1>1, <1>2, <2>1
<1>. QED  BY <1>3, <1>4

LEMMA OwnerSelect ==
    ASSUME OwnerInv, NEW s \in Imap, NEW b \in Boxes, NEW examine \in BOOLEAN, Select(s, b, examine)
    PROVE  OwnerInv'
<1>1. TypeOK
  BY DEF OwnerInv
<1>2. ops' \in 0..MaxOps
  BY <1>1, OpsDown DEF Select
<1>. DEFINE z == [sess[s] EXCEPT !.state = "selected", !.box = b, !.readOnly = examine,
                        !.moved = FALSE, !.view = List(data, b), !.last = Len(List(data, b))]
<1>3. SessionOK(z)
  BY <1>1, SelectedOK
<1>4. sess' = [sess EXCEPT ![s] = z]
  BY <1>1, TypeParts DEF Select
<1>5. data' = data /\ lastUid' = lastUid /\ owner' = owner /\ fresh' = fresh /\ job' = job /\ drop' = drop
  BY DEF Select
<1>. HIDE DEF z
<1>. QED  BY <1>2, <1>3, <1>4, <1>5, OwnerSession

LEMMA UnselectedOK == SessionOK(Unselected) /\ \A q \in BOOLEAN : SessionOK([Unselected EXCEPT !.qresync = q])
<1>1. 0 \in 0..MaxUid /\ <<>> \in Seq(Uids)
  BY AccessAssumption
<1>. QED  BY <1>1 DEF SessionOK, Session, Unselected

SessionStep(s) ==
    Noop(s) \/ Enable(s) \/ Idle(s) \/ IdleNotice(s) \/ IdleDone(s) \/ Unselect(s) \/ Logout(s)

LEMMA SessionStepIs ==
    ASSUME TypeOK, NEW s \in Imap, SessionStep(s)
    PROVE  /\ data' = data /\ lastUid' = lastUid /\ owner' = owner /\ fresh' = fresh
           /\ job' = job /\ drop' = drop /\ ops' = ops
           /\ \E z : SessionOK(z) /\ sess' = [sess EXCEPT ![s] = z]
<1>0. SessionOK(sess[s]) /\ sess[s] \in Session /\ sess \in [Imap -> Session] /\ sess[s].qresync \in BOOLEAN
  BY TypeParts, SessionParts DEF SessionOK
<1>1. CASE Noop(s)
  <2>1. SessionOK(PushNewMail(s))
    BY PushIs
  <2>. QED  BY <1>1, <2>1 DEF Noop
<1>2. CASE Enable(s)
  <2>. DEFINE z == [sess[s] EXCEPT !.qresync = TRUE]
  <2>1. SessionOK(z)
    BY <1>0 DEF SessionOK, Session
  <2>2. sess' = [sess EXCEPT ![s] = z]
    BY <1>0, <1>2 DEF Enable
  <2>. QED  BY <1>2, <2>1, <2>2 DEF Enable
<1>3. CASE Idle(s)
  <2>. DEFINE z == [sess[s] EXCEPT !.idle = TRUE, !.note = FALSE]
  <2>1. SessionOK(z)
    BY <1>0 DEF SessionOK, Session
  <2>2. sess' = [sess EXCEPT ![s] = z]
    BY <1>0, <1>3 DEF Idle
  <2>. QED  BY <1>3, <2>1, <2>2 DEF Idle
<1>4. CASE IdleNotice(s)
  <2>. DEFINE p == PushNewMail(s)
              z == [p EXCEPT !.note = FALSE]
  <2>1. SessionOK(p)
    BY PushIs
  <2>2. sess' = [sess EXCEPT ![s] = z]
    BY <1>4 DEF IdleNotice
  <2>. HIDE DEF p
  <2>3. SessionOK(z)
    BY <2>1 DEF SessionOK, Session
  <2>. QED  BY <1>4, <2>2, <2>3 DEF IdleNotice
<1>5. CASE IdleDone(s)
  <2>. DEFINE z == [sess[s] EXCEPT !.idle = FALSE, !.note = FALSE]
  <2>1. SessionOK(z)
    BY <1>0 DEF SessionOK, Session
  <2>2. sess' = [sess EXCEPT ![s] = z]
    BY <1>0, <1>5 DEF IdleDone
  <2>. QED  BY <1>5, <2>1, <2>2 DEF IdleDone
<1>6. CASE Unselect(s)
  <2>. DEFINE z == [Unselected EXCEPT !.qresync = sess[s].qresync]
  <2>1. SessionOK(z)
    BY <1>0, UnselectedOK
  <2>. QED  BY <1>6, <2>1 DEF Unselect
<1>7. CASE Logout(s)
  BY <1>7, UnselectedOK DEF Logout
<1>. QED  BY <1>1, <1>2, <1>3, <1>4, <1>5, <1>6, <1>7 DEF SessionStep

LEMMA OwnerSessionStep ==
    ASSUME OwnerInv, NEW s \in Imap, SessionStep(s)
    PROVE  OwnerInv'
<1>1. TypeOK
  BY DEF OwnerInv
<1>2. /\ data' = data /\ lastUid' = lastUid /\ owner' = owner /\ fresh' = fresh
      /\ job' = job /\ drop' = drop /\ ops' = ops
  BY <1>1, SessionStepIs
<1>3. PICK z : SessionOK(z) /\ sess' = [sess EXCEPT ![s] = z]
  BY <1>1, SessionStepIs
<1>4. ops' \in 0..MaxOps
  BY <1>1, <1>2, OpsDown
<1>. QED  BY <1>2, <1>3, <1>4, OwnerSession

----------------------------------------------------------------------------
(* Commands that begin an operation.                                           *)

LEMMA OneItemIs ==
    ASSUME NEW d \in Docs, NEW act \in Acts, NEW from \in Boxes \cup {None}, NEW to \in Boxes \cup {None}
    PROVE  /\ OneItem(d, act, from, to) \in Item
           /\ OneItem(d, act, from, to).doc = d /\ OneItem(d, act, from, to).act = act
           /\ OneItem(d, act, from, to).from = from /\ OneItem(d, act, from, to).to = to
           /\ OneItem(d, act, from, to).uid = 0
<1>1. 0 \in Uids
  BY AccessAssumption DEF Uids
<1>. QED  BY <1>1 DEF OneItem, Item

LEMMA LinesType ==
    ASSUME NEW q \in Seq(Nat), \A k \in 1..Len(q) : q[k] >= k
    PROVE  ExpungeLines(q) \in Seq(Nat)
<1>1. Len(q) \in Nat /\ \A k \in 1..Len(q) : q[k] \in Nat
  BY LenProperties
<1>2. \A k \in 1..Len(q) : q[k] - (k - 1) \in Nat
  <2>. TAKE k \in 1..Len(q)
  <2>1. q[k] \in Nat /\ q[k] >= k /\ k \in Nat /\ k >= 1
    BY <1>1
  <2>. HIDE <1>1
  <2>. QED  BY <2>1
<1>. QED  BY <1>1, <1>2 DEF ExpungeLines

(* The responses a command will send, by what it hit.                          *)
Announces(s, cmd, hits, lines) ==
    /\ cmd \in {"fetch", "store", "copy", "close"} => lines = <<>>
    /\ cmd = "move" \/ (cmd = "expunge" /\ ~sess[s].qresync) => lines = ExpungeLines(Ascending(hits))
    /\ cmd = "expunge" /\ sess[s].qresync =>
         lines = [k \in 1..Cardinality(hits) |-> List(data, sess[s].box)[Ascending(hits)[k]]]

Begun(s, j) ==
    /\ j \in Job /\ JobOK(j, lastUid, owner) /\ ~j.loaded /\ j.cmd \notin Inserts
    /\ \A d \in Docs : j.held[d] = None
    /\ SessionJob(j, sess[s]) /\ Present(j, sess[s], data)
    /\ IsPrefix(sess[s].view, List(data, sess[s].box)) /\ j.cmd # "close" =>
         IsPrefix(Heard(sess[s], j),
                  Ascending(UidSet(data, sess[s].box) \ Leaving(j, sess[s], data)))

LEMMA CommandBegun ==
    ASSUME TypeOK, NEW s \in Imap, sess[s].state = "selected",
           NEW hits, hits \subseteq 1..Len(List(data, sess[s].box)),
           NEW cmd \in ImapCommands \ {"append"}, sess[s].readOnly => cmd = "copy",
           NEW items, items = [k \in 1..Cardinality(hits) |-> items[k]],
           \A k \in 1..Cardinality(hits) :
             /\ items[k] \in Item /\ items[k].doc = Targets(s, hits)[k]
             /\ ItemOK(items[k], cmd) /\ DoesTo(items[k], cmd, sess[s].box),
           NEW lines, Announces(s, cmd, hits, lines)
    PROVE  Begun(s, ToDo(cmd, items, lines))
<1>. DEFINE z == sess[s]
            b == z.box
            U == UidSet(data, b)
            L == List(data, b)
            c == Cardinality(hits)
            q == Ascending(hits)
            j == ToDo(cmd, items, lines)
            hit == {L[n] : n \in hits}
<1>1. data \in Table /\ SessionOK(z) /\ b \in Boxes /\ z.view \in Seq(Nat)
  BY TypeParts, SessionParts
<1>2. /\ U \subseteq Nat /\ IsFiniteSet(U) /\ Len(L) = Cardinality(U) /\ L = Ascending(U)
      /\ L \in Seq(Nat) /\ hits \subseteq 1..Cardinality(U)
  BY <1>1, ListIs DEF List
<1>3. /\ c \in Nat /\ q \in Seq(Nat) /\ Len(q) = c
      /\ \A k \in 1..c :
           /\ q[k] \in hits /\ q[k] >= k
           /\ data[Targets(s, hits)[k]] # None
           /\ data[Targets(s, hits)[k]].uid[b] = L[q[k]]
           /\ data[Targets(s, hits)[k]].uid[b] # 0
           /\ \A m \in 1..c : Targets(s, hits)[m] = Targets(s, hits)[k] => m = k
      /\ \A n \in hits : \E k \in 1..c : q[k] = n
  <2>1. /\ c \in Nat /\ q \in Seq(Nat) /\ Len(q) = c
        /\ \A k \in 1..c : TargetAt(s, hits, k)
        /\ \A n \in hits : \E k \in 1..c : q[k] = n
        /\ \A k \in 1..c : q[k] \in Nat /\ q[k] >= k
    BY <1>1, TargetsIs
  <2>. QED  BY <2>1 DEF TargetAt
<1>4. items \in Seq(Item) /\ Len(items) = c
  <2>1. c \in Nat
    BY <1>3
  <2>2. items = [k \in 1..c |-> items[k]] /\ \A k \in 1..c : items[k] \in Item
    OBVIOUS
  <2>. HIDE DEF c
  <2>. QED  BY ONLY <2>1, <2>2
<1>. HIDE DEF c
<1>5. lines \in Seq(Nat)
  <2>1. CASE cmd \in {"fetch", "store", "copy", "close"}
    <3>1. lines = <<>>
      BY <2>1 DEF Announces
    <3>. QED  BY <3>1
  <2>2. CASE cmd = "move" \/ (cmd = "expunge" /\ ~z.qresync)
    <3>1. ExpungeLines(q) \in Seq(Nat)
      BY <1>3, LinesType
    <3>. QED  BY <2>2, <3>1 DEF Announces
  <2>3. CASE cmd = "expunge" /\ z.qresync
    <3>1. \A k \in 1..c : L[q[k]] \in Nat
      BY <1>2, <1>3, LenProperties
    <3>2. lines = [k \in 1..c |-> L[q[k]]]
      BY <2>3 DEF Announces, c
    <3>3. PICK f : f = [k \in 1..c |-> L[q[k]]]
      OBVIOUS
    <3>4. c \in Nat /\ f = [k \in 1..c |-> f[k]] /\ \A k \in 1..c : f[k] \in Nat
      BY <1>3, <3>1, <3>3
    <3>5. f \in Seq(Nat)
      BY ONLY <3>4
    <3>. QED  BY <3>2, <3>3, <3>5
  <2>. QED  BY <2>1, <2>2, <2>3 DEF ImapCommands
<1>6. cmd \in Commands /\ cmd \notin Inserts /\ cmd # "append" /\ cmd \in ImapCommands
  BY DEF ImapCommands, Commands, Inserts
<1>7. \A k \in 1..Len(items) : ItemOK(items[k], cmd)
  BY <1>4 DEF c
<1>8. /\ j \in Job /\ JobOK(j, lastUid, owner)
      /\ j.cmd = cmd /\ j.todo = items /\ j.lines = lines /\ ~j.loaded
      /\ \A d \in Docs : j.held[d] = None
  <2>1. PICK lu, ow : lu = lastUid /\ ow = owner
    OBVIOUS
  <2>2. items \in Seq(Item) /\ lines \in Seq(Nat) /\ cmd \in Commands /\ cmd \notin Inserts
    BY <1>4, <1>5, <1>6
  <2>. HIDE DEF L, q, b, z, U, hit
  <2>3. /\ j \in Job /\ JobOK(j, lu, ow)
        /\ j.cmd = cmd /\ j.todo = items /\ j.lines = lines /\ ~j.loaded
        /\ \A d \in Docs : j.held[d] = None
    BY ONLY <1>7, <2>2, ToDoIs
  <2>. QED  BY <2>1, <2>3
<1>. HIDE DEF j
<1>9. SessionJob(j, z)
  <2>1. \A k \in 1..Len(j.todo) : DoesTo(j.todo[k], j.cmd, z.box)
    BY <1>4, <1>8 DEF c
  <2>. QED  BY <1>6, <1>8, <2>1 DEF SessionJob
<1>10. Present(j, z, data)
  <2>1. \A k \in 1..Len(j.todo) : j.todo[k].doc = Targets(s, hits)[k] /\ k \in 1..c
    BY <1>4, <1>8 DEF c
  <2>2. ASSUME NEW k \in 1..Len(j.todo)
        PROVE  /\ data[j.todo[k].doc] # None /\ data[j.todo[k].doc].uid[z.box] # 0
               /\ \A m \in 1..Len(j.todo) : j.todo[m].doc = j.todo[k].doc => m = k
    <3>1. k \in 1..c /\ j.todo[k].doc = Targets(s, hits)[k]
      BY <2>1
    <3>2. data[Targets(s, hits)[k]] # None /\ data[Targets(s, hits)[k]].uid[b] # 0
      BY <1>3, <3>1
    <3>3. \A m \in 1..Len(j.todo) : j.todo[m].doc = j.todo[k].doc => m = k
      BY <1>3, <2>1, <3>1
    <3>. QED  BY <3>1, <3>2, <3>3
  <2>3. ~j.loaded
    BY <1>8
  <2>. QED  BY <2>2, <2>3 DEF Present
<1>11. j.cmd \in {"move", "expunge"} => Leaving(j, z, data) = hit
  <2>. HAVE j.cmd \in {"move", "expunge"}
  <2>1. Leaving(j, z, data) = {data[items[k].doc].uid[b] : k \in 1..c}
    BY <1>4, <1>8 DEF Leaving
  <2>2. \A k \in 1..c : data[items[k].doc].uid[b] = L[q[k]]
    BY <1>3 DEF c
  <2>. HIDE DEF q, L, b
  <2>. HIDE DEF j, z, c
  <2>3. \A x : x \in Leaving(j, z, data) <=> \E k \in 1..c : x = L[q[k]]
    BY ONLY <2>1, <2>2
  <2>4. \A x : (\E k \in 1..c : x = L[q[k]]) <=> x \in hit
    BY <1>3
  <2>. QED  BY <2>3, <2>4
<1>12. ASSUME IsPrefix(z.view, L), j.cmd # "close"
       PROVE  IsPrefix(Heard(z, j), Ascending(U \ Leaving(j, z, data)))
  <2>1. CASE cmd \in {"fetch", "store", "copy"}
    <3>1. Heard(z, j) = z.view
      <4>1. lines = <<>>
        BY <2>1 DEF Announces
      <4>2. Heard(z, j) = Told(z.view, <<>>)
        BY <1>8, <2>1, <4>1 DEF Heard
      <4>. QED  BY <4>2, ToldNothing
    <3>2. Leaving(j, z, data) = {}
      BY <1>8, <2>1 DEF Leaving
    <3>3. U \ {} = U
      OBVIOUS
    <3>. QED  BY <1>2, <1>12, <3>1, <3>2, <3>3
  <2>2. CASE cmd = "move" \/ (cmd = "expunge" /\ ~z.qresync)
    <3>1. Heard(z, j) = Told(z.view, ExpungeLines(q))
      BY <1>8, <2>2 DEF Heard, Announces
    <3>2. IsPrefix(Told(z.view, ExpungeLines(q)), Ascending(U \ {Ascending(U)[n] : n \in hits}))
      <4>. HIDE DEF U, z
      <4>. QED  BY <1>1, <1>2, <1>12, ToldPrefix
    <3>3. {Ascending(U)[n] : n \in hits} = hit
      BY <1>2
    <3>. QED  BY <1>8, <1>11, <2>2, <3>1, <3>2, <3>3
  <2>3. CASE cmd = "expunge" /\ z.qresync
    <3>1. Heard(z, j) = Without(z.view, ToSet(lines))
      BY <1>8, <2>3 DEF Heard
    <3>2. lines = [k \in 1..c |-> L[q[k]]]
      BY <2>3 DEF Announces, c
    <3>3. ToSet(lines) = hit
      <4>. HIDE DEF q, L
      <4>1. DOMAIN lines = 1..c /\ \A k \in 1..c : lines[k] = L[q[k]]
        BY <3>2
      <4>2. \A x : x \in ToSet(lines) <=> \E k \in 1..c : x = L[q[k]]
        BY <4>1 DEF ToSet
      <4>3. \A x : (\E k \in 1..c : x = L[q[k]]) <=> x \in hit
        BY <1>3
      <4>. QED  BY <4>2, <4>3
    <3>4. IsPrefix(Without(z.view, hit), Ascending(U \ hit))
      <4>. HIDE DEF U, z, hit, L
      <4>. QED  BY <1>1, <1>2, <1>12, WithoutPrefix
    <3>. QED  BY <1>8, <1>11, <2>3, <3>1, <3>3, <3>4
  <2>. QED  BY <1>8, <1>12, <2>1, <2>2, <2>3 DEF ImapCommands
<1>13. IsPrefix(sess[s].view, List(data, sess[s].box)) /\ j.cmd # "close" =>
         IsPrefix(Heard(sess[s], j),
                  Ascending(UidSet(data, sess[s].box) \ Leaving(j, sess[s], data)))
  BY <1>12
<1>14. Begun(s, j)
  BY <1>6, <1>8, <1>9, <1>10, <1>13 DEF Begun
<1>. QED  BY <1>14 DEF j

Starts(s) ==
    /\ ~Busy(s) /\ ~sess[s].idle /\ sess[s].state = "selected"
    /\ ops' = ops \/ (ops > 0 /\ ops' = ops - 1)
    /\ \E j : Begun(s, j) /\ job' = [job EXCEPT ![s] = j]
    /\ data' = data /\ lastUid' = lastUid /\ fresh' = fresh
    /\ sess' = sess /\ drop' = drop /\ owner' = owner

LEMMA HitsIn ==
    ASSUME NEW dt, NEW b, NEW set, NEW uidMode
    PROVE  Hits(dt, b, set, uidMode) \subseteq 1..Len(List(dt, b))
BY DEF Hits

LEMMA TargetsIn ==
    ASSUME TypeOK, NEW s \in Imap, sess[s].state = "selected",
           NEW hits, hits \subseteq 1..Len(List(data, sess[s].box))
    PROVE  /\ sess[s].box \in Boxes /\ Cardinality(hits) \in Nat
           /\ \A k \in 1..Cardinality(hits) : Targets(s, hits)[k] \in Docs
           /\ \A k \in 1..Cardinality(hits) :
                Ascending(hits)[k] \in hits /\ Targets(s, hits)[k] = DocAt(data, sess[s].box, Ascending(hits)[k])
<1>1. data \in Table /\ sess[s].box \in Boxes
  BY TypeParts, SessionParts
<1>2. Cardinality(hits) \in Nat /\ \A k \in 1..Cardinality(hits) : TargetAt(s, hits, k)
  BY <1>1, TargetsIs
<1>. QED  BY <1>1, <1>2 DEF TargetAt

LEMMA FetchStarts ==
    ASSUME TypeOK, NEW s \in Imap, NEW set, NEW uidMode, Fetch(s, set, uidMode)
    PROVE  Starts(s)
<1>1. PICK hits : /\ hits = {n \in Hits(data, sess[s].box, set, uidMode) :
                               "Seen" \notin data[DocAt(data, sess[s].box, n)].kw}
  OBVIOUS
<1>. DEFINE items == [k \in 1..Cardinality(hits) |-> OneItem(Targets(s, hits)[k], "seen", None, None)]
<1>2. /\ ~Busy(s) /\ ~sess[s].idle /\ sess[s].state = "selected" /\ ~sess[s].readOnly
      /\ ops > 0 /\ ops' = ops - 1 /\ job' = [job EXCEPT ![s] = ToDo("fetch", items, <<>>)]
      /\ data' = data /\ lastUid' = lastUid /\ fresh' = fresh
      /\ sess' = sess /\ drop' = drop /\ owner' = owner
  BY <1>1 DEF Fetch, Begin, Ready, Selected, SetsSeen
<1>3. hits \subseteq 1..Len(List(data, sess[s].box))
  BY <1>1, HitsIn
<1>4. \A k \in 1..Cardinality(hits) : Targets(s, hits)[k] \in Docs
  BY <1>2, <1>3, TargetsIn
<1>5. \A k \in 1..Cardinality(hits) :
        /\ items[k] \in Item /\ items[k].doc = Targets(s, hits)[k]
        /\ ItemOK(items[k], "fetch") /\ DoesTo(items[k], "fetch", sess[s].box)
  <2>. TAKE k \in 1..Cardinality(hits)
  <2>0. PICK d \in Docs : d = Targets(s, hits)[k]
    BY <1>4
  <2>1. items[k] = OneItem(d, "seen", None, None)
    BY <2>0
  <2>. HIDE DEF items
  <2>2. items[k] \in Item /\ items[k].doc = Targets(s, hits)[k] /\ items[k].act = "seen"
    <3>1. "seen" \in Acts /\ None \in Boxes \cup {None}
      BY DEF Acts
    <3>2. /\ OneItem(d, "seen", None, None) \in Item
          /\ OneItem(d, "seen", None, None).doc = d /\ OneItem(d, "seen", None, None).act = "seen"
      BY <3>1, OneItemIs
    <3>. QED  BY <2>0, <2>1, <3>2
  <2>. QED  BY <2>2 DEF ItemOK, DoesTo, Filings, Inserts
<1>6. items = [k \in 1..Cardinality(hits) |-> items[k]]
  OBVIOUS
<1>7. Announces(s, "fetch", hits, <<>>) /\ "fetch" \in ImapCommands \ {"append"}
  BY DEF Announces, ImapCommands
<1>. HIDE DEF items
<1>8. Begun(s, ToDo("fetch", items, <<>>))
  BY <1>2, <1>3, <1>5, <1>6, <1>7, CommandBegun
<1>. QED  BY <1>2, <1>8 DEF Starts

LEMMA StoreStarts ==
    ASSUME TypeOK, NEW s \in Imap, NEW set, NEW uidMode, NEW act \in {"plus", "minus", "replace"},
           Store(s, set, uidMode, act)
    PROVE  Starts(s)
<1>1. PICK hits \in SUBSET Hits(data, sess[s].box, set, uidMode) :
        /\ hits # {}
        /\ Begin(s, "store", [k \in 1..Cardinality(hits) |->
                    OneItem(Targets(s, hits)[k], act, None, None)], <<>>)
  BY DEF Store
<1>. DEFINE items == [k \in 1..Cardinality(hits) |-> OneItem(Targets(s, hits)[k], act, None, None)]
<1>2. /\ ~Busy(s) /\ ~sess[s].idle /\ sess[s].state = "selected" /\ ~sess[s].readOnly
      /\ ops > 0 /\ ops' = ops - 1 /\ job' = [job EXCEPT ![s] = ToDo("store", items, <<>>)]
      /\ data' = data /\ lastUid' = lastUid /\ fresh' = fresh
      /\ sess' = sess /\ drop' = drop /\ owner' = owner
  BY <1>1 DEF Store, Begin, Ready, Selected
<1>3. hits \subseteq 1..Len(List(data, sess[s].box))
  BY <1>1, HitsIn
<1>4. \A k \in 1..Cardinality(hits) : Targets(s, hits)[k] \in Docs
  BY <1>2, <1>3, TargetsIn
<1>5. \A k \in 1..Cardinality(hits) :
        /\ items[k] \in Item /\ items[k].doc = Targets(s, hits)[k]
        /\ ItemOK(items[k], "store") /\ DoesTo(items[k], "store", sess[s].box)
  <2>. TAKE k \in 1..Cardinality(hits)
  <2>0. PICK d \in Docs : d = Targets(s, hits)[k]
    BY <1>4
  <2>1. items[k] = OneItem(d, act, None, None)
    BY <2>0
  <2>. HIDE DEF items
  <2>2. items[k] \in Item /\ items[k].doc = Targets(s, hits)[k] /\ items[k].act = act
    <3>1. act \in Acts /\ None \in Boxes \cup {None}
      BY DEF Acts
    <3>2. /\ OneItem(d, act, None, None) \in Item
          /\ OneItem(d, act, None, None).doc = d /\ OneItem(d, act, None, None).act = act
      BY <3>1, OneItemIs
    <3>. QED  BY <2>0, <2>1, <3>2
  <2>. QED  BY <2>2 DEF ItemOK, DoesTo, Filings, Inserts
<1>6. items = [k \in 1..Cardinality(hits) |-> items[k]]
  OBVIOUS
<1>7. Announces(s, "store", hits, <<>>) /\ "store" \in ImapCommands \ {"append"}
  BY DEF Announces, ImapCommands
<1>. HIDE DEF items
<1>8. Begun(s, ToDo("store", items, <<>>))
  BY <1>2, <1>3, <1>5, <1>6, <1>7, CommandBegun
<1>. QED  BY <1>2, <1>8 DEF Starts

LEMMA CopyStarts ==
    ASSUME TypeOK, NEW s \in Imap, NEW set, NEW uidMode, NEW target \in Boxes, NEW moving \in BOOLEAN,
           Copy(s, set, uidMode, target, moving)
    PROVE  Starts(s)
<1>. DEFINE cmd == IF moving THEN "move" ELSE "copy"
            all == Hits(data, sess[s].box, set, uidMode)
<1>1. PICK hits : hits = IF moving THEN all
                         ELSE {n \in all : data[DocAt(data, sess[s].box, n)].uid[target] = 0}
  OBVIOUS
<1>. DEFINE items == [k \in 1..Cardinality(hits) |->
                        CopyItem(Targets(s, hits)[k], sess[s].box, target, moving)]
            lines == IF moving THEN ExpungeLines(Ascending(hits)) ELSE <<>>
<1>2. /\ ~Busy(s) /\ ~sess[s].idle /\ sess[s].state = "selected" /\ (moving => ~sess[s].readOnly) /\ target # sess[s].box
      /\ ops > 0 /\ ops' = ops - 1 /\ job' = [job EXCEPT ![s] = ToDo(cmd, items, lines)]
      /\ data' = data /\ lastUid' = lastUid /\ fresh' = fresh
      /\ sess' = sess /\ drop' = drop /\ owner' = owner
  BY <1>1 DEF Copy, Begin, Ready, Selected
<1>3. hits \subseteq 1..Len(List(data, sess[s].box))
  BY <1>1, HitsIn
<1>4. /\ sess[s].box \in Boxes
      /\ \A k \in 1..Cardinality(hits) :
           /\ Targets(s, hits)[k] \in Docs /\ Ascending(hits)[k] \in hits
           /\ Targets(s, hits)[k] = DocAt(data, sess[s].box, Ascending(hits)[k])
  BY <1>2, <1>3, TargetsIn
<1>5. \A k \in 1..Cardinality(hits) :
        /\ items[k] \in Item /\ items[k].doc = Targets(s, hits)[k]
        /\ ItemOK(items[k], cmd) /\ DoesTo(items[k], cmd, sess[s].box)
  <2>. TAKE k \in 1..Cardinality(hits)
  <2>1. PICK d \in Docs, b \in Boxes : d = Targets(s, hits)[k] /\ b = sess[s].box
    BY <1>4
  <2>2. items[k] = CopyItem(d, b, target, moving)
    BY <2>1
  <2>3. ~moving => data[d].uid[target] = 0
    BY <1>1, <1>4, <2>1
  <2>. HIDE DEF items
  <2>4. CASE data[d].uid[target] # 0
    <3>1. moving
      BY <2>3, <2>4
    <3>2. items[k] = OneItem(d, "unfile", b, None)
      BY <2>2, <2>4 DEF CopyItem
    <3>3. items[k] \in Item /\ items[k].doc = d /\ items[k].act = "unfile" /\ items[k].from = b
      BY <3>2, OneItemIs DEF Acts
    <3>. QED  BY <2>1, <3>1, <3>3 DEF ItemOK, DoesTo, Filings, Inserts
  <2>5. CASE data[d].uid[target] = 0 /\ moving
    <3>2. items[k] = OneItem(d, "move", b, target)
      BY <2>2, <2>5 DEF CopyItem
    <3>3. items[k] \in Item /\ items[k].doc = d /\ items[k].act = "move" /\ items[k].from = b /\ items[k].to = target
      BY <3>2, OneItemIs DEF Acts
    <3>. QED  BY <1>2, <2>1, <2>5, <3>3 DEF ItemOK, DoesTo, Filings, Inserts
  <2>6. CASE data[d].uid[target] = 0 /\ ~moving
    <3>2. items[k] = OneItem(d, "file", b, target)
      BY <2>2, <2>6 DEF CopyItem
    <3>3. items[k] \in Item /\ items[k].doc = d /\ items[k].act = "file" /\ items[k].from = b /\ items[k].to = target
      BY <3>2, OneItemIs DEF Acts
    <3>. QED  BY <1>2, <2>1, <2>6, <3>3 DEF ItemOK, DoesTo, Filings, Inserts
  <2>. QED  BY <2>4, <2>5, <2>6
<1>6. items = [k \in 1..Cardinality(hits) |-> items[k]]
  OBVIOUS
<1>7. Announces(s, cmd, hits, lines) /\ cmd \in ImapCommands \ {"append"} /\ (sess[s].readOnly => cmd = "copy")
  BY <1>2 DEF Announces, ImapCommands
<1>. HIDE DEF items, lines, cmd
<1>8. Begun(s, ToDo(cmd, items, lines))
  BY <1>2, <1>3, <1>5, <1>6, <1>7, CommandBegun
<1>. QED  BY <1>2, <1>8 DEF Starts

LEMMA ExpungeStarts ==
    ASSUME TypeOK, NEW s \in Imap, NEW uids, NEW cmd \in {"expunge", "close"},
           Ready(s), ~sess[s].readOnly, ApplyExpunge(s, cmd, Doomed(s, uids)),
           UNCHANGED <<data, lastUid, fresh, sess, drop, owner>>
    PROVE  Starts(s)
<1>1. PICK hits : hits = Doomed(s, uids)
  OBVIOUS
<1>. DEFINE items == [k \in 1..Cardinality(hits) |-> ExpungeItem(Targets(s, hits)[k], sess[s].box)]
            lines == IF cmd = "close" THEN <<>>
                     ELSE IF sess[s].qresync
                          THEN [k \in 1..Cardinality(hits) |-> List(data, sess[s].box)[Ascending(hits)[k]]]
                     ELSE ExpungeLines(Ascending(hits))
<1>2. /\ ~Busy(s) /\ ~sess[s].idle /\ sess[s].state = "selected"
      /\ ops > 0 /\ ops' = ops - 1 /\ job' = [job EXCEPT ![s] = ToDo(cmd, items, lines)]
      /\ data' = data /\ lastUid' = lastUid /\ fresh' = fresh
      /\ sess' = sess /\ drop' = drop /\ owner' = owner
  BY <1>1 DEF ApplyExpunge, Begin, Ready, Selected
<1>3. hits \subseteq 1..Len(List(data, sess[s].box))
  BY <1>1, HitsIn DEF Doomed
<1>4. sess[s].box \in Boxes /\ \A k \in 1..Cardinality(hits) : Targets(s, hits)[k] \in Docs
  BY <1>2, <1>3, TargetsIn
<1>5. \A k \in 1..Cardinality(hits) :
        /\ items[k] \in Item /\ items[k].doc = Targets(s, hits)[k]
        /\ ItemOK(items[k], cmd) /\ DoesTo(items[k], cmd, sess[s].box)
  <2>. TAKE k \in 1..Cardinality(hits)
  <2>1. PICK d \in Docs, b \in Boxes : d = Targets(s, hits)[k] /\ b = sess[s].box
    BY <1>4
  <2>2. items[k] = OneItem(d, "delete", None, None) \/ items[k] = OneItem(d, "expunge", b, None)
    BY <2>1 DEF ExpungeItem
  <2>. HIDE DEF items
  <2>3. CASE items[k] = OneItem(d, "delete", None, None)
    <3>1. items[k] \in Item /\ items[k].doc = d /\ items[k].act = "delete"
      BY <2>3, OneItemIs DEF Acts
    <3>. QED  BY <2>1, <3>1 DEF ItemOK, DoesTo, Filings, Inserts
  <2>4. CASE items[k] = OneItem(d, "expunge", b, None)
    <3>1. items[k] \in Item /\ items[k].doc = d /\ items[k].act = "expunge" /\ items[k].from = b
      BY <2>4, OneItemIs DEF Acts
    <3>. QED  BY <2>1, <3>1 DEF ItemOK, DoesTo, Filings, Inserts
  <2>. QED  BY <2>2, <2>3, <2>4
<1>6. items = [k \in 1..Cardinality(hits) |-> items[k]]
  OBVIOUS
<1>7. Announces(s, cmd, hits, lines) /\ cmd \in ImapCommands \ {"append"}
  BY DEF Announces, ImapCommands
<1>. HIDE DEF items, lines
<1>8. Begun(s, ToDo(cmd, items, lines))
  BY <1>2, <1>3, <1>5, <1>6, <1>7, CommandBegun
<1>. QED  BY <1>2, <1>8 DEF Starts

----------------------------------------------------------------------------
(* Ownership through the steps that begin operations.                          *)

LEMMA OwnerStarts ==
    ASSUME OwnerInv, NEW s \in Imap, Starts(s)
    PROVE  OwnerInv'
<1>1. TypeOK /\ s \in Actors
  BY DEF OwnerInv, Actors
<1>2. PICK j : Begun(s, j) /\ job' = [job EXCEPT ![s] = j]
  BY DEF Starts
<1>3. j \in Job /\ JobOK(j, lastUid, owner)
  BY <1>2 DEF Begun
<1>4. ops' \in 0..MaxOps
  BY <1>1, OpsDown DEF Starts
<1>5. data' = data /\ lastUid' = lastUid /\ owner' = owner /\ fresh' = fresh /\ sess' = sess /\ drop' = drop
  BY DEF Starts
<1>. QED  BY <1>1, <1>2, <1>3, <1>4, <1>5, OwnerJob

(* An operation of a JMAP call or of a POP3 session.                           *)
Opens(a) ==
    /\ ~Busy(a)
    /\ ops' = ops \/ (ops > 0 /\ ops' = ops - 1)
    /\ \E j \in Job :
         /\ job' = [job EXCEPT ![a] = j]
         /\ JobOK(j, lastUid, owner) /\ j.cmd \notin Inserts
         /\ \A d \in Docs : j.held[d] = None
    /\ data' = data /\ lastUid' = lastUid /\ fresh' = fresh
    /\ sess' = sess /\ drop' = drop /\ owner' = owner

LEMMA OwnerOpens ==
    ASSUME OwnerInv, NEW a \in Actors, Opens(a)
    PROVE  OwnerInv'
<1>1. TypeOK
  BY DEF OwnerInv
<1>2. PICK j \in Job : job' = [job EXCEPT ![a] = j] /\ JobOK(j, lastUid, owner)
  BY DEF Opens
<1>4. ops' \in 0..MaxOps
  BY <1>1, OpsDown DEF Opens
<1>5. data' = data /\ lastUid' = lastUid /\ owner' = owner /\ fresh' = fresh /\ sess' = sess /\ drop' = drop
  BY DEF Opens
<1>. QED  BY <1>1, <1>2, <1>4, <1>5, OwnerJob

LEMMA ToDoOpens ==
    ASSUME NEW a, ~Busy(a), NEW cmd \in Commands, cmd \notin Inserts, NEW items \in Seq(Item),
           \A n \in 1..Len(items) : ItemOK(items[n], cmd),
           job' = [job EXCEPT ![a] = ToDo(cmd, items, <<>>)],
           ops' = ops \/ (ops > 0 /\ ops' = ops - 1),
           data' = data, lastUid' = lastUid, fresh' = fresh,
           sess' = sess, drop' = drop, owner' = owner
    PROVE  Opens(a)
<1>1. PICK lu, ow : lu = lastUid /\ ow = owner
  OBVIOUS
<1>2. PICK lines \in Seq(Nat) : lines = <<>>
  <2>1. <<>> \in Seq(Nat)
    OBVIOUS
  <2>. QED  BY <2>1
<1>. DEFINE j == ToDo(cmd, items, lines)
<1>3. cmd \in Commands /\ cmd \notin Inserts /\ items \in Seq(Item) /\ lines \in Seq(Nat)
      /\ \A n \in 1..Len(items) : ItemOK(items[n], cmd)
  OBVIOUS
<1>4. /\ j \in Job /\ JobOK(j, lu, ow)
      /\ j.cmd = cmd /\ j.todo = items /\ j.lines = lines /\ ~j.loaded
      /\ \A d \in Docs : j.held[d] = None
  BY ONLY <1>3, ToDoIs
<1>5. job' = [job EXCEPT ![a] = j]
  BY <1>2
<1>. HIDE DEF j
<1>. QED  BY <1>1, <1>3, <1>4, <1>5 DEF Opens

LEMMA EmailSetOpens ==
    ASSUME TypeOK, NEW a \in Jmap, EmailSet(a)
    PROVE  Opens(a)
<1>1. PICK d \in Docs : \/ \E it \in Patches(d) : Begin(a, "patch", <<it>>, <<>>)
                        \/ Begin(a, "destroy", <<OneItem(d, "delete", None, None)>>, <<>>)
  BY DEF EmailSet
<1>2. /\ ~Busy(a) /\ data' = data /\ lastUid' = lastUid /\ fresh' = fresh
      /\ sess' = sess /\ drop' = drop /\ owner' = owner
  BY DEF EmailSet
<1>3. PICK cmd \in {"patch", "destroy"}, it \in Patches(d) \cup {OneItem(d, "delete", None, None)} :
        Begin(a, cmd, <<it>>, <<>>)
  BY <1>1
<1>4. it \in Item /\ ItemOK(it, cmd)
  <2>1. PICK act \in {"replace", "seen", "file", "refile", "unfile", "delete"},
             from \in Boxes \cup {None}, to \in Boxes \cup {None} :
          it = OneItem(d, act, from, to) /\ (act \in {"file", "refile"} => to \in Boxes)
    BY <1>3 DEF Patches
  <2>2. it \in Item /\ it.act = act /\ it.to = to
    BY <2>1, OneItemIs DEF Acts
  <2>. QED  BY <2>1, <2>2 DEF ItemOK, Filings, Inserts
<1>5. <<it>> \in Seq(Item) /\ Len(<<it>>) = 1 /\ <<it>>[1] = it
  BY <1>4
<1>. DEFINE items == <<it>>
<1>6. items \in Seq(Item) /\ \A n \in 1..Len(items) : ItemOK(items[n], cmd)
  BY <1>4, <1>5
<1>7. cmd \in Commands /\ cmd \notin Inserts
  BY DEF Commands, Inserts
<1>8. ops > 0 /\ ops' = ops - 1 /\ job' = [job EXCEPT ![a] = ToDo(cmd, items, <<>>)]
  BY <1>3 DEF Begin
<1>. HIDE DEF items
<1>. QED  BY <1>2, <1>6, <1>7, <1>8, ToDoOpens

LEMMA QuitOpens ==
    ASSUME TypeOK, NEW p \in Pop3, Quit(p)
    PROVE  Opens(p)
<1>. DEFINE X == {n \in 1..Len(drop[p]) : drop[p][n].deleted}
            m == Ascending(X)
            items == [k \in 1..Len(m) |-> OneItem(drop[p][m[k]].doc, "delete", None, None)]
<1>1. drop[p] \in Seq(Entry)
  BY TypeParts DEF Quit, Drops
<1>2. Len(drop[p]) \in Nat /\ \A n \in 1..Len(drop[p]) : drop[p][n].doc \in Docs
  <2>1. Len(drop[p]) \in Nat /\ \A n \in 1..Len(drop[p]) : drop[p][n] \in Entry
    BY <1>1, LenProperties
  <2>2. \A e \in Entry : e.doc \in Docs
    BY DEF Entry
  <2>. QED  BY <2>1, <2>2
<1>3. IsFiniteSet(X) /\ X \subseteq Nat
  <2>1. IsFiniteSet(1..Len(drop[p]))
    BY <1>2, FS_Interval
  <2>. QED  BY <1>2, <2>1, FS_Subset
<1>4. Len(m) \in Nat /\ \A k \in 1..Len(m) : m[k] \in 1..Len(drop[p])
  <2>1. Cardinality(X) \in Nat /\ m \in [1..Cardinality(X) -> X] /\ Len(m) = Cardinality(X)
    <3>. HIDE DEF X
    <3>. QED  BY <1>3, AscendingIs
  <2>. QED  BY <2>1
<1>. HIDE DEF m
<1>5. \A k \in 1..Len(m) : items[k] \in Item /\ ItemOK(items[k], "quit")
  <2>. TAKE k \in 1..Len(m)
  <2>1. PICK d \in Docs : d = drop[p][m[k]].doc
    BY <1>2, <1>4
  <2>2. items[k] = OneItem(d, "delete", None, None)
    BY <2>1
  <2>. HIDE DEF items
  <2>3. items[k] \in Item /\ items[k].act = "delete"
    BY <2>2, OneItemIs DEF Acts
  <2>. QED  BY <2>3 DEF ItemOK, Filings, Inserts
<1>6. items \in Seq(Item) /\ Len(items) = Len(m)
  <2>1. items = [k \in 1..Len(m) |-> items[k]]
    OBVIOUS
  <2>. HIDE DEF items
  <2>. QED  BY <1>4, <1>5, <2>1
<1>7. /\ ~Busy(p) /\ data' = data /\ lastUid' = lastUid /\ fresh' = fresh /\ ops' = ops
      /\ sess' = sess /\ drop' = drop /\ owner' = owner
      /\ job' = [job EXCEPT ![p] = ToDo("quit", items, <<>>)]
  BY DEF Quit, m
<1>8. "quit" \in Commands /\ "quit" \notin Inserts
  BY DEF Commands, Inserts
<1>. HIDE DEF items
<1>9. \A n \in 1..Len(items) : ItemOK(items[n], "quit")
  BY <1>5, <1>6
<1>. QED  BY <1>6, <1>7, <1>8, <1>9, ToDoOpens

DropStep(p) ==
    LoadMaildrop(p) \/ Rset(p) \/ Disconnect(p) \/ \E n \in 1..MaxUid : Dele(p, n)

LEMMA DropStepIs ==
    ASSUME TypeOK, NEW p \in Pop3, DropStep(p)
    PROVE  /\ data' = data /\ lastUid' = lastUid /\ fresh' = fresh
           /\ sess' = sess /\ job' = job /\ owner' = owner
           /\ ops' = ops \/ (ops > 0 /\ ops' = ops - 1)
           /\ drop' \in Drops
<1>0. drop \in Drops /\ data \in Table /\ MaxUid \in Nat
  BY TypeParts, AccessAssumption
<1>1. CASE LoadMaildrop(p)
  <2>. DEFINE L == List(data, Inbox)
              q == [n \in 1..Len(L) |-> [doc |-> DocWith(data, Inbox, L[n]), deleted |-> FALSE]]
  <2>1. Len(L) \in Nat
    BY <1>0, ListIs DEF Boxes
  <2>2. \A n \in 1..Len(L) : DocWith(data, Inbox, L[n]) \in Docs
    BY <1>0, DocAtIs DEF Boxes, DocAt
  <2>3. \A n \in 1..Len(L) : q[n] \in Entry
    BY <2>2 DEF Entry
  <2>4. q = [n \in 1..Len(L) |-> q[n]]
    OBVIOUS
  <2>5. drop' = [drop EXCEPT ![p] = q]
    BY <1>1 DEF LoadMaildrop
  <2>. HIDE DEF q
  <2>6. q \in Seq(Entry)
    <3>. HIDE DEF L
    <3>. QED  BY <2>1, <2>3, <2>4
  <2>7. drop' \in Drops
    BY <1>0, <2>5, <2>6 DEF Drops
  <2>. QED  BY <1>1, <2>7 DEF LoadMaildrop
<1>2. CASE Rset(p)
  <2>. DEFINE q == [n \in 1..Len(drop[p]) |-> [drop[p][n] EXCEPT !.deleted = FALSE]]
  <2>1. drop[p] \in Seq(Entry)
    BY <1>0, <1>2 DEF Drops, Rset
  <2>2. Len(drop[p]) \in Nat /\ \A n \in 1..Len(drop[p]) : drop[p][n] \in Entry
    BY <2>1, LenProperties
  <2>3. \A n \in 1..Len(drop[p]) : q[n] \in Entry
    BY <2>2 DEF Entry
  <2>4. q = [n \in 1..Len(drop[p]) |-> q[n]]
    OBVIOUS
  <2>5. drop' = [drop EXCEPT ![p] = q]
    BY <1>0, <1>2 DEF Rset, Drops
  <2>. HIDE DEF q
  <2>6. q \in Seq(Entry)
    <3>1. PICK l \in Nat : l = Len(drop[p])
      BY <2>2
    <3>2. q = [n \in 1..l |-> q[n]] /\ \A n \in 1..l : q[n] \in Entry
      BY <2>3, <2>4, <3>1
    <3>. QED  BY ONLY <3>2, l \in Nat
  <2>7. drop' \in Drops
    BY <1>0, <2>5, <2>6 DEF Drops
  <2>. QED  BY <1>2, <2>7 DEF Rset
<1>3. CASE Disconnect(p)
  <2>1. drop' \in Drops
    BY <1>0, <1>3 DEF Disconnect, Drops
  <2>. QED  BY <1>3, <2>1 DEF Disconnect
<1>4. ASSUME NEW n \in 1..MaxUid, Dele(p, n)
      PROVE  /\ data' = data /\ lastUid' = lastUid /\ fresh' = fresh /\ ops' = ops
             /\ sess' = sess /\ job' = job /\ owner' = owner /\ drop' \in Drops
  <2>1. drop[p] \in Seq(Entry) /\ n \in 1..Len(drop[p])
    BY <1>0, <1>4 DEF Drops, Dele
  <2>. DEFINE q == [drop[p] EXCEPT ![n].deleted = TRUE]
  <2>2. drop[p][n] \in Entry
    BY <2>1, LenProperties
  <2>3. q = [drop[p] EXCEPT ![n] = [drop[p][n] EXCEPT !.deleted = TRUE]]
    BY <2>1
  <2>4. [drop[p][n] EXCEPT !.deleted = TRUE] \in Entry
    BY <2>2 DEF Entry
  <2>5. drop' = [drop EXCEPT ![p] = q]
    BY <1>0, <1>4 DEF Dele, Drops
  <2>. HIDE DEF q
  <2>6. q \in Seq(Entry)
    BY <2>1, <2>3, <2>4, ExceptSeq
  <2>7. drop' \in Drops
    BY <1>0, <2>5, <2>6 DEF Drops
  <2>. QED  BY <1>4, <2>7 DEF Dele
<1>. QED  BY <1>1, <1>2, <1>3, <1>4 DEF DropStep

LEMMA OwnerDropStep ==
    ASSUME OwnerInv, NEW p \in Pop3, DropStep(p)
    PROVE  OwnerInv'
<1>1. TypeOK /\ RecordsOwned
  BY DEF OwnerInv
<1>2. /\ data' = data /\ lastUid' = lastUid /\ fresh' = fresh
      /\ sess' = sess /\ job' = job /\ owner' = owner /\ drop' \in Drops
      /\ ops' = ops \/ (ops > 0 /\ ops' = ops - 1)
  BY <1>1, DropStepIs
<1>3. ops' \in 0..MaxOps
  BY <1>1, <1>2, OpsDown
<1>4. sess' \in [Imap -> Session] /\ (\A x \in Imap : SessionOK(sess'[x])) /\ job' \in Jobs
  BY <1>1, <1>2, TypeParts
<1>5. \A a \in Actors : job'[a] # None => JobOK(job'[a], lastUid, owner)
  BY <1>1, <1>2 DEF RecordsOwned
<1>. QED  BY <1>2, <1>3, <1>4, <1>5, OwnerKeeps

LEMMA OwnerRestart ==
    ASSUME OwnerInv, Restart
    PROVE  OwnerInv'
<1>1. TypeOK
  BY DEF OwnerInv
<1>2. ops' \in 0..MaxOps
  BY <1>1, OpsDown DEF Restart
<1>3. job' \in Jobs /\ drop' \in Drops /\ \A a \in Actors : job'[a] = None
  BY DEF Restart, Jobs, Drops
<1>4. \A s \in Imap : sess'[s] = Unselected
  BY DEF Restart
<1>5. sess' \in [Imap -> Session] /\ \A s \in Imap : SessionOK(sess'[s])
  BY <1>4, UnselectedOK DEF Restart, SessionOK
<1>6. data' = data /\ lastUid' = lastUid /\ owner' = owner /\ fresh' = fresh
  BY DEF Restart
<1>. QED  BY <1>2, <1>3, <1>5, <1>6, OwnerKeeps

----------------------------------------------------------------------------
(* Ownership through the steps that draw UIDs.                                 *)

LEMMA OwnerGrow ==
    ASSUME OwnerInv, NEW a \in Actors, NEW j \in Job,
           NEW lu \in [Boxes -> Uids], NEW ow \in Owners, Grown(lastUid, owner, lu, ow),
           lastUid' = lu, owner' = ow, JobOK(j, lu, ow),
           job' = [job EXCEPT ![a] = j], data' = data, fresh' \subseteq Docs,
           sess' = sess, drop' = drop, ops' \in 0..MaxOps
    PROVE  OwnerInv'
<1>1. TypeOK /\ RecordsOwned
  BY DEF OwnerInv
<1>2. /\ data \in Table /\ job \in Jobs /\ lastUid \in [Boxes -> Uids]
      /\ sess \in [Imap -> Session] /\ \A s \in Imap : SessionOK(sess[s])
  BY <1>1, TypeParts
<1>3. job' \in Jobs
  BY <1>2 DEF Jobs
<1>4. TypeOK'
  <2>1. data' \in [Docs -> Data \cup {None}] /\ lastUid' \in [Boxes -> Uids] /\ fresh' \subseteq Docs
    BY <1>2 DEF Table
  <2>2. job' \in [Actors -> Job \cup {None}]
    BY <1>3 DEF Jobs
  <2>3. owner' \in [Boxes -> [1..MaxUid -> Docs \cup {None}]]
    BY DEF Owners
  <2>4. sess' \in [Imap -> Session] /\ \A s \in Imap : sess'[s].state = "selected" <=> sess'[s].box # None
    BY <1>2 DEF SessionOK
  <2>5. drop' \in [Pop3 -> Seq(Entry) \cup {None}] /\ ops' \in 0..MaxOps
    BY <1>1 DEF TypeOK
  <2>. QED  BY <2>1, <2>2, <2>3, <2>4, <2>5 DEF TypeOK
<1>5. \A d \in Docs : data[d] # None => Owned(data[d], d, lu, ow)
  <2>. TAKE d \in Docs
  <2>. HAVE data[d] # None
  <2>1. data[d] \in Data /\ Owned(data[d], d, lastUid, owner)
    BY <1>1, <1>2, RecordType DEF RecordsOwned
  <2>2. PICK r \in Data : r = data[d]
    BY <2>1
  <2>3. PICK lu0 \in [Boxes -> Uids], ow0 \in {owner} : lu0 = lastUid /\ ow0 = owner
    BY <1>2
  <2>4. Owned(r, d, lu0, ow0) /\ Grown(lu0, ow0, lu, ow)
    BY <2>1, <2>2, <2>3
  <2>5. Owned(r, d, lu, ow)
    BY <2>4, OwnedGrown
  <2>. QED  BY <2>2, <2>5
<1>6. \A x \in Actors : job'[x] # None => JobOK(job'[x], lu, ow)
  <2>. TAKE x \in Actors
  <2>. HAVE job'[x] # None
  <2>1. CASE x = a
    BY <1>2, <2>1 DEF Jobs
  <2>2. CASE x # a
    <3>1. job'[x] = job[x] /\ job[x] # None
      BY <1>2, <2>2 DEF Jobs
    <3>2. job[x] \in Job /\ JobOK(job[x], lastUid, owner)
      BY <1>1, <3>1, TypeParts DEF RecordsOwned
    <3>3. PICK k \in Job : k = job[x]
      BY <3>2
    <3>4. PICK lu0 \in [Boxes -> Uids], ow0 \in {owner} : lu0 = lastUid /\ ow0 = owner
      BY <1>2
    <3>5. JobOK(k, lu0, ow0) /\ Grown(lu0, ow0, lu, ow)
      BY <3>2, <3>3, <3>4
    <3>6. JobOK(k, lu, ow)
      BY <3>5, JobGrown
    <3>. QED  BY <3>1, <3>3, <3>6
  <2>. QED  BY <2>1, <2>2
<1>7. RecordsOwned'
  BY <1>5, <1>6 DEF RecordsOwned
<1>. QED  BY <1>4, <1>7 DEF OwnerInv

(* The operation of a delivery or an APPEND.                                   *)
InsertJob(cmd, d, r) ==
    [ToDo(cmd, <<OneItem(d, "insert", None, None)>>, <<>>) EXCEPT !.loaded = TRUE, !.held[d] = r]

LEMMA InsertJobIs ==
    ASSUME NEW cmd \in Inserts, NEW d \in Docs, NEW r \in Data
    PROVE  /\ InsertJob(cmd, d, r) \in Job
           /\ InsertJob(cmd, d, r).cmd = cmd /\ InsertJob(cmd, d, r).loaded
           /\ InsertJob(cmd, d, r).tries = 0 /\ InsertJob(cmd, d, r).lines = <<>>
           /\ InsertJob(cmd, d, r).todo # <<>> /\ Len(InsertJob(cmd, d, r).todo) = 1
           /\ Head(InsertJob(cmd, d, r).todo) = OneItem(d, "insert", None, None)
           /\ InsertJob(cmd, d, r).todo[1] = OneItem(d, "insert", None, None)
           /\ InsertJob(cmd, d, r).held[d] = r
           /\ \A x \in Docs \ {d} : InsertJob(cmd, d, r).held[x] = None
<1>. DEFINE it == OneItem(d, "insert", None, None)
            j == InsertJob(cmd, d, r)
<1>1. it \in Item
  BY OneItemIs DEF Acts
<1>. HIDE DEF it
<1>3. NothingHeld \in [Docs -> Data \cup {None}] /\ \A x \in Docs : NothingHeld[x] = None
  BY DEF NothingHeld
<1>4. 0 \in 0..UpdateAttempts /\ cmd \in Commands
  BY AccessAssumption DEF Inserts, Commands
<1>5. <<it>> \in Seq(Item) /\ <<it>> # <<>> /\ Len(<<it>>) = 1 /\ Head(<<it>>) = it /\ <<it>>[1] = it
  BY <1>1
<1>6. <<>> \in Seq(Nat)
  OBVIOUS
<1>7. PICK x : x = ToDo(cmd, <<it>>, <<>>)
  OBVIOUS
<1>8. x \in Job /\ x.cmd = cmd /\ x.tries = 0 /\ x.lines = <<>> /\ x.todo = <<it>> /\ x.held = NothingHeld
  BY <1>3, <1>4, <1>5, <1>6, <1>7 DEF Job, ToDo
<1>9. j = [x EXCEPT !.loaded = TRUE, !.held[d] = r]
  BY <1>7 DEF InsertJob, it
<1>. HIDE DEF j
<1>10. /\ j \in Job /\ j.cmd = cmd /\ j.loaded /\ j.tries = 0 /\ j.lines = <<>> /\ j.todo = <<it>>
       /\ j.held = [NothingHeld EXCEPT ![d] = r]
  BY <1>8, <1>9 DEF Job
<1>. QED  BY <1>3, <1>5, <1>10 DEF j, it

LEMMA InsertJobOK ==
    ASSUME NEW cmd \in Inserts, NEW d \in Docs, NEW r \in Data, NEW lu, NEW ow, Owned(r, d, lu, ow)
    PROVE  JobOK(InsertJob(cmd, d, r), lu, ow)
<1>1. PICK j : j = InsertJob(cmd, d, r)
  OBVIOUS
<1>2. PICK it : it = OneItem(d, "insert", None, None)
  OBVIOUS
<1>3. /\ j.cmd = cmd /\ j.loaded /\ j.tries = 0 /\ j.todo # <<>> /\ Len(j.todo) = 1
      /\ Head(j.todo) = it /\ j.todo[1] = it /\ j.held[d] = r /\ \A x \in Docs \ {d} : j.held[x] = None
  BY <1>1, <1>2, InsertJobIs
<1>4. it.act = "insert" /\ it.doc = d
  BY <1>2 DEF OneItem
<1>5. r # None /\ 0 < UpdateAttempts /\ cmd # "store"
  BY NoRecordAssumption, AccessAssumption DEF Inserts
<1>6. \A n \in 1..Len(j.todo) : ItemOK(j.todo[n], j.cmd)
  <2>1. ItemOK(it, j.cmd)
    BY <1>3, <1>4, <1>5 DEF ItemOK, Filings
  <2>. QED  BY <1>3, <2>1
<1>7. HoldsHead(j, lu, ow)
  BY <1>3, <1>4, <1>5 DEF HoldsHead, Drawn, Filings
<1>8. \A x \in Docs : j.held[x] # None => Owned(j.held[x], x, lu, ow)
  BY <1>3
<1>9. JobOK(j, lu, ow)
  BY <1>3, <1>5, <1>6, <1>7, <1>8 DEF JobOK
<1>. QED  BY <1>1, <1>9

LEMMA InsertIs ==
    ASSUME OwnerInv, NEW a \in Actors, NEW cmd \in Inserts, NEW d \in fresh, NEW boxes \in SUBSET Boxes,
           NEW kw \in SUBSET Keywords, StartInsert(a, cmd, d, boxes, kw)
    PROVE  \E r \in Data, lu \in [Boxes -> Uids], ow \in Owners :
             /\ lastUid' = lu /\ owner' = ow /\ Grown(lastUid, owner, lu, ow)
             /\ Owned(r, d, lu, ow)
             /\ job' = [job EXCEPT ![a] = InsertJob(cmd, d, r)]
<1>1. TypeOK
  BY DEF OwnerInv
<1>2. lastUid \in [Boxes -> Uids] /\ owner \in Owners /\ MaxUid \in Nat /\ d \in Docs
  BY <1>1, TypeParts, AccessAssumption
<1>. DEFINE lu == [b \in Boxes |-> IF b \in boxes THEN lastUid[b] + 1 ELSE lastUid[b]]
            ow == [b \in Boxes |-> IF b \in boxes THEN [owner[b] EXCEPT ![lastUid[b] + 1] = d] ELSE owner[b]]
            r == [uid |-> [b \in Boxes |-> IF b \in boxes THEN lastUid[b] + 1 ELSE 0], kw |-> kw]
<1>3. \A b \in Boxes : lastUid[b] \in Nat /\ lastUid[b] <= MaxUid /\ owner[b] \in [1..MaxUid -> Docs \cup {None}]
  BY <1>2 DEF Uids, Owners
<1>4. \A b \in boxes : lastUid[b] < MaxUid /\ b \in Boxes
  BY DEF StartInsert
<1>5. \A b \in boxes : lastUid[b] + 1 \in 1..MaxUid
  BY <1>2, <1>3, <1>4
<1>6. lu \in [Boxes -> Uids]
  BY <1>2, <1>3, <1>5 DEF Uids
<1>7. ow \in Owners
  BY <1>2, <1>3 DEF Owners
<1>8. r \in Data
  BY <1>2, <1>5 DEF Data, Uids
<1>9. lastUid' = lu /\ owner' = ow /\ job' = [job EXCEPT ![a] = InsertJob(cmd, d, r)]
  BY DEF StartInsert, InsertJob
<1>10. Grown(lastUid, owner, lu, ow)
  <2>. SUFFICES ASSUME NEW b \in Boxes
                PROVE  lastUid[b] <= lu[b] /\ \A u \in 1..lastUid[b] : ow[b][u] = owner[b][u]
    BY DEF Grown
  <2>1. lastUid[b] <= lu[b]
    BY <1>3
  <2>2. ASSUME NEW u \in 1..lastUid[b] PROVE ow[b][u] = owner[b][u]
    <3>1. u \in 1..MaxUid /\ u # lastUid[b] + 1
      BY <1>2, <1>3
    <3>. QED  BY <1>3, <3>1
  <2>. QED  BY <2>1, <2>2
<1>11. Owned(r, d, lu, ow)
  <2>. SUFFICES ASSUME NEW b \in Boxes, r.uid[b] # 0
                PROVE  r.uid[b] <= lu[b] /\ ow[b][r.uid[b]] = d
    BY DEF Owned
  <2>1. b \in boxes /\ r.uid[b] = lastUid[b] + 1 /\ lu[b] = lastUid[b] + 1
    OBVIOUS
  <2>2. ow[b][lastUid[b] + 1] = d
    BY <1>3, <1>5, <2>1
  <2>3. lastUid[b] + 1 <= lastUid[b] + 1
    BY <1>3
  <2>. QED  BY <2>1, <2>2, <2>3
<1>. HIDE DEF lu, ow, r
<1>. QED  BY <1>6, <1>7, <1>8, <1>9, <1>10, <1>11

LEMMA OwnerInsert ==
    ASSUME OwnerInv, NEW a \in Actors, NEW cmd \in Inserts, NEW d \in fresh, NEW boxes \in SUBSET Boxes,
           NEW kw \in SUBSET Keywords, StartInsert(a, cmd, d, boxes, kw)
    PROVE  OwnerInv'
<1>1. TypeOK
  BY DEF OwnerInv
<1>2. PICK r \in Data, lu \in [Boxes -> Uids], ow \in Owners :
             /\ lastUid' = lu /\ owner' = ow /\ Grown(lastUid, owner, lu, ow)
             /\ Owned(r, d, lu, ow)
             /\ job' = [job EXCEPT ![a] = InsertJob(cmd, d, r)]
  BY InsertIs
<1>3. d \in Docs /\ fresh' \subseteq Docs
  BY <1>1, TypeParts DEF StartInsert
<1>4. PICK j : j = InsertJob(cmd, d, r)
  OBVIOUS
<1>5. j \in Job /\ JobOK(j, lu, ow)
  BY <1>2, <1>3, <1>4, InsertJobIs, InsertJobOK
<1>6. ops' \in 0..MaxOps
  BY <1>1, OpsDown DEF StartInsert
<1>7. data' = data /\ sess' = sess /\ drop' = drop
  BY DEF StartInsert
<1>8. job' = [job EXCEPT ![a] = j]
  BY <1>2, <1>4
<1>. QED  BY <1>2, <1>3, <1>5, <1>6, <1>7, <1>8, OwnerGrow

----------------------------------------------------------------------------
(* Loading one record.                                                         *)

SameItem(x, y) == x.doc = y.doc /\ x.act = y.act /\ x.from = y.from /\ x.to = y.to

LoadedJob(k, r, u) ==
    [k EXCEPT !.loaded = r # None,
              !.held[Head(k.todo).doc] = r,
              !.todo = IF r = None THEN Tail(@) ELSE <<[Head(k.todo) EXCEPT !.uid = u]>> \o Tail(@)]

LEMMA HeadChanged ==
    ASSUME NEW q \in Seq(Item), q # <<>>, NEW u \in Uids
    PROVE  LET w == <<[Head(q) EXCEPT !.uid = u]>> \o Tail(q)
           IN  /\ w \in Seq(Item) /\ Len(w) = Len(q) /\ w # <<>>
               /\ w[1] = [Head(q) EXCEPT !.uid = u] /\ Head(w) = [Head(q) EXCEPT !.uid = u]
               /\ \A n \in 1..Len(q) : SameItem(w[n], q[n])
               /\ Tail(w) = Tail(q)
<1>1. /\ Head(q) \in Item /\ Tail(q) \in Seq(Item) /\ Len(Tail(q)) = Len(q) - 1 /\ Len(q) \in Nat /\ Len(q) > 0
      /\ \A n \in 1..(Len(q) - 1) : Tail(q)[n] = q[n + 1]
      /\ Head(q) = q[1]
  <2>1. /\ Head(q) \in Item /\ Tail(q) \in Seq(Item) /\ Len(Tail(q)) = Len(q) - 1
        /\ \A n \in 1..Len(Tail(q)) : Tail(q)[n] = q[n + 1]
    BY HeadTailProperties
  <2>2. Len(q) \in Nat /\ Len(q) > 0
    BY EmptySeq, LenProperties
  <2>3. Head(q) = q[1]
    OBVIOUS
  <2>. QED  BY <2>1, <2>2, <2>3
<1>2. PICK h : h = [Head(q) EXCEPT !.uid = u]
  OBVIOUS
<1>3. h \in Item /\ SameItem(h, q[1])
  BY <1>1, <1>2 DEF Item, SameItem
<1>4. PICK t \in Seq(Item) : t = Tail(q)
  BY <1>1
<1>5. PICK w : w = <<h>> \o t
  OBVIOUS
<1>6. /\ w \in Seq(Item) /\ Len(w) = Len(t) + 1 /\ w[1] = h
      /\ \A n \in 2..(Len(t) + 1) : w[n] = t[n - 1]
  <2>1. Len(t) \in Nat
    BY LenProperties
  <2>. QED  BY <1>3, <1>5, <2>1
<1>7. Len(w) = Len(q) /\ Len(t) = Len(q) - 1
  BY <1>1, <1>4, <1>6
<1>8. w # <<>> /\ Head(w) = h
  BY <1>1, <1>6, <1>7
<1>9. \A n \in 1..Len(q) : SameItem(w[n], q[n])
  <2>. TAKE n \in 1..Len(q)
  <2>1. CASE n = 1
    BY <1>3, <1>6, <2>1
  <2>2. CASE n # 1
    <3>1. n \in 2..(Len(t) + 1) /\ n - 1 \in 1..(Len(q) - 1) /\ n - 1 + 1 = n
      BY <1>1, <1>7, <2>2
    <3>2. w[n] = t[n - 1] /\ t[n - 1] = q[n - 1 + 1]
      BY <1>1, <1>4, <1>6, <3>1
    <3>. QED  BY <3>1, <3>2 DEF SameItem
  <2>. QED  BY <2>1, <2>2
<1>10. Tail(w) = t
  <2>1. Len(t) \in Nat /\ \A n \in 1..Len(t) : t[n] \in Item
    BY LenProperties
  <2>2. /\ Tail(w) \in Seq(Item) /\ Len(Tail(w)) = Len(w) - 1
        /\ \A n \in 1..Len(Tail(w)) : Tail(w)[n] = w[n + 1]
    BY <1>6, <1>8, HeadTailProperties
  <2>3. Len(Tail(w)) = Len(t)
    BY <1>6, <2>1, <2>2
  <2>4. ASSUME NEW n \in 1..Len(t) PROVE Tail(w)[n] = t[n]
    <3>1. n + 1 \in 2..(Len(t) + 1) /\ n + 1 - 1 = n
      BY <2>1
    <3>. QED  BY <1>6, <2>2, <2>3, <3>1
  <2>5. PICK v \in Seq(Item) : v = Tail(w)
    BY <2>2
  <2>. QED  BY <2>3, <2>4, <2>5, SeqEqual
<1>. QED  BY <1>2, <1>4, <1>5, <1>6, <1>7, <1>8, <1>9, <1>10

Loads(j, k, r, u) ==
    /\ j \in Job /\ j.cmd = k.cmd /\ j.lines = k.lines /\ j.tries = k.tries
    /\ j.loaded <=> r # None
    /\ j.held[Head(k.todo).doc] = r
    /\ \A d \in Docs : d # Head(k.todo).doc => j.held[d] = None
    /\ r = None => j.todo = Tail(k.todo)
    /\ r # None => /\ j.todo # <<>> /\ Len(j.todo) = Len(k.todo)
                   /\ Head(j.todo) = [Head(k.todo) EXCEPT !.uid = u]
                   /\ \A n \in 1..Len(k.todo) : SameItem(j.todo[n], k.todo[n])

LEMMA LoadedJobIs ==
    ASSUME NEW k \in Job, k.todo # <<>>, \A d \in Docs : k.held[d] = None,
           NEW r \in Data \cup {None}, NEW u \in Uids
    PROVE  Loads(LoadedJob(k, r, u), k, r, u)
<1>1. PICK q, d, h : q = k.todo /\ d = Head(k.todo).doc /\ h = k.held
  OBVIOUS
<1>2. /\ q \in Seq(Item) /\ q # <<>> /\ d \in Docs /\ Tail(q) \in Seq(Item) /\ h \in [Docs -> Data \cup {None}]
  BY <1>1, JobParts DEF Table
<1>3. PICK w : w = IF r = None THEN Tail(q) ELSE <<[Head(q) EXCEPT !.uid = u]>> \o Tail(q)
  OBVIOUS
<1>4. /\ w \in Seq(Item)
      /\ r # None => /\ w # <<>> /\ Len(w) = Len(q)
                     /\ Head(w) = [Head(q) EXCEPT !.uid = u]
                     /\ \A n \in 1..Len(q) : SameItem(w[n], q[n])
  BY <1>2, <1>3, HeadChanged
<1>5. PICK f \in BOOLEAN : f <=> r # None
  OBVIOUS
<1>6. PICK j : j = LoadedJob(k, r, u)
  OBVIOUS
<1>7. j = [k EXCEPT !.loaded = r # None, !.held[d] = r, !.todo = w]
  BY <1>1, <1>3, <1>6 DEF LoadedJob
<1>8. /\ j \in Job /\ j.cmd = k.cmd /\ j.lines = k.lines /\ j.tries = k.tries /\ j.todo = w
      /\ j.held = [h EXCEPT ![d] = r] /\ (j.loaded <=> r # None)
  BY <1>1, <1>2, <1>4, <1>7 DEF Job
<1>9. \A x \in Docs : j.held[x] = IF x = d THEN r ELSE None
  BY <1>1, <1>2, <1>8
<1>10. r = None => w = Tail(q)
  BY <1>3
<1>11. Loads(j, k, r, u)
  BY <1>1, <1>2, <1>4, <1>8, <1>9, <1>10 DEF Loads
<1>. QED  BY <1>6, <1>11

(* An operation that is not STORE holds nothing before it loads.               *)
LEMMA NothingLoaded ==
    ASSUME OwnerInv, NEW a \in Actors, Busy(a), job[a].cmd # "store", job[a].todo # <<>>, ~job[a].loaded
    PROVE  /\ job[a] \in Job /\ JobOK(job[a], lastUid, owner) /\ job[a].cmd \notin Inserts
           /\ \A d \in Docs : job[a].held[d] = None
           /\ Head(job[a].todo) \in Item /\ Head(job[a].todo).doc \in Docs
           /\ ItemOK(Head(job[a].todo), job[a].cmd)
<1>1. TypeOK /\ RecordsOwned /\ job[a] # None
  BY DEF OwnerInv, Busy
<1>2. job[a] \in Job /\ JobOK(job[a], lastUid, owner)
  BY <1>1, TypeParts DEF RecordsOwned
<1>3. PICK j \in Job : j = job[a]
  BY <1>2
<1>4. PICK lu, ow : lu = lastUid /\ ow = owner
  OBVIOUS
<1>5. JobOK(j, lu, ow) /\ j.cmd # "store" /\ j.todo # <<>> /\ ~j.loaded
  BY <1>2, <1>3, <1>4
<1>6. /\ Head(j.todo) \in Item /\ Head(j.todo).doc \in Docs /\ 1 \in 1..Len(j.todo) /\ Head(j.todo) = j.todo[1]
  BY <1>5, JobParts
<1>7. ItemOK(Head(j.todo), j.cmd)
  BY <1>5, <1>6 DEF JobOK
<1>8. \A d \in Docs : j.held[d] = None
  BY <1>5 DEF JobOK, HoldsHead
<1>9. j.cmd \notin Inserts
  BY <1>5 DEF JobOK
<1>. QED  BY <1>2, <1>3, <1>6, <1>7, <1>8, <1>9

LEMMA LoadIs ==
    ASSUME OwnerInv, NEW a \in Actors, LoadRecord(a)
    PROVE  \E u \in Uids, lu \in [Boxes -> Uids], ow \in Owners :
             /\ job' = [job EXCEPT ![a] = LoadedJob(job[a], data[Head(job[a].todo).doc], u)]
             /\ lastUid' = lu /\ owner' = ow /\ Grown(lastUid, owner, lu, ow)
             /\ Head(job[a].todo).act \in Filings /\ u # 0 =>
                  /\ u <= lu[Head(job[a].todo).to]
                  /\ ow[Head(job[a].todo).to][u] = Head(job[a].todo).doc
<1>1. TypeOK
  BY DEF OwnerInv
<1>2. /\ lastUid \in [Boxes -> Uids] /\ owner \in Owners /\ MaxUid \in Nat /\ job \in Jobs
  BY <1>1, TypeParts, AccessAssumption
<1>3. Busy(a) /\ job[a].cmd # "store" /\ job[a].todo # <<>> /\ ~job[a].loaded
  BY DEF LoadRecord
<1>4. PICK it \in Item : it = Head(job[a].todo) /\ it.doc \in Docs /\ ItemOK(it, job[a].cmd)
  BY <1>3, NothingLoaded
<1>. DEFINE draws == TakesUid(a, it)
            u == IF draws THEN lastUid[it.to] + 1 ELSE 0
<1>5. /\ IF draws THEN TakeUid(it.to, it.doc) ELSE lastUid' = lastUid /\ owner' = owner
      /\ job' = [job EXCEPT ![a].loaded = data[it.doc] # None,
                            ![a].held[it.doc] = data[it.doc],
                            ![a].todo = IF data[it.doc] = None THEN Tail(@)
                                        ELSE <<[it EXCEPT !.uid = u]>> \o Tail(@)]
  BY <1>4 DEF LoadRecord
<1>6. job' = [job EXCEPT ![a] = LoadedJob(job[a], data[it.doc], u)]
  <2>. HIDE DEF u
  <2>1. PICK r : r = data[it.doc]
    OBVIOUS
  <2>2. job' = [job EXCEPT ![a].loaded = r # None, ![a].held[it.doc] = r,
                           ![a].todo = IF r = None THEN Tail(@) ELSE <<[it EXCEPT !.uid = u]>> \o Tail(@)]
    BY <1>5, <2>1
  <2>3. job' = [job EXCEPT ![a] = [job[a] EXCEPT !.loaded = r # None, !.held[it.doc] = r,
                                  !.todo = IF r = None THEN Tail(@) ELSE <<[it EXCEPT !.uid = u]>> \o Tail(@)]]
    BY <1>2, <2>2 DEF Jobs
  <2>4. LoadedJob(job[a], r, u) =
          [job[a] EXCEPT !.loaded = r # None, !.held[it.doc] = r,
                         !.todo = IF r = None THEN Tail(@) ELSE <<[it EXCEPT !.uid = u]>> \o Tail(@)]
    BY <1>4 DEF LoadedJob
  <2>. QED  BY <2>1, <2>3, <2>4
<1>7. it.act \in Filings => it.to \in Boxes
  BY <1>4 DEF ItemOK
<1>8. CASE draws
  <2>1. /\ it.to \in Boxes /\ lastUid[it.to] \in Nat /\ lastUid[it.to] < MaxUid
        /\ u = lastUid[it.to] + 1 /\ u \in 1..MaxUid
    BY <1>2, <1>5, <1>7, <1>8 DEF TakesUid, Filings, TakeUid, Uids
  <2>2. lastUid' = [lastUid EXCEPT ![it.to] = u] /\ owner' = [owner EXCEPT ![it.to][u] = it.doc]
    BY <1>5, <1>8, <2>1 DEF TakeUid
  <2>3. PICK lu, ow : lu = [lastUid EXCEPT ![it.to] = u] /\ ow = [owner EXCEPT ![it.to][u] = it.doc]
    OBVIOUS
  <2>. HIDE DEF u
  <2>4. u \in Uids /\ lu \in [Boxes -> Uids] /\ lu[it.to] = u
    BY <1>2, <2>1, <2>3 DEF Uids
  <2>5. ow \in Owners /\ ow[it.to][u] = it.doc
    BY <1>2, <1>4, <2>1, <2>3 DEF Owners
  <2>6. Grown(lastUid, owner, lu, ow)
    <3>. SUFFICES ASSUME NEW b \in Boxes
                  PROVE  lastUid[b] <= lu[b] /\ \A v \in 1..lastUid[b] : ow[b][v] = owner[b][v]
      BY DEF Grown
    <3>1. lastUid[b] \in Nat /\ owner[b] \in [1..MaxUid -> Docs \cup {None}] /\ lastUid[b] <= MaxUid
      BY <1>2 DEF Uids, Owners
    <3>2. CASE b = it.to
      <4>1. lastUid[b] <= lu[b]
        BY <2>1, <2>4, <3>1, <3>2
      <4>2. ow[b] = [owner[b] EXCEPT ![u] = it.doc]
        BY <1>2, <2>3, <3>2 DEF Owners
      <4>3. ASSUME NEW v \in 1..lastUid[b] PROVE ow[b][v] = owner[b][v]
        <5>1. v # u
          BY <2>1, <3>1, <3>2
        <5>2. v \in 1..MaxUid
          BY <1>2, <3>1
        <5>. QED  BY <3>1, <4>2, <5>1, <5>2
      <4>. QED  BY <4>1, <4>3
    <3>3. CASE b # it.to
      <4>1. lu[b] = lastUid[b] /\ ow[b] = owner[b]
        BY <1>2, <2>3, <3>3 DEF Owners
      <4>. QED  BY <3>1, <4>1
    <3>. QED  BY <3>2, <3>3
  <2>7. u <= lu[it.to]
    BY <2>1, <2>4
  <2>. QED  BY <1>4, <1>6, <2>2, <2>3, <2>4, <2>5, <2>6, <2>7
<1>9. CASE ~draws
  <2>1. u = 0 /\ lastUid' = lastUid /\ owner' = owner
    BY <1>5, <1>9
  <2>2. Grown(lastUid, owner, lastUid, owner)
    <3>1. \A b \in Boxes : lastUid[b] <= lastUid[b]
      BY <1>2 DEF Uids
    <3>. QED  BY <3>1 DEF Grown
  <2>3. 0 \in Uids
    BY <1>2 DEF Uids
  <2>. HIDE DEF u
  <2>. QED  BY <1>2, <1>4, <1>6, <2>1, <2>2, <2>3
<1>. QED  BY <1>8, <1>9

LEMMA OwnerLoad ==
    ASSUME OwnerInv, NEW a \in Actors, LoadRecord(a)
    PROVE  OwnerInv'
<1>1. TypeOK /\ RecordsOwned
  BY DEF OwnerInv
<1>2. Busy(a) /\ job[a].cmd # "store" /\ job[a].todo # <<>> /\ ~job[a].loaded
  BY DEF LoadRecord
<1>3. PICK u \in Uids, lu \in [Boxes -> Uids], ow \in Owners :
             /\ job' = [job EXCEPT ![a] = LoadedJob(job[a], data[Head(job[a].todo).doc], u)]
             /\ lastUid' = lu /\ owner' = ow /\ Grown(lastUid, owner, lu, ow)
             /\ Head(job[a].todo).act \in Filings /\ u # 0 =>
                  /\ u <= lu[Head(job[a].todo).to]
                  /\ ow[Head(job[a].todo).to][u] = Head(job[a].todo).doc
  BY LoadIs
<1>a. PICK k \in Job, lu0 \in [Boxes -> Uids] : k = job[a] /\ lu0 = lastUid
  BY <1>1, <1>2, NothingLoaded, TypeParts
<1>b. PICK ow0 : ow0 = owner
  OBVIOUS
<1>4. k = job[a] /\ lu0 = lastUid /\ ow0 = owner
  BY <1>a, <1>b
<1>5. PICK d \in Docs : d = Head(k.todo).doc
  BY <1>2, <1>4, NothingLoaded
<1>6. PICK r \in Data \cup {None} : r = data[d]
  BY <1>1, TypeParts DEF Table
<1>7. /\ JobOK(k, lu0, ow0) /\ k.cmd \notin Inserts /\ k.cmd # "store" /\ k.todo # <<>>
      /\ \A x \in Docs : k.held[x] = None
      /\ Head(k.todo) \in Item /\ ItemOK(Head(k.todo), k.cmd)
  BY <1>2, <1>4, NothingLoaded
<1>8. r # None => Owned(r, d, lu, ow)
  <2>. HAVE r # None
  <2>1. r \in Data /\ Owned(r, d, lu0, ow0)
    BY <1>1, <1>4, <1>6 DEF RecordsOwned
  <2>. QED  BY <1>3, <1>4, <2>1, OwnedGrown
<1>9. PICK j : j = LoadedJob(k, r, u)
  OBVIOUS
<1>10. /\ j \in Job /\ j.cmd = k.cmd /\ j.tries = k.tries
       /\ j.loaded <=> r # None
       /\ j.held[d] = r
       /\ \A x \in Docs : x # d => j.held[x] = None
       /\ r = None => j.todo = Tail(k.todo)
       /\ r # None => /\ j.todo # <<>> /\ Len(j.todo) = Len(k.todo)
                      /\ Head(j.todo) = [Head(k.todo) EXCEPT !.uid = u]
                      /\ \A n \in 1..Len(k.todo) : SameItem(j.todo[n], k.todo[n])
  <2>1. k.todo # <<>> /\ \A x \in Docs : k.held[x] = None
    BY <1>7
  <2>2. Loads(LoadedJob(k, r, u), k, r, u)
    BY <2>1, LoadedJobIs
  <2>. QED  BY <1>5, <1>9, <2>2 DEF Loads
<1>11. \A n \in 1..Len(j.todo) : ItemOK(j.todo[n], j.cmd)
  <2>1. CASE r = None
    <3>1. Len(k.todo) \in Nat /\ Len(j.todo) = Len(k.todo) - 1 /\ \A n \in 1..(Len(k.todo) - 1) : j.todo[n] = k.todo[n + 1]
      BY <1>7, <1>10, <2>1, JobParts
    <3>2. \A n \in 1..(Len(k.todo) - 1) : n + 1 \in 1..Len(k.todo)
      BY <3>1
    <3>3. \A n \in 1..Len(k.todo) : ItemOK(k.todo[n], k.cmd)
      BY <1>7 DEF JobOK
    <3>. QED  BY <1>10, <3>1, <3>2, <3>3
  <2>2. CASE r # None
    BY <1>7, <1>10, <2>2 DEF JobOK, ItemOK, SameItem
  <2>. QED  BY <2>1, <2>2
<1>12. HoldsHead(j, lu, ow)
  <2>1. CASE r = None
    <3>1. ~j.loaded /\ \A x \in Docs : j.held[x] = None
      BY <1>10, <2>1
    <3>. QED  BY <3>1 DEF HoldsHead
  <2>2. CASE r # None
    <3>1. PICK h : h = [Head(k.todo) EXCEPT !.uid = u]
      OBVIOUS
    <3>2. h.doc = d /\ h.act = Head(k.todo).act /\ h.to = Head(k.todo).to /\ h.uid = u
      BY <1>5, <1>7, <3>1 DEF Item
    <3>3. h.act \in Filings /\ u # 0 => u <= lu[h.to] /\ ow[h.to][u] = d
      BY <1>3, <1>4, <1>5, <3>2
    <3>4. Drawn(h, lu, ow)
      BY <3>2, <3>3 DEF Drawn
    <3>5. Head(j.todo) = h /\ j.todo # <<>> /\ j.loaded /\ j.held[d] # None
      BY <1>10, <2>2, <3>1
    <3>6. \A x \in Docs : j.held[x] # None => x = d
      BY <1>10
    <3>. QED  BY <3>2, <3>4, <3>5, <3>6 DEF HoldsHead
  <2>. QED  BY <2>1, <2>2
<1>13. JobOK(j, lu, ow)
  <2>1. j.tries < UpdateAttempts
    BY <1>7, <1>10 DEF JobOK
  <2>2. \A x \in Docs : j.held[x] # None => Owned(j.held[x], x, lu, ow)
    BY <1>8, <1>10
  <2>. QED  BY <1>7, <1>10, <1>11, <1>12, <2>1, <2>2 DEF JobOK
<1>14. job' = [job EXCEPT ![a] = j]
  BY <1>3, <1>4, <1>5, <1>6, <1>9
<1>15. data' = data /\ sess' = sess /\ drop' = drop /\ fresh' \subseteq Docs /\ ops' \in 0..MaxOps
  BY <1>1 DEF LoadRecord, TypeOK
<1>. QED  BY <1>3, <1>10, <1>13, <1>14, <1>15, OwnerGrow

----------------------------------------------------------------------------
(* Writing records.                                                            *)

(* What a batch does to the sessions.                                          *)
SameSession(x, y) ==
    /\ x.state = y.state /\ x.box = y.box /\ x.readOnly = y.readOnly /\ x.last = y.last
    /\ x.view = y.view /\ x.idle = y.idle /\ x.qresync = y.qresync

LEMMA WriteSessions ==
    ASSUME TypeOK, NEW a, NEW nd, Write(a, nd)
    PROVE  /\ data' = nd /\ sess' \in [Imap -> Session]
           /\ \A s \in Imap : /\ SessionOK(sess'[s]) /\ SameSession(sess'[s], sess[s])
                              /\ ~sess'[s].moved => ~sess[s].moved
                              /\ ~sess'[s].moved /\ sess[s].state = "selected" => ~Displaces(a, s, nd)
<1>1. ASSUME NEW s \in Imap
      PROVE  /\ sess'[s] \in Session /\ SessionOK(sess'[s]) /\ SameSession(sess'[s], sess[s])
             /\ ~sess'[s].moved => ~sess[s].moved
             /\ ~sess'[s].moved /\ sess[s].state = "selected" => ~Displaces(a, s, nd)
  <2>1. SessionOK(sess[s]) /\ sess[s].moved \in BOOLEAN /\ sess[s].note \in BOOLEAN /\ sess[s].idle \in BOOLEAN
    BY TypeParts, SessionParts
  <2>2. PICK z : z = sess[s]
    OBVIOUS
  <2>3. PICK m \in BOOLEAN : m <=> (z.moved \/ (z.state = "selected" /\ Displaces(a, s, nd)))
    OBVIOUS
  <2>4. PICK n \in BOOLEAN : n <=> (z.note \/ z.idle)
    OBVIOUS
  <2>5. sess'[s] = [z EXCEPT !.moved = z.moved \/ (z.state = "selected" /\ Displaces(a, s, nd)),
                             !.note = z.note \/ z.idle]
    BY <2>2 DEF Write
  <2>6. (z.moved \/ (z.state = "selected" /\ Displaces(a, s, nd))) = m
    BY <2>1, <2>2, <2>3
  <2>7. (z.note \/ z.idle) = n
    BY <2>1, <2>2, <2>4
  <2>8. sess'[s] = [z EXCEPT !.moved = m, !.note = n]
    BY <2>5, <2>6, <2>7
  <2>9. z \in Session
    BY <2>1, <2>2 DEF SessionOK
  <2>10. sess'[s] \in Session /\ sess'[s].moved = m /\ SameSession(sess'[s], z)
    BY <2>8, <2>9 DEF Session, SameSession
  <2>11. SessionOK(sess'[s])
    BY <2>1, <2>2, <2>10 DEF SessionOK, SameSession
  <2>. QED  BY <2>2, <2>3, <2>10, <2>11
<1>2. sess' \in [Imap -> Session]
  <2>1. sess' = [s \in Imap |-> sess'[s]]
    BY DEF Write
  <2>. QED  BY <1>1, <2>1
<1>. QED  BY <1>1, <1>2 DEF Write

LEMMA OwnerWrite ==
    ASSUME OwnerInv, NEW a \in Actors, NEW nd \in Table, Write(a, nd),
           \A d \in Docs : nd[d] # None => Owned(nd[d], d, lastUid, owner),
           NEW j \in Job, JobOK(j, lastUid, owner), job' = [job EXCEPT ![a] = j],
           lastUid' = lastUid, owner' = owner, fresh' = fresh, drop' = drop, ops' = ops
    PROVE  OwnerInv'
<1>1. TypeOK /\ RecordsOwned
  BY DEF OwnerInv
<1>2. data' = nd /\ sess' \in [Imap -> Session] /\ \A s \in Imap : SessionOK(sess'[s])
  BY <1>1, WriteSessions
<1>3. job \in Jobs
  BY <1>1, TypeParts
<1>4. TypeOK'
  <2>1. data' \in [Docs -> Data \cup {None}]
    BY <1>2 DEF Table
  <2>2. job' \in [Actors -> Job \cup {None}]
    BY <1>3 DEF Jobs
  <2>3. sess' \in [Imap -> Session] /\ \A s \in Imap : sess'[s].state = "selected" <=> sess'[s].box # None
    BY <1>2 DEF SessionOK
  <2>. QED  BY <1>1, <2>1, <2>2, <2>3 DEF TypeOK
<1>5. \A x \in Actors : job'[x] # None => JobOK(job'[x], lastUid, owner)
  BY <1>1, <1>3 DEF RecordsOwned, Jobs
<1>6. RecordsOwned'
  BY <1>2, <1>5 DEF RecordsOwned
<1>. QED  BY <1>4, <1>6 DEF OwnerInv

(* The operation once the record in hand is written.                           *)
WrittenJob(k) == [k EXCEPT !.todo = Tail(@), !.loaded = FALSE, !.held = NothingHeld]

LEMMA WrittenJobIs ==
    ASSUME NEW k \in Job, k.todo # <<>>
    PROVE  /\ WrittenJob(k) \in Job /\ WrittenJob(k).cmd = k.cmd /\ WrittenJob(k).lines = k.lines
           /\ WrittenJob(k).tries = k.tries /\ WrittenJob(k).todo = Tail(k.todo)
           /\ ~WrittenJob(k).loaded /\ \A d \in Docs : WrittenJob(k).held[d] = None
<1>1. Tail(k.todo) \in Seq(Item)
  BY JobParts
<1>2. NothingHeld \in [Docs -> Data \cup {None}] /\ \A d \in Docs : NothingHeld[d] = None
  BY DEF NothingHeld
<1>3. PICK t \in Seq(Item) : t = Tail(k.todo)
  BY <1>1
<1>4. PICK h \in [Docs -> Data \cup {None}] : h = NothingHeld
  BY <1>2
<1>5. WrittenJob(k) = [k EXCEPT !.todo = t, !.loaded = FALSE, !.held = h]
  BY <1>3, <1>4 DEF WrittenJob
<1>6. PICK j : j = [k EXCEPT !.todo = t, !.loaded = FALSE, !.held = h]
  OBVIOUS
<1>7. /\ j \in Job /\ j.cmd = k.cmd /\ j.lines = k.lines /\ j.tries = k.tries
      /\ j.todo = t /\ ~j.loaded /\ j.held = h
  BY <1>6 DEF Job
<1>. QED  BY <1>2, <1>3, <1>4, <1>5, <1>6, <1>7

LEMMA WrittenJobOK ==
    ASSUME NEW k \in Job, k.todo # <<>>, NEW lu, NEW ow, JobOK(k, lu, ow)
    PROVE  JobOK(WrittenJob(k), lu, ow)
<1>1. PICK j : j = WrittenJob(k)
  OBVIOUS
<1>2. /\ j.cmd = k.cmd /\ j.tries = k.tries /\ j.todo = Tail(k.todo)
      /\ ~j.loaded /\ \A d \in Docs : j.held[d] = None
  BY <1>1, WrittenJobIs
<1>3. /\ Len(k.todo) \in Nat /\ Len(j.todo) = Len(k.todo) - 1 /\ Len(k.todo) > 0
      /\ \A n \in 1..(Len(k.todo) - 1) : j.todo[n] = k.todo[n + 1]
      /\ j.todo \in Seq(Item)
  BY <1>2, JobParts
<1>4. \A n \in 1..Len(j.todo) : ItemOK(j.todo[n], j.cmd)
  <2>1. \A n \in 1..(Len(k.todo) - 1) : n + 1 \in 1..Len(k.todo)
    BY <1>3
  <2>2. \A n \in 1..Len(k.todo) : ItemOK(k.todo[n], k.cmd)
    BY DEF JobOK
  <2>. QED  BY <1>2, <1>3, <2>1, <2>2
<1>5. j.cmd \in Inserts => j.todo = <<>> /\ Len(j.todo) <= 1
  <2>. HAVE j.cmd \in Inserts
  <2>1. Len(k.todo) <= 1
    BY <1>2 DEF JobOK
  <2>2. Len(j.todo) = 0
    <3>1. Len(k.todo) \in Nat /\ Len(k.todo) > 0 /\ Len(j.todo) = Len(k.todo) - 1
      BY <1>3
    <3>2. PICK n, m : n = Len(k.todo) /\ m = Len(j.todo)
      OBVIOUS
    <3>3. n \in Nat /\ n > 0 /\ n <= 1 /\ m = n - 1
      BY <2>1, <3>1, <3>2
    <3>4. m = 0
      BY ONLY <3>3
    <3>. QED  BY <3>2, <3>4
  <2>. QED  BY <1>3, <2>2, EmptySeq
<1>6. JobOK(j, lu, ow)
  BY <1>2, <1>4, <1>5 DEF JobOK, HoldsHead
<1>. QED  BY <1>1, <1>6

LEMMA WriteIs ==
    ASSUME OwnerInv, NEW a \in Actors, WriteRecord(a)
    PROVE  \E k \in Job, it \in Item, r \in Data :
             /\ k = job[a] /\ k.todo # <<>> /\ k.loaded /\ k.cmd # "store" /\ it = Head(k.todo)
             /\ it.doc \in Docs /\ r = k.held[it.doc] /\ ItemOK(it, k.cmd) /\ JobOK(k, lastUid, owner)
             /\ Owned(r, it.doc, lastUid, owner) /\ Drawn(it, lastUid, owner)
             /\ [data EXCEPT ![it.doc] = Mutated(r, it)] \in Table
             /\ Write(a, [data EXCEPT ![it.doc] = Mutated(r, it)])
             /\ job' = [job EXCEPT ![a] = WrittenJob(k)]
<1>1. TypeOK /\ RecordsOwned
  BY DEF OwnerInv
<1>2. Busy(a) /\ job[a].cmd # "store" /\ job[a].todo # <<>> /\ job[a].loaded /\ job[a] # None
  BY DEF WriteRecord, Busy
<1>3. PICK k \in Job : k = job[a]
  BY <1>1, <1>2, TypeParts
<1>4. JobOK(k, lastUid, owner) /\ k.todo # <<>> /\ k.loaded /\ k.cmd # "store"
  BY <1>1, <1>2, <1>3 DEF RecordsOwned
<1>5. PICK it \in Item : it = Head(k.todo) /\ it.doc \in Docs /\ 1 \in 1..Len(k.todo) /\ it = k.todo[1]
  BY <1>4, JobParts
<1>6. HoldsHead(k, lastUid, owner) /\ ItemOK(it, k.cmd)
  BY <1>4, <1>5 DEF JobOK
<1>7. k.held[it.doc] # None /\ Drawn(it, lastUid, owner)
  BY <1>4, <1>5, <1>6 DEF HoldsHead
<1>8. PICK r \in Data : r = k.held[it.doc]
  BY <1>5, <1>7, JobParts, RecordType
<1>9. Owned(r, it.doc, lastUid, owner)
  BY <1>4, <1>5, <1>7, <1>8 DEF JobOK
<1>10. it.act \in Filings => it.to \in Boxes
  BY <1>6 DEF ItemOK
<1>11. Mutated(r, it) \in Data \cup {None}
  BY <1>10, MutatedIs
<1>12. [data EXCEPT ![it.doc] = Mutated(r, it)] \in Table
  BY <1>1, <1>5, <1>11, TypeParts DEF Table
<1>13. Write(a, [data EXCEPT ![it.doc] = Mutated(r, it)])
  BY <1>3, <1>5, <1>8 DEF WriteRecord
<1>14. job' = [job EXCEPT ![a] = WrittenJob(k)]
  <2>1. job \in Jobs
    BY <1>1, TypeParts
  <2>. QED  BY <1>3, <2>1 DEF WriteRecord, WrittenJob, Jobs
<1>. QED  BY <1>3, <1>4, <1>5, <1>6, <1>7, <1>8, <1>9, <1>12, <1>13, <1>14

LEMMA OwnerWriteRecord ==
    ASSUME OwnerInv, NEW a \in Actors, WriteRecord(a)
    PROVE  OwnerInv'
<1>1. TypeOK /\ RecordsOwned
  BY DEF OwnerInv
<1>2. PICK k \in Job, it \in Item, r \in Data :
             /\ k = job[a] /\ k.todo # <<>> /\ k.loaded /\ k.cmd # "store" /\ it = Head(k.todo)
             /\ it.doc \in Docs /\ r = k.held[it.doc] /\ ItemOK(it, k.cmd) /\ JobOK(k, lastUid, owner)
             /\ Owned(r, it.doc, lastUid, owner) /\ Drawn(it, lastUid, owner)
             /\ [data EXCEPT ![it.doc] = Mutated(r, it)] \in Table
             /\ Write(a, [data EXCEPT ![it.doc] = Mutated(r, it)])
             /\ job' = [job EXCEPT ![a] = WrittenJob(k)]
  BY WriteIs
<1>3. PICK nd \in Table : nd = [data EXCEPT ![it.doc] = Mutated(r, it)]
  BY <1>2
<1>4. it.act \in Filings => it.to \in Boxes
  BY <1>2 DEF ItemOK
<1>5. Mutated(r, it) # None => Owned(Mutated(r, it), it.doc, lastUid, owner)
  BY <1>2, <1>4, MutatedOwned
<1>6. \A d \in Docs : nd[d] # None => Owned(nd[d], d, lastUid, owner)
  <2>. TAKE d \in Docs
  <2>. HAVE nd[d] # None
  <2>1. data \in Table
    BY <1>1, TypeParts
  <2>2. CASE d = it.doc
    BY <1>2, <1>3, <1>5, <2>1, <2>2 DEF Table
  <2>3. CASE d # it.doc
    <3>1. nd[d] = data[d]
      BY <1>3, <2>1, <2>3 DEF Table
    <3>. QED  BY <1>1, <3>1 DEF RecordsOwned
  <2>. QED  BY <2>2, <2>3
<1>7. PICK j : j = WrittenJob(k)
  OBVIOUS
<1>8. j \in Job /\ JobOK(j, lastUid, owner)
  BY <1>2, <1>7, WrittenJobIs, WrittenJobOK
<1>9. job' = [job EXCEPT ![a] = j] /\ Write(a, nd)
  BY <1>2, <1>3, <1>7
<1>10. lastUid' = lastUid /\ owner' = owner /\ fresh' = fresh /\ drop' = drop /\ ops' = ops
  BY DEF WriteRecord
<1>. QED  BY <1>6, <1>8, <1>9, <1>10, OwnerWrite

----------------------------------------------------------------------------
(* STORE: read every record, then write them in one batch.                     *)

LEMMA StoreJob ==
    ASSUME OwnerInv, NEW a \in Actors, Busy(a), job[a].cmd = "store", job[a].todo # <<>>
    PROVE  \E k \in Job, it \in Item :
             /\ k = job[a] /\ it = Head(k.todo) /\ JobOK(k, lastUid, owner) /\ k.tries < UpdateAttempts
             /\ it.act \in {"plus", "minus", "replace"}
             /\ \A n \in 1..Len(k.todo) : ItemOK(k.todo[n], k.cmd)
             /\ \A d \in Docs : k.held[d] # None => k.held[d] \in Data /\ Owned(k.held[d], d, lastUid, owner)
<1>1. TypeOK /\ RecordsOwned /\ job[a] # None
  BY DEF OwnerInv, Busy
<1>2. PICK k \in Job : k = job[a]
  BY <1>1, TypeParts
<1>3. JobOK(k, lastUid, owner) /\ k.todo # <<>> /\ k.cmd = "store"
  BY <1>1, <1>2 DEF RecordsOwned
<1>4. PICK it \in Item : it = Head(k.todo) /\ 1 \in 1..Len(k.todo) /\ it = k.todo[1]
  BY <1>3, JobParts
<1>5. k.tries < UpdateAttempts /\ (\A n \in 1..Len(k.todo) : ItemOK(k.todo[n], k.cmd)) /\ ItemOK(it, k.cmd)
  BY <1>3, <1>4 DEF JobOK
<1>6. it.act \in {"plus", "minus", "replace"}
  BY <1>3, <1>5 DEF ItemOK
<1>7. \A d \in Docs : k.held[d] # None => k.held[d] \in Data /\ Owned(k.held[d], d, lastUid, owner)
  BY <1>3, JobParts, RecordType DEF JobOK
<1>. QED  BY <1>2, <1>3, <1>4, <1>5, <1>6, <1>7

(* Both steps leave the operation a STORE with the items it had or none.       *)
StoreOn(j, k) ==
    /\ j.cmd = "store" /\ k.cmd = "store" /\ j.lines = k.lines
    /\ j.todo = k.todo \/ j.todo = <<>>

LEMMA LoadForStoreIs ==
    ASSUME OwnerInv, NEW a \in Actors, LoadForStore(a)
    PROVE  \E j \in Job : /\ job' = [job EXCEPT ![a] = j] /\ JobOK(j, lastUid, owner) /\ StoreOn(j, job[a])
                          /\ \A d \in Docs : j.held[d] = data[d] \/ j.held[d] = None
<1>1. TypeOK /\ RecordsOwned
  BY DEF OwnerInv
<1>2. Busy(a) /\ job[a].cmd = "store" /\ job[a].todo # <<>>
  BY DEF LoadForStore
<1>3. PICK k \in Job, it \in Item :
             /\ k = job[a] /\ it = Head(k.todo) /\ JobOK(k, lastUid, owner) /\ k.tries < UpdateAttempts
             /\ \A n \in 1..Len(k.todo) : ItemOK(k.todo[n], k.cmd)
  BY <1>2, StoreJob
<1>. DEFINE ids == {job[a].todo[n].doc : n \in 1..Len(job[a].todo)}
<1>4. PICK h : h = [d \in Docs |-> IF d \in ids THEN data[d] ELSE None]
  OBVIOUS
<1>5. h \in [Docs -> Data \cup {None}] /\ \A d \in Docs : h[d] = data[d] \/ h[d] = None
  BY <1>1, <1>4, TypeParts DEF Table
<1>6. PICK j : j = [k EXCEPT !.loaded = TRUE, !.held = h]
  OBVIOUS
<1>7. j \in Job /\ j.cmd = k.cmd /\ j.lines = k.lines /\ j.tries = k.tries /\ j.todo = k.todo /\ j.held = h
  BY <1>5, <1>6 DEF Job
<1>8. \A d \in Docs : j.held[d] # None => Owned(j.held[d], d, lastUid, owner)
  BY <1>1, <1>5, <1>7 DEF RecordsOwned
<1>9. k.cmd = "store" /\ "store" \notin Inserts
  BY <1>2, <1>3 DEF Inserts
<1>10. JobOK(j, lastUid, owner)
  BY <1>3, <1>7, <1>8, <1>9 DEF JobOK
<1>11. job' = [job EXCEPT ![a] = j]
  <2>1. job \in Jobs
    BY <1>1, TypeParts
  <2>2. job' = [job EXCEPT ![a].loaded = TRUE, ![a].held = h]
    BY <1>4 DEF LoadForStore
  <2>. QED  BY <1>3, <1>6, <2>1, <2>2 DEF Jobs
<1>. QED  BY <1>3, <1>5, <1>7, <1>9, <1>10, <1>11 DEF StoreOn

LEMMA OwnerLoadForStore ==
    ASSUME OwnerInv, NEW a \in Actors, LoadForStore(a)
    PROVE  OwnerInv'
<1>1. TypeOK
  BY DEF OwnerInv
<1>2. PICK j \in Job : job' = [job EXCEPT ![a] = j] /\ JobOK(j, lastUid, owner)
  BY LoadForStoreIs
<1>3. data' = data /\ lastUid' = lastUid /\ owner' = owner /\ fresh' = fresh /\ sess' = sess /\ drop' = drop /\ ops' = ops
  BY DEF LoadForStore
<1>4. ops' \in 0..MaxOps
  BY <1>1, <1>3, OpsDown
<1>. QED  BY <1>2, <1>3, <1>4, OwnerJob

(* A batch of STORE changes the flags of records as they are in the store.     *)
FlagsOnly(nd, it) ==
    /\ it \in Item /\ it.act \in {"plus", "minus", "replace"}
    /\ \A d \in Docs : nd[d] # data[d] => data[d] # None /\ nd[d] = Mutated(data[d], it)

LEMMA CommitIs ==
    ASSUME OwnerInv, NEW a \in Actors, CommitStore(a)
    PROVE  /\ \E j \in Job : /\ job' = [job EXCEPT ![a] = j] /\ JobOK(j, lastUid, owner) /\ StoreOn(j, job[a])
                             /\ \A d \in Docs : j.held[d] = job[a].held[d] \/ j.held[d] = None
           /\ \/ data' = data /\ sess' = sess
              \/ \E nd \in Table : Write(a, nd) /\ FlagsOnly(nd, Head(job[a].todo))
<1>1. TypeOK /\ RecordsOwned
  BY DEF OwnerInv
<1>2. Busy(a) /\ job[a].cmd = "store" /\ job[a].todo # <<>>
  BY DEF CommitStore
<1>3. PICK k \in Job, it \in Item :
             /\ k = job[a] /\ it = Head(k.todo) /\ JobOK(k, lastUid, owner) /\ k.tries < UpdateAttempts
             /\ it.act \in {"plus", "minus", "replace"}
             /\ \A n \in 1..Len(k.todo) : ItemOK(k.todo[n], k.cmd)
             /\ \A d \in Docs : k.held[d] # None => k.held[d] \in Data /\ Owned(k.held[d], d, lastUid, owner)
  BY <1>2, StoreJob
<1>4. job \in Jobs /\ data \in Table /\ k.cmd = "store" /\ "store" \notin Inserts
  BY <1>1, <1>2, <1>3, TypeParts DEF Inserts
<1>5. CASE AssertsHold(a)
  <2>1. PICK j : j = [k EXCEPT !.todo = <<>>]
    OBVIOUS
  <2>2. <<>> \in Seq(Item)
    OBVIOUS
  <2>3. j \in Job /\ j.cmd = k.cmd /\ j.lines = k.lines /\ j.tries = k.tries /\ j.todo = <<>> /\ j.held = k.held
    BY <2>1, <2>2 DEF Job
  <2>4. JobOK(j, lastUid, owner)
    BY <1>3, <1>4, <2>3 DEF JobOK
  <2>5. job' = [job EXCEPT ![a] = j]
    BY <1>3, <1>4, <1>5, <2>1 DEF CommitStore, Jobs
  <2>6. CASE Changed(a) = {}
    <3>1. data' = data /\ sess' = sess
      BY <1>5, <2>6 DEF CommitStore
    <3>. QED  BY <1>3, <1>4, <2>3, <2>4, <2>5, <3>1 DEF StoreOn
  <2>7. CASE Changed(a) # {}
    <3>1. PICK nd : nd = [d \in Docs |-> IF d \in Changed(a) THEN Mutated(k.held[d], it) ELSE data[d]]
      OBVIOUS
    <3>2. Write(a, nd)
      BY <1>3, <1>5, <2>7, <3>1 DEF CommitStore
    <3>3. \A d \in Changed(a) : d \in Docs /\ k.held[d] # None /\ data[d] = k.held[d]
      BY <1>3, <1>5 DEF Changed, AssertsHold
    <3>4. \A d \in Docs : d \in Changed(a) => nd[d] = Mutated(data[d], it) /\ data[d] \in Data /\ data[d] # None
      BY <1>3, <3>1, <3>3
    <3>5. \A d \in Docs : d \notin Changed(a) => nd[d] = data[d]
      BY <3>1
    <3>6. \A r \in Data : Mutated(r, it) \in Data
      BY <1>3, MutatedIs DEF Filings
    <3>7. nd \in Table
      BY <1>4, <3>1, <3>3, <3>4, <3>5, <3>6 DEF Table
    <3>8. FlagsOnly(nd, it)
      BY <1>3, <3>4, <3>5 DEF FlagsOnly
    <3>. QED  BY <1>3, <1>4, <2>3, <2>4, <2>5, <3>2, <3>7, <3>8 DEF StoreOn
  <2>. QED  BY <2>6, <2>7
<1>6. CASE ~AssertsHold(a)
  <2>1. PICK t : t = IF k.tries + 1 = UpdateAttempts THEN <<>> ELSE k.todo
    OBVIOUS
  <2>2. <<>> \in Seq(Item)
    OBVIOUS
  <2>3. t \in Seq(Item) /\ (t = k.todo \/ t = <<>>)
    BY <2>1, <2>2, JobParts
  <2>4. k.tries + 1 \in 0..UpdateAttempts /\ (t # <<>> => k.tries + 1 < UpdateAttempts)
    <3>1. k.tries \in Nat /\ UpdateAttempts \in Nat
      BY JobParts, AccessAssumption
    <3>2. k.tries + 1 <= UpdateAttempts
      BY <1>3, <3>1
    <3>3. t # <<>> => k.tries + 1 # UpdateAttempts
      BY <2>1
    <3>. QED  BY <3>1, <3>2, <3>3
  <2>5. PICK h \in [Docs -> Data \cup {None}] : h = NothingHeld /\ \A d \in Docs : h[d] = None
    <3>1. NothingHeld \in [Docs -> Data \cup {None}] /\ \A d \in Docs : NothingHeld[d] = None
      BY DEF NothingHeld
    <3>. QED  BY <3>1
  <2>6. PICK m \in 0..UpdateAttempts : m = k.tries + 1
    BY <2>4
  <2>7. PICK j : j = [k EXCEPT !.tries = m, !.loaded = FALSE, !.held = h, !.todo = t]
    OBVIOUS
  <2>8. j \in Job /\ j.cmd = k.cmd /\ j.lines = k.lines /\ j.tries = m /\ j.todo = t /\ j.held = h
    BY <2>3, <2>7 DEF Job
  <2>9. JobOK(j, lastUid, owner)
    <3>1. \A n \in 1..Len(j.todo) : ItemOK(j.todo[n], j.cmd)
      <4>1. Len(<<>>) = 0
        OBVIOUS
      <4>. QED  BY <1>3, <2>3, <2>8, <4>1
    <3>2. j.todo # <<>> => j.tries < UpdateAttempts
      BY <2>4, <2>6, <2>8
    <3>3. \A d \in Docs : j.held[d] = None
      BY <2>5, <2>8
    <3>. QED  BY <1>4, <2>8, <3>1, <3>2, <3>3 DEF JobOK
  <2>10. /\ job' = [job EXCEPT ![a].tries = @ + 1, ![a].loaded = FALSE, ![a].held = h,
                               ![a].todo = IF job[a].tries + 1 = UpdateAttempts THEN <<>> ELSE @]
         /\ data' = data /\ sess' = sess
    BY <1>6, <2>5 DEF CommitStore
  <2>11. job' = [job EXCEPT ![a] = j]
    BY <1>3, <1>4, <2>1, <2>6, <2>7, <2>10 DEF Jobs
  <2>12. StoreOn(j, k) /\ \A d \in Docs : j.held[d] = None
    BY <1>4, <2>3, <2>5, <2>8 DEF StoreOn
  <2>13. j \in Job
    BY <2>8
  <2>. QED  BY <1>3, <2>9, <2>10, <2>11, <2>12, <2>13
<1>. QED  BY <1>5, <1>6

LEMMA FlagsKeep ==
    ASSUME data \in Table, NEW nd \in Table, NEW it, FlagsOnly(nd, it), NEW d \in Docs
    PROVE  /\ nd[d] = None <=> data[d] = None
           /\ data[d] # None => nd[d].uid = data[d].uid
<1>1. CASE nd[d] = data[d]
  BY <1>1
<1>2. CASE nd[d] # data[d]
  <2>1. PICK r \in Data : r = data[d] /\ nd[d] = Mutated(r, it)
    BY <1>2, RecordType DEF FlagsOnly
  <2>2. Mutated(r, it) \in Data /\ Mutated(r, it).uid = r.uid
    BY MutatedIs DEF FlagsOnly, Filings
  <2>. QED  BY <2>1, <2>2, NoRecordAssumption
<1>. QED  BY <1>1, <1>2

LEMMA OwnerCommit ==
    ASSUME OwnerInv, NEW a \in Actors, CommitStore(a)
    PROVE  OwnerInv'
<1>1. TypeOK /\ RecordsOwned
  BY DEF OwnerInv
<1>2. PICK j \in Job : job' = [job EXCEPT ![a] = j] /\ JobOK(j, lastUid, owner)
  BY CommitIs
<1>3. lastUid' = lastUid /\ owner' = owner /\ fresh' = fresh /\ drop' = drop /\ ops' = ops
  BY DEF CommitStore
<1>4. CASE data' = data /\ sess' = sess
  <2>1. ops' \in 0..MaxOps
    BY <1>1, <1>3, OpsDown
  <2>. QED  BY <1>2, <1>3, <1>4, <2>1, OwnerJob
<1>5. ASSUME NEW nd \in Table, Write(a, nd), FlagsOnly(nd, Head(job[a].todo))
      PROVE  OwnerInv'
  <2>1. \A d \in Docs : nd[d] # None => Owned(nd[d], d, lastUid, owner)
    <3>. TAKE d \in Docs
    <3>. HAVE nd[d] # None
    <3>1. data[d] # None /\ nd[d].uid = data[d].uid
      BY <1>1, <1>5, FlagsKeep, TypeParts
    <3>. QED  BY <1>1, <3>1 DEF RecordsOwned, Owned
  <2>. QED  BY <1>2, <1>3, <1>5, <2>1, OwnerWrite
<1>. QED  BY <1>4, <1>5, CommitIs

----------------------------------------------------------------------------
(* The end of an operation, and the first results.                             *)

LEMMA InformedOK ==
    ASSUME TypeOK, NEW s \in Imap, NEW j \in Job
    PROVE  SessionOK(Informed(s, j))
<1>1. SessionOK(sess[s]) /\ sess[s].view \in Seq(Uids) /\ sess[s].qresync \in BOOLEAN
  BY TypeParts, SessionParts
<1>2. Heard(sess[s], j) \in Seq(Uids)
  <2>1. Len(j.lines) \in Nat
    BY JobParts
  <2>2. Told(sess[s].view, j.lines) \in Seq(Uids)
    BY <1>1, <2>1, ToldType
  <2>3. Without(sess[s].view, ToSet(j.lines)) \in Seq(Uids)
    BY <1>1, WithoutIs
  <2>. QED  BY <2>2, <2>3 DEF Heard
<1>3. CASE j.cmd = "close"
  BY <1>1, <1>3, UnselectedOK DEF Informed
<1>4. CASE j.cmd # "close"
  <2>1. PICK v \in Seq(Uids) : v = Heard(sess[s], j)
    BY <1>2
  <2>2. Informed(s, j) = [sess[s] EXCEPT !.view = v]
    BY <1>4, <2>1 DEF Informed
  <2>. QED  BY <1>1, <2>2 DEF SessionOK, Session
<1>. QED  BY <1>3, <1>4

LEMMA OwnerFinish ==
    ASSUME OwnerInv, NEW a \in Actors, Finish(a)
    PROVE  OwnerInv'
<1>1. TypeOK /\ RecordsOwned
  BY DEF OwnerInv
<1>2. job[a] \in Job
  BY <1>1, TypeParts DEF Finish, Busy
<1>3. ASSUME NEW s \in Imap PROVE SessionOK(sess'[s]) /\ sess'[s] \in Session
  <2>1. sess'[s] = IF s = a THEN Informed(s, job[a]) ELSE sess[s]
    BY DEF Finish
  <2>2. PICK j \in Job : j = job[a]
    BY <1>2
  <2>3. SessionOK(Informed(s, j)) /\ SessionOK(sess[s])
    BY <1>1, InformedOK, TypeParts
  <2>. QED  BY <2>1, <2>2, <2>3 DEF SessionOK
<1>4. sess' \in [Imap -> Session] /\ \A s \in Imap : SessionOK(sess'[s])
  <2>1. sess' = [s \in Imap |-> sess'[s]]
    BY DEF Finish
  <2>. QED  BY <1>3, <2>1
<1>5. drop' \in Drops
  BY <1>1, TypeParts DEF Finish, Drops
<1>6. job' \in Jobs /\ \A x \in Actors : job'[x] # None => JobOK(job'[x], lastUid, owner)
  <2>1. job \in Jobs /\ job' = [job EXCEPT ![a] = None]
    BY <1>1, TypeParts DEF Finish
  <2>. QED  BY <1>1, <2>1 DEF Jobs, RecordsOwned
<1>7. data' = data /\ lastUid' = lastUid /\ owner' = owner /\ fresh' = fresh /\ ops' = ops
  BY DEF Finish
<1>8. ops' \in 0..MaxOps
  BY <1>1, <1>7, OpsDown
<1>. QED  BY <1>4, <1>5, <1>6, <1>7, <1>8, OwnerKeeps

LEMMA OwnerInit ==
    ASSUME Init
    PROVE  OwnerInv
<1>0. /\ MaxUid \in Nat /\ MaxOps \in Nat /\ Initial \in Seq(Docs) /\ Len(Initial) <= MaxUid
      /\ \A i, j \in 1..Len(Initial) : Initial[i] = Initial[j] => i = j
  BY AccessAssumption
<1>1. Len(Initial) \in Nat /\ \A n \in 1..Len(Initial) : Initial[n] \in Docs
  BY <1>0, LenProperties
<1>. DEFINE at(d) == CHOOSE n \in 1..Len(Initial) : Initial[n] = d
<1>2. \A d \in ToSet(Initial) : at(d) \in 1..Len(Initial) /\ Initial[at(d)] = d
  <2>1. DOMAIN Initial = 1..Len(Initial)
    BY <1>0
  <2>. QED  BY <2>1 DEF ToSet
<1>. HIDE DEF at
<1>3. PICK kw \in {{}, {"Deleted"}} :
        data = [d \in Docs |-> IF d \in ToSet(Initial)
                               THEN [uid |-> [b \in Boxes |-> IF b = Inbox THEN at(d) ELSE 0], kw |-> kw]
                               ELSE None]
  BY DEF Init, at
<1>4. \A d \in ToSet(Initial) : [uid |-> [b \in Boxes |-> IF b = Inbox THEN at(d) ELSE 0], kw |-> kw] \in Data
  <2>1. \A d \in ToSet(Initial) : at(d) \in Uids
    BY <1>0, <1>1, <1>2 DEF Uids
  <2>2. kw \in SUBSET Keywords /\ 0 \in Uids
    BY <1>0 DEF Keywords, Uids
  <2>. QED  BY <2>1, <2>2 DEF Data
<1>5. data \in [Docs -> Data \cup {None}]
  BY <1>3, <1>4
<1>6. lastUid \in [Boxes -> Uids] /\ lastUid[Inbox] = Len(Initial)
  BY <1>0, <1>1 DEF Init, Uids, Boxes
<1>7. owner \in [Boxes -> [1..MaxUid -> Docs \cup {None}]]
  <2>1. \A u \in 1..MaxUid : u <= Len(Initial) => Initial[u] \in Docs
    BY <1>0, <1>1
  <2>. QED  BY <2>1 DEF Init
<1>8. sess \in [Imap -> Session] /\ \A s \in Imap : sess[s] = Unselected
  BY UnselectedOK DEF Init, SessionOK
<1>9. TypeOK
  <2>1. \A s \in Imap : sess[s].state = "selected" <=> sess[s].box # None
    BY <1>8, UnselectedOK DEF SessionOK
  <2>2. job \in [Actors -> Job \cup {None}] /\ drop \in [Pop3 -> Seq(Entry) \cup {None}] /\ fresh \subseteq Docs
    BY DEF Init
  <2>3. ops \in 0..MaxOps
    BY <1>0 DEF Init
  <2>. QED  BY <1>5, <1>6, <1>7, <1>8, <2>1, <2>2, <2>3 DEF TypeOK
<1>10. ASSUME NEW d \in Docs, data[d] # None PROVE Owned(data[d], d, lastUid, owner)
  <2>1. d \in ToSet(Initial) /\ data[d].uid = [b \in Boxes |-> IF b = Inbox THEN at(d) ELSE 0]
    BY <1>3, <1>10
  <2>. SUFFICES ASSUME NEW b \in Boxes, data[d].uid[b] # 0
                PROVE  data[d].uid[b] <= lastUid[b] /\ owner[b][data[d].uid[b]] = d
    BY DEF Owned
  <2>2. b = Inbox /\ data[d].uid[b] = at(d)
    BY <2>1
  <2>3. at(d) \in 1..Len(Initial) /\ Initial[at(d)] = d
    BY <1>2, <2>1
  <2>4. at(d) \in 1..MaxUid /\ at(d) <= Len(Initial)
    BY <1>0, <1>1, <2>3
  <2>5. owner[b][at(d)] = Initial[at(d)]
    BY <2>2, <2>4 DEF Init
  <2>. QED  BY <1>6, <2>2, <2>3, <2>4, <2>5
<1>11. RecordsOwned
  BY <1>10 DEF RecordsOwned, Init
<1>. QED  BY <1>9, <1>11 DEF OwnerInv

(* The steps of the specification, by what they do to the operations.          *)
Insert(a, cmd, d, boxes, kw) ==
    ~Busy(a) /\ (a \in Imap => cmd = "append" /\ ~sess[a].idle) /\ StartInsert(a, cmd, d, boxes, kw)

LEMMA NextCases ==
    ASSUME TypeOK, Next
    PROVE  \/ \E a \in Actors, cmd \in Inserts, d \in fresh, boxes \in SUBSET Boxes, kw \in SUBSET Keywords :
                Insert(a, cmd, d, boxes, kw)
           \/ \E s \in Imap, b \in Boxes, examine \in BOOLEAN : Select(s, b, examine)
           \/ \E s \in Imap : SessionStep(s) \/ Starts(s)
           \/ \E p \in Pop3 : DropStep(p) \/ Opens(p)
           \/ \E c \in Jmap : Opens(c)
           \/ \E a \in Actors : LoadRecord(a) \/ WriteRecord(a) \/ LoadForStore(a) \/ CommitStore(a) \/ Finish(a)
           \/ Restart
<1>1. ASSUME NEW m \in Mtas, Deliver(m)
      PROVE  \E a \in Actors, cmd \in Inserts, d \in fresh, boxes \in SUBSET Boxes, kw \in SUBSET Keywords :
                Insert(a, cmd, d, boxes, kw)
  <2>1. m \in Actors /\ m \notin Imap /\ "deliver" \in Inserts /\ {} \in SUBSET Keywords
    BY AccessAssumption DEF Actors, Inserts
  <2>2. PICK d \in fresh, boxes \in {{Inbox}, Boxes} : StartInsert(m, "deliver", d, boxes, {})
    BY <1>1 DEF Deliver
  <2>3. boxes \in SUBSET Boxes
    BY DEF Boxes
  <2>4. Insert(m, "deliver", d, boxes, {})
    BY <1>1, <2>1, <2>2 DEF Insert, Deliver
  <2>. QED  BY <2>1, <2>3, <2>4
<1>2. ASSUME NEW s \in Imap, Append1(s)
      PROVE  \E a \in Actors, cmd \in Inserts, d \in fresh, boxes \in SUBSET Boxes, kw \in SUBSET Keywords :
                Insert(a, cmd, d, boxes, kw)
  <2>1. s \in Actors /\ "append" \in Inserts
    BY DEF Actors, Inserts
  <2>2. PICK d \in fresh, b \in Boxes, kw \in {{}, {"Deleted"}} : StartInsert(s, "append", d, {b}, kw)
    BY <1>2 DEF Append1
  <2>3. {b} \in SUBSET Boxes /\ kw \in SUBSET Keywords
    BY DEF Keywords
  <2>4. Insert(s, "append", d, {b}, kw)
    BY <1>2, <2>2 DEF Insert, Append1
  <2>. QED  BY <2>1, <2>3, <2>4
<1>3. ASSUME NEW s \in Imap, ImapNext(s), ~Append1(s)
      PROVE  \/ \E b \in Boxes, examine \in BOOLEAN : Select(s, b, examine)
             \/ SessionStep(s) \/ Starts(s)
  <2>1. ASSUME NEW set \in Ranges, NEW uidMode \in BOOLEAN,
               \/ Fetch(s, set, uidMode)
               \/ \E act \in {"plus", "minus", "replace"} : Store(s, set, uidMode, act)
               \/ \E target \in Boxes, moving \in BOOLEAN : Copy(s, set, uidMode, target, moving)
        PROVE  Starts(s)
    BY <2>1, FetchStarts, StoreStarts, CopyStarts
  <2>2. ASSUME NEW uids \in Ranges, Expunge(s, uids) PROVE Starts(s)
    BY <2>2, ExpungeStarts DEF Expunge
  <2>3. ASSUME Close(s) PROVE Starts(s)
    BY <2>3, ExpungeStarts DEF Close
  <2>. QED  BY <1>3, <2>1, <2>2, <2>3 DEF ImapNext, SessionStep
<1>4. ASSUME NEW p \in Pop3, Pop3Next(p) PROVE DropStep(p) \/ Opens(p)
  BY <1>4, QuitOpens DEF Pop3Next, DropStep
<1>5. ASSUME NEW c \in Jmap, EmailSet(c) PROVE Opens(c)
  BY <1>5, EmailSetOpens
<1>. QED  BY <1>1, <1>2, <1>3, <1>4, <1>5 DEF Next

LEMMA OwnerNext ==
    ASSUME OwnerInv, [Next]_vars
    PROVE  OwnerInv'
<1>1. TypeOK
  BY DEF OwnerInv
<1>2. CASE Next
  <2>1. ASSUME NEW a \in Actors, NEW cmd \in Inserts, NEW d \in fresh, NEW boxes \in SUBSET Boxes,
               NEW kw \in SUBSET Keywords, Insert(a, cmd, d, boxes, kw)
        PROVE  OwnerInv'
    BY <2>1, OwnerInsert DEF Insert
  <2>2. ASSUME NEW s \in Imap, SessionStep(s) \/ Starts(s) \/ \E b \in Boxes, examine \in BOOLEAN : Select(s, b, examine)
        PROVE  OwnerInv'
    BY <2>2, OwnerSessionStep, OwnerStarts, OwnerSelect
  <2>3. ASSUME NEW p \in Pop3, DropStep(p) \/ Opens(p) PROVE OwnerInv'
    BY <2>3, OwnerDropStep, OwnerOpens DEF Actors
  <2>4. ASSUME NEW c \in Jmap, Opens(c) PROVE OwnerInv'
    BY <2>4, OwnerOpens DEF Actors
  <2>5. ASSUME NEW a \in Actors, LoadRecord(a) \/ WriteRecord(a) \/ LoadForStore(a) \/ CommitStore(a) \/ Finish(a)
        PROVE  OwnerInv'
    BY <2>5, OwnerLoad, OwnerWriteRecord, OwnerLoadForStore, OwnerCommit, OwnerFinish
  <2>6. ASSUME Restart PROVE OwnerInv'
    BY <2>6, OwnerRestart
  <2>. QED  BY <1>1, <1>2, <2>1, <2>2, <2>3, <2>4, <2>5, <2>6, NextCases
<1>3. CASE UNCHANGED vars
  BY <1>3 DEF vars, OwnerInv, TypeOK, RecordsOwned
<1>. QED  BY <1>2, <1>3

----------------------------------------------------------------------------
(* A message under way into the store is seen by nobody else.                  *)

(* Nothing appears to actor a that it did not hold.                            *)
NoneAppears(a, j, nd) ==
    \A d \in Docs : data[d] = None /\ (job[a] # None => job[a].held[d] = None)
                      => nd[d] = None /\ (j # None => j.held[d] = None)

LEMMA ApartStep ==
    ASSUME OwnerInv, InsertsApart, NEW a \in Actors, NEW j, job' = [job EXCEPT ![a] = j],
           NEW nd, data' = nd, fresh' \subseteq fresh, j # None => ~Inserting(j), NoneAppears(a, j, nd)
    PROVE  InsertsApart'
<1>1. TypeOK
  BY DEF OwnerInv
<1>2. job \in Jobs /\ fresh \subseteq Docs
  BY <1>1, TypeParts
<1>3. job'[a] = j /\ \A x \in Actors \ {a} : job'[x] = job[x]
  BY <1>2 DEF Jobs
<1>4. ASSUME NEW d \in fresh'
      PROVE  data'[d] = None /\ \A x \in Actors : job'[x] # None => job'[x].held[d] = None
  <2>1. d \in fresh /\ d \in Docs
    BY <1>2, <1>4
  <2>2. data[d] = None /\ \A x \in Actors : job[x] # None => job[x].held[d] = None
    BY <2>1 DEF InsertsApart
  <2>3. data'[d] = None /\ (j # None => j.held[d] = None)
    BY <2>1, <2>2 DEF NoneAppears
  <2>. QED  BY <1>3, <2>2, <2>3
<1>5. ASSUME NEW c \in Actors, job'[c] # None, Inserting(job'[c])
      PROVE  LET d == Head(job'[c].todo).doc
             IN  /\ data'[d] = None
                 /\ \A x \in Actors \ {c} : job'[x] # None => job'[x].held[d] = None
  <2>1. c # a /\ job'[c] = job[c] /\ job[c] # None /\ Inserting(job[c])
    BY <1>3, <1>5
  <2>2. PICK d : d = Head(job[c].todo).doc
    OBVIOUS
  <2>3. d \in Docs
    <3>1. PICK k \in Job : k = job[c]
      BY <1>1, <2>1, TypeParts
    <3>2. k.todo # <<>>
      BY <2>1, <3>1 DEF Inserting
    <3>. QED  BY <2>2, <3>1, <3>2, JobParts
  <2>4. data[d] = None /\ \A x \in Actors \ {c} : job[x] # None => job[x].held[d] = None
    BY <2>1, <2>2 DEF InsertsApart
  <2>5. data'[d] = None /\ (j # None => j.held[d] = None)
    BY <2>1, <2>3, <2>4 DEF NoneAppears
  <2>. QED  BY <1>3, <2>1, <2>2, <2>4, <2>5
<1>. QED  BY <1>4, <1>5 DEF InsertsApart

(* What an inserting operation holds is not on offer any more.                 *)
LEMMA InsertingHolds ==
    ASSUME OwnerInv, InsertsApart, NEW c \in Actors, job[c] # None, Inserting(job[c])
    PROVE  /\ Head(job[c].todo).doc \in Docs /\ job[c].held[Head(job[c].todo).doc] # None
           /\ Head(job[c].todo).doc \notin fresh
           /\ \A d \in Docs : d # Head(job[c].todo).doc => job[c].held[d] = None
<1>1. TypeOK /\ RecordsOwned
  BY DEF OwnerInv
<1>2. PICK k \in Job : k = job[c]
  BY <1>1, TypeParts
<1>3. k.todo # <<>> /\ k.cmd \in Inserts /\ JobOK(k, lastUid, owner)
  BY <1>1, <1>2 DEF Inserting, RecordsOwned
<1>4. k.loaded /\ HoldsHead(k, lastUid, owner)
  BY <1>3 DEF JobOK, Inserts
<1>5. Head(k.todo).doc \in Docs
  BY <1>3, JobParts
<1>6. k.held[Head(k.todo).doc] # None /\ \A d \in Docs : d # Head(k.todo).doc => k.held[d] = None
  BY <1>4 DEF HoldsHead
<1>7. \A d \in fresh : job[c].held[d] = None
  BY DEF InsertsApart
<1>. QED  BY <1>2, <1>5, <1>6, <1>7

LEMMA ApartInsert ==
    ASSUME OwnerInv, InsertsApart, NEW a \in Actors, NEW cmd \in Inserts, NEW d \in fresh,
           NEW boxes \in SUBSET Boxes, NEW kw \in SUBSET Keywords, Insert(a, cmd, d, boxes, kw)
    PROVE  InsertsApart'
<1>1. TypeOK
  BY DEF OwnerInv
<1>2. job \in Jobs /\ fresh \subseteq Docs /\ d \in Docs
  BY <1>1, TypeParts
<1>3. StartInsert(a, cmd, d, boxes, kw) /\ job[a] = None
  BY DEF Insert, Busy
<1>4. PICK r \in Data : job' = [job EXCEPT ![a] = InsertJob(cmd, d, r)]
  BY <1>3, InsertIs
<1>5. PICK j : j = InsertJob(cmd, d, r)
  OBVIOUS
<1>6. /\ Head(j.todo) = OneItem(d, "insert", None, None) /\ \A x \in Docs \ {d} : j.held[x] = None
  BY <1>2, <1>5, InsertJobIs
<1>7. Head(j.todo).doc = d
  BY <1>6 DEF OneItem
<1>8. data' = data /\ fresh' = fresh \ {d}
  BY <1>3 DEF StartInsert
<1>9. job'[a] = j /\ \A x \in Actors \ {a} : job'[x] = job[x]
  BY <1>2, <1>4, <1>5 DEF Jobs
<1>10. data[d] = None /\ \A x \in Actors : job[x] # None => job[x].held[d] = None
  BY DEF InsertsApart
<1>11. ASSUME NEW e \in fresh'
       PROVE  data'[e] = None /\ \A x \in Actors : job'[x] # None => job'[x].held[e] = None
  <2>1. e \in fresh /\ e # d /\ e \in Docs
    BY <1>2, <1>8
  <2>2. data[e] = None /\ \A x \in Actors : job[x] # None => job[x].held[e] = None
    BY <2>1 DEF InsertsApart
  <2>. QED  BY <1>6, <1>8, <1>9, <2>1, <2>2
<1>12. ASSUME NEW c \in Actors, job'[c] # None, Inserting(job'[c])
       PROVE  LET e == Head(job'[c].todo).doc
              IN  /\ data'[e] = None
                  /\ \A x \in Actors \ {c} : job'[x] # None => job'[x].held[e] = None
  <2>1. CASE c = a
    BY <1>7, <1>8, <1>9, <1>10, <2>1
  <2>2. CASE c # a
    <3>1. job'[c] = job[c] /\ job[c] # None /\ Inserting(job[c])
      BY <1>9, <1>12, <2>2
    <3>2. PICK e : e = Head(job[c].todo).doc
      OBVIOUS
    <3>3. e \in Docs /\ e # d
      BY <3>1, <3>2, InsertingHolds
    <3>4. data[e] = None /\ \A x \in Actors \ {c} : job[x] # None => job[x].held[e] = None
      BY <3>1, <3>2 DEF InsertsApart
    <3>. QED  BY <1>6, <1>8, <1>9, <3>1, <3>2, <3>3, <3>4
  <2>. QED  BY <2>1, <2>2
<1>. QED  BY <1>11, <1>12 DEF InsertsApart

LEMMA ApartOperation ==
    ASSUME OwnerInv, InsertsApart, NEW a \in Actors,
           LoadRecord(a) \/ WriteRecord(a) \/ LoadForStore(a) \/ CommitStore(a) \/ Finish(a)
    PROVE  InsertsApart'
<1>1. TypeOK /\ data \in Table
  BY TypeParts DEF OwnerInv
<1>2. CASE LoadRecord(a)
  <2>1. Busy(a) /\ job[a].cmd # "store" /\ job[a].todo # <<>> /\ ~job[a].loaded /\ data' = data /\ fresh' = fresh
    BY <1>2 DEF LoadRecord
  <2>2. PICK k \in Job : k = job[a] /\ k.cmd \notin Inserts /\ k.todo # <<>> /\ \A d \in Docs : k.held[d] = None
    BY <2>1, NothingLoaded
  <2>3. PICK e \in Docs : e = Head(k.todo).doc
    BY <2>2, JobParts
  <2>4. PICK r \in Data \cup {None} : r = data[e]
    BY <1>1 DEF Table
  <2>5. PICK u \in Uids : job' = [job EXCEPT ![a] = LoadedJob(job[a], data[Head(job[a].todo).doc], u)]
    BY <1>2, LoadIs
  <2>6. PICK j : j = LoadedJob(k, r, u)
    OBVIOUS
  <2>7. j.cmd = k.cmd /\ j.held[Head(k.todo).doc] = r /\ \A d \in Docs : d # Head(k.todo).doc => j.held[d] = None
    <3>1. k.todo # <<>> /\ \A d \in Docs : k.held[d] = None
      BY <2>2
    <3>2. Loads(LoadedJob(k, r, u), k, r, u)
      BY <3>1, LoadedJobIs
    <3>. QED  BY <2>6, <3>2 DEF Loads
  <2>8. job' = [job EXCEPT ![a] = j]
    BY <2>2, <2>3, <2>4, <2>5, <2>6
  <2>9. ~Inserting(j)
    BY <2>2, <2>7 DEF Inserting
  <2>10. NoneAppears(a, j, data)
    BY <2>3, <2>4, <2>7 DEF NoneAppears
  <2>. QED  BY <2>1, <2>8, <2>9, <2>10, ApartStep
<1>3. CASE WriteRecord(a)
  <2>1. PICK k \in Job, it \in Item, r \in Data :
             /\ k = job[a] /\ k.todo # <<>> /\ k.cmd # "store" /\ it = Head(k.todo)
             /\ it.doc \in Docs /\ r = k.held[it.doc] /\ JobOK(k, lastUid, owner)
             /\ Write(a, [data EXCEPT ![it.doc] = Mutated(r, it)])
             /\ job' = [job EXCEPT ![a] = WrittenJob(k)]
    BY <1>3, WriteIs
  <2>2. PICK j : j = WrittenJob(k)
    OBVIOUS
  <2>3. ~j.loaded /\ \A d \in Docs : j.held[d] = None
    BY <2>1, <2>2, WrittenJobIs
  <2>4. JobOK(j, lastUid, owner)
    BY <2>1, <2>2, WrittenJobOK
  <2>5. ~Inserting(j)
    BY <2>3, <2>4 DEF JobOK, Inserting
  <2>6. data' = [data EXCEPT ![it.doc] = Mutated(r, it)]
    BY <2>1 DEF Write
  <2>7. ASSUME NEW d \in Docs, data[d] = None, job[a] # None => job[a].held[d] = None
        PROVE  data'[d] = None
    <3>1. job[a] # None /\ r # None
      BY <1>3, NoRecordAssumption DEF WriteRecord, Busy
    <3>2. d # it.doc
      BY <2>1, <2>7, <3>1
    <3>. QED  BY <1>1, <2>6, <2>7, <3>2 DEF Table
  <2>8. job' = [job EXCEPT ![a] = j] /\ fresh' = fresh
    BY <1>3, <2>1, <2>2 DEF WriteRecord
  <2>9. PICK nd : nd = data'
    OBVIOUS
  <2>10. NoneAppears(a, j, nd)
    BY <2>3, <2>7, <2>9 DEF NoneAppears
  <2>. QED  BY <2>5, <2>8, <2>9, <2>10, ApartStep
<1>4. CASE LoadForStore(a)
  <2>1. PICK j \in Job : /\ job' = [job EXCEPT ![a] = j] /\ StoreOn(j, job[a])
                         /\ \A d \in Docs : j.held[d] = data[d] \/ j.held[d] = None
    BY <1>4, LoadForStoreIs
  <2>2. ~Inserting(j)
    BY <2>1 DEF StoreOn, Inserting, Inserts
  <2>3. data' = data /\ fresh' = fresh
    BY <1>4 DEF LoadForStore
  <2>4. NoneAppears(a, j, data)
    BY <2>1 DEF NoneAppears
  <2>. QED  BY <2>1, <2>2, <2>3, <2>4, ApartStep
<1>5. CASE CommitStore(a)
  <2>1. PICK j \in Job : /\ job' = [job EXCEPT ![a] = j] /\ StoreOn(j, job[a])
                         /\ \A d \in Docs : j.held[d] = job[a].held[d] \/ j.held[d] = None
    BY <1>5, CommitIs
  <2>2. ~Inserting(j)
    BY <2>1 DEF StoreOn, Inserting, Inserts
  <2>3. fresh' = fresh /\ job[a] # None
    BY <1>5 DEF CommitStore, Busy
  <2>4. \A d \in Docs : data[d] = None => data'[d] = None
    <3>1. CASE data' = data
      BY <3>1
    <3>2. ASSUME NEW nd \in Table, Write(a, nd), FlagsOnly(nd, Head(job[a].todo))
          PROVE  \A d \in Docs : data[d] = None => data'[d] = None
      BY <3>2 DEF Write, FlagsOnly
    <3>. QED  BY <1>5, <3>1, <3>2, CommitIs
  <2>5. PICK nd : nd = data'
    OBVIOUS
  <2>6. NoneAppears(a, j, nd)
    BY <2>1, <2>3, <2>4, <2>5 DEF NoneAppears
  <2>. QED  BY <2>1, <2>2, <2>3, <2>5, <2>6, ApartStep
<1>6. CASE Finish(a)
  <2>1. PICK j : j = None
    OBVIOUS
  <2>2. job' = [job EXCEPT ![a] = j] /\ data' = data /\ fresh' = fresh
    BY <1>6, <2>1 DEF Finish
  <2>3. NoneAppears(a, j, data)
    BY <2>1 DEF NoneAppears
  <2>. QED  BY <2>1, <2>2, <2>3, ApartStep
<1>. QED  BY <1>2, <1>3, <1>4, <1>5, <1>6

LEMMA ApartNext ==
    ASSUME OwnerInv, InsertsApart, [Next]_vars
    PROVE  InsertsApart'
<1>1. TypeOK
  BY DEF OwnerInv
<1>2. ASSUME data' = data, job' = job, fresh' = fresh PROVE InsertsApart'
  BY <1>2 DEF InsertsApart
<1>3. CASE Next
  <2>1. ASSUME NEW a \in Actors, NEW cmd \in Inserts, NEW d \in fresh, NEW boxes \in SUBSET Boxes,
               NEW kw \in SUBSET Keywords, Insert(a, cmd, d, boxes, kw)
        PROVE  InsertsApart'
    BY <2>1, ApartInsert
  <2>2. ASSUME NEW s \in Imap, SessionStep(s) \/ \E b \in Boxes, examine \in BOOLEAN : Select(s, b, examine)
        PROVE  InsertsApart'
    <3>1. data' = data /\ job' = job /\ fresh' = fresh
      BY <1>1, <2>2, SessionStepIs DEF Select
    <3>. QED  BY <1>2, <3>1
  <2>3. ASSUME NEW s \in Imap, Starts(s) PROVE InsertsApart'
    <3>1. PICK j : Begun(s, j) /\ job' = [job EXCEPT ![s] = j]
      BY <2>3 DEF Starts
    <3>2. s \in Actors /\ ~Inserting(j) /\ (\A d \in Docs : j.held[d] = None)
      BY <3>1 DEF Actors, Begun, Inserting
    <3>3. data' = data /\ fresh' = fresh
      BY <2>3 DEF Starts
    <3>4. NoneAppears(s, j, data)
      BY <3>2 DEF NoneAppears
    <3>. QED  BY <3>1, <3>2, <3>3, <3>4, ApartStep
  <2>4. ASSUME NEW a \in Actors, Opens(a) PROVE InsertsApart'
    <3>1. PICK j \in Job : job' = [job EXCEPT ![a] = j] /\ j.cmd \notin Inserts /\ \A d \in Docs : j.held[d] = None
      BY <2>4 DEF Opens
    <3>2. ~Inserting(j)
      BY <3>1 DEF Inserting
    <3>3. data' = data /\ fresh' = fresh
      BY <2>4 DEF Opens
    <3>4. NoneAppears(a, j, data)
      BY <3>1 DEF NoneAppears
    <3>. QED  BY <3>1, <3>2, <3>3, <3>4, ApartStep
  <2>5. ASSUME NEW p \in Pop3, DropStep(p) PROVE InsertsApart'
    <3>1. data' = data /\ job' = job /\ fresh' = fresh
      BY <1>1, <2>5, DropStepIs
    <3>. QED  BY <1>2, <3>1
  <2>6. ASSUME NEW a \in Actors, LoadRecord(a) \/ WriteRecord(a) \/ LoadForStore(a) \/ CommitStore(a) \/ Finish(a)
        PROVE  InsertsApart'
    BY <2>6, ApartOperation
  <2>7. ASSUME Restart PROVE InsertsApart'
    BY <2>7 DEF Restart, InsertsApart
  <2>8. Pop3 \subseteq Actors /\ Jmap \subseteq Actors
    BY DEF Actors
  <2>. QED  BY <1>1, <1>3, <2>1, <2>2, <2>3, <2>4, <2>5, <2>6, <2>7, <2>8, NextCases
<1>4. CASE UNCHANGED vars
  BY <1>2, <1>4 DEF vars
<1>. QED  BY <1>3, <1>4

----------------------------------------------------------------------------
(* A session's command stays what it was when it began.                        *)

(* The items of j are items of k.                                              *)
ItemsOf(j, k) ==
    /\ j.cmd = k.cmd
    /\ \A n \in 1..Len(j.todo) : \E m \in 1..Len(k.todo) : SameItem(j.todo[n], k.todo[m])

SamePlace(x, y) == x.state = y.state /\ x.box = y.box /\ x.readOnly = y.readOnly

LEMMA SessionJobOf ==
    ASSUME NEW j, NEW k, NEW z, NEW z2, SessionJob(k, z), ItemsOf(j, k), SamePlace(z2, z)
    PROVE  SessionJob(j, z2)
<1>1. j.cmd = k.cmd /\ z2.state = z.state /\ z2.box = z.box /\ z2.readOnly = z.readOnly
  BY DEF ItemsOf, SamePlace
<1>2. ASSUME z.state = "selected", NEW n \in 1..Len(j.todo)
      PROVE  DoesTo(j.todo[n], j.cmd, z.box)
  <2>1. PICK m \in 1..Len(k.todo) : SameItem(j.todo[n], k.todo[m])
    BY DEF ItemsOf
  <2>2. DoesTo(k.todo[m], k.cmd, z.box)
    BY <1>2 DEF SessionJob
  <2>. QED  BY <1>1, <2>1, <2>2 DEF DoesTo, SameItem
<1>. QED  BY <1>1, <1>2 DEF SessionJob

LEMMA ItemsOfSame ==
    ASSUME NEW j, NEW k, j.cmd = k.cmd, j.todo = k.todo
    PROVE  ItemsOf(j, k)
BY DEF ItemsOf, SameItem

LEMMA ItemsOfNone ==
    ASSUME NEW j, NEW k, j.cmd = k.cmd, j.todo = <<>>
    PROVE  ItemsOf(j, k)
<1>1. Len(<<>>) = 0
  OBVIOUS
<1>. QED  BY <1>1 DEF ItemsOf

LEMMA ItemsOfTail ==
    ASSUME NEW j, NEW k \in Job, k.todo # <<>>, j.cmd = k.cmd, j.todo = Tail(k.todo)
    PROVE  ItemsOf(j, k)
<1>1. /\ Len(k.todo) \in Nat /\ Len(j.todo) = Len(k.todo) - 1
      /\ \A n \in 1..(Len(k.todo) - 1) : j.todo[n] = k.todo[n + 1]
  BY JobParts
<1>2. \A n \in 1..(Len(k.todo) - 1) : n + 1 \in 1..Len(k.todo)
  BY <1>1
<1>. QED  BY <1>1, <1>2 DEF ItemsOf, SameItem

(* Steps of an operation under way.                                            *)
WorkOn(a) == LoadRecord(a) \/ WriteRecord(a) \/ LoadForStore(a) \/ CommitStore(a)

LEMMA WorkOnIs ==
    ASSUME OwnerInv, NEW a \in Actors, WorkOn(a)
    PROVE  /\ job[a] # None /\ job[a] \in Job
           /\ \E j \in Job : job' = [job EXCEPT ![a] = j] /\ j # None /\ ItemsOf(j, job[a]) /\ j.lines = job[a].lines
           /\ sess' \in [Imap -> Session] /\ \A s \in Imap : SameSession(sess'[s], sess[s])
<1>1. TypeOK /\ data \in Table /\ sess \in [Imap -> Session]
  BY TypeParts DEF OwnerInv
<1>2. job[a] # None /\ job[a] \in Job
  BY <1>1, TypeParts DEF WorkOn, LoadRecord, WriteRecord, LoadForStore, CommitStore, Busy
<1>3. ASSUME sess' = sess
      PROVE  sess' \in [Imap -> Session] /\ \A s \in Imap : SameSession(sess'[s], sess[s])
  BY <1>1, <1>3 DEF SameSession
<1>4. PICK k \in Job : k = job[a]
  BY <1>2
<1>5. \A j \in Job : j # None
  BY NoRecordAssumption
<1>6. CASE LoadRecord(a)
  <2>1. Busy(a) /\ job[a].cmd # "store" /\ job[a].todo # <<>> /\ ~job[a].loaded /\ sess' = sess
    BY <1>6 DEF LoadRecord
  <2>2. k.todo # <<>> /\ \A d \in Docs : k.held[d] = None
    BY <1>4, <2>1, NothingLoaded
  <2>3. PICK e \in Docs : e = Head(k.todo).doc
    BY <2>2, JobParts
  <2>4. PICK r \in Data \cup {None} : r = data[e]
    BY <1>1 DEF Table
  <2>5. PICK u \in Uids : job' = [job EXCEPT ![a] = LoadedJob(job[a], data[Head(job[a].todo).doc], u)]
    BY <1>6, LoadIs
  <2>6. PICK j : j = LoadedJob(k, r, u)
    OBVIOUS
  <2>7. Loads(LoadedJob(k, r, u), k, r, u)
    BY <2>2, LoadedJobIs
  <2>8. /\ j \in Job /\ j.cmd = k.cmd /\ j.lines = k.lines
        /\ r = None => j.todo = Tail(k.todo)
        /\ r # None => Len(j.todo) = Len(k.todo) /\ \A n \in 1..Len(k.todo) : SameItem(j.todo[n], k.todo[n])
    BY <2>6, <2>7 DEF Loads
  <2>9. ItemsOf(j, k)
    <3>1. CASE r = None
      BY <2>2, <2>8, <3>1, ItemsOfTail
    <3>2. CASE r # None
      BY <2>8, <3>2 DEF ItemsOf
    <3>. QED  BY <3>1, <3>2
  <2>10. job' = [job EXCEPT ![a] = j]
    BY <1>4, <2>3, <2>4, <2>5, <2>6
  <2>. QED  BY <1>2, <1>3, <1>4, <1>5, <2>1, <2>8, <2>9, <2>10
<1>7. CASE WriteRecord(a)
  <2>1. PICK nd : Write(a, nd)
    BY <1>7 DEF WriteRecord
  <2>2. k.todo # <<>> /\ job' = [job EXCEPT ![a] = WrittenJob(k)]
    BY <1>4, <1>7, WriteIs
  <2>3. PICK j : j = WrittenJob(k)
    OBVIOUS
  <2>4. j \in Job /\ j.cmd = k.cmd /\ j.lines = k.lines /\ j.todo = Tail(k.todo)
    BY <2>2, <2>3, WrittenJobIs
  <2>5. ItemsOf(j, k)
    BY <2>2, <2>4, ItemsOfTail
  <2>6. sess' \in [Imap -> Session] /\ \A s \in Imap : SameSession(sess'[s], sess[s])
    BY <1>1, <2>1, WriteSessions
  <2>. QED  BY <1>2, <1>4, <1>5, <2>2, <2>3, <2>4, <2>5, <2>6
<1>8. CASE LoadForStore(a)
  <2>1. PICK j \in Job : job' = [job EXCEPT ![a] = j] /\ StoreOn(j, k)
    BY <1>4, <1>8, LoadForStoreIs
  <2>2. ItemsOf(j, k) /\ j.lines = k.lines
    BY <2>1, ItemsOfSame, ItemsOfNone DEF StoreOn
  <2>3. sess' = sess
    BY <1>8 DEF LoadForStore
  <2>. QED  BY <1>2, <1>3, <1>4, <1>5, <2>1, <2>2, <2>3
<1>9. CASE CommitStore(a)
  <2>1. PICK j \in Job : job' = [job EXCEPT ![a] = j] /\ StoreOn(j, k)
    BY <1>4, <1>9, CommitIs
  <2>2. ItemsOf(j, k) /\ j.lines = k.lines
    BY <2>1, ItemsOfSame, ItemsOfNone DEF StoreOn
  <2>3. sess' \in [Imap -> Session] /\ \A s \in Imap : SameSession(sess'[s], sess[s])
    <3>1. CASE sess' = sess
      BY <1>3, <3>1
    <3>2. ASSUME NEW nd \in Table, Write(a, nd)
          PROVE  sess' \in [Imap -> Session] /\ \A s \in Imap : SameSession(sess'[s], sess[s])
      BY <1>1, <3>2, WriteSessions
    <3>. QED  BY <1>9, <3>1, <3>2, CommitIs
  <2>. QED  BY <1>2, <1>4, <1>5, <2>1, <2>2, <2>3
<1>. QED  BY <1>6, <1>7, <1>8, <1>9 DEF WorkOn

LEMMA SessionKeeps ==
    ASSUME TypeOK, SessionJobs, NEW s \in Imap, SessionStep(s), job[s] # None
    PROVE  FALSE
<1>1. ~sess[s].idle
  BY DEF SessionJobs
<1>. QED  BY <1>1 DEF SessionStep, Noop, Enable, Idle, IdleNotice, IdleDone, Unselect, Ready, Selected, Logout, Busy

LEMMA JobsNext ==
    ASSUME OwnerInv, SessionJobs, [Next]_vars
    PROVE  SessionJobs'
<1>1. TypeOK
  BY DEF OwnerInv
<1>2. job \in Jobs /\ sess \in [Imap -> Session] /\ Imap \subseteq Actors
  BY <1>1, TypeParts DEF Actors
<1>3. CASE Next
  <2>1. ASSUME NEW a \in Actors, NEW cmd \in Inserts, NEW d \in fresh, NEW boxes \in SUBSET Boxes,
               NEW kw \in SUBSET Keywords, Insert(a, cmd, d, boxes, kw)
        PROVE  SessionJobs'
    <3>1. StartInsert(a, cmd, d, boxes, kw) /\ (a \in Imap => cmd = "append" /\ ~sess[a].idle)
      BY <2>1 DEF Insert
    <3>2. PICK r \in Data : job' = [job EXCEPT ![a] = InsertJob(cmd, d, r)]
      BY <3>1, InsertIs
    <3>3. PICK j : j = InsertJob(cmd, d, r)
      OBVIOUS
    <3>4. d \in Docs /\ sess' = sess
      BY <1>1, <3>1, TypeParts DEF StartInsert
    <3>5. j.cmd = cmd
      BY <3>3, <3>4, InsertJobIs
    <3>6. a \in Imap => SessionJob(j, sess[a]) /\ ~sess[a].idle
      BY <3>1, <3>5 DEF SessionJob, ImapCommands, DoesTo
    <3>. QED  BY <1>2, <3>2, <3>3, <3>4, <3>6 DEF SessionJobs, Jobs
  <2>2. ASSUME NEW s \in Imap, SessionStep(s) PROVE SessionJobs'
    <3>1. job[s] = None
      BY <1>1, <2>2, SessionKeeps
    <3>2. job' = job /\ \E z : sess' = [sess EXCEPT ![s] = z]
      BY <1>1, <2>2, SessionStepIs
    <3>. QED  BY <1>2, <3>1, <3>2 DEF SessionJobs
  <2>3. ASSUME NEW s \in Imap, NEW b \in Boxes, NEW examine \in BOOLEAN, Select(s, b, examine) PROVE SessionJobs'
    <3>1. job[s] = None /\ job' = job /\ \A x \in Imap \ {s} : sess'[x] = sess[x]
      BY <1>2, <2>3 DEF Select, Busy
    <3>. QED  BY <3>1 DEF SessionJobs
  <2>4. ASSUME NEW s \in Imap, Starts(s) PROVE SessionJobs'
    <3>1. PICK j : Begun(s, j) /\ job' = [job EXCEPT ![s] = j]
      BY <2>4 DEF Starts
    <3>2. SessionJob(j, sess[s]) /\ ~sess[s].idle /\ sess' = sess
      BY <2>4, <3>1 DEF Begun, Starts
    <3>3. job'[s] = j /\ \A x \in Imap \ {s} : job'[x] = job[x]
      BY <1>2, <3>1 DEF Jobs
    <3>. QED  BY <3>2, <3>3 DEF SessionJobs
  <2>5. ASSUME NEW a \in Actors, a \notin Imap, Opens(a) PROVE SessionJobs'
    <3>1. sess' = sess /\ \A x \in Imap : job'[x] = job[x]
      BY <1>2, <2>5 DEF Opens, Jobs
    <3>. QED  BY <3>1 DEF SessionJobs
  <2>6. ASSUME NEW p \in Pop3, DropStep(p) PROVE SessionJobs'
    <3>1. sess' = sess /\ job' = job
      BY <1>1, <2>6, DropStepIs
    <3>. QED  BY <3>1 DEF SessionJobs
  <2>7. ASSUME NEW a \in Actors, WorkOn(a) PROVE SessionJobs'
    <3>1. PICK j \in Job : job' = [job EXCEPT ![a] = j] /\ ItemsOf(j, job[a])
      BY <2>7, WorkOnIs
    <3>2. job[a] # None /\ \A s \in Imap : SameSession(sess'[s], sess[s])
      BY <2>7, WorkOnIs
    <3>. SUFFICES ASSUME NEW s \in Imap, job'[s] # None
                  PROVE  ~sess'[s].idle /\ SessionJob(job'[s], sess'[s])
      BY DEF SessionJobs
    <3>3. PICK k, k2, z, z2 : k = job[s] /\ k2 = job'[s] /\ z = sess[s] /\ z2 = sess'[s]
      OBVIOUS
    <3>4. k # None /\ ItemsOf(k2, k)
      <4>1. CASE s = a
        BY <1>2, <3>1, <3>2, <3>3, <4>1 DEF Jobs
      <4>2. CASE s # a
        <5>1. k2 = k
          BY <1>2, <3>1, <3>3, <4>2 DEF Jobs
        <5>. QED  BY <3>3, <5>1, ItemsOfSame
      <4>. QED  BY <4>1, <4>2
    <3>5. SessionJob(k, z) /\ ~z.idle
      BY <3>3, <3>4 DEF SessionJobs
    <3>6. SamePlace(z2, z) /\ z2.idle = z.idle
      BY <3>2, <3>3 DEF SamePlace, SameSession
    <3>7. SessionJob(k2, z2)
      BY <3>4, <3>5, <3>6, SessionJobOf
    <3>. QED  BY <3>3, <3>5, <3>6, <3>7
  <2>8. ASSUME NEW a \in Actors, Finish(a) PROVE SessionJobs'
    <3>1. job' = [job EXCEPT ![a] = None] /\ \A s \in Imap : s # a => sess'[s] = sess[s]
      BY <2>8 DEF Finish
    <3>2. \A s \in Imap : job'[s] # None => s # a /\ job'[s] = job[s]
      BY <1>2, <3>1 DEF Jobs
    <3>. QED  BY <3>1, <3>2 DEF SessionJobs
  <2>9. ASSUME Restart PROVE SessionJobs'
    BY <1>2, <2>9 DEF Restart, SessionJobs
  <2>10. Pop3 \subseteq Actors \ Imap /\ Jmap \subseteq Actors \ Imap
    BY AccessAssumption DEF Actors
  <2>. QED  BY <1>1, <1>3, <2>1, <2>2, <2>3, <2>4, <2>5, <2>6, <2>7, <2>8, <2>9, <2>10, NextCases DEF WorkOn
<1>4. CASE UNCHANGED vars
  BY <1>4 DEF vars, SessionJobs
<1>. QED  BY <1>3, <1>4

----------------------------------------------------------------------------
(* What a client will have been told follows what is left of its mailbox.      *)

LEMMA AscendingSeq ==
    ASSUME NEW S, S \subseteq Nat, IsFiniteSet(S)
    PROVE  Ascending(S) \in Seq(Nat)
<1>1. Ascending(S) \in Seq(S)
  BY AscendingIs
<1>. QED  BY <1>1, SeqMonotonic

LEMMA HeardType ==
    ASSUME NEW z, SessionOK(z), NEW j \in Job
    PROVE  Heard(z, j) \in Seq(Nat)
<1>1. z.view \in Seq(Nat) /\ Len(j.lines) \in Nat
  BY SessionParts, JobParts
<1>2. Told(z.view, j.lines) \in Seq(Nat)
  BY <1>1, ToldType
<1>3. Without(z.view, ToSet(j.lines)) \in Seq(Nat)
  BY <1>1, WithoutIs
<1>. QED  BY <1>2, <1>3 DEF Heard

(* The mailbox has kept its messages, and whatever is new comes last.          *)
Follows(dt, nd, b) ==
    /\ \A d \in Docs : dt[d] # None /\ dt[d].uid[b] # 0 => nd[d] # None /\ nd[d].uid[b] = dt[d].uid[b]
    /\ \A x \in UidSet(dt, b), y \in UidSet(nd, b) \ UidSet(dt, b) : x < y

LEMMA FollowsGrows ==
    ASSUME NEW dt \in Table, NEW nd \in Table, NEW b \in Boxes, Follows(dt, nd, b)
    PROVE  UidSet(dt, b) \subseteq UidSet(nd, b)
<1>. SUFFICES ASSUME NEW u \in UidSet(dt, b) PROVE u \in UidSet(nd, b)
  OBVIOUS
<1>1. PICK d \in Docs : dt[d] # None /\ dt[d].uid[b] # 0 /\ u = dt[d].uid[b]
  BY DEF UidSet, Members
<1>2. nd[d] # None /\ nd[d].uid[b] = u
  BY <1>1 DEF Follows
<1>. QED  BY <1>1, <1>2 DEF UidSet, Members

LEMMA FollowsPrefix ==
    ASSUME NEW dt \in Table, NEW nd \in Table, NEW b \in Boxes, Follows(dt, nd, b), NEW G, NEW v \in Seq(Nat),
           IsPrefix(v, Ascending(UidSet(dt, b) \ G))
    PROVE  IsPrefix(v, Ascending(UidSet(nd, b) \ G))
<1>1. PICK U, W : U = UidSet(dt, b) /\ W = UidSet(nd, b)
  OBVIOUS
<1>2. U \subseteq Nat /\ IsFiniteSet(U) /\ W \subseteq Nat /\ IsFiniteSet(W)
  BY <1>1, ListIs
<1>3. U \subseteq W /\ \A x \in U, y \in W \ U : x < y
  BY <1>1, FollowsGrows DEF Follows
<1>4. PICK S, T : S = U \ G /\ T = W \ G
  OBVIOUS
<1>5. S \subseteq U /\ T \subseteq W /\ S \subseteq T /\ S \subseteq Nat /\ T \subseteq Nat
  BY <1>2, <1>3, <1>4
<1>6. IsFiniteSet(S) /\ IsFiniteSet(T)
  BY <1>2, <1>5, FS_Subset
<1>7. \A x \in S, y \in T \ S : x < y
  BY <1>3, <1>4
<1>8. IsPrefix(Ascending(S), Ascending(T))
  BY <1>5, <1>6, <1>7, LowerPrefix
<1>9. PICK p \in Seq(Nat), q \in Seq(Nat) : p = Ascending(S) /\ q = Ascending(T)
  BY <1>5, <1>6, AscendingSeq
<1>10. IsPrefix(v, p) /\ IsPrefix(p, q)
  BY <1>1, <1>4, <1>8, <1>9
<1>11. IsPrefix(v, q)
  BY <1>10, PrefixTransitive
<1>. QED  BY <1>1, <1>4, <1>9, <1>11

(* A batch under which the mailbox of a session keeps its messages.            *)
LEMMA ViewOther ==
    ASSUME NEW dt \in Table, NEW nd \in Table, NEW z, NEW z2, SessionOK(z), SameSession(z2, z),
           ~z2.moved => ~z.moved, z.state = "selected" /\ ~z2.moved => Follows(dt, nd, z.box),
           NEW j, NEW lu, NEW ow, j # None => j \in Job /\ JobOK(j, lu, ow), ViewOK(j, z, dt)
    PROVE  ViewOK(j, z2, nd)
<1>. SUFFICES ASSUME z2.state = "selected", ~z2.moved
              PROVE  IF j = None THEN IsPrefix(z2.view, List(nd, z2.box))
                     ELSE j.cmd # "close" =>
                            /\ j.cmd \in {"fetch", "copy", "move", "expunge"} => Present(j, z2, nd)
                            /\ IsPrefix(Heard(z2, j), Ascending(UidSet(nd, z2.box) \ Leaving(j, z2, nd)))
  BY DEF ViewOK
<1>1. /\ z.state = "selected" /\ ~z.moved /\ z2.box = z.box /\ z2.view = z.view /\ z2.qresync = z.qresync
  BY DEF SameSession
<1>2. PICK b \in Boxes : b = z.box /\ Follows(dt, nd, b)
  BY <1>1, SessionParts
<1>3. z.view \in Seq(Nat)
  BY SessionParts
<1>4. CASE j = None
  <2>1. IsPrefix(z.view, List(dt, b))
    BY <1>1, <1>2, <1>4 DEF ViewOK
  <2>2. UidSet(dt, b) \ {} = UidSet(dt, b) /\ UidSet(nd, b) \ {} = UidSet(nd, b)
    OBVIOUS
  <2>3. IsPrefix(z.view, Ascending(UidSet(dt, b) \ {}))
    BY <2>1, <2>2 DEF List
  <2>4. PICK v \in Seq(Nat) : v = z.view
    BY <1>3
  <2>5. IsPrefix(v, Ascending(UidSet(nd, b) \ {}))
    BY <1>2, <2>3, <2>4, FollowsPrefix
  <2>. QED  BY <1>1, <1>2, <1>4, <2>2, <2>4, <2>5 DEF List
<1>5. CASE j # None
  <2>. SUFFICES ASSUME j.cmd # "close"
                PROVE  /\ j.cmd \in {"fetch", "copy", "move", "expunge"} => Present(j, z2, nd)
                       /\ IsPrefix(Heard(z2, j), Ascending(UidSet(nd, z2.box) \ Leaving(j, z2, nd)))
    BY <1>5
  <2>1. /\ j.cmd \in {"fetch", "copy", "move", "expunge"} => Present(j, z, dt)
        /\ IsPrefix(Heard(z, j), Ascending(UidSet(dt, b) \ Leaving(j, z, dt)))
    BY <1>1, <1>2, <1>5 DEF ViewOK
  <2>2. Heard(z2, j) = Heard(z, j)
    BY <1>1 DEF Heard
  <2>3. PICK v \in Seq(Nat) : v = Heard(z, j)
    BY <1>5, HeardType
  <2>4. PICK k \in Job : k = j /\ JobOK(k, lu, ow)
    BY <1>5
  <2>5. \A n \in 1..Len(k.todo) : k.todo[n].doc \in Docs
    BY JobParts
  <2>6. ASSUME k.cmd \in {"fetch", "copy", "move", "expunge"}
        PROVE  \A n \in 1..Len(k.todo) : /\ dt[k.todo[n].doc] # None /\ dt[k.todo[n].doc].uid[b] # 0
                                         /\ nd[k.todo[n].doc] # None
                                         /\ nd[k.todo[n].doc].uid[b] = dt[k.todo[n].doc].uid[b]
    <3>1. Present(k, z, dt)
      BY <2>1, <2>4, <2>6
    <3>2. \A n \in 1..Len(k.todo) : dt[k.todo[n].doc] # None /\ dt[k.todo[n].doc].uid[b] # 0
      BY <1>2, <3>1 DEF Present
    <3>. QED  BY <1>2, <2>5, <3>2 DEF Follows
  <2>7. k.cmd \in {"fetch", "copy", "move", "expunge"} => Present(k, z2, nd)
    <3>. HAVE k.cmd \in {"fetch", "copy", "move", "expunge"}
    <3>1. Present(k, z, dt)
      BY <2>1, <2>4
    <3>2. \A n \in 1..Len(k.todo) : nd[k.todo[n].doc] # None /\ nd[k.todo[n].doc].uid[z2.box] # 0
      BY <1>1, <1>2, <2>6
    <3>3. \A n \in 1..Len(k.todo) : \A m \in 1..Len(k.todo) : k.todo[m].doc = k.todo[n].doc => m = n
      BY <3>1 DEF Present
    <3>4. ASSUME k.loaded
          PROVE  k.held[Head(k.todo).doc].uid[z2.box] = nd[Head(k.todo).doc].uid[z2.box]
      <4>1. k.todo # <<>>
        BY <2>4, <3>4 DEF JobOK, HoldsHead
      <4>2. 1 \in 1..Len(k.todo) /\ Head(k.todo) = k.todo[1]
        BY <4>1, JobParts
      <4>3. k.held[Head(k.todo).doc].uid[b] = dt[Head(k.todo).doc].uid[b]
        BY <1>2, <3>1, <3>4 DEF Present
      <4>. QED  BY <1>1, <1>2, <2>6, <4>2, <4>3
    <3>. QED  BY <3>2, <3>3, <3>4 DEF Present
  <2>8. Leaving(k, z2, nd) = Leaving(k, z, dt)
    <3>1. CASE k.cmd \in {"move", "expunge"}
      <4>1. /\ Leaving(k, z2, nd) = {nd[k.todo[n].doc].uid[b] : n \in 1..Len(k.todo)}
            /\ Leaving(k, z, dt) = {dt[k.todo[n].doc].uid[b] : n \in 1..Len(k.todo)}
        BY <1>1, <1>2, <3>1 DEF Leaving
      <4>2. \A n \in 1..Len(k.todo) : nd[k.todo[n].doc].uid[b] = dt[k.todo[n].doc].uid[b]
        BY <2>6, <3>1
      <4>3. \A x : x \in Leaving(k, z2, nd) <=> x \in Leaving(k, z, dt)
        BY <4>1, <4>2
      <4>. QED  BY <4>3
    <3>2. CASE k.cmd \notin {"move", "expunge"}
      BY <3>2 DEF Leaving
    <3>. QED  BY <3>1, <3>2
  <2>9. PICK G : G = Leaving(k, z, dt)
    OBVIOUS
  <2>10. IsPrefix(v, Ascending(UidSet(dt, b) \ G))
    BY <2>1, <2>3, <2>4, <2>9
  <2>11. IsPrefix(v, Ascending(UidSet(nd, b) \ G))
    BY <1>2, <2>10, FollowsPrefix
  <2>. QED  BY <1>1, <1>2, <2>2, <2>3, <2>4, <2>7, <2>8, <2>9, <2>11
<1>. QED  BY <1>4, <1>5

SameUids(dt, nd, b) ==
    \A d \in Docs : (nd[d] = None <=> dt[d] = None) /\ (dt[d] # None => nd[d].uid[b] = dt[d].uid[b])

LEMMA FollowsSame ==
    ASSUME NEW dt, NEW nd, NEW b, SameUids(dt, nd, b)
    PROVE  Follows(dt, nd, b)
<1>1. UidSet(nd, b) \subseteq UidSet(dt, b)
  <2>. SUFFICES ASSUME NEW u \in UidSet(nd, b) PROVE u \in UidSet(dt, b)
    OBVIOUS
  <2>1. PICK d \in Docs : nd[d] # None /\ nd[d].uid[b] # 0 /\ u = nd[d].uid[b]
    BY DEF UidSet, Members
  <2>2. dt[d] # None /\ dt[d].uid[b] = u
    BY <2>1 DEF SameUids
  <2>. QED  BY <2>1, <2>2 DEF UidSet, Members
<1>. QED  BY <1>1 DEF Follows, SameUids

OwnedAll(dt, lu, ow) == \A d \in Docs : dt[d] # None => Owned(dt[d], d, lu, ow)

LEMMA OwnedOnce ==
    ASSUME NEW dt, NEW nd, NEW lu, NEW ow, OwnedAll(dt, lu, ow), OwnedAll(nd, lu, ow), NEW b \in Boxes,
           NEW d \in Docs, NEW e \in Docs, dt[d] # None, nd[e] # None,
           dt[d].uid[b] # 0, nd[e].uid[b] = dt[d].uid[b]
    PROVE  d = e
BY DEF OwnedAll, Owned

LEMMA ListSet ==
    ASSUME NEW dt \in Table, NEW b \in Boxes
    PROVE  ToSet(List(dt, b)) = UidSet(dt, b)
<1>1. PICK U : U = UidSet(dt, b)
  OBVIOUS
<1>2. U \subseteq Nat /\ IsFiniteSet(U) /\ List(dt, b) = Ascending(U)
  BY <1>1, ListIs DEF List
<1>3. /\ Ascending(U) \in [1..Cardinality(U) -> U]
      /\ \A x \in U : \E i \in 1..Cardinality(U) : Ascending(U)[i] = x
  BY <1>2, AscendingIs
<1>4. ToSet(Ascending(U)) = U
  BY <1>3 DEF ToSet
<1>. QED  BY <1>1, <1>2, <1>4

(* Another's batch that leaves the numbers of session s in place.              *)
LEMMA FollowsUndisplaced ==
    ASSUME data \in Table, NEW nd \in Table, NEW lu, NEW ow, OwnedAll(data, lu, ow), OwnedAll(nd, lu, ow),
           NEW a, NEW s, a # s, sess[s].box \in Boxes, ~Displaces(a, s, nd)
    PROVE  Follows(data, nd, sess[s].box)
<1>1. PICK b \in Boxes : b = sess[s].box
  OBVIOUS
<1>2. PICK W, v : W = UidSet(nd, b) /\ v = List(data, b)
  OBVIOUS
<1>3. IsPrefix(v, Ascending(W))
  BY <1>1, <1>2 DEF Displaces, List
<1>4. W \subseteq Nat /\ IsFiniteSet(W) /\ v \in Seq(Nat)
  BY <1>2, ListIs
<1>5. ToSet(v) \subseteq W /\ \A x \in ToSet(v), y \in W \ ToSet(v) : x < y
  BY <1>3, <1>4, PrefixLower
<1>6. ToSet(v) = UidSet(data, b)
  BY <1>2, ListSet
<1>7. ASSUME NEW d \in Docs, data[d] # None, data[d].uid[b] # 0
      PROVE  nd[d] # None /\ nd[d].uid[b] = data[d].uid[b]
  <2>1. data[d].uid[b] \in UidSet(data, b)
    BY <1>7 DEF UidSet, Members
  <2>2. data[d].uid[b] \in W
    BY <1>5, <1>6, <2>1
  <2>3. PICK e \in Docs : nd[e] # None /\ nd[e].uid[b] = data[d].uid[b]
    BY <1>2, <2>2 DEF UidSet, Members
  <2>4. d = e
    <3>1. PICK dt : dt = data
      OBVIOUS
    <3>2. OwnedAll(dt, lu, ow) /\ dt[d] # None /\ dt[d].uid[b] # 0 /\ nd[e].uid[b] = dt[d].uid[b]
      BY <1>7, <2>3, <3>1
    <3>. QED  BY <2>3, <3>2, OwnedOnce
  <2>. QED  BY <2>3, <2>4
<1>8. Follows(data, nd, b)
  BY <1>2, <1>5, <1>6, <1>7 DEF Follows
<1>. QED  BY <1>1, <1>8

(* The session's own APPEND to the mailbox it has selected.                    *)
LEMMA FollowsAppended ==
    ASSUME data \in Table, NEW nd \in Table, NEW s, sess[s].box \in Boxes, ~Displaces(s, s, nd),
           NEW d \in Docs, data[d] = None, \A e \in Docs \ {d} : nd[e] = data[e]
    PROVE  Follows(data, nd, sess[s].box)
<1>1. PICK b \in Boxes : b = sess[s].box
  OBVIOUS
<1>2. PICK U, W : U = UidSet(data, b) /\ W = UidSet(nd, b)
  OBVIOUS
<1>3. ToSet(List(data, b)) = U /\ ToSet(List(nd, b)) = W
  BY <1>2, ListSet
<1>4. ~ \E u \in W \ U : \E v \in U : v > u
  BY <1>1, <1>3 DEF Displaces
<1>5. U \subseteq Nat /\ W \subseteq Nat
  BY <1>2, ListIs
<1>6. ASSUME NEW x \in U, NEW y \in W \ U PROVE x < y
  <2>1. x \in Nat /\ y \in Nat /\ x # y
    BY <1>5
  <2>2. ~(x > y)
    BY <1>4
  <2>. QED  BY <2>1, <2>2
<1>7. \A e \in Docs : data[e] # None => nd[e] = data[e]
  OBVIOUS
<1>8. Follows(data, nd, b)
  BY <1>2, <1>6, <1>7 DEF Follows
<1>. QED  BY <1>1, <1>8

(* The next message of a command that takes nothing away.                      *)
LEMMA ViewTail ==
    ASSUME NEW z, NEW dt, NEW k \in Job, k.todo # <<>>, k.cmd \notin {"move", "expunge"}, ViewOK(k, z, dt)
    PROVE  ViewOK(WrittenJob(k), z, dt)
<1>1. PICK j : j = WrittenJob(k)
  OBVIOUS
<1>2. j \in Job /\ j.cmd = k.cmd /\ j.lines = k.lines /\ j.todo = Tail(k.todo) /\ ~j.loaded
  BY <1>1, WrittenJobIs
<1>3. k # None /\ j # None
  BY <1>2, NoRecordAssumption
<1>4. /\ Len(k.todo) \in Nat /\ Len(j.todo) = Len(k.todo) - 1
      /\ \A n \in 1..(Len(k.todo) - 1) : j.todo[n] = k.todo[n + 1]
  BY <1>2, JobParts
<1>5. Heard(z, j) = Heard(z, k)
  BY <1>2 DEF Heard
<1>6. Leaving(j, z, dt) = {} /\ Leaving(k, z, dt) = {}
  BY <1>2 DEF Leaving
<1>7. Present(k, z, dt) => Present(j, z, dt)
  <2>. HAVE Present(k, z, dt)
  <2>1. \A n \in 1..Len(j.todo) : n \in Nat /\ n + 1 \in 1..Len(k.todo) /\ j.todo[n] = k.todo[n + 1]
    BY <1>4
  <2>2. ASSUME NEW n \in 1..Len(j.todo)
        PROVE  /\ dt[j.todo[n].doc] # None /\ dt[j.todo[n].doc].uid[z.box] # 0
               /\ \A m \in 1..Len(j.todo) : j.todo[m].doc = j.todo[n].doc => m = n
    <3>1. dt[j.todo[n].doc] # None /\ dt[j.todo[n].doc].uid[z.box] # 0
      BY <2>1 DEF Present
    <3>2. ASSUME NEW m \in 1..Len(j.todo), j.todo[m].doc = j.todo[n].doc PROVE m = n
      <4>1. PICK x, y \in 1..Len(k.todo) : x = m + 1 /\ y = n + 1
        BY <2>1
      <4>2. k.todo[x].doc = k.todo[y].doc
        BY <2>1, <3>2, <4>1
      <4>3. x = y
        BY <4>2 DEF Present
      <4>. QED  BY <2>1, <4>1, <4>3
    <3>. QED  BY <3>1, <3>2
  <2>. QED  BY <1>2, <2>2 DEF Present
<1>8. ViewOK(j, z, dt)
  BY <1>2, <1>3, <1>5, <1>6, <1>7 DEF ViewOK
<1>. QED  BY <1>1, <1>8

(* The next message of a MOVE or an EXPUNGE: the mailbox loses what the        *)
(* command was about to take away.                                             *)
LEMMA ViewRemoved ==
    ASSUME NEW dt \in Table, NEW nd \in Table, NEW lu, NEW ow, OwnedAll(dt, lu, ow),
           NEW z, NEW z2, SessionOK(z), SameSession(z2, z), ~z2.moved => ~z.moved,
           NEW k \in Job, k.todo # <<>>, k.cmd \in {"move", "expunge"}, ViewOK(k, z, dt),
           NEW d \in Docs, d = Head(k.todo).doc, \A e \in Docs \ {d} : nd[e] = dt[e],
           z.state = "selected" => nd[d] = None \/ nd[d].uid[z.box] = 0
    PROVE  ViewOK(WrittenJob(k), z2, nd)
<1>1. PICK j : j = WrittenJob(k)
  OBVIOUS
<1>2. j \in Job /\ j.cmd = k.cmd /\ j.lines = k.lines /\ j.todo = Tail(k.todo) /\ ~j.loaded
  BY <1>1, WrittenJobIs
<1>3. k # None /\ j # None
  BY <1>2, NoRecordAssumption
<1>. SUFFICES ASSUME z2.state = "selected", ~z2.moved
              PROVE  /\ Present(j, z2, nd)
                     /\ IsPrefix(Heard(z2, j), Ascending(UidSet(nd, z2.box) \ Leaving(j, z2, nd)))
  BY <1>1, <1>3 DEF ViewOK
<1>4. z.state = "selected" /\ ~z.moved /\ z2.box = z.box /\ z2.view = z.view /\ z2.qresync = z.qresync
  BY DEF SameSession
<1>5. PICK b \in Boxes : b = z.box
  BY <1>4, SessionParts
<1>6. Present(k, z, dt) /\ IsPrefix(Heard(z, k), Ascending(UidSet(dt, b) \ Leaving(k, z, dt)))
  BY <1>3, <1>4, <1>5 DEF ViewOK
<1>7. PICK N : N = Len(k.todo)
  OBVIOUS
<1>8. /\ N \in Nat /\ N > 0 /\ Len(j.todo) = N - 1 /\ d = k.todo[1].doc /\ 1 \in 1..N
      /\ \A n \in 1..(N - 1) : j.todo[n] = k.todo[n + 1]
      /\ \A n \in 1..N : k.todo[n].doc \in Docs
  BY <1>2, <1>7, JobParts
<1>9. \A n \in 1..(N - 1) : n \in Nat /\ n + 1 \in 1..N /\ n + 1 # 1
  BY <1>8
<1>10. \A n \in 1..N : /\ dt[k.todo[n].doc] # None /\ dt[k.todo[n].doc].uid[b] # 0
                       /\ \A m \in 1..N : k.todo[m].doc = k.todo[n].doc => m = n
  BY <1>5, <1>6, <1>7 DEF Present
<1>11. \A n \in 1..(N - 1) : /\ k.todo[n + 1].doc \in Docs /\ k.todo[n + 1].doc # d
                             /\ nd[j.todo[n].doc] = dt[k.todo[n + 1].doc]
  <2>. TAKE n \in 1..(N - 1)
  <2>1. k.todo[n + 1].doc \in Docs /\ k.todo[n + 1].doc # d
    BY <1>8, <1>9, <1>10
  <2>. QED  BY <1>8, <2>1
<1>12. Present(j, z2, nd)
  <2>1. ASSUME NEW n \in 1..Len(j.todo)
        PROVE  /\ nd[j.todo[n].doc] # None /\ nd[j.todo[n].doc].uid[z2.box] # 0
               /\ \A m \in 1..Len(j.todo) : j.todo[m].doc = j.todo[n].doc => m = n
    <3>1. n \in 1..(N - 1) /\ n + 1 \in 1..N
      BY <1>8, <1>9
    <3>2. nd[j.todo[n].doc] # None /\ nd[j.todo[n].doc].uid[z2.box] # 0
      BY <1>4, <1>5, <1>10, <1>11, <3>1
    <3>3. ASSUME NEW m \in 1..Len(j.todo), j.todo[m].doc = j.todo[n].doc PROVE m = n
      <4>1. m \in 1..(N - 1) /\ m + 1 \in 1..N /\ m \in Nat /\ n \in Nat
        BY <1>8, <1>9, <3>1
      <4>2. PICK x, y \in 1..N : x = m + 1 /\ y = n + 1
        BY <3>1, <4>1
      <4>3. k.todo[x].doc = k.todo[y].doc
        BY <1>8, <3>1, <3>3, <4>1, <4>2
      <4>4. x = y
        BY <1>10, <4>3
      <4>. QED  BY <4>1, <4>2, <4>4
    <3>. QED  BY <3>2, <3>3
  <2>. QED  BY <1>2, <2>1 DEF Present
<1>13. PICK u : u = dt[d].uid[b]
  OBVIOUS
<1>14. dt[d] # None /\ u # 0
  BY <1>8, <1>10, <1>13
<1>15. nd[d] = None \/ nd[d].uid[b] = 0
  BY <1>4, <1>5
<1>16. \A x : x \in UidSet(nd, b) <=> x \in UidSet(dt, b) /\ x # u
  <2>. TAKE x
  <2>1. ASSUME x \in UidSet(nd, b) PROVE x \in UidSet(dt, b) /\ x # u
    <3>1. PICK e \in Docs : nd[e] # None /\ nd[e].uid[b] # 0 /\ x = nd[e].uid[b]
      BY <2>1 DEF UidSet, Members
    <3>2. e # d /\ nd[e] = dt[e]
      BY <1>15, <3>1
    <3>3. x \in UidSet(dt, b)
      BY <3>1, <3>2 DEF UidSet, Members
    <3>4. x # u
      BY <1>13, <1>14, <3>1, <3>2, OwnedOnce
    <3>. QED  BY <3>3, <3>4
  <2>2. ASSUME x \in UidSet(dt, b), x # u PROVE x \in UidSet(nd, b)
    <3>1. PICK e \in Docs : dt[e] # None /\ dt[e].uid[b] # 0 /\ x = dt[e].uid[b]
      BY <2>2 DEF UidSet, Members
    <3>2. e # d
      BY <1>13, <2>2, <3>1
    <3>. QED  BY <3>1, <3>2 DEF UidSet, Members
  <2>. QED  BY <2>1, <2>2
<1>17. \A x : x \in Leaving(k, z, dt) <=> x = u \/ x \in Leaving(j, z2, nd)
  <2>1. /\ Leaving(k, z, dt) = {dt[k.todo[n].doc].uid[b] : n \in 1..N}
        /\ Leaving(j, z2, nd) = {nd[j.todo[n].doc].uid[b] : n \in 1..(N - 1)}
    BY <1>2, <1>4, <1>5, <1>7, <1>8 DEF Leaving
  <2>. TAKE x
  <2>2. ASSUME x \in Leaving(k, z, dt) PROVE x = u \/ x \in Leaving(j, z2, nd)
    <3>1. PICK n \in 1..N : x = dt[k.todo[n].doc].uid[b]
      BY <2>1, <2>2
    <3>2. CASE n = 1
      BY <1>8, <1>13, <3>1, <3>2
    <3>3. CASE n # 1
      <4>1. n - 1 \in 1..(N - 1) /\ n - 1 + 1 = n
        BY <1>8, <3>3
      <4>2. PICK m \in 1..(N - 1) : m + 1 = n
        BY <4>1
      <4>3. nd[j.todo[m].doc] = dt[k.todo[n].doc]
        BY <1>11, <4>2
      <4>. QED  BY <2>1, <3>1, <4>3
    <3>. QED  BY <3>2, <3>3
  <2>3. ASSUME x = u PROVE x \in Leaving(k, z, dt)
    BY <1>8, <1>13, <2>1, <2>3
  <2>4. ASSUME x \in Leaving(j, z2, nd) PROVE x \in Leaving(k, z, dt)
    <3>1. PICK n \in 1..(N - 1) : x = nd[j.todo[n].doc].uid[b]
      BY <2>1, <2>4
    <3>2. PICK m \in 1..N : m = n + 1
      BY <1>9
    <3>3. x = dt[k.todo[m].doc].uid[b]
      BY <1>11, <3>1, <3>2
    <3>. QED  BY <2>1, <3>3
  <2>. QED  BY <2>2, <2>3, <2>4
<1>18. UidSet(nd, b) \ Leaving(j, z2, nd) = UidSet(dt, b) \ Leaving(k, z, dt)
  BY <1>16, <1>17
<1>19. Heard(z2, j) = Heard(z, k)
  BY <1>2, <1>4 DEF Heard
<1>. QED  BY <1>4, <1>5, <1>6, <1>12, <1>18, <1>19

LEMMA ViewLoaded ==
    ASSUME NEW dt \in Table, NEW z, NEW k \in Job, k.todo # <<>>, \A d \in Docs : k.held[d] = None,
           k.cmd # "store", k.cmd \notin Inserts, SessionJob(k, z), ViewOK(k, z, dt),
           NEW r \in Data \cup {None}, r = dt[Head(k.todo).doc], NEW u \in Uids
    PROVE  ViewOK(LoadedJob(k, r, u), z, dt)
<1>1. PICK j : j = LoadedJob(k, r, u)
  OBVIOUS
<1>2. Loads(LoadedJob(k, r, u), k, r, u)
  BY LoadedJobIs
<1>3. /\ j \in Job /\ j.cmd = k.cmd /\ j.lines = k.lines /\ j.held[Head(k.todo).doc] = r
      /\ r # None => /\ j.todo # <<>> /\ Len(j.todo) = Len(k.todo)
                     /\ Head(j.todo) = [Head(k.todo) EXCEPT !.uid = u]
                     /\ \A n \in 1..Len(k.todo) : SameItem(j.todo[n], k.todo[n])
  BY <1>1, <1>2 DEF Loads
<1>4. k # None /\ j # None
  BY <1>3, NoRecordAssumption
<1>. SUFFICES ASSUME z.state = "selected", ~z.moved, k.cmd # "close"
              PROVE  /\ Present(j, z, dt)
                     /\ IsPrefix(Heard(z, j), Ascending(UidSet(dt, z.box) \ Leaving(j, z, dt)))
  BY <1>1, <1>3, <1>4 DEF ViewOK
<1>5. k.cmd \in {"fetch", "copy", "move", "expunge"}
  BY DEF SessionJob, ImapCommands, Inserts
<1>6. Present(k, z, dt) /\ IsPrefix(Heard(z, k), Ascending(UidSet(dt, z.box) \ Leaving(k, z, dt)))
  BY <1>4, <1>5 DEF ViewOK
<1>7. 1 \in 1..Len(k.todo) /\ Head(k.todo) = k.todo[1] /\ Head(k.todo) \in Item
  BY JobParts
<1>8. r # None
  BY <1>6, <1>7 DEF Present
<1>9. /\ Len(j.todo) = Len(k.todo) /\ \A n \in 1..Len(k.todo) : j.todo[n].doc = k.todo[n].doc
  BY <1>3, <1>8 DEF SameItem
<1>10. Head(j.todo).doc = Head(k.todo).doc
  <2>1. PICK h \in Item : h = Head(k.todo)
    BY <1>7
  <2>2. [h EXCEPT !.uid = u].doc = h.doc
    BY DEF Item
  <2>. QED  BY <1>3, <1>8, <2>1, <2>2
<1>11. Present(j, z, dt)
  <2>1. \A n \in 1..Len(k.todo) : /\ dt[k.todo[n].doc] # None /\ dt[k.todo[n].doc].uid[z.box] # 0
                                  /\ \A m \in 1..Len(k.todo) : k.todo[m].doc = k.todo[n].doc => m = n
    BY <1>6 DEF Present
  <2>2. j.held[Head(j.todo).doc].uid[z.box] = dt[Head(j.todo).doc].uid[z.box]
    BY <1>3, <1>10
  <2>. QED  BY <1>9, <2>1, <2>2 DEF Present
<1>12. Leaving(j, z, dt) = Leaving(k, z, dt)
  <2>1. CASE k.cmd \in {"move", "expunge"}
    <3>1. /\ Leaving(j, z, dt) = {dt[j.todo[n].doc].uid[z.box] : n \in 1..Len(k.todo)}
          /\ Leaving(k, z, dt) = {dt[k.todo[n].doc].uid[z.box] : n \in 1..Len(k.todo)}
      BY <1>3, <1>9, <2>1 DEF Leaving
    <3>2. \A x : x \in Leaving(j, z, dt) <=> x \in Leaving(k, z, dt)
      BY <1>9, <3>1
    <3>. QED  BY <3>2
  <2>2. CASE k.cmd \notin {"move", "expunge"}
    BY <1>3, <2>2 DEF Leaving
  <2>. QED  BY <2>1, <2>2
<1>13. Heard(z, j) = Heard(z, k)
  BY <1>3 DEF Heard
<1>. QED  BY <1>6, <1>11, <1>12, <1>13

LEMMA PrefixSelf ==
    ASSUME NEW v \in Seq(Nat)
    PROVE  IsPrefix(v, v)
<1>1. Len(v) \in Nat
  BY LenProperties
<1>. QED  BY <1>1, PrefixIff

(* EXISTS tells of what follows the messages the client knows.                 *)
LEMMA Extended ==
    ASSUME NEW v \in Seq(Nat), NEW w \in Seq(Nat), IsPrefix(v, w)
    PROVE  IsPrefix(v \o SubSeq(w, Len(v) + 1, Len(w)), w)
<1>1. PICK n, m : n = Len(v) /\ m = Len(w)
  OBVIOUS
<1>2. n \in Nat /\ m \in Nat /\ n <= m /\ \A i \in 1..n : v[i] = w[i]
  BY <1>1, PrefixIff, LenProperties
<1>3. PICK t : t = SubSeq(w, n + 1, m)
  OBVIOUS
<1>4. \A i \in (n + 1)..m : w[i] \in Nat
  <2>1. \A i \in 1..m : w[i] \in Nat
    BY <1>1, LenProperties
  <2>2. \A i \in (n + 1)..m : i \in 1..m
    BY <1>2
  <2>. QED  BY <2>1, <2>2
<1>5. /\ t \in Seq(Nat) /\ Len(t) = m - n /\ \A i \in 1..(m - n) : t[i] = w[n + i]
  <2>1. n + 1 \in Int /\ m \in Int
    BY <1>2
  <2>2. /\ t \in Seq(Nat)
        /\ Len(t) = IF n + 1 <= m THEN m - (n + 1) + 1 ELSE 0
        /\ \A i \in 1 .. m - (n + 1) + 1 : t[i] = w[n + 1 + i - 1]
    BY <1>3, <1>4, <2>1, SubSeqProperties
  <2>3. Len(t) = m - n
    BY <1>2, <2>2
  <2>4. ASSUME NEW i \in 1..(m - n) PROVE t[i] = w[n + i]
    <3>1. i \in 1 .. m - (n + 1) + 1 /\ n + 1 + i - 1 = n + i
      BY <1>2
    <3>. QED  BY <2>2, <3>1
  <2>. QED  BY <2>2, <2>3, <2>4
<1>6. PICK x : x = v \o t
  OBVIOUS
<1>7. /\ x \in Seq(Nat) /\ Len(x) = n + (m - n)
      /\ \A i \in 1..(n + (m - n)) : x[i] = IF i <= n THEN v[i] ELSE t[i - n]
  BY <1>1, <1>5, <1>6, ConcatProperties
<1>8. Len(x) = m
  BY <1>2, <1>7
<1>9. ASSUME NEW i \in 1..m PROVE x[i] = w[i]
  <2>1. x[i] = IF i <= n THEN v[i] ELSE t[i - n]
    <3>1. i \in 1..(n + (m - n))
      BY <1>2
    <3>. QED  BY <1>7, <3>1
  <2>2. CASE i <= n
    <3>1. i \in 1..n
      BY <1>2, <2>2
    <3>. QED  BY <1>2, <2>1, <2>2, <3>1
  <2>3. CASE ~(i <= n)
    <3>1. i - n \in 1..(m - n) /\ n + (i - n) = i
      BY <1>2, <2>3
    <3>. QED  BY <1>5, <2>1, <2>3, <3>1
  <2>. QED  BY <2>2, <2>3
<1>10. IsPrefix(x, w)
  <2>1. Len(x) <= Len(w) /\ \A i \in 1..Len(x) : x[i] = w[i]
    BY <1>1, <1>2, <1>8, <1>9
  <2>. QED  BY <1>7, <2>1, PrefixIff
<1>. QED  BY <1>1, <1>3, <1>6, <1>10

LEMMA ViewPushed ==
    ASSUME TypeOK, NEW s \in Imap, ViewOK(None, sess[s], data)
    PROVE  ViewOK(None, PushNewMail(s), data)
<1>1. PICK z, y : z = sess[s] /\ y = PushNewMail(s)
  OBVIOUS
<1>2. \A f \in {"state", "box", "readOnly", "idle", "note", "qresync", "moved"} : PushNewMail(s)[f] = sess[s][f]
  BY PushIs
<1>3. y.state = z.state /\ y.box = z.box /\ y.moved = z.moved
  BY <1>1, <1>2
<1>. SUFFICES ASSUME y.state = "selected", ~y.moved PROVE IsPrefix(y.view, List(data, y.box))
  BY <1>1 DEF ViewOK
<1>4. SessionOK(z) /\ data \in Table
  BY <1>1, TypeParts
<1>5. z.box \in Boxes /\ z.view \in Seq(Nat)
  BY <1>3, <1>4, SessionParts
<1>6. PICK w \in Seq(Nat) : w = List(data, z.box)
  BY <1>4, <1>5, ListIs
<1>7. PICK v \in Seq(Nat) : v = z.view
  BY <1>5
<1>8. IsPrefix(v, w)
  BY <1>1, <1>3, <1>6, <1>7 DEF ViewOK
<1>9. y.view = v \/ y.view = v \o SubSeq(w, Len(v) + 1, Len(w))
  BY <1>1, <1>3, <1>6, <1>7, PushIs
<1>10. IsPrefix(v \o SubSeq(w, Len(v) + 1, Len(w)), w)
  BY <1>8, Extended
<1>. QED  BY <1>3, <1>6, <1>8, <1>9, <1>10

LEMMA ViewSessionStep ==
    ASSUME TypeOK, NEW s \in Imap, SessionStep(s), ViewOK(None, sess[s], data)
    PROVE  ViewOK(None, sess'[s], data)
<1>1. sess \in [Imap -> Session] /\ sess[s] \in Session
  BY TypeParts
<1>2. ViewOK(None, PushNewMail(s), data)
  BY ViewPushed
<1>3. SessionOK(PushNewMail(s))
  BY PushIs
<1>4. ASSUME NEW y, NEW x, ViewOK(None, y, data), x.state = y.state, x.box = y.box, x.view = y.view, x.moved = y.moved
      PROVE  ViewOK(None, x, data)
  BY <1>4 DEF ViewOK
<1>5. CASE Noop(s)
  BY <1>1, <1>2, <1>5 DEF Noop
<1>6. CASE Enable(s)
  <2>1. sess'[s] = [sess[s] EXCEPT !.qresync = TRUE]
    BY <1>1, <1>6 DEF Enable
  <2>. QED  BY <1>1, <1>4, <2>1 DEF Session
<1>7. CASE Idle(s) \/ IdleDone(s)
  <2>1. sess'[s] = [sess[s] EXCEPT !.idle = TRUE, !.note = FALSE] \/ sess'[s] = [sess[s] EXCEPT !.idle = FALSE, !.note = FALSE]
    BY <1>1, <1>7 DEF Idle, IdleDone
  <2>. QED  BY <1>1, <1>4, <2>1 DEF Session
<1>8. CASE IdleNotice(s)
  <2>1. PICK y : y = PushNewMail(s)
    OBVIOUS
  <2>2. sess'[s] = [y EXCEPT !.note = FALSE] /\ y \in Session /\ ViewOK(None, y, data)
    BY <1>1, <1>2, <1>3, <1>8, <2>1 DEF IdleNotice, SessionOK
  <2>. QED  BY <1>4, <2>2 DEF Session
<1>9. CASE Unselect(s) \/ Logout(s)
  <2>1. sess'[s].state = "authenticated"
    BY <1>1, <1>9 DEF Unselect, Logout, Unselected
  <2>. QED  BY <2>1 DEF ViewOK
<1>. QED  BY <1>5, <1>6, <1>7, <1>8, <1>9 DEF SessionStep

----------------------------------------------------------------------------
(* ViewsFollow is kept by every step.                                          *)

(* A step that changes no record touches the job or the session of one actor.  *)
LEMMA ViewsOne ==
    ASSUME ViewsFollow, data' = data, NEW c,
           \A s \in Imap \ {c} : job'[s] = job[s] /\ sess'[s] = sess[s],
           c \in Imap => ViewOK(job'[c], sess'[c], data)
    PROVE  ViewsFollow'
<1>. SUFFICES ASSUME NEW s \in Imap PROVE ViewOK(job'[s], sess'[s], data')
  BY DEF ViewsFollow
<1>1. CASE s = c
  BY <1>1
<1>2. CASE s # c
  <2>1. ViewOK(job[s], sess[s], data)
    BY DEF ViewsFollow
  <2>2. job'[s] = job[s] /\ sess'[s] = sess[s]
    BY <1>2
  <2>. QED  BY <2>1, <2>2
<1>. QED  BY <1>1, <1>2

LEMMA ViewInsert ==
    ASSUME NEW z, NEW dt, NEW d \in Docs, NEW r \in Data, ViewOK(None, z, dt)
    PROVE  ViewOK(InsertJob("append", d, r), z, dt)
<1>. DEFINE j == InsertJob("append", d, r)
<1>1. j \in Job /\ j.cmd = "append" /\ j.lines = <<>>
  <2>1. "append" \in Inserts
    BY DEF Inserts
  <2>. QED  BY <2>1, InsertJobIs
<1>2. j # None
  BY <1>1, NoRecordAssumption
<1>. HIDE DEF j
<1>3. Heard(z, j) = z.view
  BY <1>1, ToldNothing DEF Heard
<1>4. UidSet(dt, z.box) \ Leaving(j, z, dt) = UidSet(dt, z.box)
  BY <1>1 DEF Leaving
<1>5. ViewOK(j, z, dt)
  BY <1>1, <1>2, <1>3, <1>4 DEF ViewOK, List
<1>. QED  BY <1>5 DEF j

LEMMA ViewStoreOn ==
    ASSUME NEW z, NEW dt, NEW j \in Job, NEW k \in Job, StoreOn(j, k), ViewOK(k, z, dt)
    PROVE  ViewOK(j, z, dt)
<1>1. j # None /\ k # None
  BY NoRecordAssumption
<1>2. j.cmd = "store" /\ k.cmd = "store" /\ j.lines = k.lines
  BY DEF StoreOn
<1>3. Heard(z, j) = Heard(z, k) /\ Leaving(j, z, dt) = Leaving(k, z, dt)
  BY <1>2 DEF Heard, Leaving
<1>. QED  BY <1>1, <1>2, <1>3 DEF ViewOK

LEMMA ViewDone ==
    ASSUME NEW z \in Session, NEW dt, NEW k \in Job, k.todo = <<>>, k.cmd # "close", ViewOK(k, z, dt)
    PROVE  ViewOK(None, [z EXCEPT !.view = Heard(z, k)], dt)
<1>. DEFINE y == [z EXCEPT !.view = Heard(z, k)]
<1>1. y.state = z.state /\ y.box = z.box /\ y.moved = z.moved /\ y.view = Heard(z, k)
  BY DEF Session
<1>2. k # None
  BY NoRecordAssumption
<1>3. UidSet(dt, z.box) \ Leaving(k, z, dt) = UidSet(dt, z.box)
  BY DEF Leaving
<1>. HIDE DEF y
<1>4. ViewOK(None, y, dt)
  BY <1>1, <1>2, <1>3 DEF ViewOK, List
<1>. QED  BY <1>4 DEF y

LEMMA ViewsInsert ==
    ASSUME OwnerInv, ViewsFollow, NEW a \in Actors, NEW cmd \in Inserts, NEW d \in fresh,
           NEW boxes \in SUBSET Boxes, NEW kw \in SUBSET Keywords, Insert(a, cmd, d, boxes, kw)
    PROVE  ViewsFollow'
<1>1. TypeOK /\ StartInsert(a, cmd, d, boxes, kw) /\ job[a] = None /\ (a \in Imap => cmd = "append")
  BY DEF OwnerInv, Insert, Busy
<1>2. PICK r \in Data : job' = [job EXCEPT ![a] = InsertJob(cmd, d, r)]
  BY <1>1, InsertIs
<1>3. job \in Jobs /\ d \in Docs /\ Imap \subseteq Actors
  BY <1>1, TypeParts DEF Actors
<1>4. data' = data /\ sess' = sess
  BY <1>1 DEF StartInsert
<1>5. \A s \in Imap \ {a} : job'[s] = job[s] /\ sess'[s] = sess[s]
  BY <1>2, <1>3, <1>4 DEF Jobs
<1>6. ASSUME a \in Imap PROVE ViewOK(job'[a], sess'[a], data)
  <2>1. job'[a] = InsertJob("append", d, r)
    BY <1>1, <1>2, <1>3, <1>6 DEF Jobs
  <2>2. ViewOK(None, sess[a], data)
    BY <1>1, <1>6 DEF ViewsFollow
  <2>. QED  BY <1>3, <1>4, <2>1, <2>2, ViewInsert
<1>. QED  BY <1>4, <1>5, <1>6, ViewsOne

LEMMA ViewsSelect ==
    ASSUME OwnerInv, ViewsFollow, NEW s \in Imap, NEW b \in Boxes, NEW examine \in BOOLEAN, Select(s, b, examine)
    PROVE  ViewsFollow'
<1>1. data \in Table /\ sess \in [Imap -> Session]
  BY TypeParts DEF OwnerInv
<1>2. job[s] = None /\ data' = data /\ job' = job
  BY DEF Select, Busy
<1>. DEFINE z == [sess[s] EXCEPT !.state = "selected", !.box = b, !.readOnly = examine,
                        !.moved = FALSE, !.view = List(data, b), !.last = Len(List(data, b))]
<1>3. sess' = [sess EXCEPT ![s] = z]
  BY <1>1 DEF Select
<1>4. z.box = b /\ z.view = List(data, b)
  BY <1>1 DEF Session
<1>. HIDE DEF z
<1>5. IsPrefix(List(data, b), List(data, b))
  <2>1. List(data, b) \in Seq(Nat)
    BY <1>1, ListIs
  <2>. QED  BY <2>1, PrefixSelf
<1>6. ViewOK(None, z, data)
  BY <1>4, <1>5 DEF ViewOK
<1>7. \A x \in Imap \ {s} : job'[x] = job[x] /\ sess'[x] = sess[x]
  BY <1>1, <1>2, <1>3
<1>8. ViewOK(job'[s], sess'[s], data)
  BY <1>1, <1>2, <1>3, <1>6
<1>. QED  BY <1>2, <1>7, <1>8, ViewsOne

LEMMA ViewsSessionStep ==
    ASSUME OwnerInv, SessionJobs, ViewsFollow, NEW s \in Imap, SessionStep(s)
    PROVE  ViewsFollow'
<1>1. TypeOK /\ sess \in [Imap -> Session]
  BY TypeParts DEF OwnerInv
<1>2. data' = data /\ job' = job
  BY <1>1, SessionStepIs
<1>3. PICK z : sess' = [sess EXCEPT ![s] = z]
  BY <1>1, SessionStepIs
<1>4. job[s] = None
  BY <1>1, SessionKeeps
<1>5. ViewOK(None, sess[s], data)
  BY <1>4 DEF ViewsFollow
<1>6. ViewOK(None, sess'[s], data)
  BY <1>1, <1>5, ViewSessionStep
<1>7. ViewOK(job'[s], sess'[s], data)
  BY <1>2, <1>4, <1>6
<1>8. \A x \in Imap \ {s} : job'[x] = job[x] /\ sess'[x] = sess[x]
  BY <1>1, <1>2, <1>3
<1>. QED  BY <1>2, <1>7, <1>8, ViewsOne

LEMMA ViewsStarts ==
    ASSUME OwnerInv, ViewsFollow, NEW s \in Imap, Starts(s)
    PROVE  ViewsFollow'
<1>1. job \in Jobs /\ s \in Actors /\ Imap \subseteq Actors
  BY TypeParts DEF OwnerInv, Actors
<1>2. job[s] = None /\ data' = data /\ sess' = sess
  BY DEF Starts, Busy
<1>3. PICK j : Begun(s, j) /\ job' = [job EXCEPT ![s] = j]
  BY DEF Starts
<1>4. j # None /\ Present(j, sess[s], data)
  BY <1>3, NoRecordAssumption DEF Begun
<1>5. ViewOK(None, sess[s], data)
  BY <1>2 DEF ViewsFollow
<1>6. ViewOK(j, sess[s], data)
  BY <1>3, <1>4, <1>5 DEF ViewOK, Begun
<1>7. ViewOK(job'[s], sess'[s], data)
  BY <1>1, <1>2, <1>3, <1>6 DEF Jobs
<1>8. \A x \in Imap \ {s} : job'[x] = job[x] /\ sess'[x] = sess[x]
  BY <1>1, <1>2, <1>3 DEF Jobs
<1>. QED  BY <1>2, <1>7, <1>8, ViewsOne

LEMMA ViewsOpens ==
    ASSUME OwnerInv, ViewsFollow, NEW a \in Actors, a \notin Imap, Opens(a)
    PROVE  ViewsFollow'
<1>1. job \in Jobs /\ Imap \subseteq Actors
  BY TypeParts DEF OwnerInv, Actors
<1>2. data' = data /\ sess' = sess
  BY DEF Opens
<1>3. PICK j : job' = [job EXCEPT ![a] = j]
  BY DEF Opens
<1>4. \A x \in Imap \ {a} : job'[x] = job[x] /\ sess'[x] = sess[x]
  BY <1>1, <1>2, <1>3 DEF Jobs
<1>. QED  BY <1>2, <1>4, ViewsOne

LEMMA ViewsLoad ==
    ASSUME OwnerInv, SessionJobs, ViewsFollow, NEW a \in Actors, LoadRecord(a)
    PROVE  ViewsFollow'
<1>1. job \in Jobs /\ Imap \subseteq Actors /\ data \in Table
  BY TypeParts DEF OwnerInv, Actors
<1>2. data' = data /\ sess' = sess
  BY DEF LoadRecord
<1>3. PICK u \in Uids : job' = [job EXCEPT ![a] = LoadedJob(job[a], data[Head(job[a].todo).doc], u)]
  BY LoadIs
<1>4. Busy(a) /\ job[a].cmd # "store" /\ job[a].todo # <<>> /\ ~job[a].loaded
  BY DEF LoadRecord
<1>5. /\ job[a] \in Job /\ JobOK(job[a], lastUid, owner) /\ job[a].cmd \notin Inserts
      /\ \A d \in Docs : job[a].held[d] = None
      /\ Head(job[a].todo) \in Item /\ Head(job[a].todo).doc \in Docs
      /\ ItemOK(Head(job[a].todo), job[a].cmd)
  BY <1>4, NothingLoaded
<1>6. \A x \in Imap \ {a} : job'[x] = job[x] /\ sess'[x] = sess[x]
  BY <1>1, <1>2, <1>3 DEF Jobs
<1>7. ASSUME a \in Imap PROVE ViewOK(job'[a], sess'[a], data)
  <2>1. SessionJob(job[a], sess[a]) /\ ViewOK(job[a], sess[a], data)
    BY <1>4, <1>7 DEF SessionJobs, ViewsFollow, Busy
  <2>2. PICK k \in Job : k = job[a]
    BY <1>5
  <2>3. PICK r \in Data \cup {None} : r = data[Head(k.todo).doc]
    BY <1>1, <1>5, <2>2 DEF Table
  <2>4. ViewOK(LoadedJob(k, r, u), sess[a], data)
    BY <1>1, <1>4, <1>5, <2>1, <2>2, <2>3, ViewLoaded
  <2>5. job'[a] = LoadedJob(k, r, u)
    BY <1>1, <1>3, <2>2, <2>3 DEF Jobs
  <2>. QED  BY <1>2, <2>4, <2>5
<1>. QED  BY <1>2, <1>6, <1>7, ViewsOne

LEMMA ViewsLoadForStore ==
    ASSUME OwnerInv, ViewsFollow, NEW a \in Actors, LoadForStore(a)
    PROVE  ViewsFollow'
<1>1. job \in Jobs /\ Imap \subseteq Actors
  BY TypeParts DEF OwnerInv, Actors
<1>2. data' = data /\ sess' = sess /\ job[a] # None
  BY DEF LoadForStore, Busy
<1>3. PICK j \in Job : job' = [job EXCEPT ![a] = j] /\ StoreOn(j, job[a])
  BY LoadForStoreIs
<1>4. \A x \in Imap \ {a} : job'[x] = job[x] /\ sess'[x] = sess[x]
  BY <1>1, <1>2, <1>3 DEF Jobs
<1>5. ASSUME a \in Imap PROVE ViewOK(job'[a], sess'[a], data)
  <2>1. ViewOK(job[a], sess[a], data) /\ job[a] \in Job
    BY <1>1, <1>2, <1>5 DEF ViewsFollow, Jobs
  <2>2. ViewOK(j, sess[a], data)
    BY <1>3, <2>1, ViewStoreOn
  <2>. QED  BY <1>1, <1>2, <1>3, <2>2 DEF Jobs
<1>. QED  BY <1>2, <1>4, <1>5, ViewsOne

LEMMA ViewsFinish ==
    ASSUME OwnerInv, ViewsFollow, NEW a \in Actors, Finish(a)
    PROVE  ViewsFollow'
<1>1. job \in Jobs /\ Imap \subseteq Actors /\ sess \in [Imap -> Session] /\ job[a] \in Job
  BY TypeParts DEF OwnerInv, Actors, Finish, Busy
<1>2. /\ data' = data /\ job[a] # None /\ job[a].todo = <<>> /\ job' = [job EXCEPT ![a] = None]
      /\ sess' = [s \in Imap |-> IF s = a THEN Informed(s, job[a]) ELSE sess[s]]
  BY DEF Finish, Busy
<1>3. \A x \in Imap \ {a} : job'[x] = job[x] /\ sess'[x] = sess[x]
  BY <1>1, <1>2 DEF Jobs
<1>4. ASSUME a \in Imap PROVE ViewOK(job'[a], sess'[a], data)
  <2>1. job'[a] = None /\ sess'[a] = Informed(a, job[a])
    BY <1>1, <1>2, <1>4 DEF Jobs
  <2>2. CASE job[a].cmd = "close"
    <3>1. Informed(a, job[a]).state = "authenticated"
      BY <2>2 DEF Informed, Unselected
    <3>. QED  BY <2>1, <3>1 DEF ViewOK
  <2>3. CASE job[a].cmd # "close"
    <3>1. sess[a] \in Session /\ ViewOK(job[a], sess[a], data)
      BY <1>1, <1>4 DEF ViewsFollow
    <3>2. ViewOK(None, [sess[a] EXCEPT !.view = Heard(sess[a], job[a])], data)
      BY <1>1, <1>2, <2>3, <3>1, ViewDone
    <3>. QED  BY <2>1, <2>3, <3>2 DEF Informed
  <2>. QED  BY <2>2, <2>3
<1>. QED  BY <1>2, <1>3, <1>4, ViewsOne

LEMMA ViewsCommit ==
    ASSUME OwnerInv, ViewsFollow, NEW a \in Actors, CommitStore(a)
    PROVE  ViewsFollow'
<1>1. TypeOK /\ job \in Jobs /\ Imap \subseteq Actors /\ data \in Table /\ sess \in [Imap -> Session]
  BY TypeParts DEF OwnerInv, Actors
<1>2. PICK j \in Job : job' = [job EXCEPT ![a] = j] /\ StoreOn(j, job[a])
  BY CommitIs
<1>3. job[a] \in Job
  BY <1>1, TypeParts DEF CommitStore, Busy
<1>4. \A s \in Imap : job'[s] = IF s = a THEN j ELSE job[s]
  BY <1>1, <1>2 DEF Jobs
<1>5. ASSUME NEW s \in Imap, NEW z, NEW dt, ViewOK(job[s], z, dt)
      PROVE  ViewOK(job'[s], z, dt)
  <2>1. CASE s = a
    <3>1. ViewOK(j, z, dt)
      BY <1>2, <1>3, <1>5, <2>1, ViewStoreOn
    <3>. QED  BY <1>4, <2>1, <3>1
  <2>2. CASE s # a
    BY <1>4, <1>5, <2>2
  <2>. QED  BY <2>1, <2>2
<1>6. CASE data' = data /\ sess' = sess
  <2>. SUFFICES ASSUME NEW s \in Imap PROVE ViewOK(job'[s], sess'[s], data')
    BY DEF ViewsFollow
  <2>1. ViewOK(job[s], sess[s], data)
    BY DEF ViewsFollow
  <2>2. ViewOK(job'[s], sess[s], data)
    BY <1>5, <2>1
  <2>. QED  BY <1>6, <2>2
<1>7. ASSUME NEW nd \in Table, Write(a, nd), FlagsOnly(nd, Head(job[a].todo))
      PROVE  ViewsFollow'
  <2>. SUFFICES ASSUME NEW s \in Imap PROVE ViewOK(job'[s], sess'[s], data')
    BY DEF ViewsFollow
  <2>1. /\ data' = nd /\ SameSession(sess'[s], sess[s]) /\ (~sess'[s].moved => ~sess[s].moved)
    BY <1>1, <1>7, WriteSessions
  <2>2. SessionOK(sess[s]) /\ (job[s] # None => job[s] \in Job /\ JobOK(job[s], lastUid, owner))
    BY <1>1, TypeParts DEF OwnerInv, RecordsOwned
  <2>3. ASSUME sess[s].state = "selected" PROVE Follows(data, nd, sess[s].box)
    <3>1. \A d \in Docs : (nd[d] = None <=> data[d] = None) /\ (data[d] # None => nd[d].uid = data[d].uid)
      BY <1>1, <1>7, FlagsKeep
    <3>2. SameUids(data, nd, sess[s].box)
      BY <3>1 DEF SameUids
    <3>. QED  BY <3>2, FollowsSame
  <2>4. ViewOK(job[s], sess[s], data)
    BY DEF ViewsFollow
  <2>5. ViewOK(job[s], sess'[s], nd)
    BY <1>1, <2>1, <2>2, <2>3, <2>4, ViewOther
  <2>6. ViewOK(job'[s], sess'[s], nd)
    BY <1>5, <2>5
  <2>. QED  BY <2>1, <2>6
<1>. QED  BY <1>6, <1>7, CommitIs

(* What the session's own write does to the list of the selected mailbox.      *)
LEMMA ViewWritten ==
    ASSUME data \in Table, NEW nd \in Table, NEW lu, NEW ow, OwnedAll(data, lu, ow),
           NEW s, NEW z2, SessionOK(sess[s]), SameSession(z2, sess[s]), ~z2.moved => ~sess[s].moved,
           ~z2.moved /\ sess[s].state = "selected" => ~Displaces(s, s, nd),
           NEW k \in Job, k.todo # <<>>, k.loaded, k.cmd # "store", JobOK(k, lu, ow),
           SessionJob(k, sess[s]), ViewOK(k, sess[s], data),
           NEW it \in Item, it = Head(k.todo), it.doc \in Docs, ItemOK(it, k.cmd),
           NEW r \in Data, r = k.held[it.doc],
           nd = [data EXCEPT ![it.doc] = Mutated(r, it)],
           k.cmd = "append" => data[it.doc] = None
    PROVE  ViewOK(WrittenJob(k), z2, nd)
<1>. DEFINE z == sess[s]
            w == WrittenJob(k)
<1>0. k # None /\ w # None /\ w.cmd = k.cmd
  <2>1. w \in Job /\ w.cmd = k.cmd
    BY WrittenJobIs
  <2>. QED  BY <2>1, NoRecordAssumption
<1>1. /\ nd[it.doc] = Mutated(r, it)
      /\ \A e \in Docs \ {it.doc} : nd[e] = data[e]
  BY DEF Table
<1>2. z.state = "selected" => z.box \in Boxes
  BY SessionParts
<1>3. z2.state = z.state /\ z2.box = z.box
  BY DEF SameSession
<1>4. z.state = "selected" => DoesTo(it, k.cmd, z.box)
  <2>1. 1 \in 1..Len(k.todo) /\ Head(k.todo) = k.todo[1]
    BY JobParts
  <2>. QED  BY <2>1 DEF SessionJob
<1>5. k.cmd \in {"fetch", "copy", "move", "expunge", "close", "append"}
  BY DEF SessionJob, ImapCommands
<1>6. it.act \in Filings => it.to \in Boxes
  BY DEF ItemOK
<1>. HIDE DEF z, w
<1>7. CASE k.cmd = "close"
  BY <1>0, <1>7 DEF ViewOK, w
<1>8. CASE k.cmd \in {"move", "expunge"}
  <2>1. ASSUME z.state = "selected" PROVE nd[it.doc] = None \/ nd[it.doc].uid[z.box] = 0
    <3>1. it.act = "delete" \/ (it.act \in {"unfile", "expunge", "move"} /\ it.from = z.box)
      BY <1>4, <1>8, <2>1 DEF DoesTo
    <3>2. /\ it.act = "delete" => Mutated(r, it) = None
          /\ it.act \in {"unfile", "expunge", "move"} /\ it.from \in Boxes => Mutated(r, it).uid[it.from] = 0
      BY <1>6, MutatedIs
    <3>. QED  BY <1>1, <1>2, <2>1, <3>1, <3>2
  <2>2. PICK d \in Docs : d = it.doc
    OBVIOUS
  <2>3. PICK x : x = sess[s]
    OBVIOUS
  <2>4. SessionOK(x) /\ SameSession(z2, x) /\ (~z2.moved => ~x.moved) /\ ViewOK(k, x, data)
    BY <2>3
  <2>5. d = Head(k.todo).doc /\ \A e \in Docs \ {d} : nd[e] = data[e]
    BY <1>1, <2>2
  <2>6. x.state = "selected" => nd[d] = None \/ nd[d].uid[x.box] = 0
    BY <2>1, <2>2, <2>3 DEF z
  <2>7. PICK dt \in Table : dt = data
    OBVIOUS
  <2>8. OwnedAll(dt, lu, ow) /\ ViewOK(k, x, dt) /\ \A e \in Docs \ {d} : nd[e] = dt[e]
    BY <2>4, <2>5, <2>7
  <2>9. k.todo # <<>> /\ k \in Job /\ nd \in Table /\ dt \in Table /\ d \in Docs
    OBVIOUS
  <2>. QED  BY ONLY <1>8, <2>4, <2>5, <2>6, <2>8, <2>9, ViewRemoved, Zenon
<1>9. CASE k.cmd \in {"fetch", "copy", "append"}
  <2>1. ASSUME z.state = "selected", ~z2.moved PROVE Follows(data, nd, z.box)
    <3>1. CASE k.cmd = "append"
      <4>1. data[it.doc] = None
        BY <3>1
      <4>. QED  BY <1>1, <1>2, <2>1, <4>1, FollowsAppended DEF z
    <3>2. CASE k.cmd \in {"fetch", "copy"}
      <4>1. Present(k, z, data)
        BY <1>0, <2>1, <3>2 DEF ViewOK, z
      <4>2. 1 \in 1..Len(k.todo) /\ Head(k.todo) = k.todo[1]
        BY JobParts
      <4>3. data[it.doc] # None /\ r.uid[z.box] = data[it.doc].uid[z.box]
        BY <4>1, <4>2 DEF Present
      <4>4. DoesTo(it, k.cmd, z.box) /\ z.box \in Boxes
        BY <1>2, <1>4, <2>1
      <4>5. Mutated(r, it) \in Data /\ Mutated(r, it).uid[z.box] = r.uid[z.box]
        <5>1. CASE k.cmd = "fetch"
          <6>1. it.act = "seen"
            BY <4>4, <5>1 DEF DoesTo
          <6>2. /\ it.act # "delete" => Mutated(r, it) \in Data
                /\ it.act \in {"seen", "plus", "minus", "replace", "insert"} => Mutated(r, it).uid = r.uid
            BY <1>6, MutatedIs
          <6>. QED  BY <6>1, <6>2
        <5>2. CASE k.cmd = "copy"
          <6>1. it.act = "file" /\ it.to # z.box /\ it.to \in Boxes
            BY <1>6, <4>4, <5>2 DEF DoesTo, Filings
          <6>2. Mutated(r, it) = Filed(r, it.to, it.uid)
            BY <1>6, <6>1, MutatedIs
          <6>3. it.uid \in Uids
            BY DEF Item
          <6>4. /\ Filed(r, it.to, it.uid) \in Data
                /\ \A x \in Boxes : Filed(r, it.to, it.uid).uid[x] =
                     IF x = it.to /\ r.uid[it.to] = 0 THEN it.uid ELSE r.uid[x]
            BY ONLY <6>1, <6>3, r \in Data, FiledIs
          <6>. QED  BY <4>4, <6>1, <6>2, <6>4
        <5>. QED  BY <3>2, <5>1, <5>2
      <4>6. SameUids(data, nd, z.box)
        <5>1. Mutated(r, it) # None
          BY <4>5, NoRecordAssumption
        <5>. QED  BY <1>1, <4>3, <4>5, <5>1 DEF SameUids
      <4>. QED  BY <4>6, FollowsSame
    <3>. QED  BY <1>9, <3>1, <3>2
  <2>2. ViewOK(k, z2, nd)
    BY <2>1, ViewOther DEF z
  <2>3. k.cmd \notin {"move", "expunge"}
    BY <1>9
  <2>. QED  BY <2>2, <2>3, ViewTail
<1>. QED  BY <1>5, <1>7, <1>8, <1>9

LEMMA ViewsWrite ==
    ASSUME AccessInv, OwnerInv', NEW a \in Actors, WriteRecord(a)
    PROVE  ViewsFollow'
<1>0. OwnerInv /\ InsertsApart /\ SessionJobs /\ ViewsFollow
  BY DEF AccessInv
<1>1. TypeOK /\ job \in Jobs /\ Imap \subseteq Actors /\ data \in Table /\ sess \in [Imap -> Session]
  BY <1>0, TypeParts DEF OwnerInv, Actors
<1>2. PICK k \in Job, it \in Item, r \in Data :
             /\ k = job[a] /\ k.todo # <<>> /\ k.loaded /\ k.cmd # "store" /\ it = Head(k.todo)
             /\ it.doc \in Docs /\ r = k.held[it.doc] /\ ItemOK(it, k.cmd) /\ JobOK(k, lastUid, owner)
             /\ Owned(r, it.doc, lastUid, owner) /\ Drawn(it, lastUid, owner)
             /\ [data EXCEPT ![it.doc] = Mutated(r, it)] \in Table
             /\ Write(a, [data EXCEPT ![it.doc] = Mutated(r, it)])
             /\ job' = [job EXCEPT ![a] = WrittenJob(k)]
  BY <1>0, WriteIs
<1>3. PICK nd \in Table : nd = [data EXCEPT ![it.doc] = Mutated(r, it)]
  BY <1>2
<1>4. Write(a, nd) /\ lastUid' = lastUid /\ owner' = owner
  BY <1>2, <1>3 DEF WriteRecord
<1>5. data' = nd
  BY <1>1, <1>4, WriteSessions
<1>6. OwnedAll(data, lastUid, owner)
  BY <1>0 DEF OwnerInv, RecordsOwned, OwnedAll
<1>7. OwnedAll(nd, lastUid, owner)
  BY <1>4, <1>5 DEF OwnerInv, RecordsOwned, OwnedAll, Owned
<1>. SUFFICES ASSUME NEW s \in Imap PROVE ViewOK(job'[s], sess'[s], data')
  BY DEF ViewsFollow
<1>8. /\ SameSession(sess'[s], sess[s]) /\ (~sess'[s].moved => ~sess[s].moved)
      /\ (~sess'[s].moved /\ sess[s].state = "selected" => ~Displaces(a, s, nd))
  BY <1>1, <1>4, WriteSessions
<1>9. SessionOK(sess[s]) /\ (job[s] # None => job[s] \in Job /\ JobOK(job[s], lastUid, owner))
  BY <1>0, <1>1, TypeParts DEF OwnerInv, RecordsOwned
<1>10. ViewOK(job[s], sess[s], data)
  BY <1>0 DEF ViewsFollow
<1>11. CASE s # a
  <2>1. ASSUME sess[s].state = "selected", ~sess'[s].moved PROVE Follows(data, nd, sess[s].box)
    <3>1. sess[s].box \in Boxes
      BY <1>9, <2>1, SessionParts
    <3>2. ~Displaces(a, s, nd)
      BY <1>8, <2>1
    <3>. QED  BY <1>1, <1>6, <1>7, <1>11, <3>1, <3>2, FollowsUndisplaced
  <2>2. ViewOK(job[s], sess'[s], nd)
    BY <1>1, <1>8, <1>9, <1>10, <2>1, ViewOther
  <2>3. job'[s] = job[s]
    BY <1>1, <1>2, <1>11 DEF Jobs
  <2>. QED  BY <1>5, <2>2, <2>3
<1>12. CASE s = a
  <2>1. k # None /\ k = job[s]
    BY <1>2, <1>12, NoRecordAssumption
  <2>2. SessionJob(k, sess[s]) /\ ViewOK(k, sess[s], data)
    BY <1>0, <1>10, <2>1 DEF SessionJobs
  <2>3. k.cmd = "append" => data[it.doc] = None
    BY <1>0, <1>2, <2>1 DEF InsertsApart, Inserting, Inserts
  <2>4. ~sess'[s].moved /\ sess[s].state = "selected" => ~Displaces(s, s, nd)
    BY <1>8, <1>12
  <2>5. ViewOK(WrittenJob(k), sess'[s], nd)
    BY <1>1, <1>2, <1>3, <1>6, <1>8, <1>9, <2>2, <2>3, <2>4, ViewWritten
  <2>6. job'[s] = WrittenJob(k)
    BY <1>1, <1>2, <1>12 DEF Jobs
  <2>. QED  BY <1>5, <2>5, <2>6
<1>. QED  BY <1>11, <1>12

LEMMA ViewsRestart ==
    ASSUME Restart
    PROVE  ViewsFollow'
<1>1. \A s \in Imap : sess'[s].state = "authenticated"
  BY DEF Restart, Unselected
<1>. QED  BY <1>1 DEF ViewsFollow, ViewOK

LEMMA ViewsNext ==
    ASSUME AccessInv, [Next]_vars
    PROVE  ViewsFollow'
<1>0. OwnerInv /\ TypeOK /\ InsertsApart /\ SessionJobs /\ ViewsFollow
  BY DEF AccessInv, OwnerInv
<1>1. OwnerInv'
  BY <1>0, OwnerNext
<1>2. CASE UNCHANGED vars
  <2>1. data' = data /\ sess' = sess /\ job' = job
    BY <1>2 DEF vars
  <2>. QED  BY <1>0, <2>1 DEF ViewsFollow
<1>3. CASE Next
  <2>0. Pop3 \subseteq Actors /\ Jmap \subseteq Actors /\ Pop3 \cap Imap = {} /\ Jmap \cap Imap = {}
    BY AccessAssumption DEF Actors
  <2>1. CASE \E a \in Actors, cmd \in Inserts, d \in fresh, boxes \in SUBSET Boxes, kw \in SUBSET Keywords :
                Insert(a, cmd, d, boxes, kw)
    BY <1>0, <2>1, ViewsInsert
  <2>2. CASE \E s \in Imap, b \in Boxes, examine \in BOOLEAN : Select(s, b, examine)
    BY <1>0, <2>2, ViewsSelect
  <2>3. CASE \E s \in Imap : SessionStep(s) \/ Starts(s)
    BY <1>0, <2>3, ViewsSessionStep, ViewsStarts
  <2>4. ASSUME NEW p \in Pop3, DropStep(p) PROVE ViewsFollow'
    <3>1. data' = data /\ sess' = sess /\ job' = job
      BY <1>0, <2>4, DropStepIs
    <3>. QED  BY <1>0, <3>1 DEF ViewsFollow
  <2>5. ASSUME NEW c \in Pop3 \cup Jmap, Opens(c) PROVE ViewsFollow'
    <3>1. c \in Actors /\ c \notin Imap
      BY <2>0
    <3>. QED  BY <1>0, <2>5, <3>1, ViewsOpens
  <2>6. ASSUME NEW a \in Actors,
               LoadRecord(a) \/ WriteRecord(a) \/ LoadForStore(a) \/ CommitStore(a) \/ Finish(a)
        PROVE  ViewsFollow'
    BY <1>0, <1>1, <2>6, ViewsLoad, ViewsWrite, ViewsLoadForStore, ViewsCommit, ViewsFinish
  <2>7. CASE Restart
    BY <2>7, ViewsRestart
  <2>. QED  BY <1>0, <1>3, <2>1, <2>2, <2>3, <2>4, <2>5, <2>6, <2>7, NextCases
<1>. QED  BY <1>2, <1>3

----------------------------------------------------------------------------
(* The theorems.                                                               *)

LEMMA AccessInit == Init => AccessInv
<1>. SUFFICES ASSUME Init PROVE AccessInv
  OBVIOUS
<1>1. OwnerInv
  BY OwnerInit
<1>2. \A a \in Actors : job[a] = None
  BY DEF Init
<1>3. \A d \in fresh : data[d] = None
  BY DEF Init
<1>4. InsertsApart
  BY <1>2, <1>3 DEF InsertsApart
<1>5. \A s \in Imap : job[s] = None /\ sess[s].state = "authenticated"
  BY <1>2 DEF Init, Unselected, Actors
<1>6. SessionJobs /\ ViewsFollow
  BY <1>5 DEF SessionJobs, ViewsFollow, ViewOK
<1>. QED  BY <1>1, <1>4, <1>6 DEF AccessInv

LEMMA AccessNext == AccessInv /\ [Next]_vars => AccessInv'
<1>. SUFFICES ASSUME AccessInv, [Next]_vars PROVE AccessInv'
  OBVIOUS
<1>1. OwnerInv /\ InsertsApart /\ SessionJobs
  BY DEF AccessInv
<1>2. OwnerInv' /\ InsertsApart' /\ SessionJobs'
  BY <1>1, OwnerNext, ApartNext, JobsNext
<1>. QED  BY <1>2, ViewsNext DEF AccessInv

(* The inductive invariant: records and drawn UIDs belong to the documents     *)
(* next_uid was called for, a document being inserted is nobody else's, a      *)
(* session's command does to its mailbox what its kind allows, and the         *)
(* responses still to come keep the client's list a prefix of the server's.    *)
THEOREM AccessInvariant == Spec => []AccessInv
<1>. QED  BY AccessInit, AccessNext, PTL DEF Spec

(* Every variable keeps its type, and a session has a mailbox exactly while it *)
(* is in the selected state, through every SELECT, CLOSE, UNSELECT and restart *)
(* (SessionState of imap/src/session.rs).                                      *)
THEOREM AccessTypes == Spec => []TypeOK
<1>1. AccessInv => TypeOK
  BY DEF AccessInv, OwnerInv
<1>. QED  BY <1>1, AccessInvariant, PTL

(* A UID of a mailbox means one message for ever, for any number of sessions,  *)
(* calls and deliveries racing over the records (Mailbox::next_uid, and        *)
(* update_message's unconditional write-back).                                 *)
THEOREM UidsOwned == Spec => []UidOwner
<1>1. ASSUME AccessInv PROVE UidOwner
  <2>. SUFFICES ASSUME NEW d \in Docs, NEW b \in Boxes, data[d] # None, data[d].uid[b] # 0
                PROVE  owner[b][data[d].uid[b]] = d
    BY DEF UidOwner
  <2>1. Owned(data[d], d, lastUid, owner)
    BY <1>1 DEF AccessInv, OwnerInv, RecordsOwned
  <2>. QED  BY <2>1 DEF Owned
<1>. QED  BY <1>1, AccessInvariant, PTL

(* The sequence numbers an IMAP client has been told of name the messages the  *)
(* server resolves them to, while no other actor has moved messages under the  *)
(* session: EXISTS, EXPUNGE renumbering and VANISHED together keep the         *)
(* client's list a prefix of the server's.                                     *)
THEOREM ViewsFollowMailbox == Spec => []ViewFollows
<1>1. ASSUME AccessInv PROVE ViewFollows
  <2>. SUFFICES ASSUME NEW s \in Imap, sess[s].state = "selected", ~Busy(s), ~sess[s].moved
                PROVE  IsPrefix(sess[s].view, List(data, sess[s].box))
    BY DEF ViewFollows
  <2>1. ViewOK(None, sess[s], data)
    BY <1>1 DEF AccessInv, ViewsFollow, Busy
  <2>. QED  BY <2>1 DEF ViewOK
<1>. QED  BY <1>1, AccessInvariant, PTL

(* STORE writes the record that is in the store at that instant with nothing   *)
(* but its own flag changed, whatever was written since it read the record     *)
(* (the assertions of update_messages and its retries).                        *)
THEOREM StoreMergesWrites == Spec => StoreMerges
<1>1. ASSUME AccessInv, NEW s \in Imap, CommitStore(s), NEW d \in Docs, data'[d] # data[d]
      PROVE  data[d] # None /\ data'[d] = Mutated(data[d], Head(job[s].todo))
  <2>1. OwnerInv /\ TypeOK /\ s \in Actors
    BY <1>1 DEF AccessInv, OwnerInv, Actors
  <2>2. PICK nd \in Table : Write(s, nd) /\ FlagsOnly(nd, Head(job[s].todo))
    BY <1>1, <2>1, CommitIs
  <2>3. data' = nd
    BY <2>2 DEF Write
  <2>. QED  BY <1>1, <2>2, <2>3 DEF FlagsOnly
<1>2. ASSUME AccessInv PROVE [\A s \in Imap :
         CommitStore(s) =>
           \A d \in Docs : data'[d] # data[d] =>
             /\ data[d] # None
             /\ data'[d] = Mutated(data[d], Head(job[s].todo))]_vars
  BY <1>1, <1>2
<1>. QED  BY <1>2, AccessInvariant, PTL DEF StoreMerges
=============================================================================
