------------------------- MODULE SmtpSessionProofs -------------------------
(* The stages of an SMTP session agree with what it holds, what it accepts is *)
(* of one transaction, and its reply says what became of the message: the     *)
(* proofs of TypeOK, OneTransaction, AckAccounts and RefusalKeepsNothing.     *)
EXTENDS SmtpSession, TLAPS

(* The inductive form of OneTransaction: the session itself holds recipients  *)
(* of the transaction under way and of the present channel only, and chunks   *)
(* of no other transaction while there is one.                                *)
HeldTogether ==
    Connected =>
        /\ \A i \in DOMAIN sess.rcpts : sess.rcpts[i].tx = sess.tx /\ sess.rcpts[i].tls = sess.tls
        /\ sess.tx # 0 => sess.chunks \subseteq {sess.tx}

(* deliver_inbound has an outcome for each recipient it has been through.     *)
JobShape(j) ==
    /\ j.stage \in {"queue", "rate", "judge", "resolve"} => j.got = <<>>
    /\ j.stage = "file" => Len(j.got) + 1 = j.at
    /\ Len(j.got) <= Len(j.held)

SmtpInv ==
    /\ TypeOK /\ HeldTogether /\ OneTransaction
    /\ Accepted => JobShape(job)

LEMMA ResetType ==
    ASSUME NEW s \in Session
    PROVE  /\ ResetTransaction(s) \in Session
           /\ ResetTransaction(s).tx = 0 /\ ResetTransaction(s).rcpts = <<>>
           /\ ResetTransaction(s).job = s.job
<1>1. 0 \in 0..MaxMails /\ <<>> \in Seq(Path)
  BY SmtpAssumption
<1>. QED  BY <1>1 DEF ResetTransaction, Session, Sender

LEMMA NewSessionType ==
    ASSUME NEW mode \in Modes, NEW tls \in BOOLEAN, NEW listed \in BOOLEAN
    PROVE  NewSession(mode, tls, listed) \in Session
BY SmtpAssumption DEF NewSession, Session, Sender

(* The session becomes s, which reads its next command.                       *)
LEMMA CommandStep ==
    ASSUME SmtpInv, NEW s \in Session, sess' = s, s.job = None,
           dir' = dir, lastTx' \in 0..MaxMails,
           s.tx # 0 <=> s.stage \in {"mail", "rcpt"},
           s.rcpts # <<>> <=> s.stage = "rcpt",
           \A i \in DOMAIN s.rcpts : s.rcpts[i].tx = s.tx /\ s.rcpts[i].tls = s.tls,
           s.tx # 0 => s.chunks \subseteq {s.tx}
    PROVE  SmtpInv'
BY DEF SmtpInv, TypeOK, HeldTogether, OneTransaction, Accepted, job, Ready, Connected

(* There is no connection any more. *)
LEMMA CloseStep ==
    ASSUME SmtpInv, sess' = None, dir' = dir, lastTx' = lastTx
    PROVE  SmtpInv'
BY DEF SmtpInv, TypeOK, HeldTogether, OneTransaction, Accepted, job, Ready, Connected

(* The body being handled moves on to j. *)
LEMMA JobStep ==
    ASSUME SmtpInv, Accepted, NEW j \in Job, NEW s \in Session,
           sess' = [s EXCEPT !.job = j], s.tx = sess.tx, s.rcpts = sess.rcpts,
           s.chunks = sess.chunks, s.tls = sess.tls,
           dir' = dir, lastTx' = lastTx, JobShape(j),
           j.tx = job.tx, j.rcpts = job.rcpts, j.body = job.body
    PROVE  SmtpInv'
<1>1. sess' \in Session /\ sess'.job = j /\ sess'.tx = sess.tx /\ sess'.rcpts = sess.rcpts
      /\ sess'.chunks = sess.chunks /\ sess'.tls = sess.tls
  BY DEF Session
<1>2. CASE j = None \/ sess' = None
  BY <1>1, <1>2, NoneAssumption
<1>3. CASE j # None /\ sess' # None
  <2>1. TypeOK'
    BY <1>1, <1>3 DEF SmtpInv, TypeOK, Ready, Connected
  <2>2. HeldTogether'
    BY <1>1 DEF SmtpInv, HeldTogether, Connected, Accepted
  <2>3. OneTransaction' /\ JobShape(job)'
    BY <1>1 DEF SmtpInv, OneTransaction, Accepted, Connected, job, JobShape
  <2>. QED  BY <2>1, <2>2, <2>3 DEF SmtpInv
<1>. QED  BY <1>2, <1>3

----------------------------------------------------------------------------
LEMMA ConnectionStep ==
    ASSUME SmtpInv, Connect \/ Quit \/ Greet \/ Rset \/ StartTls \/ Auth \/ BdatRejected
    PROVE  SmtpInv'
<1>0. lastTx' \in 0..MaxMails /\ dir' = dir /\ lastTx' = lastTx
  BY DEF Connect, Quit, Greet, Rset, StartTls, Auth, BdatRejected, SmtpInv, TypeOK
<1>1. ASSUME NEW mode \in Modes, NEW tls \in BOOLEAN, NEW listed \in BOOLEAN,
             sess' = NewSession(mode, tls, listed)
      PROVE  SmtpInv'
  <2>. DEFINE s == NewSession(mode, tls, listed)
  <2>1. s \in Session /\ s.job = None /\ s.tx = 0 /\ s.rcpts = <<>> /\ s.stage = "connected"
    BY NewSessionType DEF NewSession
  <2>. HIDE DEF s
  <2>. QED  BY <1>0, <1>1, <2>1, CommandStep DEF s
<1>2. CASE Connect
  BY <1>1, <1>2 DEF Connect, SetSession
<1>3. CASE Quit
  BY <1>0, <1>3, CloseStep DEF Quit, SetSession
<1>4. ASSUME Ready PROVE sess \in Session /\ sess.job = None
  BY <1>4 DEF Ready, Connected, SmtpInv, TypeOK
<1>5. CASE Greet
  <2>. DEFINE s == [ResetTransaction(sess) EXCEPT !.chunks = {}, !.stage = "greeted"]
  <2>1. sess \in Session /\ sess.job = None /\ sess' = s
    BY <1>4, <1>5 DEF Greet, SetSession
  <2>2. s \in Session /\ s.job = None /\ s.tx = 0 /\ s.rcpts = <<>> /\ s.stage = "greeted"
    BY <2>1, ResetType DEF Session
  <2>. HIDE DEF s
  <2>. QED  BY <1>0, <2>1, <2>2, CommandStep
<1>6. CASE Rset
  <2>. DEFINE stage == IF ResetTransaction(sess).stage = "connected" THEN "connected" ELSE "greeted"
              s == [ResetTransaction(sess) EXCEPT !.chunks = {}, !.stage = stage]
  <2>1. sess \in Session /\ sess.job = None /\ sess' = s
    BY <1>4, <1>6 DEF Rset, SetSession
  <2>2. stage \in {"connected", "greeted"}
    OBVIOUS
  <2>. HIDE DEF stage
  <2>3. s \in Session /\ s.job = None /\ s.tx = 0 /\ s.rcpts = <<>> /\ s.stage = stage
    BY <2>1, <2>2, ResetType DEF Session
  <2>. HIDE DEF s
  <2>. QED  BY <1>0, <2>1, <2>2, <2>3, CommandStep
<1>7. CASE StartTls
  BY <1>1, <1>4, <1>7 DEF StartTls, SetSession, Session
<1>8. CASE Auth
  <2>. DEFINE s == [sess EXCEPT !.auth = TRUE]
  <2>1. sess \in Session /\ sess.job = None /\ sess' = s /\ Ready
    BY <1>4, <1>8 DEF Auth, SetSession
  <2>2. s \in Session /\ s.job = None /\ s.tx = sess.tx /\ s.rcpts = sess.rcpts
        /\ s.stage = sess.stage /\ s.chunks = sess.chunks /\ s.tls = sess.tls
    BY <2>1 DEF Session
  <2>. HIDE DEF s
  <2>. QED  BY <1>0, <2>1, <2>2, CommandStep DEF SmtpInv, TypeOK, HeldTogether, Ready
<1>9. CASE BdatRejected
  <2>. DEFINE s == [sess EXCEPT !.chunks = {}]
  <2>1. sess \in Session /\ sess.job = None /\ sess' = s /\ Ready
    BY <1>4, <1>9 DEF BdatRejected, SetSession
  <2>2. s \in Session /\ s.job = None /\ s.tx = sess.tx /\ s.rcpts = sess.rcpts
        /\ s.stage = sess.stage /\ s.chunks = {} /\ s.tls = sess.tls
    BY <2>1 DEF Session
  <2>. HIDE DEF s
  <2>. QED  BY <1>0, <2>1, <2>2, CommandStep DEF SmtpInv, TypeOK, HeldTogether, Ready
<1>. QED  BY <1>2, <1>3, <1>5, <1>6, <1>7, <1>8, <1>9

LEMMA TransactionStep ==
    ASSUME SmtpInv, Mail \/ (\E r \in Rcpts : Rcpt(r)) \/ TooLarge \/ Bdat
    PROVE  SmtpInv'
<1>0. /\ sess \in Session /\ sess.job = None /\ dir' = dir /\ Ready /\ Connected
      /\ lastTx \in 0..MaxMails
  BY DEF Mail, Rcpt, TooLarge, Bdat, Ready, Connected, SmtpInv, TypeOK
<1>1. CASE Mail
  <2>1. lastTx + 1 \in Tx /\ lastTx + 1 \in 0..MaxMails /\ lastTx + 1 # 0 /\ lastTx' = lastTx + 1
    <3>1. lastTx < MaxMails /\ lastTx' = lastTx + 1
      BY <1>1 DEF Mail
    <3>. QED  BY <1>0, <3>1, SmtpAssumption DEF Tx
  <2>2. PICK from \in Sender :
          sess' = [ResetTransaction(sess) EXCEPT
                     !.chunks = {}, !.tx = lastTx + 1, !.from = from, !.stage = "mail"]
    BY <1>1 DEF Mail, SetSession
  <2>. DEFINE s == [ResetTransaction(sess) EXCEPT
                     !.chunks = {}, !.tx = lastTx + 1, !.from = from, !.stage = "mail"]
  <2>3. s \in Session /\ s.job = None /\ s.tx = lastTx + 1 /\ s.rcpts = <<>>
        /\ s.stage = "mail" /\ s.chunks = {}
    BY <1>0, <2>1, ResetType DEF Session
  <2>4. sess' = s
    BY <2>2
  <2>. HIDE DEF s
  <2>5. lastTx' \in 0..MaxMails /\ s.tx # 0 /\ s.stage \in {"mail", "rcpt"} /\ s.stage # "rcpt"
    BY <2>1, <2>3
  <2>. QED  BY <1>0, <2>3, <2>4, <2>5, CommandStep
<1>2. ASSUME NEW r \in Rcpts, Rcpt(r) PROVE SmtpInv'
  <2>. DEFINE path == [addr |-> r, tx |-> sess.tx, tls |-> sess.tls]
              s == [sess EXCEPT !.rcpts = Append(@, path), !.stage = "rcpt"]
  <2>1. sess' = s /\ lastTx' = lastTx /\ sess.tx # 0 /\ sess.tx \in Tx
    <3>1. sess' = s /\ lastTx' = lastTx /\ sess.tx # 0
      BY <1>2 DEF Rcpt, SetSession
    <3>2. sess.tx \in 0..MaxMails
      BY <1>0 DEF Session
    <3>. QED  BY <3>1, <3>2, SmtpAssumption DEF Tx
  <2>2. path \in Path /\ sess.rcpts \in Seq(Path) /\ path.tx = sess.tx /\ path.tls = sess.tls
    BY <1>0, <2>1 DEF Path, Session
  <2>. HIDE DEF path
  <2>3. Append(sess.rcpts, path) \in Seq(Path) /\ Append(sess.rcpts, path) # <<>>
    BY <2>2
  <2>4. s \in Session /\ s.job = None /\ s.tx = sess.tx /\ s.rcpts = Append(sess.rcpts, path)
        /\ s.stage = "rcpt" /\ s.chunks = sess.chunks /\ s.tls = sess.tls
    BY <1>0, <2>3 DEF Session
  <2>5. \A i \in DOMAIN Append(sess.rcpts, path) :
          Append(sess.rcpts, path)[i].tx = sess.tx /\ Append(sess.rcpts, path)[i].tls = sess.tls
    BY <1>0, <2>2 DEF SmtpInv, HeldTogether
  <2>6. s.tx # 0 => s.chunks \subseteq {s.tx}
    BY <1>0, <2>4 DEF SmtpInv, HeldTogether
  <2>. HIDE DEF s
  <2>. QED  BY <1>0, <2>1, <2>3, <2>4, <2>5, <2>6, CommandStep
<1>3. CASE TooLarge
  <2>1. PICK chunks \in {sess.chunks, {}} :
          sess' = [ResetTransaction(sess) EXCEPT !.chunks = chunks, !.stage = "greeted"]
    BY <1>3 DEF TooLarge, SetSession
  <2>. DEFINE s == [ResetTransaction(sess) EXCEPT !.chunks = chunks, !.stage = "greeted"]
  <2>2. chunks \subseteq Tx /\ lastTx' = lastTx
    BY <1>0, <1>3, <2>1 DEF Session, TooLarge
  <2>3. s \in Session /\ s.job = None /\ s.tx = 0 /\ s.rcpts = <<>> /\ s.stage = "greeted"
    BY <1>0, <2>2, ResetType DEF Session
  <2>4. sess' = s /\ lastTx' \in 0..MaxMails
    BY <1>0, <2>1, <2>2
  <2>. HIDE DEF s
  <2>. QED  BY <1>0, <2>3, <2>4, CommandStep
<1>4. CASE Bdat
  <2>. DEFINE s == [sess EXCEPT !.chunks = @ \cup {sess.tx}]
  <2>1. sess' = s /\ lastTx' = lastTx /\ sess.stage = "rcpt"
    BY <1>4 DEF Bdat, SetSession
  <2>2. sess.tx \in Tx /\ sess.tx # 0
    BY <1>0, <2>1, SmtpAssumption DEF SmtpInv, TypeOK, Session, Tx
  <2>3. s \in Session /\ s.job = None /\ s.tx = sess.tx /\ s.rcpts = sess.rcpts
        /\ s.stage = sess.stage /\ s.tls = sess.tls /\ s.chunks = sess.chunks \cup {sess.tx}
    BY <1>0, <2>2 DEF Session
  <2>. HIDE DEF s
  <2>4. /\ s.tx # 0 <=> s.stage \in {"mail", "rcpt"}
        /\ s.rcpts # <<>> <=> s.stage = "rcpt"
    BY <1>0, <2>3 DEF SmtpInv, TypeOK
  <2>5. /\ \A i \in DOMAIN s.rcpts : s.rcpts[i].tx = s.tx /\ s.rcpts[i].tls = s.tls
        /\ s.tx # 0 => s.chunks \subseteq {s.tx}
    BY <1>0, <2>3 DEF SmtpInv, HeldTogether
  <2>. QED  BY <1>0, <2>1, <2>3, <2>4, <2>5, CommandStep
<1>. QED  BY <1>1, <1>2, <1>3, <1>4

----------------------------------------------------------------------------
(* The session becomes s, which has handed a body over. *)
LEMMA AcceptStep ==
    ASSUME SmtpInv, NEW s \in Session, sess' = s, s.job \in Job,
           dir' = dir, lastTx' = lastTx, s.tx = 0, s.rcpts = <<>>, JobShape(s.job),
           s.job.body = {s.job.tx},
           \A i \in DOMAIN s.job.rcpts :
                s.job.rcpts[i].tx = s.job.tx /\ s.job.rcpts[i].tls = s.tls
    PROVE  SmtpInv'
<1>1. s # None /\ s.job # None
  BY NoneAssumption
<1>. QED  BY <1>1 DEF SmtpInv, TypeOK, HeldTogether, OneTransaction, Accepted, job, Ready, Connected

LEMMA BodyStep ==
    ASSUME SmtpInv, Data \/ BdatLast
    PROVE  SmtpInv'
<1>1. /\ sess \in Session /\ dir' = dir /\ lastTx' = lastTx /\ Ready /\ Connected
      /\ sess.stage = "rcpt"
  BY DEF Data, BdatLast, Ready, Connected, SmtpInv, TypeOK
<1>2. sess.tx \in Tx /\ sess.chunks \subseteq {sess.tx} /\ sess.rcpts \in Seq(Path)
  <2>1. sess.tx # 0 /\ sess.tx \in 0..MaxMails /\ sess.rcpts \in Seq(Path)
    BY <1>1 DEF SmtpInv, TypeOK, Session
  <2>2. sess.chunks \subseteq {sess.tx}
    BY <1>1, <2>1 DEF SmtpInv, HeldTogether
  <2>. QED  BY <2>1, <2>2, SmtpAssumption DEF Tx
<1>. DEFINE
       stage == IF sess.mode = "submission" THEN "queue" ELSE "rate"
       j == [stage |-> stage,
             tx |-> sess.tx, from |-> sess.from, rcpts |-> sess.rcpts, body |-> {sess.tx},
             at |-> 1, held |-> <<>>, got |-> <<>>,
             fate |-> [r \in Rcpts |-> {}], lost |-> {}, reply |-> "none"]
<1>3. stage \in {"queue", "rate"}
  OBVIOUS
<1>4. sess' = [sess EXCEPT !.tx = 0, !.rcpts = <<>>, !.job = j]
      \/ sess' = [sess EXCEPT !.tx = 0, !.rcpts = <<>>, !.job = j, !.chunks = {}]
  <2>1. CASE Data
    BY <2>1 DEF Data, SetSession, Accept
  <2>2. CASE BdatLast
    <3>1. sess.chunks \cup {sess.tx} = {sess.tx}
      BY <1>2
    <3>. QED  BY <2>2, <3>1 DEF BdatLast, SetSession, Accept
  <2>. QED  BY <2>1, <2>2
<1>. HIDE DEF stage
<1>5. j \in Job
  <2>1. sess.from \in Sender
    BY <1>1 DEF Session
  <2>2. 1 \in Nat \ {0} /\ <<>> \in Seq(Rcpts) /\ <<>> \in Seq(Delivery)
    OBVIOUS
  <2>3. [r \in Rcpts |-> {}] \in [Rcpts -> SUBSET {"queued", "forwarded", "filed", "discarded",
                                               "relayed", "bounced", "dropped"}]
    OBVIOUS
  <2>. QED  BY <1>2, <1>3, <2>1, <2>2, <2>3 DEF Job
<1>6. JobShape(j)
  <2>1. j.stage = stage /\ j.got = <<>> /\ j.held = <<>>
    OBVIOUS
  <2>. HIDE DEF j
  <2>. QED  BY <1>3, <2>1 DEF JobShape
<1>7. j.tx = sess.tx /\ j.rcpts = sess.rcpts /\ j.body = {sess.tx}
  OBVIOUS
<1>. HIDE DEF j
<1>8. PICK s : /\ sess' = s /\ s \in Session /\ s.job = j /\ s.tx = 0 /\ s.rcpts = <<>>
               /\ s.tls = sess.tls
  <2>1. 0 \in 0..MaxMails /\ <<>> \in Seq(Path)
    BY SmtpAssumption
  <2>2. sess' \in Session /\ sess'.job = j /\ sess'.tx = 0 /\ sess'.rcpts = <<>>
        /\ sess'.tls = sess.tls
    BY <1>1, <1>4, <1>5, <2>1 DEF Session
  <2>. QED  BY <2>2
<1>9. \A i \in DOMAIN j.rcpts : j.rcpts[i].tx = j.tx /\ j.rcpts[i].tls = sess.tls
  BY <1>1, <1>7 DEF SmtpInv, HeldTogether
<1>10. s.job \in Job /\ JobShape(s.job) /\ s.job.body = {s.job.tx}
       /\ \A i \in DOMAIN s.job.rcpts : s.job.rcpts[i].tx = s.job.tx /\ s.job.rcpts[i].tls = s.tls
  BY <1>5, <1>6, <1>7, <1>8, <1>9
<1>. QED  BY <1>1, <1>8, <1>10, AcceptStep

----------------------------------------------------------------------------
(* What every step on an accepted body keeps of it. *)
Keeps(j, k) == k.tx = j.tx /\ k.rcpts = j.rcpts /\ k.body = j.body

LEMMA MoveType ==
    ASSUME NEW j \in Job,
           NEW stage \in {"queue", "rate", "judge", "resolve", "file", "settle", "reply"},
           NEW reply \in {"none", "ok", "refused"}
    PROVE  /\ Goto(j, stage) \in Job /\ Keeps(j, Goto(j, stage))
           /\ Goto(j, stage).stage = stage /\ Goto(j, stage).at = 1
           /\ Goto(j, stage).got = j.got /\ Goto(j, stage).held = j.held
           /\ Answered(j, reply) \in Job /\ Keeps(j, Answered(j, reply))
           /\ Answered(j, reply).stage = "reply"
           /\ Answered(j, reply).got = j.got /\ Answered(j, reply).held = j.held
<1>1. 1 \in Nat \ {0}
  OBVIOUS
<1>. QED  BY <1>1 DEF Goto, Answered, Keeps, Job

LEMMA FateType ==
    ASSUME NEW j \in Job, NEW rs,
           NEW f \in {"queued", "forwarded", "filed", "discarded", "relayed", "bounced", "dropped"}
    PROVE  /\ Meet(j, rs, f) \in Job /\ Keeps(j, Meet(j, rs, f))
           /\ Meet(j, rs, f).stage = j.stage /\ Meet(j, rs, f).at = j.at
           /\ Meet(j, rs, f).got = j.got /\ Meet(j, rs, f).held = j.held
<1>. DEFINE fate == [r \in Rcpts |-> IF r \in rs THEN j.fate[r] \cup {f} ELSE j.fate[r]]
<1>1. j.fate \in [Rcpts -> SUBSET {"queued", "forwarded", "filed", "discarded",
                                   "relayed", "bounced", "dropped"}]
  BY DEF Job
<1>2. fate \in [Rcpts -> SUBSET {"queued", "forwarded", "filed", "discarded",
                                 "relayed", "bounced", "dropped"}]
  BY <1>1
<1>3. Meet(j, rs, f) = [j EXCEPT !.fate = fate]
  BY DEF Meet
<1>. HIDE DEF fate
<1>. QED  BY <1>2, <1>3 DEF Keeps, Job

LEMMA LossType ==
    ASSUME NEW j \in Job, NEW rs \in SUBSET Rcpts, NEW why \in {"directory", "queue"}
    PROVE  /\ Lose(j, rs, why) \in Job /\ Keeps(j, Lose(j, rs, why))
           /\ Lose(j, rs, why).stage = j.stage /\ Lose(j, rs, why).at = j.at
           /\ Lose(j, rs, why).got = j.got /\ Lose(j, rs, why).held = j.held
<1>1. j.lost \cup (rs \X {why}) \in SUBSET (Rcpts \X {"directory", "queue"})
  BY DEF Job
<1>. QED  BY <1>1 DEF Lose, Keeps, Job

(* The stages before filing, and the reply, put no condition on at. *)
LEMMA ReplyShape ==
    ASSUME NEW j, NEW k, JobShape(j), k.got = j.got, k.held = j.held,
           k.stage \in {"settle", "reply"}
    PROVE  JobShape(k)
BY DEF JobShape

LEMMA JobKept ==
    ASSUME SmtpInv, Accepted, NEW j \in Job, sess' = [sess EXCEPT !.job = j],
           dir' = dir, lastTx' = lastTx, JobShape(j), Keeps(job, j)
    PROVE  SmtpInv'
<1>1. sess \in Session
  BY DEF SmtpInv, TypeOK, Accepted, Connected
<1>. QED  BY <1>1, JobStep DEF Keeps

LEMMA AcceptedJob ==
    ASSUME SmtpInv, NEW stage, At(stage)
    PROVE  Accepted /\ sess \in Session /\ job \in Job /\ job.stage = stage /\ JobShape(job)
BY DEF SmtpInv, TypeOK, At, Accepted, Connected, job, Session

----------------------------------------------------------------------------
LEMMA EarlyStep ==
    ASSUME SmtpInv, Submit \/ Rate \/ Judge
    PROVE  SmtpInv'
<1>0. dir' = dir /\ lastTx' = lastTx
  BY DEF Submit, Rate, Judge
<1>1. ASSUME At("queue") \/ At("rate") \/ At("judge")
      PROVE  /\ Accepted /\ sess \in Session /\ job \in Job /\ JobShape(job)
             /\ job.stage \in {"queue", "rate", "judge"}
  BY <1>1, AcceptedJob
<1>2. ASSUME Accepted, job \in Job, JobShape(job), NEW reply \in {"ok", "refused"},
             sess' = [sess EXCEPT !.job = Answered(job, reply)]
      PROVE  SmtpInv'
  <2>. DEFINE j == Answered(job, reply)
  <2>1. j \in Job /\ Keeps(job, j) /\ j.stage = "reply" /\ j.got = job.got /\ j.held = job.held
    BY <1>2, MoveType
  <2>2. sess' = [sess EXCEPT !.job = j]
    BY <1>2
  <2>. HIDE DEF j
  <2>3. JobShape(j)
    BY <1>2, <2>1, ReplyShape
  <2>. QED  BY <1>0, <1>2, <2>1, <2>2, <2>3, JobKept
<1>3. ASSUME Accepted, job \in Job, JobShape(job), job.stage \in {"rate", "judge"},
             NEW stage \in {"judge", "resolve"}, sess' = [sess EXCEPT !.job = Goto(job, stage)]
      PROVE  SmtpInv'
  <2>. DEFINE j == Goto(job, stage)
  <2>1. j \in Job /\ Keeps(job, j) /\ j.stage = stage /\ j.got = job.got /\ j.held = job.held
    BY <1>3, MoveType
  <2>2. sess' = [sess EXCEPT !.job = j]
    BY <1>3
  <2>. HIDE DEF j
  <2>3. JobShape(j)
    BY <1>3, <2>1 DEF JobShape
  <2>. QED  BY <1>0, <1>3, <2>1, <2>2, <2>3, JobKept
<1>4. CASE Submit
  <2>1. Accepted /\ job \in Job /\ JobShape(job)
    BY <1>1, <1>4 DEF Submit
  <2>2. CASE sess' = [sess EXCEPT !.job = Answered(job, "refused")]
    BY <1>2, <2>1, <2>2
  <2>3. CASE sess' = [sess EXCEPT !.job = Answered(Meet(job, Recipients(job), "queued"), "ok")]
    <3>. DEFINE k == Meet(job, Recipients(job), "queued")
                j == Answered(k, "ok")
    <3>1. k \in Job /\ Keeps(job, k) /\ k.got = job.got /\ k.held = job.held
      BY <2>1, FateType
    <3>2. sess' = [sess EXCEPT !.job = j]
      BY <2>3
    <3>. HIDE DEF k
    <3>3. j \in Job /\ Keeps(k, j) /\ j.stage = "reply" /\ j.got = k.got /\ j.held = k.held
      BY <3>1, MoveType
    <3>. HIDE DEF j
    <3>4. Keeps(job, j)
      BY <3>1, <3>3 DEF Keeps
    <3>5. JobShape(j)
      BY <2>1, <3>1, <3>3, ReplyShape
    <3>. QED  BY <1>0, <2>1, <3>2, <3>3, <3>4, <3>5, JobKept
  <2>. QED  BY <1>4, <2>2, <2>3 DEF Submit, SetJob, SetSession
<1>5. CASE Rate
  <2>1. Accepted /\ job \in Job /\ JobShape(job) /\ job.stage = "rate"
    BY <1>1, <1>5 DEF Rate, At
  <2>2. \/ sess' = [sess EXCEPT !.job = Answered(job, "refused")]
        \/ sess' = [sess EXCEPT !.job = Goto(job, "judge")]
    BY <1>5 DEF Rate, SetJob, SetSession
  <2>. QED  BY <1>2, <1>3, <2>1, <2>2
<1>6. CASE Judge
  <2>1. Accepted /\ sess \in Session /\ job \in Job /\ JobShape(job) /\ job.stage = "judge"
    BY <1>1, <1>6 DEF Judge, At
  <2>2. CASE sess' = [sess EXCEPT !.job = Goto(job, "resolve")]
    BY <1>3, <2>1, <2>2
  <2>3. CASE sess' = [sess EXCEPT !.listed = FALSE, !.job = Answered(job, "refused")]
    <3>. DEFINE j == Answered(job, "refused")
                s == [sess EXCEPT !.listed = FALSE]
    <3>1. j \in Job /\ Keeps(job, j) /\ j.stage = "reply" /\ j.got = job.got /\ j.held = job.held
      BY <2>1, MoveType
    <3>2. sess' = [s EXCEPT !.job = j]
      BY <2>3
    <3>. HIDE DEF j
    <3>3. JobShape(j)
      BY <2>1, <3>1, ReplyShape
    <3>4. s \in Session /\ s.tx = sess.tx /\ s.rcpts = sess.rcpts
          /\ s.chunks = sess.chunks /\ s.tls = sess.tls
      BY <2>1 DEF Session
    <3>. HIDE DEF s
    <3>. QED  BY <1>0, <2>1, <3>1, <3>2, <3>3, <3>4, JobStep DEF Keeps
  <2>4. \/ sess' = [sess EXCEPT !.listed = FALSE, !.job = Answered(job, "refused")]
        \/ sess' = [sess EXCEPT !.job = Goto(job, "resolve")]
    BY <1>6 DEF Judge, SetJob, SetSession, job
  <2>. QED  BY <2>2, <2>3, <2>4
<1>. QED  BY <1>4, <1>5, <1>6

LEMMA ResolveStep ==
    ASSUME SmtpInv, ResolveOne \/ ResolveDone
    PROVE  SmtpInv'
<1>0. /\ dir' = dir /\ lastTx' = lastTx /\ Accepted /\ job \in Job /\ JobShape(job)
      /\ job.stage = "resolve"
  <2>1. At("resolve") /\ dir' = dir /\ lastTx' = lastTx
    BY DEF ResolveOne, ResolveDone
  <2>. QED  BY <2>1, AcceptedJob
<1>1. job.got = <<>> /\ job.held \in Seq(Rcpts) /\ job.rcpts \in Seq(Path) /\ job.at \in Nat \ {0}
  BY <1>0 DEF JobShape, Job
<1>2. CASE ResolveOne
  <2>. DEFINE r == job.rcpts[job.at].addr
              next == [job EXCEPT !.at = @ + 1]
  <2>1. r \in Rcpts
    <3>1. job.at \in 1..Len(job.rcpts)
      BY <1>1, <1>2 DEF ResolveOne
    <3>2. job.rcpts[job.at] \in Path
      BY <1>1, <3>1
    <3>. QED  BY <3>2 DEF Path
  <2>2. next \in Job /\ Keeps(job, next) /\ next.got = <<>> /\ next.stage = "resolve"
        /\ next.held = job.held
    <3>1. job.at + 1 \in Nat \ {0}
      BY <1>1
    <3>. QED  BY <1>0, <1>1, <3>1 DEF Job, Keeps
  <2>3. \/ sess' = [sess EXCEPT !.job = [next EXCEPT !.held = Append(@, r)]]
        \/ sess' = [sess EXCEPT !.job = Meet(next, {r}, "forwarded")]
        \/ sess' = [sess EXCEPT !.job = Lose(next, {r}, "queue")]
        \/ sess' = [sess EXCEPT !.job = Lose(next, {r}, "directory")]
    BY <1>2 DEF ResolveOne, SetJob, SetSession
  <2>. HIDE DEF next, r
  <2>4. ASSUME NEW j \in Job, Keeps(next, j), j.got = <<>>, j.stage = "resolve",
               j.held \in Seq(Rcpts), sess' = [sess EXCEPT !.job = j]
        PROVE  SmtpInv'
    <3>1. JobShape(j)
      BY <2>4 DEF JobShape
    <3>2. Keeps(job, j)
      BY <2>2, <2>4 DEF Keeps
    <3>. QED  BY <1>0, <2>4, <3>1, <3>2, JobKept
  <2>5. CASE sess' = [sess EXCEPT !.job = [next EXCEPT !.held = Append(@, r)]]
    <3>. DEFINE j == [next EXCEPT !.held = Append(@, r)]
    <3>1. Append(next.held, r) \in Seq(Rcpts)
      BY <1>1, <2>1, <2>2
    <3>2. /\ j \in Job /\ Keeps(next, j) /\ j.got = <<>> /\ j.stage = "resolve"
          /\ j.held = Append(next.held, r)
      BY <2>2, <3>1 DEF Job, Keeps
    <3>3. sess' = [sess EXCEPT !.job = j]
      BY <2>5
    <3>. HIDE DEF j
    <3>. QED  BY <2>4, <3>1, <3>2, <3>3
  <2>6. CASE sess' = [sess EXCEPT !.job = Meet(next, {r}, "forwarded")]
    <3>. DEFINE j == Meet(next, {r}, "forwarded")
    <3>1. j \in Job /\ Keeps(next, j) /\ j.got = <<>> /\ j.stage = "resolve" /\ j.held = job.held
      BY <2>2, FateType
    <3>. HIDE DEF j
    <3>. QED  BY <1>1, <2>4, <2>6, <3>1 DEF j
  <2>7. ASSUME NEW why \in {"queue", "directory"}, sess' = [sess EXCEPT !.job = Lose(next, {r}, why)]
        PROVE  SmtpInv'
    <3>. DEFINE j == Lose(next, {r}, why)
    <3>1. {r} \in SUBSET Rcpts
      BY <2>1
    <3>2. j \in Job /\ Keeps(next, j) /\ j.got = <<>> /\ j.stage = "resolve" /\ j.held = job.held
      BY <2>2, <3>1, LossType
    <3>. HIDE DEF j
    <3>. QED  BY <1>1, <2>4, <2>7, <3>2 DEF j
  <2>. QED  BY <2>3, <2>5, <2>6, <2>7
<1>3. CASE ResolveDone
  <2>1. \/ sess' = [sess EXCEPT !.job = Answered(job, NobodyLeft(job))]
        \/ sess' = [sess EXCEPT !.job = Goto(job, "file")]
    BY <1>3 DEF ResolveDone, SetJob, SetSession
  <2>2. NobodyLeft(job) \in {"ok", "refused"}
    BY DEF NobodyLeft
  <2>3. PICK j \in {Answered(job, NobodyLeft(job)), Goto(job, "file")} : sess' = [sess EXCEPT !.job = j]
    BY <2>1
  <2>4. /\ j \in Job /\ Keeps(job, j) /\ j.got = job.got /\ j.held = job.held
        /\ (j.stage = "reply" \/ (j.stage = "file" /\ j.at = 1))
    BY <1>0, <2>2, <2>3, MoveType
  <2>5. JobShape(j)
    BY <1>0, <1>1, <2>4 DEF JobShape
  <2>. QED  BY <1>0, <2>3, <2>4, <2>5, JobKept
<1>. QED  BY <1>2, <1>3

LEMMA FileStep ==
    ASSUME SmtpInv, FileOne \/ FileDone
    PROVE  SmtpInv'
<1>0. /\ dir' = dir /\ lastTx' = lastTx /\ Accepted /\ job \in Job /\ JobShape(job)
      /\ job.stage = "file"
  <2>1. At("file") /\ dir' = dir /\ lastTx' = lastTx
    BY DEF FileOne, FileDone
  <2>. QED  BY <2>1, AcceptedJob
<1>1. /\ job.got \in Seq(Delivery) /\ job.held \in Seq(Rcpts) /\ job.at \in Nat \ {0}
      /\ Len(job.got) + 1 = job.at
  BY <1>0 DEF JobShape, Job
<1>2. CASE FileOne
  <2>1. job.at <= Len(job.held)
    BY <1>2 DEF FileOne
  <2>2. PICK d \in Delivery :
          LET next == [job EXCEPT !.at = @ + 1, !.got = Append(@, d)]
          IN  sess' = [sess EXCEPT !.job = IF d.kept \in {"filed", "discarded"}
                                             THEN Meet(next, {job.held[job.at]}, d.kept) ELSE next]
    BY <1>2 DEF FileOne, SetJob, SetSession
  <2>. DEFINE next == [job EXCEPT !.at = @ + 1, !.got = Append(@, d)]
              j == IF d.kept \in {"filed", "discarded"}
                     THEN Meet(next, {job.held[job.at]}, d.kept) ELSE next
  <2>3. /\ Append(job.got, d) \in Seq(Delivery) /\ Len(Append(job.got, d)) = Len(job.got) + 1
        /\ job.at + 1 \in Nat \ {0}
    BY <1>1
  <2>4. /\ next \in Job /\ Keeps(job, next) /\ next.stage = "file" /\ next.at = job.at + 1
        /\ next.got = Append(job.got, d) /\ next.held = job.held
    BY <1>0, <2>3 DEF Job, Keeps
  <2>5. sess' = [sess EXCEPT !.job = j]
    BY <2>2
  <2>. HIDE DEF next
  <2>6. /\ j \in Job /\ Keeps(next, j) /\ j.stage = next.stage /\ j.at = next.at
        /\ j.got = next.got /\ j.held = next.held
    <3>1. CASE d.kept \in {"filed", "discarded"}
      <4>1. /\ d.kept \in {"queued", "forwarded", "filed", "discarded", "relayed", "bounced", "dropped"}
            /\ j = Meet(next, {job.held[job.at]}, d.kept)
        BY <3>1
      <4>. HIDE DEF j
      <4>. QED  BY <2>4, <4>1, FateType
    <3>2. CASE d.kept \notin {"filed", "discarded"}
      BY <2>4, <3>2 DEF Keeps
    <3>. QED  BY <3>1, <3>2
  <2>. HIDE DEF j
  <2>7. JobShape(j)
    <3>1. Len(j.got) = Len(job.got) + 1 /\ j.at = job.at + 1 /\ j.held = job.held /\ j.stage = "file"
      BY <2>3, <2>4, <2>6
    <3>2. Len(job.got) \in Nat /\ Len(job.held) \in Nat
      BY <1>1
    <3>. QED  BY <1>1, <2>1, <3>1, <3>2 DEF JobShape
  <2>8. Keeps(job, j)
    BY <2>4, <2>6 DEF Keeps
  <2>. QED  BY <1>0, <2>5, <2>6, <2>7, <2>8, JobKept
<1>3. CASE FileDone
  <2>. DEFINE j == Goto(job, "settle")
  <2>1. sess' = [sess EXCEPT !.job = j]
    BY <1>3 DEF FileDone, SetJob, SetSession
  <2>2. j \in Job /\ Keeps(job, j) /\ j.got = job.got /\ j.held = job.held /\ j.stage = "settle"
    BY <1>0, MoveType
  <2>. HIDE DEF j
  <2>3. JobShape(j)
    BY <1>0, <2>2, ReplyShape
  <2>. QED  BY <1>0, <2>1, <2>2, <2>3, JobKept
<1>. QED  BY <1>2, <1>3

(* Only recipients with a mailbox are relayed for or over quota: there are no *)
(* more outcomes than recipients delivered to.                                *)
LEMMA HeldRecipients ==
    ASSUME NEW j \in Job, JobShape(j)
    PROVE  Relayed(j) \subseteq Rcpts /\ OverQuota(j) \subseteq Rcpts
<1>1. j.got \in Seq(Delivery) /\ j.held \in Seq(Rcpts) /\ Len(j.got) <= Len(j.held)
  BY DEF Job, JobShape
<1>2. \A i \in DOMAIN j.got : j.held[i] \in Rcpts
  <2>1. \A i \in 1..Len(j.got) : i \in 1..Len(j.held)
    BY <1>1
  <2>. QED  BY <1>1, <2>1
<1>. QED  BY <1>2 DEF Relayed, OverQuota

LEMMA SettleStep ==
    ASSUME SmtpInv, Settle
    PROVE  SmtpInv'
<1>0. /\ dir' = dir /\ lastTx' = lastTx /\ Accepted /\ job \in Job /\ JobShape(job)
      /\ job.stage = "settle"
  <2>1. At("settle") /\ dir' = dir /\ lastTx' = lastTx
    BY DEF Settle
  <2>. QED  BY <2>1, AcceptedJob
<1>1. ASSUME NEW k \in Job, Keeps(job, k), k.got = job.got, k.held = job.held,
             NEW reply \in {"ok", "refused"}, sess' = [sess EXCEPT !.job = Answered(k, reply)]
      PROVE  SmtpInv'
  <2>. DEFINE j == Answered(k, reply)
  <2>1. j \in Job /\ Keeps(k, j) /\ j.stage = "reply" /\ j.got = k.got /\ j.held = k.held
    BY <1>1, MoveType
  <2>2. sess' = [sess EXCEPT !.job = j]
    BY <1>1
  <2>. HIDE DEF j
  <2>3. JobShape(j)
    BY <1>0, <1>1, <2>1, ReplyShape
  <2>4. Keeps(job, j)
    BY <1>1, <2>1 DEF Keeps
  <2>. QED  BY <1>0, <2>1, <2>2, <2>3, <2>4, JobKept
<1>2. CASE sess' = [sess EXCEPT !.job = Answered(job, "refused")]
  <2>1. Keeps(job, job)
    BY DEF Keeps
  <2>. QED  BY <1>0, <1>1, <1>2, <2>1
<1>3. ASSUME NEW relayed, NEW bounced, NEW failed \in SUBSET Rcpts,
             sess' = [sess EXCEPT !.job = Answered(
                        Lose(Meet(Meet(Meet(job, relayed, "relayed"), bounced, "bounced"),
                                  Dropped(job), "dropped"), failed, "queue"), "ok")]
      PROVE  SmtpInv'
  <2>. DEFINE a == Meet(job, relayed, "relayed")
              b == Meet(a, bounced, "bounced")
              c == Meet(b, Dropped(job), "dropped")
              k == Lose(c, failed, "queue")
  <2>1. a \in Job /\ Keeps(job, a) /\ a.got = job.got /\ a.held = job.held
    BY <1>0, FateType
  <2>2. sess' = [sess EXCEPT !.job = Answered(k, "ok")]
    BY <1>3
  <2>. HIDE DEF a
  <2>3. b \in Job /\ Keeps(a, b) /\ b.got = job.got /\ b.held = job.held
    BY <2>1, FateType
  <2>. HIDE DEF b
  <2>4. c \in Job /\ Keeps(b, c) /\ c.got = job.got /\ c.held = job.held
    BY <2>3, FateType
  <2>. HIDE DEF c
  <2>5. k \in Job /\ Keeps(c, k) /\ k.got = job.got /\ k.held = job.held
    BY <2>4, LossType
  <2>. HIDE DEF k
  <2>6. Keeps(job, k)
    BY <2>1, <2>3, <2>4, <2>5 DEF Keeps
  <2>. QED  BY <1>1, <2>2, <2>5, <2>6
<1>4. CASE /\ ~RefusedEverywhere(job)
           /\ \E relayed \in SUBSET Relayed(job), bounced \in {Bounced(job), {}} :
                LET failed == (Relayed(job) \ relayed) \cup (Bounced(job) \ bounced)
                IN  sess' = [sess EXCEPT !.job = Answered(
                        Lose(Meet(Meet(Meet(job, relayed, "relayed"), bounced, "bounced"),
                                  Dropped(job), "dropped"), failed, "queue"), "ok")]
  <2>1. PICK relayed \in SUBSET Relayed(job), bounced \in {Bounced(job), {}} :
          LET failed == (Relayed(job) \ relayed) \cup (Bounced(job) \ bounced)
          IN  sess' = [sess EXCEPT !.job = Answered(
                  Lose(Meet(Meet(Meet(job, relayed, "relayed"), bounced, "bounced"),
                            Dropped(job), "dropped"), failed, "queue"), "ok")]
    BY <1>4
  <2>. DEFINE failed == (Relayed(job) \ relayed) \cup (Bounced(job) \ bounced)
  <2>2. sess' = [sess EXCEPT !.job = Answered(
                  Lose(Meet(Meet(Meet(job, relayed, "relayed"), bounced, "bounced"),
                            Dropped(job), "dropped"), failed, "queue"), "ok")]
    BY <2>1
  <2>3. failed \in SUBSET Rcpts
    BY <1>0, HeldRecipients DEF Bounced
  <2>. HIDE DEF failed
  <2>. QED  BY <1>3, <2>2, <2>3
<1>. QED  BY <1>2, <1>4 DEF Settle, SetJob, SetSession

LEMMA EndStep ==
    ASSUME SmtpInv, SendReply \/ Abort
    PROVE  SmtpInv'
<1>1. CASE SendReply
  <2>. DEFINE s == [ResetTransaction(sess) EXCEPT !.stage = "greeted", !.job = None]
  <2>1. sess \in Session
    BY <1>1, AcceptedJob DEF SendReply
  <2>2. sess' = s /\ dir' = dir /\ lastTx' = lastTx /\ lastTx' \in 0..MaxMails
    BY <1>1 DEF SendReply, SetSession, SmtpInv, TypeOK
  <2>3. s \in Session /\ s.job = None /\ s.tx = 0 /\ s.rcpts = <<>> /\ s.stage = "greeted"
    BY <2>1, ResetType DEF Session
  <2>. HIDE DEF s
  <2>. QED  BY <2>2, <2>3, CommandStep
<1>2. CASE Abort
  BY <1>2, CloseStep DEF Abort, SetSession
<1>. QED  BY <1>1, <1>2

LEMMA DirectoryStep ==
    ASSUME SmtpInv, ChangeDirectory
    PROVE  SmtpInv'
<1>1. sess' = sess /\ lastTx' = lastTx /\ dir' \in [Rcpts -> Hosted]
  BY DEF ChangeDirectory, SmtpInv, TypeOK
<1>. QED  BY <1>1 DEF SmtpInv, TypeOK, HeldTogether, OneTransaction, Accepted, job, Ready, Connected

LEMMA SmtpInvariant == Spec => []SmtpInv
<1>1. Init => SmtpInv
  BY SmtpAssumption DEF Init, SmtpInv, TypeOK, HeldTogether, OneTransaction, Accepted, Ready, Connected
<1>2. SmtpInv /\ [Next]_vars => SmtpInv'
  <2>. SUFFICES ASSUME SmtpInv, [Next]_vars PROVE SmtpInv'
    OBVIOUS
  <2>1. CASE Command
    BY <2>1, ConnectionStep, TransactionStep, BodyStep DEF Command
  <2>2. CASE Handling
    BY <2>2, EarlyStep, ResolveStep, FileStep, SettleStep, EndStep DEF Handling
  <2>3. CASE ChangeDirectory
    BY <2>3, DirectoryStep
  <2>4. CASE UNCHANGED vars
    BY <2>4 DEF vars, SmtpInv, TypeOK, HeldTogether, OneTransaction, Accepted, job, Ready, Connected
  <2>. QED  BY <2>1, <2>2, <2>3, <2>4 DEF Next
<1>. QED  BY <1>1, <1>2, PTL DEF Spec

(* Type correctness, and the stage of a session that reads its next command   *)
(* agrees with the sender and the recipients it holds, for every set of       *)
(* addresses and every bound.                                                 *)
THEOREM StagesAgree == Spec => []TypeOK
<1>1. SmtpInv => TypeOK
  BY DEF SmtpInv
<1>. QED  BY <1>1, SmtpInvariant, PTL

(* Whatever order the commands come in, an accepted body and its recipients   *)
(* are of one transaction and one channel.                                    *)
THEOREM TransactionsStayApart == Spec => []OneTransaction
<1>1. SmtpInv => OneTransaction
  BY DEF SmtpInv
<1>. QED  BY <1>1, SmtpInvariant, PTL

----------------------------------------------------------------------------
(* The books of an accepted body: every recipient looked at so far is to be   *)
(* delivered to, has met a fate or is logged as lost; before the mailboxes    *)
(* are tried only forwards have happened; what was filed shows in an outcome. *)
HeldFor(j) == {j.held[i] : i \in DOMAIN j.held}
Losses(j) == {loss[1] : loss \in j.lost}
Covered(j, r) == r \in HeldFor(j) \/ j.fate[r] # {} \/ r \in Losses(j)
NoFate(j) == \A r \in Rcpts : j.fate[r] = {}

Acked(j) ==
    /\ \A r \in Recipients(j) : j.fate[r] # {} \/ r \in Losses(j)
    /\ \/ \E r \in Recipients(j) : j.fate[r] # {}
       \/ \E loss \in j.lost : loss[2] = "queue"

Filed(j) ==
    /\ \A r \in Rcpts : /\ j.fate[r] \subseteq {"forwarded", "filed", "discarded"}
                        /\ j.fate[r] \subseteq {"forwarded"} \/
                             \E i \in DOMAIN j.got : j.got[i].kept \in {"filed", "discarded"}
    /\ \A i \in DOMAIN j.got : j.got[i].kept \in {"filed", "discarded"} => j.fate[j.held[i]] # {}

Known(j) ==
    /\ j.rcpts # <<>> /\ HeldFor(j) \subseteq Recipients(j)
    /\ \A r \in Rcpts : j.fate[r] # {} => r \in Recipients(j)

Accounted(j) ==
    /\ Known(j)
    /\ j.stage # "reply" => j.reply = "none"
    /\ j.stage \in {"queue", "rate", "judge"} => NoFate(j)
    /\ j.stage = "resolve" =>
         /\ \A r \in Rcpts : j.fate[r] \subseteq {"forwarded"}
         /\ \A i \in DOMAIN j.rcpts : i < j.at => Covered(j, j.rcpts[i].addr)
    /\ j.stage \in {"file", "settle"} => Filed(j) /\ \A r \in Recipients(j) : Covered(j, r)
    /\ j.stage = "settle" => Len(j.got) = Len(j.held)
    /\ j.reply = "ok" => Acked(j)
    /\ j.reply = "refused" => NoFate(j)

AccountInv == Accepted => Accounted(job)

LEMMA MoveBooks ==
    ASSUME NEW j \in Job, NEW stage, NEW reply
    PROVE  /\ Goto(j, stage).fate = j.fate /\ Goto(j, stage).lost = j.lost
           /\ Goto(j, stage).reply = j.reply /\ Goto(j, stage).rcpts = j.rcpts
           /\ Answered(j, reply).fate = j.fate /\ Answered(j, reply).lost = j.lost
           /\ Answered(j, reply).reply = reply /\ Answered(j, reply).rcpts = j.rcpts
BY DEF Goto, Answered, Job

LEMMA MeetBooks ==
    ASSUME NEW j \in Job, NEW rs, NEW f
    PROVE  /\ \A r \in Rcpts : Meet(j, rs, f).fate[r] = IF r \in rs THEN j.fate[r] \cup {f} ELSE j.fate[r]
           /\ Meet(j, rs, f).lost = j.lost /\ Meet(j, rs, f).reply = j.reply
           /\ Meet(j, rs, f).rcpts = j.rcpts /\ Meet(j, rs, f).held = j.held
BY DEF Meet, Job

LEMMA LoseBooks ==
    ASSUME NEW j \in Job, NEW rs, NEW why
    PROVE  /\ Lose(j, rs, why).lost = j.lost \cup (rs \X {why})
           /\ Losses(Lose(j, rs, why)) = Losses(j) \cup rs
           /\ Lose(j, rs, why).fate = j.fate /\ Lose(j, rs, why).reply = j.reply
           /\ Lose(j, rs, why).rcpts = j.rcpts /\ Lose(j, rs, why).held = j.held
<1>1. /\ Lose(j, rs, why).lost = j.lost \cup (rs \X {why})
      /\ Lose(j, rs, why).fate = j.fate /\ Lose(j, rs, why).reply = j.reply
      /\ Lose(j, rs, why).rcpts = j.rcpts /\ Lose(j, rs, why).held = j.held
  BY DEF Lose, Job
<1>2. {loss[1] : loss \in rs \X {why}} = rs
  <2>1. \A r \in rs : <<r, why>> \in rs \X {why} /\ <<r, why>>[1] = r
    OBVIOUS
  <2>. QED  BY <2>1
<1>3. Losses(Lose(j, rs, why)) = Losses(j) \cup {loss[1] : loss \in rs \X {why}}
  BY <1>1 DEF Losses
<1>. QED  BY <1>1, <1>2, <1>3

(* Recipients are addresses. *)
LEMMA RecipientType ==
    ASSUME NEW j \in Job
    PROVE  /\ Recipients(j) \subseteq Rcpts
           /\ \A i \in DOMAIN j.rcpts : j.rcpts[i].addr \in Recipients(j)
           /\ \A r \in Recipients(j) : \E i \in DOMAIN j.rcpts : r = j.rcpts[i].addr
           /\ j.rcpts # <<>> => Recipients(j) # {}
<1>1. j.rcpts \in Seq(Path)
  BY DEF Job
<1>2. \A i \in DOMAIN j.rcpts : j.rcpts[i].addr \in Rcpts
  <2>1. \A i \in DOMAIN j.rcpts : j.rcpts[i] \in Path
    BY <1>1
  <2>. QED  BY <2>1 DEF Path
<1>3. /\ \A i \in DOMAIN j.rcpts : j.rcpts[i].addr \in Recipients(j)
      /\ \A r \in Recipients(j) : \E i \in DOMAIN j.rcpts : r = j.rcpts[i].addr
  BY DEF Recipients, ToSet
<1>4. j.rcpts # <<>> => 1 \in DOMAIN j.rcpts
  <2>1. j.rcpts # <<>> => Len(j.rcpts) # 0
    BY <1>1
  <2>. QED  BY <1>1, <2>1
<1>. QED  BY <1>2, <1>3, <1>4

(* The body moves on to an accounted one, or is done with. *)
LEMMA AccountStep ==
    ASSUME NEW s \in Session, NEW j, Accounted(j), sess' = [s EXCEPT !.job = j]
    PROVE  AccountInv'
<1>1. sess'.job = j
  BY DEF Session
<1>2. job' = j
  BY <1>1 DEF job
<1>. QED  BY <1>2 DEF AccountInv

LEMMA IdleStep ==
    ASSUME sess' = None \/ sess'.job = None
    PROVE  AccountInv'
BY DEF AccountInv, Accepted, Connected, job

LEMMA CommandAccount ==
    ASSUME SmtpInv, AccountInv,
           \/ Connect \/ Quit \/ Greet \/ Mail \/ Rset \/ StartTls \/ Auth \/ TooLarge \/ Bdat
           \/ BdatRejected \/ SendReply \/ Abort \/ \E r \in Rcpts : Rcpt(r)
    PROVE  AccountInv'
<1>1. CASE Connect \/ StartTls
  BY <1>1, IdleStep DEF Connect, StartTls, SetSession, NewSession
<1>2. CASE Quit \/ Abort
  BY <1>2, IdleStep DEF Quit, Abort, SetSession
<1>3. ASSUME Connected PROVE sess \in Session
  BY <1>3 DEF Connected, SmtpInv, TypeOK
<1>4. CASE Greet \/ Mail \/ Rset \/ TooLarge \/ SendReply
  <2>1. sess \in Session
    BY <1>3, <1>4 DEF Greet, Mail, Rset, TooLarge, SendReply, Ready, At
  <2>2. sess'.job \in {sess.job, None}
    <3>1. ResetTransaction(sess) \in Session /\ ResetTransaction(sess).job = sess.job
      BY <2>1, ResetType
    <3>. QED  BY <1>4, <3>1 DEF Greet, Mail, Rset, TooLarge, SendReply, SetSession, Session
  <2>3. sess.job = None \/ SendReply
    BY <1>4 DEF Greet, Mail, Rset, TooLarge, Ready
  <2>4. SendReply => sess'.job = None
    <3>1. ResetTransaction(sess) \in Session
      BY <2>1, ResetType
    <3>. QED  BY <3>1 DEF SendReply, SetSession, Session
  <2>. QED  BY <2>2, <2>3, <2>4, IdleStep
<1>5. CASE Auth \/ Bdat \/ BdatRejected \/ \E r \in Rcpts : Rcpt(r)
  <2>1. sess \in Session /\ sess.job = None
    BY <1>3, <1>5 DEF Auth, Bdat, BdatRejected, Rcpt, Ready
  <2>2. sess'.job = sess.job
    BY <1>5, <2>1 DEF Auth, Bdat, BdatRejected, Rcpt, SetSession, Session
  <2>. QED  BY <2>1, <2>2, IdleStep
<1>. QED  BY <1>1, <1>2, <1>4, <1>5

(* DATA and the last BDAT need a recipient. *)
LEMMA AcceptAccount ==
    ASSUME SmtpInv, Data \/ BdatLast
    PROVE  AccountInv'
<1>1. sess \in Session /\ Ready /\ sess.stage = "rcpt"
  BY DEF Data, BdatLast, Ready, Connected, SmtpInv, TypeOK
<1>2. sess.rcpts # <<>>
  BY <1>1 DEF SmtpInv, TypeOK
<1>3. PICK body : sess'.job = Accept(sess, body).job
  <2>1. CASE Data
    BY <2>1 DEF Data, SetSession
  <2>2. CASE BdatLast
    <3>1. Accept(sess, sess.chunks \cup {sess.tx}).job =
            [Accept(sess, sess.chunks \cup {sess.tx}) EXCEPT !.chunks = {}].job
      BY <1>1 DEF Accept, Session
    <3>. QED  BY <2>2, <3>1 DEF BdatLast, SetSession
  <2>. QED  BY <2>1, <2>2
<1>. DEFINE j == sess'.job
<1>4. /\ j.rcpts = sess.rcpts /\ j.held = <<>> /\ j.fate = [r \in Rcpts |-> {}] /\ j.reply = "none"
      /\ j.stage \in {"queue", "rate"}
  <2>1. j = [stage |-> IF sess.mode = "submission" THEN "queue" ELSE "rate",
             tx |-> sess.tx, from |-> sess.from, rcpts |-> sess.rcpts, body |-> body,
             at |-> 1, held |-> <<>>, got |-> <<>>,
             fate |-> [r \in Rcpts |-> {}], lost |-> {}, reply |-> "none"]
    BY <1>1, <1>3 DEF Accept, Session
  <2>. HIDE DEF j
  <2>. QED  BY <2>1
<1>5. Accounted(j)
  <2>. HIDE DEF j
  <2>1. NoFate(j) /\ HeldFor(j) = {}
    BY <1>4 DEF NoFate, HeldFor
  <2>2. Known(j)
    BY <1>2, <1>4, <2>1 DEF Known, NoFate
  <2>. QED  BY <1>4, <2>1, <2>2 DEF Accounted
<1>. QED  BY <1>5 DEF AccountInv, job

(* What an accepted body's books say of a copy of it with the same books. *)
LEMMA SameKnown ==
    ASSUME NEW j, NEW k, Known(j), k.rcpts = j.rcpts, k.held = j.held, k.fate = j.fate
    PROVE  Known(k) /\ Recipients(k) = Recipients(j) /\ HeldFor(k) = HeldFor(j)
BY DEF Known, Recipients, HeldFor

LEMMA EarlyAccount ==
    ASSUME SmtpInv, AccountInv, Submit \/ Rate \/ Judge
    PROVE  AccountInv'
<1>1. /\ Accepted /\ sess \in Session /\ job \in Job /\ job.stage \in {"queue", "rate", "judge"}
      /\ Accounted(job)
  <2>1. At("queue") \/ At("rate") \/ At("judge")
    BY DEF Submit, Rate, Judge
  <2>. QED  BY <2>1, AcceptedJob DEF AccountInv
<1>2. NoFate(job) /\ Known(job) /\ job.reply = "none"
  BY <1>1 DEF Accounted
<1>3. Accounted(Answered(job, "refused"))
  <2>. DEFINE j == Answered(job, "refused")
  <2>1. /\ j.fate = job.fate /\ j.rcpts = job.rcpts /\ j.held = job.held /\ j.stage = "reply"
        /\ j.reply = "refused"
    BY <1>1, MoveType, MoveBooks
  <2>. HIDE DEF j
  <2>2. Known(j) /\ NoFate(j)
    BY <1>2, <2>1, SameKnown DEF NoFate
  <2>. QED  BY <2>1, <2>2 DEF Accounted, j
<1>4. ASSUME NEW stage \in {"judge", "resolve"} PROVE Accounted(Goto(job, stage))
  <2>. DEFINE j == Goto(job, stage)
  <2>1. /\ j.fate = job.fate /\ j.rcpts = job.rcpts /\ j.held = job.held /\ j.stage = stage
        /\ j.reply = "none" /\ j.at = 1
    BY <1>1, <1>2, MoveType, MoveBooks
  <2>. HIDE DEF j
  <2>2. Known(j) /\ NoFate(j)
    BY <1>2, <2>1, SameKnown DEF NoFate
  <2>3. \A i \in DOMAIN j.rcpts : ~(i < j.at)
    <3>1. j.rcpts \in Seq(Path)
      BY <1>1, <2>1 DEF Job
    <3>. QED  BY <2>1, <3>1
  <2>. QED  BY <2>1, <2>2, <2>3 DEF Accounted, NoFate, j
<1>5. Accounted(Answered(Meet(job, Recipients(job), "queued"), "ok"))
  <2>. DEFINE k == Meet(job, Recipients(job), "queued")
              j == Answered(k, "ok")
  <2>1. /\ k \in Job /\ k.rcpts = job.rcpts /\ k.held = job.held
        /\ \A r \in Rcpts : k.fate[r] = IF r \in Recipients(job) THEN job.fate[r] \cup {"queued"}
                                                                 ELSE job.fate[r]
    <3>1. k \in Job
      BY <1>1, FateType
    <3>. QED  BY <1>1, <3>1, MeetBooks
  <2>. HIDE DEF k
  <2>2. /\ j.fate = k.fate /\ j.rcpts = job.rcpts /\ j.held = job.held /\ j.stage = "reply"
        /\ j.reply = "ok"
    BY <2>1, MoveType, MoveBooks
  <2>. HIDE DEF j
  <2>3. Recipients(j) = Recipients(job) /\ HeldFor(j) = HeldFor(job)
    BY <2>2 DEF Recipients, HeldFor
  <2>4. \A r \in Recipients(job) : r \in Rcpts /\ j.fate[r] # {}
    BY <1>1, <2>1, <2>2, RecipientType
  <2>5. Recipients(job) # {}
    BY <1>1, <1>2, RecipientType DEF Known
  <2>6. Known(j)
    BY <1>2, <2>1, <2>2, <2>3 DEF Known
  <2>7. Acked(j)
    BY <2>3, <2>4, <2>5 DEF Acked
  <2>. QED  BY <2>2, <2>6, <2>7 DEF Accounted, j, k
<1>6. CASE Submit
  BY <1>1, <1>3, <1>5, <1>6, AccountStep DEF Submit, SetJob, SetSession
<1>7. CASE Rate
  BY <1>1, <1>3, <1>4, <1>7, AccountStep DEF Rate, SetJob, SetSession
<1>8. CASE Judge
  <2>1. \/ sess' = [[sess EXCEPT !.listed = FALSE] EXCEPT !.job = Answered(job, "refused")]
        \/ sess' = [sess EXCEPT !.job = Goto(job, "resolve")]
    BY <1>8 DEF Judge, SetJob, SetSession, job
  <2>2. [sess EXCEPT !.listed = FALSE] \in Session
    BY <1>1 DEF Session
  <2>. QED  BY <1>1, <1>3, <1>4, <2>1, <2>2, AccountStep
<1>. QED  BY <1>6, <1>7, <1>8

LEMMA ResolveAccount ==
    ASSUME SmtpInv, AccountInv, ResolveOne
    PROVE  AccountInv'
<1>1. /\ Accepted /\ sess \in Session /\ job \in Job /\ job.stage = "resolve" /\ Accounted(job)
  BY AcceptedJob DEF ResolveOne, AccountInv
<1>2. /\ Known(job) /\ job.reply = "none" /\ \A r \in Rcpts : job.fate[r] \subseteq {"forwarded"}
      /\ \A i \in DOMAIN job.rcpts : i < job.at => Covered(job, job.rcpts[i].addr)
  BY <1>1 DEF Accounted
<1>. DEFINE r == job.rcpts[job.at].addr
            next == [job EXCEPT !.at = @ + 1]
<1>3. job.at \in DOMAIN job.rcpts /\ job.at \in Nat /\ job.rcpts \in Seq(Path)
  <2>1. job.at \in Nat \ {0} /\ job.rcpts \in Seq(Path) /\ job.at <= Len(job.rcpts)
    BY <1>1 DEF Job, ResolveOne
  <2>. QED  BY <2>1
<1>4. r \in Recipients(job) /\ r \in Rcpts
  BY <1>1, <1>3, RecipientType
<1>5. /\ next \in Job /\ next.rcpts = job.rcpts /\ next.held = job.held /\ next.fate = job.fate
      /\ next.lost = job.lost /\ next.reply = "none" /\ next.stage = "resolve" /\ next.at = job.at + 1
  <2>1. job.at + 1 \in Nat \ {0}
    BY <1>3
  <2>. QED  BY <1>1, <1>2, <2>1 DEF Job
<1>6. \/ sess' = [sess EXCEPT !.job = [next EXCEPT !.held = Append(@, r)]]
      \/ sess' = [sess EXCEPT !.job = Meet(next, {r}, "forwarded")]
      \/ sess' = [sess EXCEPT !.job = Lose(next, {r}, "queue")]
      \/ sess' = [sess EXCEPT !.job = Lose(next, {r}, "directory")]
  BY DEF ResolveOne, SetJob, SetSession
<1>7. \A i \in DOMAIN job.rcpts : i < job.at + 1 => i < job.at \/ job.rcpts[i].addr = r
  <2>1. \A i \in DOMAIN job.rcpts : i \in Nat
    BY <1>3
  <2>2. \A i \in Nat : i < job.at + 1 => i < job.at \/ i = job.at
    BY <1>3
  <2>. QED  BY <2>1, <2>2
<1>. HIDE DEF next, r
<1>8. ASSUME NEW j, j.rcpts = job.rcpts, j.reply = "none", j.stage = "resolve", j.at = job.at + 1,
             HeldFor(job) \subseteq HeldFor(j), HeldFor(j) \subseteq HeldFor(job) \cup {r},
             Losses(job) \subseteq Losses(j), Covered(j, r),
             \A x \in Rcpts : job.fate[x] \subseteq j.fate[x],
             \A x \in Rcpts : j.fate[x] \subseteq job.fate[x] \cup {"forwarded"},
             \A x \in Rcpts : x # r => j.fate[x] = job.fate[x]
      PROVE  Accounted(j)
  <2>1. Recipients(j) = Recipients(job)
    BY <1>8 DEF Recipients
  <2>2. Known(j)
    BY <1>2, <1>4, <1>8, <2>1 DEF Known
  <2>3. \A x \in Rcpts : j.fate[x] \subseteq {"forwarded"}
    BY <1>2, <1>8
  <2>4. \A x \in Rcpts : Covered(job, x) => Covered(j, x)
    BY <1>8 DEF Covered
  <2>5. \A i \in DOMAIN job.rcpts : job.rcpts[i].addr \in Rcpts
    BY <1>1, RecipientType
  <2>6. \A i \in DOMAIN j.rcpts : i < j.at => Covered(j, j.rcpts[i].addr)
    BY <1>2, <1>7, <1>8, <2>4, <2>5
  <2>. QED  BY <1>8, <2>2, <2>3, <2>6 DEF Accounted
<1>9. Accounted([next EXCEPT !.held = Append(@, r)])
  <2>. DEFINE j == [next EXCEPT !.held = Append(@, r)]
  <2>1. /\ j.rcpts = job.rcpts /\ j.reply = "none" /\ j.stage = "resolve" /\ j.at = job.at + 1
        /\ j.fate = job.fate /\ j.lost = job.lost /\ j.held = Append(job.held, r)
    BY <1>5 DEF Job
  <2>. HIDE DEF j
  <2>2. job.held \in Seq(Rcpts)
    BY <1>1 DEF Job
  <2>3. HeldFor(j) = HeldFor(job) \cup {r}
    <3>1. /\ DOMAIN Append(job.held, r) = DOMAIN job.held \cup {Len(job.held) + 1}
          /\ \A i \in DOMAIN job.held : Append(job.held, r)[i] = job.held[i]
          /\ Append(job.held, r)[Len(job.held) + 1] = r
      BY <1>4, <2>2
    <3>. QED  BY <2>1, <3>1 DEF HeldFor
  <2>4. Losses(j) = Losses(job) /\ Covered(j, r)
    BY <2>1, <2>3 DEF Losses, Covered
  <2>. QED  BY <1>8, <2>1, <2>3, <2>4 DEF j
<1>10. Accounted(Meet(next, {r}, "forwarded"))
  <2>. DEFINE j == Meet(next, {r}, "forwarded")
  <2>1. /\ j.rcpts = job.rcpts /\ j.reply = "none" /\ j.stage = "resolve" /\ j.at = job.at + 1
        /\ j.lost = job.lost /\ j.held = job.held
        /\ \A x \in Rcpts : j.fate[x] = IF x \in {r} THEN next.fate[x] \cup {"forwarded"} ELSE next.fate[x]
    <3>1. j.stage = next.stage /\ j.at = next.at
      BY <1>5, FateType
    <3>. QED  BY <1>5, <3>1, MeetBooks
  <2>. HIDE DEF j
  <2>2. HeldFor(j) = HeldFor(job) /\ Losses(j) = Losses(job)
    BY <2>1 DEF HeldFor, Losses
  <2>3. \A x \in Rcpts : /\ x # r => j.fate[x] = job.fate[x]
                         /\ x = r => j.fate[x] = job.fate[x] \cup {"forwarded"}
    BY <1>5, <2>1
  <2>4. Covered(j, r)
    BY <1>4, <2>3 DEF Covered
  <2>. QED  BY <1>8, <2>1, <2>2, <2>3, <2>4 DEF j
<1>11. ASSUME NEW why \in {"queue", "directory"} PROVE Accounted(Lose(next, {r}, why))
  <2>. DEFINE j == Lose(next, {r}, why)
  <2>1. /\ j.rcpts = job.rcpts /\ j.reply = "none" /\ j.stage = "resolve" /\ j.at = job.at + 1
        /\ j.held = job.held /\ j.fate = job.fate /\ Losses(j) = Losses(next) \cup {r}
    <3>1. {r} \in SUBSET Rcpts
      BY <1>4
    <3>2. j.stage = next.stage /\ j.at = next.at
      BY <1>5, <3>1, LossType
    <3>. QED  BY <1>5, <3>2, LoseBooks
  <2>. HIDE DEF j
  <2>2. HeldFor(j) = HeldFor(job) /\ Losses(next) = Losses(job) /\ Covered(j, r)
    BY <1>5, <2>1 DEF HeldFor, Losses, Covered
  <2>. QED  BY <1>8, <2>1, <2>2 DEF j
<1>. QED  BY <1>1, <1>6, <1>9, <1>10, <1>11, AccountStep

LEMMA ResolvedAccount ==
    ASSUME SmtpInv, AccountInv, ResolveDone
    PROVE  AccountInv'
<1>1. /\ Accepted /\ sess \in Session /\ job \in Job /\ job.stage = "resolve" /\ Accounted(job)
      /\ JobShape(job)
  BY AcceptedJob DEF ResolveDone, AccountInv
<1>2. /\ Known(job) /\ job.reply = "none" /\ \A r \in Rcpts : job.fate[r] \subseteq {"forwarded"}
      /\ \A i \in DOMAIN job.rcpts : i < job.at => Covered(job, job.rcpts[i].addr)
  BY <1>1 DEF Accounted
<1>3. \A r \in Recipients(job) : r \in Rcpts /\ Covered(job, r)
  <2>1. job.at \in Nat \ {0} /\ job.rcpts \in Seq(Path) /\ job.at > Len(job.rcpts)
    BY <1>1 DEF Job, ResolveDone
  <2>2. \A i \in DOMAIN job.rcpts : i < job.at
    BY <2>1
  <2>. QED  BY <1>1, <1>2, <2>2, RecipientType
<1>4. CASE job.held = <<>>
  <2>. DEFINE j == Answered(job, NobodyLeft(job))
  <2>1. /\ j.fate = job.fate /\ j.lost = job.lost /\ j.rcpts = job.rcpts /\ j.held = job.held
        /\ j.stage = "reply" /\ j.reply = NobodyLeft(job)
    <3>1. NobodyLeft(job) \in {"none", "ok", "refused"}
      BY DEF NobodyLeft
    <3>. QED  BY <1>1, <3>1, MoveType, MoveBooks
  <2>2. sess' = [sess EXCEPT !.job = j]
    BY <1>4 DEF ResolveDone, SetJob, SetSession
  <2>. HIDE DEF j
  <2>3. Known(j) /\ Recipients(j) = Recipients(job)
    BY <1>2, <2>1, SameKnown
  <2>4. HeldFor(job) = {} /\ Losses(j) = Losses(job)
    BY <1>4, <2>1 DEF HeldFor, Losses
  <2>5. j.reply = "ok" => Acked(j)
    <3>. SUFFICES ASSUME j.reply = "ok" PROVE Acked(j)
      OBVIOUS
    <3>1. PICK r \in Rcpts : "forwarded" \in job.fate[r]
      BY <2>1 DEF NobodyLeft, Someone
    <3>2. r \in Recipients(job)
      BY <1>2, <3>1 DEF Known
    <3>. QED  BY <1>3, <2>1, <2>3, <2>4, <3>1, <3>2 DEF Acked, Covered
  <2>6. j.reply = "refused" => NoFate(j)
    BY <1>2, <2>1 DEF NobodyLeft, Someone, NoFate
  <2>7. Accounted(j)
    BY <2>1, <2>3, <2>5, <2>6 DEF Accounted
  <2>. QED  BY <1>1, <2>2, <2>7, AccountStep
<1>5. CASE job.held # <<>>
  <2>. DEFINE j == Goto(job, "file")
  <2>1. /\ j.fate = job.fate /\ j.lost = job.lost /\ j.rcpts = job.rcpts /\ j.held = job.held
        /\ j.stage = "file" /\ j.reply = "none" /\ j.got = job.got
    BY <1>1, <1>2, MoveType, MoveBooks
  <2>2. sess' = [sess EXCEPT !.job = j]
    BY <1>5 DEF ResolveDone, SetJob, SetSession
  <2>. HIDE DEF j
  <2>3. Known(j) /\ Recipients(j) = Recipients(job) /\ HeldFor(j) = HeldFor(job)
    BY <1>2, <2>1, SameKnown
  <2>4. job.got = <<>>
    BY <1>1 DEF JobShape
  <2>5. Filed(j)
    BY <1>2, <2>1, <2>4 DEF Filed
  <2>6. \A r \in Recipients(j) : Covered(j, r)
    BY <1>3, <2>1, <2>3 DEF Covered, Losses
  <2>7. Accounted(j)
    BY <2>1, <2>3, <2>5, <2>6 DEF Accounted
  <2>. QED  BY <1>1, <2>2, <2>7, AccountStep
<1>. QED  BY <1>4, <1>5

LEMMA FileAccount ==
    ASSUME SmtpInv, AccountInv, FileOne \/ FileDone
    PROVE  AccountInv'
<1>1. /\ Accepted /\ sess \in Session /\ job \in Job /\ job.stage = "file" /\ Accounted(job)
      /\ JobShape(job)
  <2>1. At("file")
    BY DEF FileOne, FileDone
  <2>. QED  BY <2>1, AcceptedJob DEF AccountInv
<1>2. /\ Known(job) /\ job.reply = "none" /\ Filed(job)
      /\ \A r \in Recipients(job) : r \in Rcpts /\ Covered(job, r)
  BY <1>1, RecipientType DEF Accounted
<1>3. /\ job.got \in Seq(Delivery) /\ job.held \in Seq(Rcpts) /\ job.at \in Nat \ {0}
      /\ Len(job.got) + 1 = job.at /\ Len(job.got) <= Len(job.held)
  BY <1>1 DEF JobShape, Job
<1>4. CASE FileDone
  <2>. DEFINE j == Goto(job, "settle")
  <2>1. /\ j.fate = job.fate /\ j.lost = job.lost /\ j.rcpts = job.rcpts /\ j.held = job.held
        /\ j.stage = "settle" /\ j.reply = "none" /\ j.got = job.got
    BY <1>1, <1>2, MoveType, MoveBooks
  <2>2. sess' = [sess EXCEPT !.job = j] /\ job.at > Len(job.held)
    BY <1>4 DEF FileDone, SetJob, SetSession
  <2>. HIDE DEF j
  <2>3. Known(j) /\ Recipients(j) = Recipients(job) /\ HeldFor(j) = HeldFor(job)
    BY <1>2, <2>1, SameKnown
  <2>4. Filed(j) /\ \A r \in Recipients(j) : Covered(j, r)
    BY <1>2, <2>1, <2>3 DEF Filed, Covered, Losses
  <2>5. Len(j.got) = Len(j.held)
    <3>1. Len(job.got) \in Nat /\ Len(job.held) \in Nat
      BY <1>3
    <3>. QED  BY <1>3, <2>1, <2>2, <3>1
  <2>6. Accounted(j)
    BY <2>1, <2>3, <2>4, <2>5 DEF Accounted
  <2>. QED  BY <1>1, <2>2, <2>6, AccountStep
<1>5. CASE FileOne
  <2>1. job.at <= Len(job.held)
    BY <1>5 DEF FileOne
  <2>2. PICK d \in Delivery :
          LET next == [job EXCEPT !.at = @ + 1, !.got = Append(@, d)]
          IN  sess' = [sess EXCEPT !.job = IF d.kept \in {"filed", "discarded"}
                                             THEN Meet(next, {job.held[job.at]}, d.kept) ELSE next]
    BY <1>5 DEF FileOne, SetJob, SetSession
  <2>. DEFINE next == [job EXCEPT !.at = @ + 1, !.got = Append(@, d)]
              r == job.held[job.at]
              j == IF d.kept \in {"filed", "discarded"} THEN Meet(next, {r}, d.kept) ELSE next
  <2>3. /\ Append(job.got, d) \in Seq(Delivery) /\ job.at + 1 \in Nat \ {0}
        /\ DOMAIN Append(job.got, d) = DOMAIN job.got \cup {job.at}
        /\ \A i \in DOMAIN job.got : Append(job.got, d)[i] = job.got[i]
        /\ Append(job.got, d)[job.at] = d
    BY <1>3
  <2>4. job.at \in DOMAIN job.held /\ r \in HeldFor(job) /\ r \in Recipients(job) /\ r \in Rcpts
    <3>1. job.at \in DOMAIN job.held
      BY <1>3, <2>1
    <3>2. r \in HeldFor(job)
      BY <3>1 DEF HeldFor
    <3>. QED  BY <1>2, <3>1, <3>2 DEF Known
  <2>5. /\ next \in Job /\ next.rcpts = job.rcpts /\ next.held = job.held /\ next.fate = job.fate
        /\ next.lost = job.lost /\ next.reply = "none" /\ next.stage = "file"
        /\ next.got = Append(job.got, d)
    BY <1>1, <1>2, <2>3 DEF Job
  <2>6. sess' = [sess EXCEPT !.job = j]
    BY <2>2
  <2>. HIDE DEF next
  <2>7. /\ j.rcpts = job.rcpts /\ j.held = job.held /\ j.lost = job.lost /\ j.reply = "none"
        /\ j.stage = "file" /\ j.got = Append(job.got, d)
        /\ \A x \in Rcpts : x # r => j.fate[x] = job.fate[x]
        /\ d.kept \in {"filed", "discarded"} => j.fate[r] = job.fate[r] \cup {d.kept}
        /\ d.kept \notin {"filed", "discarded"} => j.fate[r] = job.fate[r]
    <3>1. CASE d.kept \in {"filed", "discarded"}
      <4>1. d.kept \in {"queued", "forwarded", "filed", "discarded", "relayed", "bounced", "dropped"}
        BY <3>1
      <4>2. j = Meet(next, {r}, d.kept)
        BY <3>1
      <4>. HIDE DEF j, r
      <4>3. j.stage = next.stage /\ j.got = next.got
        BY <2>5, <4>1, <4>2, FateType
      <4>4. /\ \A x \in Rcpts : j.fate[x] = IF x \in {r} THEN next.fate[x] \cup {d.kept} ELSE next.fate[x]
            /\ j.lost = next.lost /\ j.reply = next.reply /\ j.rcpts = next.rcpts /\ j.held = next.held
        <5>1. next \in Job
          BY <2>5
        <5>. QED  BY <4>2, <5>1, MeetBooks
      <4>. QED  BY <2>4, <2>5, <3>1, <4>3, <4>4
    <3>2. CASE d.kept \notin {"filed", "discarded"}
      BY <2>5, <3>2
    <3>. QED  BY <3>1, <3>2
  <2>. HIDE DEF j
  <2>8. HeldFor(j) = HeldFor(job) /\ Losses(j) = Losses(job) /\ Recipients(j) = Recipients(job)
    BY <2>7 DEF HeldFor, Losses, Recipients
  <2>9. \A x \in Rcpts : job.fate[x] \subseteq j.fate[x]
    BY <2>7
  <2>10. Known(j) /\ \A x \in Recipients(j) : Covered(j, x)
    BY <1>2, <2>4, <2>7, <2>8, <2>9 DEF Known, Covered
  <2>11. Filed(j)
    <3>. HIDE DEF r
    <3>1. \A i \in DOMAIN job.got : job.held[i] \in Rcpts
      <4>1. \A i \in 1..Len(job.got) : i \in 1..Len(job.held)
        BY <1>3
      <4>. QED  BY <1>3, <4>1
    <3>2. \A i \in DOMAIN j.got : j.got[i].kept \in {"filed", "discarded"} => j.fate[j.held[i]] # {}
      <4>. SUFFICES ASSUME NEW i \in DOMAIN j.got, j.got[i].kept \in {"filed", "discarded"}
                    PROVE  j.fate[j.held[i]] # {}
        OBVIOUS
      <4>1. CASE i \in DOMAIN job.got
        <5>1. job.got[i].kept \in {"filed", "discarded"}
          BY <2>3, <2>7, <4>1
        <5>2. job.fate[job.held[i]] # {}
          BY <1>2, <4>1, <5>1 DEF Filed
        <5>. QED  BY <2>7, <2>9, <3>1, <4>1, <5>2
      <4>2. CASE i = job.at
        <5>1. d.kept \in {"filed", "discarded"} /\ j.held[i] = r
          BY <2>3, <2>7, <4>2 DEF r
        <5>. QED  BY <2>7, <5>1
      <4>. QED  BY <2>3, <2>7, <4>1, <4>2
    <3>3. ASSUME NEW x \in Rcpts
          PROVE  /\ j.fate[x] \subseteq {"forwarded", "filed", "discarded"}
                 /\ j.fate[x] \subseteq {"forwarded"} \/
                      \E i \in DOMAIN j.got : j.got[i].kept \in {"filed", "discarded"}
      <4>1. CASE d.kept \in {"filed", "discarded"}
        <5>1. job.at \in DOMAIN j.got /\ j.got[job.at].kept \in {"filed", "discarded"}
          BY <2>3, <2>7, <4>1
        <5>2. j.fate[x] \subseteq {"forwarded", "filed", "discarded"}
          BY <1>2, <2>7, <4>1 DEF Filed
        <5>. QED  BY <5>1, <5>2
      <4>2. CASE d.kept \notin {"filed", "discarded"}
        <5>1. j.fate[x] = job.fate[x]
          BY <2>7, <4>2
        <5>2. \A i \in DOMAIN job.got : i \in DOMAIN j.got /\ j.got[i] = job.got[i]
          BY <2>3, <2>7
        <5>. QED  BY <1>2, <5>1, <5>2 DEF Filed
      <4>. QED  BY <4>1, <4>2
    <3>. QED  BY <3>2, <3>3 DEF Filed
  <2>12. Accounted(j)
    BY <2>7, <2>10, <2>11 DEF Accounted
  <2>. QED  BY <1>1, <2>6, <2>12, AccountStep
<1>. QED  BY <1>4, <1>5

(* Once every mailbox has been tried, whoever is held has an outcome: a fate, *)
(* a copy to relay, or a full mailbox.                                        *)
LEMMA HeldOutcome ==
    ASSUME NEW j \in Job, Filed(j), Len(j.got) = Len(j.held)
    PROVE  /\ DOMAIN j.got = DOMAIN j.held
           /\ \A i \in DOMAIN j.got : j.got[i] \in Delivery /\ j.held[i] \in HeldFor(j)
           /\ Relayed(j) \subseteq HeldFor(j) /\ OverQuota(j) \subseteq HeldFor(j)
           /\ \A r \in HeldFor(j) : j.fate[r] # {} \/ r \in Relayed(j) \/ r \in OverQuota(j)
<1>1. j.got \in Seq(Delivery) /\ j.held \in Seq(Rcpts)
  BY DEF Job
<1>2. DOMAIN j.got = DOMAIN j.held
  BY <1>1
<1>3. \A i \in DOMAIN j.got : j.got[i] \in Delivery /\ j.held[i] \in HeldFor(j)
  BY <1>1, <1>2 DEF HeldFor
<1>4. Relayed(j) \subseteq HeldFor(j) /\ OverQuota(j) \subseteq HeldFor(j)
  BY <1>3 DEF Relayed, OverQuota
<1>5. ASSUME NEW r \in HeldFor(j) PROVE j.fate[r] # {} \/ r \in Relayed(j) \/ r \in OverQuota(j)
  <2>1. PICK i \in DOMAIN j.got : r = j.held[i]
    BY <1>2 DEF HeldFor
  <2>2. j.got[i].kept \in {"filed", "discarded", "overQuota"} \/ j.got[i].relays
    <3>1. j.got[i] \in Delivery
      BY <1>3
    <3>. QED  BY <3>1 DEF Delivery
  <2>3. CASE j.got[i].kept \in {"filed", "discarded"}
    BY <2>1, <2>3 DEF Filed
  <2>4. CASE j.got[i].kept = "overQuota"
    BY <2>1, <2>4 DEF OverQuota
  <2>5. CASE j.got[i].relays
    BY <2>1, <2>5 DEF Relayed
  <2>. QED  BY <2>2, <2>3, <2>4, <2>5
<1>. QED  BY <1>2, <1>3, <1>4, <1>5

(* The books after the copies and the report are queued, or lost.             *)
LEMMA SettleBooks ==
    ASSUME NEW j \in Job, NEW relayed, NEW bounced, NEW dropped, NEW failed, NEW k,
           k = Answered(Lose(Meet(Meet(Meet(j, relayed, "relayed"), bounced, "bounced"),
                                  dropped, "dropped"), failed, "queue"), "ok"),
           failed \subseteq Rcpts
    PROVE  /\ k.stage = "reply" /\ k.reply = "ok" /\ k.rcpts = j.rcpts /\ k.held = j.held
           /\ Losses(k) = Losses(j) \cup failed
           /\ \A r \in failed : <<r, "queue">> \in k.lost
           /\ \A r \in Rcpts :
                /\ j.fate[r] \subseteq k.fate[r]
                /\ r \in relayed \cup bounced \cup dropped => k.fate[r] # {}
                /\ r \notin relayed \cup bounced \cup dropped => k.fate[r] = j.fate[r]
<1>. DEFINE a == Meet(j, relayed, "relayed")
            b == Meet(a, bounced, "bounced")
            c == Meet(b, dropped, "dropped")
            d == Lose(c, failed, "queue")
<1>1. a \in Job
  BY FateType
<1>2. /\ \A r \in Rcpts : a.fate[r] = IF r \in relayed THEN j.fate[r] \cup {"relayed"} ELSE j.fate[r]
      /\ a.lost = j.lost /\ a.rcpts = j.rcpts /\ a.held = j.held
  BY DEF Meet, Job
<1>3. k = Answered(d, "ok")
  OBVIOUS
<1>. HIDE DEF a
<1>4. b \in Job
  BY <1>1, FateType
<1>5. /\ \A r \in Rcpts : b.fate[r] = IF r \in bounced THEN a.fate[r] \cup {"bounced"} ELSE a.fate[r]
      /\ b.lost = a.lost /\ b.rcpts = a.rcpts /\ b.held = a.held
  BY <1>1, MeetBooks
<1>. HIDE DEF b
<1>6. c \in Job
  BY <1>4, FateType
<1>7. /\ \A r \in Rcpts : c.fate[r] = IF r \in dropped THEN b.fate[r] \cup {"dropped"} ELSE b.fate[r]
      /\ c.lost = b.lost /\ c.rcpts = b.rcpts /\ c.held = b.held
  BY <1>4, MeetBooks
<1>. HIDE DEF c
<1>8. d \in Job
  <2>1. failed \in SUBSET Rcpts
    OBVIOUS
  <2>. QED  BY <1>6, <2>1, LossType
<1>9. /\ d.lost = c.lost \cup (failed \X {"queue"}) /\ Losses(d) = Losses(c) \cup failed
      /\ d.fate = c.fate /\ d.rcpts = c.rcpts /\ d.held = c.held
  BY <1>6, LoseBooks
<1>. HIDE DEF d
<1>10. /\ k.stage = "reply" /\ k.reply = "ok" /\ k.rcpts = d.rcpts /\ k.held = d.held
       /\ k.fate = d.fate /\ k.lost = d.lost
  BY <1>3, <1>8, MoveType, MoveBooks
<1>11. Losses(k) = Losses(j) \cup failed
  BY <1>2, <1>5, <1>7, <1>9, <1>10 DEF Losses
<1>12. ASSUME NEW r \in failed PROVE <<r, "queue">> \in k.lost
  BY <1>9, <1>10
<1>13. ASSUME NEW r \in Rcpts
       PROVE  /\ j.fate[r] \subseteq k.fate[r]
              /\ r \in relayed \cup bounced \cup dropped => k.fate[r] # {}
              /\ r \notin relayed \cup bounced \cup dropped => k.fate[r] = j.fate[r]
  <2>1. /\ a.fate[r] = IF r \in relayed THEN j.fate[r] \cup {"relayed"} ELSE j.fate[r]
        /\ b.fate[r] = IF r \in bounced THEN a.fate[r] \cup {"bounced"} ELSE a.fate[r]
        /\ k.fate[r] = IF r \in dropped THEN b.fate[r] \cup {"dropped"} ELSE b.fate[r]
    BY <1>2, <1>5, <1>7, <1>9, <1>10
  <2>. QED  BY <2>1
<1>. QED  BY <1>2, <1>5, <1>7, <1>9, <1>10, <1>11, <1>12, <1>13

LEMMA SettleAccount ==
    ASSUME SmtpInv, AccountInv, Settle
    PROVE  AccountInv'
<1>1. /\ Accepted /\ sess \in Session /\ job \in Job /\ job.stage = "settle" /\ Accounted(job)
      /\ JobShape(job)
  <2>1. At("settle")
    BY DEF Settle
  <2>. QED  BY <2>1, AcceptedJob DEF AccountInv
<1>2. /\ Known(job) /\ job.reply = "none" /\ Filed(job) /\ Len(job.got) = Len(job.held)
      /\ \A r \in Recipients(job) : r \in Rcpts /\ Covered(job, r)
  BY <1>1, RecipientType DEF Accounted
<1>3. /\ DOMAIN job.got = DOMAIN job.held
      /\ \A i \in DOMAIN job.got : job.got[i] \in Delivery /\ job.held[i] \in HeldFor(job)
      /\ Relayed(job) \subseteq HeldFor(job) /\ OverQuota(job) \subseteq HeldFor(job)
      /\ \A r \in HeldFor(job) : job.fate[r] # {} \/ r \in Relayed(job) \/ r \in OverQuota(job)
  BY <1>1, <1>2, HeldOutcome
<1>4. HeldFor(job) \subseteq Recipients(job)
  BY <1>2 DEF Known
<1>5. CASE /\ RefusedEverywhere(job)
           /\ sess' = [sess EXCEPT !.job = Answered(job, "refused")]
  <2>. DEFINE j == Answered(job, "refused")
  <2>1. /\ j.fate = job.fate /\ j.rcpts = job.rcpts /\ j.held = job.held /\ j.stage = "reply"
        /\ j.reply = "refused"
    BY <1>1, MoveType, MoveBooks
  <2>. HIDE DEF j
  <2>2. Known(j)
    BY <1>2, <2>1, SameKnown
  <2>3. NoFate(j)
    <3>1. ASSUME NEW r \in Rcpts PROVE job.fate[r] = {}
      <4>1. "forwarded" \notin job.fate[r]
        BY <1>5 DEF RefusedEverywhere, Someone
      <4>2. ~ \E i \in DOMAIN job.got : job.got[i].kept \in {"filed", "discarded"}
        BY <1>5 DEF RefusedEverywhere
      <4>3. job.fate[r] \subseteq {"forwarded"}
        BY <1>2, <4>2 DEF Filed
      <4>. QED  BY <4>1, <4>3
    <3>. QED  BY <2>1, <3>1 DEF NoFate
  <2>4. Accounted(j)
    BY <2>1, <2>2, <2>3 DEF Accounted
  <2>. QED  BY <1>1, <1>5, <2>4, AccountStep DEF j
<1>6. ASSUME ~RefusedEverywhere(job), NEW relayed, NEW bounced, NEW failed,
             relayed \subseteq Relayed(job), bounced \subseteq Bounced(job),
             failed = (Relayed(job) \ relayed) \cup (Bounced(job) \ bounced),
             sess' = [sess EXCEPT !.job = Answered(
                        Lose(Meet(Meet(Meet(job, relayed, "relayed"), bounced, "bounced"),
                                  Dropped(job), "dropped"), failed, "queue"), "ok")]
      PROVE  AccountInv'
  <2>. DEFINE k == Answered(Lose(Meet(Meet(Meet(job, relayed, "relayed"), bounced, "bounced"),
                                  Dropped(job), "dropped"), failed, "queue"), "ok")
              met == relayed \cup bounced \cup Dropped(job)
  <2>1. sess' = [sess EXCEPT !.job = k]
    BY <1>6
  <2>2. /\ met \cup failed = Relayed(job) \cup OverQuota(job)
        /\ met \subseteq HeldFor(job) /\ failed \subseteq HeldFor(job) /\ failed \subseteq Rcpts
    <3>1. Bounced(job) \cup Dropped(job) = OverQuota(job)
      BY DEF Bounced, Dropped
    <3>2. met \cup failed = Relayed(job) \cup OverQuota(job)
      BY <1>6, <3>1
    <3>. HIDE DEF met
    <3>. QED  BY <1>2, <1>3, <1>4, <3>2
  <2>3. /\ k.stage = "reply" /\ k.reply = "ok" /\ k.rcpts = job.rcpts /\ k.held = job.held
        /\ Losses(k) = Losses(job) \cup failed
        /\ \A r \in failed : <<r, "queue">> \in k.lost
        /\ \A r \in Rcpts : /\ job.fate[r] \subseteq k.fate[r]
                            /\ r \in met => k.fate[r] # {}
                            /\ r \notin met => k.fate[r] = job.fate[r]
    BY <1>1, <2>2, SettleBooks
  <2>. HIDE DEF k, met
  <2>4. Recipients(k) = Recipients(job) /\ HeldFor(k) = HeldFor(job)
    BY <2>3 DEF Recipients, HeldFor
  <2>5. Known(k)
    BY <1>2, <1>4, <2>2, <2>3, <2>4 DEF Known
  <2>6. \A r \in Recipients(job) : k.fate[r] # {} \/ r \in Losses(k)
    BY <1>2, <1>3, <2>2, <2>3 DEF Covered
  <2>7. (\E r \in Recipients(job) : k.fate[r] # {}) \/ \E loss \in k.lost : loss[2] = "queue"
    <3>1. CASE Someone(job, "forwarded")
      <4>1. PICK r \in Rcpts : "forwarded" \in job.fate[r]
        BY <3>1 DEF Someone
      <4>. QED  BY <1>2, <2>3, <4>1 DEF Known
    <3>2. CASE ~Someone(job, "forwarded")
      <4>1. PICK i \in DOMAIN job.got : job.got[i].kept # "overQuota" \/ job.got[i].relays
        BY <1>6, <3>2 DEF RefusedEverywhere
      <4>. DEFINE r == job.held[i]
      <4>2. r \in Recipients(job) /\ r \in Rcpts
        BY <1>2, <1>3, <1>4, <4>1
      <4>3. job.got[i].kept \in {"filed", "discarded"} \/ job.got[i].relays
        <5>1. job.got[i] \in Delivery
          BY <1>3
        <5>. QED  BY <4>1, <5>1 DEF Delivery
      <4>4. job.fate[r] # {} \/ r \in Relayed(job)
        BY <1>2, <4>3 DEF Filed, Relayed
      <4>. HIDE DEF r
      <4>5. job.fate[r] # {} \/ r \in met \/ r \in failed
        BY <2>2, <4>4
      <4>6. CASE r \in failed
        <5>1. <<r, "queue">> \in k.lost /\ <<r, "queue">>[2] = "queue"
          BY <2>3, <4>6
        <5>. QED  BY <5>1
      <4>7. CASE job.fate[r] # {} \/ r \in met
        BY <2>3, <4>2, <4>7
      <4>. QED  BY <4>5, <4>6, <4>7
    <3>. QED  BY <3>1, <3>2
  <2>8. Acked(k)
    BY <2>4, <2>6, <2>7 DEF Acked
  <2>9. Accounted(k)
    BY <2>3, <2>5, <2>8 DEF Accounted
  <2>. QED  BY <1>1, <2>1, <2>9, AccountStep
<1>7. CASE /\ ~RefusedEverywhere(job)
           /\ \E relayed \in SUBSET Relayed(job), bounced \in {Bounced(job), {}} :
                LET failed == (Relayed(job) \ relayed) \cup (Bounced(job) \ bounced)
                IN  sess' = [sess EXCEPT !.job = Answered(
                        Lose(Meet(Meet(Meet(job, relayed, "relayed"), bounced, "bounced"),
                                  Dropped(job), "dropped"), failed, "queue"), "ok")]
  <2>1. PICK relayed \in SUBSET Relayed(job), bounced \in {Bounced(job), {}} :
          LET failed == (Relayed(job) \ relayed) \cup (Bounced(job) \ bounced)
          IN  sess' = [sess EXCEPT !.job = Answered(
                  Lose(Meet(Meet(Meet(job, relayed, "relayed"), bounced, "bounced"),
                            Dropped(job), "dropped"), failed, "queue"), "ok")]
    BY <1>7
  <2>. DEFINE failed == (Relayed(job) \ relayed) \cup (Bounced(job) \ bounced)
  <2>2. sess' = [sess EXCEPT !.job = Answered(
                  Lose(Meet(Meet(Meet(job, relayed, "relayed"), bounced, "bounced"),
                            Dropped(job), "dropped"), failed, "queue"), "ok")]
    BY <2>1
  <2>3. relayed \subseteq Relayed(job) /\ bounced \subseteq Bounced(job)
    OBVIOUS
  <2>4. failed = (Relayed(job) \ relayed) \cup (Bounced(job) \ bounced)
    OBVIOUS
  <2>. HIDE DEF failed
  <2>. QED  BY <1>6, <1>7, <2>2, <2>3, <2>4
<1>. QED  BY <1>5, <1>7 DEF Settle, SetJob, SetSession

LEMMA AccountInvariant == Spec => []AccountInv
<1>1. Init => AccountInv
  BY DEF Init, AccountInv, Accepted, Connected
<1>2. SmtpInv /\ AccountInv /\ [Next]_vars => AccountInv'
  <2>. SUFFICES ASSUME SmtpInv, AccountInv, [Next]_vars PROVE AccountInv'
    OBVIOUS
  <2>1. CASE Command
    BY <2>1, CommandAccount, AcceptAccount DEF Command
  <2>2. CASE Handling
    BY <2>2, EarlyAccount, ResolveAccount, ResolvedAccount, FileAccount, SettleAccount,
       CommandAccount DEF Handling
  <2>3. CASE ChangeDirectory \/ UNCHANGED vars
    <3>1. sess' = sess
      BY <2>3 DEF ChangeDirectory, vars
    <3>. QED  BY <3>1 DEF AccountInv, Accepted, Connected, job
  <2>. QED  BY <2>1, <2>2, <2>3 DEF Next
<1>. QED  BY <1>1, <1>2, SmtpInvariant, PTL DEF Spec

(* "250 Message accepted" accounts for every recipient and reaches somebody,  *)
(* or the queue refused a copy after the mailboxes were done with, for every  *)
(* number of recipients and whatever the directory, the filters and the       *)
(* quotas decide on the way.                                                  *)
THEOREM AcksAccount == Spec => []AckAccounts
<1>1. AccountInv => AckAccounts
  BY DEF AccountInv, Accounted, Acked, AckAccounts, Losses
<1>. QED  BY <1>1, AccountInvariant, PTL

(* A refused message has been kept for nobody: what could have been filed or  *)
(* forwarded before the refusal rules the refusal out.                        *)
THEOREM RefusalsKeepNothing == Spec => []RefusalKeepsNothing
<1>1. AccountInv => RefusalKeepsNothing
  BY DEF AccountInv, Accounted, NoFate, RefusalKeepsNothing
<1>. QED  BY <1>1, AccountInvariant, PTL
=============================================================================
