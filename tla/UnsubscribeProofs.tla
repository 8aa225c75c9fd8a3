-------------------------- MODULE UnsubscribeProofs --------------------------
(***************************************************************************)
(* One-click unsubscription beside the brief pipeline, for every number of *)
(* users, runners, mailers, consumers and requests.  On top of IInv: an    *)
(* answer given is the answer of the log row, or the digest is gone for    *)
(* good and with it every way to consume the token again.                  *)
(***************************************************************************)
EXTENDS Unsubscribe, BriefProofs

-----------------------------------------------------------------------------
(* The inductive invariant *)

ReqStates == [pc: {"idle", "select", "insert", "commit"}, token: Token \cup {Null}, at: Nat]

RequestTypeOK ==
  /\ log \subseteq LogRow /\ optedOut \subseteq Users /\ tokens \subseteq Token
  /\ req \in [Consumers -> ReqStates]
  /\ nextReq \in Nat
  /\ replies \subseteq Reply

\* A jti names one token; its digest is one that was committed, never one that
\* a runner has yet to commit.
TokensOK ==
  /\ \A t \in tokens : t.jti < nextMsg /\ t.digest < nextId
  /\ \A s, t \in tokens : s.jti = t.jti => s = t
  /\ \A t \in tokens, r \in Runners : Inserting(r) => run[r].new # t.digest

\* A row of the log is of a token and refers to a digest; UNIQUE(jwt_id).
LogOK ==
  /\ \A l \in log :
       /\ l.digest \in Ids(digests) /\ l.user \in optedOut
       /\ \E t \in tokens : t.jti = l.jti /\ t.digest = l.digest /\ t.user = l.user
  /\ \A k, l \in log : k.jti = l.jti => k = l

\* A request is about a token; one that has inserted its log row keeps the
\* digest from being deleted and the jti from being consumed.
RequestOK(c) ==
  /\ req[c].pc = "idle" => req[c] = NoRequest
  /\ req[c].pc # "idle" => req[c].token \in tokens
  /\ req[c].pc = "commit" =>
       /\ req[c].token.digest \in Ids(digests) /\ ~Locked(req[c].token.digest)
       /\ \A l \in log : l.jti # req[c].token.jti

\* Two of them are about different tokens.
RequestsOK(c, o) ==
  req[c].pc = "commit" /\ req[o].pc = "commit" => req[c].token.jti # req[o].token.jti

\* Who was told that the token was consumed is opted out, at the time the log
\* says, or the digest is gone.
ToldOK(a) ==
  a.kind \in {"done", "replay"} =>
    \E t \in tokens :
      /\ t.jti = a.jti /\ t.user \in optedOut
      /\ t.digest \in Ids(digests) => \E l \in log : l.jti = a.jti /\ l.at = a.at

UInv ==
  /\ IInv
  /\ RequestTypeOK
  /\ TokensOK
  /\ LogOK
  /\ \A c \in Consumers : RequestOK(c)
  /\ \A c, o \in Consumers : c # o => RequestsOK(c, o)
  /\ \A a \in replies : ToldOK(a)
  /\ ConsumedOnce

-----------------------------------------------------------------------------
(* What a step of the brief pipeline may do to what a request relies on *)

\* How a runner comes to hold a row it deletes or one it inserts.
LEMMA RunnerMoves ==
  ASSUME IInv, NEW r \in Runners, RunnerStep(r)
  PROVE  /\ \A s \in Runners \ {r} : run'[s] = run[s]
         /\ Inserting(r)' => (run'[r] = run[r] \/ run'[r].new = nextId)
         /\ Deleting(r)' =>
              /\ run'[r].old = run[r].old
              /\ Deleting(r) \/ (run[r].pc = "delete" /\ run'[r].pc = "build")
  <1> USE DEF IInv
  <1>1. run \in [Runners -> RunState] /\ run[r] \in RunState
    BY DEF TypeOK
  <1>2. CASE DailyTick(r)
    BY <1>2 DEF DailyTick, Inserting, Deleting
  <1>3. CASE ServeUser(r) \/ RunForUser(r) \/ RunRaises(r) \/ Crash(r)
    <2>1. PICK x : /\ x = IdleRun \/ \E u, d : x = Started(u, d)
                   /\ run' = [run EXCEPT ![r] = x]
      BY <1>3 DEF ServeUser, RunForUser, RunRaises, Crash, EndRun
    <2>2. x.pc \in {"idle", "select"}
      <3>1. ASSUME NEW u, NEW d PROVE Started(u, d).pc = "select"
        BY DEF IdleRun, Started
      <3> QED
        BY <2>1, <3>1 DEF IdleRun
    <2>3. run'[r] = x /\ \A s \in Runners \ {r} : run'[s] = run[s]
      BY <1>1, <2>1
    <2> QED
      BY <2>2, <2>3 DEF Inserting, Deleting
  <1>4. CASE SelectExisting(r)
    <2>1. \A s \in Runners \ {r} : run'[s] = run[s]
      BY <1>1, <1>4 DEF SelectExisting, EndRun
    <2>2. run[r].old = Null
      BY <1>4 DEF CallOK, SelectExisting
    <2>3. \/ run'[r].pc \in {"idle", "delete"}
          \/ run'[r].pc = "build" /\ run'[r].old = run[r].old
      BY <1>1, <1>4 DEF SelectExisting, EndRun, IdleRun, RunState
    <2> QED
      BY <2>1, <2>2, <2>3 DEF Inserting, Deleting
  <1>5. CASE DeleteExisting(r)
    <2>1. PICK old : /\ run' = [run EXCEPT ![r].pc = "build", ![r].old = old]
                     /\ old = run[r].old \/ old = Null
      BY <1>5 DEF DeleteExisting
    <2>2. /\ \A s \in Runners \ {r} : run'[s] = run[s]
          /\ run'[r].pc = "build" /\ run'[r].old = old
      BY <1>1, <2>1 DEF RunState
    <2>3. run[r].pc = "delete"
      BY <1>5 DEF DeleteExisting
    <2> QED
      BY <2>1, <2>2, <2>3 DEF Inserting, Deleting
  <1>6. CASE InsertDigest(r)
    <2>1. /\ \A s \in Runners \ {r} : run'[s] = run[s]
          /\ \/ run'[r].pc = "commit" /\ run'[r].new = nextId /\ run'[r].old = run[r].old
             \/ run'[r].pc = "idle"
      BY <1>1, <1>6 DEF InsertDigest, EndRun, IdleRun, RunState
    <2>2. run[r].pc = "build"
      BY <1>6 DEF InsertDigest
    <2> QED
      BY <2>1, <2>2 DEF Inserting, Deleting
  <1>7. CASE CommitDigest(r)
    <2>1. /\ \A s \in Runners \ {r} : run'[s] = run[s]
          /\ run'[r].pc = "idle"
      BY <1>1, <1>7 DEF CommitDigest, EndRun, IdleRun
    <2> QED
      BY <2>1 DEF Inserting, Deleting
  <1> QED
    BY <1>2, <1>3, <1>4, <1>5, <1>6, <1>7 DEF RunnerStep, GenerateStep

LEMMA RunMoves ==
  ASSUME IInv, Next
  PROVE  /\ \A r \in Runners : Inserting(r)' => (run'[r] = run[r] \/ run'[r].new = nextId)
         /\ \A r \in Runners : Deleting(r)' =>
              /\ run'[r].old = run[r].old
              /\ Deleting(r) \/ (run[r].pc = "delete" /\ run'[r].pc = "build")
  <1>1. CASE UNCHANGED run
    BY <1>1 DEF Inserting, Deleting
  <1>2. ASSUME NEW r \in Runners, RunnerStep(r), NEW s \in Runners
        PROVE  /\ Inserting(s)' => (run'[s] = run[s] \/ run'[s].new = nextId)
               /\ Deleting(s)' =>
                    /\ run'[s].old = run[s].old
                    /\ Deleting(s) \/ (run[s].pc = "delete" /\ run'[s].pc = "build")
    <2>1. CASE s = r
      BY <1>2, <2>1, RunnerMoves
    <2>2. CASE s # r
      <3>1. run'[s] = run[s]
        BY <1>2, <2>2, RunnerMoves
      <3> QED
        BY <3>1 DEF Inserting, Deleting
    <2> QED
      BY <2>1, <2>2
  <1>3. CASE NextDay \/ \E m \in Mailers : MailerStep(m)
    BY <1>1, <1>3 DEF NextDay, MailerStep, BeginSend, SmtpAccepts, SmtpFails, UpdateDelivery,
                      MailerCrash
  <1> QED
    BY <1>2, <1>3 DEF Next

LEMMA CountersGrow ==
  ASSUME IInv, Next
  PROVE  nextMsg <= nextMsg' /\ nextId <= nextId' /\ nextId \in Nat /\ nextMsg \in Nat
  <1>1. nextId \in Nat /\ nextMsg \in Nat
    BY DEF IInv, TypeOK
  <1>2. (nextId' = nextId \/ nextId' = nextId + 1) /\ (nextMsg' = nextMsg \/ nextMsg' = nextMsg + 1)
    <2>1. CASE NextDay
      BY <2>1 DEF NextDay, mailVars
    <2>2. ASSUME NEW r \in Runners, RunnerStep(r)
          PROVE  (nextId' = nextId \/ nextId' = nextId + 1) /\ nextMsg' = nextMsg
      BY <2>2 DEF RunnerStep, GenerateStep, DailyTick, ServeUser, RunForUser, SelectExisting,
         DeleteExisting, InsertDigest, CommitDigest, RunRaises, Crash, mailVars
    <2>3. ASSUME NEW m \in Mailers, MailerStep(m)
          PROVE  nextId' = nextId /\ (nextMsg' = nextMsg \/ nextMsg' = nextMsg + 1)
      BY <2>3 DEF MailerStep, BeginSend, SmtpAccepts, SmtpFails, UpdateDelivery, MailerCrash
    <2> QED
      BY <2>1, <2>2, <2>3 DEF Next
  <1> QED
    BY <1>1, <1>2

\* Digests come from an INSERT of a runner and go with its DELETE.
LEMMA IdsMove ==
  ASSUME IInv, Next
  PROVE  /\ \A id \in Ids(digests') :
              id \in Ids(digests) \/ \E r \in Runners : Inserting(r) /\ run[r].new = id
         /\ \A id \in Ids(digests) : id \in Ids(digests') \/ Locked(id)
  <1>1. CASE digests' = digests
    BY <1>1
  <1>2. ASSUME NEW r \in Runners, CommitDigest(r)
        PROVE  /\ \A id \in Ids(digests') :
                    id \in Ids(digests) \/ \E s \in Runners : Inserting(s) /\ run[s].new = id
               /\ \A id \in Ids(digests) : id \in Ids(digests') \/ Locked(id)
    <2>1. digests' = {d \in digests : d.id # run[r].old} \cup {NewDigest(r)}
      BY <1>2 DEF CommitDigest
    <2>2. NewDigest(r).id = run[r].new /\ Inserting(r)
      BY <1>2 DEF NewDigest, CommitDigest, Inserting
    <2>3. ASSUME NEW d \in digests, d.id = run[r].old PROVE Locked(d.id)
      <3>1. d.id \in Nat
        BY DEF IInv, TypeOK, Digest
      <3>2. d.id # Null
        BY <3>1, BriefAssumption
      <3> QED
        BY <1>2, <2>3, <3>2 DEF Locked, Deleting, CommitDigest
    <2> QED
      BY <2>1, <2>2, <2>3 DEF Ids
  <1>3. ASSUME NEW m \in Mailers, UpdateDelivery(m) PROVE Ids(digests') = Ids(digests)
    <2>1. ASSUME NEW d \in digests PROVE d.id \in Ids(digests')
      BY <1>3, UpdateKeepsRows DEF Ids
    <2>2. ASSUME NEW e \in digests' PROVE e.id \in Ids(digests)
      <3> DEFINE status == mail[m].pc
                 msg == IF status = "emailed" THEN mail[m].msg ELSE Null
      <3>1. digests' = {IF d.id = mail[m].id THEN [d EXCEPT !.status = status, !.msg = msg] ELSE d :
                         d \in digests}
        BY <1>3 DEF UpdateDelivery
      <3>2. PICK d \in digests : e = d \/ e = [d EXCEPT !.status = status, !.msg = msg]
        BY <3>1
      <3>3. d \in Digest
        BY DEF IInv, TypeOK
      <3>4. e.id = d.id
        BY <3>2, <3>3 DEF Digest
      <3> QED
        BY <3>4 DEF Ids
    <2> QED
      BY <2>1, <2>2 DEF Ids
  <1> QED
    BY <1>1, <1>2, <1>3, DigestWriters

\* A message is for a digest that is there and has a number of its own.
LEMMA SendMoves ==
  ASSUME IInv, Next, NEW m \in Mailers, mail[m].pc = "idle", mail'[m].pc = "smtp"
  PROVE  /\ mail'[m].id \in Ids(digests) /\ mail'[m].msg = nextMsg /\ nextMsg' = nextMsg + 1
         /\ \A n \in Mailers \ {m} : mail'[n] = mail[n]
  <1>1. mail \in [Mailers -> MailState]
    BY DEF IInv, TypeOK
  <1>2. PICK n \in Mailers : MailerStep(n)
    BY DEF Next, NextDay, RunnerStep, GenerateStep, DailyTick, ServeUser,
           RunForUser, SelectExisting, DeleteExisting, InsertDigest, CommitDigest, RunRaises, Crash,
           mailVars
  <1>3. BeginSend(n) /\ n = m
    BY <1>1, <1>2 DEF MailerStep, BeginSend, SmtpAccepts, SmtpFails, UpdateDelivery, MailerCrash,
                      MailState, IdleMail
  <1>4. PICK d \in digests :
          mail' = [mail EXCEPT ![m] = [pc |-> "smtp", id |-> d.id, msg |-> nextMsg]]
    BY <1>3 DEF BeginSend
  <1> QED
    BY <1>1, <1>3, <1>4 DEF BeginSend, Ids

-----------------------------------------------------------------------------
(* Steps of the brief pipeline beside the requests *)

LEMMA MintedFacts ==
  ASSUME IInv, Next
  PROVE  /\ \A t \in Minted : t \in Token /\ t.jti = nextMsg /\ t.digest \in Ids(digests)
         /\ \A s, t \in Minted : s = t
         /\ Minted # {} => nextMsg' = nextMsg + 1
  <1>1. nextMsg \in Nat /\ digests \subseteq Digest
    BY DEF IInv, TypeOK
  <1>3. ASSUME NEW t \in Minted
        PROVE  \E m \in Mailers :
                 /\ mail[m].pc = "idle" /\ mail'[m].pc = "smtp"
                 /\ t = [jti |-> mail'[m].msg, digest |-> mail'[m].id,
                         user |-> (CHOOSE d \in digests : d.id = mail'[m].id).user]
    BY DEF Minted
  <1>4. ASSUME NEW t \in Minted
        PROVE  t \in Token /\ t.jti = nextMsg /\ t.digest \in Ids(digests) /\ nextMsg' = nextMsg + 1
    <2>1. PICK m \in Mailers :
             /\ mail[m].pc = "idle" /\ mail'[m].pc = "smtp"
             /\ t = [jti |-> mail'[m].msg, digest |-> mail'[m].id,
                     user |-> (CHOOSE d \in digests : d.id = mail'[m].id).user]
      BY <1>3
    <2>2. mail'[m].id \in Ids(digests) /\ mail'[m].msg = nextMsg /\ nextMsg' = nextMsg + 1
      BY <2>1, SendMoves
    <2>3. PICK id, user : id = mail'[m].id /\ user = (CHOOSE d \in digests : d.id = id).user
      OBVIOUS
    <2>4. \E d \in digests : d.id = id
      BY <2>2, <2>3 DEF Ids
    <2>5. id \in Nat /\ user \in Users
      BY <1>1, <2>3, <2>4 DEF Digest
    <2>6. t = [jti |-> nextMsg, digest |-> id, user |-> user]
      BY <2>1, <2>2, <2>3
    <2> QED
      BY <1>1, <2>2, <2>3, <2>5, <2>6 DEF Token
  <1>5. ASSUME NEW s \in Minted, NEW t \in Minted PROVE s = t
    <2>1. PICK m \in Mailers :
             /\ mail[m].pc = "idle" /\ mail'[m].pc = "smtp"
             /\ t = [jti |-> mail'[m].msg, digest |-> mail'[m].id,
                     user |-> (CHOOSE d \in digests : d.id = mail'[m].id).user]
      BY <1>3
    <2>2. PICK n \in Mailers :
             /\ mail[n].pc = "idle" /\ mail'[n].pc = "smtp"
             /\ s = [jti |-> mail'[n].msg, digest |-> mail'[n].id,
                     user |-> (CHOOSE d \in digests : d.id = mail'[n].id).user]
      BY <1>3
    <2>3. n = m
      <3>1. \A k \in Mailers \ {m} : mail'[k] = mail[k]
        BY <2>1, SendMoves
      <3> QED
        BY <2>2, <3>1
    <2> QED
      BY <2>1, <2>2, <2>3
  <1> QED
    BY <1>4, <1>5

LEMMA BesideUInv ==
  ASSUME UInv, Beside(Next)
  PROVE  UInv'
  <1> USE DEF UInv
  <1>1. /\ Next /\ DeleteWaits /\ tokens' = tokens \cup Minted
        /\ log' = {l \in log : l.digest \in Ids(digests')}
        /\ UNCHANGED <<optedOut, req, nextReq, replies>>
    BY DEF Beside, Cascade, requestVars
  <1>2. IInv'
    BY <1>1, NextIInv
  <1>3. /\ nextMsg <= nextMsg' /\ nextId <= nextId' /\ nextId \in Nat /\ nextMsg \in Nat
        /\ nextId' \in Nat /\ nextMsg' \in Nat
    BY <1>1, <1>2, CountersGrow DEF IInv, TypeOK
  <1>4. /\ \A t \in Minted : t \in Token /\ t.jti = nextMsg /\ t.digest \in Ids(digests)
        /\ \A s, t \in Minted : s = t
        /\ Minted # {} => nextMsg' = nextMsg + 1
    BY <1>1, MintedFacts
  <1>5. \A id \in Ids(digests) : id \in Nat /\ id < nextId
    BY DEF IInv, RowsOK, TypeOK, Digest, Ids
  <1>6. \A t \in tokens : t.jti \in Nat /\ t.digest \in Nat /\ t.jti < nextMsg /\ t.digest < nextId
    BY DEF RequestTypeOK, Token, TokensOK
  <1>7. RequestTypeOK'
    BY <1>1, <1>4 DEF RequestTypeOK
  <1>8. TokensOK'
    <2>1. ASSUME NEW t \in tokens' PROVE t.jti < nextMsg' /\ t.digest < nextId'
      BY <1>1, <1>3, <1>4, <1>5, <1>6
    <2>2. ASSUME NEW s \in tokens', NEW t \in tokens', s.jti = t.jti PROVE s = t
      BY <1>1, <1>3, <1>4, <1>6, <2>2 DEF TokensOK
    <2>3. ASSUME NEW t \in tokens', NEW r \in Runners, Inserting(r)' PROVE run'[r].new # t.digest
      <3>1. t.digest < nextId /\ t.digest \in Nat
        BY <1>1, <1>4, <1>5, <1>6
      <3>2. CASE run'[r] = run[r]
        <4>1. Inserting(r)
          BY <2>3, <3>2 DEF Inserting
        <4>2. run[r].new \notin Ids(digests)
          BY <4>1 DEF IInv, CallOK
        <4> QED
          BY <1>1, <1>4, <3>2, <4>1, <4>2 DEF TokensOK
      <3>3. CASE run'[r].new = nextId
        BY <1>3, <3>1, <3>3
      <3> QED
        BY <1>1, <2>3, <3>2, <3>3, RunMoves
    <2> QED
      BY <2>1, <2>2, <2>3 DEF TokensOK
  <1>9. LogOK'
    BY <1>1 DEF LogOK
  <1>10. ASSUME NEW c \in Consumers PROVE RequestOK(c)'
    <2>1. CASE req[c].pc = "commit"
      <3>1. PICK id : id = req[c].token.digest
        OBVIOUS
      <3>2. id \in Ids(digests) /\ ~Locked(id) /\ \A l \in log : l.jti # req[c].token.jti
        BY <2>1, <3>1 DEF RequestOK
      <3>3. id \in Ids(digests')
        BY <1>1, <3>2, IdsMove
      <3>4. ~Locked(id)'
        <4>1. ASSUME NEW r \in Runners, Deleting(r)', run'[r].old = id PROVE FALSE
          <5>1. /\ run[r].old = id
                /\ Deleting(r) \/ (run[r].pc = "delete" /\ run'[r].pc = "build")
            BY <1>1, <4>1, RunMoves
          <5>2. ~Deleting(r)
            BY <3>2, <5>1 DEF Locked
          <5>3. HoldsDigest(c, run[r].old)
            BY <2>1, <3>1, <5>1 DEF HoldsDigest
          <5> QED
            BY <1>1, <5>1, <5>2, <5>3 DEF DeleteWaits
        <4> QED
          BY <4>1 DEF Locked
      <3> QED
        BY <1>1, <2>1, <3>1, <3>2, <3>3, <3>4 DEF RequestOK
    <2>2. CASE req[c].pc # "commit"
      BY <1>1, <2>2 DEF RequestOK
    <2> QED
      BY <2>1, <2>2
  <1>11. \A c, o \in Consumers : c # o => RequestsOK(c, o)'
    BY <1>1 DEF RequestsOK
  <1>12. ASSUME NEW a \in replies PROVE ToldOK(a)'
    <2> SUFFICES ASSUME a.kind \in {"done", "replay"}
                 PROVE  \E t \in tokens' :
                          /\ t.jti = a.jti /\ t.user \in optedOut
                          /\ t.digest \in Ids(digests') => \E l \in log' : l.jti = a.jti /\ l.at = a.at
      BY <1>1 DEF ToldOK
    <2>1. PICK t \in tokens :
             /\ t.jti = a.jti /\ t.user \in optedOut
             /\ t.digest \in Ids(digests) => \E l \in log : l.jti = a.jti /\ l.at = a.at
      BY DEF ToldOK
    <2>2. ASSUME t.digest \in Ids(digests') PROVE \E l \in log' : l.jti = a.jti /\ l.at = a.at
      <3>1. t.digest \in Ids(digests)
        BY <1>1, <2>2, IdsMove DEF TokensOK
      <3>2. PICK l \in log : l.jti = a.jti /\ l.at = a.at
        BY <2>1, <3>1
      <3>3. l.digest = t.digest
        BY <2>1, <3>2 DEF LogOK, TokensOK
      <3> QED
        BY <1>1, <2>2, <3>2, <3>3
    <2> QED
      BY <1>1, <2>1, <2>2
  <1>13. ConsumedOnce'
    BY <1>1 DEF ConsumedOnce
  <1> QED
    BY <1>1, <1>2, <1>7, <1>8, <1>9, <1>10, <1>11, <1>12, <1>13

-----------------------------------------------------------------------------
(* Steps of the requests *)

LEMMA NoRequestType == NoRequest \in ReqStates
  BY DEF NoRequest, ReqStates

\* What a request leaves as it is.
LEMMA BriefStays ==
  ASSUME IInv, UNCHANGED vars
  PROVE  /\ IInv' /\ UNCHANGED <<digests, nextMsg, nextId>> /\ \A id : Locked(id)' <=> Locked(id)
         /\ \A r \in Runners : (Inserting(r)' <=> Inserting(r)) /\ run'[r].new = run[r].new
  <1>1. IInv'
    BY NextIInv
  <1> QED
    BY <1>1 DEF vars, storeVars, mailVars, Locked, Deleting, Inserting

\* A request goes on and has not answered yet.
LEMMA Proceeds ==
  ASSUME UInv, UNCHANGED <<vars, log, optedOut, tokens, replies>>, nextReq' \in Nat,
         NEW c \in Consumers, NEW x \in ReqStates, req' = [req EXCEPT ![c] = x],
         x.token \in tokens, x.pc # "idle",
         x.pc = "commit" =>
           /\ x.token.digest \in Ids(digests) /\ ~Locked(x.token.digest)
           /\ \A l \in log : l.jti # x.token.jti
           /\ \A o \in Consumers \ {c} : req[o].pc = "commit" => req[o].token.jti # x.token.jti
  PROVE  UInv'
  <1> USE DEF UInv
  <1>1. /\ IInv' /\ UNCHANGED <<digests, nextMsg, nextId>> /\ \A id : Locked(id)' <=> Locked(id)
        /\ \A r \in Runners : (Inserting(r)' <=> Inserting(r)) /\ run'[r].new = run[r].new
    BY BriefStays
  <1>2. req'[c] = x /\ \A o \in Consumers \ {c} : req'[o] = req[o]
    BY DEF RequestTypeOK
  <1>3. RequestTypeOK'
    BY DEF RequestTypeOK
  <1>4. TokensOK' /\ LogOK'
    BY <1>1 DEF TokensOK, LogOK
  <1>5. ASSUME NEW o \in Consumers PROVE RequestOK(o)'
    <2>1. CASE o = c
      <3>1. PICK id : id = x.token.digest
        OBVIOUS
      <3>2. req'[o].token.digest = id /\ req'[o] = x
        BY <1>2, <2>1, <3>1
      <3>3. x.pc = "commit" => id \in Ids(digests) /\ ~Locked(id)'
        BY <1>1, <3>1
      <3> QED
        BY <1>1, <3>2, <3>3 DEF RequestOK
    <2>2. CASE o # c
      <3>1. PICK id : id = req[o].token.digest
        OBVIOUS
      <3>2. req'[o] = req[o]
        BY <1>2, <2>2
      <3>3. req[o].pc = "commit" => id \in Ids(digests) /\ ~Locked(id)'
        BY <1>1, <3>1 DEF RequestOK
      <3> QED
        BY <1>1, <3>1, <3>2, <3>3 DEF RequestOK
    <2> QED
      BY <2>1, <2>2
  <1>6. \A a, o \in Consumers : a # o => RequestsOK(a, o)'
    BY <1>2 DEF RequestsOK
  <1>7. (\A a \in replies' : ToldOK(a)') /\ ConsumedOnce'
    BY <1>1 DEF ToldOK, ConsumedOnce
  <1> QED
    BY <1>1, <1>3, <1>4, <1>5, <1>6, <1>7

\* The only time a token was consumed at.
LEMMA OneTime ==
  ASSUME UInv, NEW b \in replies, b.kind \in {"done", "replay"}, NEW t \in tokens, t.jti = b.jti,
         t.digest \in Ids(digests)
  PROVE  \E l \in log : l.jti = b.jti /\ l.at = b.at
  <1>1. PICK s \in tokens :
          /\ s.jti = b.jti
          /\ s.digest \in Ids(digests) => \E l \in log : l.jti = b.jti /\ l.at = b.at
    BY DEF UInv, ToldOK
  <1>2. s = t
    BY <1>1 DEF UInv, TokensOK
  <1> QED
    BY <1>1, <1>2

\* A request is answered, and what it may have told is what the log says.
LEMMA Answers ==
  ASSUME UInv, UNCHANGED <<vars, log, optedOut, tokens, nextReq>>, NEW c \in Consumers,
         req[c].pc # "idle", NEW kind \in {"replay", "conflict", "unavailable"},
         NEW at \in Nat \cup {Null}, Answer(c, kind, at),
         kind = "replay" => \E l \in log : l.jti = req[c].token.jti /\ l.at = at
  PROVE  UInv'
  <1> USE DEF UInv
  <1>1. /\ IInv' /\ UNCHANGED <<digests, nextMsg, nextId>> /\ \A id : Locked(id)' <=> Locked(id)
        /\ \A r \in Runners : (Inserting(r)' <=> Inserting(r)) /\ run'[r].new = run[r].new
    BY BriefStays
  <1>2. PICK t \in tokens : t = req[c].token /\ t \in Token
    BY DEF RequestOK, RequestTypeOK
  <1>3. PICK a : /\ a = [jti |-> t.jti, kind |-> kind, at |-> at]
                 /\ replies' = replies \cup {a} /\ req' = [req EXCEPT ![c] = NoRequest]
    BY <1>2 DEF Answer
  <1>4. a \in Reply /\ a.jti = t.jti /\ a.kind = kind /\ a.at = at
    BY <1>2, <1>3 DEF Token, Reply
  <1>5. req'[c] = NoRequest /\ \A o \in Consumers \ {c} : req'[o] = req[o]
    BY <1>3 DEF RequestTypeOK
  <1>6. RequestTypeOK'
    BY <1>3, <1>4, NoRequestType DEF RequestTypeOK
  <1>7. TokensOK' /\ LogOK'
    BY <1>1 DEF TokensOK, LogOK
  <1>8. ASSUME NEW o \in Consumers PROVE RequestOK(o)'
    <2>1. CASE o = c
      BY <1>5, <2>1 DEF RequestOK, NoRequest
    <2>2. CASE o # c
      <3>1. PICK id : id = req[o].token.digest
        OBVIOUS
      <3>2. req'[o] = req[o]
        BY <1>5, <2>2
      <3>3. req[o].pc = "commit" => id \in Ids(digests) /\ ~Locked(id)'
        BY <1>1, <3>1 DEF RequestOK
      <3> QED
        BY <1>1, <3>1, <3>2, <3>3 DEF RequestOK
    <2> QED
      BY <2>1, <2>2
  <1>9. \A n, o \in Consumers : n # o => RequestsOK(n, o)'
    BY <1>5 DEF RequestsOK, NoRequest
  <1>10. kind = "replay" =>
           /\ t.user \in optedOut /\ t.digest \in Ids(digests)
           /\ \E l \in log : l.jti = t.jti /\ l.at = at
    <2> SUFFICES ASSUME kind = "replay"
                 PROVE  /\ t.user \in optedOut /\ t.digest \in Ids(digests)
                        /\ \E l \in log : l.jti = t.jti /\ l.at = at
      OBVIOUS
    <2>1. PICK l \in log : l.jti = t.jti /\ l.at = at
      BY <1>2
    <2>2. PICK s \in tokens : s.jti = l.jti /\ s.digest = l.digest /\ s.user = l.user
      BY DEF LogOK
    <2>3. s = t
      BY <2>1, <2>2 DEF TokensOK
    <2> QED
      BY <2>1, <2>2, <2>3 DEF LogOK
  <1>11. \A b \in replies' : ToldOK(b)'
    <2>1. ToldOK(a)'
      BY <1>1, <1>2, <1>4, <1>10 DEF ToldOK
    <2>2. \A b \in replies : ToldOK(b)'
      BY <1>1 DEF ToldOK
    <2> QED
      BY <1>3, <2>1, <2>2
  <1>12. ConsumedOnce'
    <2>1. ASSUME NEW b \in replies, b.jti = t.jti, b.kind \in {"done", "replay"}, kind = "replay"
          PROVE  b.at = at
      <3>1. PICK k \in log : k.jti = b.jti /\ k.at = b.at
        BY <1>2, <1>10, <2>1, OneTime
      <3>2. PICK l \in log : l.jti = t.jti /\ l.at = at
        BY <1>10, <2>1
      <3> QED
        BY <2>1, <3>1, <3>2 DEF LogOK
    <2> QED
      BY <1>3, <1>4, <2>1 DEF ConsumedOnce
  <1> QED
    BY <1>1, <1>6, <1>7, <1>8, <1>9, <1>11, <1>12

\* The token is consumed: its jti was not in the log, and as the digest is
\* there nobody was told so before.
LEMMA CommitLogUInv ==
  ASSUME UInv, NEW c \in Consumers, CommitLog(c)
  PROVE  UInv'
  <1> USE DEF UInv
  <1>1. /\ IInv' /\ UNCHANGED <<digests, nextMsg, nextId>> /\ \A id : Locked(id)' <=> Locked(id)
        /\ \A r \in Runners : (Inserting(r)' <=> Inserting(r)) /\ run'[r].new = run[r].new
        /\ UNCHANGED <<tokens, nextReq>>
    BY BriefStays DEF CommitLog
  <1>2. PICK t \in tokens : t = req[c].token /\ t \in Token
    BY DEF CommitLog, RequestOK, RequestTypeOK
  <1>3. PICK at \in Nat : at = req[c].at
    BY DEF RequestTypeOK, ReqStates
  <1>4. PICK row : /\ row = [jti |-> t.jti, digest |-> t.digest, user |-> t.user, at |-> at]
                   /\ log' = log \cup {row} /\ optedOut' = optedOut \cup {t.user}
    BY <1>2, <1>3 DEF CommitLog
  <1>5. PICK a : /\ a = [jti |-> t.jti, kind |-> "done", at |-> at]
                 /\ replies' = replies \cup {a} /\ req' = [req EXCEPT ![c] = NoRequest]
    BY <1>2, <1>3 DEF CommitLog, Answer
  <1>6. /\ a \in Reply /\ a.jti = t.jti /\ a.kind = "done" /\ a.at = at
        /\ row \in LogRow /\ row.jti = t.jti /\ row.digest = t.digest /\ row.user = t.user
        /\ row.at = at /\ t.user \in Users
    BY <1>2, <1>4, <1>5 DEF Token, Reply, LogRow
  <1>7. /\ t.digest \in Ids(digests) /\ \A l \in log : l.jti # t.jti
        /\ \A o \in Consumers \ {c} : req[o].pc = "commit" => req[o].token.jti # t.jti
    BY <1>2 DEF CommitLog, RequestOK, RequestsOK
  <1>8. req'[c] = NoRequest /\ \A o \in Consumers \ {c} : req'[o] = req[o]
    BY <1>5 DEF RequestTypeOK
  <1>9. RequestTypeOK'
    BY <1>1, <1>4, <1>5, <1>6, NoRequestType DEF RequestTypeOK
  <1>10. TokensOK'
    BY <1>1 DEF TokensOK
  <1>11. LogOK'
    <2>1. \A l \in log' : /\ l.digest \in Ids(digests) /\ l.user \in optedOut'
                          /\ \E s \in tokens : s.jti = l.jti /\ s.digest = l.digest /\ s.user = l.user
      BY <1>4, <1>6, <1>7 DEF LogOK
    <2>2. \A k, l \in log' : k.jti = l.jti => k = l
      BY <1>4, <1>6, <1>7 DEF LogOK
    <2> QED
      BY <1>1, <2>1, <2>2 DEF LogOK
  <1>12. ASSUME NEW o \in Consumers PROVE RequestOK(o)'
    <2>1. CASE o = c
      BY <1>8, <2>1 DEF RequestOK, NoRequest
    <2>2. CASE o # c
      <3>1. PICK id : id = req[o].token.digest
        OBVIOUS
      <3>2. req'[o] = req[o]
        BY <1>8, <2>2
      <3>3. req[o].pc = "commit" =>
              id \in Ids(digests) /\ ~Locked(id)' /\ \A l \in log' : l.jti # req[o].token.jti
        BY <1>1, <1>4, <1>6, <1>7, <2>2, <3>1 DEF RequestOK
      <3> QED
        BY <1>1, <3>1, <3>2, <3>3 DEF RequestOK
    <2> QED
      BY <2>1, <2>2
  <1>13. \A n, o \in Consumers : n # o => RequestsOK(n, o)'
    BY <1>8 DEF RequestsOK, NoRequest
  <1>14. \A b \in replies' : ToldOK(b)'
    <2>1. ToldOK(a)'
      BY <1>1, <1>4, <1>6 DEF ToldOK
    <2>2. \A b \in replies : ToldOK(b)'
      BY <1>1, <1>4 DEF ToldOK
    <2> QED
      BY <1>5, <2>1, <2>2
  <1>15. ConsumedOnce'
    <2>1. ASSUME NEW b \in replies, b.jti = t.jti, b.kind \in {"done", "replay"} PROVE FALSE
      BY <1>7, <2>1, OneTime
    <2> QED
      BY <1>5, <1>6, <2>1 DEF ConsumedOnce
  <1> QED
    BY <1>1, <1>9, <1>10, <1>11, <1>12, <1>13, <1>14, <1>15

LEMMA PostUInv ==
  ASSUME UInv, NEW c \in Consumers, Post(c)
  PROVE  UInv'
  <1> USE DEF UInv
  <1>1. PICK t \in tokens : req' = [req EXCEPT ![c] = [pc |-> "select", token |-> t, at |-> nextReq]]
    BY DEF Post
  <1>2. PICK x : x = [pc |-> "select", token |-> t, at |-> nextReq]
    OBVIOUS
  <1>3. x \in ReqStates /\ x.pc = "select" /\ x.token = t
    BY <1>1, <1>2 DEF ReqStates, RequestTypeOK
  <1>4. UNCHANGED <<vars, log, optedOut, tokens, replies>> /\ nextReq' \in Nat
    BY DEF Post, RequestTypeOK
  <1> QED
    BY <1>1, <1>2, <1>3, <1>4, Proceeds

\* A request that goes on keeps its token.
LEMMA PcMoves ==
  ASSUME RequestTypeOK, NEW c \in Consumers, NEW pc \in {"insert", "commit"},
         req' = [req EXCEPT ![c].pc = pc]
  PROVE  \E x \in ReqStates : req' = [req EXCEPT ![c] = x] /\ x.token = req[c].token /\ x.pc = pc
  <1>1. PICK x : x = [req[c] EXCEPT !.pc = pc]
    OBVIOUS
  <1>2. x \in ReqStates /\ x.token = req[c].token /\ x.pc = pc
    BY <1>1 DEF RequestTypeOK, ReqStates
  <1> QED
    BY <1>1, <1>2

LEMMA CheckReplayUInv ==
  ASSUME UInv, NEW c \in Consumers, CheckReplay(c)
  PROVE  UInv'
  <1> USE DEF UInv
  <1>1. UNCHANGED <<vars, log, optedOut, tokens, nextReq>> /\ req[c].pc = "select"
    BY DEF CheckReplay
  <1>2. CASE \E l \in log : l.jti = req[c].token.jti /\ Answer(c, "replay", l.at)
    <2>1. PICK l \in log : l.jti = req[c].token.jti /\ Answer(c, "replay", l.at)
      BY <1>2
    <2>2. PICK at \in Nat : at = l.at
      BY DEF RequestTypeOK, LogRow
    <2> QED
      BY <1>1, <2>1, <2>2, Answers
  <1>3. CASE req' = [req EXCEPT ![c].pc = "insert"] /\ UNCHANGED replies
    <2>1. PICK x \in ReqStates :
             req' = [req EXCEPT ![c] = x] /\ x.token = req[c].token /\ x.pc = "insert"
      BY <1>3, PcMoves
    <2>2. x.token \in tokens /\ nextReq' \in Nat
      BY <1>1, <2>1 DEF RequestOK, RequestTypeOK
    <2> QED
      BY <1>1, <1>3, <2>1, <2>2, Proceeds
  <1> QED
    BY <1>2, <1>3 DEF CheckReplay

LEMMA InsertLogUInv ==
  ASSUME UInv, NEW c \in Consumers, InsertLog(c)
  PROVE  UInv'
  <1> USE DEF UInv
  <1>1. UNCHANGED <<vars, log, optedOut, tokens, nextReq>> /\ req[c].pc = "insert"
    BY DEF InsertLog
  <1>2. CASE Answer(c, "conflict", Null)
    BY <1>1, <1>2, Answers
  <1>3. CASE ~Answer(c, "conflict", Null)
    <2>1. /\ ~JtiBusy(c) /\ ~Locked(req[c].token.digest) /\ ~JtiTaken(c)
          /\ req[c].token.digest \in Ids(digests)
          /\ req' = [req EXCEPT ![c].pc = "commit"] /\ UNCHANGED replies
      BY <1>3 DEF InsertLog
    <2>2. PICK x \in ReqStates :
             req' = [req EXCEPT ![c] = x] /\ x.token = req[c].token /\ x.pc = "commit"
      BY <2>1, PcMoves
    <2>3. x.token \in tokens /\ nextReq' \in Nat
      BY <1>1, <2>2 DEF RequestOK, RequestTypeOK
    <2>4. /\ x.token.digest \in Ids(digests) /\ ~Locked(x.token.digest)
          /\ \A l \in log : l.jti # x.token.jti
          /\ \A o \in Consumers \ {c} : req[o].pc = "commit" => req[o].token.jti # x.token.jti
      BY <2>1, <2>2 DEF JtiBusy, JtiTaken
    <2> QED
      BY <1>1, <2>1, <2>2, <2>3, <2>4, Proceeds
  <1> QED
    BY <1>2, <1>3

-----------------------------------------------------------------------------
(* Theorems *)

\* The inductive invariant of the requests, on top of that of the pipeline.
THEOREM SpecUInv == UnsubscribeSpec => []UInv
  <1>1. UnsubscribeInit => UInv
    <2> SUFFICES ASSUME UnsubscribeInit PROVE UInv
      OBVIOUS
    <2>1. IInv
      BY InitIInv DEF UnsubscribeInit
    <2>2. RequestTypeOK
      BY NoRequestType DEF UnsubscribeInit, RequestTypeOK
    <2>3. \A c \in Consumers : req[c] = NoRequest
      BY DEF UnsubscribeInit
    <2>4. /\ \A c \in Consumers : RequestOK(c)
          /\ \A c, o \in Consumers : c # o => RequestsOK(c, o)
      BY <2>3 DEF RequestOK, RequestsOK, NoRequest
    <2>5. TokensOK /\ LogOK /\ (\A a \in replies : ToldOK(a)) /\ ConsumedOnce
      BY DEF UnsubscribeInit, TokensOK, LogOK, ConsumedOnce
    <2> QED
      BY <2>1, <2>2, <2>4, <2>5 DEF UInv
  <1>2. UInv /\ [UnsubscribeNext]_allVars => UInv'
    <2> SUFFICES ASSUME UInv, [UnsubscribeNext]_allVars PROVE UInv'
      OBVIOUS
    <2>1. CASE UNCHANGED allVars
      <3>1. /\ UNCHANGED <<vars, log, optedOut, tokens, req, nextReq, replies>>
        BY <2>1 DEF allVars, requestVars
      <3>2. /\ IInv' /\ UNCHANGED <<digests, nextMsg, nextId>> /\ \A id : Locked(id)' <=> Locked(id)
            /\ \A r \in Runners : (Inserting(r)' <=> Inserting(r)) /\ run'[r].new = run[r].new
        BY <3>1, BriefStays DEF UInv
      <3>3. RequestTypeOK' /\ TokensOK' /\ LogOK' /\ ConsumedOnce'
        BY <3>1, <3>2 DEF UInv, RequestTypeOK, TokensOK, LogOK, ConsumedOnce
      <3>4. ASSUME NEW c \in Consumers PROVE RequestOK(c)'
        <4>1. PICK id : id = req[c].token.digest
          OBVIOUS
        <4>2. req[c].pc = "commit" => id \in Ids(digests) /\ ~Locked(id)'
          BY <3>2, <4>1 DEF UInv, RequestOK
        <4> QED
          BY <3>1, <3>2, <4>1, <4>2 DEF UInv, RequestOK
      <3>5. /\ \A c, o \in Consumers : c # o => RequestsOK(c, o)'
            /\ \A a \in replies' : ToldOK(a)'
        BY <3>1, <3>2 DEF UInv, RequestsOK, ToldOK
      <3> QED
        BY <3>2, <3>3, <3>4, <3>5 DEF UInv
    <2>2. CASE Beside(Next)
      BY <2>2, BesideUInv
    <2>3. ASSUME NEW c \in Consumers, Post(c) \/ ConsumeStep(c) PROVE UInv'
      BY <2>3, PostUInv, CheckReplayUInv, InsertLogUInv, CommitLogUInv DEF ConsumeStep
    <2>4. ASSUME NEW c \in Consumers, RequestFails(c) PROVE UInv'
      BY <2>4, Answers DEF RequestFails
    <2> QED
      BY <2>1, <2>2, <2>3, <2>4 DEF UnsubscribeNext
  <1> QED
    BY <1>1, <1>2, PTL DEF UnsubscribeSpec

\* Type correctness of the requests; one in progress holds a minted token.
THEOREM SpecUnsubscribeTypeOK == UnsubscribeSpec => []UnsubscribeTypeOK
  <1>1. ASSUME UInv PROVE UnsubscribeTypeOK
    <2> USE <1>1 DEF UInv
    <2>1. \A c \in Consumers : req[c] \in [pc: {"idle", "select", "insert", "commit"},
                                           token: tokens \cup {Null}, at: Nat]
      <3> SUFFICES ASSUME NEW c \in Consumers
                   PROVE  req[c] \in [pc: {"idle", "select", "insert", "commit"},
                                      token: tokens \cup {Null}, at: Nat]
        OBVIOUS
      <3>1. req[c] \in ReqStates /\ req[c].token \in tokens \cup {Null}
        BY DEF RequestTypeOK, RequestOK, NoRequest
      <3> QED
        BY <3>1 DEF ReqStates
    <2> QED
      BY <2>1 DEF UnsubscribeTypeOK, IInv, RequestTypeOK, RequestOK
  <1> QED
    BY <1>1, SpecUInv, PTL

\* A token is consumed once, and every replay is told when, for any number of
\* simultaneous requests and also when the log row went with its digest.
THEOREM SpecConsumedOnce == UnsubscribeSpec => []ConsumedOnce
  <1>1. UInv => ConsumedOnce
    BY DEF UInv
  <1> QED
    BY <1>1, SpecUInv, PTL

\* Whoever was told that the unsubscription took effect is opted out.
THEOREM SpecToldMeansOptedOut == UnsubscribeSpec => []ToldMeansOptedOut
  <1>1. ASSUME UInv PROVE ToldMeansOptedOut
    <2> SUFFICES ASSUME NEW a \in replies, NEW t \in tokens, a.jti = t.jti,
                        a.kind \in {"done", "replay"}
                 PROVE  t.user \in optedOut
      BY DEF ToldMeansOptedOut
    <2>1. PICK s \in tokens : s.jti = a.jti /\ s.user \in optedOut
      BY <1>1 DEF UInv, ToldOK
    <2>2. s = t
      BY <1>1, <2>1 DEF UInv, TokensOK
    <2> QED
      BY <2>1, <2>2
  <1> QED
    BY <1>1, SpecUInv, PTL

\* The pipeline keeps what it promises with the requests beside it: they hold
\* its rows, but write none of its tables.
THEOREM SpecBriefBeside ==
  UnsubscribeSpec => [](UniqueBrief /\ BriefAnnounced /\ EmailedMeansAccepted)
  <1>1. UInv => UniqueBrief /\ BriefAnnounced /\ EmailedMeansAccepted
    BY DEF UInv, IInv
  <1> QED
    BY <1>1, SpecUInv, PTL

\* The pipeline still shows a user only what the contract allows when clicks
\* make it wait and its deletions take their log rows along.
THEOREM SpecContractBeside == UnsubscribeSpec => ImplementsContract
  <1>1. UnsubscribeInit => Init
    BY DEF UnsubscribeInit
  <1>2. UInv => IInv
    BY DEF UInv
  <1>3. [UnsubscribeNext]_allVars => [Next]_vars
    BY DEF UnsubscribeNext, Beside, ConsumeStep, Post, CheckReplay, InsertLog, CommitLog,
           RequestFails, allVars
  <1>4. IInv /\ IInv' /\ [Next]_vars => [Contract!Next]_(Contract!contractVars)
    BY StepRefines
  <1> QED
    BY <1>1, <1>2, <1>3, <1>4, InitRefines, SpecUInv, PTL
       DEF UnsubscribeSpec, ImplementsContract, Contract!Spec

=============================================================================
