----------------------------- MODULE Unsubscribe -----------------------------
(***************************************************************************)
(* One-click unsubscription, composed with the brief pipeline it shares    *)
(* the database with.  Every e-mail carries a token with its own jti.  A   *)
(* POST of the token runs consume_unsubscribe in a session of its own:     *)
(* look the jti up, INSERT it into digest_unsubscribe_log (the autoflush   *)
(* of the next SELECT sends it), turn the user's e-mails off, COMMIT.      *)
(*                                                                         *)
(* The two meet in the foreign key of the log: an uncommitted log row      *)
(* keeps its digest from being deleted, an uncommitted DELETE of the       *)
(* digest keeps the INSERT waiting, and ON DELETE CASCADE removes the log  *)
(* rows of a digest that is regenerated.                                   *)
(***************************************************************************)
EXTENDS Brief

CONSTANTS
  Consumers,    \* coroutines that may execute consume_unsubscribe
  MaxRequests   \* bound: POSTs over a behaviour

ASSUME UnsubscribeAssumption == MaxRequests \in Nat

VARIABLES
  log,       \* table digest_unsubscribe_log (committed rows)
  optedOut,  \* users whose email_digest_enabled is False
  tokens,    \* tokens minted so far
  req,       \* req[c]: the consume_unsubscribe call c executes
  nextReq,   \* number of the next request; stands for the time it is served at
  replies    \* history: the answers sent

requestVars == <<req, nextReq, replies>>
allVars == <<vars, log, optedOut, tokens, requestVars>>

Token   == [jti: Nat, digest: Nat, user: Users]
LogRow  == [jti: Nat, digest: Nat, user: Users, at: Nat]
Reply   == [jti: Nat, kind: {"done", "replay", "conflict", "unavailable"},
            at: Nat \cup {Null}]

NoRequest == [pc |-> "idle", token |-> Null, at |-> 0]

\* The unsubscribe link the user can follow is in a message SMTP took.
Received(t) == <<t.digest, t.jti>> \in accepted

\* c has inserted a log row for digest id and not committed yet.
HoldsDigest(c, id) == req[c].pc = "commit" /\ req[c].token.digest = id

UnsubscribeInit ==
  /\ Init
  /\ log = {} /\ optedOut = {} /\ tokens = {}
  /\ req = [c \in Consumers |-> NoRequest]
  /\ nextReq = 0 /\ replies = {}

Answer(c, kind, at) ==
  /\ req' = [req EXCEPT ![c] = NoRequest]
  /\ replies' = replies \cup
       {[jti |-> req[c].token.jti, kind |-> kind, at |-> at]}

(***************************************************************************)
(* consume_unsubscribe                                                     *)
(***************************************************************************)

\* A POST: the same link may be followed again, and by two requests at once.
Post(c) ==
  /\ req[c].pc = "idle" /\ nextReq < MaxRequests
  /\ \E t \in tokens :
       Received(t) /\ req' = [req EXCEPT ![c] = [pc |-> "select", token |-> t, at |-> nextReq]]
  /\ nextReq' = nextReq + 1
  /\ UNCHANGED <<vars, log, optedOut, tokens, replies>>

\* A jti in the log is a replay: answer with the time it was first consumed.
CheckReplay(c) ==
  LET seen == {l \in log : l.jti = req[c].token.jti} IN
  /\ req[c].pc = "select"
  /\ \/ \E l \in seen : Answer(c, "replay", l.at)
     \/ /\ seen = {}
        /\ req' = [req EXCEPT ![c].pc = "insert"]
        /\ UNCHANGED replies
  /\ UNCHANGED <<vars, log, optedOut, tokens, nextReq>>

\* Mutant: the jti is held from the replay check on.
JtiBusyEarly(c) ==
  \E o \in Consumers \ {c} :
    req[o].pc \in {"insert", "commit"} /\ req[o].token.jti = req[c].token.jti
JtiBusy(c) ==
  \E o \in Consumers \ {c} : req[o].pc = "commit" /\ req[o].token.jti = req[c].token.jti

\* Mutant: no UNIQUE(jwt_id).
JtiTakenNever(c) == FALSE
JtiTaken(c) == \E l \in log : l.jti = req[c].token.jti

\* INSERT the log row.  It waits for an open INSERT of the same jti and for an
\* open DELETE of the digest; then UNIQUE(jwt_id) or the foreign key may raise
\* IntegrityError, which nothing catches before the 500 handler.
InsertLog(c) ==
  /\ req[c].pc = "insert"
  /\ ~JtiBusy(c) /\ ~Locked(req[c].token.digest)
  /\ IF JtiTaken(c) \/ req[c].token.digest \notin Ids(digests)
       THEN Answer(c, "conflict", Null)
       ELSE req' = [req EXCEPT ![c].pc = "commit"] /\ UNCHANGED replies
  /\ UNCHANGED <<vars, log, optedOut, tokens, nextReq>>

\* Mutant: the log row is committed, the preference is not.
CommitLogOnly(c) ==
  LET t == req[c].token IN
  /\ req[c].pc = "commit"
  /\ log' = log \cup {[jti |-> t.jti, digest |-> t.digest, user |-> t.user, at |-> req[c].at]}
  /\ Answer(c, "done", req[c].at)
  /\ UNCHANGED <<vars, optedOut, tokens, nextReq>>

\* UPDATE users and COMMIT.
CommitLog(c) ==
  LET t == req[c].token IN
  /\ req[c].pc = "commit"
  /\ log' = log \cup {[jti |-> t.jti, digest |-> t.digest, user |-> t.user, at |-> req[c].at]}
  /\ optedOut' = optedOut \cup {t.user}
  /\ Answer(c, "done", req[c].at)
  /\ UNCHANGED <<vars, tokens, nextReq>>

\* The database or the process fails the request; its session rolls back.
RequestFails(c) ==
  /\ req[c].pc # "idle"
  /\ Answer(c, "unavailable", Null)
  /\ UNCHANGED <<vars, log, optedOut, tokens, nextReq>>

(***************************************************************************)
(* Composition                                                             *)
(***************************************************************************)

\* The caller of send_digest_email mints a token for every message.
Minted ==
  {[jti |-> mail'[m].msg, digest |-> mail'[m].id,
    user |-> (CHOOSE d \in digests : d.id = mail'[m].id).user] :
      m \in {n \in Mailers : mail[n].pc = "idle" /\ mail'[n].pc = "smtp"}}

\* A DELETE of a digest waits for the log rows that reference it.
DeleteWaits ==
  \A r \in Runners, c \in Consumers :
    HoldsDigest(c, run[r].old) => ~(run[r].pc = "delete" /\ run'[r].pc = "build")

\* ON DELETE CASCADE, at the COMMIT that removes the digest.
Cascade == {l \in log : l.digest \in Ids(digests')}

Beside(A) ==
  /\ A
  /\ DeleteWaits
  /\ tokens' = tokens \cup Minted
  /\ log' = Cascade
  /\ UNCHANGED <<optedOut, requestVars>>

ConsumeStep(c) == CheckReplay(c) \/ InsertLog(c) \/ CommitLog(c)

UnsubscribeNext ==
  \/ Beside(Next)
  \/ \E c \in Consumers : Post(c) \/ ConsumeStep(c) \/ RequestFails(c)

UnsubscribeSpec == UnsubscribeInit /\ [][UnsubscribeNext]_allVars

\* Every started call goes on; see Brief for what is not assumed.
UnsubscribeFairSpec ==
  /\ UnsubscribeSpec
  /\ \A r \in Runners : /\ WF_allVars(Beside(ServeUser(r)))
                        /\ WF_allVars(Beside(GenerateStep(r)))
  /\ \A c \in Consumers : WF_allVars(ConsumeStep(c))

(***************************************************************************)
(* Properties                                                              *)
(***************************************************************************)

\* Types; a request in progress holds a minted token.
UnsubscribeTypeOK ==
  /\ TypeOK
  /\ log \subseteq LogRow
  /\ optedOut \subseteq Users
  /\ tokens \subseteq Token
  /\ req \in [Consumers -> [pc: {"idle", "select", "insert", "commit"},
                            token: tokens \cup {Null}, at: Nat]]
  /\ \A c \in Consumers : req[c].pc # "idle" => req[c].token \in tokens
  /\ nextReq \in Nat
  /\ replies \subseteq Reply

\* A token is consumed at most once, by one request, and every replay is told
\* the time of that consumption -- with concurrent POSTs of one link, and also
\* when a regeneration of the digest has removed the log row since.
ConsumedOnce ==
  \A a, b \in replies :
    /\ a.jti = b.jti
    /\ a.kind \in {"done", "replay"} /\ b.kind \in {"done", "replay"}
    => a.at = b.at

\* Whoever was told `unsubscribed`, now or on an earlier click, is opted out:
\* the log row and the user's preference are written together, or neither is.
ToldMeansOptedOut ==
  \A a \in replies, t \in tokens :
    a.jti = t.jti /\ a.kind \in {"done", "replay"} => t.user \in optedOut

\* A request that waits for a regeneration of its digest, or for its own twin,
\* is answered in the end: no cycle of locks between the two pipelines.
RequestAnswered ==
  \A c \in Consumers : req[c].pc # "idle" ~> req[c].pc = "idle"

\* routers/digest.py:170-171: "Idempotent: a replay returns `unsubscribed:
\* false` with the original `consumed_at`. Always 200 OK with a body" -- no
\* click on a genuine link ends in IntegrityError.
ClickNeverConflicts == \A a \in replies : a.kind # "conflict"

=============================================================================
