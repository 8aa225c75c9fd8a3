-------------------------------- MODULE Brief --------------------------------
(***************************************************************************)
(* The AI Brief pipeline: the schedulers that generate one digest per user *)
(* and UTC day, the in-app notification that announces it, and the e-mail  *)
(* worker that records its delivery on the digest row.                     *)
(*                                                                         *)
(* A runner is one coroutine that executes generate_digest: the daily tick *)
(* of one API process, or an ad-hoc run_for_user call.  Runners share only *)
(* the PostgreSQL tables.  Each has its own session, so what it wrote      *)
(* stays private to its transaction until it commits, and the transaction  *)
(* stays open across the LLM calls.  PostgreSQL (READ COMMITTED) is        *)
(* modelled by what the code relies on: a DELETE or UPDATE of a row waits  *)
(* for the transaction that holds it, the unique index makes an INSERT     *)
(* wait for an uncommitted writer of the same key and then fail if the key *)
(* is taken.                                                               *)
(***************************************************************************)
EXTENDS Naturals, FiniteSets

CONSTANTS
  Users,      \* ids of the rows of table users
  Runners,    \* coroutines that may execute generate_digest
  Mailers,    \* coroutines that may execute send_digest_email
  Null,       \* SQL NULL, Python None
  MaxDay,     \* bound: UTC dates are 1..MaxDay
  MaxSends,   \* bound: SMTP attempts over a behaviour
  MaxFaults   \* bound: exceptions and process crashes over a behaviour

ASSUME BriefAssumption ==
  /\ MaxDay \in Nat \ {0} /\ MaxSends \in Nat /\ MaxFaults \in Nat
  /\ Null \notin Nat /\ Null \notin Users

VARIABLES
  today,          \* the current UTC date
  fired,          \* fired[r]: the last date the cron of runner r fired on
  digests,        \* table digests (committed rows)
  notifications,  \* table notifications (committed rows)
  queue,          \* queue[r]: users the running tick of r has still to serve
  run,            \* run[r]: the generate_digest call r executes
  mail,           \* mail[m]: the send_digest_email call m executes
  accepted,       \* <<digest id, message id>> pairs the SMTP server took
  nextId,         \* fresh digest ids: 0..nextId-1 are used
  nextMsg,        \* fresh message ids
  faults,         \* faults so far
  missed,         \* history: <<user, date>> a fault kept from being served
  failedOnce      \* history: <<user, date>> whose delivery was once recorded failed

storeVars == <<digests, notifications>>
mailVars  == <<mail, accepted, nextMsg>>
clockVars == <<today, fired>>
histVars  == <<faults, missed, failedOnce>>
vars == <<clockVars, storeVars, queue, run, mailVars, nextId, histVars>>

Days == 1..MaxDay

\* delivery_status of a row; "pending" is the column default, never stored.
Status == {"pending", "notified", "emailed", "failed"}

\* Mutant: a brief counts as done only once it is e-mailed.
TerminalOnceEmailed == {"emailed"}
\* A brief in one of these is not generated again.
Terminal == {"notified", "emailed"}

Digest == [id: Nat, user: Users, day: Days, status: Status, msg: Nat \cup {Null}]

\* `born` is the digest the row was inserted with; `digest` the foreign key.
Notification == [born: Nat, user: Users, day: Days, digest: Nat \cup {Null}]

\* `old` is the row read and then deleted, `new` the id of the inserted row.
IdleRun == [pc |-> "idle", user |-> Null, day |-> 0, old |-> Null, new |-> Null]
Started(u, d) == [IdleRun EXCEPT !.pc = "select", !.user = u, !.day = d]
IdleMail == [pc |-> "idle", id |-> Null, msg |-> Null]

Key(x) == <<x.user, x.day>>
RowsOf(k) == {d \in digests : Key(d) = k}
Ids(rows) == {d.id : d \in rows}

\* The transaction of r has deleted its row `old` and not committed yet.
Deleting(r) == run[r].pc \in {"build", "commit"} /\ run[r].old # Null
\* The transaction of r has inserted row `new` and not committed yet.
Inserting(r) == run[r].pc = "commit"

\* Row id is held by an uncommitted DELETE.
Locked(id) == \E r \in Runners : Deleting(r) /\ run[r].old = id

(***************************************************************************)
(* Scheduler                                                               *)
(***************************************************************************)

Init ==
  /\ today = 1
  /\ fired = [r \in Runners |-> 0]
  /\ digests = {} /\ notifications = {}
  /\ queue = [r \in Runners |-> {}]
  /\ run = [r \in Runners |-> IdleRun]
  /\ mail = [m \in Mailers |-> IdleMail]
  /\ accepted = {} /\ nextId = 0 /\ nextMsg = 0
  /\ faults = 0 /\ missed = {} /\ failedOnce = {}

\* Midnight UTC.
NextDay ==
  /\ today < MaxDay
  /\ today' = today + 1
  /\ UNCHANGED <<fired, storeVars, queue, run, mailVars, nextId, histVars>>

\* 08:00 UTC: _daily_tick reads every user id; APScheduler runs one instance
\* of the job at a time, and a tick that was not taken is not made up for.
DailyTick(r) ==
  /\ run[r].pc = "idle" /\ queue[r] = {}
  /\ fired[r] < today
  /\ fired' = [fired EXCEPT ![r] = today]
  /\ queue' = [queue EXCEPT ![r] = Users]
  /\ UNCHANGED <<today, storeVars, run, mailVars, nextId, histVars>>

\* The tick serves its users one after the other, in no particular order,
\* all with the date computed when it fired.
ServeUser(r) ==
  /\ run[r].pc = "idle"
  /\ \E u \in queue[r] :
       /\ queue' = [queue EXCEPT ![r] = @ \ {u}]
       /\ run' = [run EXCEPT ![r] = Started(u, fired[r])]
  /\ UNCHANGED <<clockVars, storeVars, mailVars, nextId, histVars>>

\* run_for_user called outside a tick, for a date up to today.
RunForUser(r) ==
  /\ run[r].pc = "idle" /\ queue[r] = {}
  /\ \E u \in Users, d \in 1..today : run' = [run EXCEPT ![r] = Started(u, d)]
  /\ UNCHANGED <<clockVars, storeVars, queue, mailVars, nextId, histVars>>

EndRun(r) == run' = [run EXCEPT ![r] = IdleRun]

(***************************************************************************)
(* generate_digest                                                         *)
(***************************************************************************)

\* SELECT the row of the key: a terminal row ends the call, a pending or
\* failed one is to be replaced.
SelectExisting(r) ==
  LET rows == RowsOf(Key(run[r])) IN
  /\ run[r].pc = "select"
  /\ \/ \E d \in rows : d.status \in Terminal /\ EndRun(r)
     \/ \E d \in rows :
          /\ d.status \notin Terminal
          /\ run' = [run EXCEPT ![r].pc = "delete", ![r].old = d.id]
     \/ rows = {} /\ run' = [run EXCEPT ![r].pc = "build"]
  /\ UNCHANGED <<clockVars, storeVars, queue, mailVars, nextId, histVars>>

\* Mutant: the DELETE is committed before the new brief is built.
DeleteExistingCommits(r) ==
  /\ run[r].pc = "delete" /\ ~Locked(run[r].old)
  /\ digests' = {d \in digests : d.id # run[r].old}
  /\ run' = [run EXCEPT ![r].pc = "build", ![r].old = Null]
  /\ UNCHANGED <<clockVars, notifications, queue, mailVars, nextId, histVars>>

\* DELETE by primary key, whatever the status is by now; a row another
\* transaction removed in the meantime matches nothing, which only warns.
DeleteExisting(r) ==
  /\ run[r].pc = "delete"
  /\ ~Locked(run[r].old)
  /\ run' = [run EXCEPT ![r].pc = "build",
                        ![r].old = IF @ \in Ids(digests) THEN @ ELSE Null]
  /\ UNCHANGED <<clockVars, storeVars, queue, mailVars, nextId, histVars>>

\* Some other open transaction has written the key of r.
KeyBusy(r) ==
  \E s \in Runners \ {r} :
    /\ Inserting(s) \/ Deleting(s)
    /\ Key(run[s]) = Key(run[r])

\* Mutant: no unique index.
KeyTakenNever(r) == FALSE
\* A committed row other than the one r deletes has the key of r.
KeyTaken(r) == \E d \in RowsOf(Key(run[r])) : d.id # run[r].old

\* Clustering and summaries have returned (their LLM failures fall back, so
\* they do return).  INSERT the new row; UNIQUE(user_id, for_date) lets it through or raises
\* IntegrityError, which run_for_user swallows after the rollback.
InsertDigest(r) ==
  /\ run[r].pc = "build"
  /\ ~KeyBusy(r)
  /\ \/ /\ ~KeyTaken(r)
        /\ run' = [run EXCEPT ![r].pc = "commit", ![r].new = nextId]
        /\ nextId' = nextId + 1
     \/ /\ KeyTaken(r)
        /\ EndRun(r)
        /\ UNCHANGED nextId
  /\ UNCHANGED <<clockVars, storeVars, queue, mailVars, histVars>>

NewDigest(r) ==
  [id |-> run[r].new, user |-> run[r].user, day |-> run[r].day,
   status |-> "notified", msg |-> Null]

BriefReady(r) ==
  [born |-> run[r].new, user |-> run[r].user, day |-> run[r].day, digest |-> run[r].new]

\* Mutant: the foreign key is left as it is.
SetNullNever(n, id) == n
\* ON DELETE SET NULL of notifications.digest_id.
SetNull(n, id) == IF n.digest = id THEN [n EXCEPT !.digest = Null] ELSE n

\* INSERT the notification, then COMMIT: the old row, the new row and the
\* notification change together.
CommitDigest(r) ==
  /\ run[r].pc = "commit"
  /\ digests' = {d \in digests : d.id # run[r].old} \cup {NewDigest(r)}
  /\ notifications' = {SetNull(n, run[r].old) : n \in notifications} \cup {BriefReady(r)}
  /\ EndRun(r)
  /\ UNCHANGED <<clockVars, queue, mailVars, nextId, histVars>>

\* Mutant: the exception leaves run_for_user and ends the tick.
RunRaisesEndsTick(r) ==
  /\ faults < MaxFaults /\ run[r].pc # "idle"
  /\ EndRun(r)
  /\ queue' = [queue EXCEPT ![r] = {}]
  /\ faults' = faults + 1
  /\ missed' = missed \cup {Key(run[r])}
  /\ UNCHANGED <<clockVars, storeVars, mailVars, nextId, failedOnce>>

\* Any exception inside generate_digest: the session rolls back, the error is
\* logged and the tick goes on with its next user.
RunRaises(r) ==
  /\ faults < MaxFaults
  /\ run[r].pc # "idle"
  /\ EndRun(r)
  /\ faults' = faults + 1
  /\ missed' = missed \cup {Key(run[r])}
  /\ UNCHANGED <<clockVars, storeVars, queue, mailVars, nextId, failedOnce>>

\* The process dies: open transactions roll back and the tick is lost.
Crash(r) ==
  /\ faults < MaxFaults
  /\ run[r].pc # "idle" \/ queue[r] # {}
  /\ EndRun(r)
  /\ queue' = [queue EXCEPT ![r] = {}]
  /\ faults' = faults + 1
  /\ missed' = missed \cup (queue[r] \X {fired[r]})
                      \cup (IF run[r].pc = "idle" THEN {} ELSE {Key(run[r])})
  /\ UNCHANGED <<clockVars, storeVars, mailVars, nextId, failedOnce>>

(***************************************************************************)
(* send_digest_email                                                       *)
(***************************************************************************)

\* The caller (not part of the repository) hands over a payload built from a
\* row it has read; it retries failed ones and leaves e-mailed ones alone.
BeginSend(m) ==
  /\ mail[m].pc = "idle"
  /\ nextMsg < MaxSends
  /\ \E d \in digests :
       /\ d.status \in {"notified", "failed"}
       /\ mail' = [mail EXCEPT ![m] = [pc |-> "smtp", id |-> d.id, msg |-> nextMsg]]
  /\ nextMsg' = nextMsg + 1
  /\ UNCHANGED <<clockVars, storeVars, queue, run, accepted, nextId, histVars>>

\* The server takes the message and the client sees it.
SmtpAccepts(m) ==
  /\ mail[m].pc = "smtp"
  /\ mail' = [mail EXCEPT ![m].pc = "emailed"]
  /\ accepted' = accepted \cup {<<mail[m].id, mail[m].msg>>}
  /\ UNCHANGED <<clockVars, storeVars, queue, run, nextMsg, nextId, histVars>>

\* Mutant: the exception is not noticed.
SmtpFailsUnnoticed(m) ==
  /\ mail[m].pc = "smtp"
  /\ mail' = [mail EXCEPT ![m].pc = "emailed"]
  /\ UNCHANGED <<clockVars, storeVars, queue, run, accepted, nextMsg, nextId, histVars>>

\* No recipient, or an SMTP exception; the server may have taken the message
\* although its answer was lost.
SmtpFails(m) ==
  /\ mail[m].pc = "smtp"
  /\ mail' = [mail EXCEPT ![m].pc = "failed"]
  /\ \/ UNCHANGED accepted
     \/ accepted' = accepted \cup {<<mail[m].id, mail[m].msg>>}
  /\ UNCHANGED <<clockVars, storeVars, queue, run, nextMsg, nextId, histVars>>

\* update_digest_delivery: UPDATE by id and COMMIT.  It waits for a
\* transaction that deletes the row, and changes nothing once it is gone.
UpdateDelivery(m) ==
  LET id     == mail[m].id
      status == mail[m].pc
      msg    == IF status = "emailed" THEN mail[m].msg ELSE Null IN
  /\ mail[m].pc \in {"emailed", "failed"}
  /\ ~Locked(id)
  /\ digests' = {IF d.id = id THEN [d EXCEPT !.status = status, !.msg = msg] ELSE d :
                   d \in digests}
  /\ failedOnce' = IF status = "failed"
                     THEN failedOnce \cup {Key(d) : d \in {e \in digests : e.id = id}}
                     ELSE failedOnce
  /\ mail' = [mail EXCEPT ![m] = IdleMail]
  /\ UNCHANGED <<clockVars, notifications, queue, run, accepted, nextMsg, nextId,
                 faults, missed>>

\* The worker dies, possibly between the SMTP answer and the UPDATE.
MailerCrash(m) ==
  /\ faults < MaxFaults
  /\ mail[m].pc # "idle"
  /\ mail' = [mail EXCEPT ![m] = IdleMail]
  /\ faults' = faults + 1
  /\ UNCHANGED <<clockVars, storeVars, queue, run, accepted, nextMsg, nextId,
                 missed, failedOnce>>

(***************************************************************************)
(* Specification                                                           *)
(***************************************************************************)

GenerateStep(r) ==
  \/ SelectExisting(r) \/ DeleteExisting(r) \/ InsertDigest(r)
  \/ CommitDigest(r)

RunnerStep(r) ==
  \/ DailyTick(r) \/ ServeUser(r) \/ RunForUser(r)
  \/ GenerateStep(r) \/ RunRaises(r) \/ Crash(r)

MailerStep(m) ==
  \/ BeginSend(m) \/ SmtpAccepts(m) \/ SmtpFails(m)
  \/ UpdateDelivery(m) \/ MailerCrash(m)

Next ==
  \/ NextDay
  \/ \E r \in Runners : RunnerStep(r)
  \/ \E m \in Mailers : MailerStep(m)

Spec == Init /\ [][Next]_vars

\* A started tick or call keeps being scheduled by its event loop until it
\* ends; nothing obliges a tick to fire, a caller to call or SMTP to answer.
Fairness == \A r \in Runners : WF_vars(ServeUser(r)) /\ WF_vars(GenerateStep(r))

FairSpec == Spec /\ Fairness

(***************************************************************************)
(* Properties                                                              *)
(***************************************************************************)

RunState ==
  [pc: {"idle", "select", "delete", "build", "commit"},
   user: Users \cup {Null}, day: Days \cup {0},
   old: Nat \cup {Null}, new: Nat \cup {Null}]

MailState ==
  [pc: {"idle", "smtp", "emailed", "failed"}, id: Nat \cup {Null}, msg: Nat \cup {Null}]

\* Types of every variable; a call in progress is for a real user and date.
TypeOK ==
  /\ today \in Days
  /\ fired \in [Runners -> 0..MaxDay]
  /\ digests \subseteq Digest
  /\ notifications \subseteq Notification
  /\ queue \in [Runners -> SUBSET Users]
  /\ run \in [Runners -> RunState]
  /\ mail \in [Mailers -> MailState]
  /\ accepted \subseteq Nat \X Nat
  /\ nextId \in Nat /\ nextMsg \in Nat /\ faults \in Nat
  /\ missed \subseteq Users \X Days
  /\ failedOnce \subseteq Users \X Days

\* At most one committed digest per user and date, however many runners
\* generate the same one at the same time (uq_digests_user_date, and the
\* DELETE and INSERT of a regeneration sharing a transaction).
UniqueBrief ==
  \A d, e \in digests : Key(d) = Key(e) => d = e

\* Every committed digest is announced by exactly one notification that links
\* to it, and a notification whose digest was regenerated links to nothing:
\* no brief is silent, no link dangles.
BriefAnnounced ==
  /\ \A d \in digests : \E n \in notifications :
       n.digest = d.id /\ Key(n) = Key(d)
  /\ \A n \in notifications :
       n.digest = IF n.born \in Ids(digests) THEN n.born ELSE Null
  /\ \A n, o \in notifications : n.born = o.born => n = o

\* A row says `emailed` only with the message id of a message the SMTP server
\* took for this very digest, also after crashes, retries and regeneration.
EmailedMeansAccepted ==
  \A d \in digests :
    IF d.status = "emailed" THEN <<d.id, d.msg>> \in accepted ELSE d.msg = Null

\* A brief a user could read never disappears: regeneration, whatever it
\* races with or fails on, replaces it in one step.
BriefNeverVanishes ==
  [][\A d \in digests : \E e \in digests' : Key(e) = Key(d)]_vars

\* A row is only ever replaced for a user and date whose delivery was once
\* recorded failed: a brief that is merely late in being e-mailed is not
\* generated, and announced, twice.
ReplacedOnlyAfterFailure ==
  [][\A d \in digests : d.id \notin Ids(digests') => Key(d) \in failedOnce]_vars

\* A user whom a tick is to serve ends up with a brief for its date, unless an
\* exception or a crash hit that very run: losing the race against another
\* replica, or waiting for its locks, costs nothing.
TickedUserGetsBrief ==
  \A u \in Users, d \in Days :
    (\E r \in Runners : u \in queue[r] /\ fired[r] = d)
      ~> (RowsOf(<<u, d>>) # {} \/ <<u, d>> \in missed)

(***************************************************************************)
(* The inductive invariant behind the safety properties                    *)
(***************************************************************************)

\* Ids are never reused, and a stored status is one generate_digest or
\* update_digest_delivery writes.
RowsOK ==
  /\ \A d \in digests : d.id < nextId
  /\ \A d, e \in digests : d.id = e.id => d = e
  /\ \A d \in digests : d.status # "pending"
  /\ \A d \in digests : d.status = "failed" => Key(d) \in failedOnce
  /\ \A n \in notifications : n.born < nextId

\* What a call in progress knows of the tables.
CallOK(r) ==
  /\ run[r].pc = "idle" => run[r] = IdleRun
  /\ run[r].pc # "idle" => run[r].user \in Users /\ run[r].day \in Days
  /\ run[r].pc \in {"select", "idle"} => run[r].old = Null
  /\ run[r].pc = "delete" => run[r].old # Null
  /\ run[r].old # Null =>
       /\ run[r].old < nextId
       /\ Key(run[r]) \in failedOnce
       /\ \A d \in digests : d.id = run[r].old => Key(d) = Key(run[r])
  /\ Deleting(r) => run[r].old \in Ids(digests)
  /\ Inserting(r) =>
       /\ run[r].new \in Nat /\ run[r].new < nextId
       /\ run[r].new \notin Ids(digests)
       /\ \A n \in notifications : n.born # run[r].new
       /\ ~KeyTaken(r)

\* What two calls know of each other: the row locks and the unique index.
CallsOK(r, s) ==
  /\ Deleting(r) /\ Deleting(s) => run[r].old # run[s].old
  /\ Inserting(r) /\ Inserting(s) =>
       run[r].new # run[s].new /\ Key(run[r]) # Key(run[s])
  /\ Inserting(r) => run[s].old # run[r].new

SendOK(m) ==
  /\ mail[m].pc # "idle" => mail[m].id \in Nat /\ mail[m].msg \in Nat
  /\ mail[m].pc = "emailed" => <<mail[m].id, mail[m].msg>> \in accepted

IInv ==
  /\ TypeOK
  /\ UniqueBrief
  /\ BriefAnnounced
  /\ EmailedMeansAccepted
  /\ RowsOK
  /\ \A r \in Runners : queue[r] # {} => fired[r] \in Days
  /\ \A r \in Runners : CallOK(r)
  /\ \A r, s \in Runners : r # s => CallsOK(r, s)
  /\ \A m \in Mailers : SendOK(m)

=============================================================================
