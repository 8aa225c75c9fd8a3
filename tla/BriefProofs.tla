----------------------------- MODULE BriefProofs -----------------------------
(***************************************************************************)
(* Safety of the brief pipeline for every number of users, runners,        *)
(* mailers, days, sends and faults.  IInv (module Brief) is inductive: the *)
(* row locks and the unique index keep two open transactions apart         *)
(* (CallsOK), each transaction knows what it deleted and inserted          *)
(* (CallOK), so that a commit preserves what the tables promise.  With the *)
(* same invariant every step maps to a step of BriefContract or a stutter. *)
(***************************************************************************)
EXTENDS BriefRefinement, FiniteSetTheorems, TLAPS

LEMMA IdleRunType == IdleRun \in RunState
  BY DEF IdleRun, RunState

LEMMA IdleMailType == IdleMail \in MailState
  BY DEF IdleMail, MailState

\* The initial state satisfies the inductive invariant.
LEMMA InitIInv == Init => IInv
  <1> SUFFICES ASSUME Init PROVE IInv
    OBVIOUS
  <1> USE BriefAssumption DEF Init
  <1>1. TypeOK
    BY IdleRunType, IdleMailType DEF TypeOK, Days
  <1>2. \A r \in Runners : run[r] = IdleRun
    OBVIOUS
  <1>3. \A r \in Runners : CallOK(r)
    BY <1>2 DEF CallOK, IdleRun, Deleting, Inserting
  <1>4. \A r, s \in Runners : CallsOK(r, s)
    BY <1>2 DEF CallsOK, IdleRun, Deleting, Inserting
  <1>5. \A m \in Mailers : SendOK(m)
    BY DEF SendOK, IdleMail
  <1> QED
    BY <1>1, <1>3, <1>4, <1>5
    DEF IInv, UniqueBrief, BriefAnnounced, EmailedMeansAccepted, RowsOK

\* A step that leaves the tables alone keeps the invariants of the tables.
LEMMA TablesUnchanged ==
  ASSUME UniqueBrief, BriefAnnounced, EmailedMeansAccepted, RowsOK,
         UNCHANGED storeVars, UNCHANGED failedOnce,
         accepted \subseteq accepted', nextId \in Nat, nextId' \in Nat,
         nextId <= nextId', digests \subseteq Digest,
         notifications \subseteq Notification
  PROVE  UniqueBrief' /\ BriefAnnounced' /\ EmailedMeansAccepted' /\ RowsOK'
  <1>1. digests' = digests /\ notifications' = notifications
    BY DEF storeVars
  <1>2. UniqueBrief' /\ BriefAnnounced'
    BY <1>1 DEF UniqueBrief, BriefAnnounced, Ids
  <1>3. EmailedMeansAccepted'
    BY <1>1 DEF EmailedMeansAccepted
  <1>4. RowsOK'
    BY <1>1 DEF RowsOK, Digest, Notification
  <1> QED
    BY <1>2, <1>3, <1>4

\* A call whose own state and whose view of the tables do not change keeps its
\* invariant.
LEMMA CallUnchanged ==
  ASSUME NEW s \in Runners, CallOK(s), run'[s] = run[s],
         UNCHANGED storeVars, failedOnce \subseteq failedOnce',
         run \in [Runners -> RunState],
         nextId \in Nat, nextId' \in Nat, nextId <= nextId'
  PROVE  CallOK(s)'
  <1>1. digests' = digests /\ notifications' = notifications
    BY DEF storeVars
  <1>2. Deleting(s)' <=> Deleting(s)
    BY DEF Deleting
  <1>3. Inserting(s)' <=> Inserting(s)
    BY DEF Inserting
  <1>4. KeyTaken(s)' <=> KeyTaken(s)
    BY <1>1 DEF KeyTaken, RowsOf, Key
  <1>5. run[s].old # Null => run[s].old \in Nat
    BY DEF RunState
  <1> QED
    BY <1>1, <1>2, <1>3, <1>4, <1>5 DEF CallOK, Ids, Key

\* A step of runner r that leaves the tables alone preserves IInv when it
\* preserves the conjuncts that speak of r.
LEMMA RunnerQuiet ==
  ASSUME NEW r \in Runners, IInv,
         UNCHANGED <<storeVars, mailVars, failedOnce, today>>,
         nextId' \in Nat, nextId <= nextId',
         TypeOK',
         \A s \in Runners \ {r} : run'[s] = run[s],
         \A s \in Runners : queue'[s] # {} => fired'[s] \in Days,
         CallOK(r)',
         \A s \in Runners \ {r} : CallsOK(r, s)' /\ CallsOK(s, r)'
  PROVE  IInv'
  <1> USE DEF IInv
  <1>1. UniqueBrief' /\ BriefAnnounced' /\ EmailedMeansAccepted' /\ RowsOK'
    <2>1. UNCHANGED storeVars /\ UNCHANGED failedOnce /\ accepted' = accepted
      BY DEF mailVars
    <2> QED
      BY <2>1, TablesUnchanged DEF TypeOK
  <1>2. ASSUME NEW s \in Runners PROVE CallOK(s)'
    <2>1. CASE s = r
      BY <2>1
    <2>2. CASE s # r
      BY <2>2, CallUnchanged DEF TypeOK
    <2> QED
      BY <2>1, <2>2
  <1>3. ASSUME NEW s \in Runners, NEW t \in Runners, s # t PROVE CallsOK(s, t)'
    <2>1. CASE s # r /\ t # r
      BY <1>3, <2>1 DEF CallsOK, Deleting, Inserting, Key
    <2>2. CASE s = r \/ t = r
      BY <1>3, <2>2
    <2> QED
      BY <2>1, <2>2
  <1>4. \A m \in Mailers : SendOK(m)'
    BY DEF SendOK, mailVars
  <1> QED
    BY <1>1, <1>2, <1>3, <1>4

\* A call that has ended, or has only been started, constrains nobody.
LEMMA FreshCall ==
  ASSUME NEW r \in Runners, NEW x,
         x = IdleRun \/ \E u \in Users, d \in Days : x = Started(u, d),
         run' = [run EXCEPT ![r] = x],
         run \in [Runners -> RunState],
         \A s \in Runners : Inserting(s) => run[s].new \in Nat
  PROVE  /\ run' \in [Runners -> RunState]
         /\ \A s \in Runners \ {r} : run'[s] = run[s]
         /\ CallOK(r)'
         /\ \A s \in Runners \ {r} : CallsOK(r, s)' /\ CallsOK(s, r)'
  <1>1. /\ x \in RunState
        /\ x.old = Null
        /\ x.pc \in {"idle", "select"}
        /\ x.pc = "idle" => x = IdleRun
        /\ x.pc # "idle" => x.user \in Users /\ x.day \in Days
    <2>1. CASE x = IdleRun
      BY <2>1, IdleRunType DEF IdleRun
    <2>2. ASSUME NEW u \in Users, NEW d \in Days, x = Started(u, d)
          PROVE  /\ x \in RunState /\ x.old = Null /\ x.pc = "select"
                 /\ x.user \in Users /\ x.day \in Days
      BY <2>2 DEF Started, IdleRun, RunState
    <2> QED
      BY <2>1, <2>2
  <1>2. /\ run' \in [Runners -> RunState]
        /\ \A s \in Runners \ {r} : run'[s] = run[s]
        /\ run'[r] = x
    BY <1>1
  <1>3. CallOK(r)'
    BY <1>1, <1>2 DEF CallOK, Deleting, Inserting
  <1>4. ASSUME NEW s \in Runners \ {r} PROVE CallsOK(r, s)' /\ CallsOK(s, r)'
    BY <1>1, <1>2, BriefAssumption DEF CallsOK, Deleting, Inserting
  <1> QED
    BY <1>2, <1>3, <1>4

\* A tick fires.
LEMMA DailyTickIInv ==
  ASSUME NEW r \in Runners, IInv, DailyTick(r) PROVE IInv'
  <1> USE DEF IInv
  <1>1. TypeOK'
    BY DEF DailyTick, TypeOK, Days, storeVars, mailVars, histVars
  <1>2. \A s \in Runners : queue'[s] # {} => fired'[s] \in Days
    BY DEF DailyTick, TypeOK
  <1>3. /\ run' = run /\ nextId' = nextId /\ nextId \in Nat
        /\ UNCHANGED <<storeVars, mailVars, failedOnce, today>>
    BY DEF DailyTick, histVars, TypeOK
  <1>4. CallOK(r)'
    BY <1>3, CallUnchanged DEF TypeOK
  <1>5. \A s \in Runners \ {r} : CallsOK(r, s)' /\ CallsOK(s, r)'
    BY <1>3 DEF CallsOK, Deleting, Inserting, Key
  <1> QED
    BY <1>1, <1>2, <1>3, <1>4, <1>5, RunnerQuiet

\* A call starts or ends without having committed: ServeUser, RunForUser, the
\* end of SelectExisting on a terminal row, a rolled back insert, an exception
\* and a crash.
LEMMA FreshCallIInv ==
  ASSUME NEW r \in Runners, IInv, NEW x,
         x = IdleRun \/ \E u \in Users, d \in Days : x = Started(u, d),
         run' = [run EXCEPT ![r] = x],
         UNCHANGED <<clockVars, storeVars, mailVars, nextId, failedOnce>>,
         queue' \in [Runners -> SUBSET Users],
         \A s \in Runners : queue'[s] \subseteq queue[s],
         faults' \in Nat, missed' \subseteq Users \X Days
  PROVE  IInv'
  <1> USE DEF IInv
  <1>1. \A s \in Runners : Inserting(s) => run[s].new \in Nat
    BY DEF CallOK
  <1>2. /\ run' \in [Runners -> RunState]
        /\ \A s \in Runners \ {r} : run'[s] = run[s]
        /\ CallOK(r)'
        /\ \A s \in Runners \ {r} : CallsOK(r, s)' /\ CallsOK(s, r)'
    BY <1>1, FreshCall DEF TypeOK
  <1>3. TypeOK'
    BY <1>2 DEF TypeOK, clockVars, storeVars, mailVars, Days
  <1>4. \A s \in Runners : queue'[s] # {} => fired'[s] \in Days
    BY DEF clockVars
  <1>5. /\ nextId' \in Nat /\ nextId <= nextId'
        /\ UNCHANGED <<storeVars, mailVars, failedOnce, today>>
    BY DEF clockVars, TypeOK
  <1> QED
    BY <1>2, <1>3, <1>4, <1>5, RunnerQuiet

\* The tick starts a user; a caller starts an ad-hoc run.
LEMMA StartIInv ==
  ASSUME NEW r \in Runners, IInv, ServeUser(r) \/ RunForUser(r) PROVE IInv'
  <1>1. \E u \in Users, d \in Days : run' = [run EXCEPT ![r] = Started(u, d)]
    <2>1. CASE ServeUser(r)
      BY <2>1 DEF ServeUser, IInv, TypeOK
    <2>2. CASE RunForUser(r)
      <3>1. PICK u \in Users, d \in 1..today : run' = [run EXCEPT ![r] = Started(u, d)]
        BY <2>2 DEF RunForUser
      <3>2. d \in Days
        BY BriefAssumption DEF IInv, TypeOK, Days
      <3> QED
        BY <3>1, <3>2
    <2> QED
      BY <2>1, <2>2
  <1>2. /\ UNCHANGED <<clockVars, storeVars, mailVars, nextId, failedOnce>>
        /\ queue' \in [Runners -> SUBSET Users]
        /\ \A s \in Runners : queue'[s] \subseteq queue[s]
        /\ faults' \in Nat /\ missed' \subseteq Users \X Days
    BY DEF ServeUser, RunForUser, IInv, TypeOK, histVars
  <1>3. PICK x : /\ \E u \in Users, d \in Days : x = Started(u, d)
                 /\ run' = [run EXCEPT ![r] = x]
    BY <1>1
  <1> QED
    BY <1>2, <1>3, FreshCallIInv

\* An exception or a crash rolls the call back.
LEMMA FaultIInv ==
  ASSUME NEW r \in Runners, IInv, RunRaises(r) \/ Crash(r) PROVE IInv'
  <1>1. run' = [run EXCEPT ![r] = IdleRun]
    BY DEF RunRaises, Crash, EndRun
  <1>2. run[r].pc # "idle" => Key(run[r]) \in Users \X Days
    BY DEF IInv, CallOK, Key
  <1>3. missed' \subseteq Users \X Days
    <2>1. CASE RunRaises(r)
      BY <2>1, <1>2 DEF RunRaises, IInv, TypeOK
    <2>2. CASE Crash(r)
      <3>1. queue[r] \X {fired[r]} \subseteq Users \X Days
        <4>1. queue[r] \subseteq Users /\ (queue[r] # {} => fired[r] \in Days)
          BY DEF IInv, TypeOK
        <4> QED
          BY <4>1
      <3> QED
        BY <2>2, <3>1, <1>2 DEF Crash, IInv, TypeOK
    <2> QED
      BY <2>1, <2>2
  <1>4. /\ UNCHANGED <<clockVars, storeVars, mailVars, nextId, failedOnce>>
        /\ queue' \in [Runners -> SUBSET Users]
        /\ \A s \in Runners : queue'[s] \subseteq queue[s]
        /\ faults' \in Nat
    BY DEF RunRaises, Crash, IInv, TypeOK
  <1> QED
    BY <1>1, <1>3, <1>4, FreshCallIInv

\* The row to replace is a failed one of the very key of the call.
LEMMA SelectExistingIInv ==
  ASSUME NEW r \in Runners, IInv, SelectExisting(r) PROVE IInv'
  <1> USE DEF IInv
  <1>1. /\ UNCHANGED <<clockVars, storeVars, queue, mailVars, nextId, histVars>>
        /\ run[r].pc = "select" /\ run[r].old = Null
        /\ run[r].user \in Users /\ run[r].day \in Days
        /\ run[r] \in RunState
    BY DEF SelectExisting, CallOK, TypeOK
  <1>2. CASE EndRun(r)
    <2>1. run' = [run EXCEPT ![r] = IdleRun]
      BY <1>2 DEF EndRun
    <2> QED
      BY <2>1, <1>1, FreshCallIInv DEF histVars, TypeOK
  <1>3. CASE run' = [run EXCEPT ![r].pc = "build"]
    <2>1. /\ run' \in [Runners -> RunState]
          /\ \A s \in Runners \ {r} : run'[s] = run[s]
          /\ run'[r].pc = "build" /\ run'[r].old = Null
          /\ run'[r].user = run[r].user /\ run'[r].day = run[r].day
      BY <1>1, <1>3 DEF TypeOK, RunState
    <2>2. CallOK(r)'
      BY <1>1, <2>1 DEF CallOK, Deleting, Inserting
    <2>3. \A s \in Runners \ {r} : CallsOK(r, s)' /\ CallsOK(s, r)'
      BY <2>1, BriefAssumption DEF CallsOK, Deleting, Inserting, CallOK
    <2>4. TypeOK'
      BY <1>1, <2>1 DEF TypeOK, clockVars, storeVars, mailVars, histVars
    <2> QED
      BY <1>1, <2>1, <2>2, <2>3, <2>4, RunnerQuiet
      DEF clockVars, histVars, TypeOK
  <1>4. ASSUME NEW d \in RowsOf(Key(run[r])), d.status \notin Terminal,
               run' = [run EXCEPT ![r].pc = "delete", ![r].old = d.id]
        PROVE IInv'
    <2>1. d \in digests /\ Key(d) = Key(run[r]) /\ d.id \in Nat /\ d.id < nextId
      BY DEF RowsOf, TypeOK, Digest, RowsOK
    <2>2. Key(d) \in failedOnce
      BY <2>1, <1>4 DEF RowsOK, TypeOK, Digest, Status, Terminal
    <2>3. /\ run' \in [Runners -> RunState]
          /\ \A s \in Runners \ {r} : run'[s] = run[s]
          /\ run'[r].pc = "delete" /\ run'[r].old = d.id
          /\ run'[r].user = run[r].user /\ run'[r].day = run[r].day
      BY <1>1, <1>4, <2>1 DEF TypeOK, RunState
    <2>4. d.id # Null /\ \A e \in digests : e.id = d.id => e = d
      BY <2>1, BriefAssumption DEF RowsOK
    <2>5. CallOK(r)'
      BY <1>1, <2>1, <2>2, <2>3, <2>4
      DEF CallOK, Deleting, Inserting, Key, storeVars, histVars
    <2>6. \A s \in Runners \ {r} : CallsOK(r, s)' /\ CallsOK(s, r)'
      <3> SUFFICES ASSUME NEW s \in Runners \ {r}
                   PROVE  CallsOK(r, s)' /\ CallsOK(s, r)'
        OBVIOUS
      <3>1. Inserting(s) => run[s].new # d.id
        BY <2>1 DEF CallOK, Ids
      <3> QED
        BY <2>3, <3>1 DEF CallsOK, Deleting, Inserting
    <2>7. TypeOK'
      BY <1>1, <2>3 DEF TypeOK, clockVars, storeVars, mailVars, histVars
    <2> QED
      BY <1>1, <2>3, <2>5, <2>6, <2>7, RunnerQuiet DEF clockVars, histVars, TypeOK
  <1> QED
    BY <1>2, <1>3, <1>4 DEF SelectExisting

\* DELETE waits for the row lock, so no two open transactions hold one row.
LEMMA DeleteExistingIInv ==
  ASSUME NEW r \in Runners, IInv, DeleteExisting(r) PROVE IInv'
  <1> USE DEF IInv
  <1> DEFINE old == IF run[r].old \in Ids(digests) THEN run[r].old ELSE Null
  <1>1. /\ UNCHANGED <<clockVars, storeVars, queue, mailVars, nextId, histVars>>
        /\ run[r].pc = "delete" /\ ~Locked(run[r].old)
        /\ run[r].user \in Users /\ run[r].day \in Days
        /\ run[r] \in RunState
    BY DEF DeleteExisting, CallOK, TypeOK
  <1>2. /\ run' \in [Runners -> RunState]
        /\ \A s \in Runners \ {r} : run'[s] = run[s]
        /\ run'[r].pc = "build" /\ run'[r].old = old
        /\ run'[r].user = run[r].user /\ run'[r].day = run[r].day
    BY <1>1 DEF TypeOK, RunState, DeleteExisting
  <1>3. CallOK(r)'
    BY <1>1, <1>2 DEF CallOK, Deleting, Inserting, Key, Ids, storeVars, histVars
  <1>4. ASSUME NEW s \in Runners \ {r} PROVE CallsOK(r, s)' /\ CallsOK(s, r)'
    <2>1. Deleting(s) => run[s].old # run[r].old
      BY <1>1 DEF Locked
    <2>2. Inserting(s) => run[r].old # run[s].new
      BY DEF CallsOK
    <2>3. Inserting(s) => Null # run[s].new
      BY BriefAssumption DEF CallOK
    <2> QED
      BY <1>2, <2>1, <2>2, <2>3 DEF CallsOK, Deleting, Inserting
  <1>5. TypeOK'
    BY <1>1, <1>2 DEF TypeOK, clockVars, storeVars, mailVars, histVars
  <1> QED
    BY <1>1, <1>2, <1>3, <1>4, <1>5, RunnerQuiet DEF clockVars, histVars, TypeOK

\* INSERT: no other open transaction and no committed row has the key.
LEMMA InsertDigestIInv ==
  ASSUME NEW r \in Runners, IInv, InsertDigest(r) PROVE IInv'
  <1> USE DEF IInv
  <1>1. /\ UNCHANGED <<clockVars, storeVars, queue, mailVars, histVars>>
        /\ run[r].pc = "build" /\ ~KeyBusy(r)
        /\ run[r].user \in Users /\ run[r].day \in Days
        /\ run[r] \in RunState /\ nextId \in Nat
    BY DEF InsertDigest, CallOK, TypeOK
  <1>2. CASE KeyTaken(r) /\ EndRun(r) /\ UNCHANGED nextId
    <2>1. run' = [run EXCEPT ![r] = IdleRun]
      BY <1>2 DEF EndRun
    <2> QED
      BY <2>1, <1>1, <1>2, FreshCallIInv DEF histVars, TypeOK
  <1>3. CASE /\ ~KeyTaken(r)
             /\ run' = [run EXCEPT ![r].pc = "commit", ![r].new = nextId]
             /\ nextId' = nextId + 1
    <2>1. /\ run' \in [Runners -> RunState]
          /\ \A s \in Runners \ {r} : run'[s] = run[s]
          /\ run'[r].pc = "commit" /\ run'[r].new = nextId
          /\ run'[r].old = run[r].old
          /\ run'[r].user = run[r].user /\ run'[r].day = run[r].day
      BY <1>1, <1>3 DEF TypeOK, RunState
    <2>2. digests' = digests /\ notifications' = notifications /\ failedOnce' = failedOnce
      BY <1>1 DEF storeVars, histVars
    <2>3. ~KeyTaken(r)'
      BY <1>3, <2>1, <2>2 DEF KeyTaken, RowsOf, Key
    <2>4. CallOK(r)'
      <3>1. nextId \notin Ids(digests) /\ \A n \in notifications : n.born # nextId
        BY <1>1 DEF RowsOK, Ids, TypeOK, Digest, Notification
      <3>2. run[r].old # Null => run[r].old < nextId + 1
        BY <1>1 DEF CallOK, RunState
      <3> QED
        BY <1>1, <1>3, <2>1, <2>2, <2>3, <3>1, <3>2
        DEF CallOK, Deleting, Inserting, Key, Ids
    <2>5. ASSUME NEW s \in Runners \ {r} PROVE CallsOK(r, s)' /\ CallsOK(s, r)'
      <3>1. run[s].old # nextId
        BY <1>1, BriefAssumption DEF CallOK, TypeOK, RunState
      <3>2. Inserting(s) =>
              /\ run[s].new # nextId /\ Key(run[s]) # Key(run[r])
              /\ run[r].old # run[s].new
        BY <1>1 DEF CallOK, KeyBusy, CallsOK
      <3>3. Deleting(r) /\ Deleting(s) => run[r].old # run[s].old
        BY DEF CallsOK
      <3> QED
        BY <1>1, <2>1, <3>1, <3>2, <3>3 DEF CallsOK, Deleting, Inserting, Key
    <2>6. TypeOK'
      BY <1>1, <1>3, <2>1 DEF TypeOK, clockVars, storeVars, mailVars, histVars
    <2>7. /\ nextId' \in Nat /\ nextId <= nextId'
          /\ UNCHANGED <<storeVars, mailVars, failedOnce, today>>
          /\ \A s \in Runners : queue'[s] # {} => fired'[s] \in Days
      BY <1>1, <1>3 DEF clockVars, histVars
    <2> QED
      BY <2>1, <2>4, <2>5, <2>6, <2>7, RunnerQuiet
  <1> QED
    BY <1>2, <1>3 DEF InsertDigest

\* COMMIT: what the transaction wrote becomes visible at once.
LEMMA CommitDigestIInv ==
  ASSUME NEW r \in Runners, IInv, CommitDigest(r) PROVE IInv'
  <1> USE DEF IInv
  <1> DEFINE old == run[r].old
             new == run[r].new
             kept == {d \in digests : d.id # old}
  <1>1. /\ UNCHANGED <<clockVars, queue, mailVars, nextId, histVars>>
        /\ run[r].pc = "commit" /\ Inserting(r)
        /\ run[r].user \in Users /\ run[r].day \in Days
        /\ run[r] \in RunState
        /\ new \in Nat /\ new < nextId /\ nextId \in Nat
        /\ new \notin Ids(digests)
        /\ \A n \in notifications : n.born # new
        /\ \A d \in digests : Key(d) = Key(run[r]) => d.id = old
        /\ old # Null => old \in Ids(digests)
    BY DEF CommitDigest, CallOK, Inserting, Deleting, TypeOK, KeyTaken, RowsOf
  <1>2. /\ digests' = kept \cup {NewDigest(r)}
        /\ notifications' = {SetNull(n, old) : n \in notifications} \cup {BriefReady(r)}
        /\ run' = [run EXCEPT ![r] = IdleRun]
    BY DEF CommitDigest, EndRun
  <1>3. /\ NewDigest(r) \in Digest /\ NewDigest(r).id = new
        /\ Key(NewDigest(r)) = Key(run[r])
        /\ NewDigest(r).status = "notified" /\ NewDigest(r).msg = Null
    BY <1>1 DEF NewDigest, Digest, Status, Key
  <1>4. /\ BriefReady(r) \in Notification /\ BriefReady(r).born = new
        /\ BriefReady(r).digest = new /\ Key(BriefReady(r)) = Key(run[r])
    BY <1>1 DEF BriefReady, Notification, Key
  <1>5. ASSUME NEW n \in notifications
        PROVE  /\ SetNull(n, old) \in Notification
               /\ SetNull(n, old).born = n.born /\ Key(SetNull(n, old)) = Key(n)
               /\ SetNull(n, old).digest = IF n.digest = old THEN Null ELSE n.digest
    BY DEF SetNull, Notification, Key, TypeOK
  <1>6. Ids(digests') = (Ids(digests) \ {old}) \cup {new}
    BY <1>2, <1>3 DEF Ids
  <1>7. TypeOK'
    <2>1. digests' \subseteq Digest
      BY <1>2, <1>3 DEF TypeOK
    <2>2. notifications' \subseteq Notification
      BY <1>2, <1>4, <1>5
    <2>3. run' \in [Runners -> RunState]
      BY <1>2, IdleRunType DEF TypeOK
    <2> QED
      BY <1>1, <2>1, <2>2, <2>3 DEF TypeOK, clockVars, mailVars, histVars
  <1>8. UniqueBrief'
    BY <1>1, <1>2, <1>3 DEF UniqueBrief, Key
  <1>9. BriefAnnounced'
    <2>1. ASSUME NEW d \in digests'
          PROVE  \E n \in notifications' : n.digest = d.id /\ Key(n) = Key(d)
      <3>1. CASE d = NewDigest(r)
        BY <3>1, <1>2, <1>3, <1>4
      <3>2. CASE d \in kept
        <4>1. PICK n \in notifications : n.digest = d.id /\ Key(n) = Key(d)
          BY <3>2 DEF BriefAnnounced
        <4> QED
          BY <4>1, <3>2, <1>2, <1>5
      <3> QED
        BY <1>2, <3>1, <3>2
    <2>2. ASSUME NEW n \in notifications'
          PROVE  n.digest = IF n.born \in Ids(digests') THEN n.born ELSE Null
      <3>1. CASE n = BriefReady(r)
        BY <3>1, <1>4, <1>6
      <3>2. ASSUME NEW o \in notifications, n = SetNull(o, old)
            PROVE  n.digest = IF n.born \in Ids(digests') THEN n.born ELSE Null
        <4>1. o.digest = IF o.born \in Ids(digests) THEN o.born ELSE Null
          BY DEF BriefAnnounced
        <4>2. o.born \in Nat /\ o.born # new
          BY <1>1 DEF TypeOK, Notification
        <4> QED
          BY <3>2, <4>1, <4>2, <1>1, <1>5, <1>6, BriefAssumption
      <3> QED
        BY <1>2, <3>1, <3>2
    <2>3. ASSUME NEW n \in notifications', NEW o \in notifications', n.born = o.born
          PROVE  n = o
      BY <2>3, <1>1, <1>2, <1>4, <1>5 DEF BriefAnnounced
    <2> QED
      BY <2>1, <2>2, <2>3 DEF BriefAnnounced, Ids, Key
  <1>10. EmailedMeansAccepted'
    BY <1>1, <1>2, <1>3 DEF EmailedMeansAccepted, mailVars
  <1>11. RowsOK'
    <2>1. nextId' = nextId /\ failedOnce' = failedOnce
      BY <1>1 DEF histVars
    <2>2. \A d \in digests' : d.id < nextId
      BY <1>1, <1>2, <1>3 DEF RowsOK
    <2>3. \A d, e \in digests' : d.id = e.id => d = e
      BY <1>1, <1>2, <1>3 DEF RowsOK, Ids
    <2>4. \A d \in digests' : d.status # "pending" /\ (d.status = "failed" => Key(d) \in failedOnce)
      BY <1>2, <1>3 DEF RowsOK
    <2>5. \A n \in notifications' : n.born < nextId
      BY <1>1, <1>2, <1>4, <1>5 DEF RowsOK
    <2> QED
      BY <2>1, <2>2, <2>3, <2>4, <2>5 DEF RowsOK, Key
  <1>12. /\ CallOK(r)'
         /\ \A s \in Runners \ {r} : CallsOK(r, s)' /\ CallsOK(s, r)'
         /\ \A s \in Runners \ {r} : run'[s] = run[s]
    <2>1. \A s \in Runners : Inserting(s) => run[s].new \in Nat
      BY DEF CallOK
    <2> QED
      BY <1>2, <2>1, FreshCall DEF TypeOK
  <1>13. ASSUME NEW s \in Runners \ {r} PROVE CallOK(s)'
    <2>1. /\ run'[s] = run[s] /\ nextId' = nextId /\ failedOnce' = failedOnce
          /\ (Deleting(s)' <=> Deleting(s)) /\ (Inserting(s)' <=> Inserting(s))
      BY <1>1, <1>12 DEF Deleting, Inserting, histVars
    <2>2. \A d \in digests' : d.id = run[s].old /\ run[s].old # Null => d \in digests
      BY <1>1, <1>2, <1>3 DEF CallsOK
    <2>3. Deleting(s) => run[s].old \in Ids(digests')
      <3>1. Deleting(s) => run[s].old # Null /\ run[s].old \in Ids(digests)
        BY DEF CallOK, Deleting
      <3>2. Deleting(s) => run[s].old # old
        BY <3>1, <1>1 DEF CallsOK, Deleting
      <3> QED
        BY <3>1, <3>2, <1>6
    <2>4. Inserting(s) =>
            /\ run[s].new \notin Ids(digests')
            /\ \A n \in notifications' : n.born # run[s].new
            /\ \A d \in digests' : Key(d) = Key(run[s]) => d.id = run[s].old
      <3> SUFFICES ASSUME Inserting(s)
                   PROVE  /\ run[s].new \notin Ids(digests')
                          /\ \A n \in notifications' : n.born # run[s].new
                          /\ \A d \in digests' : Key(d) = Key(run[s]) => d.id = run[s].old
        OBVIOUS
      <3>1. run[s].new # new /\ Key(run[s]) # Key(run[r])
        BY <1>1 DEF CallsOK
      <3>2. /\ run[s].new \notin Ids(digests)
            /\ \A n \in notifications : n.born # run[s].new
            /\ \A d \in digests : Key(d) = Key(run[s]) => d.id = run[s].old
        BY DEF CallOK, KeyTaken, RowsOf
      <3> QED
        BY <3>1, <3>2, <1>2, <1>3, <1>4, <1>5, <1>6
    <2>5. ~KeyTaken(s) /\ Inserting(s) => ~KeyTaken(s)'
      BY <2>1, <2>4 DEF KeyTaken, RowsOf, Key
    <2> QED
      BY <2>1, <2>2, <2>3, <2>4, <2>5 DEF CallOK, Ids, Key
  <1>14. ASSUME NEW s \in Runners, NEW t \in Runners, s # t PROVE CallsOK(s, t)'
    <2>1. CASE s # r /\ t # r
      BY <1>12, <1>14, <2>1 DEF CallsOK, Deleting, Inserting, Key
    <2>2. CASE s = r \/ t = r
      BY <1>12, <1>14, <2>2
    <2> QED
      BY <2>1, <2>2
  <1>15. /\ \A s \in Runners : queue'[s] # {} => fired'[s] \in Days
         /\ \A m \in Mailers : SendOK(m)'
    BY <1>1 DEF clockVars, mailVars, SendOK
  <1> QED
    BY <1>7, <1>8, <1>9, <1>10, <1>11, <1>12, <1>13, <1>14, <1>15

\* A step of the clock or of a mailer that leaves the tables and the calls
\* alone preserves IInv when it preserves the conjunct of the mailers.
LEMMA MailerQuiet ==
  ASSUME IInv, TypeOK',
         UNCHANGED <<storeVars, fired, queue, run, nextId, failedOnce>>,
         accepted \subseteq accepted',
         \A m \in Mailers : SendOK(m)'
  PROVE  IInv'
  <1> USE DEF IInv
  <1>1. UniqueBrief' /\ BriefAnnounced' /\ EmailedMeansAccepted' /\ RowsOK'
    BY TablesUnchanged DEF TypeOK
  <1>2. ASSUME NEW s \in Runners PROVE CallOK(s)'
    BY CallUnchanged DEF TypeOK
  <1>3. ASSUME NEW s \in Runners, NEW t \in Runners, s # t PROVE CallsOK(s, t)'
    BY <1>3 DEF CallsOK, Deleting, Inserting, Key
  <1> QED
    BY <1>1, <1>2, <1>3

\* Midnight, the hand-over of a payload, the SMTP exchange, a dead worker.
LEMMA QuietStepsIInv ==
  ASSUME IInv,
         NextDay \/ \E m \in Mailers :
           BeginSend(m) \/ SmtpAccepts(m) \/ SmtpFails(m) \/ MailerCrash(m)
  PROVE  IInv'
  <1> USE DEF IInv
  <1>1. CASE NextDay
    <2>1. TypeOK'
      BY <1>1, BriefAssumption
      DEF NextDay, TypeOK, storeVars, mailVars, histVars, Days
    <2>2. \A m \in Mailers : SendOK(m)'
      BY <1>1 DEF NextDay, mailVars, SendOK
    <2> QED
      BY <1>1, <2>1, <2>2, MailerQuiet DEF NextDay, mailVars, histVars
  <1>2. ASSUME NEW m \in Mailers, BeginSend(m) PROVE IInv'
    <2>1. PICK d \in digests :
            mail' = [mail EXCEPT ![m] = [pc |-> "smtp", id |-> d.id, msg |-> nextMsg]]
      BY <1>2 DEF BeginSend
    <2>2. d.id \in Nat /\ nextMsg \in Nat
      BY DEF TypeOK, Digest
    <2>3. mail' \in [Mailers -> MailState]
      BY <2>1, <2>2 DEF TypeOK, MailState
    <2>4. TypeOK'
      BY <1>2, <2>3 DEF BeginSend, TypeOK, clockVars, storeVars, histVars
    <2>5. \A n \in Mailers : SendOK(n)'
      BY <1>2, <2>1, <2>2 DEF BeginSend, SendOK, TypeOK
    <2> QED
      BY <1>2, <2>4, <2>5, MailerQuiet DEF BeginSend, clockVars, histVars
  <1>3. ASSUME NEW m \in Mailers, SmtpAccepts(m) \/ SmtpFails(m) PROVE IInv'
    <2>1. mail[m].id \in Nat /\ mail[m].msg \in Nat
      BY <1>3 DEF SmtpAccepts, SmtpFails, SendOK
    <2>2. /\ accepted \subseteq accepted'
          /\ accepted' \subseteq Nat \X Nat
      BY <1>3, <2>1 DEF SmtpAccepts, SmtpFails, TypeOK
    <2>3. mail' \in [Mailers -> MailState]
      BY <1>3 DEF SmtpAccepts, SmtpFails, TypeOK, MailState
    <2>4. TypeOK'
      BY <1>3, <2>2, <2>3
      DEF SmtpAccepts, SmtpFails, TypeOK, clockVars, storeVars, histVars
    <2>5. ASSUME NEW n \in Mailers PROVE SendOK(n)'
      <3>1. CASE n # m
        BY <1>3, <2>2, <3>1 DEF SmtpAccepts, SmtpFails, SendOK, TypeOK
      <3>2. /\ mail'[m].id = mail[m].id /\ mail'[m].msg = mail[m].msg
            /\ mail'[m].pc = "emailed" => <<mail[m].id, mail[m].msg>> \in accepted'
        BY <1>3 DEF SmtpAccepts, SmtpFails, TypeOK, MailState
      <3>3. CASE n = m
        BY <2>1, <3>2, <3>3 DEF SendOK
      <3> QED
        BY <3>1, <3>3
    <2> QED
      BY <1>3, <2>2, <2>4, <2>5, MailerQuiet
      DEF SmtpAccepts, SmtpFails, clockVars, histVars
  <1>4. ASSUME NEW m \in Mailers, MailerCrash(m) PROVE IInv'
    <2>1. TypeOK'
      BY <1>4, IdleMailType DEF MailerCrash, TypeOK, clockVars, storeVars
    <2>2. \A n \in Mailers : SendOK(n)'
      BY <1>4 DEF MailerCrash, SendOK, TypeOK, IdleMail
    <2> QED
      BY <1>4, <2>1, <2>2, MailerQuiet DEF MailerCrash, clockVars
  <1> QED
    BY <1>1, <1>2, <1>3, <1>4

\* UPDATE touches status and message id of one row, and waits for whoever is
\* deleting it.
LEMMA UpdateDeliveryIInv ==
  ASSUME NEW m \in Mailers, IInv, UpdateDelivery(m) PROVE IInv'
  <1> USE DEF IInv
  <1> DEFINE id == mail[m].id
             status == mail[m].pc
             msg == IF status = "emailed" THEN mail[m].msg ELSE Null
             upd(d) == IF d.id = id THEN [d EXCEPT !.status = status, !.msg = msg] ELSE d
  <1>1. /\ UNCHANGED <<clockVars, notifications, queue, run, accepted, nextMsg,
                       nextId, faults, missed>>
        /\ status \in {"emailed", "failed"}
        /\ id \in Nat /\ mail[m].msg \in Nat
        /\ status = "emailed" => <<id, mail[m].msg>> \in accepted
        /\ digests' = {upd(d) : d \in digests}
        /\ mail' = [mail EXCEPT ![m] = IdleMail]
        /\ failedOnce \subseteq failedOnce'
        /\ status = "failed" => \A d \in digests : d.id = id => Key(d) \in failedOnce'
    BY DEF UpdateDelivery, SendOK
  <1>2. ASSUME NEW d \in digests
        PROVE  /\ upd(d) \in Digest
               /\ upd(d).id = d.id /\ Key(upd(d)) = Key(d)
               /\ upd(d).status = IF d.id = id THEN status ELSE d.status
               /\ upd(d).msg = IF d.id = id THEN msg ELSE d.msg
    BY <1>1 DEF TypeOK, Digest, Status, Key
  <1> HIDE DEF upd, msg, status, id
  <1>3. Ids(digests') = Ids(digests)
    BY <1>1, <1>2 DEF Ids
  <1>4. TypeOK'
    <2>1. digests' \subseteq Digest
      BY <1>1, <1>2
    <2>2. failedOnce' \subseteq Users \X Days
      <3>1. \A d \in digests : Key(d) \in Users \X Days
        BY DEF TypeOK, Digest, Key
      <3>2. failedOnce \subseteq Users \X Days
        BY DEF TypeOK
      <3>3. failedOnce' \subseteq failedOnce \cup {Key(d) : d \in digests}
        BY DEF UpdateDelivery
      <3> QED
        BY <3>1, <3>2, <3>3
    <2>3. mail' \in [Mailers -> MailState]
      BY <1>1, IdleMailType DEF TypeOK
    <2> QED
      BY <1>1, <2>1, <2>2, <2>3 DEF TypeOK, clockVars
  <1>5. UniqueBrief'
    BY <1>1, <1>2 DEF UniqueBrief, Key
  <1>6. BriefAnnounced'
    <2>1. ASSUME NEW d \in digests'
          PROVE  \E n \in notifications' : n.digest = d.id /\ Key(n) = Key(d)
      BY <1>1, <1>2 DEF BriefAnnounced
    <2> QED
      BY <1>1, <1>3, <2>1 DEF BriefAnnounced, Key
  <1>7. EmailedMeansAccepted'
    <2>1. ASSUME NEW d \in digests
          PROVE  IF upd(d).status = "emailed" THEN <<upd(d).id, upd(d).msg>> \in accepted
                                            ELSE upd(d).msg = Null
      <3>1. CASE d.id = id
        BY <3>1, <1>1, <1>2 DEF msg
      <3>2. CASE d.id # id
        BY <3>2, <1>2 DEF EmailedMeansAccepted
      <3> QED
        BY <3>1, <3>2
    <2> QED
      BY <1>1, <2>1 DEF EmailedMeansAccepted
  <1>8. RowsOK'
    <2>1. \A d, e \in digests' : d.id = e.id => d = e
      BY <1>1, <1>2 DEF RowsOK
    <2>2. \A d \in digests' : d.id < nextId /\ d.status # "pending"
      BY <1>1, <1>2 DEF RowsOK
    <2>3. \A d \in digests' : d.status = "failed" => Key(d) \in failedOnce'
      BY <1>1, <1>2 DEF RowsOK
    <2> QED
      BY <1>1, <2>1, <2>2, <2>3 DEF RowsOK, Key
  <1>9. ASSUME NEW s \in Runners PROVE CallOK(s)'
    <2>1. /\ run' = run /\ nextId' = nextId /\ notifications' = notifications
          /\ (Deleting(s)' <=> Deleting(s)) /\ (Inserting(s)' <=> Inserting(s))
      BY <1>1 DEF Deleting, Inserting
    <2>2. ~KeyTaken(s) => ~KeyTaken(s)'
      BY <1>1, <1>2, <2>1 DEF KeyTaken, RowsOf, Key
    <2>3. run[s].old # Null =>
            \A d \in digests' : d.id = run[s].old => Key(d) = Key(run[s])
      BY <1>1, <1>2 DEF CallOK
    <2> QED
      BY <1>1, <1>3, <2>1, <2>2, <2>3 DEF CallOK, Key, Ids
  <1>10. \A s, t \in Runners : s # t => CallsOK(s, t)'
    BY <1>1 DEF CallsOK, Deleting, Inserting, Key
  <1>11. /\ \A s \in Runners : queue'[s] # {} => fired'[s] \in Days
         /\ \A n \in Mailers : SendOK(n)'
    BY <1>1 DEF clockVars, SendOK, TypeOK, IdleMail
  <1> QED
    BY <1>4, <1>5, <1>6, <1>7, <1>8, <1>9, <1>10, <1>11

\* IInv is inductive.
LEMMA NextIInv == IInv /\ [Next]_vars => IInv'
  <1> SUFFICES ASSUME IInv, [Next]_vars PROVE IInv'
    OBVIOUS
  <1>1. CASE UNCHANGED vars
    <2>1. UNCHANGED <<storeVars, mailVars, today, fired, queue, run, nextId,
                      faults, missed, failedOnce>>
      BY <1>1 DEF vars, clockVars, histVars
    <2>2. TypeOK' /\ \A m \in Mailers : SendOK(m)'
      BY <2>1 DEF IInv, TypeOK, SendOK, storeVars, mailVars
    <2> QED
      BY <2>1, <2>2, MailerQuiet DEF mailVars
  <1>2. CASE NextDay
    BY <1>2, QuietStepsIInv
  <1>3. ASSUME NEW r \in Runners, RunnerStep(r) PROVE IInv'
    BY <1>3, DailyTickIInv, StartIInv, FaultIInv, SelectExistingIInv,
       DeleteExistingIInv, InsertDigestIInv, CommitDigestIInv
    DEF RunnerStep, GenerateStep
  <1>4. ASSUME NEW m \in Mailers, MailerStep(m) PROVE IInv'
    BY <1>4, QuietStepsIInv, UpdateDeliveryIInv DEF MailerStep
  <1> QED
    BY <1>1, <1>2, <1>3, <1>4 DEF Next

\* Every reachable state satisfies the inductive invariant.
THEOREM SpecIInv == Spec => []IInv
  BY InitIInv, NextIInv, PTL DEF Spec

\* Type correctness.
THEOREM SpecTypeOK == Spec => []TypeOK
  <1>1. IInv => TypeOK
    BY DEF IInv
  <1> QED
    BY <1>1, SpecIInv, PTL

\* At most one digest per user and date.
THEOREM SpecUniqueBrief == Spec => []UniqueBrief
  <1>1. IInv => UniqueBrief
    BY DEF IInv
  <1> QED
    BY <1>1, SpecIInv, PTL

\* Every digest is announced by exactly one notification, no link dangles.
THEOREM SpecBriefAnnounced == Spec => []BriefAnnounced
  <1>1. IInv => BriefAnnounced
    BY DEF IInv
  <1> QED
    BY <1>1, SpecIInv, PTL

\* A row says `emailed` only for a message that SMTP took for this digest.
THEOREM SpecEmailedMeansAccepted == Spec => []EmailedMeansAccepted
  <1>1. IInv => EmailedMeansAccepted
    BY DEF IInv
  <1> QED
    BY <1>1, SpecIInv, PTL

\* Only a COMMIT of generate_digest and update_digest_delivery write table
\* digests.
LEMMA DigestWriters ==
  ASSUME [Next]_vars, digests' # digests
  PROVE  \/ \E r \in Runners : CommitDigest(r)
         \/ \E m \in Mailers : UpdateDelivery(m)
  BY DEF Next, vars, storeVars, RunnerStep, GenerateStep, MailerStep, NextDay,
         DailyTick, ServeUser, RunForUser, SelectExisting, DeleteExisting,
         InsertDigest, RunRaises, Crash, BeginSend, SmtpAccepts, SmtpFails,
         MailerCrash

\* A delivery update keeps every row, its id and its key.
LEMMA UpdateKeepsRows ==
  ASSUME NEW m \in Mailers, UpdateDelivery(m), IInv, NEW d \in digests
  PROVE  \E e \in digests' : e.id = d.id /\ Key(e) = Key(d)
  <1> DEFINE msg == IF mail[m].pc = "emailed" THEN mail[m].msg ELSE Null
             e == IF d.id = mail[m].id
                    THEN [d EXCEPT !.status = mail[m].pc, !.msg = msg] ELSE d
  <1>1. e \in digests'
    BY DEF UpdateDelivery
  <1>2. d \in Digest
    BY DEF IInv, TypeOK
  <1>3. e.id = d.id /\ Key(e) = Key(d)
    BY <1>2 DEF Digest, Key
  <1> QED
    BY <1>1, <1>3

\* A commit removes at most the row it replaces: same key, once failed.
LEMMA CommitReplaces ==
  ASSUME NEW r \in Runners, CommitDigest(r), IInv, NEW d \in digests
  PROVE  \/ d \in digests'
         \/ /\ d.id \notin Ids(digests') /\ Key(d) \in failedOnce
            /\ NewDigest(r) \in digests' /\ Key(NewDigest(r)) = Key(d)
  <1>1. CASE d.id # run[r].old
    BY <1>1 DEF CommitDigest
  <1>2. CASE d.id = run[r].old
    <2>1. /\ d.id \in Nat
          /\ run[r].new \notin Ids(digests)
          /\ Key(d) = Key(run[r]) /\ Key(run[r]) \in failedOnce
      BY <1>2, BriefAssumption
      DEF IInv, TypeOK, Digest, CallOK, CommitDigest, Inserting
    <2>2. Key(NewDigest(r)) = Key(run[r]) /\ NewDigest(r).id = run[r].new
      BY DEF NewDigest, Key
    <2>3. d.id \notin Ids(digests')
      BY <1>2, <2>1, <2>2 DEF CommitDigest, Ids
    <2> QED
      BY <2>1, <2>2, <2>3 DEF CommitDigest
  <1> QED
    BY <1>1, <1>2

\* A brief a user could read never disappears.
THEOREM SpecBriefNeverVanishes == Spec => BriefNeverVanishes
  <1>1. ASSUME IInv, [Next]_vars
        PROVE  [\A d \in digests : \E e \in digests' : Key(e) = Key(d)]_vars
    BY <1>1, DigestWriters, UpdateKeepsRows, CommitReplaces
  <1> QED
    BY <1>1, SpecIInv, PTL DEF Spec, BriefNeverVanishes

\* A row is replaced only for a user and date whose delivery once failed.
THEOREM SpecReplacedOnlyAfterFailure == Spec => ReplacedOnlyAfterFailure
  <1>1. ASSUME IInv, [Next]_vars
        PROVE  [\A d \in digests :
                  d.id \notin Ids(digests') => Key(d) \in failedOnce]_vars
    <2>1. ASSUME NEW d \in digests, d.id \notin Ids(digests')
          PROVE  Key(d) \in failedOnce
      <3>1. digests' # digests
        BY <2>1 DEF Ids
      <3>2. CASE \E r \in Runners : CommitDigest(r)
        BY <1>1, <2>1, <3>2, CommitReplaces DEF Ids
      <3>3. CASE \E m \in Mailers : UpdateDelivery(m)
        BY <1>1, <2>1, <3>3, UpdateKeepsRows DEF Ids
      <3> QED
        BY <1>1, <3>1, <3>2, <3>3, DigestWriters
    <2> QED
      BY <2>1
  <1> QED
    BY <1>1, SpecIInv, PTL DEF Spec, ReplacedOnlyAfterFailure

-----------------------------------------------------------------------------
(***************************************************************************)
(* Brief implements BriefContract for every value of the constants: a      *)
(* COMMIT of generate_digest is Publish, an UPDATE that finds its row is   *)
(* Record, and every other step stutters.                                  *)
(***************************************************************************)

\* The alerts of a key can be counted.
LEMMA AlertsFinite ==
  ASSUME IInv, NEW k
  PROVE  IsFiniteSet(AlertsOf(k))
  <1>1. AlertsOf(k) \subseteq 0 .. nextId
    BY DEF IInv, TypeOK, RowsOK, AlertsOf, Notification
  <1>2. IsFiniteSet(0 .. nextId)
    BY FS_Interval DEF IInv, TypeOK
  <1> QED
    BY <1>1, <1>2, FS_Subset

\* The status a user sees is that of the one row of the key.
LEMMA StatusOfRow ==
  ASSUME UniqueBrief, NEW d \in digests
  PROVE  StatusOf(Key(d)) = d.status
  <1>1. RowsOf(Key(d)) = {d}
    BY DEF UniqueBrief, RowsOf
  <1> QED
    BY <1>1 DEF StatusOf

\* The tables start empty, as the contract does.
LEMMA InitRefines == Init => Contract!Init
  <1> SUFFICES ASSUME Init PROVE Contract!Init
    OBVIOUS
  <1>1. \A k : RowsOf(k) = {} /\ AlertsOf(k) = {}
    BY DEF Init, RowsOf, AlertsOf
  <1>2. \A k \in Keys : StatusOf(k) = "none" /\ Cardinality(AlertsOf(k)) = 0
    BY <1>1, FS_EmptySet DEF StatusOf
  <1> QED
    BY <1>2 DEF Contract!Init, Init

\* Only a COMMIT and a delivery update change what the contract speaks of.
LEMMA ContractWriters ==
  ASSUME [Next]_vars,
         ~ \E r \in Runners : CommitDigest(r),
         ~ \E m \in Mailers : UpdateDelivery(m)
  PROVE  UNCHANGED <<storeVars, failedOnce>>
  BY DEF Next, vars, histVars, RunnerStep, GenerateStep, MailerStep, NextDay,
         DailyTick, ServeUser, RunForUser, SelectExisting, DeleteExisting,
         InsertDigest, RunRaises, Crash, BeginSend, SmtpAccepts, SmtpFails,
         MailerCrash

\* A step that changes neither table is a stuttering step of the contract.
LEMMA StutterRefines ==
  ASSUME UNCHANGED <<storeVars, failedOnce>>
  PROVE  UNCHANGED Contract!contractVars
  <1>1. ASSUME NEW k \in Keys
        PROVE  /\ StatusOf(k)' = StatusOf(k)
               /\ Cardinality(AlertsOf(k))' = Cardinality(AlertsOf(k))
    <2>1. RowsOf(k)' = RowsOf(k) /\ AlertsOf(k)' = AlertsOf(k)
      BY DEF storeVars, RowsOf, AlertsOf
    <2>2. StatusOf(k)' = StatusOf(k)
      BY <2>1 DEF StatusOf
    <2> QED
      BY <2>1, <2>2
  <1> QED
    BY <1>1 DEF Contract!contractVars, Keys, Days

\* A COMMIT publishes the brief of its key, with one more alert.
LEMMA CommitRefines ==
  ASSUME NEW r \in Runners, CommitDigest(r), IInv, IInv'
  PROVE  Contract!Next
  <1> DEFINE new == NewDigest(r)
  <1>0. PICK key : key = Key(run[r])
    OBVIOUS
  <1>1. /\ run[r].user \in Users /\ run[r].day \in Days
        /\ run[r].new \in Nat /\ run[r].new \notin Ids(digests)
        /\ \A n \in notifications : n.born # run[r].new
        /\ \A d \in RowsOf(key) : d.id = run[r].old
        /\ run[r].old # Null => key \in failedOnce
        /\ \A d \in digests : d.id = run[r].old => Key(d) = key
        /\ failedOnce' = failedOnce
    <2>1. run[r].pc = "commit" /\ CallOK(r) /\ failedOnce' = failedOnce
      BY DEF IInv, CommitDigest, histVars
    <2>2. digests \subseteq Digest /\ nextId \in Nat /\ run[r] \in RunState
      BY DEF IInv, TypeOK
    <2>3. \A d \in RowsOf(key) : d.id = run[r].old
      BY <1>0, <2>1 DEF CallOK, Inserting, KeyTaken
    <2>4. /\ run[r].user \in Users /\ run[r].day \in Days
          /\ run[r].new \in Nat /\ run[r].new \notin Ids(digests)
          /\ \A n \in notifications : n.born # run[r].new
      BY <2>1 DEF CallOK, Inserting
    <2>5. /\ run[r].old # Null => key \in failedOnce
          /\ \A d \in digests : d.id = run[r].old => Key(d) = key
      <3>1. \A d \in digests : d.id # Null
        BY <2>2, BriefAssumption DEF Digest
      <3> QED
        BY <1>0, <2>1, <3>1 DEF CallOK
    <2> QED
      BY <2>1, <2>3, <2>4, <2>5
  <1>2. key \in Keys
    BY <1>0, <1>1 DEF Keys, Key
  <1>3. Key(new) = key /\ new.status = "notified" /\ Key(BriefReady(r)) = key
        /\ BriefReady(r).born = run[r].new
    BY <1>0 DEF NewDigest, BriefReady, Key
  <1>4. StatusOf(key)' = "notified"
    <2>1. new \in digests' /\ UniqueBrief'
      BY DEF CommitDigest, IInv
    <2>2. RowsOf(key)' = {new}
      BY <2>1, <1>3 DEF RowsOf, UniqueBrief, Key
    <2> QED
      BY <2>2, <1>3 DEF StatusOf
  <1>5. StatusOf(key) = "none" \/ key \in failedOnce
    <2>1. CASE RowsOf(key) = {}
      BY <2>1 DEF StatusOf
    <2>2. ASSUME NEW d \in RowsOf(key) PROVE key \in failedOnce
      <3>1. d.id \in Nat /\ d.id = run[r].old
        BY <1>1 DEF RowsOf, IInv, TypeOK, Digest
      <3> QED
        BY <3>1, <1>1, BriefAssumption
    <2> QED
      BY <2>1, <2>2
  <1>6. ASSUME NEW k \in Keys, k # key PROVE StatusOf(k)' = StatusOf(k)
    <2>1. RowsOf(k)' = RowsOf(k)
      BY <1>1, <1>3, <1>6 DEF RowsOf, CommitDigest
    <2> QED
      BY <2>1 DEF StatusOf
  <1>7. ASSUME NEW k
        PROVE  AlertsOf(k)' = AlertsOf(k) \cup (IF k = key THEN {run[r].new} ELSE {})
    <2>1. ASSUME NEW n \in notifications
          PROVE  /\ Key(SetNull(n, run[r].old)) = Key(n)
                 /\ SetNull(n, run[r].old).born = n.born
      BY DEF IInv, TypeOK, Notification, SetNull, Key
    <2>2. notifications' =
            {SetNull(n, run[r].old) : n \in notifications} \cup {BriefReady(r)}
      BY DEF CommitDigest
    <2>3. ASSUME NEW b \in AlertsOf(k)'
          PROVE  b \in AlertsOf(k) \cup (IF k = key THEN {run[r].new} ELSE {})
      <3>1. PICK o \in notifications' : Key(o) = k /\ o.born = b
        BY <2>3 DEF AlertsOf, Key
      <3> QED
        BY <3>1, <2>1, <2>2, <1>3 DEF AlertsOf
    <2>4. ASSUME NEW b \in AlertsOf(k) PROVE b \in AlertsOf(k)'
      <3>1. PICK n \in notifications : Key(n) = k /\ n.born = b
        BY <2>4 DEF AlertsOf
      <3>2. SetNull(n, run[r].old) \in notifications'
        BY <2>2
      <3> QED
        BY <3>1, <3>2, <2>1 DEF AlertsOf, Key
    <2>5. k = key => run[r].new \in AlertsOf(k)'
      BY <2>2, <1>3 DEF AlertsOf, Key
    <2> QED
      BY <2>3, <2>4, <2>5
  <1>8. Cardinality(AlertsOf(key))' = Cardinality(AlertsOf(key)) + 1
    <2>1. run[r].new \notin AlertsOf(key)
      BY <1>1 DEF AlertsOf
    <2> QED
      BY <2>1, <1>7, AlertsFinite, FS_AddElement
  <1>9. ASSUME NEW k \in Keys, k # key
        PROVE  Cardinality(AlertsOf(k))' = Cardinality(AlertsOf(k))
    BY <1>7, <1>9
  <1>10. Contract!Publish(key)
    <2>1. Keys' = Keys
      BY DEF Keys, Days
    <2> HIDE DEF new
    <2> QED
      BY <2>1, <1>1, <1>2, <1>4, <1>5, <1>6, <1>8, <1>9 DEF Contract!Publish
  <1> QED
    BY <1>2, <1>10 DEF Contract!Next

\* A delivery update records its outcome, or finds no row and changes nothing.
LEMMA UpdateRefines ==
  ASSUME NEW m \in Mailers, UpdateDelivery(m), IInv, IInv'
  PROVE  Contract!Next \/ UNCHANGED Contract!contractVars
  <1> DEFINE id == mail[m].id
             status == mail[m].pc
             msg == IF status = "emailed" THEN mail[m].msg ELSE Null
             upd(d) == IF d.id = id THEN [d EXCEPT !.status = status, !.msg = msg] ELSE d
  <1>1. /\ status \in {"emailed", "failed"}
        /\ digests' = {upd(d) : d \in digests}
        /\ notifications' = notifications
        /\ failedOnce' = IF status = "failed"
                           THEN failedOnce \cup {Key(d) : d \in {e \in digests : e.id = id}}
                           ELSE failedOnce
    BY DEF UpdateDelivery
  <1>2. ASSUME NEW d \in digests
        PROVE  /\ Key(upd(d)) = Key(d) /\ upd(d) \in digests'
               /\ upd(d).status = IF d.id = id THEN status ELSE d.status
               /\ d.id # id => upd(d) = d
    BY <1>1 DEF IInv, TypeOK, Digest, Key
  <1>3. UniqueBrief /\ UniqueBrief' /\ \A d, e \in digests : d.id = e.id => d = e
    BY DEF IInv, RowsOK
  <1> HIDE DEF upd, msg, status, id
  <1>4. ASSUME NEW k PROVE AlertsOf(k)' = AlertsOf(k)
    BY <1>1 DEF AlertsOf
  <1>5. CASE id \notin Ids(digests)
    <2>1. \A d \in digests : upd(d) = d
      BY <1>2, <1>5 DEF Ids
    <2>2. digests' = digests
      BY <2>1, <1>1
    <2>3. failedOnce' = failedOnce
      BY <1>1, <1>5 DEF Ids
    <2> QED
      BY <1>1, <2>2, <2>3, StutterRefines DEF storeVars
  <1>6. ASSUME NEW d \in digests, d.id = id PROVE Contract!Next
    <2> DEFINE key == Key(d)
    <2>1. key \in Keys
      BY DEF IInv, TypeOK, Digest, Keys, Key
    <2>2. StatusOf(key) = d.status /\ d.status # "none"
      BY <1>3, StatusOfRow DEF IInv, TypeOK, Digest, Status
    <2>3. StatusOf(key)' = status
      <3>1. upd(d) \in digests' /\ Key(upd(d)) = key /\ upd(d).status = status
        BY <1>2, <1>6
      <3>2. RowsOf(key)' = {upd(d)}
        BY <3>1, <1>3 DEF RowsOf, UniqueBrief, Key
      <3> QED
        BY <3>1, <3>2 DEF StatusOf
    <2>4. ASSUME NEW k \in Keys, k # key PROVE StatusOf(k)' = StatusOf(k)
      <3>1. \A e \in digests : Key(e) = k => upd(e) = e /\ e.id # id
        BY <1>2, <1>3, <1>6, <2>4
      <3>2. RowsOf(k)' = RowsOf(k)
        BY <3>1, <1>1, <1>2 DEF RowsOf, Key
      <3> QED
        BY <3>2 DEF StatusOf
    <2>5. {Key(e) : e \in {e \in digests : e.id = id}} = {key}
      BY <1>3, <1>6
    <2>6. failedOnce' = IF status = "failed" THEN failedOnce \cup {key} ELSE failedOnce
      BY <1>1, <2>5
    <2>7. \A k \in Keys : Cardinality(AlertsOf(k))' = Cardinality(AlertsOf(k))
      BY <1>4
    <2>8. Keys' = Keys
      BY DEF Keys, Days
    <2> HIDE DEF key
    <2>9. Contract!Record(key, status)
      BY <2>1, <2>2, <2>3, <2>4, <2>6, <2>7, <2>8 DEF Contract!Record
    <2> QED
      BY <1>1, <2>1, <2>9 DEF Contract!Next
  <1> QED
    BY <1>5, <1>6 DEF Ids

\* Every step is a step of the contract or a stutter.
LEMMA StepRefines ==
  ASSUME IInv, IInv', [Next]_vars
  PROVE  [Contract!Next]_(Contract!contractVars)
  <1>1. CASE \E r \in Runners : CommitDigest(r)
    BY <1>1, CommitRefines
  <1>2. CASE \E m \in Mailers : UpdateDelivery(m)
    BY <1>2, UpdateRefines
  <1>3. CASE /\ ~ \E r \in Runners : CommitDigest(r)
             /\ ~ \E m \in Mailers : UpdateDelivery(m)
    BY <1>3, ContractWriters, StutterRefines
  <1> QED
    BY <1>1, <1>2, <1>3

\* Every behaviour of the pipeline is one the contract allows: each brief
\* appears with its own alert, stays, and is written anew only after a failed
\* delivery.
THEOREM SpecImplementsContract == Spec => ImplementsContract
  <1>1. IInv /\ IInv' /\ [Next]_vars => [Contract!Next]_(Contract!contractVars)
    BY StepRefines
  <1> QED
    BY <1>1, InitRefines, SpecIInv, PTL DEF Spec, ImplementsContract, Contract!Spec

=============================================================================
