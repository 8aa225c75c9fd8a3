------------------------------- MODULE Scorer -------------------------------
(***************************************************************************)
(* The lazy article scorer (services/scorer.py): every listing or view of  *)
(* an article (routers/articles.py) starts one background task per stale   *)
(* article; a task takes a connection of the pool (db/database.py), loads  *)
(* the row, waits for one of SCORE_SEMAPHORE's slots, asks the model and   *)
(* writes the row.  Several tasks may work on one article at once.         *)
(***************************************************************************)
EXTENDS Integers, FiniteSets, Functions

CONSTANTS
  Articles,     \* articles of the library
  Tasks,        \* background tasks there may be at one time
  Scores,       \* answers of the model, in hundredths
  Slots,        \* SCORE_SEMAPHORE: 5 in the code
  PoolSize,     \* pool_size + max_overflow: 30 in the code
  Staleness,    \* ticks for which a score is fresh: 24 hours in the code
  MaxTime,      \* bound on the clock
  Deleted, Null, Idle

\* A row of `articles` as far as scoring goes, and a task under way.
Tiers == {"must_read", "recommended", "worth_a_look", "low_priority"}
Rows == [score : 0..100 \cup {Null}, tier : Tiers \cup {Null}, at : Nat \cup {Null}]
TaskStates == [pc : {"connect", "acquire", "call", "save"}, article : Articles, loaded : Rows,
               score : 0..100, overtaken : BOOLEAN]

ASSUME ScorerAssumption ==
  /\ {Slots, PoolSize, Staleness} \subseteq Nat \ {0}
  /\ Scores \subseteq 0..100
  /\ Null \notin Nat /\ Deleted \notin Rows /\ Idle \notin TaskStates

VARIABLES
  table,   \* article -> its score, tier and scored_at, or Deleted
  task,    \* background task -> what it is at, or Idle
  slots,   \* slots of the semaphore that are free
  conns,   \* connections of the pool that are free
  mixed,   \* articles written by a task that overlapped another, see TierDrift
  now      \* clock

scorerVars == <<table, task, slots, conns, mixed, now>>

DEFAULT_SCORE == 50

TierOf(score) ==
  IF score >= 85 THEN "must_read"
  ELSE IF score >= 70 THEN "recommended"
  ELSE IF score >= 50 THEN "worth_a_look"
  ELSE "low_priority"

Unscored == [score |-> Null, tier |-> Null, at |-> Null]
Alive == {a \in Articles : table[a] # Deleted}

ScorerInit ==
  /\ table = [a \in Articles |-> Unscored]
  /\ task = [t \in Tasks |-> Idle]
  /\ slots = Slots
  /\ conns = PoolSize
  /\ mixed = {}
  /\ now = 0

IsStale(a) == table[a].at = Null \/ now - table[a].at > Staleness

IdleTasks == {t \in Tasks : task[t] = Idle}
Is(t, pc) == task[t] # Idle /\ task[t].pc = pc

\* GET /articles and GET /articles/{id}: by filter and page, any set of articles.
Listings == SUBSET Alive

\* ensure_fresh_scores: one task per stale article on the page that was read,
\* whether or not another task is at work on it.
Trigger ==
  /\ \E page \in Listings :
       LET stale == {a \in page : IsStale(a)} IN
       /\ stale # {}
       /\ \E start \in Injection(stale, IdleTasks) :
            task' = [t \in Tasks |->
              IF t \in Range(start)
              THEN [pc |-> "connect", article |-> CHOOSE a \in stale : start[a] = t,
                    loaded |-> Unscored, score |-> 0, overtaken |-> FALSE]
              ELSE task[t]]
  /\ UNCHANGED <<table, slots, conns, mixed, now>>

\* The session opens: session.get takes a connection, which the task keeps
\* until it is done.  There is nothing to do for an article that is gone, nor
\* when the SELECT fails.
Connect(t) ==
  /\ Is(t, "connect")
  /\ conns > 0
  /\ \/ /\ task' = [task EXCEPT ![t] = Idle]
        /\ UNCHANGED conns
     \/ /\ table[task[t].article] # Deleted
        /\ task' = [task EXCEPT ![t].pc = "acquire",
                                ![t].loaded = table[task[t].article]]
        /\ conns' = conns - 1
  /\ UNCHANGED <<table, slots, mixed, now>>

\* No connection within the pool's time-out: the task gives up with a warning.
PoolTimeout(t) ==
  /\ Is(t, "connect")
  /\ conns = 0
  /\ task' = [task EXCEPT ![t] = Idle]
  /\ UNCHANGED <<table, slots, conns, mixed, now>>

Acquire(t) ==
  /\ Is(t, "acquire")
  /\ slots > 0
  /\ slots' = slots - 1
  /\ task' = [task EXCEPT ![t].pc = "call"]
  /\ UNCHANGED <<table, conns, mixed, now>>

\* Mutant: a failed call leaves the semaphore without a release.
ScoredLeaking(t) ==
  /\ Is(t, "call")
  /\ \/ \E s \in Scores : task' = [task EXCEPT ![t].pc = "save", ![t].score = s]
        /\ slots' = slots + 1
     \/ /\ task' = [task EXCEPT ![t].pc = "save", ![t].score = DEFAULT_SCORE]
        /\ UNCHANGED slots
  /\ UNCHANGED <<table, conns, mixed, now>>
\* The model's answer, or the default when the call fails, the answer does
\* not parse or there is no key.
Scored(t) ==
  /\ Is(t, "call")
  /\ \E s \in Scores \cup {DEFAULT_SCORE} :
       task' = [task EXCEPT ![t].pc = "save", ![t].score = s]
  /\ slots' = slots + 1
  /\ UNCHANGED <<table, conns, mixed, now>>

\* Mutant: the tier is left to the reader.
UpdatedWithoutTier(row, loaded, score) ==
  [row EXCEPT !.score = IF score = loaded.score THEN @ ELSE score, !.at = now]
\* The UPDATE names the columns whose value differs from the loaded one.
Updated(row, loaded, score) ==
  [row EXCEPT !.score = IF score = loaded.score THEN @ ELSE score,
              !.tier  = IF TierOf(score) = loaded.tier THEN @ ELSE TierOf(score),
              !.at    = now]

\* Tasks that hold an older version of the row than the one now written.
Overtaken(a, t) == {k \in Tasks \ {t} : /\ task[k] # Idle
                                       /\ task[k].article = a
                                       /\ task[k].pc \in {"acquire", "call", "save"}}

\* Mutant: the connection of such a task is not given back.
SaveKeepingConnection(t) ==
  LET a == task[t].article IN
  /\ Is(t, "save")
  /\ IF table[a] = Deleted
     THEN UNCHANGED <<table, mixed, conns>>
     ELSE /\ table' = [table EXCEPT ![a] = Updated(@, task[t].loaded, task[t].score)]
          /\ conns' = conns + 1
          /\ UNCHANGED mixed
  /\ task' = [task EXCEPT ![t] = Idle]
  /\ UNCHANGED <<slots, now>>
\* Commit, and the session is closed.  The UPDATE of a deleted row raises
\* StaleDataError, which is only logged.
Save(t) ==
  LET a == task[t].article IN
  /\ Is(t, "save")
  /\ IF table[a] = Deleted
     THEN UNCHANGED <<table, mixed>>
     ELSE /\ table' = [table EXCEPT ![a] = Updated(@, task[t].loaded, task[t].score)]
          /\ mixed' = IF task[t].overtaken THEN mixed \cup {a} ELSE mixed \ {a}
  /\ task' = [k \in Tasks |-> CASE k = t -> Idle
                                [] k \in Overtaken(a, t) -> [task[k] EXCEPT !.overtaken = TRUE]
                                [] OTHER -> task[k]]
  /\ conns' = conns + 1
  /\ UNCHANGED <<slots, now>>

\* The commit fails with another error of the database, which is only logged.
SaveFails(t) ==
  /\ Is(t, "save")
  /\ task' = [task EXCEPT ![t] = Idle]
  /\ conns' = conns + 1
  /\ UNCHANGED <<table, slots, mixed, now>>

\* The process restarts: its tasks, semaphore and pool are new.
Restart ==
  /\ task' = [t \in Tasks |-> Idle]
  /\ slots' = Slots
  /\ conns' = PoolSize
  /\ UNCHANGED <<table, mixed, now>>

\* DELETE /articles/{id}.
DeleteRow(a) ==
  /\ a \in Alive
  /\ table' = [table EXCEPT ![a] = Deleted]
  /\ UNCHANGED <<task, slots, conns, mixed, now>>

ScorerTick ==
  /\ now < MaxTime
  /\ now' = now + 1
  /\ UNCHANGED <<table, task, slots, conns, mixed>>

TaskStep(t) ==
  Connect(t) \/ PoolTimeout(t) \/ Acquire(t) \/ Scored(t) \/ Save(t) \/ SaveFails(t)

ScorerNext ==
  \/ Trigger
  \/ \E t \in Tasks : TaskStep(t)
  \/ Restart
  \/ \E a \in Articles : DeleteRow(a)
  \/ ScorerTick

\* The event loop runs every task, the model's client has a time-out, and the
\* pool and the semaphore serve their waiters in order.
ScorerFairness ==
  \A t \in Tasks :
    /\ WF_scorerVars(Connect(t) \/ PoolTimeout(t) \/ Scored(t) \/ Save(t))
    /\ SF_scorerVars(Acquire(t))

ScorerSpec == ScorerInit /\ [][ScorerNext]_scorerVars /\ ScorerFairness

-----------------------------------------------------------------------------
\* Slots and connections are neither lost nor made: what is free and what the
\* tasks hold add up, after time-outs, failures and deleted articles too.
ResourcesBalanced ==
  /\ slots + Cardinality({t \in Tasks : Is(t, "call")}) = Slots
  /\ conns + Cardinality({t \in Tasks : task[t] # Idle /\ task[t].pc # "connect"}) = PoolSize

\* The tier of a row is the tier of its score unless the last task to write
\* it had been overtaken by another task on the same article.
TierDrift ==
  \A a \in Alive : \/ table[a].score = Null /\ table[a].tier = Null
                   \/ table[a].score # Null /\ table[a].tier = TierOf(table[a].score)
                   \/ a \in mixed

\* A task that was started ends, however many wait for connections and slots.
TasksFinish == \A t \in Tasks : task[t] # Idle ~> task[t] = Idle

=============================================================================
