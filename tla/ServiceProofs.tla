---------------------------- MODULE ServiceProofs ----------------------------
(***************************************************************************)
(* Proofs about what the API does around and behind its requests.  Scorer  *)
(* and Shares: the pool and the semaphore balance, the tier of an article  *)
(* drifts only by an overtaken task, and links, visits and the answers to  *)
(* visitors stay consistent with the articles.  RateLimit and Shell, for   *)
(* any number of handlers and requests: the limiter's window and its       *)
(* Retry-After, the shell's answers and their log records.                 *)
(***************************************************************************)
EXTENDS Shares, RateLimit, Shell, FiniteSetTheorems, TLAPS

-----------------------------------------------------------------------------
(* The scorer *)

ScorerTypeOK ==
  /\ table \in [Articles -> Rows \cup {Deleted}]
  /\ task \in [Tasks -> TaskStates \cup {Idle}]
  /\ slots \in Int /\ conns \in Int
  /\ mixed \subseteq Articles /\ now \in Nat

Calling == {t \in Tasks : Is(t, "call")}
Connected == {t \in Tasks : task[t] # Idle /\ task[t].pc # "connect"}

\* The sets that ResourcesBalanced counts are finite.
ResourcesOK ==
  /\ IsFiniteSet(Calling) /\ slots + Cardinality(Calling) = Slots
  /\ IsFiniteSet(Connected) /\ conns + Cardinality(Connected) = PoolSize

\* A task that nobody has overtaken has the row as it is.
LoadedOK(t) ==
  /\ task[t] # Idle /\ task[t].pc # "connect" /\ ~task[t].overtaken
  /\ table[task[t].article] # Deleted
  => task[t].loaded = table[task[t].article]

ScorerInv ==
  /\ ScorerTypeOK
  /\ ResourcesOK
  /\ \A t \in Tasks : LoadedOK(t)
  /\ TierDrift

-----------------------------------------------------------------------------
(* Links *)

SharesTypeOK ==
  /\ minted \subseteq LinkRows /\ links \subseteq minted
  /\ viewed \subseteq Nat \X Nat
  /\ share \in [Visitors -> MintStates \cup OpenStates \cup {Idle}]

\* Tokens are numbered; a view is of a link that was minted.
LinksOK ==
  /\ IsFiniteSet(minted)
  /\ \A m \in minted : m.id \in 1..Cardinality(minted)
  /\ \A w \in viewed : w[1] \in 1..Cardinality(minted)

\* A visitor came with the token of a link, and while the link had time left
\* if it got past the check.
VisitOK(v) ==
  share[v] \in OpenStates =>
    /\ share[v].link \in minted /\ share[v].began <= now
    /\ share[v].pc \in {"article", "visit"} => share[v].began < share[v].link.exp

SharesInv ==
  /\ ScorerInv
  /\ SharesTypeOK
  /\ LinksOK
  /\ \A v \in Visitors : VisitOK(v)
  /\ ShareIntegrity
  /\ ShareAnswers

-----------------------------------------------------------------------------
(* Steps of the scorer *)

LEMMA TierOfType == ASSUME NEW s \in 0..100 PROVE TierOf(s) \in Tiers
  BY DEF TierOf, Tiers

\* Saving onto the row that was loaded leaves score and tier in step.
LEMMA UpdatedFacts ==
  ASSUME ScorerTypeOK, NEW row \in Rows, NEW loaded \in Rows, NEW s \in 0..100
  PROVE  /\ Updated(row, loaded, s) \in Rows
         /\ row = loaded => /\ Updated(row, loaded, s).score = s
                            /\ Updated(row, loaded, s).tier = TierOf(s)
  <1>1. TierOf(s) \in Tiers
    BY TierOfType
  <1>2. now \in Nat
    BY DEF ScorerTypeOK
  <1>3. PICK tier \in Tiers : tier = TierOf(s)
    BY <1>1
  <1>4. Updated(row, loaded, s) =
          [row EXCEPT !.score = IF s = loaded.score THEN row.score ELSE s,
                      !.tier  = IF tier = loaded.tier THEN row.tier ELSE tier,
                      !.at    = now]
    BY <1>3 DEF Updated
  <1>5. Updated(row, loaded, s) \in Rows
    BY <1>2, <1>4 DEF Rows
  <1>6. ASSUME row = loaded
        PROVE  Updated(row, loaded, s).score = s /\ Updated(row, loaded, s).tier = tier
    BY <1>4, <1>6 DEF Rows
  <1> QED
    BY <1>3, <1>5, <1>6

LEMMA ScorerInitInv == ScorerInit => ScorerInv
  <1> SUFFICES ASSUME ScorerInit PROVE ScorerInv
    OBVIOUS
  <1>1. ScorerTypeOK
    BY ScorerAssumption DEF ScorerInit, ScorerTypeOK, Rows, Unscored
  <1>2. Calling = {} /\ Connected = {}
    BY DEF ScorerInit, Calling, Connected, Is
  <1>3. ResourcesOK
    BY <1>2, FS_EmptySet, ScorerAssumption DEF ScorerInit, ResourcesOK
  <1>4. (\A t \in Tasks : LoadedOK(t)) /\ TierDrift
    BY DEF ScorerInit, LoadedOK, TierDrift, Unscored, Alive
  <1> QED
    BY <1>1, <1>3, <1>4 DEF ScorerInv

\* A step of one task t that leaves the rows alone.
LEMMA TaskMoves ==
  ASSUME ScorerInv, NEW t \in Tasks, NEW r \in TaskStates \cup {Idle},
         task' = [task EXCEPT ![t] = r], UNCHANGED <<table, mixed, now>>,
         slots' \in Int, conns' \in Int, ResourcesOK',
         r # Idle /\ r.pc # "connect" /\ ~r.overtaken /\ table[r.article] # Deleted =>
           r.loaded = table[r.article]
  PROVE  ScorerInv'
  <1> USE DEF ScorerInv
  <1>1. ScorerTypeOK'
    BY DEF ScorerTypeOK
  <1>2. \A k \in Tasks : LoadedOK(k)'
    BY DEF LoadedOK, ScorerTypeOK
  <1>3. TierDrift'
    BY DEF TierDrift, Alive
  <1> QED
    BY <1>1, <1>2, <1>3

\* What a step of one task does to the two sets that are counted.
LEMMA TaskSets ==
  ASSUME NEW t \in Tasks, \A k \in Tasks \ {t} : task'[k] = task[k]
  PROVE  /\ task'[t] # Idle /\ task'[t].pc = "call" => Calling' = Calling \cup {t}
         /\ task'[t] = Idle \/ task'[t].pc # "call" => Calling' = Calling \ {t}
         /\ task'[t] # Idle /\ task'[t].pc # "connect" => Connected' = Connected \cup {t}
         /\ task'[t] = Idle \/ task'[t].pc = "connect" => Connected' = Connected \ {t}
  BY DEF Calling, Connected, Is

LEMMA TaskStepInv ==
  ASSUME ScorerInv, NEW t \in Tasks,
         Connect(t) \/ PoolTimeout(t) \/ Acquire(t) \/ Scored(t) \/ SaveFails(t)
  PROVE  ScorerInv'
  <1> USE DEF ScorerInv
  <1>1. /\ task[t] \in TaskStates /\ task[t] # Idle /\ UNCHANGED <<table, mixed, now>>
        /\ slots \in Int /\ conns \in Int
    BY DEF Connect, PoolTimeout, Acquire, Scored, SaveFails, Is, ScorerTypeOK
  <1>2. IsFiniteSet(Calling) /\ IsFiniteSet(Connected)
    BY DEF ResourcesOK
  <1> DEFINE Dropped == task' = [task EXCEPT ![t] = Idle] /\ UNCHANGED conns
  <1>3. CASE (Connect(t) /\ Dropped) \/ PoolTimeout(t)
    <2>1. task[t].pc = "connect" /\ UNCHANGED <<slots, conns>> /\ task' = [task EXCEPT ![t] = Idle]
      BY <1>3 DEF Connect, PoolTimeout, Is
    <2>2. t \notin Calling /\ t \notin Connected
      BY <2>1 DEF Calling, Connected, Is
    <2>3. Calling' = Calling /\ Connected' = Connected
      <3>1. task'[t] = Idle /\ \A k \in Tasks \ {t} : task'[k] = task[k]
        BY <2>1 DEF ScorerTypeOK
      <3>2. Calling' = Calling \ {t} /\ Connected' = Connected \ {t}
        BY <3>1, TaskSets
      <3> QED
        BY <2>2, <3>2
    <2>4. ResourcesOK'
      BY <2>1, <2>3 DEF ResourcesOK
    <2> QED
      BY <1>1, <2>1, <2>4, TaskMoves
  <1>4. CASE Connect(t) /\ ~Dropped
    <2> DEFINE r == [task[t] EXCEPT !.pc = "acquire", !.loaded = table[task[t].article]]
    <2>1. /\ task[t].pc = "connect" /\ UNCHANGED slots /\ conns' = conns - 1
          /\ task' = [task EXCEPT ![t] = r] /\ table[task[t].article] # Deleted
      BY <1>4 DEF Connect, Is
    <2>2. table[task[t].article] \in Rows
      BY <1>1, <2>1 DEF ScorerTypeOK, TaskStates
    <2>3. /\ r \in TaskStates /\ r.pc = "acquire" /\ r.loaded = table[r.article]
      BY <1>1, <2>2 DEF TaskStates
    <2>4. r # Idle
      BY <2>3, ScorerAssumption
    <2> HIDE DEF r
    <2>5. t \notin Calling /\ t \notin Connected
      BY <2>1 DEF Calling, Connected, Is
    <2>6. Calling' = Calling /\ Connected' = Connected \cup {t}
      <3>1. task'[t] = r /\ \A k \in Tasks \ {t} : task'[k] = task[k]
        BY <2>1 DEF ScorerTypeOK
      <3> QED
        BY <3>1, <2>3, <2>4, <2>5, TaskSets
    <2>7. ResourcesOK'
      <3>1. /\ IsFiniteSet(Connected \cup {t})
            /\ Cardinality(Connected \cup {t}) = Cardinality(Connected) + 1
        BY <1>2, <2>5, FS_AddElement
      <3>2. Cardinality(Connected) \in Nat /\ PoolSize \in Nat
        BY <1>2, FS_CardinalityType, ScorerAssumption
      <3> QED
        BY <1>1, <2>1, <2>6, <3>1, <3>2 DEF ResourcesOK
    <2>8. conns' \in Int /\ slots' \in Int
      BY <1>1, <2>1
    <2> QED
      BY <1>1, <2>1, <2>3, <2>7, <2>8, TaskMoves
  <1>5. CASE Acquire(t)
    <2> DEFINE r == [task[t] EXCEPT !.pc = "call"]
    <2>1. /\ task[t].pc = "acquire" /\ UNCHANGED conns /\ slots' = slots - 1
          /\ task' = [task EXCEPT ![t] = r]
      BY <1>5 DEF Acquire, Is
    <2>2. /\ r \in TaskStates /\ r.pc = "call" /\ r.loaded = task[t].loaded
          /\ r.article = task[t].article /\ r.overtaken = task[t].overtaken
      BY <1>1 DEF TaskStates
    <2>3. r # Idle
      BY <2>2, ScorerAssumption
    <2> HIDE DEF r
    <2>4. t \notin Calling /\ t \in Connected
      BY <1>1, <2>1 DEF Calling, Connected, Is
    <2>5. Calling' = Calling \cup {t} /\ Connected' = Connected
      <3>1. task'[t] = r /\ \A k \in Tasks \ {t} : task'[k] = task[k]
        BY <2>1 DEF ScorerTypeOK
      <3> QED
        BY <3>1, <2>2, <2>3, <2>4, TaskSets
    <2>6. ResourcesOK'
      <3>1. /\ IsFiniteSet(Calling \cup {t})
            /\ Cardinality(Calling \cup {t}) = Cardinality(Calling) + 1
        BY <1>2, <2>4, FS_AddElement
      <3>2. Cardinality(Calling) \in Nat /\ Slots \in Nat
        BY <1>2, FS_CardinalityType, ScorerAssumption
      <3> QED
        BY <1>1, <2>1, <2>5, <3>1, <3>2 DEF ResourcesOK
    <2>7. conns' \in Int /\ slots' \in Int
      BY <1>1, <2>1
    <2>8. ~task[t].overtaken /\ table[task[t].article] # Deleted =>
            task[t].loaded = table[task[t].article]
      BY <1>1, <2>1 DEF LoadedOK
    <2> QED
      BY <1>1, <2>1, <2>2, <2>6, <2>7, <2>8, TaskMoves
  <1>6. CASE Scored(t)
    <2>1. PICK s \in Scores \cup {DEFAULT_SCORE} :
            task' = [task EXCEPT ![t].pc = "save", ![t].score = s]
      BY <1>6 DEF Scored
    <2> DEFINE r == [task[t] EXCEPT !.pc = "save", !.score = s]
    <2>2. /\ task[t].pc = "call" /\ UNCHANGED conns /\ slots' = slots + 1
          /\ task' = [task EXCEPT ![t] = r]
      BY <1>6, <2>1 DEF Scored, Is
    <2>3. s \in 0..100
      BY ScorerAssumption DEF DEFAULT_SCORE
    <2>4. /\ r \in TaskStates /\ r.pc = "save" /\ r.loaded = task[t].loaded
          /\ r.article = task[t].article /\ r.overtaken = task[t].overtaken
      BY <1>1, <2>3 DEF TaskStates
    <2>5. r # Idle
      BY <2>4, ScorerAssumption
    <2> HIDE DEF r
    <2>6. t \in Calling /\ t \in Connected
      BY <1>1, <2>2 DEF Calling, Connected, Is
    <2>7. Calling' = Calling \ {t} /\ Connected' = Connected
      <3>1. task'[t] = r /\ \A k \in Tasks \ {t} : task'[k] = task[k]
        BY <2>2 DEF ScorerTypeOK
      <3> QED
        BY <3>1, <2>4, <2>5, <2>6, TaskSets
    <2>8. ResourcesOK'
      <3>1. /\ IsFiniteSet(Calling \ {t})
            /\ Cardinality(Calling \ {t}) = Cardinality(Calling) - 1
        BY <1>2, <2>6, FS_RemoveElement
      <3>2. Cardinality(Calling) \in Nat /\ Slots \in Nat
        BY <1>2, FS_CardinalityType, ScorerAssumption
      <3> QED
        BY <1>1, <2>2, <2>7, <3>1, <3>2 DEF ResourcesOK
    <2>9. conns' \in Int /\ slots' \in Int
      BY <1>1, <2>2
    <2>10. ~task[t].overtaken /\ table[task[t].article] # Deleted =>
            task[t].loaded = table[task[t].article]
      BY <1>1, <2>2 DEF LoadedOK
    <2> QED
      BY <1>1, <2>2, <2>4, <2>8, <2>9, <2>10, TaskMoves
  <1>7. CASE SaveFails(t)
    <2>1. /\ task[t].pc = "save" /\ UNCHANGED slots /\ conns' = conns + 1
          /\ task' = [task EXCEPT ![t] = Idle]
      BY <1>7 DEF SaveFails, Is
    <2>2. t \notin Calling /\ t \in Connected
      BY <1>1, <2>1 DEF Calling, Connected, Is
    <2>3. Calling' = Calling /\ Connected' = Connected \ {t}
      <3>1. task'[t] = Idle /\ \A k \in Tasks \ {t} : task'[k] = task[k]
        BY <2>1 DEF ScorerTypeOK
      <3>2. Calling' = Calling \ {t} /\ Connected' = Connected \ {t}
        BY <3>1, TaskSets
      <3> QED
        BY <2>2, <3>2
    <2>4. /\ IsFiniteSet(Connected \ {t})
          /\ Cardinality(Connected \ {t}) = Cardinality(Connected) - 1
      BY <1>2, <2>2, FS_RemoveElement
    <2>5. Cardinality(Connected) \in Nat /\ PoolSize \in Nat
      BY <1>2, FS_CardinalityType, ScorerAssumption
    <2>6. ResourcesOK' /\ conns' \in Int /\ slots' \in Int
      BY <1>1, <2>1, <2>3, <2>4, <2>5 DEF ResourcesOK
    <2> QED
      BY <1>1, <2>1, <2>6, TaskMoves
  <1> QED
    BY <1>3, <1>4, <1>5, <1>6, <1>7

\* The row is written under the version that was loaded, and whoever loaded an
\* older one is overtaken from now on.
LEMMA SaveInv ==
  ASSUME ScorerInv, NEW t \in Tasks, Save(t)
  PROVE  ScorerInv' /\ Alive' = Alive
  <1> USE DEF ScorerInv
  <1> DEFINE a == task[t].article
             row == Updated(table[a], task[t].loaded, task[t].score)
  <1>1. /\ task[t] \in TaskStates /\ task[t] # Idle /\ task[t].pc = "save"
        /\ a \in Articles /\ task[t].loaded \in Rows /\ task[t].score \in 0..100
        /\ UNCHANGED <<slots, now>> /\ conns' = conns + 1
        /\ task' = [k \in Tasks |-> CASE k = t -> Idle
                                [] k \in Overtaken(a, t) -> [task[k] EXCEPT !.overtaken = TRUE]
                                [] OTHER -> task[k]]
    BY DEF Save, Is, ScorerTypeOK, TaskStates
  <1>2. /\ task'[t] = Idle
        /\ \A k \in Overtaken(a, t) :
             /\ task[k] \in TaskStates /\ task[k] # Idle
             /\ task'[k] \in TaskStates /\ task'[k] # Idle /\ task'[k].overtaken = TRUE
             /\ task'[k].pc = task[k].pc /\ task'[k].article = task[k].article
        /\ \A k \in Tasks \ {t} : k \notin Overtaken(a, t) => task'[k] = task[k]
    <2>1. \A k \in Overtaken(a, t) : task[k] \in TaskStates /\ task[k] # Idle /\ k \in Tasks \ {t}
      BY DEF Overtaken, ScorerTypeOK
    <2>2. \A k \in Overtaken(a, t) : task'[k] = [task[k] EXCEPT !.overtaken = TRUE]
      BY <1>1, <2>1
    <2>3. ASSUME NEW r \in TaskStates
          PROVE  LET o == [r EXCEPT !.overtaken = TRUE]
                 IN o \in TaskStates /\ o.overtaken = TRUE /\ o.pc = r.pc /\ o.article = r.article
      BY DEF TaskStates
    <2>4. ASSUME NEW k \in Overtaken(a, t)
          PROVE  /\ task'[k] \in TaskStates /\ task'[k] # Idle /\ task'[k].overtaken = TRUE
                 /\ task'[k].pc = task[k].pc /\ task'[k].article = task[k].article
      <3>1. PICK r \in TaskStates : r = task[k]
        BY <2>1, <2>4
      <3>2. PICK o : o = [r EXCEPT !.overtaken = TRUE]
        OBVIOUS
      <3>3. o \in TaskStates /\ o.overtaken = TRUE /\ o.pc = r.pc /\ o.article = r.article
        BY <2>3, <3>2
      <3>4. task'[k] = o
        BY <2>2, <2>4, <3>1, <3>2
      <3>5. o # Idle
        BY ONLY <3>3, ScorerAssumption
      <3> QED
        BY <3>1, <3>3, <3>4, <3>5
    <2>5. task'[t] = Idle /\ \A k \in Tasks \ {t} : k \notin Overtaken(a, t) => task'[k] = task[k]
      BY <1>1, <2>1
    <2> QED
      BY <2>1, <2>4, <2>5
  <1>3. ASSUME table[a] # Deleted
        PROVE  /\ row \in Rows /\ row # Deleted
               /\ table[a] = task[t].loaded => row.score = task[t].score /\ row.tier = TierOf(task[t].score)
    <2>1. table[a] \in Rows
      BY <1>1, <1>3 DEF ScorerTypeOK
    <2>2. /\ row \in Rows
          /\ table[a] = task[t].loaded => row.score = task[t].score /\ row.tier = TierOf(task[t].score)
      BY <1>1, <2>1, UpdatedFacts
    <2> QED
      BY <2>2, ScorerAssumption
  <1>4. /\ table[a] # Deleted =>
             /\ table' = [table EXCEPT ![a] = row]
             /\ mixed' = IF task[t].overtaken THEN mixed \cup {a} ELSE mixed \ {a}
        /\ table[a] = Deleted => table' = table /\ mixed' = mixed
    BY DEF Save
  <1> HIDE DEF row
  <1>5. ScorerTypeOK'
    <2>1. table' \in [Articles -> Rows \cup {Deleted}]
      BY <1>1, <1>3, <1>4 DEF ScorerTypeOK
    <2>2. task' \in [Tasks -> TaskStates \cup {Idle}]
      BY <1>1, <1>2 DEF ScorerTypeOK
    <2> QED
      BY <1>1, <1>4, <2>1, <2>2 DEF ScorerTypeOK
  <1>6. Alive' = Alive
    BY <1>1, <1>3, <1>4 DEF Alive, ScorerTypeOK
  <1>7. ResourcesOK'
    <2>1. Calling' = Calling /\ Connected' = Connected \ {t} /\ t \in Connected
      BY <1>1, <1>2 DEF Calling, Connected, Is, Overtaken
    <2>2. /\ IsFiniteSet(Connected \ {t})
          /\ Cardinality(Connected \ {t}) = Cardinality(Connected) - 1
      BY <2>1, FS_RemoveElement DEF ResourcesOK
    <2>3. Cardinality(Connected) \in Nat /\ PoolSize \in Nat /\ conns \in Int
      BY FS_CardinalityType, ScorerAssumption DEF ResourcesOK, ScorerTypeOK
    <2> QED
      BY <1>1, <2>1, <2>2, <2>3 DEF ResourcesOK
  <1>8. \A k \in Tasks : LoadedOK(k)'
    <2> SUFFICES ASSUME NEW k \in Tasks, task'[k] # Idle, task'[k].pc # "connect",
                        ~task'[k].overtaken, table'[task'[k].article] # Deleted
                 PROVE  task'[k].loaded = table'[task'[k].article]
      BY DEF LoadedOK
    <2>1. k # t /\ k \notin Overtaken(a, t) /\ task'[k] = task[k]
      BY <1>2
    <2>2. task[k].article # a /\ task[k].article \in Articles
      BY <2>1 DEF Overtaken, ScorerTypeOK, TaskStates
    <2>3. table'[task[k].article] = table[task[k].article]
      BY <1>4, <2>2 DEF ScorerTypeOK
    <2> QED
      BY <2>1, <2>3 DEF LoadedOK
  <1>9. TierDrift'
    <2> SUFFICES ASSUME NEW b \in Alive, b \notin mixed'
                 PROVE  \/ table'[b].score = Null /\ table'[b].tier = Null
                        \/ table'[b].score # Null /\ table'[b].tier = TierOf(table'[b].score)
      BY <1>6 DEF TierDrift
    <2>1. b \in Articles /\ table[b] # Deleted
      BY DEF Alive
    <2>2. CASE b = a
      <3>1. ~task[t].overtaken
        BY <1>4, <2>1, <2>2
      <3>2. table[a] = task[t].loaded
        BY <1>1, <2>1, <2>2, <3>1 DEF LoadedOK
      <3>3. table'[a] = row
        BY <1>1, <1>4, <2>1, <2>2 DEF ScorerTypeOK
      <3> QED
        BY <1>1, <1>3, <2>1, <2>2, <3>2, <3>3, ScorerAssumption
    <2>3. CASE b # a
      <3>1. table'[b] = table[b] /\ b \notin mixed
        BY <1>4, <2>1, <2>3 DEF ScorerTypeOK
      <3> QED
        BY <3>1 DEF TierDrift
    <2> QED
      BY <2>2, <2>3
  <1> QED
    BY <1>5, <1>6, <1>7, <1>8, <1>9

\* New tasks take the place of idle ones and hold nothing yet.
LEMMA TriggerInv ==
  ASSUME ScorerInv, Trigger
  PROVE  ScorerInv'
  <1> USE DEF ScorerInv
  <1>1. UNCHANGED <<table, slots, conns, mixed, now>>
    BY DEF Trigger
  <1>2. PICK page \in Listings :
          LET stale == {a \in page : IsStale(a)} IN
          \E start \in Injection(stale, IdleTasks) :
            task' = [t \in Tasks |->
              IF t \in Range(start)
              THEN [pc |-> "connect", article |-> CHOOSE a \in stale : start[a] = t,
                    loaded |-> Unscored, score |-> 0, overtaken |-> FALSE]
              ELSE task[t]]
    BY DEF Trigger
  <1> DEFINE stale == {a \in page : IsStale(a)}
  <1>3. stale \subseteq Articles
    BY DEF Listings, Alive
  <1> HIDE DEF stale
  <1>4. PICK start \in Injection(stale, IdleTasks) :
          task' = [t \in Tasks |->
              IF t \in Range(start)
              THEN [pc |-> "connect", article |-> CHOOSE a \in stale : start[a] = t,
                    loaded |-> Unscored, score |-> 0, overtaken |-> FALSE]
              ELSE task[t]]
    BY <1>2 DEF stale
  <1>5. \A t \in Range(start) : t \in IdleTasks /\ \E a \in stale : start[a] = t
    BY DEF Injection, Range
  <1>6. ASSUME NEW t \in Tasks, t \in Range(start)
        PROVE  task[t] = Idle /\ task'[t] \in TaskStates /\ task'[t].pc = "connect"
    <2>1. (CHOOSE a \in stale : start[a] = t) \in Articles
      BY <1>3, <1>5, <1>6
    <2>2. Unscored \in Rows
      BY DEF Unscored, Rows
    <2> QED
      BY <1>4, <1>5, <1>6, <2>1, <2>2 DEF IdleTasks, TaskStates
  <1>7. \A t \in Tasks : t \notin Range(start) => task'[t] = task[t]
    BY <1>4
  <1>8. ScorerTypeOK'
    <2>1. \A t \in Tasks : task'[t] \in TaskStates \cup {Idle}
      BY <1>6, <1>7 DEF ScorerTypeOK
    <2>2. task' = [t \in Tasks |-> task'[t]]
      BY <1>4
    <2> QED
      BY <1>1, <2>1, <2>2 DEF ScorerTypeOK
  <1>9. Calling' = Calling /\ Connected' = Connected
    BY <1>6, <1>7 DEF Calling, Connected, Is
  <1>10. ResourcesOK' /\ TierDrift'
    BY <1>1, <1>9 DEF ResourcesOK, TierDrift, Alive
  <1>11. \A t \in Tasks : LoadedOK(t)'
    BY <1>1, <1>6, <1>7 DEF LoadedOK
  <1> QED
    BY <1>8, <1>10, <1>11

LEMMA RestartInv ==
  ASSUME ScorerInv, Restart
  PROVE  ScorerInv'
  <1> USE DEF ScorerInv
  <1>1. /\ UNCHANGED <<table, mixed, now>> /\ slots' = Slots /\ conns' = PoolSize
        /\ task' = [t \in Tasks |-> Idle]
    BY DEF Restart
  <1>2. Calling' = {} /\ Connected' = {}
    BY <1>1 DEF Calling, Connected, Is
  <1>3. ResourcesOK' /\ TierDrift'
    BY <1>1, <1>2, FS_EmptySet, ScorerAssumption DEF ResourcesOK, TierDrift, Alive
  <1>4. ScorerTypeOK' /\ \A t \in Tasks : LoadedOK(t)'
    BY <1>1, ScorerAssumption DEF ScorerTypeOK, LoadedOK
  <1> QED
    BY <1>3, <1>4

LEMMA DeleteRowInv ==
  ASSUME ScorerInv, NEW a \in Articles, DeleteRow(a)
  PROVE  ScorerInv' /\ Alive' = Alive \ {a}
  <1> USE DEF ScorerInv
  <1>1. /\ UNCHANGED <<task, slots, conns, mixed, now>>
        /\ table'[a] = Deleted /\ \A b \in Articles \ {a} : table'[b] = table[b]
    BY DEF DeleteRow, ScorerTypeOK
  <1>2. ScorerTypeOK'
    BY <1>1 DEF DeleteRow, ScorerTypeOK
  <1>3. Alive' = Alive \ {a}
    BY <1>1 DEF Alive
  <1>4. ResourcesOK'
    BY <1>1 DEF ResourcesOK, Calling, Connected, Is
  <1>5. \A t \in Tasks : LoadedOK(t)'
    BY <1>1 DEF LoadedOK, ScorerTypeOK, TaskStates
  <1>6. TierDrift'
    BY <1>1, <1>3 DEF TierDrift, Alive
  <1> QED
    BY <1>2, <1>3, <1>4, <1>5, <1>6

LEMMA QuietScorer ==
  ASSUME ScorerInv, UNCHANGED <<table, task, slots, conns, mixed>>, now' \in Nat
  PROVE  ScorerInv'
  BY DEF ScorerInv, ScorerTypeOK, ResourcesOK, Calling, Connected, Is, LoadedOK, TierDrift, Alive

\* A step of the scorer proper, which deletes nothing.
LEMMA ScorerStepInv ==
  ASSUME ScorerInv, Trigger \/ Restart \/ ScorerTick \/ \E t \in Tasks : TaskStep(t)
  PROVE  ScorerInv' /\ Alive' = Alive /\ now <= now'
  <1>1. now \in Nat
    BY DEF ScorerInv, ScorerTypeOK
  <1>2. CASE Trigger \/ Restart
    BY <1>1, <1>2, TriggerInv, RestartInv DEF Trigger, Restart, Alive
  <1>3. CASE ScorerTick
    BY <1>1, <1>3, QuietScorer DEF ScorerTick, Alive
  <1>4. ASSUME NEW t \in Tasks, TaskStep(t)
        PROVE  ScorerInv' /\ Alive' = Alive /\ now <= now'
    <2>1. CASE Save(t)
      BY <1>1, <2>1, SaveInv DEF Save
    <2>2. CASE Connect(t) \/ PoolTimeout(t) \/ Acquire(t) \/ Scored(t) \/ SaveFails(t)
      BY <1>1, <2>2, TaskStepInv DEF Connect, PoolTimeout, Acquire, Scored, SaveFails, Alive
    <2> QED
      BY <1>4, <2>1, <2>2 DEF TaskStep
  <1> QED
    BY <1>2, <1>3, <1>4

\* The inductive invariant of the scorer.
THEOREM SpecScorerInv == ScorerSpec => []ScorerInv
  <1>1. ScorerInv /\ [ScorerNext]_scorerVars => ScorerInv'
    <2> SUFFICES ASSUME ScorerInv, [ScorerNext]_scorerVars PROVE ScorerInv'
      OBVIOUS
    <2>1. CASE UNCHANGED scorerVars
      BY <2>1, QuietScorer DEF scorerVars, ScorerInv, ScorerTypeOK
    <2>2. CASE Trigger \/ Restart \/ ScorerTick \/ \E t \in Tasks : TaskStep(t)
      BY <2>2, ScorerStepInv
    <2>3. ASSUME NEW a \in Articles, DeleteRow(a) PROVE ScorerInv'
      BY <2>3, DeleteRowInv
    <2> QED
      BY <2>1, <2>2, <2>3 DEF ScorerNext
  <1> QED
    BY <1>1, ScorerInitInv, PTL DEF ScorerSpec

\* Connections and slots balance for any number of tasks, any pool and any
\* semaphore.
THEOREM SpecResourcesBalanced == ScorerSpec => []ResourcesBalanced
  <1>1. ScorerInv => ResourcesBalanced
    BY DEF ScorerInv, ResourcesOK, ResourcesBalanced, Calling, Connected
  <1> QED
    BY <1>1, SpecScorerInv, PTL

\* Score and tier differ only after a save by an overtaken task.
THEOREM SpecTierDrift == ScorerSpec => []TierDrift
  <1>1. ScorerInv => TierDrift
    BY DEF ScorerInv
  <1> QED
    BY <1>1, SpecScorerInv, PTL

-----------------------------------------------------------------------------
(* Steps of the links *)

LEMMA SharesInitInv == SharesInit => SharesInv
  <1> SUFFICES ASSUME SharesInit PROVE SharesInv
    OBVIOUS
  <1>1. ScorerInv
    BY ScorerInitInv DEF SharesInit
  <1>2. LinksOK
    BY FS_EmptySet DEF SharesInit, LinksOK
  <1>3. SharesTypeOK /\ ShareIntegrity
    BY DEF SharesInit, SharesTypeOK, ShareIntegrity
  <1>4. (\A v \in Visitors : VisitOK(v)) /\ ShareAnswers
    BY SharesAssumption DEF SharesInit, VisitOK, ShareAnswers, AtShare
  <1> QED
    BY <1>1, <1>2, <1>3, <1>4 DEF SharesInv

\* A visitor moves on, and the links stay as they are.
LEMMA VisitorMoves ==
  ASSUME SharesInv, ScorerInv', NEW v \in Visitors,
         share'[v] \in MintStates \cup OpenStates \cup {Idle},
         \A w \in Visitors \ {v} : share'[w] = share[w], share' \in [Visitors -> {share'[w] : w \in Visitors}],
         UNCHANGED <<now, links, minted>>, viewed' \subseteq Nat \X Nat, LinksOK', ShareIntegrity',
         share'[v] \in OpenStates =>
           /\ share'[v].link \in minted /\ share'[v].began <= now
           /\ share'[v].pc \in {"article", "visit"} => share'[v].began < share'[v].link.exp
           /\ share'[v].pc = "answer" =>
                /\ share'[v].code = 200 => share'[v].began < share'[v].link.exp
                /\ share'[v].code = 410 => share'[v].link.exp <= now
                /\ share'[v].code = 404 => share'[v].link \notin links
  PROVE  SharesInv'
  <1> USE DEF SharesInv
  <1>1. SharesTypeOK'
    <2>1. \A w \in Visitors : share'[w] \in MintStates \cup OpenStates \cup {Idle}
      BY DEF SharesTypeOK
    <2> QED
      BY <2>1 DEF SharesTypeOK
  <1>2. \A w \in Visitors : VisitOK(w)'
    BY DEF VisitOK
  <1>3. ShareAnswers'
    <2>1. share'[v] # Idle /\ share'[v].pc = "answer" => share'[v] \in OpenStates
      BY DEF MintStates
    <2>2. ASSUME NEW w \in Visitors, AtShare(w, "answer")'
          PROVE  /\ share'[w].code = 200 => share'[w].began < share'[w].link.exp
                 /\ share'[w].code = 410 => share'[w].link.exp <= now
                 /\ share'[w].code = 404 => share'[w].link \notin links
      <3>1. CASE w = v
        BY <2>1, <2>2, <3>1 DEF AtShare
      <3>2. CASE w # v
        BY <2>2, <3>2 DEF AtShare, ShareAnswers
      <3> QED
        BY <3>1, <3>2
    <2> QED
      BY <2>2 DEF ShareAnswers, AtShare
  <1> QED
    BY <1>1, <1>2, <1>3

\* share'[v] is what a step assigns, and nobody else moves.
LEMMA VisitorFrame ==
  ASSUME SharesTypeOK, NEW v \in Visitors, NEW r, ToShare(v, r)
  PROVE  /\ share'[v] = r /\ \A w \in Visitors \ {v} : share'[w] = share[w]
         /\ share' \in [Visitors -> {share'[w] : w \in Visitors}]
  BY DEF SharesTypeOK, ToShare

LEMMA MintInv ==
  ASSUME SharesInv, NEW v \in Visitors, Mint(v) \/ Open(v) \/ Close(v)
  PROVE  SharesInv'
  <1> USE DEF SharesInv
  <1>1. UNCHANGED <<links, visits, minted, viewed>> /\ UNCHANGED scorerVars
    BY DEF Mint, Open, Close
  <1>2. /\ ScorerInv' /\ UNCHANGED <<now, links, minted>>
        /\ viewed' \subseteq Nat \X Nat /\ LinksOK' /\ ShareIntegrity'
    <2>1. ScorerInv' /\ UNCHANGED <<Alive, now>>
      BY <1>1, QuietScorer DEF scorerVars, Alive, ScorerInv, ScorerTypeOK
    <2> QED
      BY <1>1, <2>1 DEF LinksOK, ShareIntegrity, SharesTypeOK
  <1>3. CASE Mint(v)
    <2>1. PICK a \in Alive, d \in Lifetimes :
            ToShare(v, [pc |-> "insert", article |-> a, lifetime |-> d])
      BY <1>3 DEF Mint
    <2>2. /\ share'[v] = [pc |-> "insert", article |-> a, lifetime |-> d]
          /\ \A w \in Visitors \ {v} : share'[w] = share[w]
          /\ share' \in [Visitors -> {share'[w] : w \in Visitors}]
      BY <2>1, VisitorFrame
    <2>3. share'[v] \in MintStates /\ share'[v].pc = "insert"
      BY <2>2 DEF MintStates, Alive
    <2>4. share'[v] \notin OpenStates
      BY <2>3 DEF OpenStates
    <2> QED
      BY <1>2, <2>2, <2>3, <2>4, VisitorMoves
  <1>4. CASE Open(v)
    <2>1. PICK m \in minted :
            ToShare(v, [pc |-> "lookup", link |-> m, began |-> now, code |-> 0])
      BY <1>4 DEF Open
    <2>2. /\ share'[v] = [pc |-> "lookup", link |-> m, began |-> now, code |-> 0]
          /\ \A w \in Visitors \ {v} : share'[w] = share[w]
          /\ share' \in [Visitors -> {share'[w] : w \in Visitors}]
      BY <2>1, VisitorFrame
    <2>3. /\ share'[v] \in OpenStates /\ share'[v].pc = "lookup"
          /\ share'[v].link \in minted /\ share'[v].began <= now
      BY <2>2 DEF OpenStates, SharesTypeOK, ScorerInv, ScorerTypeOK
    <2> QED
      BY <1>2, <2>2, <2>3, VisitorMoves
  <1>5. CASE Close(v)
    <2>1. /\ share'[v] = Idle /\ Idle \notin OpenStates
          /\ \A w \in Visitors \ {v} : share'[w] = share[w]
          /\ share' \in [Visitors -> {share'[w] : w \in Visitors}]
      BY <1>5, SharesAssumption, VisitorFrame DEF Close
    <2> QED
      BY <1>2, <2>1, VisitorMoves
  <1> QED
    BY <1>3, <1>4, <1>5

\* The request that opens a link goes on to its next statement or its answer.
LEMMA OpenMoves ==
  ASSUME SharesInv, NEW v \in Visitors, share[v] \in OpenStates, share'[v] \in OpenStates,
         share'[v].link = share[v].link, share'[v].began = share[v].began,
         \A w \in Visitors \ {v} : share'[w] = share[w], share' \in [Visitors -> {share'[w] : w \in Visitors}],
         UNCHANGED <<scorerVars, links, minted>>,
         viewed' \subseteq Nat \X Nat, LinksOK', ShareIntegrity',
         share'[v].pc \in {"article", "visit"} \/ (share'[v].pc = "answer" /\ share'[v].code = 200) =>
           share[v].began < share[v].link.exp,
         share'[v].pc = "answer" /\ share'[v].code = 410 => share[v].link.exp <= now,
         share'[v].pc = "answer" /\ share'[v].code = 404 => share[v].link \notin links
  PROVE  SharesInv'
  <1>1. ScorerInv' /\ UNCHANGED now
    BY QuietScorer DEF scorerVars, SharesInv, ScorerInv, ScorerTypeOK
  <1>2. share[v].link \in minted /\ share[v].began <= now
    BY DEF SharesInv, VisitOK
  <1>3. /\ share'[v].link \in minted /\ share'[v].began <= now
        /\ share'[v].pc \in {"article", "visit"} => share'[v].began < share'[v].link.exp
        /\ share'[v].pc = "answer" =>
             /\ share'[v].code = 200 => share'[v].began < share'[v].link.exp
             /\ share'[v].code = 410 => share'[v].link.exp <= now
             /\ share'[v].code = 404 => share'[v].link \notin links
    BY <1>2
  <1> QED
    BY <1>1, <1>3, VisitorMoves

LEMMA OpenInv ==
  ASSUME SharesInv, NEW v \in Visitors, Lookup(v) \/ LoadArticle(v)
  PROVE  SharesInv'
  <1> USE DEF SharesInv
  <1>1. /\ UNCHANGED <<scorerVars, links, visits, minted, viewed>>
        /\ share[v] \in OpenStates
    BY DEF Lookup, LoadArticle, AtShare, SharesTypeOK, MintStates
  <1>2. viewed' \subseteq Nat \X Nat /\ LinksOK' /\ ShareIntegrity'
    BY <1>1 DEF LinksOK, ShareIntegrity, SharesTypeOK, Alive, scorerVars
  <1>3. /\ \A w \in Visitors \ {v} : share'[w] = share[w]
        /\ share' \in [Visitors -> {share'[w] : w \in Visitors}]
    BY VisitorFrame DEF Lookup, LoadArticle, Answer
  <1>4. ASSUME NEW pc \in {"article", "visit"}, ToShare(v, [share[v] EXCEPT !.pc = pc]),
               share[v].began < share[v].link.exp
        PROVE  SharesInv'
    <2>1. share'[v] = [share[v] EXCEPT !.pc = pc]
      BY <1>4, VisitorFrame
    <2>2. /\ share'[v] \in OpenStates /\ share'[v].pc = pc
          /\ share'[v].link = share[v].link /\ share'[v].began = share[v].began
      BY <1>1, <2>1 DEF OpenStates
    <2>3. share'[v].pc # "answer"
      BY <2>2
    <2> QED
      BY <1>1, <1>2, <1>3, <1>4, <2>2, <2>3, OpenMoves
  <1>5. ASSUME NEW code \in {404, 410}, Answer(v, code),
               code = 410 => share[v].link.exp <= now, code = 404 => share[v].link \notin links
        PROVE  SharesInv'
    <2>1. share'[v] = [pc |-> "answer", link |-> share[v].link, began |-> share[v].began,
                       code |-> code]
      BY <1>5, VisitorFrame DEF Answer
    <2>2. /\ share'[v] \in OpenStates /\ share'[v].pc = "answer" /\ share'[v].code = code
          /\ share'[v].link = share[v].link /\ share'[v].began = share[v].began
      BY <1>1, <2>1 DEF OpenStates
    <2>3. /\ ~(share'[v].pc \in {"article", "visit"} \/ share'[v].code = 200)
          /\ share'[v].code = 410 => share[v].link.exp <= now
          /\ share'[v].code = 404 => share[v].link \notin links
      BY <1>5, <2>2
    <2> QED
      BY <1>1, <1>2, <1>3, <2>2, <2>3, OpenMoves
  <1>6. CASE Lookup(v)
    <2>1. CASE share[v].link \notin links
      <3>1. Answer(v, 404)
        BY <1>6, <2>1 DEF Lookup
      <3> QED
        BY <1>5, <2>1, <3>1
    <2>2. CASE share[v].link \in links /\ Expired(share[v].link)
      <3>1. Answer(v, 410)
        BY <1>6, <2>2 DEF Lookup
      <3> QED
        BY <1>5, <2>2, <3>1 DEF Expired
    <2>3. CASE share[v].link \in links /\ ~Expired(share[v].link)
      <3>1. ToShare(v, [share[v] EXCEPT !.pc = "article"])
        BY <1>6, <2>3 DEF Lookup
      <3>2. share[v].began \in Nat /\ share[v].link.exp \in Nat /\ now \in Nat
        BY <1>1 DEF OpenStates, LinkRows, ScorerInv, ScorerTypeOK
      <3>3. share[v].began <= now /\ now < share[v].link.exp
        BY <1>1, <2>3, <3>2 DEF Expired, VisitOK
      <3> QED
        BY <1>4, <3>1, <3>2, <3>3
    <2> QED
      BY <2>1, <2>2, <2>3
  <1>7. CASE LoadArticle(v)
    <2>1. share[v].pc = "article" /\ share[v].began < share[v].link.exp
      BY <1>1, <1>7 DEF LoadArticle, AtShare, VisitOK
    <2>2. CASE share[v].link.article \in Alive
      BY <1>4, <1>7, <2>1, <2>2 DEF LoadArticle
    <2>3. CASE share[v].link.article \notin Alive
      <3>1. share[v].link \notin links
        BY <2>3 DEF ShareIntegrity
      <3> QED
        BY <1>5, <1>7, <2>3, <3>1 DEF LoadArticle
    <2> QED
      BY <2>2, <2>3
  <1> QED
    BY <1>6, <1>7

\* The visit is recorded in both tables or in neither.
LEMMA RecordVisitInv ==
  ASSUME SharesInv, NEW v \in Visitors, RecordVisit(v)
  PROVE  SharesInv'
  <1> USE DEF SharesInv
  <1>1. /\ UNCHANGED <<scorerVars, links, minted>> /\ now \in Nat
        /\ share[v] \in OpenStates /\ share[v].pc = "visit"
        /\ share'[v] = [pc |-> "answer", link |-> share[v].link, began |-> share[v].began,
                       code |-> 200]
        /\ \A w \in Visitors \ {v} : share'[w] = share[w]
        /\ share' \in [Visitors -> {share'[w] : w \in Visitors}]
    BY VisitorFrame
    DEF RecordVisit, AtShare, SharesTypeOK, MintStates, Answer, ScorerInv, ScorerTypeOK
  <1>2. share[v].began < share[v].link.exp
    BY <1>1 DEF VisitOK
  <1>3. viewed' \subseteq Nat \X Nat /\ LinksOK' /\ ShareIntegrity'
    <2>1. CASE UNCHANGED <<visits, viewed>>
      BY <1>1, <2>1 DEF LinksOK, ShareIntegrity, SharesTypeOK, Alive, scorerVars
    <2>2. CASE ~UNCHANGED <<visits, viewed>>
      <3>1. PICK link \in links : /\ link = share[v].link
                                  /\ visits' = visits \cup {<<link.id, now>>}
                                  /\ viewed' = viewed \cup {<<link.id, now>>}
        BY <2>2 DEF RecordVisit
      <3>2. link.id \in Nat /\ link \in minted
        BY <1>1, <3>1 DEF OpenStates, LinkRows, SharesTypeOK
      <3>3. viewed' \subseteq Nat \X Nat
        BY <1>1, <3>1, <3>2 DEF SharesTypeOK
      <3>4. LinksOK'
        BY <1>1, <3>1, <3>2 DEF LinksOK
      <3>5. ShareIntegrity'
        BY <1>1, <3>1 DEF ShareIntegrity, Alive, scorerVars
      <3> QED
        BY <3>3, <3>4, <3>5
    <2> QED
      BY <2>1, <2>2
  <1>4. /\ share'[v] \in OpenStates /\ share'[v].pc = "answer" /\ share'[v].code = 200
        /\ share'[v].link = share[v].link /\ share'[v].began = share[v].began
    BY <1>1 DEF OpenStates
  <1>5. share'[v].code # 404 /\ share'[v].code # 410
    BY <1>4
  <1> QED
    BY <1>1, <1>2, <1>3, <1>4, <1>5, OpenMoves

\* An answer is given to a request that opened a link.
LEMMA AnsweredOpen ==
  ASSUME SharesTypeOK, NEW v \in Visitors, AtShare(v, "answer")
  PROVE  share[v] \in OpenStates
  BY DEF SharesTypeOK, AtShare, MintStates

\* A new link has a number no view and no earlier link has.
LEMMA InsertLinkInv ==
  ASSUME SharesInv, NEW v \in Visitors, InsertLink(v)
  PROVE  SharesInv'
  <1> USE DEF SharesInv
  <1>1. /\ UNCHANGED <<scorerVars, visits, viewed>> /\ now \in Nat
        /\ share[v] \in MintStates /\ share'[v] = Idle
        /\ \A w \in Visitors \ {v} : share'[w] = share[w]
        /\ share' \in [Visitors -> {share'[w] : w \in Visitors}]
    BY VisitorFrame DEF InsertLink, AtShare, SharesTypeOK, OpenStates, ScorerInv, ScorerTypeOK
  <1>2. ScorerInv' /\ UNCHANGED <<now, Alive>>
    BY <1>1, QuietScorer DEF scorerVars, Alive, ScorerInv, ScorerTypeOK
  <1>3. Cardinality(minted) \in Nat
    BY FS_CardinalityType DEF LinksOK
  <1>4. Idle \notin OpenStates
    BY SharesAssumption
  <1>5. CASE ~Refers(share[v].article)
    <2>1. UNCHANGED <<links, minted>>
      BY <1>5 DEF InsertLink
    <2>2. LinksOK' /\ ShareIntegrity' /\ viewed' \subseteq Nat \X Nat
      BY <1>1, <1>2, <2>1 DEF LinksOK, ShareIntegrity, SharesTypeOK
    <2> QED
      BY <1>1, <1>2, <1>4, <2>1, <2>2, VisitorMoves
  <1>6. CASE Refers(share[v].article)
    <2>1. PICK link : /\ link = [id |-> Cardinality(minted) + 1, article |-> share[v].article,
                                  exp |-> now + share[v].lifetime]
                      /\ links' = links \cup {link} /\ minted' = minted \cup {link}
      BY <1>6 DEF InsertLink
    <2>2. /\ link \in LinkRows /\ link.id = Cardinality(minted) + 1
          /\ link.article \in Alive
      <3>1. share[v].lifetime \in Nat /\ share[v].article \in Articles
        BY <1>1, SharesAssumption DEF MintStates
      <3> QED
        BY <1>1, <1>3, <1>6, <2>1, <3>1 DEF LinkRows, Refers
    <2>3. link \notin minted
      BY <1>3, <2>2 DEF LinksOK
    <2>4. IsFiniteSet(minted') /\ Cardinality(minted') = Cardinality(minted) + 1
      BY <2>1, <2>3, FS_AddElement DEF LinksOK
    <2>5. LinksOK'
      <3>1. PICK n \in Nat : n = Cardinality(minted)
        BY <1>3
      <3>2. /\ \A m \in minted : m.id \in 1..n
            /\ \A w \in viewed : w[1] \in 1..n
        BY <3>1 DEF LinksOK
      <3>3. Cardinality(minted') = n + 1 /\ link.id = n + 1
        BY <2>2, <2>4, <3>1
      <3>4. \A m \in minted' : m.id \in 1..(n + 1)
        BY <2>1, <3>2, <3>3
      <3>5. \A w \in viewed' : w[1] \in 1..(n + 1)
        BY <1>1, <3>2
      <3> QED
        BY <2>4, <3>3, <3>4, <3>5 DEF LinksOK
    <2>6. ShareIntegrity'
      <3>1. \A l \in links' : l.article \in Alive
        BY <2>1, <2>2 DEF ShareIntegrity
      <3>2. \A w \in viewed : link.id # w[1]
        BY <1>3, <2>2 DEF LinksOK
      <3>3. \A w \in viewed : (\E l \in links' : l.id = w[1]) <=> (\E l \in links : l.id = w[1])
        BY <2>1, <3>2
      <3> QED
        BY <1>1, <1>2, <3>1, <3>3 DEF ShareIntegrity
    <2>7. SharesTypeOK'
      <3>1. \A w \in Visitors : share'[w] \in MintStates \cup OpenStates \cup {Idle}
        BY <1>1 DEF SharesTypeOK
      <3>2. minted' \subseteq LinkRows /\ links' \subseteq minted'
        BY <2>1, <2>2 DEF SharesTypeOK
      <3> QED
        BY <1>1, <3>1, <3>2 DEF SharesTypeOK
    <2>8. \A w \in Visitors : VisitOK(w)'
      BY <1>1, <1>2, <1>4, <2>1 DEF VisitOK
    <2>9. ShareAnswers'
      <3>1. ASSUME NEW w \in Visitors, AtShare(w, "answer")'
            PROVE  /\ share'[w].code = 200 => share'[w].began < share'[w].link.exp
                   /\ share'[w].code = 410 => share'[w].link.exp <= now'
                   /\ share'[w].code = 404 => share'[w].link \notin links'
        <4>1. w # v /\ share'[w] = share[w] /\ AtShare(w, "answer")
          BY <1>1, <3>1 DEF AtShare
        <4>2. share[w].link \in minted
          BY <4>1, AnsweredOpen DEF VisitOK
        <4> QED
          BY <1>2, <2>1, <2>3, <4>1, <4>2 DEF ShareAnswers
      <3> QED
        BY <3>1 DEF ShareAnswers
    <2> QED
      BY <1>2, <2>5, <2>6, <2>7, <2>8, <2>9
  <1> QED
    BY <1>5, <1>6

LEMMA ShareStepInv ==
  ASSUME SharesInv, NEW v \in Visitors, ShareStep(v)
  PROVE  SharesInv'
  BY MintInv, InsertLinkInv, OpenInv, RecordVisitInv DEF ShareStep

\* The links stay or go, the clock may advance, and no visitor moves.
LEMMA ArticlesMove ==
  ASSUME SharesInv, ScorerInv', now <= now', UNCHANGED <<minted, viewed, share>>,
         links' \subseteq links, ShareIntegrity'
  PROVE  SharesInv'
  <1> USE DEF SharesInv
  <1>1. SharesTypeOK' /\ LinksOK'
    BY DEF SharesTypeOK, LinksOK
  <1>2. now \in Nat /\ now' \in Nat
    BY DEF ScorerInv, ScorerTypeOK
  <1>3. \A v \in Visitors : VisitOK(v)'
    <2> SUFFICES ASSUME NEW v \in Visitors, share[v] \in OpenStates
                 PROVE  /\ share[v].link \in minted /\ share[v].began <= now'
                        /\ share[v].pc \in {"article", "visit"} =>
                             share[v].began < share[v].link.exp
      BY DEF VisitOK
    <2>1. share[v].began \in Nat
      BY DEF OpenStates
    <2> QED
      BY <1>2, <2>1 DEF VisitOK
  <1>4. ShareAnswers'
    <2>1. ASSUME NEW v \in Visitors, AtShare(v, "answer")
          PROVE  /\ share[v].code = 200 => share[v].began < share[v].link.exp
                 /\ share[v].code = 410 => share[v].link.exp <= now'
                 /\ share[v].code = 404 => share[v].link \notin links'
      <3>1. share[v].link.exp \in Nat
        BY <2>1, AnsweredOpen DEF OpenStates, LinkRows
      <3> QED
        BY <1>2, <2>1, <3>1 DEF ShareAnswers
    <2> QED
      BY <2>1 DEF ShareAnswers, AtShare
  <1> QED
    BY <1>1, <1>3, <1>4

LEMMA DeleteArticleInv ==
  ASSUME SharesInv, NEW a \in Articles, DeleteArticle(a)
  PROVE  SharesInv'
  <1> USE DEF SharesInv
  <1>1. /\ ScorerInv' /\ Alive' = Alive \ {a} /\ UNCHANGED <<now, minted, viewed, share>>
        /\ now \in Nat
    BY DeleteRowInv DEF DeleteArticle, DeleteRow, ScorerInv, ScorerTypeOK
  <1>2. /\ links' = {l \in links : l.article # a}
        /\ visits' = {w \in visits : \E l \in links' : l.id = w[1]}
    BY DEF DeleteArticle, Cascaded
  <1>3. ShareIntegrity'
    BY <1>1, <1>2 DEF ShareIntegrity
  <1> QED
    BY <1>1, <1>2, <1>3, ArticlesMove

\* The inductive invariant of the links, on top of that of the scorer.
THEOREM SpecSharesInv == SharesSpec => []SharesInv
  <1>1. SharesInv /\ [SharesNext]_allVars => SharesInv'
    <2> SUFFICES ASSUME SharesInv, [SharesNext]_allVars PROVE SharesInv'
      OBVIOUS
    <2>1. ScorerInv /\ ShareIntegrity /\ now \in Nat
      BY DEF SharesInv, ScorerInv, ScorerTypeOK
    <2>2. CASE UNCHANGED allVars
      <3>1. ScorerInv' /\ UNCHANGED <<now, Alive>>
        BY <2>1, <2>2, QuietScorer DEF allVars, scorerVars, Alive, ScorerInv, ScorerTypeOK
      <3>2. ShareIntegrity'
        BY <2>1, <2>2, <3>1 DEF allVars, shareVars, ShareIntegrity
      <3> QED
        BY <2>1, <2>2, <3>1, <3>2, ArticlesMove DEF allVars, shareVars
    <2>3. CASE ScorerStep
      <3>1. ScorerInv' /\ Alive' = Alive /\ now <= now' /\ UNCHANGED shareVars
        BY <2>1, <2>3, ScorerStepInv DEF ScorerStep
      <3>2. ShareIntegrity'
        BY <2>1, <3>1 DEF shareVars, ShareIntegrity
      <3> QED
        BY <3>1, <3>2, ArticlesMove DEF shareVars
    <2>4. ASSUME NEW v \in Visitors, ShareStep(v) PROVE SharesInv'
      BY <2>4, ShareStepInv
    <2>5. ASSUME NEW a \in Articles, DeleteArticle(a) PROVE SharesInv'
      BY <2>5, DeleteArticleInv
    <2> QED
      BY <2>2, <2>3, <2>4, <2>5 DEF SharesNext
  <1> QED
    BY <1>1, SharesInitInv, PTL DEF SharesSpec

\* Links refer to articles that are there, and visits are exactly the recorded
\* views of the links that are left, for any visitors, articles and lifetimes.
THEOREM SpecShareIntegrity == SharesSpec => []ShareIntegrity
  <1>1. SharesInv => ShareIntegrity
    BY DEF SharesInv
  <1> QED
    BY <1>1, SpecSharesInv, PTL

\* A page, a 404 and a 410 are each the right answer to the visitor, whatever
\* happened between the statements of the request.
THEOREM SpecShareAnswers == SharesSpec => []ShareAnswers
  <1>1. SharesInv => ShareAnswers
    BY DEF SharesInv
  <1> QED
    BY <1>1, SpecSharesInv, PTL

\* What is proved of the scorer alone also holds with the links around it,
\* where deleting an article cascades.
THEOREM SpecSharesScorer == SharesSpec => [](ResourcesBalanced /\ TierDrift)
  <1>1. SharesInv => ResourcesBalanced /\ TierDrift
    BY DEF SharesInv, ScorerInv, ResourcesOK, ResourcesBalanced, Calling, Connected
  <1> QED
    BY <1>1, SpecSharesInv, PTL

-----------------------------------------------------------------------------
(***************************************************************************)
(* The rate limiter                                                        *)
(***************************************************************************)

\* Calls that were counted in the current window and will be let through.
Pending == {h \in Handlers : call[h].pc \in {"expire", "admit"} /\ call[h].life = life}

\* Who is let through or will be has a place of its own among the counted hits.
PlacesOK ==
  /\ IsFiniteSet(Pending)
  /\ admitted + Cardinality(Pending) <= Limit
  /\ count # 0 => admitted + Cardinality(Pending) <= count

\* The first hit arms the key, which lives until then; nobody else does.
ArmingOK ==
  /\ count = 0 => ttl = Forever
  /\ \A h \in Handlers : call[h].pc = "expire" =>
       call[h].count = 1 /\ call[h].life = life /\ ttl = Forever /\ count # 0
  /\ \A g, h \in Handlers : call[g].pc = "expire" /\ call[h].pc = "expire" => g = h

\* What a refusal of this key still has to wait, of what is left of the key.
Told(h) == call[h].pc = "deny" /\ call[h].life = life /\ count # 0
WaitOK(h) == call[h].lag <= lag /\ Left <= call[h].retry + (lag - call[h].lag)

RetryOK == \A h \in Handlers : call[h].life <= life /\ (Told(h) => WaitOK(h))

LimiterInv == TypeOK /\ PlacesOK /\ ArmingOK /\ RetryOK

\* Adding or removing one call changes the places taken by one.
LEMMA PlacesStep ==
  ASSUME PlacesOK, admitted' \in Nat, admitted \in Nat, count \in Nat, count' = count,
         \/ Pending' = Pending /\ admitted' = admitted
         \/ \E h \in Pending : /\ Pending' = Pending \ {h}
                               /\ admitted' \in {admitted, admitted + 1}
  PROVE  PlacesOK'
  <1>1. Cardinality(Pending) \in Nat
    BY FS_CardinalityType DEF PlacesOK
  <1>2. CASE Pending' = Pending /\ admitted' = admitted
    BY <1>2 DEF PlacesOK
  <1>3. ASSUME NEW h \in Pending, Pending' = Pending \ {h},
               admitted' \in {admitted, admitted + 1}
        PROVE  PlacesOK'
    <2>1. IsFiniteSet(Pending') /\ Cardinality(Pending') = Cardinality(Pending) - 1
      BY <1>3, FS_RemoveElement DEF PlacesOK
    <2> QED
      BY <1>1, <1>3, <2>1, RateLimitAssumption DEF PlacesOK
  <1> QED
    BY <1>2, <1>3

LEMMA LimiterInit == Init => LimiterInv
  <1> SUFFICES ASSUME Init PROVE LimiterInv
    OBVIOUS
  <1> USE RateLimitAssumption DEF Init
  <1>1. TypeOK
    <2>1. NoHit \in [pc: {"idle", "expire", "admit", "ttl", "deny"},
                     count: Nat, life: Nat, retry: 0..Window, lag: Nat]
      BY DEF NoHit
    <2> QED
      BY <2>1 DEF TypeOK
  <1>2. PlacesOK
    <2>1. Pending = {}
      BY DEF Pending, NoHit
    <2> QED
      BY <2>1, FS_EmptySet DEF PlacesOK
  <1>3. ArmingOK /\ RetryOK
    BY DEF ArmingOK, RetryOK, Told, NoHit
  <1> QED
    BY <1>1, <1>2, <1>3 DEF LimiterInv

\* A tick takes as much from what is left of the key as from every wait, and
\* adds to the lag what it does not take from a key without expiry.  The key
\* goes when its time is up, which ends the window for everybody.
LEMMA TickInv == LimiterInv /\ Tick => LimiterInv'
  <1> SUFFICES ASSUME LimiterInv, Tick PROVE LimiterInv'
    OBVIOUS
  <1> USE RateLimitAssumption DEF LimiterInv
  <1>1. /\ UNCHANGED <<hits, faults, life, admitted, unarmed>>
        /\ call' = [h \in Handlers |->
             [call[h] EXCEPT !.retry = IF call[h].retry > 0 THEN call[h].retry - 1 ELSE 0]]
        /\ lag' = IF count # 0 /\ ttl = Forever THEN lag + 1 ELSE lag
    BY DEF Tick, NoExpiry
  <1>2. \/ ttl = Forever /\ ttl' = ttl /\ count' = count
        \/ ttl \in 1..Window /\ ttl > 1 /\ ttl' = ttl - 1 /\ count' = count
        \/ ttl \in 1..Window /\ ttl' = Forever /\ count' = 0
    BY DEF Tick, keyVars, TypeOK
  <1>3. \A h \in Handlers :
          /\ call'[h].pc = call[h].pc /\ call'[h].count = call[h].count
          /\ call'[h].life = call[h].life /\ call'[h].lag = call[h].lag
          /\ call'[h].retry = IF call[h].retry > 0 THEN call[h].retry - 1 ELSE 0
    BY <1>1 DEF TypeOK
  <1>4. TypeOK'
    <2>1. \A h \in Handlers :
            call'[h] \in [pc: {"idle", "expire", "admit", "ttl", "deny"},
                          count: Nat, life: Nat, retry: 0..Window, lag: Nat]
      BY <1>1 DEF TypeOK
    <2>2. lag' \in Nat
      BY <1>1 DEF TypeOK
    <2>3. count' \in Nat /\ ttl' \in 1..Window \cup {Forever}
      BY <1>2 DEF TypeOK
    <2> QED
      BY <1>1, <2>1, <2>2, <2>3 DEF TypeOK
  <1>5. PlacesOK'
    <2>1. Pending' = Pending
      BY <1>1, <1>3 DEF Pending
    <2> QED
      BY <1>1, <1>2, <2>1 DEF PlacesOK
  <1>6. ArmingOK'
    <2>1. count' = 0 => ttl' = Forever
      BY <1>2 DEF ArmingOK, TypeOK
    <2>2. \A h \in Handlers : call[h].pc = "expire" => ttl' = ttl /\ count' = count
      BY <1>2 DEF ArmingOK
    <2> QED
      <3>1. \A h \in Handlers : call'[h].pc = "expire" =>
              /\ call'[h].count = 1 /\ call'[h].life = life'
              /\ ttl' = Forever /\ count' # 0
        BY <1>1, <1>3, <2>2 DEF ArmingOK
      <3>2. \A g, h \in Handlers :
              call'[g].pc = "expire" /\ call'[h].pc = "expire" => g = h
        BY <1>3 DEF ArmingOK
      <3> QED
        BY <2>1, <3>1, <3>2 DEF ArmingOK
  <1>7. RetryOK'
    <2> SUFFICES ASSUME NEW h \in Handlers, Told(h)' PROVE WaitOK(h)'
      BY <1>1, <1>3 DEF RetryOK
    <2>1. Told(h) /\ WaitOK(h) /\ count' = count /\ count # 0
      BY <1>1, <1>2, <1>3 DEF Told, RetryOK
    <2>2. /\ call[h].retry \in Nat /\ call[h].lag \in Nat /\ lag \in Nat
      BY DEF TypeOK
    <2>3. CASE ttl = Forever
      BY <1>1, <1>2, <1>3, <2>1, <2>2, <2>3 DEF WaitOK, Left
    <2>4. CASE ttl # Forever
      BY <1>1, <1>2, <1>3, <2>1, <2>2, <2>4 DEF WaitOK, Left
    <2> QED
      BY <2>3, <2>4
  <1> QED
    BY <1>4, <1>5, <1>6, <1>7

\* A hit within the limit takes a place; the first one of a window finds
\* all places free.
LEMMA IncrInv ==
  ASSUME NEW h \in Handlers, LimiterInv, Incr(h) PROVE LimiterInv'
  <1> USE RateLimitAssumption DEF LimiterInv
  <1> DEFINE n == count + 1
             pc == IF n = 1 THEN "expire" ELSE IF n > Limit THEN "ttl" ELSE "admit"
  <1>1. /\ call[h].pc = "idle" /\ count' = n /\ ttl' = ttl /\ faults' = faults
        /\ life' = IF count = 0 THEN life + 1 ELSE life
        /\ call' = [call EXCEPT ![h] =
             [pc |-> pc, count |-> n, life |-> life', retry |-> 0, lag |-> 0]]
        /\ hits' = hits + 1
        /\ admitted' = IF count = 0 THEN 0 ELSE admitted
        /\ lag' = IF count = 0 THEN 0 ELSE lag
        /\ unarmed' = (count # 0 /\ unarmed)
    BY DEF Incr, Count, FirstHit, Over
  <1>2. TypeOK'
    BY <1>1 DEF TypeOK
  <1>3. /\ call'[h] = [pc |-> pc, count |-> n, life |-> life', retry |-> 0, lag |-> 0]
        /\ \A g \in Handlers \ {h} : call'[g] = call[g]
    BY <1>1 DEF TypeOK
  <1>4. PlacesOK'
    <2>1. CASE count = 0
      <3>1. Pending' = {h}
        <4>1. \A g \in Handlers \ {h} : call'[g].life # life'
          BY <1>1, <1>3, <2>1 DEF RetryOK, TypeOK
        <4> QED
          BY <1>1, <1>3, <2>1, <4>1 DEF Pending
      <3>2. IsFiniteSet(Pending') /\ Cardinality(Pending') = 1
        BY <3>1, FS_Singleton
      <3> QED
        BY <1>1, <2>1, <3>2 DEF PlacesOK
    <2>2. CASE count # 0 /\ n > Limit
      <3>1. Pending' = Pending
        BY <1>1, <1>3, <2>2 DEF Pending, TypeOK
      <3>2. Cardinality(Pending) \in Nat
        BY FS_CardinalityType DEF PlacesOK
      <3> QED
        BY <1>1, <2>2, <3>1, <3>2 DEF PlacesOK, TypeOK
    <2>3. CASE count # 0 /\ ~(n > Limit)
      <3>1. Pending' = Pending \cup {h} /\ h \notin Pending
        BY <1>1, <1>3, <2>3 DEF Pending, TypeOK
      <3>2. IsFiniteSet(Pending') /\ Cardinality(Pending') = Cardinality(Pending) + 1
        BY <3>1, FS_AddElement DEF PlacesOK
      <3>3. Cardinality(Pending) \in Nat
        BY FS_CardinalityType DEF PlacesOK
      <3> QED
        BY <1>1, <2>3, <3>2, <3>3 DEF PlacesOK, TypeOK
    <2> QED
      BY <2>1, <2>2, <2>3
  <1>5. ArmingOK'
    <2>1. \A g \in Handlers \ {h} : call'[g].pc = "expire" => count # 0
      BY <1>3 DEF ArmingOK
    <2> QED
      BY <1>1, <1>3, <2>1 DEF ArmingOK, TypeOK
  <1>6. RetryOK'
    <2>1. ~Told(h)' /\ call'[h].life <= life'
      BY <1>1, <1>3 DEF Told, TypeOK
    <2>2. ASSUME NEW g \in Handlers \ {h}
          PROVE  call'[g].life <= life' /\ (Told(g)' => WaitOK(g)')
      <3>1. call[g].life \in Nat /\ call[g].life <= life /\ life \in Nat
        BY <2>2 DEF RetryOK, TypeOK
      <3>2. CASE count = 0
        BY <1>1, <1>3, <2>2, <3>1, <3>2 DEF Told
      <3>3. CASE count # 0
        BY <1>1, <1>3, <2>2, <3>1, <3>3 DEF Told, WaitOK, Left, RetryOK
      <3> QED
        BY <3>2, <3>3
    <2> QED
      BY <2>1, <2>2 DEF RetryOK
  <1> QED
    BY <1>2, <1>4, <1>5, <1>6

\* An INCR whose reply was lost takes no place.
LEMMA CountInv ==
  ASSUME NEW h \in Handlers, LimiterInv, FailOpen(h), Count PROVE LimiterInv'
  <1> USE RateLimitAssumption DEF LimiterInv
  <1>1. /\ call' = call /\ count' = count + 1 /\ ttl' = ttl /\ hits' = hits + 1
        /\ faults' = faults + 1
        /\ life' = IF count = 0 THEN life + 1 ELSE life
        /\ admitted' = IF count = 0 THEN 0 ELSE admitted
        /\ lag' = IF count = 0 THEN 0 ELSE lag
    BY DEF FailOpen, Count
  <1>2. TypeOK'
    <2>1. unarmed' \in BOOLEAN
      BY DEF FailOpen, TypeOK, histVars
    <2> QED
      BY <1>1, <2>1 DEF TypeOK
  <1>3. PlacesOK'
    <2>1. CASE count = 0
      <3>1. Pending' = {}
        BY <1>1, <2>1 DEF Pending, RetryOK, TypeOK
      <3> QED
        BY <1>1, <2>1, <3>1, FS_EmptySet DEF PlacesOK, TypeOK
    <2>2. CASE count # 0
      <3>1. Pending' = Pending
        BY <1>1, <2>2 DEF Pending
      <3>2. Cardinality(Pending) \in Nat
        BY FS_CardinalityType DEF PlacesOK
      <3> QED
        BY <1>1, <2>2, <3>1, <3>2 DEF PlacesOK, TypeOK
    <2> QED
      BY <2>1, <2>2
  <1>4. ArmingOK'
    BY <1>1 DEF ArmingOK, TypeOK
  <1>5. RetryOK'
    <2> SUFFICES ASSUME NEW g \in Handlers
                 PROVE  call'[g].life <= life' /\ (Told(g)' => WaitOK(g)')
      BY DEF RetryOK
    <2>1. call[g].life \in Nat /\ call[g].life <= life /\ life \in Nat
      BY DEF RetryOK, TypeOK
    <2>2. CASE count = 0
      BY <1>1, <2>1, <2>2 DEF Told
    <2>3. CASE count # 0
      BY <1>1, <2>1, <2>3 DEF Told, WaitOK, Left, RetryOK
    <2> QED
      BY <2>2, <2>3
  <1> QED
    BY <1>2, <1>3, <1>4, <1>5

\* EXPIRE turns a key without expiry into one with a whole window to go, as
\* every refusal so far was told.
LEMMA ExpireInv ==
  ASSUME NEW h \in Handlers, LimiterInv, Expire(h) PROVE LimiterInv'
  <1> USE RateLimitAssumption DEF LimiterInv
  <1>1. /\ call[h].pc = "expire" /\ call[h].count = 1 /\ call[h].life = life
        /\ ttl = Forever /\ ttl' = Window /\ count # 0
        /\ call' = [call EXCEPT ![h].pc = "admit"]
        /\ UNCHANGED <<count, hits, faults, life, admitted, unarmed, lag>>
    <2>1. call[h].pc = "expire" /\ call[h].count = 1 /\ ~Over(call[h].count)
      BY DEF Expire, ArmingOK, Over
    <2> QED
      BY <2>1 DEF Expire, ArmingOK, histVars
  <1>2. TypeOK'
    BY <1>1 DEF TypeOK
  <1>3. /\ call'[h] = [call[h] EXCEPT !.pc = "admit"]
        /\ \A g \in Handlers \ {h} : call'[g] = call[g]
    BY <1>1 DEF TypeOK
  <1>4. call'[h].pc = "admit" /\ call'[h].life = call[h].life
    BY <1>3 DEF TypeOK
  <1>5. PlacesOK'
    <2>1. Pending' = Pending
      BY <1>1, <1>3, <1>4 DEF Pending
    <2> QED
      BY <1>1, <2>1, PlacesStep DEF TypeOK
  <1>6. ArmingOK'
    BY <1>1, <1>3, <1>4 DEF ArmingOK
  <1>7. RetryOK'
    <2>1. Left' = Left
      BY <1>1 DEF Left
    <2> QED
      BY <1>1, <1>3, <1>4, <2>1 DEF RetryOK, Told, WaitOK
  <1> QED
    BY <1>2, <1>5, <1>6, <1>7

\* A call that ends, by being let through, refused or cancelled, the last
\* perhaps with the key armed.
LEMMA EndInv ==
  ASSUME NEW h \in Handlers, LimiterInv, Admit(h) \/ Return(h) \/ Abort(h)
  PROVE  LimiterInv'
  <1> USE RateLimitAssumption DEF LimiterInv
  <1>1. /\ call' = [call EXCEPT ![h] = NoHit]
        /\ UNCHANGED <<count, hits, life, lag>>
        /\ faults' \in Nat /\ unarmed' \in BOOLEAN
        /\ admitted' = IF call[h].pc = "admit" /\ call[h].life = life
                         THEN admitted + 1 ELSE admitted
    <2>1. CASE Admit(h)
      BY <2>1 DEF Admit, keyVars, TypeOK
    <2>2. CASE Return(h)
      BY <2>2 DEF Return, keyVars, histVars, TypeOK
    <2>3. CASE Abort(h)
      <3>1. faults' \in Nat
        BY <2>3 DEF Abort, TypeOK
      <3>2. unarmed \in BOOLEAN
        BY DEF TypeOK
      <3>3. unarmed' \in BOOLEAN
        BY <2>3, <3>2, Zenon DEF Abort
      <3> QED
        BY <2>3, <3>1, <3>3 DEF Abort
    <2> QED
      BY <2>1, <2>2, <2>3
  <1>2. ttl' = ttl \/ (call[h].pc = "expire" /\ ttl' = Window)
    BY DEF Admit, Return, Abort, keyVars
  <1>3. TypeOK'
    <2>1. NoHit \in [pc: {"idle", "expire", "admit", "ttl", "deny"},
                     count: Nat, life: Nat, retry: 0..Window, lag: Nat]
      BY DEF NoHit
    <2>2. ttl' \in 1..Window \cup {Forever}
      BY <1>2 DEF TypeOK
    <2>3. admitted' \in Nat
      BY <1>1 DEF TypeOK
    <2> QED
      BY <1>1, <2>1, <2>2, <2>3 DEF TypeOK
  <1>4. /\ call'[h] = NoHit
        /\ \A g \in Handlers \ {h} : call'[g] = call[g]
    BY <1>1 DEF TypeOK
  <1>5. PlacesOK'
    <2>1. Pending' = Pending \ {h}
      BY <1>1, <1>4 DEF Pending, NoHit
    <2>2. admitted' # admitted => h \in Pending
      BY <1>1 DEF Pending
    <2>3. h \notin Pending => Pending' = Pending
      BY <2>1
    <2> QED
      BY <1>1, <2>1, <2>2, <2>3, PlacesStep DEF TypeOK
  <1>6. ArmingOK'
    BY <1>1, <1>2, <1>4 DEF ArmingOK, NoHit
  <1>7. RetryOK'
    <2>1. Left' = Left
      BY <1>2 DEF Left, ArmingOK
    <2>2. ~Told(h)' /\ call'[h].life <= life'
      BY <1>1, <1>4 DEF Told, NoHit, TypeOK
    <2> QED
      BY <1>1, <1>4, <2>1, <2>2 DEF RetryOK, Told, WaitOK
  <1> QED
    BY <1>3, <1>5, <1>6, <1>7

\* TTL: what is left of the window, or all of it.
LEMMA ReadTtlInv ==
  ASSUME NEW h \in Handlers, LimiterInv, ReadTtl(h) PROVE LimiterInv'
  <1> USE RateLimitAssumption DEF LimiterInv
  <1>1. /\ call[h].pc = "ttl"
        /\ call' = [call EXCEPT ![h].pc = "deny", ![h].retry = RetryAfter,
                                ![h].life = life, ![h].lag = lag]
        /\ UNCHANGED <<count, ttl, hits, faults, life, admitted, unarmed, lag>>
    BY DEF ReadTtl, keyVars, histVars
  <1>2. RetryAfter \in 0..Window
    BY DEF RetryAfter, TypeOK
  <1>3. TypeOK'
    <2>1. [call[h] EXCEPT !.pc = "deny", !.retry = RetryAfter, !.life = life, !.lag = lag]
            \in [pc: {"idle", "expire", "admit", "ttl", "deny"},
                 count: Nat, life: Nat, retry: 0..Window, lag: Nat]
      BY <1>2 DEF TypeOK
    <2>2. call' = [call EXCEPT ![h] =
                     [call[h] EXCEPT !.pc = "deny", !.retry = RetryAfter,
                                     !.life = life, !.lag = lag]]
      BY <1>1 DEF TypeOK
    <2> QED
      BY <1>1, <2>1, <2>2 DEF TypeOK
  <1>4. /\ call'[h].pc = "deny" /\ call'[h].life = life
        /\ call'[h].retry = RetryAfter /\ call'[h].lag = lag
        /\ \A g \in Handlers \ {h} : call'[g] = call[g]
    BY <1>1 DEF TypeOK
  <1>5. PlacesOK'
    <2>1. Pending' = Pending
      BY <1>1, <1>4 DEF Pending
    <2> QED
      BY <1>1, <2>1, PlacesStep DEF TypeOK
  <1>6. ArmingOK'
    BY <1>1, <1>4 DEF ArmingOK
  <1>7. RetryOK'
    <2>1. WaitOK(h)' /\ call'[h].life <= life'
      BY <1>1, <1>2, <1>4 DEF WaitOK, Left, RetryAfter, TypeOK
    <2> QED
      BY <1>1, <1>4, <2>1 DEF RetryOK, Told, WaitOK, Left
  <1> QED
    BY <1>3, <1>5, <1>6, <1>7

\* Steps that leave the key, the calls and the history alone.
LEMMA LimiterQuiet ==
  ASSUME LimiterInv, UNCHANGED <<keyVars, call, histVars>>, hits' \in Nat, faults' \in Nat
  PROVE  LimiterInv'
  <1>1. UNCHANGED <<count, ttl, call, life, admitted, unarmed, lag>>
    BY DEF keyVars, histVars
  <1>2. Pending' = Pending
    BY <1>1 DEF Pending
  <1> QED
    BY <1>1, <1>2 DEF LimiterInv, TypeOK, PlacesOK, ArmingOK, RetryOK, Told, WaitOK, Left

LEMMA LimiterNext == LimiterInv /\ [Next]_vars => LimiterInv'
  <1> SUFFICES ASSUME LimiterInv, [Next]_vars PROVE LimiterInv'
    OBVIOUS
  <1>1. CASE UNCHANGED vars
    BY <1>1, LimiterQuiet DEF vars, LimiterInv, TypeOK
  <1>2. CASE Tick
    BY <1>2, TickInv
  <1>3. ASSUME NEW h \in Handlers, Incr(h) \/ EnforceStep(h) PROVE LimiterInv'
    BY <1>3, IncrInv, ExpireInv, EndInv, ReadTtlInv DEF EnforceStep
  <1>4. ASSUME NEW h \in Handlers, FailOpen(h) PROVE LimiterInv'
    <2>1. CASE UNCHANGED <<keyVars, histVars>>
      BY <1>4, <2>1, LimiterQuiet DEF FailOpen, LimiterInv, TypeOK
    <2>2. CASE Count
      BY <1>4, <2>2, CountInv
    <2> QED
      BY <1>4, <2>1, <2>2 DEF FailOpen
  <1>5. ASSUME NEW h \in Handlers, Return(h) \/ Abort(h) PROVE LimiterInv'
    BY <1>5, EndInv
  <1> QED
    BY <1>1, <1>2, <1>3, <1>4, <1>5 DEF Next

\* The inductive invariant of the rate limiter (_enforce of rate_limit.py).
THEOREM SpecLimiterInv == Spec => []LimiterInv
  BY LimiterInit, LimiterNext, PTL DEF Spec

\* However many handlers hit a bucket at once, at most Limit requests pass in
\* one window.
THEOREM SpecWindowLimit == Spec => []WindowLimit
  <1>1. LimiterInv => WindowLimit
    BY FS_CardinalityType, RateLimitAssumption DEF LimiterInv, PlacesOK, TypeOK, WindowLimit
  <1> QED
    BY <1>1, SpecLimiterInv, PTL

\* A client that waits as long as it was told finds its key over, or is short by
\* the time that key has been without expiry since.
THEOREM SpecRetryAfterSuffices == Spec => []RetryAfterSuffices
  <1>1. LimiterInv => RetryAfterSuffices
    BY DEF LimiterInv, RetryOK, Told, WaitOK, RetryAfterSuffices
  <1> QED
    BY <1>1, SpecLimiterInv, PTL

(***************************************************************************)
(* The shell                                                               *)
(***************************************************************************)

Ids == GivenIds \cup Nat \cup {NoId}
RouteAnswer == [status: Statuses, problem: BOOLEAN, instance: Ids]
RequestState ==
  [no: Nat, id: GivenIds \cup Nat, answer: RouteAnswer \cup {NoRequest}, raised: BOOLEAN]

ShellTypeOK ==
  /\ served \in Nat
  /\ request \in [Requests -> RequestState \cup {NoRequest}]
  /\ current \in [Requests -> Ids]

\* A request under way has its own number, has been neither answered nor
\* logged, and its task sees its id until it is done with it.
RequestOK(r) ==
  request[r] # NoRequest =>
    /\ request[r].no \in 1..served
    /\ request[r].id \in GivenIds \/ request[r].id = request[r].no
    /\ current[r] = IF request[r].raised THEN NoId ELSE request[r].id
    /\ request[r].answer # NoRequest =>
         /\ ~request[r].raised
         /\ request[r].answer.problem => request[r].answer.instance = request[r].id
    /\ \A a \in answers : a.no # request[r].no
    /\ \A record \in access : record.no # request[r].no

NumbersOK ==
  /\ \A q, r \in Requests :
       /\ request[q] # NoRequest /\ request[r] # NoRequest
       /\ request[q].no = request[r].no
       => q = r
  /\ \A a \in answers : a.no \in 1..served /\ (a.header \in Nat => a.header = a.no)
  /\ \A a, b \in answers : a.no = b.no => a = b
  /\ \A record \in access : record.no \in 1..served

ShellInv ==
  /\ ShellTypeOK
  /\ \A r \in Requests : RequestOK(r)
  /\ NumbersOK
  /\ AnswersTraceable

LEMMA ShellInitInv == ShellInit => ShellInv
  BY ShellAssumption
  DEF ShellInit, ShellInv, ShellTypeOK, RequestOK, NumbersOK, AnswersTraceable, Ids

\* A step that sends nothing, logs nothing and changes one request at most.
LEMMA QuietRequest ==
  ASSUME NEW r \in Requests, ShellInv, ShellTypeOK', UNCHANGED <<answers, access>>,
         served <= served', RequestOK(r)',
         \A q \in Requests \ {r} : request'[q] = request[q] /\ current'[q] = current[q],
         request'[r] # NoRequest =>
           \A q \in Requests \ {r} : request[q] # NoRequest => request[q].no # request'[r].no
  PROVE  ShellInv'
  <1> USE DEF ShellInv
  <1>1. \A q \in Requests : RequestOK(q)'
    BY DEF RequestOK, ShellTypeOK
  <1>2. NumbersOK'
    BY DEF NumbersOK, ShellTypeOK
  <1>3. AnswersTraceable'
    BY DEF AnswersTraceable, Logged
  <1> QED
    BY <1>1, <1>2, <1>3

\* One more answer, with a number of its own, that is traceable itself.
LEMMA OneAnswer ==
  ASSUME ShellInv, NEW a, ShellTypeOK', served <= served',
         answers' = answers \cup {a}, access \subseteq access',
         a.no \in 1..served', a.header \in Nat => a.header = a.no,
         \A b \in answers : b.no # a.no,
         \A record \in access' \ access : record.no = a.no,
         IF a.header = NoId
           THEN /\ a.instance = NoId /\ (a.dressed <=> ~a.problem)
                /\ \A record \in access' : record.no # a.no
           ELSE /\ \E record \in access' :
                     record.no = a.no /\ record.status = a.status /\ record.id = a.header
                /\ a.problem => a.instance = a.header,
         \A q \in Requests : request'[q] # NoRequest =>
           /\ request'[q] = request[q] /\ current'[q] = current[q]
           /\ request[q].no # a.no
  PROVE  ShellInv'
  <1> USE DEF ShellInv
  <1>1. \A q \in Requests : RequestOK(q)'
    BY DEF RequestOK, ShellTypeOK
  <1>2. NumbersOK'
    BY DEF NumbersOK, ShellTypeOK
  <1>3. AnswersTraceable'
    <2>1. ASSUME NEW b \in answers'
          PROVE  IF b.header = NoId
                   THEN /\ b.instance = NoId /\ (b.dressed <=> ~b.problem)
                        /\ \A record \in access' : record.no # b.no
                   ELSE Logged(b)' /\ (b.problem => b.instance = b.header)
      <3>1. CASE b = a
        BY <3>1 DEF Logged
      <3>2. CASE b \in answers /\ b # a
        <4>1. \A record \in access' \ access : record.no # b.no
          BY <3>2
        <4>2. Logged(b) => Logged(b)'
          BY DEF Logged
        <4> QED
          BY <3>2, <4>1, <4>2 DEF AnswersTraceable
      <3> QED
        BY <3>1, <3>2
    <2>2. \A b, c \in answers' : b.header = c.header /\ b.header \in Nat => b = c
      BY <1>2 DEF NumbersOK
    <2> QED
      BY <2>1, <2>2 DEF AnswersTraceable
  <1> QED
    BY <1>1, <1>2, <1>3

LEMMA PreflightInv == ShellInv /\ Preflight => ShellInv'
  <1> SUFFICES ASSUME ShellInv, Preflight PROVE ShellInv'
    OBVIOUS
  <1> USE DEF ShellInv
  <1>1. PICK status \in {"2xx", "4xx"} : Send(served', NoId, TRUE, Plain(status))
    BY DEF Preflight
  <1> DEFINE a == [no |-> served', header |-> NoId, dressed |-> TRUE, status |-> status,
                   problem |-> FALSE, instance |-> NoId]
  <1>2. /\ served' = served + 1 /\ UNCHANGED <<request, current, access>>
        /\ answers' = answers \cup {a}
    BY <1>1 DEF Preflight, Send, Plain
  <1>3. ShellTypeOK'
    BY <1>2 DEF ShellTypeOK
  <1>4. /\ \A b \in answers : b.no # served'
        /\ \A b \in access : b.no # served'
        /\ \A q \in Requests : request[q] # NoRequest => request[q].no # served'
    BY <1>2 DEF NumbersOK, RequestOK, ShellTypeOK
  <1> HIDE DEF a
  <1>5. /\ a.no = served' /\ a.header = NoId /\ a.instance = NoId
        /\ a.dressed = TRUE /\ a.problem = FALSE
    BY DEF a
  <1> QED
    <2>1. served <= served' /\ served' \in 1..served'
      BY <1>2 DEF ShellTypeOK
    <2>2. a.header \notin Nat
      BY <1>5, ShellAssumption
    <2>3. access \subseteq access' /\ access' \ access = {}
      BY <1>2
    <2>4. answers' = answers \cup {a} /\ \A b \in answers : b.no # a.no
      BY <1>2, <1>4, <1>5 DEF a
    <2>5. IF a.header = NoId
            THEN /\ a.instance = NoId /\ (a.dressed <=> ~a.problem)
                 /\ \A record \in access' : record.no # a.no
            ELSE /\ \E record \in access' :
                      record.no = a.no /\ record.status = a.status /\ record.id = a.header
                 /\ a.problem => a.instance = a.header
      BY <1>2, <1>4, <1>5
    <2>6. \A q \in Requests : request'[q] # NoRequest =>
            /\ request'[q] = request[q] /\ current'[q] = current[q]
            /\ request[q].no # a.no
      BY <1>2, <1>4, <1>5
    <2> QED
      BY <1>3, <1>5, <2>1, <2>2, <2>3, <2>4, <2>5, <2>6, OneAnswer

LEMMA EnterInv ==
  ASSUME NEW r \in Requests, ShellInv, Enter(r) PROVE ShellInv'
  <1> USE DEF ShellInv
  <1>1. PICK inbound \in GivenIds \cup {Malformed, NoId} :
          /\ current' = [current EXCEPT ![r] = ChosenId(inbound)]
          /\ request' = [request EXCEPT ![r] =
               [no |-> served', id |-> ChosenId(inbound), answer |-> NoRequest, raised |-> FALSE]]
    BY DEF Enter
  <1>2. served' = served + 1 /\ served \in Nat /\ UNCHANGED <<access, answers>>
    BY DEF Enter, ShellTypeOK
  <1>3. ChosenId(inbound) \in GivenIds \cup {served'}
    BY DEF ChosenId
  <1>4. ShellTypeOK'
    BY <1>1, <1>2, <1>3 DEF ShellTypeOK, RequestState, Ids
  <1>5. /\ request'[r] = [no |-> served', id |-> ChosenId(inbound), answer |-> NoRequest,
                          raised |-> FALSE]
        /\ current'[r] = ChosenId(inbound)
        /\ \A q \in Requests \ {r} : request'[q] = request[q] /\ current'[q] = current[q]
    BY <1>1 DEF ShellTypeOK
  <1>6. /\ \A b \in answers : b.no # served'
        /\ \A b \in access : b.no # served'
        /\ \A q \in Requests : request[q] # NoRequest => request[q].no # served'
    BY <1>2 DEF NumbersOK, RequestOK, ShellTypeOK
  <1>7. RequestOK(r)'
    <2>1. /\ request'[r].no = served' /\ request'[r].id = ChosenId(inbound)
          /\ request'[r].answer = NoRequest /\ request'[r].raised = FALSE
          /\ served' \in 1..served'
      BY <1>2, <1>5
    <2>2. request'[r].id \in GivenIds \/ request'[r].id = request'[r].no
      BY <1>3, <2>1
    <2>3. \A b \in answers' : b.no # request'[r].no
      BY <1>2, <1>6, <2>1
    <2>4. \A b \in access' : b.no # request'[r].no
      BY <1>2, <1>6, <2>1
    <2>5. current'[r] = request'[r].id
      BY <1>5, <2>1
    <2> QED
      BY <2>1, <2>2, <2>3, <2>4, <2>5 DEF RequestOK
  <1> QED
    BY <1>2, <1>4, <1>5, <1>6, <1>7, QuietRequest DEF ShellTypeOK

\* The task of the request sees the id of the request, so an error body names it.
LEMMA RouteInv ==
  ASSUME NEW r \in Requests, ShellInv, Route(r) \/ Raise(r) PROVE ShellInv'
  <1> USE DEF ShellInv
  <1>1. /\ request[r] # NoRequest /\ request[r].answer = NoRequest /\ ~request[r].raised
        /\ UNCHANGED <<served, access, answers>>
        /\ request[r] \in RequestState
    BY DEF Route, Raise, Running, ShellTypeOK
  <1>2. CASE Route(r)
    <2>1. PICK answer \in {Plain(s) : s \in Statuses} \cup {Problem(r, s) : s \in {"4xx", "5xx"}} :
            request' = [request EXCEPT ![r].answer = answer]
      BY <1>2 DEF Route
    <2>2. current' = current
      BY <1>2 DEF Route
    <2>3. answer \in RouteAnswer /\ (answer.problem => answer.instance = request[r].id)
      <3>1. current[r] = request[r].id /\ current[r] \in Ids
        BY <1>1 DEF RequestOK, ShellTypeOK
      <3>2. CASE answer \in {Plain(s) : s \in Statuses}
        <4>1. PICK status \in Statuses : answer = Plain(status)
          BY <3>2
        <4>2. answer.problem = FALSE
          BY <4>1 DEF Plain
        <4> QED
          BY <4>1, <4>2 DEF Plain, RouteAnswer, Ids
      <3>3. CASE answer \in {Problem(r, s) : s \in {"4xx", "5xx"}}
        <4>1. PICK status \in {"4xx", "5xx"} : answer = Problem(r, status)
          BY <3>3
        <4>2. answer.instance = current[r]
          BY <4>1 DEF Problem, InScope
        <4> QED
          BY <3>1, <4>1, <4>2 DEF Problem, InScope, RouteAnswer, Statuses
      <3> QED
        BY <2>1, <3>2, <3>3
    <2>4. request'[r] = [request[r] EXCEPT !.answer = answer]
          /\ \A q \in Requests \ {r} : request'[q] = request[q]
      BY <2>1 DEF ShellTypeOK
    <2>5. /\ request'[r] \in RequestState /\ request'[r].answer = answer
          /\ request'[r].no = request[r].no /\ request'[r].id = request[r].id
          /\ request'[r].raised = FALSE
      BY <1>1, <2>3, <2>4 DEF RequestState
    <2>6. ShellTypeOK'
      BY <1>1, <2>1, <2>2, <2>5 DEF ShellTypeOK
    <2>7. RequestOK(r)'
      BY <1>1, <2>2, <2>3, <2>5 DEF RequestOK
    <2>8. \A q \in Requests \ {r} : request[q] # NoRequest => request[q].no # request'[r].no
      BY <1>1, <2>5 DEF NumbersOK
    <2>9. served <= served' /\ \A q \in Requests \ {r} : current'[q] = current[q]
      BY <1>1, <2>2 DEF ShellTypeOK
    <2> QED
      BY <1>1, <2>4, <2>6, <2>7, <2>8, <2>9, QuietRequest
  <1>3. CASE Raise(r)
    <2>1. request' = [request EXCEPT ![r].raised = TRUE] /\ current' = [current EXCEPT ![r] = NoId]
      BY <1>3 DEF Raise
    <2>2. /\ request'[r] = [request[r] EXCEPT !.raised = TRUE] /\ current'[r] = NoId
          /\ \A q \in Requests \ {r} : request'[q] = request[q] /\ current'[q] = current[q]
      BY <2>1 DEF ShellTypeOK
    <2>3. /\ request'[r] \in RequestState /\ request'[r].answer = NoRequest
          /\ request'[r].no = request[r].no /\ request'[r].id = request[r].id
          /\ request'[r].raised = TRUE
      BY <1>1, <2>2 DEF RequestState
    <2>4. ShellTypeOK'
      BY <1>1, <2>1, <2>3 DEF ShellTypeOK, Ids
    <2>5. RequestOK(r)'
      BY <1>1, <2>2, <2>3 DEF RequestOK
    <2>6. \A q \in Requests \ {r} : request[q] # NoRequest => request[q].no # request'[r].no
      BY <1>1, <2>3 DEF NumbersOK
    <2>7. served <= served'
      BY <1>1 DEF ShellTypeOK
    <2> QED
      BY <1>1, <2>2, <2>4, <2>5, <2>6, <2>7, QuietRequest
  <1> QED
    BY <1>2, <1>3

\* Outside the middlewares nothing is left of the id.
LEMMA CatchAllInv ==
  ASSUME NEW r \in Requests, ShellInv, CatchAll(r) PROVE ShellInv'
  <1> USE DEF ShellInv
  <1> DEFINE a == [no |-> request[r].no, header |-> NoId, dressed |-> FALSE, status |-> "5xx",
                   problem |-> TRUE, instance |-> current[r]]
  <1>1. /\ request[r] # NoRequest /\ request[r].raised
        /\ answers' = answers \cup {a}
        /\ request' = [request EXCEPT ![r] = NoRequest]
        /\ UNCHANGED <<current, served, access>>
    BY DEF CatchAll, Send, Problem, InScope
  <1>2. ShellTypeOK'
    BY <1>1 DEF ShellTypeOK
  <1>3. /\ current[r] = NoId /\ request[r].no \in 1..served
        /\ \A b \in answers : b.no # request[r].no
        /\ \A record \in access : record.no # request[r].no
    BY <1>1 DEF RequestOK
  <1>4. \A q \in Requests : request'[q] # NoRequest =>
          request'[q] = request[q] /\ request[q].no # request[r].no
    BY <1>1 DEF NumbersOK, ShellTypeOK
  <1> HIDE DEF a
  <1>5. /\ a.no = request[r].no /\ a.header = NoId /\ a.instance = NoId
        /\ a.dressed = FALSE /\ a.problem = TRUE
    BY <1>3 DEF a
  <1> QED
    BY <1>1, <1>2, <1>3, <1>4, <1>5, OneAnswer, ShellAssumption DEF ShellTypeOK

\* The answer and its record leave with one number and one id.
LEMMA LeaveInv ==
  ASSUME NEW r \in Requests, ShellInv, Leave(r) PROVE ShellInv'
  <1> USE DEF ShellInv
  <1> DEFINE sent == request[r].answer
             a == [no |-> request[r].no, header |-> request[r].id, dressed |-> TRUE,
                   status |-> sent.status, problem |-> sent.problem, instance |-> sent.instance]
             entry == [no |-> request[r].no, id |-> current[r], status |-> sent.status]
  <1>1. /\ request[r] # NoRequest /\ sent # NoRequest
        /\ answers' = answers \cup {a} /\ access' = access \cup {entry}
        /\ request' = [request EXCEPT ![r] = NoRequest]
        /\ current' = [current EXCEPT ![r] = NoId]
        /\ served' = served
    BY DEF Leave, Send, InScope
  <1>2. ShellTypeOK'
    BY <1>1 DEF ShellTypeOK, Ids
  <1>3. /\ request[r].no \in 1..served /\ request[r].id # NoId
        /\ request[r].id \in Nat => request[r].id = request[r].no
        /\ sent.problem => sent.instance = request[r].id
        /\ current[r] = request[r].id
        /\ \A b \in answers : b.no # request[r].no
    BY <1>1, ShellAssumption DEF RequestOK, ShellTypeOK
  <1>4. \A q \in Requests : request'[q] # NoRequest =>
          /\ request'[q] = request[q] /\ current'[q] = current[q]
          /\ request[q].no # request[r].no
    BY <1>1 DEF NumbersOK, ShellTypeOK
  <1> HIDE DEF a, entry
  <1>5. /\ a.no = request[r].no /\ a.header = request[r].id /\ a.status = sent.status
        /\ a.problem = sent.problem /\ a.instance = sent.instance
        /\ entry.no = a.no /\ entry.id = a.header /\ entry.status = a.status
    BY <1>3 DEF a, entry
  <1>6. \E record \in access' :
          record.no = a.no /\ record.status = a.status /\ record.id = a.header
    BY <1>1, <1>5
  <1>7. served <= served' /\ \A record \in access' \ access : record.no = a.no
    BY <1>1, <1>5 DEF ShellTypeOK
  <1> QED
    BY <1>1, <1>2, <1>3, <1>4, <1>5, <1>6, <1>7, OneAnswer

LEMMA ShellNextInv == ShellInv /\ [ShellNext]_shellVars => ShellInv'
  <1> SUFFICES ASSUME ShellInv, [ShellNext]_shellVars PROVE ShellInv'
    OBVIOUS
  <1>1. CASE UNCHANGED shellVars
    BY <1>1 DEF shellVars, ShellInv, ShellTypeOK, RequestOK, NumbersOK, AnswersTraceable, Logged
  <1> QED
    BY <1>1, PreflightInv, EnterInv, RouteInv, CatchAllInv, LeaveInv DEF ShellNext

\* The inductive invariant of the shell: whose id is where while requests overlap.
THEOREM SpecShellInv == ShellSpec => []ShellInv
  BY ShellInitInv, ShellNextInv, PTL DEF ShellSpec

\* Every answer leads to its own log record, or is one of those that cannot.
THEOREM SpecAnswersTraceable == ShellSpec => []AnswersTraceable
  <1>1. ShellInv => AnswersTraceable
    BY DEF ShellInv
  <1> QED
    BY <1>1, SpecShellInv, PTL

=============================================================================
