------------------------------ MODULE MCService ------------------------------
(* What the API does around and behind its requests: scoring tasks and share *)
(* links over the same articles, the rate limiter and the shell of           *)
(* middlewares.  `scope`, fixed at the start, says which of them a behaviour *)
(* is about: tasks and visitors only meet in the row of an article, the      *)
(* others share no state.                                                    *)
EXTENDS Shares, RateLimit, Shell

CONSTANTS a1, a2, t1, t2, t3, v1, v2, h1, h2, h3, r1, r2, g, Scopes

VARIABLE scope

MCArticleSet == {a1, a2}
MCTasks == {t1, t2, t3}
MCVisitors == {v1, v2}
MCScores == {86, 90}
MCLifetimes == {1}
MCHandlers == {h1, h2, h3}
MCRequests == {r1, r2}
MCGivenIds == {g}

serviceVars == <<allVars, vars, shellVars, scope>>

MCInit ==
  /\ SharesInit /\ Init /\ ShellInit
  /\ scope \in Scopes

\* Enough for the cases: tasks only meet on an article they share, and a
\* deletion must leave the links of another article alone.
ArticlesNext ==
  /\ SharesNext
  /\ table'[a2] = table[a2]
  /\ \/ /\ scope = "tasks"
        /\ UNCHANGED share
        /\ \A t \in Tasks : task'[t] # Idle => task'[t].article = a1
     \/ scope = "visitors" /\ UNCHANGED task

MCNext ==
  /\ UNCHANGED scope
  /\ \/ ArticlesNext /\ UNCHANGED <<vars, shellVars>>
     \/ scope = "limiter" /\ Next /\ UNCHANGED <<allVars, shellVars>>
     \/ scope = "shell" /\ ShellNext /\ UNCHANGED <<allVars, vars>>

MCSpec == MCInit /\ [][MCNext]_serviceVars /\ ScorerFairness /\ Fairness
=============================================================================
