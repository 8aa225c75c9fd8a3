------------------------------ MODULE RateLimit ------------------------------
(***************************************************************************)
(* The fixed-window rate limiter: _enforce runs INCR, then EXPIRE for the  *)
(* first hit, then TTL for a hit over the limit, as separate Redis         *)
(* commands of concurrent request handlers on one bucket.  Redis may fail  *)
(* INCR, before or after it counted (the limiter fails open); a handler    *)
(* may be cancelled, or Redis fail it, between two commands.  Time passes  *)
(* meanwhile, also while a key has no expiry yet.                          *)
(***************************************************************************)
EXTENDS Naturals, FiniteSets

CONSTANTS
  Handlers,    \* request handlers on the bucket
  Limit,       \* hits allowed in a window
  Window,      \* window_s, in ticks of the clock
  Forever,     \* TTL of a key without expiry
  MaxHits,     \* bound: requests over a behaviour
  MaxLag,      \* bound: ticks a key goes without expiry
  MaxFaults    \* bound: unreachable Redis and cancelled handlers

ASSUME RateLimitAssumption ==
  /\ Limit \in Nat \ {0} /\ Window \in Nat \ {0}
  /\ MaxHits \in Nat /\ MaxFaults \in Nat /\ MaxLag \in Nat
  /\ Forever \notin Nat

VARIABLES
  count,      \* value of the bucket; 0 when the key does not exist
  ttl,        \* seconds left, or Forever
  call,       \* call[h]: the _enforce call h executes
  hits,       \* requests so far
  faults,     \* faults so far
  life,       \* history: the keys created so far
  admitted,   \* history: hits on the current key that were let through
  unarmed,    \* history: the EXPIRE of the current key was lost
  lag         \* history: ticks the current key went without expiry

keyVars == <<count, ttl>>
histVars == <<life, admitted, unarmed, lag>>
vars == <<keyVars, call, hits, faults, histVars>>

\* `count` is what INCR returned and `life` the key it counted on.  Of a refusal,
\* `life` is the key whose TTL was told, `lag` what was its lag then, and
\* `retry` the ticks the client still has to wait.
NoHit == [pc |-> "idle", count |-> 0, life |-> 0, retry |-> 0, lag |-> 0]

Init ==
  /\ count = 0 /\ ttl = Forever
  /\ call = [h \in Handlers |-> NoHit]
  /\ hits = 0 /\ faults = 0
  /\ life = 0 /\ admitted = 0 /\ unarmed = FALSE /\ lag = 0

\* The key exists and would stay for ever.
NoExpiry == count # 0 /\ ttl = Forever

\* Time passes, for the clients that wait and for the key, which vanishes at
\* the end of its window.
Tick ==
  /\ NoExpiry => lag < MaxLag
  /\ call' = [h \in Handlers |->
       [call[h] EXCEPT !.retry = IF @ > 0 THEN @ - 1 ELSE 0]]
  /\ lag' = IF NoExpiry THEN lag + 1 ELSE lag
  /\ IF ttl = Forever THEN UNCHANGED keyVars
     ELSE IF ttl > 1
       THEN ttl' = ttl - 1 /\ UNCHANGED count
       ELSE ttl' = Forever /\ count' = 0
  /\ UNCHANGED <<hits, faults, life, admitted, unarmed>>

\* Mutant: one hit too many.
OverByOne(n) == n > Limit + 1
Over(n) == n > Limit

FirstHit(n) == n = 1

\* INCR, which creates a missing key.
Count ==
  /\ count' = count + 1
  /\ life' = IF count = 0 THEN life + 1 ELSE life
  /\ admitted' = IF count = 0 THEN 0 ELSE admitted
  /\ lag' = IF count = 0 THEN 0 ELSE lag
  /\ UNCHANGED ttl

\* What follows depends on what INCR returns.
Incr(h) ==
  LET n == count + 1 IN
  /\ call[h].pc = "idle" /\ hits < MaxHits
  /\ Count
  /\ call' = [call EXCEPT ![h] =
       [pc |-> IF FirstHit(n) THEN "expire" ELSE IF Over(n) THEN "ttl" ELSE "admit",
        count |-> n, life |-> life', retry |-> 0, lag |-> 0]]
  /\ hits' = hits + 1
  /\ unarmed' = (count # 0 /\ unarmed)
  /\ UNCHANGED faults

\* Mutant: EXPIRE with the GT flag, which never arms a key without expiry.
ExpireGreater(h) ==
  /\ call[h].pc = "expire"
  /\ call' = [call EXCEPT ![h].pc = IF Over(call[h].count) THEN "ttl" ELSE "admit"]
  /\ UNCHANGED <<keyVars, hits, faults, histVars>>

\* EXPIRE, after the first hit only.
Expire(h) ==
  /\ call[h].pc = "expire"
  /\ ttl' = Window
  /\ call' = [call EXCEPT ![h].pc = IF Over(call[h].count) THEN "ttl" ELSE "admit"]
  /\ UNCHANGED <<count, hits, faults, histVars>>

\* The route goes on.
Admit(h) ==
  /\ call[h].pc = "admit"
  /\ call' = [call EXCEPT ![h] = NoHit]
  /\ admitted' = IF call[h].life = life THEN admitted + 1 ELSE admitted
  /\ UNCHANGED <<keyVars, hits, faults, life, unarmed, lag>>

\* Mutant: a key without expiry needs no waiting.
RetryAfterNow == IF ttl = Forever THEN 0 ELSE ttl
\* TTL, whose -1 (no expiry) and -2 (no key) are answered with the window.
RetryAfter == IF ttl = Forever THEN Window ELSE ttl

\* 429 with Retry-After, which the client now waits for.
ReadTtl(h) ==
  /\ call[h].pc = "ttl"
  /\ call' = [call EXCEPT ![h].pc = "deny", ![h].retry = RetryAfter,
                          ![h].life = life, ![h].lag = lag]
  /\ UNCHANGED <<keyVars, hits, faults, histVars>>

\* The client is done with its refusal, whether it waited or not.
Return(h) ==
  /\ call[h].pc = "deny"
  /\ call' = [call EXCEPT ![h] = NoHit]
  /\ UNCHANGED <<keyVars, hits, faults, histVars>>

\* INCR fails, and the request is let through uncounted.  Redis may not have
\* seen the command, or have counted it and the reply was lost: then nobody
\* sends the EXPIRE of a key that this created.
FailOpen(h) ==
  /\ call[h].pc = "idle" /\ hits < MaxHits /\ faults < MaxFaults
  /\ hits' = hits + 1 /\ faults' = faults + 1
  /\ \/ UNCHANGED <<keyVars, histVars>>
     \/ Count /\ unarmed' = (count = 0 \/ unarmed)
  /\ UNCHANGED call

\* EXPIRE or TTL fails, or the handler is cancelled: the request ends here.  The
\* EXPIRE may have been carried out and its reply lost.
Abort(h) ==
  /\ call[h].pc \in {"expire", "ttl"} /\ faults < MaxFaults
  /\ call' = [call EXCEPT ![h] = NoHit]
  /\ faults' = faults + 1
  /\ \/ unarmed' = (unarmed \/ call[h].pc = "expire") /\ UNCHANGED ttl
     \/ call[h].pc = "expire" /\ ttl' = Window /\ UNCHANGED unarmed
  /\ UNCHANGED <<count, hits, life, admitted, lag>>

EnforceStep(h) == Expire(h) \/ Admit(h) \/ ReadTtl(h)

Next ==
  \/ Tick
  \/ \E h \in Handlers :
       Incr(h) \/ EnforceStep(h) \/ Return(h) \/ FailOpen(h) \/ Abort(h)

Spec == Init /\ [][Next]_vars

\* Time goes on, and a handler goes on with its call.
Fairness == WF_vars(Tick) /\ \A h \in Handlers : WF_vars(EnforceStep(h))

(***************************************************************************)
(* Properties                                                              *)
(***************************************************************************)

\* Types of every variable.
TypeOK ==
  /\ count \in Nat /\ hits \in Nat /\ faults \in Nat
  /\ life \in Nat /\ admitted \in Nat /\ unarmed \in BOOLEAN /\ lag \in Nat
  /\ ttl \in 1..Window \cup {Forever}
  /\ call \in [Handlers -> [pc: {"idle", "expire", "admit", "ttl", "deny"},
                            count: Nat, life: Nat, retry: 0..Window, lag: Nat]]

\* However many handlers hit the bucket at once, at most Limit requests pass
\* between the creation of the key and its expiry.
WindowLimit == admitted <= Limit

\* What is left of the window if the EXPIRE that is missing came at once.
Left == IF ttl = Forever THEN Window ELSE ttl

\* A client that waits as long as Retry-After says finds the key over whose TTL
\* it was told, or is short by the time that key has been without expiry since
\* (the EXPIRE of the first hit was on its way, or lost) and by no more.
RetryAfterSuffices ==
  \A h \in Handlers :
    call[h].pc = "deny" /\ call[h].life = life /\ count # 0 =>
      Left <= call[h].retry + (lag - call[h].lag)

\* A bucket over its limit empties again, unless its EXPIRE was lost.
BucketDrains == Over(count) ~> (count = 0 \/ unarmed)

\* A bucket over its limit empties again: "We EXPIRE on every call (Redis is a
\* no-op if TTL is already set)", as the comment of _enforce has it.  With the
\* EXPIRE of the first hit only, one that is lost is lost for good.
BucketForgives == Over(count) ~> count = 0

=============================================================================
