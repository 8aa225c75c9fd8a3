------------------------------- MODULE Outbound -------------------------------
(***************************************************************************)
(* What a fetch of an article does before and around its request           *)
(* (services/ssrf_guard.py under services/scraper.py): name resolution     *)
(* with a cache, a bounded pool of resolver threads, a timeout on the      *)
(* caller's side only, and the check of a redirect by the transport that   *)
(* all fetches share.  Feeds resolve names on the event loop instead.      *)
(***************************************************************************)
EXTENDS Integers, SequencesExt

CONSTANTS
  Scrapes,      \* scrapes under way at one time
  Hosts,        \* host names; an address needs no resolution
  Threads,      \* max_workers of _RESOLVE_EXECUTOR
  CacheTtl,     \* CACHE_TTL_SECONDS
  CacheSize,    \* MAX_CACHE_SIZE
  DnsTimeout,   \* DNS_TIMEOUT_SECONDS
  RedirectCap,  \* REDIRECT_CAP_HTTPCLIENT
  Nobody, NoScrape

\* What the resolver says of a host, and may say otherwise the next time:
\* addresses the policy allows, addresses it does not, no such name.
Verdicts == {"allowed", "refused", "unknown"}

Fetches == [pc: {"check", "lookup", "resolved", "sent"}, check: {"url", "request", "location"},
            host: Hosts, left: Nat, age: Nat, verdict: Verdicts]

ASSUME OutboundAssumption ==
  /\ {Threads, CacheTtl, CacheSize, DnsTimeout, RedirectCap} \subseteq Nat \ {0}
  /\ Nobody \notin Scrapes /\ NoScrape \notin Fetches

VARIABLES
  cache,      \* _RESOLUTION_CACHE in insertion order
  jobs,       \* work of the executor: the first Threads run, the rest wait
  scrape,     \* state of each scrape
  redirects   \* _redirect_count of the transport, up to the cap

outboundVars == <<cache, jobs, scrape, redirects>>

OutboundInit ==
  /\ cache = <<>>
  /\ jobs = <<>>
  /\ scrape = [f \in Scrapes |-> NoScrape]
  /\ redirects = 0

At(f, pc) == scrape[f] # NoScrape /\ scrape[f].pc = pc
Awaiting(f) == At(f, "lookup") \/ At(f, "resolved")

\* A waiting fetch and a cache entry count the age of the resolver's answer
\* in `age` and the seconds they have in `left`.
Passes(r) == [r EXCEPT !.left = @ - 1, !.age = @ + 1]
\* An expired entry only keeps its place.
Kept(e) == IF e.left > 1 THEN Passes(e) ELSE [e EXCEPT !.left = 0, !.age = 0, !.verdict = "unknown"]

OutboundTick ==
  /\ \/ \E i \in DOMAIN cache : cache[i].left > 0
     \/ \E f \in Scrapes : Awaiting(f) /\ scrape[f].left > 0
  /\ cache' = [i \in DOMAIN cache |-> Kept(cache[i])]
  /\ scrape' = [f \in Scrapes |->
       IF Awaiting(f) /\ scrape[f].left > 0 THEN Passes(scrape[f]) ELSE scrape[f]]
  /\ UNCHANGED <<jobs, redirects>>

-----------------------------------------------------------------------------
Entries(h) == {i \in DOMAIN cache : cache[i].host = h}

\* _cache_get: an expired entry is no hit and stays where it is.
Hits(h) == {i \in Entries(h) : cache[i].left > 0}

\* _cache_put: a known key keeps its place; else the first inserted makes room.
Put(h, verdict, age) ==
  LET new == [host |-> h, verdict |-> verdict, age |-> age, left |-> CacheTtl] IN
  IF Entries(h) # {} THEN [i \in DOMAIN cache |-> IF i \in Entries(h) THEN new ELSE cache[i]]
  ELSE Append(IF Len(cache) >= CacheSize THEN Tail(cache) ELSE cache, new)

\* _validate_ips keeps both verdicts; a name that does not resolve is not kept.
Learned(h, verdict, age) == IF verdict = "unknown" THEN cache ELSE Put(h, verdict, age)

\* Mutant: a hit renews the entry.
HitRenews(i) == Put(cache[i].host, cache[i].verdict, cache[i].age)
\* The cache after a hit.
Hit(i) == cache

-----------------------------------------------------------------------------
BeginScrape(f) ==
  /\ scrape[f] = NoScrape
  /\ \E h \in Hosts : scrape' = [scrape EXCEPT ![f] =
       [pc |-> "check", check |-> "url", host |-> h, left |-> 0, age |-> 0, verdict |-> "unknown"]]
  /\ UNCHANGED <<cache, jobs, redirects>>

AtRest(f, pc, check) ==
  [scrape[f] EXCEPT !.pc = pc, !.check = check, !.left = 0, !.age = 0, !.verdict = "unknown"]

\* What becomes of a fetch after a check.  ArticleScraper.scrape checks the
\* URL and tries newspaper3k, which blocks the loop; if that fails, the
\* transport checks the URL again, and then the Location of a redirect.  A
\* refusal ends the scrape, and so does a redirect whose Location is fine: it is
\* not followed and counts as an error.
Decided(f, verdict) ==
  CASE verdict # "allowed" \/ scrape[f].check = "location" -> {NoScrape}
    [] verdict = "allowed" /\ scrape[f].check = "url" -> {NoScrape, AtRest(f, "check", "request")}
    [] verdict = "allowed" /\ scrape[f].check = "request" -> {AtRest(f, "sent", "request")}

\* resolve_and_check_async: from the cache, or by a job of the executor.
CheckCached(f) ==
  /\ At(f, "check")
  /\ \E i \in Hits(scrape[f].host) :
       /\ \E next \in Decided(f, cache[i].verdict) : scrape' = [scrape EXCEPT ![f] = next]
       /\ cache' = Hit(i)
  /\ UNCHANGED <<jobs, redirects>>

StartLookup(f) ==
  /\ At(f, "check")
  /\ Hits(scrape[f].host) = {}
  /\ jobs' = Append(jobs, [host |-> scrape[f].host, for |-> f])
  /\ scrape' = [scrape EXCEPT ![f].pc = "lookup", ![f].left = DnsTimeout, ![f].age = 0]
  /\ UNCHANGED <<cache, redirects>>

\* getaddrinfo returns; nobody may be waiting any more.
Return(i) ==
  /\ i \in DOMAIN jobs
  /\ i <= Threads
  /\ jobs' = RemoveAt(jobs, i)
  /\ \/ jobs[i].for = Nobody /\ UNCHANGED scrape
     \/ /\ jobs[i].for # Nobody
        /\ \E verdict \in Verdicts : scrape' = [scrape EXCEPT ![jobs[i].for] =
             [@ EXCEPT !.pc = "resolved", !.verdict = verdict, !.age = 0]]
  /\ UNCHANGED <<cache, redirects>>

Resume(f) ==
  /\ At(f, "resolved")
  /\ scrape[f].left > 0
  /\ cache' = Learned(scrape[f].host, scrape[f].verdict, scrape[f].age)
  /\ \E next \in Decided(f, scrape[f].verdict) : scrape' = [scrape EXCEPT ![f] = next]
  /\ UNCHANGED <<jobs, redirects>>

\* The time is up, also with an answer that has not been taken: the fetch is
\* refused.  A job that waits is cancelled, a thread that runs is left to itself.
Given(f) == {i \in DOMAIN jobs : jobs[i].for = f}

\* Mutant: the wait for a thread is not timed.
TimeoutRunning(f) ==
  /\ Awaiting(f)
  /\ scrape[f].left = 0
  /\ \A i \in Given(f) : i <= Threads
  /\ jobs' = [i \in DOMAIN jobs |-> [jobs[i] EXCEPT !.for = IF @ = f THEN Nobody ELSE @]]
  /\ scrape' = [scrape EXCEPT ![f] = NoScrape]
  /\ UNCHANGED <<cache, redirects>>
Timeout(f) ==
  /\ Awaiting(f)
  /\ scrape[f].left = 0
  /\ \/ Given(f) = {} /\ UNCHANGED jobs
     \/ \E i \in Given(f) :
          \/ i > Threads /\ jobs' = RemoveAt(jobs, i)
          \/ i <= Threads /\ jobs' = [jobs EXCEPT ![i] = [@ EXCEPT !.for = Nobody]]
  /\ scrape' = [scrape EXCEPT ![f] = NoScrape]
  /\ UNCHANGED <<cache, redirects>>

\* A page or a failure ends the fetch.
Page(f) ==
  /\ At(f, "sent")
  /\ scrape' = [scrape EXCEPT ![f] = NoScrape]
  /\ UNCHANGED <<cache, jobs, redirects>>

\* A redirect, counted over the life of the process: the Location of the first
\* few is checked, where one without a host is refused at once.
Redirect(f) ==
  /\ At(f, "sent")
  /\ redirects' = IF redirects < RedirectCap THEN redirects + 1 ELSE redirects
  /\ \/ scrape' = [scrape EXCEPT ![f] = NoScrape]
     \/ /\ redirects' < RedirectCap
        /\ \E h \in Hosts : scrape' =
             [scrape EXCEPT ![f] = [@ EXCEPT !.pc = "check", !.check = "location", !.host = h]]
  /\ UNCHANGED <<cache, jobs>>

\* resolve_and_check of a feed, on the event loop and without a timeout.
FeedLookup(h) ==
  /\ \/ \E i \in Hits(h) : cache' = Hit(i)
     \/ Hits(h) = {} /\ \E verdict \in Verdicts : cache' = Learned(h, verdict, 0)
  /\ UNCHANGED <<jobs, scrape, redirects>>

ScrapeStep(f) ==
  \/ BeginScrape(f) \/ CheckCached(f) \/ StartLookup(f) \/ Resume(f) \/ Timeout(f)
  \/ Page(f) \/ Redirect(f)

OutboundNext ==
  \/ OutboundTick
  \/ \E h \in Hosts : FeedLookup(h)
  \/ \E f \in Scrapes : ScrapeStep(f)
  \/ \E i \in 1..Threads : Return(i)

\* Time goes on and the event loop runs what is due.  No thread need return.
OutboundFairness ==
  /\ WF_outboundVars(OutboundTick)
  /\ \A f \in Scrapes : WF_outboundVars(Resume(f) \/ Timeout(f))

OutboundSpec == OutboundInit /\ [][OutboundNext]_outboundVars /\ OutboundFairness

-----------------------------------------------------------------------------
\* However lookups of one host overlap, time out or overwrite each other in
\* the cache, no verdict is used that the resolver gave longer ago than the
\* cache keeps entries plus the time a lookup may take.
VerdictsExpire ==
  \A i \in DOMAIN cache : cache[i].left > 0 => cache[i].age + cache[i].left <= CacheTtl + DnsTimeout

\* No fetch waits for a name for ever, also when every thread is stuck in a
\* lookup that never returns.
LookupsEnd == \A f \in Scrapes : Awaiting(f) ~> ~Awaiting(f)

=============================================================================
