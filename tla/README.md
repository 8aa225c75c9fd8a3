# A verification project for AI News Scraper

TLA+ models of the API of this repository (`apps/api`) and of the parts of its web
client (`apps/web`) that keep state, checked with TLC on small instances. Every safety
property is also a theorem, checked by TLAPS for every instance; liveness is checked with TLC
only. Paths in this file are relative to the repository root; `PROJECT.json` gives, for every
definition, the lines it models.

1. [The system](#1-the-system)
2. [Modules](#2-modules)
3. [Runs](#3-runs)
4. [Fairness](#4-fairness)
5. [Proofs](#5-proofs)
6. [Where code and words disagree](#6-where-code-and-words-disagree)
7. [Not modelled](#7-not-modelled)
8. [Plan](#8-plan)

## 1. The system

A FastAPI process (one or several replicas) serves a Next.js client. Every request
handler is a coroutine with a database session of its own; coroutines of one
process interleave at every `await`, replicas interleave freely. What they share is

- **PostgreSQL** at its default isolation, READ COMMITTED: tables `users`,
  `refresh_tokens`, `feeds`, `feed_items`, `articles`, `digests`, `notifications`,
  `digest_unsubscribe_log`, `shared_links`;
- **Redis**: the rate limiter's buckets and the facet cache;
- **ChromaDB**: the vectors of the articles, outside any transaction;
- **SMTP** and the **LLM providers**, reached over the network;
- the **browser's cookies**, which every answer may set.

| Component | State | Operations | What makes it correct |
|---|---|---|---|
| AI Brief pipeline (`scheduler/brief.py`, `services/digest.py`, `workers/email.py`) | `digests`, `notifications` | daily tick, `run_for_user`, `generate_digest`, `send_digest_email`, `update_digest_delivery` | one brief per user and date; each announced once; `emailed` only if it was; a brief never vanishes; every user of a tick is served |
| One-click unsubscribe (`services/unsubscribe.py`) | `digest_unsubscribe_log`, `users.email_digest_enabled` | `consume_unsubscribe` | a link is consumed once; whoever is told so is opted out; always answered |
| Accounts and refresh tokens (`services/auth.py`, `routers/auth.py`) | `users`, `refresh_tokens`, the `auth_refresh` cookie | register, login, refresh, logout | one live token per login; the browser holds it; a spent one stays dead |
| Rate limiter (`middleware/rate_limit.py`) | Redis buckets | `_enforce` | at most `limit` requests a window; a bucket that was armed empties; Retry-After suffices, up to the time the key had no expiry |
| Feed subscriptions (`routers/feeds.py`, `services/feed_parser.py`) | `feeds`, `feed_items` | add, bulk import, poll, delete | a URL followed once; an item reported once; answers tell the truth; always answered |
| Topic clustering and sections (`services/clustering.py`, `services/digest.py`) | none | `cluster_user_articles`, `_build_sections` | every article of the day told once, or left out for a known reason |
| Inbox (`services/notifications.py`, `useNotifications.ts`) | `notifications.read`, the hook's data | list, mark read, poll | the bell comes to show what the service holds |
| Digest read API (`routers/digest.py`) | none of its own | list, get | paging shows each digest once |
| Scrape pipeline and library (`routers/scrape.py`, `articles.py`, `vector_store.py`) | `articles`, vectors | scrape, batch, delete | a vector carries a text that was committed; it differs from the row for known reasons only |
| Semantic search (`routers/search.py`) | none | search, paging | a page is the page of the ranking, as far as the over-fetch reaches |
| Facets (`facet_cache.py`, `facet_aggregator.py`) | Redis cache | read, aggregate | a write shows after the TTL and one aggregation |
| Article scorer (`services/scorer.py`) | `articles.score`, background tasks, semaphore, pool | score, rescore | resources balance; tasks end; tier and score agree |
| Share links (`services/shared_links.py`, `routers/public.py`) | `shared_links`, visits | mint, resolve, visit, expire | the answer is right for its time; visits refer to what exists |
| Embeddings playground (`services/embeddings.py`, `services/llm/`) | none | list, embed, similarity | the picker keeps its word; the metrics agree |
| Outbound URL guard (`services/ssrf_guard.py`, `scraper.py`) | DNS cache, resolver threads, redirect count | resolve, check, redirect | verdicts expire; no fetch waits for ever |
| Application shell (`main.py`, `exceptions.py`, `middleware/`) | the request id of each task | middlewares, exception handlers | an answer leads to its log record |
| Web session (`middleware.ts`, `lib/auth.ts`, `logout.ts`) | cookies, token | redirect, sign in, sign out | redirects end |
| Search page (`useFilterUrl.ts`, `SearchClient.tsx`) | URL, text field, requests | type, choose, turn, answer | results belong to the URL they stand under |
| Health, Sentry, settings, shared types, migrations, deployment | none | - | - |

How they meet: the tick and the e-mail worker meet in the status column of a digest;
a regeneration meets the inbox through `ON DELETE SET NULL` and unsubscription
through `ON DELETE CASCADE`; library, facets, scorer and brief share `articles`;
login, refresh and logout meet in one row of `refresh_tokens` and in the browser's
cookie jar; scorer, share links and deletion meet in the row of an article; scrapes and
polls share the resolver's cache and threads.

What is hard, and therefore what the models are about:

- transactions that stay open across LLM calls and feed downloads, while other
  coroutines read what was there before them and wait for their row locks;
- check-then-act (`SELECT`, then `INSERT` or `UPDATE`) with only a unique index or a
  row lock behind it;
- outcomes recorded after the fact: an e-mail's status, a cookie, a vector, a cache
  entry, each written by another step than the one it speaks of;
- failures between two steps, lost answers, and retries of what had in fact been done.

`PROJECT.json` lists these hazards one by one at their lines with the properties that
cover them.

## 2. Modules

```
Brief ------------ BriefRefinement (INSTANCE BriefContract)     MCBrief
  |                        |
  |                   BriefProofs
  |                        |
Unsubscribe (EXTENDS Brief) -- UnsubscribeProofs                MCUnsubscribe

Sessions -- SessionsProofs                                      MCSessions
Feeds  Outbound                                                 MCFeeds
Selection -- Library -- Facets (EXTENDS Library)                MCLibrary
Scorer --- Shares (EXTENDS Scorer)  RateLimit  Shell            MCService
Selection -- Briefing
Paging  Bell  Playground  WebSession  SearchBox                 MCReading
```

`Selection` is one operator, `Kept(s, S)`: what a WHERE clause or an `if` in a list
comprehension leaves of ordered rows. `Library` and `Briefing` use it.

| Proofs | about |
|---|---|
| `BriefProofs` | `Brief`, and that it implements `BriefContract` (`BriefRefinement`) |
| `UnsubscribeProofs` (EXTENDS `BriefProofs`) | `Unsubscribe` |
| `SessionsProofs` | `Sessions` |
| `FeedsProofs` | `Feeds`, `Outbound` |
| `SelectionProofs` | `Kept`, by induction over the sequence |
| `LibraryProofs` (EXTENDS `SelectionProofs`) | `Library`, `Facets` |
| `ServiceProofs` | `Scorer`, `Shares`, `RateLimit`, `Shell` |
| `ReadingProofs` (EXTENDS `SelectionProofs`) | `Briefing`, `Paging`, `Bell`, `Playground`, `WebSession`, `SearchBox` |

The `MC` modules hold model values, symmetry sets and input sets. The last four also put
side by side parts that share no state: a variable `scope`, chosen in the initial state
and never changed, says which part takes steps, so that their state spaces add up and do
not multiply. Where parts do share state they are composed properly: `Facets` extends
`Library`, `Shares` extends `Scorer`, `Unsubscribe` extends `Brief`. In each
module, an operator whose comment begins with *Mutant* is a plausible bug of the
definition below it. `Spec` does not use it; `PROJECT.json` names, for every property, the
mutant that breaks it.

**How PostgreSQL is modelled.** A table is the set of its *committed* rows. What an
open transaction has written is kept in the state of the coroutine that executes it
and moves to the tables in its COMMIT action, so that a rollback is simply the loss
of that state. `SELECT` reads committed rows. A statement that would wait for another
transaction has the wait as its guard (`Locked`, `KeyBusy`, `Blockers`); a unique
index or foreign key is the test made once the wait is over, and its failure is the
disjunct that follows the code's exception path. Nothing else is serialised.

### Brief

A *runner* is one coroutine that executes `generate_digest`: the tick of one replica
or an ad-hoc `run_for_user`. `run[r].pc` says which statement comes next:

| `pc` | next action | code |
|---|---|---|
| `idle` | `DailyTick`, `ServeUser`, `RunForUser` | `_daily_tick`, its loop, `run_for_user` |
| `select` | `SelectExisting` | the SELECT and the terminal-status return |
| `delete` | `DeleteExisting` | `db.delete` and flush: by id, whatever the status has become |
| `build` | `InsertDigest` | clustering and summaries have returned; INSERT of the digest, or IntegrityError |
| `commit` | `CommitDigest` | INSERT of the notification, COMMIT |

`RunRaises` is any exception in the call (rollback, logged, the tick goes on);
`Crash` loses the process's transaction and the rest of its tick. A *mailer* executes
`send_digest_email`: `BeginSend`, then `SmtpAccepts` or `SmtpFails` (with or without
the server having taken the message), then `UpdateDelivery`; `MailerCrash` may come
between any two. `accepted` records what the server really took. Its caller is not
part of the repository and is modelled by what the payload requires: it has read a
row that is not e-mailed yet. `missed` and `failedOnce` are history variables: no
guard reads them.

`BriefContract` is what a user sees of one date: no brief, or a brief with a delivery
status, and a number of alerts. `BriefRefinement` maps the pipeline to it: the status
of the committed row, the number of notifications raised for the key, and
`failedOnce`.

### Unsubscribe

Extends `Brief` with the requests of `consume_unsubscribe` (`select`, `insert`,
`commit`) and composes the two with `Beside`: every step of the brief pipeline is
taken together with its effect on the log (`Cascade`), with the wait of its DELETE for
uncommitted log rows (`DeleteWaits`), and with the minting of one token per e-mail.
In the other direction the INSERT of the log row waits for an uncommitted DELETE of its
digest. Requests are numbered in the order they are sent; the number stands for
`consumed_at`.

### Sessions

A request (`call[h]`) carries the cookie the browser had when it was sent. Refresh is
`RefreshLookup` (SELECT of the active row), `RefreshRevoke` (UPDATE by primary key,
which waits for the row but tests nothing), `RefreshRotate` (INSERT of the successor,
COMMIT); logout is one UPDATE and COMMIT. The response is delivered (`Deliver`) or
lost (`Lose`) later, in any order with other responses; only then does the cookie
change. A refusal raised as an exception carries no cookies, since the exception
handler answers with a response of its own. `family` links a token to the login it
descends from; it is not a column but identifies what "the same session" means in
the properties. Hashing, passwords and the access token's JWT are abstracted.

### RateLimit

One bucket. `Incr`, `Expire`, `ReadTtl` are the Redis commands in the order `_enforce`
sends them; other handlers run in between. `Tick` is time, for the key and for the clients
that wait out a Retry-After (`retry`); it passes also while the key has no expiry, be its
EXPIRE on its way or lost, and `lag` counts these ticks. `Return` ends a refusal, at any
time. `FailOpen` is INCR failing, before or after Redis counted the hit; `Abort` is EXPIRE or
TTL failing or the handler being cancelled, and the EXPIRE may have been carried out. `life`
numbers the incarnations of the key, so that a hit admitted late is counted for the window it
belongs to and a refusal is judged by the key it was told of. A TTL is rounded to seconds by
Redis, which is below a tick. How the bucket is chosen (`_client_ip`) is a function of the
request and not part of the module.

### Feeds

One user, because every statement of these handlers is restricted to the user's own
rows. `AddFeed` and `BulkImport` share the loop of `InsertFeed`/`ParseFails` and
`CommitFeeds`; an import first partitions its batch (`BulkSelect`). `PollFeed` seeks
and inserts item by item, then updates `last_polled` and commits. `DeleteFeed` removes
the feed and, by cascade, its items. `Blockers(h)` is whom the next statement of `h`
waits for; `DeadlockAbort` is PostgreSQL's deadlock detector failing one statement of
a cycle. Parsing a feed is a choice between failing and yielding one of `Contents`.

### Library and Facets

A request is a sequence of its awaits. A scrape is `Fetch` (or `FetchFails`), `Write`
(upsert and commit: the row lock keeps other writers out in between), `Refresh`, `Index`
(or `IndexFails`, which warns, or for an error the code does not expect ends the request and
the rest of its batch); a batch repeats this over its URLs in one session,
and after `DbFails` that session refuses every statement (`Refused`), because nobody
rolls it back. `RemoveArticle` deletes the row and leaves the vector. A search takes its
hits from Chroma (`Ranked`, cut at `OverFetch`), then hydrates them from the table as it
is by then. `committed` and `drift` are history variables. A text is named by the number
of its fetch.

`Facets` adds the cached read: `GetCached`, `DropCorrupt`, one `Aggregate` per dimension
(each may fail, and after a database error so does every later one), `SetCached`. The
value of a dimension is the number of the last write it has seen; `wrote` remembers when
each write was committed. No write invalidates the cache, so freshness is a matter of
time. Redis' clock and an entry somebody else has spoilt (`Corrupt`) are steps.

### Scorer and Shares

A task of the scorer is `Connect` (the session takes its connection), `Acquire` (the
semaphore), `Scored` (the model's answer or the default 0.5), `Save`; `Trigger` starts
one per stale article on a listing, whether or not another is at work on it. `Save`
writes only the columns that differ from what the task had loaded, as SQLAlchemy does;
`SaveFails` is a commit that fails and is logged. `mixed` records that two tasks overlapped. `Restart` loses tasks, semaphore and pool.

`Shares` adds `Mint` and `InsertLink` (with the foreign key in between), `Open`, `Lookup`,
`LoadArticle`, `RecordVisit`; `DeleteArticle` takes links and visits along. A visit is
keyed by its second and nothing else, since its hash is.

### Briefing

What `Brief` treats as opaque: which articles a brief tells. `Draw` reads the UTC day so
far, keeps the newest `Cap` and takes any answer of the model, of which
`_parse_cluster_response` accepts a partition of the positions; `Summarise` re-reads one
cluster's rows; `Publish` stores. Articles arrive and are deleted at any time. `Index` stamps one with
the start of its transaction, so that a row may appear before rows that were there. When the model
does not answer, the fallback makes a section of the first row's text, and there is none for a
row alone that has no text (`Blank`, `NothingToSay`): such a section is left out.

### Paging, Bell, Playground

`Paging` walks the two cursor-paginated lists while rows are added. `Bell` is the polling
hook: overlapping list requests, a click that takes an item off at once, answers in any
order, a hidden page. `shown` is the hook's data. `Playground` works out the picker's list, the outcome of an
embedding and the metrics for every combination of configured keys and vectors.

### Shell

From the outside in: the handler of unhandled errors, security headers, CORS, request id,
exception handlers, route. `Enter`, `Route` or `Raise`, then `Leave` or `CatchAll`; requests
overlap, and each has a task, hence a value of the context variable, of its own.

### Outbound

A scrape is `BeginScrape`, a check of the name (`CheckCached`, or `StartLookup` and then
`Resume` or `Timeout`), the same again in the transport, and a page or a redirect.
`jobs` is the queue of the executor; its first `Threads` run, and a thread that is given up
by its caller stays busy until `Return`. `age` counts how long ago the resolver answered.
Whether an address is allowed is a verdict that may differ from one lookup to the next.

### WebSession and SearchBox

`Middleware` is one pass of `middleware.ts` over one request: the answer of next-intl or a
redirect. Cookie and token have lifetimes of their own. In `SearchBox` a handler's
navigation (`nav`) is what the *last* `router.replace` asked for; `Render` commits it,
aborts the request under way and starts another; `debounce` keeps the params of the
render whose closure set the timer.

## 3. Runs

| Run | Instance | States | What it shows |
|---|---|---|---|
| `brief_races` | 1 user, 2 runners, 1 mailer, 2 dates, 2 sends, 1 fault | 1.19 M | `UniqueBrief`, `BriefAnnounced`, `EmailedMeansAccepted`, `ReplacedOnlyAfterFailure` |
| `brief_live` | 2 users, 2 runners, 1 mailer, 1 date, 1 send, 1 fault | 210 k | `TickedUserGetsBrief`, `ImplementsContract` |
| `unsubscribe` | 1 user, 1 runner, 1 mailer, 2 consumers, 2 sends, 3 requests | 137 k | `ConsumedOnce`, `ToldMeansOptedOut`, `RequestAnswered` |
| `sessions` | 1 user, 2 browsers, 2 handlers, 3 tokens, 1 fault | 953 k | `OneLiveToken`, `JarIsLive`, `SpentIsDead` |
| `feeds` | 2 URLs, 2 guids, 2 handlers, 3 requests; 2 scrapes, 2 hosts, 1 thread, 1 cache entry | 267 k | `TablesConsistent`, `ReportedOnce`, `ImportTellsTruth`, `RequestAnswered`; `VerdictsExpire`, `LookupsEnd` |
| `library` | 3 pages, 2 handlers, 2 writers, 1 fault, pages of one article, TTL 1 | 628 k | `VectorsFollowRows`, `DriftExplained`, `SearchPage`, `FacetsFresh` |
| `service` | 3 tasks, pool 2, 1 slot; 2 visitors, 2 links; 3 handlers, limit 2, window 2, 4 hits, lag 2, 1 fault; 2 overlapping requests, 3 in all | 387 k | `ResourcesBalanced`, `TierDrift`, `TasksFinish`; `ShareIntegrity`, `ShareAnswers`; `WindowLimit`, `RetryAfterSuffices`, `BucketDrains`; `AnswersTraceable` |
| `reading` | 3 articles, 2 days, cap 2; pages of 2; 3 notifications, 2 fetches; 3 keys, 6 vectors; 2 locales; 1 query, 1 filter, 2 requests | 357 k | `ToldOnce`, `LeftOutExplained`; `LostOnlyAtBoundaries`; `OneAnswer`, `BellSettles`; `PickerPredicts`, `MetricsAgree`; `RedirectsEnd`; `ShownIsAsked` |

Four more runs each check one sentence of the repository that the code does not keep;
section 6 lists them. They use the instances above; `Scopes` cuts that of `service` to the
limiter.

`BriefNeverVanishes` is in no run of its own, since the contract does not let a brief vanish
and `brief_live` checks it. The type invariants and the inductive invariants are in no run
either: section 5 proves them, and their types are conjuncts of the latter.

**Deadlock checking is off** in all runs: the bounds on dates, sends, requests and
tokens are guards, so a behaviour ends when they are used up. That nobody is stuck
before is a liveness property where it matters (`TickedUserGetsBrief`, both
`RequestAnswered`, `TasksFinish`, `LookupsEnd`, `BellSettles`, `BucketDrains`).

**Why the bounds are enough to be interesting.** Every action of every module fires in
a passing run, and every property is broken by a mutant within the same bounds.

- *Brief.* Two runners are all that can meet on one row: a third would wait where the
  second waits. Two sends let a failure be followed by a regeneration and a second
  e-mail, or two outcomes for one row arrive in either order of the steps; two dates
  let an ad-hoc run work on a date other than the tick's; one fault is a crash at any
  single point. Two users (in `brief_live`) let a failing run stand between a tick and
  its next user.
- *Unsubscribe.* Two consumers on one link, or on the links of two e-mails; three
  requests let a replay come after a consumption whose row a regeneration removed.
- *Sessions.* Two handlers are the two sides of every race on one row. Three tokens are
  a login and two rotations, or two families and a rotation of one; two browsers with
  one user are two devices. The symmetry of browsers and handlers is sound: no property
  names one and the run checks no liveness.
- *RateLimit.* Four hits reach the limit, cross it, and go on in the next life of the
  key; three handlers are limit + 1 calls at once. `MaxLag` lets a key go without expiry for
  as long as a window: a client can wait all its Retry-After and be refused again. Beyond it
  nothing new happens, for such a key never goes by itself.
- *Feeds.* The batches list the same two URLs in opposite orders, which makes the
  deadlock, and one URL twice. Three requests let an import meet an add and then a
  delete or poll. The same run with four requests (1.09 M states) finds no error either.
- *Outbound.* One thread and two scrapes: the second waits behind a lookup that was given
  up. One cache entry and two hosts: every other insertion evicts. An entry lives two
  ticks and a lookup one, so that entries of different age meet; a cap of two redirects
  has one that is checked and one that is not.
- *Library.* Two handlers are the two sides of every race; three pages with one already
  in the library give new rows, updates and a deletion; two writers are two scrapes of one
  page, a scrape and a deletion, or a batch beside either. With a page of one article,
  floor 2 and ceiling 3 the over-fetch is cut by each in turn. The symmetry of handlers is
  sound: no property names one and the run checks no liveness. For the facets, writes are
  kept to one scrape and deletions, since facets see nothing of a write but that it
  happened.
- *Scorer, Shares.* Three tasks against a pool of two and one slot: one holds the slot, one
  waits for it with a connection, one waits for a connection. The tasks are on one article,
  where they meet. Scores 86 and 90 share a tier, the default 50 does not, so that a
  column left out of an UPDATE shows. Two links of two articles and two visitors.
- *Shell.* Two overlapping requests, a third after one of them.
- *Briefing.* Three articles over a cap of two, on either of two days; answers of up to
  three clusters, which is one more than can be accepted. One of the articles has no text, so
  that its cluster alone can be left out.
- *Paging.* Three days and three notifications on pages of two: a boundary inside a list and
  one at its end.
- *Bell.* Two list requests can overtake each other; three notifications are one more than
  the dropdown shows.
- *Playground.* Vectors of length 0, 1 and 2, all zeros, parallel, opposite and unrelated.
- *WebSession.* A token of one tick in a cookie of two: no session, a session, and a cookie
  around a dead token.
- *SearchBox.* Two requests under way, one abandoned, over every combination of a query, a
  filter and two pages.

## 4. Fairness

Only what an event loop, a clock or the database guarantees is assumed:

- `Brief!Fairness`: a tick that fired goes on to its next user, and a started
  `generate_digest` takes its next statement (weak fairness, since a statement that
  stays unblocked is executed). The code sets no time-out on its
  LLM calls; that they return, or raise and are replaced by a fallback, is assumed of the
  providers' clients. Nothing obliges a tick to fire, a caller to call, SMTP to answer or a
  fault to happen.
- `UnsubscribeFairSpec`: the same for the pipeline, and for a started
  `consume_unsubscribe`.
- `RateLimit!Fairness`: time passes; a handler takes its next step. Nobody need come back
  from a refusal.
- `Feeds!Fairness`: a started request takes its next statement or, in a cycle of waits,
  is ended by the deadlock detector.

- `OutboundFairness`: time passes, and the event loop resumes a scrape whose lookup is done
  or timed out. No resolver thread need ever return.
- `ScorerFairness`: a task goes on; strong fairness for the semaphore only, since
  `asyncio.Semaphore` wakes its waiters in order. That the model's client returns is assumed
  (it has a time-out); a task that finds no connection is ended by the pool's time-out.
- `BellFairness`: list requests are answered and delivered or fail, mark-read requests end,
  and the timer fires while it runs. Nobody need show a hidden page again.

Each `MC` specification that puts parts side by side has the fairness of all of them; the
parts that stand still are in a state where none of their fair actions is enabled, so
nothing is assumed away. (`MCReading` is fair to the bell only, and only
`BellSettles` there is a liveness property.) Every liveness property has a mutant that
breaks it under the same fairness.

Elsewhere weak fairness is enough because a wait ends for good: what a statement waits for is
released by a COMMIT or rollback and, within the bounds, not taken again for ever.

## 5. Proofs

TLAPS proves the theorems below for every set of users, handlers, pages, hosts and so on,
and for every value of the bounds. Each inductive invariant was also checked with TLC, on
instances like those of section 3. The properties are those of the runs, by name;
a theorem `SpecP` is `Spec => []P`, or `Spec => P` for an action property, of the
specification the module gives in its statement.

| Module | Inductive invariant | Properties it implies |
|---|---|---|
| `BriefProofs` | `SpecIInv` | `TypeOK`, `UniqueBrief`, `BriefAnnounced`, `EmailedMeansAccepted`; the action properties `BriefNeverVanishes`, `ReplacedOnlyAfterFailure`; the refinement `ImplementsContract` |
| `UnsubscribeProofs` | `SpecUInv` | `UnsubscribeTypeOK`, `ConsumedOnce`, `ToldMeansOptedOut`; `SpecBriefBeside`: the invariants of `Brief` with the clicks beside it; `SpecContractBeside`: `ImplementsContract` with the clicks beside it |
| `SessionsProofs` | `SpecSessionsInv` | `OneLiveToken`, `JarIsLive`, `SpentIsDead` |
| `FeedsProofs` | `SpecFeedsInv` | `TypeOK`, `TablesConsistent`, `ReportedOnce`; the action property `ImportTellsTruth` |
| | `SpecOutboundInv` | `VerdictsExpire` |
| `LibraryProofs` | `SpecFacetsInv` | `VectorsFollowRows`, `DriftExplained`, `SearchPage`, `FacetsFresh` |
| `ServiceProofs` | `SpecScorerInv` | `ResourcesBalanced`, `TierDrift` |
| | `SpecSharesInv` | `ShareIntegrity`, `ShareAnswers`; `SpecSharesScorer`: the invariants of `Scorer` with the links around it |
| | `SpecLimiterInv` | `WindowLimit`, `RetryAfterSuffices` |
| | `SpecShellInv` | `AnswersTraceable` |
| `ReadingProofs` | `SpecBriefingInv` | `ToldOnce`, `LeftOutExplained` |
| | `SpecPagingInv` | `LostOnlyAtBoundaries` |
| | `SpecBellInv` | `OneAnswer` |
| | (the properties themselves) | `PickerPredicts`, `MetricsAgree` |
| | `SpecWebInv` | `RedirectsEnd` |
| | `SpecBoxInv` | `ShownIsAsked` |

**Assumptions.** Only the `ASSUME`s of the modules: bounds, capacities and durations are
numbers, and positive where the code has them so; a batch of a scrape lists at least one
page (an empty one is answered at once and changes nothing); lengths and locales are related
as the settings relate them (`CookieLife >= TokenLife`, `Default \in Locales`); vectors are
sequences of integers of any length (`Upstream \subseteq Seq(Int)`; the metrics are compared
without rounding). The rest keeps the *absent* values apart from what they stand beside
(`Null \notin Nat`, `NoCursor \notin Nat`, `NoNav \notin Slots`, `Deleted \notin Rows`, ...),
which model values do by themselves. No set of handlers,
tasks, requests or browsers is assumed finite; where a count matters, the invariant says
that the set counted is finite and the proof keeps it so.

**How the proofs are laid out.** One lemma per action, or per group of actions that assign
alike, with one step per conjunct the action may disturb; then a lemma for `[Next]_vars` and
the theorem. Lemmas before the actions say what a step keeps (`TablesUnchanged`,
`CallUnchanged`, `RunnerQuiet` in `BriefProofs`) or what a helper returns (`RemovesOne`,
`TierOfType`, `ParamsKept`, `TopFacts`).

*Induction over data.* The library's induction theorems take an operator as a parameter and
are of no use to the provers here. `SetInduction` (in `SelectionProofs`) says the same of a
*set* of numbers and follows from the least element of its complement: a set that contains 0,
and n + 1 with n, is `Nat`. With the set of lengths for which a statement holds, it proves
what recursive functions compute: `KeptPositions` (what `Kept` leaves are the elements of the
set, at increasing positions, and all of them), `KeptPrefix` (of a prefix it leaves a prefix,
shorter by no more than was dropped), `TotalIs` and `Metrics` (the sums behind the metrics).

### What makes each invariant inductive

*Brief.* A commit keeps `UniqueBrief` only if the row it inserts has a key no committed row
has, which was tested some steps earlier. `IInv` adds:

- `RowsOK`: ids are never reused and a stored status is never `pending`; a row that
  says failed was recorded failed. With it, an id read long ago names the same row or none.
- `CallOK(r)`: what a call knows of the tables while others change them. If it
  remembers an old row, that row's delivery has once failed and has this call's key;
  between its DELETE and COMMIT the row is still committed (others wait for the lock);
  between its INSERT and COMMIT nobody else has its new id, and no committed row but
  the deleted one has its key.
- `CallsOK(r, s)`: what keeps two calls apart. No two have deleted the same row (the
  row lock), and no two have inserted the same key (the unique index).
- `SendOK(m)`: a mailer about to record `emailed` has a message the server took.

The action properties follow: only `CommitDigest` removes a row, and it adds one of the same
key; the removed row's key is in `failedOnce` by `CallOK`. In the refinement `CommitDigest`
maps to `Publish` of its key, `UpdateDelivery` of a row that still exists to `Record`, and
everything else to a stutter. That the alert count grows by exactly one rests on `born` being
fresh (`CallOK`); that the alerts can be counted follows from `RowsOK`, since all of them are
named by ids below `nextId`.

*Unsubscribe.* `UInv` is `IInv` and what a click relies on while digests are regenerated.
An answer given is the answer of the log row, *or the digest is gone for good* and with it
every way to consume the token again (`ToldOK`): ids are not reused, and a token's digest is
never one a runner has yet to commit (`TokensOK`). A click that has inserted its row keeps the
digest from being deleted and the jti from being consumed (`RequestOK`, `RequestsOK`: the
foreign key and the unique index). The lemmas of `BriefProofs` about the pipeline's steps are
used again, since the composed step contains one, and so is `StepRefines` of the refinement:
a click changes no variable the contract reads.

*Sessions.* `Alone`: the token a refresh works on is still live as long as its family is not
`contended`. `FamilyOK` restates `OneLiveToken` token by token, without cardinalities.
`OneOwner`: a token is handed to one browser only, which is what lets `LuckyOK` say what a
browser that sends one request at a time has in its jar, in its request and in the answer on
its way.

*Feeds.* `PendingOK` and `PollsOK` are the locks as an invariant: a row an open transaction
has inserted is unlike every committed row and every row of another open transaction, nobody
polls a feed that is not committed, and ids are not reused (`FeedsOK`). `ReportedOK`: what was
reported stays in the table until its feed goes, for good. `ImportOK` keeps the books of an
import at every iteration (created + skipped + failed + still to do = the body, created = rows
inserted, URLs still to do distinct from them), and `NumbersOK` makes an answer one request's.

*Outbound.* An entry's age and time left add up to the TTL and one lookup because the waiting
fetch's did to the time-out (`LookupsOK`), and only the fetch that still waits is given a job's
verdict (`JobsOK`), also after an earlier job of the same fetch was given up.

*Library and facets.* A text is fetched by one scrape and, until it is committed, an id of no
row (`FreshOK`); a scrape about to index is of the row's page and holds what the row holds,
or the id is known to drift (`WaitsOK`). `FacetOK` and `CacheOK`: every dimension saw what was
written before the aggregation *began*, hence any mix of dimensions aggregated at different
times does.

*Scorer and shares.* A task nobody has overtaken has the row as it is (`LoadedOK`): so the
columns it leaves out of its UPDATE agree with those it writes. Tokens are numbered, `links`
is a part of what was ever minted, and a visitor who is past the check came while the link had
time left (`VisitOK`), whatever was deleted since.

*Search results.* `SearchPage` follows from the type of what a request holds alone, since the
page is computed in one step. The ranking is a prefix (`OverFetch`) of the whole one, so what is
hydrated of it is a prefix of what is hydrated of the whole (`KeptPrefix`); at most `slack`
hits dropped out, so the prefix still reaches the end of the page (`OverFetchAllows`,
`PageOfPrefix`).

*Content of briefs.* Two days share no article because an article has one row as long as it
is known: deleted articles do not come back and a row a run or a brief was drawn from is on the
shelf or of a deleted article (`RowsOK`), so its time puts it in one window. What a run has
told and has yet to tell are disjoint lists of articles of its day (`RunOK`), which holds at
first because positions are a partition and rows have distinct articles (`ClustersHoldAll`:
also for the fallback to one cluster). `Explained` is `LeftOutExplained` for a run: an article
it will not tell is deleted, has no text or `Cap` newer ones of the day came before the run
was drawn (`DrawnIsExplained`).

*Paging.* The cursor splits the list (`WalkOK`): nothing shown is older than it, and what the
reader has not seen is older, or has the time of a cursor. A page keeps that because what LIMIT
leaves of the older rows is the newest of them (`TopFacts`), whichever order rows of one time
come in.

*Bell.* What it shows, and every answer on its way, is a part of a list the service once held:
of so many notifications, with these read (`OnceHeld`). Both only grow, and a click only takes
items off.

*Metrics.* `Metrics` is Cauchy and Schwarz's inequality for sums up to n together with what
ties the square distance to the dot products; `CauchyStep` is its arithmetic.

*Rate limiter.* Who will be let through already has a place among the counted hits
(`PlacesOK`), and the window of a life is armed by its first hit alone (`ArmingOK`).
`RetryAfterSuffices` is about the refusals of the key that is there (`Told`): what is left of
it exceeds their wait by no more than it went without expiry since (`WaitOK`). A tick takes
from both sides, or from the wait what it adds to the lag; an EXPIRE, when it comes at last,
leaves what is left as it was counted (`Left`). No case is excepted: with the EXPIRE on its
way the excess is how long it takes, with the EXPIRE lost it grows with time.

*Shell, redirects, search page.* The id of a request is the one its task sees (`RequestOK`), and a number the
server gave is given once (`NumbersOK`). A redirect leaves a locale behind and never a public
page for somebody with a cookie, and the second one ends at the login page of somebody who has
none (`RedirectOK`). The request that is heeded asks for the URL of the page (`LiveOK`).

### What the proofs changed in the models

- Overlapping guards of a CASE give TLA+ no value that must be the first one's. TLC takes
  the first, the code's `if`/`elif` does, but a proof may not. `Scorer!TierOf`,
  `Shares!Lookup`, `Library!Refresh`, `Briefing!Preview` and `Playground!EmbedText` now say
  which comes first.
- `Feeds!BulkSelect` was a fold over the batch; it is now stated by positions (those that are
  new, the first of each URL among them, in increasing order), which is what the loop
  computes and can be reasoned about. For the same reason `Kept` stands where SelectSeq did,
  `Paging!Top` is stated by injective functions and not by sorting permutations, sections and
  answers are compared by positions (`Disjoint`, `Entries`) and not flattened, the metrics
  sum with a recursive function (`Total`), and the bell's list is a set (`Dropdown`).
  `Outbound!Timeout` says in two disjuncts that a waiting
  job is taken off the queue and a running one is kept without its fetch.
- `LeftOutExplained` could not be proved as it stood, and rightly: the model gave every section
  a text. In the code the fallback for a cluster of one article is that article's text, and a
  section without text is dropped (`digest.py:308`). `Blank` and `NothingToSay` model it, and
  the property names the case.
- States of calls that were implicit in the actions have names (`ScrapeStates`,
  `TaskStates`, `OpenStates`, `Fetches`, ...), so that assumptions can keep `Idle` apart.

### Model-checked only

Liveness: `TickedUserGetsBrief`, both `RequestAnswered`, `BucketDrains`, `TasksFinish`,
`LookupsEnd`, `BellSettles`. It rests on fairness, hence on ENABLED, which the prover does not
support.

## 6. Where code and words disagree

Four disagreements are runs TLC must find violated, and findings in `PROJECT.json`.

| Run | The words | The code |
|---|---|---|
| `click_conflict` | `routers/digest.py:170`: "Idempotent ... Always 200 OK" | two POSTs of one link, or a click on the link of a regenerated digest, end in an IntegrityError nobody catches: 500 |
| `session_fork` | `services/auth.py:143`: "Atomically revoke ... and mint" | two refreshes of one cookie both revoke it and both mint: two live tokens |
| `skipped_history` | `routers/digest.py:121`: "newest-first with cursor pagination" | the cursor is the date of the first digest *left out*, and the next page starts strictly before it: one digest is lost at every boundary |
| `lost_expire` | `rate_limit.py:141`: "We EXPIRE on every call" | only the first hit does; when that one command is lost, or the reply of the INCR before it, none follows and the bucket refuses for ever |

The models have the following the way the code does it; no run is spent on them: the
property would repeat one line, or is the case a property of section 3 names as its exception
(tier and score of overlapping tasks, facets after an error, notes of one time).

*Brief.* `services/digest.py:10` wants a failed row retried the next day; the tick only
generates today's date. A brief drawn at 08:00 UTC covers the UTC date so far, so articles
indexed later that day are in no brief (`packages/shared/src/types.ts:215` speaks of the
last 24 hours). The prompt of `clustering.py` numbers articles from 1, the parser expects
positions from 0; answers that follow the prompt fall back to one cluster.
`clustering.py:275` promises one cluster "covering all articles", after the cap of 24.
`topic_extractor.py:149` caps the topics before it drops the unsafe ones. "We never emit an
empty section" (`digest.py:154`) is kept by dropping the section: an article without text whose
summary failed is in no brief.

*Sessions, limits, inbox, feeds.* `routers/auth.py:162` "clear any residual cookies": they are
cleared on a response object the exception discards. A refusal over a key whose EXPIRE is
still on its way tells the whole window, which then begins later.
`notifications.py:35` "older-than-or-equal to `cursor`": the query is `created_at < cursor`, and
the test agrees with it, so of notifications of one time those behind a page boundary are on
no page.
`routers/feeds.py:126` "races ... are caught": after the rollback `await db.expire(feed)`
raises, so the import ends in 500 and its earlier feeds are lost.

*Library, search, facets.* A batch goes on after a database error in a session it does not
roll back. `DELETE /articles/{id}` leaves the vector. A publish date is passed as an ISO string
to a timestamp column (`scrape.py:73`). The `total` of a search depends on the page asked
for, since it counts over-fetched hits. `facet_cache.py:16` says facets must never answer 500
because of the cache; JSON of another shape raises in `model_validate`, outside the `try`.
A dimension is meant to fail alone (`facet_aggregator.py:28`), but after a database error the
transaction is aborted and the dimensions after it fail too.
A search by source has a Chroma filter of two keys (`search.py:134`), which the pinned Chroma
(0.5.20) refuses, so such a search ends in a 500; the tests of the handler put a double in its
place. `Ranked` takes the filter as working, so that what it is meant to return is checked.

*Scorer, shares, playground.* `scorer.py:200` puts the semaphore inside the session so as not
to hold connections, but loading the row has taken one by then. The tier is "mirrored" from
the score (`scorer.py:42`) except when two tasks overlap: a task that loaded 86 and writes 90
names the score only, and finds the tier of another's 50 in the row. A failed call overwrites
a good score with 0.5. Visits of one second count once, also of different visitors
(`shared_links.py:186` speaks of the same one). A mint that races
the deletion of its article ends in 500 (`shared_links.py:93`). A placeholder in
`gemini_api_key` hides a usable `google_api_key`; an unknown `model` is a 500 although the
docstring says "never 500 for client mistakes".

*Shell.* An unhandled exception is answered outside all middlewares: without `X-Request-ID`,
CORS and security headers, and with an empty `instance`, while its text says "See
X-Request-ID for support" (`main.py:222`). Unknown paths raise Starlette's exception, which
the handler for FastAPI's does not see, so 404 and 405 are not problem+json. The order of the
middlewares is the reverse of what the comments at `main.py:96-111` say.

*Outbound.* The scraper's comment has redirects "ON by default"; the default is off. Relative
Locations are always refused. `scraper.py:44` calls the guard "stateless across requests", but
its redirect count is never reset, so what happens to a redirect depends on earlier fetches.
Leaving one `AsyncClient` closes the transport all scrapes share. The download of
newspaper3k and the lookup of a feed block the event loop. A lookup that was given up keeps
its thread, so a fetch may be refused because of others.

*Web.* `s/[token]/page.tsx:11` "Public share page": `/s/{token}` is in no public list of
`middleware.ts`, so anonymous visitors are sent to the login page; visitors with a session are
sent home from `/unsubscribe`. The cookie lives a day ("1d mirror of API", `lib/auth.ts:11`), the token in it 15
minutes, and the web never refreshes; sign-out always reports `logout_failed`, because no
cookies are sent and the empty body of the 204 does not parse, so a user whose token has
ended is sent home from `/login` and refused by the API until the cookie ends. Sign-in ignores
`next`. On the search page `set('q', ..)` and `set('page', ..)` start from the same params and
the second replaces the first, so a typed query never reaches the URL; `page` is dropped by
every change, so no page is ever turned (`useFilterUrl.ts:75-80` says otherwise); the debounce
uses the params of an older render and undoes a filter chosen since; the spinner stays when
the query is removed during a request. The client calls `/notifications/unread-count`, which
the API does not have.

## 7. Not modelled

- *The texts*: prompts, summaries, e-mail layout, formatting, wording, logging and telemetry
  (Sentry). No property depends on them.
- *LLM providers, SMTP, DNS, Redis, Chroma, PostgreSQL, next-intl, the browser*: modelled by
  what the code relies on, as outcomes of the steps that call them.
- *Parsing*: feeds, pages, JSON and tokens are choices of their outcome.
- *Hashing, JWT encoding, key choice of the rate limiter, address lists and the shape of
  URLs*: stateless functions of the request.
- *Unsubscribe tokens that fail verification*: answered before anything is written.
- *Health, settings, migrations, shared types, deployment*: no state of their own; the
  constraints of the migrations are part of the tables.
- *The development bypass of the web's sign-in and the pages other than search*: they only
  show what the API answers.

## 8. Plan

Done: all components of section 1 that keep state; a theorem for every safety property of
the runs, the refinement included; liveness by TLC.

Next:

1. Compose `Sessions` with `WebSession`, so that `JarIsLive` speaks of what the web's own
   cookie says of the API's.
2. The choice of a bucket (`_client_ip`) and the address lists of the URL guard, as pure
   functions checked against the networks they name.
