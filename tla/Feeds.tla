-------------------------------- MODULE Feeds --------------------------------
(***************************************************************************)
(* Subscriptions of one user: add_feed, delete_feed, bulk_import_feeds and *)
(* poll_feed of the feeds router, run concurrently by request handlers.    *)
(* Every statement of these handlers is restricted to one user's rows, so  *)
(* users do not meet.                                                      *)
(*                                                                         *)
(* A handler's transaction stays open from its first write to its COMMIT,  *)
(* across the parsing of further feeds.  PostgreSQL (READ COMMITTED):      *)
(* SELECT reads committed rows; INSERT waits for an open transaction that  *)
(* wrote the same key; an uncommitted item keeps its feed from being       *)
(* deleted, an uncommitted DELETE of the feed keeps items waiting; a cycle *)
(* of waits is broken by failing one of its statements.                    *)
(***************************************************************************)
EXTENDS Naturals, FiniteSets, Sequences

CONSTANTS
  Urls,         \* feed URLs
  Guids,        \* guids of entries
  Batches,      \* bodies of POST /feeds/bulk: sequences of URLs
  Contents,     \* what parsing a feed may yield: sequences of guids
  Handlers,     \* coroutines that may execute a request
  Null,
  MaxRequests   \* bound: requests over a behaviour

ASSUME FeedsAssumption ==
  /\ Batches \subseteq Seq(Urls) /\ Contents \subseteq Seq(Guids)
  /\ MaxRequests \in Nat /\ Null \notin Nat

VARIABLES
  feeds,      \* table feeds (committed rows)
  items,      \* table feed_items (committed rows)
  call,       \* call[h]: the request h executes
  requests,   \* requests so far
  nextId,     \* fresh feed ids
  outcomes,   \* history: how each request has ended
  reported    \* history: the items a poll answered as new

vars == <<feeds, items, call, requests, nextId, outcomes, reported>>

FeedRow == [id: Nat, url: Urls]
ItemRow == [feed: Nat, guid: Guids]

\* `todo` are the URLs or guids still to work on, `wrote` the rows inserted
\* and not committed, `created`, `skipped` and `failed` the counters of an import.
Idle == [op |-> "none", pc |-> "idle", no |-> 0, feed |-> Null, todo |-> <<>>,
         size |-> 0, wrote |-> {}, created |-> 0, skipped |-> 0, failed |-> 0]

FeedIds == {f.id : f \in feeds}
Others(h) == Handlers \ {h}

Begin(h, op, pc, feed, todo) ==
  /\ call[h].pc = "idle" /\ requests < MaxRequests
  /\ call' = [call EXCEPT ![h] = [Idle EXCEPT !.op = op, !.pc = pc, !.no = requests,
                !.feed = feed, !.todo = todo, !.size = Len(todo)]]
  /\ requests' = requests + 1
  /\ UNCHANGED <<feeds, items, nextId, outcomes, reported>>

\* The answer; what was not committed is rolled back.
End(h, how) ==
  /\ call' = [call EXCEPT ![h] = Idle]
  /\ outcomes' = outcomes \cup {[op |-> call[h].op, how |-> how, no |-> call[h].no]}

(***************************************************************************)
(* Locks                                                                   *)
(***************************************************************************)

Removes(o, id) == call[o].op = "delete" /\ call[o].pc = "commit" /\ call[o].feed = id

\* Open transactions that have inserted or deleted a row of this URL.
UrlHolders(h, url) ==
  {o \in Others(h) :
     \/ call[o].op # "poll" /\ \E f \in call[o].wrote : f.url = url
     \/ \E f \in feeds : f.url = url /\ Removes(o, f.id)}

\* Open transactions an INSERT of an item has to wait for.
ItemHolders(h, id, guid) ==
  {o \in Others(h) :
     \/ call[o].op = "poll" /\ [feed |-> id, guid |-> guid] \in call[o].wrote
     \/ Removes(o, id)}

\* Open transactions a DELETE of the feed has to wait for.
FeedHolders(h, id) ==
  {o \in Others(h) :
     \/ call[o].op = "poll" /\ call[o].feed = id /\ call[o].wrote # {}
     \/ Removes(o, id)}

\* Whom the next statement of h waits for.
Blockers(h) ==
  CASE call[h].pc = "insert" /\ call[h].todo # <<>> -> UrlHolders(h, Head(call[h].todo))
    [] call[h].pc = "item"   -> ItemHolders(h, call[h].feed, Head(call[h].todo))
    [] call[h].pc = "remove" -> FeedHolders(h, call[h].feed)
    [] call[h].pc = "update" -> {o \in Others(h) : Removes(o, call[h].feed)}
    [] OTHER -> {}

\* Mutant: nothing breaks a cycle of waits.
DeadlockedNever(h) == FALSE
\* h is in a cycle of waits.
Deadlocked(h) ==
  \E C \in SUBSET Handlers : h \in C /\ \A g \in C : Blockers(g) \cap C # {}

\* The statement fails; no `except IntegrityError` catches this error.
DeadlockAbort(h) ==
  /\ Deadlocked(h)
  /\ End(h, "deadlock")
  /\ UNCHANGED <<feeds, items, requests, nextId, reported>>

(***************************************************************************)
(* add_feed and bulk_import_feeds                                          *)
(***************************************************************************)

AddFeed(h) == \E url \in Urls : Begin(h, "add", "insert", Null, <<url>>)
BulkImport(h) == \E batch \in Batches : Begin(h, "bulk", "select", Null, batch)

UrlTaken(url) == \E f \in feeds : f.url = url

\* SELECT the URLs that exist, partition the batch: existing ones are skipped,
\* the first of each other URL is to be created, in order, its repetitions fail.
BulkSelect(h) ==
  LET batch == call[h].todo
      new   == {i \in DOMAIN batch : ~UrlTaken(batch[i])}
      first == {i \in new : \A j \in 1..(i - 1) : batch[j] # batch[i]} IN
  /\ call[h].pc = "select"
  /\ \E at \in [1..Cardinality(first) -> first] :
       /\ \A j, k \in DOMAIN at : j < k => at[j] < at[k]
       /\ call' = [call EXCEPT ![h].pc = "insert", ![h].todo = [k \in DOMAIN at |-> batch[at[k]]],
                               ![h].skipped = Cardinality(DOMAIN batch \ new),
                               ![h].failed = Cardinality(new \ first)]
  /\ UNCHANGED <<feeds, items, requests, nextId, outcomes, reported>>

\* FeedParser.parse returns None: add_feed answers 400, an import goes on.
ParseFails(h) ==
  /\ call[h].pc = "insert" /\ call[h].todo # <<>>
  /\ IF call[h].op = "add"
       THEN End(h, "unparsed")
       ELSE /\ call' = [call EXCEPT ![h].todo = Tail(@), ![h].failed = @ + 1]
            /\ UNCHANGED outcomes
  /\ UNCHANGED <<feeds, items, requests, nextId, reported>>

\* Mutant: without the exception, the import goes on with its counters.
ConflictSkips(h) ==
  IF call[h].op = "bulk"
    THEN /\ call' = [call EXCEPT ![h].wrote = {}, ![h].todo = Tail(@), ![h].skipped = @ + 1]
         /\ UNCHANGED outcomes
    ELSE End(h, "conflict")
\* IntegrityError.  add_feed does not catch it.  An import rolls all its rows
\* back and then awaits db.expire(feed), which raises for a feed that the
\* rollback has just expelled from the session: a 500 in both cases.
Conflict(h) == End(h, "conflict")

\* The feed parses; INSERT it (flush).
InsertFeed(h) ==
  LET url == Head(call[h].todo) IN
  /\ call[h].pc = "insert" /\ call[h].todo # <<>>
  /\ Blockers(h) = {}
  /\ IF UrlTaken(url)
       THEN Conflict(h) /\ UNCHANGED nextId
       ELSE /\ call' = [call EXCEPT ![h].todo = Tail(@), ![h].created = @ + 1,
                                    ![h].wrote = @ \cup {[id |-> nextId, url |-> url]}]
            /\ nextId' = nextId + 1
            /\ UNCHANGED outcomes
  /\ UNCHANGED <<feeds, items, requests, reported>>

\* COMMIT and answer.
CommitFeeds(h) ==
  /\ call[h].pc = "insert" /\ call[h].todo = <<>>
  /\ feeds' = feeds \cup call[h].wrote
  /\ End(h, "ok")
  /\ UNCHANGED <<items, requests, nextId, reported>>

(***************************************************************************)
(* delete_feed                                                             *)
(***************************************************************************)

\* Some feed id a client has seen; delete and poll answer 404 when it is gone.
DeleteFeed(h) == \E id \in 0..(nextId - 1) : Begin(h, "delete", "find", id, <<>>)
PollFeed(h) ==
  \E id \in 0..(nextId - 1), c \in Contents : Begin(h, "poll", "find", id, c)

FindFeed(h) ==
  /\ call[h].pc = "find"
  /\ IF call[h].feed \in FeedIds
       THEN /\ call' = [call EXCEPT ![h].pc = IF call[h].op = "poll" THEN "seek" ELSE "remove"]
            /\ UNCHANGED outcomes
       ELSE End(h, "not_found")
  /\ UNCHANGED <<feeds, items, requests, nextId, reported>>

\* DELETE the items and the feed; rows that are gone by now only warn.
RemoveFeed(h) ==
  /\ call[h].pc = "remove" /\ Blockers(h) = {}
  /\ call' = [call EXCEPT ![h].pc = "commit"]
  /\ UNCHANGED <<feeds, items, requests, nextId, outcomes, reported>>

\* Mutant: only the rows of the feed itself go.
ItemsKept(id) == items
\* ON DELETE CASCADE reaches items the ORM had not loaded.
ItemsWithout(id) == {i \in items : i.feed # id}

CommitRemoval(h) ==
  /\ call[h].pc = "commit"
  /\ feeds' = {f \in feeds : f.id # call[h].feed}
  /\ items' = ItemsWithout(call[h].feed)
  /\ End(h, "ok")
  /\ UNCHANGED <<requests, nextId, reported>>

(***************************************************************************)
(* poll_feed                                                               *)
(***************************************************************************)

PollUnparsed(h) ==
  /\ call[h].op = "poll" /\ call[h].pc = "seek" /\ Len(call[h].todo) = call[h].size
  /\ End(h, "unparsed")
  /\ UNCHANGED <<feeds, items, requests, nextId, reported>>

\* SELECT (feed_id, guid), which sees the rows of its own transaction too.
PollSeek(h) ==
  LET item == [feed |-> call[h].feed, guid |-> Head(call[h].todo)] IN
  /\ call[h].pc = "seek"
  /\ call' = CASE call[h].todo = <<>> -> [call EXCEPT ![h].pc = "update"]
               [] call[h].todo # <<>> /\ item \in items \cup call[h].wrote ->
                    [call EXCEPT ![h].todo = Tail(@)]
               [] OTHER -> [call EXCEPT ![h].pc = "item"]
  /\ UNCHANGED <<feeds, items, requests, nextId, outcomes, reported>>

\* Mutant: no unique index.
ItemTakenNever(item) == FALSE
ItemTaken(item) == item \in items

\* INSERT the item; the unique index or the foreign key may refuse it.
PollInsert(h) ==
  LET item == [feed |-> call[h].feed, guid |-> Head(call[h].todo)] IN
  /\ call[h].pc = "item" /\ Blockers(h) = {}
  /\ IF ItemTaken(item) \/ call[h].feed \notin FeedIds
       THEN End(h, "conflict")
       ELSE /\ call' = [call EXCEPT ![h].pc = "seek", ![h].todo = Tail(@),
                                    ![h].wrote = @ \cup {item}]
            /\ UNCHANGED outcomes
  /\ UNCHANGED <<feeds, items, requests, nextId, reported>>

\* UPDATE last_polled, which fails when the feed is gone; COMMIT; answer with
\* the new items.
PollCommit(h) ==
  /\ call[h].pc = "update" /\ Blockers(h) = {}
  /\ IF call[h].feed \in FeedIds
       THEN /\ items' = items \cup call[h].wrote
            /\ reported' = reported \cup (call[h].wrote \X {call[h].no})
            /\ End(h, "ok")
       ELSE End(h, "conflict") /\ UNCHANGED <<items, reported>>
  /\ UNCHANGED <<feeds, requests, nextId>>

(***************************************************************************)
(* Specification                                                           *)
(***************************************************************************)

\* The database or the process fails the request.
RequestFails(h) ==
  /\ call[h].pc # "idle"
  /\ End(h, "fault")
  /\ UNCHANGED <<feeds, items, requests, nextId, reported>>

Init ==
  /\ feeds = {} /\ items = {}
  /\ call = [h \in Handlers |-> Idle]
  /\ requests = 0 /\ nextId = 0
  /\ outcomes = {} /\ reported = {}

Work(h) ==
  \/ BulkSelect(h) \/ ParseFails(h) \/ InsertFeed(h) \/ CommitFeeds(h)
  \/ FindFeed(h) \/ RemoveFeed(h) \/ CommitRemoval(h)
  \/ PollUnparsed(h) \/ PollSeek(h) \/ PollInsert(h) \/ PollCommit(h)
  \/ DeadlockAbort(h)

Next ==
  \E h \in Handlers :
    \/ AddFeed(h) \/ BulkImport(h) \/ DeleteFeed(h) \/ PollFeed(h)
    \/ Work(h) \/ RequestFails(h)

Spec == Init /\ [][Next]_vars

\* A started request goes on, and PostgreSQL looks for cycles of waits.
Fairness == \A h \in Handlers : WF_vars(Work(h))

(***************************************************************************)
(* Properties                                                              *)
(***************************************************************************)

Steps ==
  [none |-> {"idle"}, add |-> {"insert"}, bulk |-> {"select", "insert"},
   delete |-> {"find", "remove", "commit"}, poll |-> {"find", "seek", "item", "update"}]

\* Types of every variable; a call takes only steps of its operation, writes
\* only rows of its table and works on a feed that once existed.
TypeOK ==
  /\ feeds \subseteq FeedRow /\ items \subseteq ItemRow
  /\ requests \in Nat /\ nextId \in Nat
  /\ outcomes \subseteq [op: DOMAIN Steps, no: Nat,
       how: {"ok", "unparsed", "conflict", "deadlock", "not_found", "fault"}]
  /\ reported \subseteq ItemRow \X Nat
  /\ \A h \in Handlers :
       /\ call[h].op \in DOMAIN Steps /\ call[h].pc \in Steps[call[h].op]
       /\ IF call[h].op \in {"delete", "poll"}
            THEN /\ call[h].feed \in 0..(nextId - 1)
                 /\ call[h].todo \in Seq(Guids) /\ call[h].wrote \subseteq ItemRow
            ELSE /\ call[h].feed = Null
                 /\ call[h].todo \in Seq(Urls) /\ call[h].wrote \subseteq FeedRow

\* A user follows a URL at most once, however adds and imports race, and no
\* item outlives its feed, also when a poll races the deletion of the feed.
TablesConsistent ==
  /\ \A f, g \in feeds : f.url = g.url => f = g
  /\ \A i \in items : i.feed \in FeedIds

\* An item is reported as new by at most one poll, however polls of the feed
\* race and in whatever order the feed lists its entries.
ReportedOnce ==
  \A p, q \in reported : p[1] = q[1] => p[2] = q[2]

\* The answer of an import is true: `created` rows became visible with it, and
\* every reference of the body is counted exactly once.
ImportTellsTruth ==
  [][\A h \in Handlers :
       /\ call[h].op = "bulk"
       /\ [op |-> "bulk", how |-> "ok", no |-> call[h].no] \in outcomes' \ outcomes
       =>
         /\ call[h].created = Cardinality(feeds' \ feeds)
         /\ call[h].created + call[h].skipped + call[h].failed = call[h].size]_vars

\* Every request is answered: handlers that wait for each other's rows are
\* not stuck for good.
RequestAnswered ==
  \A h \in Handlers : call[h].pc # "idle" ~> call[h].pc = "idle"

=============================================================================
