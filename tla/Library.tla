------------------------------ MODULE Library ------------------------------
(***************************************************************************)
(* The article library of one user: the rows of PostgreSQL and the vectors *)
(* of Chroma that stand beside them without a common transaction, written  *)
(* by POST /scrape and /scrape/batch (routers/scrape.py), thinned by       *)
(* DELETE /articles/{id} (routers/articles.py) and read by POST /search    *)
(* (routers/search.py).  Handlers interleave at their awaits.              *)
(*                                                                         *)
(* A text stands for headline, body and summary of one scrape and is named *)
(* by the number of the fetch that brought it.  An upsert and its commit   *)
(* are one step: the row lock keeps every other writer of the row out      *)
(* between the two.                                                        *)
(***************************************************************************)
EXTENDS Selection, SequencesExt, FiniteSets

CONSTANTS
  Urls,         \* pages the user may scrape
  Handlers,     \* requests under way at one time
  Seeds,        \* pages already in the library, in the order of their scrape
  Batches,      \* sequences of pages a batch may list
  Topics,       \* tags the extractor may return
  Sources,      \* sets of pages a source filter may name
  Filters,      \* the other search filters, see Matches
  PageSize,     \* articles on a page of search results
  Pages,        \* page numbers a search may ask for
  Floor,        \* over-fetch floor: 50 in the code
  Ceiling,      \* over-fetch ceiling: 1000 in the code
  Day,          \* clock ticks by which date_to is widened: one day
  MaxFetches,   \* bound on the pages fetched
  MaxWriters,   \* bound on the requests that write
  MaxFaults,    \* bound on failing calls
  MaxTime,      \* bound on the clock
  NoArticle, NoVector, Idle

\* A request that scrapes.
ScrapeStates == [op : {"scrape"}, pc : {"fetch", "write", "refresh", "index"},
                 todo : Seq(Urls) \ {<<>>}, single : BOOLEAN, broken : BOOLEAN, id : Nat,
                 text : Nat, topics : SUBSET Topics, embedded : BOOLEAN]

\* A batch of no pages is answered at once and is left out.
ASSUME LibraryAssumption ==
  /\ {PageSize, Floor, Ceiling} \subseteq Nat \ {0}
  /\ Pages \subseteq Nat \ {0}
  /\ MaxFetches \in Nat
  /\ Seeds \in Seq(Urls) /\ IsInjective(Seeds) /\ Len(Seeds) <= MaxFetches
  /\ \A b \in Batches : b \in Seq(Urls) /\ b # <<>>
  /\ Idle \notin ScrapeStates

VARIABLES
  articles,   \* url -> committed row of `articles`, or NoArticle
  vectors,    \* article id -> what Chroma holds for it, or NoVector
  fetched,    \* number of pages fetched so far
  committed,  \* <<id, text>> of every row version that was ever committed
  drift,      \* ids whose vector was left behind, see DriftExplained
  req,        \* request of each handler
  writers,    \* number of requests that write so far
  faults,     \* number of failed calls so far
  now         \* clock

rows == <<articles, committed>>
libVars == <<articles, vectors, fetched, committed, drift, req, writers, faults, now>>

Ids == 1..MaxFetches
Live == {u \in Urls : articles[u] # NoArticle}
LiveIds == {articles[u].id : u \in Live}

\* A library whose first articles were scraped without a hitch.
Init ==
  /\ articles = [u \in Urls |->
       IF u \in ToSet(Seeds)
       THEN LET i == CHOOSE j \in DOMAIN Seeds : Seeds[j] = u IN
            [id |-> i, text |-> i, topics |-> {}, at |-> 0]
       ELSE NoArticle]
  /\ vectors = [i \in Ids |-> IF i <= Len(Seeds) THEN [text |-> i, url |-> Seeds[i]]
                               ELSE NoVector]
  /\ fetched = Len(Seeds)
  /\ committed = {<<i, i>> : i \in DOMAIN Seeds}
  /\ drift = {}
  /\ req = [h \in Handlers |-> Idle]
  /\ writers = 0
  /\ faults = 0
  /\ now = 0

Begin(h, r) ==
  /\ req[h] = Idle
  /\ req' = [req EXCEPT ![h] = r]

BeginWriter(h, r) ==
  /\ Begin(h, r)
  /\ writers < MaxWriters
  /\ writers' = writers + 1

At(h, op, pc) == req[h] # Idle /\ req[h].op = op /\ req[h].pc = pc
To(h, r) == req' = [req EXCEPT ![h] = r]
Fault == faults < MaxFaults /\ faults' = faults + 1

-----------------------------------------------------------------------------
(* Scraping.  `todo` lists the pages still to do, `single` tells POST      *)
(* /scrape from /scrape/batch and `broken` that a statement failed in the  *)
(* transaction: nothing rolls the session back, so PostgreSQL refuses      *)
(* every later statement.  A request that is answered is Idle.             *)

Scraping(batch, single) ==
  [op |-> "scrape", pc |-> "fetch", todo |-> batch, single |-> single,
   broken |-> FALSE, id |-> 0, text |-> 0, topics |-> {},
   embedded |-> FALSE]

Scrape(h) ==
  /\ \/ \E u \in Urls : BeginWriter(h, Scraping(<<u>>, TRUE))
     \/ \E b \in Batches : BeginWriter(h, Scraping(b, FALSE))
  /\ UNCHANGED <<articles, vectors, fetched, committed, drift, faults, now>>

Url(h) == Head(req[h].todo)
NextUrl(r) ==
  IF Len(r.todo) = 1 THEN Idle
  ELSE [Scraping(Tail(r.todo), r.single) EXCEPT !.broken = r.broken]

\* An exception of the caught kinds: the batch goes on, a single scrape is
\* answered with an error.
SkipOrFail(r) == IF r.single THEN Idle ELSE NextUrl(r)

\* ArticleTopicExtractor.extract: tags of the expected form, as a set; none at
\* all when the model fails or answers with anything else.
Extracted == SUBSET Topics

\* ArticleEmbedder.embed: a vector, or None when it fails.
Embeds == BOOLEAN

\* The page is fetched, summarised, tagged and embedded.  What fails on the way
\* becomes None or [], so only this is left: the text, its topics and whether
\* there is an embedding.
Fetch(h) ==
  /\ At(h, "scrape", "fetch")
  /\ fetched < MaxFetches
  /\ fetched' = fetched + 1
  /\ \E tags \in Extracted, e \in Embeds :
       To(h, [req[h] EXCEPT !.pc = "write", !.text = fetched + 1, !.topics = tags,
                            !.embedded = e])
  /\ UNCHANGED <<articles, vectors, committed, drift, writers, faults, now>>

\* httpx and OS errors are caught by the batch; any other exception of the
\* scraper is not and ends the whole batch.
FetchFails(h) ==
  /\ At(h, "scrape", "fetch")
  /\ Fault
  /\ \/ To(h, SkipOrFail(req[h]))
     \/ To(h, Idle)
  /\ UNCHANGED <<articles, vectors, fetched, committed, drift, writers, now>>

\* Scrapes other than h's that have committed a text of this article and
\* have yet to upsert its vector.
Pending(h, i) == {k \in Handlers \ {h} : /\ req[k] # Idle
                                        /\ req[k].op = "scrape"
                                        /\ req[k].pc \in {"refresh", "index"}
                                        /\ req[k].id = i}

\* INSERT ... ON CONFLICT (user_id, url) DO UPDATE, RETURNING, commit.
\* A conflict keeps id and indexed_at.
Upserted(u, text, tags) ==
  IF articles[u] = NoArticle
  THEN [id |-> text, text |-> text, topics |-> tags, at |-> now]
  ELSE [articles[u] EXCEPT !.text = text, !.topics = tags]

Write(h) ==
  LET u == Url(h)
      row == Upserted(u, req[h].text, req[h].topics)
  IN /\ At(h, "scrape", "write")
     /\ ~req[h].broken
     /\ articles' = [articles EXCEPT ![u] = row]
     /\ committed' = committed \cup {<<row.id, row.text>>}
     /\ drift' = IF Pending(h, row.id) # {} \/ ~req[h].embedded
                 THEN drift \cup {row.id} ELSE drift
     /\ To(h, [req[h] EXCEPT !.pc = "refresh", !.id = row.id])
     /\ UNCHANGED <<vectors, fetched, writers, faults, now>>

\* Mutant: the error is logged and the pipeline goes on to the vector.
DbFailsAndIndexes(h) ==
  /\ req[h] # Idle /\ req[h].op = "scrape" /\ req[h].pc \in {"write", "refresh"}
  /\ Fault
  /\ To(h, [req[h] EXCEPT !.pc = "index", !.id = fetched])
  /\ UNCHANGED <<articles, vectors, fetched, committed, drift, writers, now>>
\* A statement fails: one the server refused leaves the transaction aborted,
\* one the driver refused does not.
DbFails(h) ==
  /\ req[h] # Idle /\ req[h].op = "scrape" /\ req[h].pc \in {"write", "refresh"}
  /\ ~req[h].broken
  /\ Fault
  /\ \E b \in BOOLEAN : To(h, SkipOrFail([req[h] EXCEPT !.broken = b]))
  /\ drift' = IF req[h].pc = "refresh" THEN drift \cup {req[h].id} ELSE drift
  /\ UNCHANGED <<articles, vectors, fetched, committed, writers, now>>

\* InFailedSQLTransaction.
Refused(h) ==
  /\ At(h, "scrape", "write")
  /\ req[h].broken
  /\ To(h, SkipOrFail(req[h]))
  /\ UNCHANGED <<articles, vectors, fetched, committed, drift, writers, faults, now>>

\* db.refresh reads the row again and raises when it has been deleted.
Refresh(h) ==
  /\ At(h, "scrape", "refresh")
  /\ To(h, IF req[h].id \notin LiveIds THEN SkipOrFail(req[h])
           ELSE IF req[h].embedded THEN [req[h] EXCEPT !.pc = "index"]
           ELSE NextUrl(req[h]))
  /\ UNCHANGED <<articles, vectors, fetched, committed, drift, writers, faults, now>>

\* Mutant: `add` instead of `upsert`: an id Chroma knows keeps its vector.
StoredOnce(i, v) == IF vectors[i] = NoVector THEN v ELSE vectors[i]
Stored(i, v) == v

\* Chroma upsert, outside of any transaction.
Index(h) ==
  LET i == req[h].id
      v == [text |-> req[h].text, url |-> Url(h)]
  IN /\ At(h, "scrape", "index")
     /\ vectors' = [vectors EXCEPT ![i] = Stored(i, v)]
     /\ drift' = IF Pending(h, i) = {} /\ i \in LiveIds /\ articles[Url(h)].text = req[h].text
                 THEN drift \ {i} ELSE drift
     /\ To(h, NextUrl(req[h]))
     /\ UNCHANGED <<articles, fetched, committed, writers, faults, now>>

\* "article saved in PG": a warning for the errors of httpx, Chroma and the OS;
\* any other ends the request, with the rest of its batch.  Nothing tries again.
IndexFails(h) ==
  /\ At(h, "scrape", "index")
  /\ Fault
  /\ drift' = drift \cup {req[h].id}
  /\ \/ To(h, NextUrl(req[h]))
     \/ To(h, Idle)
  /\ UNCHANGED <<articles, vectors, fetched, committed, writers, now>>

-----------------------------------------------------------------------------
(* DELETE /articles/{id}: SELECT, then DELETE by primary key.  The vector  *)
(* stays.  A row that another request deleted in between only makes        *)
(* SQLAlchemy warn.                                                        *)

Delete(h) ==
  /\ \E u \in Live : BeginWriter(h, [op |-> "delete", pc |-> "remove", id |-> articles[u].id])
  /\ UNCHANGED <<articles, vectors, fetched, committed, drift, faults, now>>

RemoveArticle(h) ==
  /\ At(h, "delete", "remove")
  /\ articles' = [u \in Urls |-> IF u \in Live /\ articles[u].id = req[h].id
                                 THEN NoArticle ELSE articles[u]]
  /\ To(h, Idle)
  /\ UNCHANGED <<vectors, fetched, committed, drift, writers, faults, now>>

-----------------------------------------------------------------------------
(* POST /search.  `ranked` is the whole ranking of Chroma for the query,   *)
(* of which the handler sees the first OverFetch.  Page and filter come    *)
(* with the request, but nothing looks at them before the hydration, so    *)
(* they are chosen there; an answered search is Idle.                      *)

Minimum(a, b) == IF a < b THEN a ELSE b
Maximum(a, b) == IF a > b THEN a ELSE b

\* Mutant: only the doubling, without the floor for early pages.
OverFetchDoubled(page) == Minimum(page * PageSize * 2, Ceiling)
OverFetch(page) == Minimum(Maximum(page * PageSize * 2, page * PageSize + Floor), Ceiling)

\* The vectors whose source_domain is the one asked for.  The handler and its
\* tests take it that Chroma filters by user and domain; the Chroma that is
\* pinned refuses a `where` of two keys, and such a search ends in an error.
Ranked(source) == {i \in Ids : vectors[i] # NoVector /\ vectors[i].url \in source}

\* A query that cannot be embedded or finds nothing is answered at once.
Search(h) ==
  /\ \E source \in Sources : \E r \in SetToSeqs(Ranked(source)) :
       r # <<>> /\ Begin(h, [op |-> "search", pc |-> "hydrate", ranked |-> r])
  /\ UNCHANGED <<articles, vectors, fetched, committed, drift, writers, faults, now>>

\* The clauses of the hydration: topics overlap, indexed_at within the dates,
\* where date_to is widened by a day.
Matches(row, f) ==
  /\ f.topics = {} \/ row.topics \cap f.topics # {}
  /\ f.from <= row.at
  /\ row.at < f.to + Day

Hydrated(f) == {articles[u].id : u \in {x \in Live : Matches(articles[x], f)}}

PageOf(list, page) == SubSeq(list, (page - 1) * PageSize + 1,
                             Minimum(page * PageSize, Len(list)))

\* Hits whose row is gone or does not match are dropped.
Found(ranked, page, f) ==
  Kept(SubSeq(ranked, 1, Minimum(OverFetch(page), Len(ranked))), Hydrated(f))

SearchAnswer(ranked, page, f) ==
  [results |-> PageOf(Found(ranked, page, f), page), total |-> Len(Found(ranked, page, f))]

Hydrate(h) ==
  /\ At(h, "search", "hydrate")
  /\ To(h, Idle)
  /\ UNCHANGED <<articles, vectors, fetched, committed, drift, writers, faults, now>>

-----------------------------------------------------------------------------
Tick ==
  /\ now < MaxTime
  /\ now' = now + 1
  /\ UNCHANGED <<articles, vectors, fetched, committed, drift, req, writers, faults>>

LibraryStep(h) ==
  \/ Scrape(h) \/ Fetch(h) \/ FetchFails(h) \/ Write(h) \/ DbFails(h)
  \/ Refused(h) \/ Refresh(h) \/ Index(h) \/ IndexFails(h)
  \/ Delete(h) \/ RemoveArticle(h) \/ Search(h) \/ Hydrate(h)

-----------------------------------------------------------------------------
(* Properties.                                                             *)

\* A vector never carries a text that was not committed for its article: the
\* index follows the table, also through failures and overtaking requests.
VectorsFollowRows ==
  \A i \in Ids : vectors[i] # NoVector => <<i, vectors[i].text>> \in committed

\* An article's vector differs from its row only while its scrape is about
\* to upsert it, or for one of the known reasons: no embedding for the last
\* text, an upsert or refresh that failed, or two scrapes of the page at once.
DriftExplained ==
  \A u \in Live : LET i == articles[u].id IN
    \/ vectors[i] = [text |-> articles[u].text, url |-> u]
    \/ i \in drift
    \/ \E h \in Handlers : /\ req[h] # Idle /\ req[h].op = "scrape"
                           /\ req[h].pc \in {"refresh", "index"} /\ req[h].id = i

\* A page of search results is the page of the whole ranking restricted to
\* articles that exist and match, as long as the hits that drop out, deleted
\* articles included, are no more than the over-fetch allows for; it never
\* shows anything else, and its total counts no less than it shows.
SearchPage ==
  \A h \in Handlers, page \in Pages, f \in Filters :
    At(h, "search", "hydrate") =>
      LET all    == req[h].ranked
          live   == Kept(all, Hydrated(f))
          slack  == Minimum(Floor, Ceiling - page * PageSize)
          answer == SearchAnswer(all, page, f)
      IN /\ Len(all) - Len(live) <= slack => answer.results = PageOf(live, page)
         /\ ToSet(answer.results) \subseteq Hydrated(f)
         /\ Len(answer.results) <= answer.total

=============================================================================
