------------------------------- MODULE Facets -------------------------------
(***************************************************************************)
(* GET /search/facets (routers/search.py) over the library: the Redis      *)
(* cache of services/facet_cache.py, which no write invalidates, and the   *)
(* three sequential aggregations of services/facet_aggregator.py.  The     *)
(* value of a dimension is abstracted to the number of the last library    *)
(* write it has seen.                                                      *)
(***************************************************************************)
EXTENDS Library

CONSTANTS
  TTL,        \* CACHE_TTL_SECONDS, in ticks
  NoEntry,    \* the cache holds nothing
  Degraded    \* a dimension replaced by an empty one

ASSUME FacetsAssumption == TTL \in Nat \ {0}

VARIABLES
  cache,   \* entry `facets:{user_id}`, or NoEntry
  wrote    \* when each committed change of the library was made

vars == <<libVars, cache, wrote>>

Dims == <<"sources", "topics", "date_range">>
Unread == [i \in 1..Len(Dims) |-> 0]

\* `kind` is what the value parses as: facets, no JSON, or JSON of some other
\* shape.  `began` and `stored` say when the aggregation began and was cached.
Entry(kind, dims, began, exp) ==
  [kind |-> kind, dims |-> dims, began |-> began, stored |-> now, exp |-> exp]

FacetsInit ==
  /\ Init
  /\ cache = NoEntry
  /\ wrote = <<>>

Wrote == wrote' = IF articles' # articles THEN Append(wrote, now) ELSE wrote

LibraryAction(h) == LibraryStep(h) /\ Wrote /\ UNCHANGED cache

\* Requests of the facets leave the library alone.
Beside == UNCHANGED <<articles, vectors, fetched, committed, drift, now, wrote>>

FacetsRequest == [op |-> "facets", pc |-> "get", dims |-> Unread, next |-> 1,
                  broken |-> FALSE, began |-> 0]

Facets(h) ==
  /\ Begin(h, FacetsRequest)
  /\ Beside
  /\ UNCHANGED <<cache, writers, faults>>

Compute(r) == [r EXCEPT !.pc = "aggregate", !.began = now]

\* _try_get_cached.  A Redis error or an empty key means compute; what does
\* not parse is dropped first; JSON of another shape raises in model_validate,
\* outside of every try, and the request ends in an error.
GetCached(h) ==
  /\ At(h, "facets", "get")
  /\ \/ /\ Fault
        /\ To(h, Compute(req[h]))
     \/ /\ cache = NoEntry
        /\ To(h, Compute(req[h]))
        /\ UNCHANGED faults
     \/ /\ cache # NoEntry /\ cache.kind = "facets"
        /\ To(h, Idle)
        /\ UNCHANGED faults
     \/ /\ cache # NoEntry /\ cache.kind = "junk"
        /\ To(h, [req[h] EXCEPT !.pc = "drop"])
        /\ UNCHANGED faults
     \/ /\ cache # NoEntry /\ cache.kind = "alien"
        /\ To(h, Idle)
        /\ UNCHANGED faults
  /\ Beside
  /\ UNCHANGED <<cache, writers>>

\* DELETE, or an error that is ignored.
DropCorrupt(h) ==
  /\ At(h, "facets", "drop")
  /\ \/ cache' = NoEntry /\ UNCHANGED faults
     \/ Fault /\ UNCHANGED cache
  /\ To(h, Compute(req[h]))
  /\ Beside
  /\ UNCHANGED writers

Aggregated(r, value, broken) ==
  [r EXCEPT !.dims[r.next] = value, !.next = @ + 1, !.broken = broken,
            !.pc = IF r.next = Len(Dims) THEN "set" ELSE "aggregate"]

\* One of the three aggregations, each a statement of its own that sees what
\* is committed when it runs.  A failure degrades the dimension; nothing rolls
\* back, so in an aborted transaction every later dimension degrades too.
Aggregate(h) ==
  /\ At(h, "facets", "aggregate")
  /\ \/ /\ ~req[h].broken
        /\ To(h, Aggregated(req[h], Len(wrote), FALSE))
        /\ UNCHANGED faults
     \/ /\ ~req[h].broken
        /\ Fault
        /\ \E b \in BOOLEAN : To(h, Aggregated(req[h], Degraded, b))
     \/ /\ req[h].broken
        /\ To(h, Aggregated(req[h], Degraded, TRUE))
        /\ UNCHANGED faults
  /\ Beside
  /\ UNCHANGED <<cache, writers>>

\* Mutant: SET without EX.
ExpiryNever == MaxTime + 1
Expiry == now + TTL

\* SET with EX, or an error that is ignored.
SetCached(h) ==
  /\ At(h, "facets", "set")
  /\ \/ /\ cache' = Entry("facets", req[h].dims, req[h].began, Expiry)
        /\ UNCHANGED faults
     \/ Fault /\ UNCHANGED cache
  /\ To(h, Idle)
  /\ Beside
  /\ UNCHANGED writers

\* Somebody else writes under the key: another release with another schema,
\* or an operator.
Corrupt ==
  /\ Fault
  /\ \E kind \in {"junk", "alien"} : cache' = Entry(kind, Unread, now, now + TTL)
  /\ UNCHANGED <<articles, vectors, fetched, committed, drift, req, writers, now, wrote>>

\* The clock moves and Redis drops what has expired.
FacetsTick ==
  /\ Tick
  /\ cache' = IF cache # NoEntry /\ cache.exp <= now + 1 THEN NoEntry ELSE cache
  /\ UNCHANGED wrote

FacetsStep(h) ==
  Facets(h) \/ GetCached(h) \/ DropCorrupt(h) \/ Aggregate(h) \/ SetCached(h)

FacetsNext ==
  \/ \E h \in Handlers : LibraryAction(h) \/ FacetsStep(h)
  \/ Corrupt
  \/ FacetsTick

FacetsSpec == FacetsInit /\ [][FacetsNext]_vars

-----------------------------------------------------------------------------
\* What the facets may hide: a write committed before their aggregation began
\* is in them, and they are served from the cache for at most TTL after they
\* were stored.  So a write shows after TTL and the time of one aggregation,
\* and a dimension that degraded is served for no longer either.
FacetsFresh ==
  /\ \A h \in Handlers : At(h, "facets", "set") =>
       \A i \in 1..Len(Dims), w \in 1..Len(wrote) :
         wrote[w] < req[h].began => req[h].dims[i] = Degraded \/ w <= req[h].dims[i]
  /\ cache # NoEntry /\ cache.kind = "facets" =>
       /\ now < cache.stored + TTL
       /\ \A i \in 1..Len(Dims), w \in 1..Len(wrote) :
            wrote[w] + TTL + (cache.stored - cache.began) <= now
              => cache.dims[i] = Degraded \/ w <= cache.dims[i]

=============================================================================
