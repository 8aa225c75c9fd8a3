---------------------------- MODULE LibraryProofs ----------------------------
(***************************************************************************)
(* Proofs about Library and Facets: the vectors follow the rows, every     *)
(* drift between the two has its reason, the facets hide a write for no    *)
(* longer than the cache may hold them, and a page of search results is    *)
(* the page of the whole ranking as far as the over-fetch allows.          *)
(***************************************************************************)
EXTENDS Facets, SelectionProofs, FiniteSetTheorems

-----------------------------------------------------------------------------
(* The inductive invariant of the library. *)

Rows == [id : Ids, text : Ids, topics : SUBSET Topics, at : Nat]
Vectors == [text : Ids, url : Urls]
DeleteStates == [op : {"delete"}, pc : {"remove"}, id : Nat]
SearchStates == [op : {"search"}, pc : {"hydrate"}, ranked : Seq(Ids)]
FacetStates == [op : {"facets"}, pc : {"get", "drop", "aggregate", "set"},
                dims : [1..3 -> Nat \cup {Degraded}], next : 1..4, broken : BOOLEAN, began : Nat]
ReqStates == ScrapeStates \cup DeleteStates \cup SearchStates \cup FacetStates \cup {Idle}

LibTypeOK ==
  /\ articles \in [Urls -> Rows \cup {NoArticle}]
  /\ vectors \in [Ids -> Vectors \cup {NoVector}]
  /\ fetched \in 0..MaxFetches
  /\ committed \subseteq Ids \X Ids
  /\ drift \subseteq Ids
  /\ req \in [Handlers -> ReqStates]
  /\ now \in Nat

\* Ids are texts that were fetched, and name one row each.
RowsOK ==
  \A u \in Live :
    /\ articles[u].id \in 1..fetched
    /\ \A w \in Live : articles[u].id = articles[w].id => u = w

\* The text is fetched and not committed; it is committed and not indexed.
Holds(h) == At(h, "scrape", "write")
Waits(h) == req[h] # Idle /\ req[h].op = "scrape" /\ req[h].pc \in {"refresh", "index"}

\* A text on its way is an id of no row and of no scrape yet.
FreshOK(h) ==
  Holds(h) =>
    /\ req[h].text \in 1..fetched
    /\ \A u \in Live : articles[u].id # req[h].text
    /\ \A k \in Handlers : Waits(k) => req[k].id # req[h].text
    /\ \A k \in Handlers \ {h} : Holds(k) => req[k].text # req[h].text

\* A scrape that is about to index is of the row's page, and the row has its
\* text unless the id is known to drift.
WaitsOK(h) ==
  Waits(h) =>
    /\ req[h].id \in 1..fetched
    /\ <<req[h].id, req[h].text>> \in committed
    /\ req[h].embedded \/ req[h].id \in drift
    /\ \A u \in Live : articles[u].id = req[h].id =>
         u = Url(h) /\ (articles[u].text = req[h].text \/ req[h].id \in drift)

LibInv ==
  /\ LibTypeOK
  /\ RowsOK
  /\ \A h \in Handlers : FreshOK(h) /\ WaitsOK(h)
  /\ VectorsFollowRows
  /\ DriftExplained

-----------------------------------------------------------------------------
(* The invariant of the facets, on top of it. *)

\* The dimension saw every write before the aggregation began.
Seen(value, began) ==
  value = Degraded \/ \A w \in 1..Len(wrote) : wrote[w] < began => w <= value

FacetOK(h) ==
  req[h] # Idle /\ req[h].op = "facets" =>
    /\ req[h].began <= now
    /\ req[h].pc \in {"get", "drop"} => req[h].next = 1
    /\ req[h].pc = "aggregate" => req[h].next < 4
    /\ req[h].pc = "set" => req[h].next = 4
    /\ \A i \in 1..3 : i < req[h].next => Seen(req[h].dims[i], req[h].began)

CacheOK ==
  cache # NoEntry /\ cache.kind = "facets" =>
    /\ cache.dims \in [1..3 -> Nat \cup {Degraded}]
    /\ cache.began \in Nat /\ cache.stored \in Nat /\ cache.exp = cache.stored + TTL
    /\ cache.began <= cache.stored /\ cache.stored <= now /\ now < cache.exp
    /\ \A i \in 1..3 : Seen(cache.dims[i], cache.began)

\* The cache never holds what has expired; `wrote` is in the order of time.
FacetsInv ==
  /\ LibInv
  /\ wrote \in Seq(Nat) /\ \A w \in 1..Len(wrote) : wrote[w] <= now
  /\ \A h \in Handlers : FacetOK(h)
  /\ CacheOK

-----------------------------------------------------------------------------
(* What a handler has under way after its step. *)

\* Nothing on its way to the tables.
Quiet(r) == r = Idle \/ r \in DeleteStates \cup SearchStates \cup FacetStates
              \/ (r \in ScrapeStates /\ r.pc = "fetch")

\* req'[h] is what a step assigns, and nobody else moves.
LEMMA Frame ==
  ASSUME LibTypeOK, NEW h \in Handlers, NEW r, To(h, r)
  PROVE  /\ req'[h] = r /\ \A k \in Handlers \ {h} : req'[k] = req[k]
         /\ req' \in [Handlers -> {req'[k] : k \in Handlers}]
  BY DEF LibTypeOK, To

LEMMA BeginFrame ==
  ASSUME LibTypeOK, NEW h \in Handlers, NEW r, Begin(h, r) \/ BeginWriter(h, r)
  PROVE  /\ req[h] = Idle /\ req'[h] = r /\ \A k \in Handlers \ {h} : req'[k] = req[k]
         /\ req' \in [Handlers -> {req'[k] : k \in Handlers}]
  BY DEF LibTypeOK, Begin, BeginWriter

LEMMA ScrapingType ==
  ASSUME NEW batch \in Seq(Urls), batch # <<>>, NEW single \in BOOLEAN
  PROVE  Scraping(batch, single) \in ScrapeStates /\ Scraping(batch, single).pc = "fetch"
  BY DEF Scraping, ScrapeStates

\* A batch goes on with its next page or is answered.
LEMMA NextUrlQuiet ==
  ASSUME NEW r \in ScrapeStates
  PROVE  /\ NextUrl(r) = Idle \/ (NextUrl(r) \in ScrapeStates /\ NextUrl(r).pc = "fetch")
         /\ SkipOrFail(r) = Idle \/ (SkipOrFail(r) \in ScrapeStates /\ SkipOrFail(r).pc = "fetch")
  <1>1. r.todo \in Seq(Urls) /\ r.todo # <<>> /\ r.single \in BOOLEAN /\ r.broken \in BOOLEAN
    BY DEF ScrapeStates
  <1>2. CASE Len(r.todo) = 1
    BY <1>2 DEF NextUrl, SkipOrFail
  <1>3. CASE Len(r.todo) # 1
    <2>1. Tail(r.todo) \in Seq(Urls) /\ Tail(r.todo) # <<>>
      <3>1. PICK s \in Seq(Urls) : s = r.todo /\ s # <<>> /\ Len(s) # 1
        BY <1>1, <1>3
      <3>2. Tail(s) \in Seq(Urls) /\ Len(Tail(s)) = Len(s) - 1
        BY <3>1
      <3>3. Len(s) \in Nat /\ Len(s) # 0
        BY <3>1
      <3>4. Len(Tail(s)) # 0
        BY <3>1, <3>2, <3>3
      <3> QED
        BY <3>1, <3>2, <3>4
    <2>2. PICK s \in ScrapeStates : s = Scraping(Tail(r.todo), r.single) /\ s.pc = "fetch"
      BY <1>1, <2>1, ScrapingType
    <2>3. PICK n : n = [s EXCEPT !.broken = r.broken]
      OBVIOUS
    <2>4. n \in ScrapeStates /\ n.pc = "fetch"
      BY <1>1, <2>2, <2>3 DEF ScrapeStates
    <2>5. NextUrl(r) = n
      BY <1>3, <2>2, <2>3 DEF NextUrl
    <2> QED
      BY <2>4, <2>5 DEF SkipOrFail
  <1> QED
    BY <1>2, <1>3

\* A handler that is At a step of a scrape has a scrape under way.
LEMMA ScrapeReq ==
  ASSUME LibTypeOK, NEW h \in Handlers, req[h] # Idle, req[h].op = "scrape"
  PROVE  req[h] \in ScrapeStates
  BY DEF LibTypeOK, ReqStates, DeleteStates, SearchStates, FacetStates

\* A quiet request is neither about to write nor to index.
LEMMA QuietReq ==
  ASSUME NEW h \in Handlers, Quiet(req[h])
  PROVE  ~Holds(h) /\ ~Waits(h)
  BY DEF Quiet, Holds, Waits, At, ScrapeStates, DeleteStates, SearchStates, FacetStates

-----------------------------------------------------------------------------
(* Steps of the library *)

LEMMA LibInitInv == Init => LibInv
  <1> SUFFICES ASSUME Init PROVE LibInv
    OBVIOUS
  <1>1. PICK n \in Nat : n = Len(Seeds) /\ n <= MaxFetches /\ MaxFetches \in Nat
                         /\ Seeds \in [1..n -> Urls] /\ DOMAIN Seeds = 1..n
    BY LibraryAssumption
  <1>2. \A i, j \in 1..n : Seeds[i] = Seeds[j] => i = j
    BY <1>1, LibraryAssumption DEF IsInjective
  <1>3. ASSUME NEW u \in Urls, articles[u] # NoArticle
        PROVE  \E i \in 1..n : /\ articles[u] = [id |-> i, text |-> i, topics |-> {}, at |-> 0]
                               /\ Seeds[i] = u
    <2>1. u \in ToSet(Seeds)
      BY <1>3 DEF Init
    <2>2. PICK i : i = CHOOSE j \in DOMAIN Seeds : Seeds[j] = u
      OBVIOUS
    <2>3. i \in 1..n /\ Seeds[i] = u
      BY <1>1, <2>1, <2>2 DEF ToSet
    <2> QED
      BY <2>1, <2>2, <2>3 DEF Init
  <1>4. ASSUME NEW i \in Ids
        PROVE  vectors[i] = IF i <= n THEN [text |-> i, url |-> Seeds[i]] ELSE NoVector
    BY <1>1 DEF Init
  <1>5. LibTypeOK
    <2>1. \A u \in Urls : articles[u] \in Rows \cup {NoArticle}
      <3> SUFFICES ASSUME NEW u \in Urls, articles[u] # NoArticle PROVE articles[u] \in Rows
        OBVIOUS
      <3>1. PICK i \in 1..n : articles[u] = [id |-> i, text |-> i, topics |-> {}, at |-> 0]
        BY <1>3
      <3>2. i \in Ids /\ {} \in SUBSET Topics
        BY <1>1 DEF Ids
      <3> QED
        BY <3>1, <3>2 DEF Rows
    <2>2. \A i \in Ids : vectors[i] \in Vectors \cup {NoVector}
      <3> SUFFICES ASSUME NEW i \in Ids, i <= n PROVE [text |-> i, url |-> Seeds[i]] \in Vectors
        BY <1>4
      <3>1. i \in 1..n
        BY <1>1 DEF Ids
      <3> QED
        BY <1>1, <3>1 DEF Vectors
    <2>3. articles \in [Urls -> Rows \cup {NoArticle}]
      BY <2>1 DEF Init
    <2>4. vectors \in [Ids -> Vectors \cup {NoVector}]
      BY <2>2 DEF Init
    <2>5. committed \subseteq Ids \X Ids
      BY <1>1 DEF Init, Ids
    <2> QED
      BY <1>1, <2>3, <2>4, <2>5 DEF Init, LibTypeOK, ReqStates
  <1>6. RowsOK
    <2>1. ASSUME NEW u \in Live
          PROVE  \E i \in 1..n : articles[u].id = i /\ Seeds[i] = u
      <3>1. PICK i \in 1..n : /\ articles[u] = [id |-> i, text |-> i, topics |-> {}, at |-> 0]
                              /\ Seeds[i] = u
        BY <1>3 DEF Live
      <3> QED
        BY <3>1
    <2>2. fetched = n
      BY <1>1 DEF Init
    <2> QED
      BY <1>2, <2>1, <2>2 DEF RowsOK
  <1>7. \A h \in Handlers : FreshOK(h) /\ WaitsOK(h)
    BY DEF Init, FreshOK, WaitsOK, Holds, Waits, At
  <1>8. VectorsFollowRows
    BY <1>1, <1>4 DEF VectorsFollowRows, Init, Ids
  <1>9. DriftExplained
    <2> SUFFICES ASSUME NEW u \in Live
                 PROVE  vectors[articles[u].id] = [text |-> articles[u].text, url |-> u]
      BY DEF DriftExplained
    <2>1. PICK i \in 1..n : /\ articles[u] = [id |-> i, text |-> i, topics |-> {}, at |-> 0]
                            /\ Seeds[i] = u
      BY <1>3 DEF Live
    <2>2. i \in Ids
      BY <1>1 DEF Ids
    <2>3. vectors[i] = [text |-> i, url |-> u]
      BY <1>4, <2>1, <2>2
    <2> QED
      BY <2>1, <2>3
  <1> QED
    BY <1>5, <1>6, <1>7, <1>8, <1>9 DEF LibInv

\* The handler is done with whatever it had on its way; what it had committed
\* and not indexed drifts now, or its row is gone.
LEMMA Leaves ==
  ASSUME LibInv, NEW h \in Handlers, UNCHANGED <<articles, vectors, fetched, committed, now>>,
         Quiet(req'[h]), \A k \in Handlers \ {h} : req'[k] = req[k],
         req' \in [Handlers -> {req'[k] : k \in Handlers}],
         drift' \subseteq Ids, drift \subseteq drift',
         Waits(h) => req[h].id \in drift' \/ req[h].id \notin LiveIds
  PROVE  LibInv'
  <1> USE DEF LibInv
  <1>1. UNCHANGED <<Live, LiveIds>>
    BY DEF Live, LiveIds
  <1>2. ~Holds(h)' /\ ~Waits(h)'
    <2>1. PICK r : r = req'[h]
      OBVIOUS
    <2>2. Quiet(r)
      BY <2>1
    <2>3. ~(r # Idle /\ r.op = "scrape" /\ r.pc \in {"write", "refresh", "index"})
      BY <2>2 DEF Quiet, ScrapeStates, DeleteStates, SearchStates, FacetStates
    <2> QED
      BY <2>1, <2>3 DEF Holds, Waits, At
  <1>3. \A k \in Handlers \ {h} : /\ Holds(k)' <=> Holds(k)
                                  /\ Waits(k)' <=> Waits(k)
                                  /\ Url(k)' = Url(k)
    BY DEF Holds, Waits, At, Url
  <1>4. LibTypeOK'
    <2>1. req'[h] \in ReqStates
      BY DEF Quiet, ReqStates
    <2>2. \A k \in Handlers : req'[k] \in ReqStates
      BY <2>1 DEF LibTypeOK
    <2> QED
      BY <2>2 DEF LibTypeOK
  <1>5. RowsOK' /\ VectorsFollowRows'
    BY <1>1 DEF RowsOK, VectorsFollowRows
  <1>6. ASSUME NEW k \in Handlers PROVE FreshOK(k)' /\ WaitsOK(k)'
    <2>1. CASE k = h
      BY <1>2, <2>1 DEF FreshOK, WaitsOK
    <2>2. CASE k # h
      <3>1. FreshOK(k)'
        BY <1>1, <1>2, <1>3, <2>2 DEF FreshOK
      <3>2. WaitsOK(k)'
        BY <1>1, <1>3, <2>2 DEF WaitsOK
      <3> QED
        BY <3>1, <3>2
    <2> QED
      BY <2>1, <2>2
  <1>7. DriftExplained'
    <2> SUFFICES ASSUME NEW u \in Live
                 PROVE  \/ vectors[articles[u].id] = [text |-> articles[u].text, url |-> u]
                        \/ articles[u].id \in drift'
                        \/ \E k \in Handlers : Waits(k)' /\ req'[k].id = articles[u].id
      BY <1>1 DEF DriftExplained, Waits
    <2>1. \/ vectors[articles[u].id] = [text |-> articles[u].text, url |-> u]
          \/ articles[u].id \in drift
          \/ \E k \in Handlers : Waits(k) /\ req[k].id = articles[u].id
      BY DEF DriftExplained, Waits
    <2>2. ASSUME NEW k \in Handlers, Waits(k), req[k].id = articles[u].id
          PROVE  articles[u].id \in drift' \/ (k # h /\ Waits(k)' /\ req'[k].id = articles[u].id)
      <3>1. articles[u].id \in LiveIds
        BY DEF LiveIds
      <3> QED
        BY <1>3, <2>2, <3>1
    <2> QED
      BY <2>1, <2>2
  <1> QED
    BY <1>4, <1>5, <1>6, <1>7

\* Rows, vectors and requests as they were.
LEMMA Still ==
  ASSUME LibInv, UNCHANGED <<articles, vectors, fetched, committed, drift, req>>, now' \in Nat
  PROVE  LibInv'
  <1> USE DEF LibInv
  <1>1. UNCHANGED Live
    BY DEF Live
  <1>2. LibTypeOK' /\ RowsOK' /\ VectorsFollowRows'
    BY <1>1 DEF LibTypeOK, RowsOK, VectorsFollowRows
  <1>3. \A h \in Handlers : FreshOK(h)' /\ WaitsOK(h)'
    BY <1>1 DEF FreshOK, WaitsOK, Holds, Waits, At, Url
  <1>4. DriftExplained'
    BY <1>1 DEF DriftExplained
  <1> QED
    BY <1>2, <1>3, <1>4

LEMMA FetchInv ==
  ASSUME LibInv, NEW h \in Handlers, Fetch(h)
  PROVE  LibInv'
  <1> USE DEF LibInv
  <1>1. /\ UNCHANGED <<articles, vectors, committed, drift, now>>
        /\ fetched' = fetched + 1 /\ fetched < MaxFetches /\ MaxFetches \in Nat
        /\ fetched \in Nat
    BY LibraryAssumption DEF Fetch, LibTypeOK
  <1>2. req[h] \in ScrapeStates /\ req[h].pc = "fetch"
    BY ScrapeReq DEF Fetch, At
  <1>3. PICK tags \in SUBSET Topics, e \in BOOLEAN :
          To(h, [req[h] EXCEPT !.pc = "write", !.text = fetched + 1, !.topics = tags,
                               !.embedded = e])
    BY DEF Fetch, Extracted, Embeds
  <1>4. /\ req'[h] = [req[h] EXCEPT !.pc = "write", !.text = fetched + 1, !.topics = tags,
                                    !.embedded = e]
        /\ \A k \in Handlers \ {h} : req'[k] = req[k]
        /\ req' \in [Handlers -> {req'[k] : k \in Handlers}]
    BY <1>3, Frame
  <1>5. req'[h] \in ScrapeStates /\ req'[h].pc = "write" /\ req'[h].text = fetched + 1
    <2>1. PICK n \in Nat : n = fetched + 1
      BY <1>1
    <2>2. req'[h] = [req[h] EXCEPT !.pc = "write", !.text = n, !.topics = tags,
                                  !.embedded = e]
      BY <1>4, <2>1
    <2>3. req'[h] \in ScrapeStates
      BY <1>2, <2>2 DEF ScrapeStates
    <2>4. req'[h].pc = "write" /\ req'[h].text = n
      BY <1>2, <2>2 DEF ScrapeStates
    <2> QED
      BY <2>1, <2>3, <2>4
  <1>6. ~Waits(h)' /\ UNCHANGED Live
    BY <1>1, <1>5 DEF Waits, Live
  <1>7. \A k \in Handlers \ {h} : /\ Holds(k)' <=> Holds(k)
                                  /\ Waits(k)' <=> Waits(k)
                                  /\ Url(k)' = Url(k)
    BY <1>4 DEF Holds, Waits, At, Url
  <1>8. LibTypeOK'
    <2>1. \A k \in Handlers : req'[k] \in ReqStates
      BY <1>4, <1>5 DEF LibTypeOK, ReqStates
    <2> QED
      BY <1>1, <1>4, <2>1 DEF LibTypeOK
  <1>9. RowsOK' /\ VectorsFollowRows'
    BY <1>1, <1>6 DEF RowsOK, VectorsFollowRows
  <1>10. ASSUME NEW k \in Handlers PROVE FreshOK(k)' /\ WaitsOK(k)'
    <2>1. CASE k = h
      <3>1. \A u \in Live : articles[u].id # fetched + 1
        BY <1>1 DEF RowsOK
      <3>2. ASSUME NEW j \in Handlers, Waits(j) PROVE req[j].id # fetched + 1
        <4>1. req[j].id \in 1..fetched
          BY <3>2 DEF WaitsOK
        <4> QED
          BY <1>1, <4>1
      <3>3. \A j \in Handlers : Holds(j) => req[j].text # fetched + 1
        BY <1>1 DEF FreshOK
      <3>4. FreshOK(h)'
        BY <1>1, <1>4, <1>5, <1>6, <1>7, <3>1, <3>2, <3>3 DEF FreshOK
      <3> QED
        BY <1>6, <2>1, <3>4 DEF WaitsOK
    <2>2. CASE k # h
      <3>1. FreshOK(k)'
        <4> SUFFICES ASSUME Holds(k) PROVE FreshOK(k)'
          BY <1>7, <2>2 DEF FreshOK
        <4>1. /\ req[k].text \in 1..fetched /\ req'[k] = req[k]
              /\ \A u \in Live : articles[u].id # req[k].text
              /\ \A j \in Handlers : Waits(j) => req[j].id # req[k].text
              /\ \A j \in Handlers \ {k} : Holds(j) => req[j].text # req[k].text
          BY <1>4, <2>2 DEF FreshOK
        <4>2. req[k].text \in 1..fetched' /\ req[k].text # fetched + 1
          BY <1>1, <4>1
        <4>3. \A j \in Handlers : Waits(j)' => req'[j].id # req[k].text
          BY <1>4, <1>6, <1>7, <4>1
        <4>4. \A j \in Handlers \ {k} : Holds(j)' => req'[j].text # req[k].text
          BY <1>4, <1>5, <1>7, <4>1, <4>2
        <4> QED
          BY <1>1, <1>6, <4>1, <4>2, <4>3, <4>4 DEF FreshOK
      <3>2. WaitsOK(k)'
        <4> SUFFICES ASSUME Waits(k) PROVE WaitsOK(k)'
          BY <1>7, <2>2 DEF WaitsOK
        <4>1. req[k].id \in 1..fetched'
          <5>1. req[k].id \in 1..fetched
            BY DEF WaitsOK
          <5> QED
            BY <1>1, <5>1
        <4> QED
          BY <1>1, <1>4, <1>6, <1>7, <2>2, <4>1, SMTT(30) DEF WaitsOK
      <3> QED
        BY <3>1, <3>2
    <2> QED
      BY <2>1, <2>2
  <1>11. DriftExplained'
    <2>1. ~Waits(h)
      BY <1>2 DEF Waits
    <2>2. \A k \in Handlers : Waits(k) => Waits(k)' /\ req'[k] = req[k]
      BY <1>4, <1>7, <2>1
    <2> QED
      BY <1>1, <1>6, <2>2 DEF DriftExplained, Waits
  <1> QED
    BY <1>8, <1>9, <1>10, <1>11

\* The text becomes the row's, of a new row or of the one that is there.
LEMMA WriteInv ==
  ASSUME LibInv, NEW h \in Handlers, Write(h)
  PROVE  LibInv'
  <1> USE DEF LibInv
  <1>1. /\ UNCHANGED <<vectors, fetched, now>> /\ Holds(h) /\ ~Waits(h)
        /\ req[h] \in ScrapeStates /\ fetched \in Nat /\ now \in Nat
        /\ fetched <= MaxFetches /\ MaxFetches \in Nat
    BY ScrapeReq, LibraryAssumption DEF Write, At, Holds, Waits, LibTypeOK
  <1>2. PICK u : u = Url(h)
    OBVIOUS
  <1>3. u \in Urls
    <2>1. PICK s \in Seq(Urls) : s = req[h].todo /\ s # <<>>
      BY <1>1 DEF ScrapeStates
    <2>2. Head(s) \in Urls
      BY <2>1
    <2> QED
      BY <1>2, <2>1, <2>2 DEF Url
  <1>4. PICK text : text = req[h].text
    OBVIOUS
  <1>5. /\ text \in 1..fetched
        /\ \A w \in Live : articles[w].id # text
        /\ \A k \in Handlers : Waits(k) => req[k].id # text
        /\ \A k \in Handlers \ {h} : Holds(k) => req[k].text # text
    BY <1>1, <1>4 DEF FreshOK
  <1>6. PICK row : row = Upserted(u, text, req[h].topics)
    OBVIOUS
  <1>7. /\ articles' = [articles EXCEPT ![u] = row]
        /\ committed' = committed \cup {<<row.id, row.text>>}
        /\ drift' = IF Pending(h, row.id) # {} \/ ~req[h].embedded
                    THEN drift \cup {row.id} ELSE drift
        /\ To(h, [req[h] EXCEPT !.pc = "refresh", !.id = row.id])
    BY <1>2, <1>4, <1>6 DEF Write
  <1>8. /\ row \in Rows /\ row.text = text /\ row.id \in 1..fetched
        /\ (u \notin Live /\ row.id = text) \/ (u \in Live /\ row.id = articles[u].id)
    <2>1. text \in Ids /\ req[h].topics \in SUBSET Topics
      BY <1>1, <1>5 DEF Ids, ScrapeStates
    <2>2. CASE articles[u] = NoArticle
      BY <1>1, <1>5, <1>6, <2>1, <2>2 DEF Upserted, Rows, Live
    <2>3. CASE articles[u] # NoArticle
      <3>1. PICK old \in Rows : old = articles[u]
        BY <1>3, <2>3 DEF LibTypeOK
      <3>2. row = [old EXCEPT !.text = text, !.topics = req[h].topics]
        BY <1>6, <2>3, <3>1 DEF Upserted
      <3>3. row \in Rows /\ row.text = text /\ row.id = old.id
        BY <2>1, <3>1, <3>2 DEF Rows
      <3>4. u \in Live /\ old.id \in 1..fetched
        BY <1>3, <2>3, <3>1 DEF Live, RowsOK
      <3> QED
        BY <3>1, <3>3, <3>4
    <2> QED
      BY <2>2, <2>3
  <1>9. PICK id : id = row.id
    OBVIOUS
  <1>10. /\ req'[h] = [req[h] EXCEPT !.pc = "refresh", !.id = id]
         /\ \A k \in Handlers \ {h} : req'[k] = req[k]
         /\ req' \in [Handlers -> {req'[k] : k \in Handlers}]
    BY <1>7, <1>9, Frame
  <1>11. /\ req'[h] \in ScrapeStates /\ req'[h].pc = "refresh" /\ req'[h].id = id
         /\ req'[h].text = text /\ req'[h].embedded = req[h].embedded
         /\ req'[h].todo = req[h].todo
    <2>1. id \in Nat
      BY <1>1, <1>8, <1>9
    <2> QED
      BY <1>1, <1>4, <1>10, <2>1 DEF ScrapeStates
  <1>12. Waits(h)' /\ ~Holds(h)' /\ Url(h)' = u
    <2>1. req'[h] # Idle /\ req'[h].op = "scrape"
      BY <1>11, LibraryAssumption DEF ScrapeStates
    <2> QED
      BY <1>2, <1>11, <2>1 DEF Waits, Holds, At, Url
  <1>13. \A k \in Handlers \ {h} : /\ Holds(k)' <=> Holds(k)
                                   /\ Waits(k)' <=> Waits(k)
                                   /\ Url(k)' = Url(k)
    BY <1>10 DEF Holds, Waits, At, Url
  <1>14. /\ articles'[u] = row /\ \A w \in Urls \ {u} : articles'[w] = articles[w]
         /\ \A w \in Live' \ {u} : w \in Live /\ articles'[w] = articles[w]
    BY <1>3, <1>7 DEF LibTypeOK, Live
  <1>15. /\ drift \subseteq drift' /\ drift' \subseteq drift \cup {id}
         /\ ((\E k \in Handlers \ {h} : Waits(k) /\ req[k].id = id) \/ ~req[h].embedded)
              => id \in drift'
    BY <1>7, <1>9 DEF Pending, Waits
  <1>16. \A w \in Live' : articles'[w].id = id => w = u
    BY <1>5, <1>8, <1>9, <1>14 DEF RowsOK
  <1>17. LibTypeOK'
    <2>1. \A k \in Handlers : req'[k] \in ReqStates
      BY <1>10, <1>11 DEF LibTypeOK, ReqStates
    <2>2. articles' \in [Urls -> Rows \cup {NoArticle}]
      BY <1>7, <1>8 DEF LibTypeOK
    <2>3. id \in Ids /\ row.text \in Ids
      BY <1>8, <1>9 DEF Rows
    <2>4. committed' \subseteq Ids \X Ids
      BY <1>7, <1>9, <2>3 DEF LibTypeOK
    <2> QED
      BY <1>1, <1>10, <1>15, <2>1, <2>2, <2>3, <2>4 DEF LibTypeOK
  <1>18. RowsOK'
    BY <1>1, <1>8, <1>9, <1>14, <1>16 DEF RowsOK
  <1>19. ASSUME NEW k \in Handlers PROVE FreshOK(k)'
    <2> SUFFICES ASSUME Holds(k)' PROVE FreshOK(k)'
      BY DEF FreshOK
    <2>1. k # h /\ Holds(k) /\ req'[k] = req[k]
      BY <1>10, <1>12, <1>13
    <2>2. /\ req[k].text \in 1..fetched /\ req[k].text # text
          /\ \A w \in Live : articles[w].id # req[k].text
          /\ \A j \in Handlers : Waits(j) => req[j].id # req[k].text
          /\ \A j \in Handlers \ {k} : Holds(j) => req[j].text # req[k].text
      BY <1>5, <2>1 DEF FreshOK
    <2>3. id # req[k].text
      BY <1>8, <1>9, <2>2
    <2>4. \A w \in Live' : articles'[w].id # req[k].text
      BY <1>9, <1>14, <2>2, <2>3
    <2>5. \A j \in Handlers : Waits(j)' => req'[j].id # req[k].text
      BY <1>10, <1>11, <1>13, <2>2, <2>3
    <2>6. \A j \in Handlers \ {k} : Holds(j)' => req'[j].text # req[k].text
      BY <1>10, <1>12, <1>13, <2>2
    <2> QED
      BY <1>1, <2>1, <2>2, <2>4, <2>5, <2>6 DEF FreshOK
  <1>20. ASSUME NEW k \in Handlers PROVE WaitsOK(k)'
    <2>1. CASE k = h
      <3>1. <<id, text>> \in committed'
        BY <1>7, <1>8, <1>9
      <3>2. \A w \in Live' : articles'[w].id = id => w = u /\ articles'[w].text = text
        BY <1>8, <1>14, <1>16
      <3> QED
        BY <1>1, <1>8, <1>9, <1>11, <1>12, <1>15, <2>1, <3>1, <3>2 DEF WaitsOK
    <2>2. CASE k # h
      <3> SUFFICES ASSUME Waits(k) PROVE WaitsOK(k)'
        BY <1>13, <2>2 DEF WaitsOK
      <3>1. /\ req[k].id \in 1..fetched /\ <<req[k].id, req[k].text>> \in committed
            /\ (req[k].embedded \/ req[k].id \in drift) /\ req'[k] = req[k]
            /\ \A w \in Live : articles[w].id = req[k].id =>
                 w = Url(k) /\ (articles[w].text = req[k].text \/ req[k].id \in drift)
        BY <1>10, <2>2 DEF WaitsOK
      <3>2. ASSUME NEW w \in Live', articles'[w].id = req[k].id
            PROVE  w = Url(k) /\ (articles'[w].text = req[k].text \/ req[k].id \in drift')
        <4>1. CASE w = u
          <5>1. id = req[k].id /\ id \in drift'
            BY <1>9, <1>14, <1>15, <2>2, <3>2, <4>1
          <5>2. u \in Live /\ articles[u].id = req[k].id
            BY <1>5, <1>8, <1>9, <5>1
          <5> QED
            BY <3>1, <4>1, <5>1, <5>2
        <4>2. CASE w # u
          BY <1>14, <1>15, <3>1, <3>2, <4>2
        <4> QED
          BY <4>1, <4>2
      <3>3. <<req[k].id, req[k].text>> \in committed' /\ (req[k].embedded \/ req[k].id \in drift')
        BY <1>7, <1>15, <3>1
      <3> QED
        BY <1>1, <1>13, <2>2, <3>1, <3>2, <3>3 DEF WaitsOK
    <2> QED
      BY <2>1, <2>2
  <1>21. VectorsFollowRows'
    BY <1>1, <1>7 DEF VectorsFollowRows
  <1>22. DriftExplained'
    <2> SUFFICES ASSUME NEW w \in Live'
                 PROVE  \/ vectors[articles'[w].id] = [text |-> articles'[w].text, url |-> w]
                        \/ articles'[w].id \in drift'
                        \/ \E k \in Handlers : Waits(k)' /\ req'[k].id = articles'[w].id
      BY <1>1 DEF DriftExplained, Waits
    <2>1. CASE w = u
      BY <1>9, <1>11, <1>12, <1>14, <2>1
    <2>2. CASE w # u
      <3>1. w \in Live /\ articles'[w] = articles[w]
        BY <1>14, <2>2
      <3>2. \/ vectors[articles[w].id] = [text |-> articles[w].text, url |-> w]
            \/ articles[w].id \in drift
            \/ \E k \in Handlers : Waits(k) /\ req[k].id = articles[w].id
        BY <3>1 DEF DriftExplained, Waits
      <3>3. \A k \in Handlers : Waits(k) => Waits(k)' /\ req'[k] = req[k]
        BY <1>1, <1>10, <1>13
      <3> QED
        BY <1>15, <3>1, <3>2, <3>3
    <2> QED
      BY <2>1, <2>2
  <1> QED
    BY <1>17, <1>18, <1>19, <1>20, <1>21, <1>22

\* The last of the scrapes of an article to index it leaves its vector as the
\* row is, or the id drifts.
LEMMA IndexInv ==
  ASSUME LibInv, NEW h \in Handlers, Index(h)
  PROVE  LibInv'
  <1> USE DEF LibInv
  <1>1. /\ UNCHANGED <<articles, committed, fetched, now>> /\ Waits(h)
        /\ req[h] \in ScrapeStates
    BY ScrapeReq DEF Index, At, Waits
  <1>2. PICK i, text, u : i = req[h].id /\ text = req[h].text /\ u = Url(h)
    OBVIOUS
  <1>3. /\ vectors' = [vectors EXCEPT ![i] = [text |-> text, url |-> u]]
        /\ drift' = IF Pending(h, i) = {} /\ i \in LiveIds /\ articles[u].text = text
                    THEN drift \ {i} ELSE drift
        /\ To(h, NextUrl(req[h]))
    BY <1>2 DEF Index, Stored
  <1>4. /\ i \in 1..fetched /\ <<i, text>> \in committed
        /\ \A w \in Live : articles[w].id = i => w = u /\ (articles[w].text = text \/ i \in drift)
    BY <1>1, <1>2 DEF WaitsOK
  <1>5. i \in Ids /\ text \in Nat /\ u \in Urls
    <2>1. PICK s \in Seq(Urls) : s = req[h].todo /\ s # <<>>
      BY <1>1 DEF ScrapeStates
    <2>2. Head(s) \in Urls
      BY <2>1
    <2>3. i \in Ids
      BY <1>4, LibraryAssumption DEF Ids, LibTypeOK
    <2> QED
      BY <1>1, <1>2, <2>1, <2>2, <2>3 DEF Url, ScrapeStates
  <1>6. /\ req'[h] = Idle \/ (req'[h] \in ScrapeStates /\ req'[h].pc = "fetch")
        /\ \A k \in Handlers \ {h} : req'[k] = req[k]
        /\ req' \in [Handlers -> {req'[k] : k \in Handlers}]
    BY <1>1, <1>3, NextUrlQuiet, Frame
  <1>7. ~Waits(h)' /\ ~Holds(h)' /\ UNCHANGED Live
    BY <1>1, <1>6 DEF Waits, Holds, At, Live
  <1>8. \A k \in Handlers \ {h} : /\ Holds(k)' <=> Holds(k)
                                  /\ Waits(k)' <=> Waits(k)
                                  /\ Url(k)' = Url(k)
    BY <1>6 DEF Holds, Waits, At, Url
  <1>9. /\ drift' \subseteq drift /\ drift \subseteq drift' \cup {i}
        /\ \A k \in Handlers \ {h} : Waits(k) /\ req[k].id = i => drift' = drift
    BY <1>3 DEF Pending, Waits
  <1>10. ASSUME NEW k \in Handlers PROVE FreshOK(k)' /\ WaitsOK(k)'
    <2>1. CASE k = h
      BY <1>7, <2>1 DEF FreshOK, WaitsOK
    <2>2. CASE k # h
      <3>1. FreshOK(k)'
        BY <1>1, <1>6, <1>7, <1>8, <2>2 DEF FreshOK
      <3>2. WaitsOK(k)'
        <4> SUFFICES ASSUME Waits(k) PROVE WaitsOK(k)'
          BY <1>8, <2>2 DEF WaitsOK
        <4>1. req'[k] = req[k] /\ (req[k].id \in drift => req[k].id \in drift')
          BY <1>6, <1>9, <2>2
        <4> QED
          BY <1>1, <1>7, <1>8, <2>2, <4>1 DEF WaitsOK
      <3> QED
        BY <3>1, <3>2
    <2> QED
      BY <2>1, <2>2
  <1>11. /\ vectors'[i] = [text |-> text, url |-> u]
         /\ \A j \in Ids \ {i} : vectors'[j] = vectors[j]
    BY <1>3, <1>5 DEF LibTypeOK
  <1>12. LibTypeOK'
    <2>1. \A k \in Handlers : req'[k] \in ReqStates
      BY <1>6 DEF LibTypeOK, ReqStates
    <2>2. text \in Ids
      BY <1>4 DEF LibTypeOK
    <2>3. [text |-> text, url |-> u] \in Vectors
      BY <1>5, <2>2 DEF Vectors
    <2>4. vectors' \in [Ids -> Vectors \cup {NoVector}]
      BY <1>3, <2>3 DEF LibTypeOK
    <2> QED
      BY <1>1, <1>6, <1>9, <2>1, <2>4 DEF LibTypeOK
  <1>13. RowsOK'
    BY <1>1, <1>7 DEF RowsOK
  <1>14. VectorsFollowRows'
    BY <1>1, <1>4, <1>11 DEF VectorsFollowRows
  <1>15. DriftExplained'
    <2> SUFFICES ASSUME NEW w \in Live
                 PROVE  \/ vectors'[articles[w].id] = [text |-> articles[w].text, url |-> w]
                        \/ articles[w].id \in drift'
                        \/ \E k \in Handlers : Waits(k)' /\ req'[k].id = articles[w].id
      BY <1>1, <1>7 DEF DriftExplained, Waits
    <2>1. CASE articles[w].id = i
      <3>1. w = u /\ (articles[w].text = text \/ i \in drift)
        BY <1>4, <2>1
      <3>2. CASE articles[w].text = text
        BY <1>11, <2>1, <3>1, <3>2
      <3>3. CASE articles[w].text # text
        BY <1>3, <2>1, <3>1, <3>3
      <3> QED
        BY <3>2, <3>3
    <2>2. CASE articles[w].id # i
      <3>1. articles[w].id \in Ids
        BY DEF LibTypeOK, Live, Rows
      <3>2. \/ vectors[articles[w].id] = [text |-> articles[w].text, url |-> w]
            \/ articles[w].id \in drift
            \/ \E k \in Handlers : Waits(k) /\ req[k].id = articles[w].id
        BY DEF DriftExplained, Waits
      <3>3. \A k \in Handlers : Waits(k) /\ req[k].id # i => Waits(k)' /\ req'[k] = req[k]
        BY <1>2, <1>6, <1>8
      <3> QED
        BY <1>9, <1>11, <2>2, <3>1, <3>2, <3>3
    <2> QED
      BY <2>1, <2>2
  <1> QED
    BY <1>10, <1>12, <1>13, <1>14, <1>15

LEMMA RefreshInv ==
  ASSUME LibInv, NEW h \in Handlers, Refresh(h)
  PROVE  LibInv'
  <1> USE DEF LibInv
  <1>1. /\ UNCHANGED <<articles, vectors, fetched, committed, drift, now>> /\ Waits(h)
        /\ req[h] \in ScrapeStates /\ req[h].pc = "refresh"
    BY ScrapeReq DEF Refresh, At, Waits
  <1>2. /\ \A k \in Handlers \ {h} : req'[k] = req[k]
        /\ req' \in [Handlers -> {req'[k] : k \in Handlers}]
        /\ req'[h] = IF req[h].id \notin LiveIds THEN SkipOrFail(req[h])
                     ELSE IF req[h].embedded THEN [req[h] EXCEPT !.pc = "index"]
                     ELSE NextUrl(req[h])
    BY Frame DEF Refresh
  <1>3. CASE req[h].id \notin LiveIds \/ ~req[h].embedded
    <2>1. Quiet(req'[h])
      BY <1>1, <1>2, <1>3, NextUrlQuiet DEF Quiet
    <2>2. req[h].id \in drift \/ req[h].id \notin LiveIds
      BY <1>1, <1>3 DEF WaitsOK
    <2>3. drift \subseteq Ids
      BY DEF LibTypeOK
    <2> QED
      BY <1>1, <1>2, <2>1, <2>2, <2>3, Leaves
  <1>4. CASE req[h].id \in LiveIds /\ req[h].embedded
    <2>1. req'[h] = [req[h] EXCEPT !.pc = "index"]
      BY <1>2, <1>4
    <2>2. /\ req'[h] \in ScrapeStates /\ req'[h].pc = "index" /\ req'[h].id = req[h].id
          /\ req'[h].text = req[h].text /\ req'[h].embedded = req[h].embedded
          /\ req'[h].todo = req[h].todo
      BY <1>1, <2>1 DEF ScrapeStates
    <2>3. Waits(h)' /\ ~Holds(h)' /\ ~Holds(h) /\ Url(h)' = Url(h)
      <3>1. req'[h] # Idle /\ req'[h].op = "scrape"
        BY <2>2, LibraryAssumption DEF ScrapeStates
      <3> QED
        BY <1>1, <2>2, <3>1 DEF Waits, Holds, At, Url
    <2>4. ASSUME NEW k \in Handlers
          PROVE  /\ Holds(k)' <=> Holds(k)
                 /\ Waits(k)' <=> Waits(k)
                 /\ Url(k)' = Url(k) /\ req'[k].id = req[k].id
                 /\ req'[k].text = req[k].text /\ req'[k].embedded = req[k].embedded
      <3>1. ASSUME NEW o \in Handlers \ {h}
            PROVE  /\ Holds(o)' <=> Holds(o)
                   /\ Waits(o)' <=> Waits(o)
                   /\ req'[o] = req[o] /\ Url(o)' = Url(o)
        BY <1>2 DEF Waits, Holds, At, Url
      <3> QED
        BY <1>1, <2>2, <2>3, <3>1
    <2>5. UNCHANGED Live
      BY <1>1 DEF Live
    <2>6. LibTypeOK'
      <3>1. \A k \in Handlers : req'[k] \in ReqStates
        BY <1>2, <2>2 DEF LibTypeOK, ReqStates
      <3> QED
        BY <1>1, <1>2, <3>1 DEF LibTypeOK
    <2>7. RowsOK' /\ VectorsFollowRows'
      BY <1>1, <2>5 DEF RowsOK, VectorsFollowRows
    <2>8. ASSUME NEW k \in Handlers PROVE FreshOK(k)' /\ WaitsOK(k)'
      <3>1. FreshOK(k)'
        <4> SUFFICES ASSUME Holds(k) PROVE FreshOK(k)'
          BY <2>4 DEF FreshOK
        <4>1. PICK text : text = req[k].text /\ text = req'[k].text
          BY <2>4
        <4>2. /\ text \in 1..fetched
              /\ \A w \in Live : articles[w].id # text
              /\ \A j \in Handlers : Waits(j) => req[j].id # text
              /\ \A j \in Handlers \ {k} : Holds(j) => req[j].text # text
          BY <4>1 DEF FreshOK
        <4>3. \A j \in Handlers : Waits(j)' => req'[j].id # text
          BY <2>4, <4>2
        <4>4. \A j \in Handlers \ {k} : Holds(j)' => req'[j].text # text
          BY <2>4, <4>2
        <4> QED
          BY <1>1, <2>5, <4>1, <4>2, <4>3, <4>4 DEF FreshOK
      <3>2. WaitsOK(k)'
        <4> SUFFICES ASSUME Waits(k) PROVE WaitsOK(k)'
          BY <2>4 DEF WaitsOK
        <4>1. /\ req'[k].id = req[k].id /\ req'[k].text = req[k].text
              /\ req'[k].embedded = req[k].embedded /\ Url(k)' = Url(k)
          BY <2>4
        <4> QED
          BY <1>1, <2>5, <4>1 DEF WaitsOK
      <3> QED
        BY <3>1, <3>2
    <2>9. DriftExplained'
      <3>1. \A k \in Handlers : Waits(k) => Waits(k)' /\ req'[k].id = req[k].id
        BY <2>4
      <3> QED
        BY <1>1, <2>5, <3>1 DEF DriftExplained, Waits
    <2> QED
      BY <2>6, <2>7, <2>8, <2>9
  <1> QED
    BY <1>3, <1>4

LEMMA RemoveArticleInv ==
  ASSUME LibInv, NEW h \in Handlers, RemoveArticle(h)
  PROVE  LibInv'
  <1> USE DEF LibInv
  <1>1. /\ UNCHANGED <<vectors, fetched, committed, drift, now>> /\ ~Waits(h)
        /\ articles' = [u \in Urls |-> IF u \in Live /\ articles[u].id = req[h].id
                                       THEN NoArticle ELSE articles[u]]
        /\ req'[h] = Idle /\ \A k \in Handlers \ {h} : req'[k] = req[k]
        /\ req' \in [Handlers -> {req'[k] : k \in Handlers}]
    BY Frame DEF RemoveArticle, At, Waits
  <1>2. \A u \in Live' : u \in Live /\ articles'[u] = articles[u]
    BY <1>1 DEF Live
  <1>3. ~Holds(h)' /\ ~Waits(h)'
    BY <1>1 DEF Holds, Waits, At
  <1>4. \A k \in Handlers \ {h} : /\ Holds(k)' <=> Holds(k)
                                  /\ Waits(k)' <=> Waits(k)
                                  /\ Url(k)' = Url(k)
    BY <1>1 DEF Holds, Waits, At, Url
  <1>5. LibTypeOK'
    <2>1. \A k \in Handlers : req'[k] \in ReqStates
      BY <1>1 DEF LibTypeOK, ReqStates
    <2>2. \A u \in Urls : articles'[u] \in Rows \cup {NoArticle}
      BY <1>1 DEF LibTypeOK
    <2>3. articles' \in [Urls -> Rows \cup {NoArticle}]
      BY <1>1, <2>2
    <2> QED
      BY <1>1, <2>1, <2>3 DEF LibTypeOK
  <1>6. RowsOK'
    BY <1>1, <1>2 DEF RowsOK
  <1>7. VectorsFollowRows'
    BY <1>1 DEF VectorsFollowRows
  <1>8. ASSUME NEW k \in Handlers PROVE FreshOK(k)' /\ WaitsOK(k)'
    <2>1. CASE k = h
      BY <1>3, <2>1 DEF FreshOK, WaitsOK
    <2>2. CASE k # h
      <3>1. FreshOK(k)'
        BY <1>1, <1>2, <1>3, <1>4, <2>2, SMTT(30) DEF FreshOK
      <3>2. WaitsOK(k)'
        <4>1. req'[k] = req[k] /\ (Waits(k)' <=> Waits(k)) /\ Url(k)' = Url(k)
          BY <1>1, <1>4, <2>2
        <4>2. WaitsOK(k)
          OBVIOUS
        <4> SUFFICES ASSUME Waits(k)
                     PROVE  /\ req'[k].id \in 1..fetched'
                            /\ <<req'[k].id, req'[k].text>> \in committed'
                            /\ req'[k].embedded \/ req'[k].id \in drift'
                            /\ \A u \in Live' : articles'[u].id = req'[k].id =>
                                 u = Url(k)' /\ (articles'[u].text = req'[k].text \/ req'[k].id \in drift')
          BY <4>1 DEF WaitsOK
        <4> QED
          BY <1>1, <1>2, <4>1, <4>2, SMTT(30) DEF WaitsOK
      <3> QED
        BY <3>1, <3>2
    <2> QED
      BY <2>1, <2>2
  <1>9. DriftExplained'
    <2> SUFFICES ASSUME NEW w \in Live'
                 PROVE  \/ vectors[articles'[w].id] = [text |-> articles'[w].text, url |-> w]
                        \/ articles'[w].id \in drift
                        \/ \E k \in Handlers : Waits(k)' /\ req'[k].id = articles'[w].id
      BY <1>1 DEF DriftExplained, Waits
    <2>1. \/ vectors[articles[w].id] = [text |-> articles[w].text, url |-> w]
          \/ articles[w].id \in drift
          \/ \E k \in Handlers : Waits(k) /\ req[k].id = articles[w].id
      BY <1>2 DEF DriftExplained, Waits
    <2>2. \A k \in Handlers : Waits(k) => Waits(k)' /\ req'[k] = req[k]
      BY <1>1, <1>4
    <2> QED
      BY <1>2, <2>1, <2>2
  <1> QED
    BY <1>5, <1>6, <1>7, <1>8, <1>9

\* A ranking lists ids.
LEMMA RankedType ==
  ASSUME NEW source, NEW r \in SetToSeqs(Ranked(source))
  PROVE  r \in Seq(Ids)
  <1>1. PICK S : S = Ranked(source)
    OBVIOUS
  <1>2. S \subseteq Ids /\ MaxFetches \in Nat
    BY <1>1, LibraryAssumption DEF Ranked
  <1>3. IsFiniteSet(Ids)
    BY <1>2, FS_Interval DEF Ids
  <1>4. Cardinality(S) \in Nat
    BY <1>2, <1>3, FS_Subset, FS_CardinalityType
  <1>5. r \in [1..Cardinality(S) -> S]
    BY <1>1 DEF SetToSeqs
  <1> QED
    BY <1>2, <1>4, <1>5

\* Every step of the library keeps its invariant, and starts no request of
\* the facets.
LEMMA LibraryStepInv ==
  ASSUME LibInv, NEW h \in Handlers, LibraryStep(h)
  PROVE  /\ LibInv' /\ UNCHANGED now
         /\ \A k \in Handlers \ {h} : req'[k] = req[k]
         /\ req'[h] = Idle \/ req'[h].op # "facets"
  <1> USE DEF LibInv
  <1>1. UNCHANGED now
    BY DEF LibraryStep, Scrape, Fetch, FetchFails, Write, DbFails, Refused, Refresh, Index,
           IndexFails, Delete, RemoveArticle, Search, Hydrate
  <1>2. drift \subseteq Ids
    BY DEF LibTypeOK
  <1>3. CASE Fetch(h) \/ Write(h) \/ Index(h) \/ Refresh(h) \/ RemoveArticle(h)
    <2>1. LibInv'
      BY <1>3, FetchInv, WriteInv, IndexInv, RefreshInv, RemoveArticleInv
    <2>2. \A k \in Handlers \ {h} : req'[k] = req[k]
      BY <1>3, Frame DEF Fetch, Write, Index, Refresh, RemoveArticle
    <2>3. req'[h] = Idle \/ req'[h].op # "facets"
      <3>1. CASE RemoveArticle(h)
        BY <3>1, Frame DEF RemoveArticle
      <3>2. CASE ~RemoveArticle(h)
        <4>1. PICK s \in ScrapeStates : s = req[h]
          BY <1>3, <3>2, ScrapeReq DEF Fetch, Write, Index, Refresh, At
        <4>2. s.op = "scrape"
          BY DEF ScrapeStates
        <4>3. CASE Index(h) \/ Refresh(h)
          <5>1. \/ req'[h] = SkipOrFail(s) \/ req'[h] = NextUrl(s)
                \/ req'[h] = [s EXCEPT !.pc = "index"]
            BY <4>1, <4>3, Frame DEF Index, Refresh
          <5>2. [s EXCEPT !.pc = "index"].op = "scrape"
            BY <4>2 DEF ScrapeStates
          <5> QED
            BY <5>1, <5>2, NextUrlQuiet DEF ScrapeStates
        <4>4. CASE Fetch(h)
          <5>1. PICK tags \in SUBSET Topics, e \in BOOLEAN :
                  req'[h] = [s EXCEPT !.pc = "write", !.text = fetched + 1, !.topics = tags,
                                      !.embedded = e]
            BY <4>1, <4>4, Frame DEF Fetch, Extracted, Embeds
          <5> QED
            BY <4>2, <5>1 DEF ScrapeStates
        <4>5. CASE Write(h)
          <5>1. PICK id : req'[h] = [s EXCEPT !.pc = "refresh", !.id = id]
            BY <4>1, <4>5, Frame DEF Write
          <5> QED
            BY <4>2, <5>1 DEF ScrapeStates
        <4> QED
          BY <1>3, <3>2, <4>3, <4>4, <4>5
      <3> QED
        BY <3>1, <3>2
    <2> QED
      BY <1>1, <2>1, <2>2, <2>3
  <1>4. ASSUME Quiet(req'[h]), UNCHANGED <<articles, vectors, fetched, committed>>,
               \A k \in Handlers \ {h} : req'[k] = req[k],
               req' \in [Handlers -> {req'[k] : k \in Handlers}],
               req'[h] = Idle \/ req'[h].op # "facets",
               drift' \subseteq Ids, drift \subseteq drift',
               Waits(h) => req[h].id \in drift'
        PROVE  LibInv' /\ \A k \in Handlers \ {h} : req'[k] = req[k]
    BY <1>1, <1>4, Leaves
  <1>5. CASE FetchFails(h) \/ DbFails(h) \/ Refused(h) \/ IndexFails(h)
    <2>1. /\ req[h] \in ScrapeStates /\ UNCHANGED <<articles, vectors, fetched, committed>>
          /\ \A k \in Handlers \ {h} : req'[k] = req[k]
          /\ req' \in [Handlers -> {req'[k] : k \in Handlers}]
      BY <1>5, ScrapeReq, Frame DEF FetchFails, DbFails, Refused, IndexFails, At
    <2>2. \A b \in BOOLEAN : [req[h] EXCEPT !.broken = b] \in ScrapeStates
      BY <2>1 DEF ScrapeStates
    <2>3. \/ req'[h] = Idle \/ req'[h] = NextUrl(req[h]) \/ req'[h] = SkipOrFail(req[h])
          \/ \E b \in BOOLEAN : req'[h] = SkipOrFail([req[h] EXCEPT !.broken = b])
      BY <1>5, Frame DEF FetchFails, DbFails, Refused, IndexFails
    <2>4. req'[h] = Idle \/ (req'[h] \in ScrapeStates /\ req'[h].pc = "fetch")
      BY <2>1, <2>2, <2>3, NextUrlQuiet
    <2>5. Quiet(req'[h]) /\ (req'[h] = Idle \/ req'[h].op # "facets")
      BY <2>4 DEF Quiet, ScrapeStates
    <2>6. Waits(h) => req[h].id \in Ids
      BY LibraryAssumption DEF WaitsOK, LibTypeOK, Ids
    <2>7. /\ drift' \subseteq Ids /\ drift \subseteq drift'
          /\ Waits(h) => req[h].id \in drift'
      BY <1>2, <1>5, <2>6 DEF FetchFails, DbFails, Refused, IndexFails, At, Waits
    <2> QED
      BY <1>1, <1>4, <2>1, <2>5, <2>7
  <1>6. CASE Scrape(h) \/ Delete(h) \/ Search(h) \/ Hydrate(h)
    <2>1. /\ UNCHANGED <<articles, vectors, fetched, committed, drift>> /\ ~Waits(h)
          /\ \A k \in Handlers \ {h} : req'[k] = req[k]
          /\ req' \in [Handlers -> {req'[k] : k \in Handlers}]
      BY <1>6, BeginFrame, Frame DEF Scrape, Delete, Search, Hydrate, At, Waits
    <2>2. Quiet(req'[h]) /\ (req'[h] = Idle \/ req'[h].op # "facets")
      <3>1. CASE Scrape(h)
        <4>1. PICK b \in Seq(Urls), single \in BOOLEAN :
                b # <<>> /\ req'[h] = Scraping(b, single)
          <5>1. CASE \E u \in Urls : BeginWriter(h, Scraping(<<u>>, TRUE))
            <6>1. PICK u \in Urls : req'[h] = Scraping(<<u>>, TRUE)
              BY <5>1, BeginFrame
            <6>2. <<u>> \in Seq(Urls) /\ <<u>> # <<>>
              OBVIOUS
            <6> QED
              BY <6>1, <6>2
          <5>2. CASE \E b \in Batches : BeginWriter(h, Scraping(b, FALSE))
            BY <5>2, BeginFrame, LibraryAssumption
          <5> QED
            BY <3>1, <5>1, <5>2 DEF Scrape
        <4> QED
          BY <4>1, ScrapingType DEF Quiet, ScrapeStates
      <3>2. CASE Delete(h)
        <4>1. PICK u \in Live : req'[h] = [op |-> "delete", pc |-> "remove", id |-> articles[u].id]
          BY <3>2, BeginFrame DEF Delete
        <4>2. articles[u].id \in Nat
          BY DEF RowsOK
        <4> QED
          BY <4>1, <4>2 DEF Quiet, DeleteStates
      <3>3. CASE Search(h)
        <4>1. PICK source \in Sources : \E r \in SetToSeqs(Ranked(source)) :
                 Begin(h, [op |-> "search", pc |-> "hydrate", ranked |-> r])
          BY <3>3 DEF Search
        <4>2. PICK r \in SetToSeqs(Ranked(source)) :
                 req'[h] = [op |-> "search", pc |-> "hydrate", ranked |-> r]
          BY <4>1, BeginFrame
        <4> QED
          BY <4>2, RankedType DEF Quiet, SearchStates
      <3>4. CASE Hydrate(h)
        BY <3>4, Frame DEF Hydrate, Quiet
      <3> QED
        BY <1>6, <3>1, <3>2, <3>3, <3>4
    <2> QED
      BY <1>1, <1>2, <1>4, <2>1, <2>2
  <1> QED
    BY <1>3, <1>5, <1>6 DEF LibraryStep

-----------------------------------------------------------------------------
(* Steps of the facets *)

\* What a later write or the clock leave of the facets.
LEMMA SeenGrows ==
  ASSUME wrote \in Seq(Nat), now \in Nat, NEW value \in Nat \cup {Degraded}, NEW began \in Nat,
         began <= now, Seen(value, began), Wrote \/ UNCHANGED wrote
  PROVE  Seen(value, began)'
  <1>1. CASE UNCHANGED wrote
    BY <1>1 DEF Seen
  <1>2. CASE wrote' = Append(wrote, now)
    <2>1. /\ Len(wrote') = Len(wrote) + 1 /\ Len(wrote) \in Nat /\ wrote'[Len(wrote) + 1] = now
          /\ \A w \in 1..Len(wrote) : wrote'[w] = wrote[w]
      BY <1>2
    <2> QED
      BY <2>1 DEF Seen
  <1> QED
    BY <1>1, <1>2 DEF Wrote

LEMMA WroteType ==
  ASSUME wrote \in Seq(Nat), now \in Nat, \A w \in 1..Len(wrote) : wrote[w] <= now,
         Wrote \/ UNCHANGED wrote
  PROVE  wrote' \in Seq(Nat) /\ \A w \in 1..Len(wrote') : wrote'[w] <= now
  <1>1. CASE UNCHANGED wrote
    BY <1>1
  <1>2. CASE wrote' = Append(wrote, now)
    <2>1. /\ wrote' \in Seq(Nat)
          /\ Len(wrote') = Len(wrote) + 1 /\ Len(wrote) \in Nat /\ wrote'[Len(wrote) + 1] = now
          /\ \A w \in 1..Len(wrote) : wrote'[w] = wrote[w]
      BY <1>2
    <2> QED
      BY <2>1
  <1> QED
    BY <1>1, <1>2 DEF Wrote

LEMMA FacetReq ==
  ASSUME LibTypeOK, NEW h \in Handlers, req[h] # Idle, req[h].op = "facets"
  PROVE  req[h] \in FacetStates
  BY DEF LibTypeOK, ReqStates, DeleteStates, SearchStates, ScrapeStates

\* One more dimension is aggregated.
LEMMA AggregatedFacts ==
  ASSUME NEW s \in FacetStates, s.next < 4, NEW value \in Nat \cup {Degraded},
         NEW b \in BOOLEAN, NEW r, r = Aggregated(s, value, b)
  PROVE  /\ r \in FacetStates /\ r.began = s.began /\ r.next = s.next + 1
         /\ r.pc = IF s.next = 3 THEN "set" ELSE "aggregate"
         /\ r.dims[s.next] = value /\ \A i \in 1..3 : i < s.next => r.dims[i] = s.dims[i]
  <1>1. Len(Dims) = 3
    BY DEF Dims
  <1>2. PICK dims, next, pc : /\ dims = [s.dims EXCEPT ![s.next] = value] /\ next = s.next + 1
                              /\ pc = IF s.next = 3 THEN "set" ELSE "aggregate"
    OBVIOUS
  <1>3. s.next \in 1..3 /\ s.dims \in [1..3 -> Nat \cup {Degraded}]
    BY DEF FacetStates
  <1>4. /\ dims \in [1..3 -> Nat \cup {Degraded}] /\ next \in 1..4 /\ pc \in {"aggregate", "set"}
        /\ dims[s.next] = value /\ \A i \in 1..3 : i # s.next => dims[i] = s.dims[i]
    BY <1>2, <1>3
  <1>5. r = [s EXCEPT !.dims = dims, !.next = next, !.broken = b, !.pc = pc]
    BY <1>1, <1>2, <1>3 DEF Aggregated, FacetStates
  <1>6. /\ r \in FacetStates /\ r.began = s.began /\ r.next = next /\ r.pc = pc /\ r.dims = dims
    BY <1>4, <1>5 DEF FacetStates
  <1> QED
    BY <1>2, <1>3, <1>4, <1>6

\* A request of the facets moves on and leaves the library alone.
LEMMA FacetMoves ==
  ASSUME FacetsInv, NEW h \in Handlers, req[h] = Idle \/ req[h].op = "facets",
         req'[h] = Idle \/ req'[h] \in FacetStates,
         \A k \in Handlers \ {h} : req'[k] = req[k],
         req' \in [Handlers -> {req'[k] : k \in Handlers}],
         Beside, FacetOK(h)', CacheOK'
  PROVE  FacetsInv'
  <1> USE DEF FacetsInv
  <1>1. UNCHANGED <<articles, vectors, fetched, committed, drift, now, wrote>>
    BY DEF Beside
  <1>2. LibInv'
    <2>1. Quiet(req'[h]) /\ ~Waits(h) /\ drift \subseteq Ids
      BY DEF Quiet, Waits, LibInv, LibTypeOK
    <2> QED
      BY <1>1, <2>1, Leaves
  <1>3. \A k \in Handlers : FacetOK(k)'
    BY <1>1 DEF FacetOK, Seen
  <1> QED
    BY <1>1, <1>2, <1>3

LEMMA CacheStays ==
  ASSUME CacheOK, UNCHANGED <<cache, now, wrote>>
  PROVE  CacheOK'
  BY DEF CacheOK, Seen

LEMMA ComputeFacts ==
  ASSUME NEW s \in FacetStates, now \in Nat, NEW r, r = Compute(s)
  PROVE  r \in FacetStates /\ r.pc = "aggregate" /\ r.began = now /\ r.next = s.next
  BY DEF Compute, FacetStates

LEMMA LookUpInv ==
  ASSUME FacetsInv, NEW h \in Handlers, Facets(h) \/ GetCached(h) \/ DropCorrupt(h)
  PROVE  FacetsInv'
  <1> USE DEF FacetsInv
  <1>1. Beside /\ UNCHANGED <<now, wrote>> /\ now \in Nat /\ LibTypeOK
    BY DEF Facets, GetCached, DropCorrupt, Beside, LibInv, LibTypeOK
  <1>2. /\ \A k \in Handlers \ {h} : req'[k] = req[k]
        /\ req' \in [Handlers -> {req'[k] : k \in Handlers}]
    BY <1>1, Frame, BeginFrame DEF Facets, GetCached, DropCorrupt
  <1>3. CacheOK'
    <2>1. CASE cache' = NoEntry
      BY <2>1 DEF CacheOK
    <2>2. CASE UNCHANGED cache
      BY <1>1, <2>2, CacheStays
    <2> QED
      BY <2>1, <2>2 DEF Facets, GetCached, DropCorrupt
  <1>4. CASE Facets(h)
    <2>1. req[h] = Idle /\ req'[h] = FacetsRequest
      BY <1>1, <1>4, BeginFrame DEF Facets
    <2>2. /\ FacetsRequest \in FacetStates /\ FacetsRequest.pc = "get"
          /\ FacetsRequest.next = 1 /\ FacetsRequest.began = 0
      <3>1. Unread \in [1..3 -> Nat \cup {Degraded}]
        BY DEF Unread, Dims
      <3> QED
        BY <3>1 DEF FacetsRequest, FacetStates
    <2>3. FacetOK(h)'
      BY <1>1, <2>1, <2>2 DEF FacetOK
    <2> QED
      BY <1>1, <1>2, <1>3, <2>1, <2>2, <2>3, FacetMoves
  <1>5. CASE GetCached(h) \/ DropCorrupt(h)
    <2>1. PICK s \in FacetStates : s = req[h] /\ s.pc \in {"get", "drop"} /\ s.op = "facets"
      BY <1>1, <1>5, FacetReq DEF GetCached, DropCorrupt, At
    <2>2. s.next = 1
      BY <1>5, <2>1 DEF FacetOK, GetCached, DropCorrupt, At
    <2>3. \/ req'[h] = Idle \/ req'[h] = Compute(s) \/ req'[h] = [s EXCEPT !.pc = "drop"]
      BY <1>1, <1>5, <2>1, Frame DEF GetCached, DropCorrupt
    <2>4. CASE req'[h] = Idle
      <3>1. FacetOK(h)'
        BY <2>4 DEF FacetOK
      <3> QED
        BY <1>1, <1>2, <1>3, <2>1, <2>4, <3>1, FacetMoves
    <2>5. CASE req'[h] = Compute(s)
      <3>1. /\ req'[h] \in FacetStates /\ req'[h].pc = "aggregate" /\ req'[h].began = now
            /\ req'[h].next = 1
        BY <1>1, <2>2, <2>5, ComputeFacts
      <3>2. FacetOK(h)'
        BY <1>1, <3>1 DEF FacetOK
      <3> QED
        BY <1>1, <1>2, <1>3, <2>1, <3>1, <3>2, FacetMoves
    <2>6. CASE req'[h] = [s EXCEPT !.pc = "drop"]
      <3>1. /\ req'[h] \in FacetStates /\ req'[h].pc = "drop" /\ req'[h].began = s.began
            /\ req'[h].next = 1
        BY <2>2, <2>6 DEF FacetStates
      <3>2. s.began <= now
        BY <1>5, <2>1 DEF FacetOK, GetCached, DropCorrupt, At
      <3>3. FacetOK(h)'
        BY <1>1, <3>1, <3>2 DEF FacetOK
      <3> QED
        BY <1>1, <1>2, <1>3, <2>1, <3>1, <3>3, FacetMoves
    <2> QED
      BY <2>3, <2>4, <2>5, <2>6
  <1> QED
    BY <1>4, <1>5

\* A dimension has every write committed when its statement runs.
LEMMA AggregateInv ==
  ASSUME FacetsInv, NEW h \in Handlers, Aggregate(h)
  PROVE  FacetsInv'
  <1> USE DEF FacetsInv
  <1>1. Beside /\ UNCHANGED <<cache, now, wrote>> /\ now \in Nat /\ LibTypeOK
    BY DEF Aggregate, Beside, LibInv, LibTypeOK
  <1>2. /\ \A k \in Handlers \ {h} : req'[k] = req[k]
        /\ req' \in [Handlers -> {req'[k] : k \in Handlers}]
    BY <1>1, Frame DEF Aggregate
  <1>3. CacheOK'
    BY <1>1, CacheStays
  <1>4. PICK s \in FacetStates : s = req[h] /\ s.pc = "aggregate" /\ s.op = "facets"
    BY <1>1, FacetReq DEF Aggregate, At
  <1>5. /\ s.next < 4 /\ s.began <= now
        /\ \A i \in 1..3 : i < s.next => Seen(s.dims[i], s.began)
    BY <1>4 DEF FacetOK, Aggregate, At
  <1>6. PICK value \in {Len(wrote), Degraded}, b \in BOOLEAN : req'[h] = Aggregated(s, value, b)
    BY <1>1, <1>4, Frame DEF Aggregate
  <1>7. Len(wrote) \in Nat /\ value \in Nat \cup {Degraded}
    OBVIOUS
  <1>8. PICK r : r = req'[h]
    OBVIOUS
  <1>9. /\ r \in FacetStates /\ r.began = s.began /\ r.next = s.next + 1
        /\ r.pc = IF s.next = 3 THEN "set" ELSE "aggregate"
        /\ r.dims[s.next] = value /\ \A i \in 1..3 : i < s.next => r.dims[i] = s.dims[i]
    <2>1. s.next < 4 /\ r = Aggregated(s, value, b)
      BY <1>5, <1>6, <1>8
    <2> QED
      BY <1>7, <2>1, AggregatedFacts
  <1>10. Seen(value, s.began)
    BY <1>6, <1>7 DEF Seen
  <1>11. s.next \in 1..3
    BY <1>5 DEF FacetStates
  <1>12. \A i \in 1..3 : i < r.next => Seen(r.dims[i], r.began)
    BY <1>5, <1>9, <1>10, <1>11
  <1>13. FacetOK(h)'
    <2>1. \A i \in 1..3 : i < r.next => Seen(r.dims[i], r.began)'
      BY <1>1, <1>8, <1>12 DEF Seen
    <2>2. r.pc \notin {"get", "drop"} /\ (r.pc = "aggregate" => r.next < 4)
          /\ (r.pc = "set" => r.next = 4)
      BY <1>9, <1>11
    <2> QED
      BY <1>1, <1>5, <1>8, <1>9, <2>1, <2>2 DEF FacetOK
  <1> QED
    BY <1>1, <1>2, <1>3, <1>4, <1>8, <1>9, <1>13, FacetMoves

LEMMA SetCachedInv ==
  ASSUME FacetsInv, NEW h \in Handlers, SetCached(h)
  PROVE  FacetsInv'
  <1> USE DEF FacetsInv
  <1>1. Beside /\ UNCHANGED <<now, wrote>> /\ now \in Nat /\ LibTypeOK
    BY DEF SetCached, Beside, LibInv, LibTypeOK
  <1>2. /\ \A k \in Handlers \ {h} : req'[k] = req[k]
        /\ req' \in [Handlers -> {req'[k] : k \in Handlers}]
        /\ req'[h] = Idle
    BY <1>1, Frame DEF SetCached
  <1>3. FacetOK(h)'
    BY <1>2 DEF FacetOK
  <1>4. PICK s \in FacetStates : s = req[h] /\ s.pc = "set" /\ s.op = "facets"
    BY <1>1, FacetReq DEF SetCached, At
  <1>5. s.next = 4 /\ s.began <= now /\ \A i \in 1..3 : Seen(s.dims[i], s.began)
    <2>1. s.next = 4 /\ s.began <= now /\ \A i \in 1..3 : i < s.next => Seen(s.dims[i], s.began)
      BY <1>4 DEF FacetOK, SetCached, At
    <2> QED
      BY <2>1
  <1>6. CASE UNCHANGED cache
    BY <1>1, <1>2, <1>3, <1>4, <1>6, CacheStays, FacetMoves
  <1>7. CASE cache' = Entry("facets", req[h].dims, req[h].began, Expiry)
    <2>1. PICK c : c = cache'
      OBVIOUS
    <2>2. c = [kind |-> "facets", dims |-> s.dims, began |-> s.began, stored |-> now, exp |-> now + TTL]
      BY <1>4, <1>7, <2>1 DEF Entry, Expiry
    <2>3. /\ c.dims = s.dims /\ c.began = s.began /\ c.stored = now /\ c.exp = now + TTL
          /\ s.dims \in [1..3 -> Nat \cup {Degraded}] /\ s.began \in Nat
      BY <2>2 DEF FacetStates
    <2>4. now < now + TTL
      BY <1>1, FacetsAssumption
    <2>5. \A i \in 1..3 : Seen(c.dims[i], c.began)
      BY <1>5, <2>3
    <2>6. CacheOK'
      BY <1>1, <1>5, <2>1, <2>3, <2>4, <2>5 DEF CacheOK, Seen
    <2> QED
      BY <1>1, <1>2, <1>3, <1>4, <2>6, FacetMoves
  <1> QED
    BY <1>6, <1>7 DEF SetCached

\* A write of the library comes after every aggregation that has begun.
LEMMA LibraryActionInv ==
  ASSUME FacetsInv, NEW h \in Handlers, LibraryAction(h)
  PROVE  FacetsInv'
  <1> USE DEF FacetsInv
  <1>1. /\ LibInv' /\ UNCHANGED <<now, cache>> /\ Wrote /\ now \in Nat /\ LibTypeOK
        /\ \A k \in Handlers \ {h} : req'[k] = req[k]
        /\ req'[h] = Idle \/ req'[h].op # "facets"
    BY LibraryStepInv DEF LibraryAction, LibInv, LibTypeOK
  <1>2. wrote' \in Seq(Nat) /\ \A w \in 1..Len(wrote') : wrote'[w] <= now'
    BY <1>1, WroteType
  <1>3. ASSUME NEW k \in Handlers PROVE FacetOK(k)'
    <2>1. CASE k = h
      BY <1>1, <2>1 DEF FacetOK
    <2>2. CASE k # h
      <3> SUFFICES ASSUME req[k] # Idle, req[k].op = "facets" PROVE FacetOK(k)'
        BY <1>1, <2>2 DEF FacetOK
      <3>1. PICK s \in FacetStates : s = req[k] /\ s = req'[k]
        BY <1>1, <2>2, FacetReq
      <3>2. /\ s.began <= now
            /\ s.pc \in {"get", "drop"} => s.next = 1
            /\ s.pc = "aggregate" => s.next < 4
            /\ s.pc = "set" => s.next = 4
            /\ \A i \in 1..3 : i < s.next => Seen(s.dims[i], s.began)
        BY <3>1 DEF FacetOK
      <3>3. ASSUME NEW i \in 1..3, i < s.next PROVE Seen(s.dims[i], s.began)'
        <4>1. s.dims[i] \in Nat \cup {Degraded} /\ s.began \in Nat
          BY DEF FacetStates
        <4>2. PICK value, began : value = s.dims[i] /\ began = s.began
          OBVIOUS
        <4>3. Seen(value, began)'
          BY <1>1, <3>2, <3>3, <4>1, <4>2, SeenGrows
        <4> QED
          BY <4>2, <4>3
      <3> QED
        BY <1>1, <3>1, <3>2, <3>3 DEF FacetOK
    <2> QED
      BY <2>1, <2>2
  <1>4. CacheOK'
    <2> SUFFICES ASSUME cache # NoEntry, cache.kind = "facets" PROVE CacheOK'
      BY <1>1 DEF CacheOK
    <2>1. PICK c : c = cache /\ c = cache'
      BY <1>1
    <2>2. /\ c.dims \in [1..3 -> Nat \cup {Degraded}]
          /\ c.began \in Nat /\ c.stored \in Nat /\ c.exp = c.stored + TTL
          /\ c.began <= c.stored /\ c.stored <= now /\ now < c.exp
          /\ \A i \in 1..3 : Seen(c.dims[i], c.began)
      BY <2>1 DEF CacheOK
    <2>3. ASSUME NEW i \in 1..3 PROVE Seen(c.dims[i], c.began)'
      <3>1. PICK value, began : value = c.dims[i] /\ began = c.began
        OBVIOUS
      <3>2. value \in Nat \cup {Degraded} /\ began \in Nat /\ began <= now /\ Seen(value, began)
        BY <1>1, <2>2, <3>1
      <3>3. Seen(value, began)'
        BY <1>1, <3>2, SeenGrows
      <3> QED
        BY <3>1, <3>3
    <2> QED
      BY <1>1, <2>1, <2>2, <2>3 DEF CacheOK
  <1> QED
    BY <1>1, <1>2, <1>3, <1>4

\* Another entry under the key, or the clock.
LEMMA AroundInv ==
  ASSUME FacetsInv, Corrupt \/ FacetsTick
  PROVE  FacetsInv'
  <1> USE DEF FacetsInv
  <1>1. /\ UNCHANGED <<articles, vectors, fetched, committed, drift, req, wrote>> /\ now \in Nat
        /\ now' \in Nat /\ now <= now' /\ LibTypeOK
    BY DEF Corrupt, FacetsTick, Tick, LibInv, LibTypeOK
  <1>2. LibInv'
    BY <1>1, Still
  <1>3. \A w \in 1..Len(wrote') : wrote'[w] <= now'
    BY <1>1
  <1>4. ASSUME NEW k \in Handlers PROVE FacetOK(k)'
    <2> SUFFICES ASSUME req[k] # Idle, req[k].op = "facets" PROVE FacetOK(k)'
      BY <1>1 DEF FacetOK
    <2>1. req[k].began \in Nat
      BY <1>1, FacetReq DEF FacetStates
    <2> QED
      BY <1>1, <2>1 DEF FacetOK, Seen
  <1>5. CacheOK'
    <2>1. CASE Corrupt
      <3>1. PICK kind \in {"junk", "alien"} : cache' = Entry(kind, Unread, now, now + TTL)
        BY <2>1 DEF Corrupt
      <3>2. cache'.kind # "facets"
        BY <3>1 DEF Entry
      <3> QED
        BY <3>2 DEF CacheOK
    <2>2. CASE FacetsTick
      <3>1. now' = now + 1
        BY <2>2 DEF FacetsTick, Tick
      <3>2. CASE cache' = NoEntry
        BY <3>2 DEF CacheOK
      <3>3. CASE cache' # NoEntry
        <4>1. cache' = cache /\ ~(cache.exp <= now + 1)
          BY <2>2, <3>3 DEF FacetsTick
        <4> SUFFICES ASSUME cache.kind = "facets" PROVE CacheOK'
          BY <4>1 DEF CacheOK
        <4>2. /\ cache.dims \in [1..3 -> Nat \cup {Degraded}]
              /\ cache.began \in Nat /\ cache.stored \in Nat /\ cache.exp = cache.stored + TTL
              /\ cache.began <= cache.stored /\ cache.stored <= now
              /\ \A i \in 1..3 : Seen(cache.dims[i], cache.began)
          BY <3>3, <4>1 DEF CacheOK
        <4>3. now' < cache.exp /\ cache.stored <= now'
          BY <1>1, <3>1, <4>1, <4>2, FacetsAssumption
        <4> QED
          BY <1>1, <4>1, <4>2, <4>3 DEF CacheOK, Seen
      <3> QED
        BY <3>2, <3>3
    <2> QED
      BY <2>1, <2>2
  <1> QED
    BY <1>1, <1>2, <1>3, <1>4, <1>5

\* The inductive invariant of the library and its facets.
THEOREM SpecFacetsInv == FacetsSpec => []FacetsInv
  <1>1. FacetsInit => FacetsInv
    <2> SUFFICES ASSUME FacetsInit PROVE FacetsInv
      OBVIOUS
    <2>1. LibInv
      BY LibInitInv DEF FacetsInit
    <2>2. \A h \in Handlers : FacetOK(h)
      BY DEF FacetsInit, Init, FacetOK
    <2>3. CacheOK /\ wrote \in Seq(Nat) /\ \A w \in 1..Len(wrote) : wrote[w] <= now
      BY DEF FacetsInit, CacheOK
    <2> QED
      BY <2>1, <2>2, <2>3 DEF FacetsInv
  <1>2. FacetsInv /\ [FacetsNext]_vars => FacetsInv'
    <2> SUFFICES ASSUME FacetsInv, [FacetsNext]_vars PROVE FacetsInv'
      OBVIOUS
    <2>1. CASE UNCHANGED vars
      <3>1. /\ UNCHANGED <<articles, vectors, fetched, committed, drift, req, now>> /\ now' \in Nat
            /\ UNCHANGED <<wrote, cache>>
        BY <2>1 DEF vars, libVars, FacetsInv, LibInv, LibTypeOK
      <3>2. LibInv'
        BY <3>1, Still DEF FacetsInv
      <3>3. \A h \in Handlers : FacetOK(h)'
        BY <3>1 DEF FacetsInv, FacetOK, Seen
      <3>4. CacheOK'
        BY <3>1, CacheStays DEF FacetsInv
      <3> QED
        BY <3>1, <3>2, <3>3, <3>4 DEF FacetsInv
    <2>2. ASSUME NEW h \in Handlers, LibraryAction(h) \/ FacetsStep(h) PROVE FacetsInv'
      BY <2>2, LibraryActionInv, LookUpInv, AggregateInv, SetCachedInv DEF FacetsStep
    <2> QED
      BY <2>1, <2>2, AroundInv DEF FacetsNext
  <1> QED
    BY <1>1, <1>2, PTL DEF FacetsSpec

-----------------------------------------------------------------------------
(* The properties the runs check. *)

\* A vector carries a text that was committed for its article, whatever failed
\* or overtook, for any pages, batches and requests at one time.
THEOREM SpecVectorsFollowRows == FacetsSpec => []VectorsFollowRows
  <1>1. FacetsInv => VectorsFollowRows
    BY DEF FacetsInv, LibInv
  <1> QED
    BY <1>1, SpecFacetsInv, PTL

\* An article and its vector differ only for one of the reasons in `drift` or
\* while a scrape is about to index.
THEOREM SpecDriftExplained == FacetsSpec => []DriftExplained
  <1>1. FacetsInv => DriftExplained
    BY DEF FacetsInv, LibInv
  <1> QED
    BY <1>1, SpecFacetsInv, PTL

\* Facets have every write from before their aggregation, and the cache hides
\* a write for at most TTL and the time of one aggregation, for any TTL.
THEOREM SpecFacetsFresh == FacetsSpec => []FacetsFresh
  <1>1. ASSUME FacetsInv PROVE FacetsFresh
    <2> USE <1>1 DEF FacetsInv
    <2>1. Len(Dims) = 3
      BY DEF Dims
    <2>2. now \in Nat /\ LibTypeOK
      BY DEF LibInv, LibTypeOK
    <2>3. ASSUME NEW h \in Handlers, At(h, "facets", "set"), NEW i \in 1..3,
                 NEW w \in 1..Len(wrote), wrote[w] < req[h].began
          PROVE  req[h].dims[i] = Degraded \/ w <= req[h].dims[i]
      <3>1. Seen(req[h].dims[i], req[h].began)
        BY <2>3 DEF FacetOK, At
      <3> QED
        BY <2>3, <3>1 DEF Seen
    <2>4. ASSUME cache # NoEntry, cache.kind = "facets"
          PROVE  /\ now < cache.stored + TTL
                 /\ \A i \in 1..3, w \in 1..Len(wrote) :
                      wrote[w] + TTL + (cache.stored - cache.began) <= now
                        => cache.dims[i] = Degraded \/ w <= cache.dims[i]
      <3>1. /\ cache.began \in Nat /\ cache.stored \in Nat /\ cache.exp = cache.stored + TTL
            /\ now < cache.exp /\ \A i \in 1..3 : Seen(cache.dims[i], cache.began)
        BY <2>4 DEF CacheOK
      <3>2. ASSUME NEW i \in 1..3, NEW w \in 1..Len(wrote),
                   wrote[w] + TTL + (cache.stored - cache.began) <= now
            PROVE  cache.dims[i] = Degraded \/ w <= cache.dims[i]
        <4>1. wrote[w] \in Nat
          OBVIOUS
        <4>2. wrote[w] < cache.began
          BY <2>2, <3>1, <3>2, <4>1, FacetsAssumption
        <4> QED
          BY <3>1, <4>2 DEF Seen
      <3> QED
        BY <3>1, <3>2
    <2> QED
      BY <2>1, <2>3, <2>4 DEF FacetsFresh
  <1> QED
    BY <1>1, SpecFacetsInv, PTL

-----------------------------------------------------------------------------
(* The pages of a search. *)

\* The page of a sequence that has a prefix as long as the pages up to that
\* one is the page of the prefix.
LEMMA PageOfPrefix ==
  ASSUME NEW D, NEW part \in Seq(D), NEW all \in Seq(D), NEW page \in Pages,
         page * PageSize <= Len(part), Len(part) <= Len(all),
         \A k \in 1..Len(part) : part[k] = all[k]
  PROVE  PageOf(part, page) = PageOf(all, page)
<1>1. PICK first, last \in Nat : first = (page - 1) * PageSize + 1 /\ last = page * PageSize
  BY LibraryAssumption
<1>2. PageSize \in Nat /\ page \in Nat /\ Len(part) \in Nat /\ Len(all) \in Nat
  BY LibraryAssumption
<1>3. Minimum(last, Len(part)) = last /\ Minimum(last, Len(all)) = last
  BY <1>1, <1>2 DEF Minimum
<1>4. first \in 1..(Len(part) + 1) /\ last <= Len(part)
  <2>1. PICK p, z \in Nat : p = page - 1 /\ z = PageSize
    BY <1>2, LibraryAssumption
  <2>2. last = p * z + z /\ first = p * z + 1 /\ z >= 1 /\ p * z \in Nat
    BY <2>1, <1>1, <1>2, LibraryAssumption
  <2> QED
    BY <2>1, <2>2, <1>1, <1>2
<1>5. PICK a, b : a = SubSeq(part, first, last) /\ b = SubSeq(all, first, last)
  OBVIOUS
<1>6. /\ a \in Seq(D) /\ b \in Seq(D) /\ Len(a) = Len(b)
      /\ \A i \in 1..Len(a) : a[i] = b[i]
  <2>1. /\ a \in Seq(D) /\ Len(a) = IF first <= last THEN last - first + 1 ELSE 0
        /\ \A i \in 1..(last - first + 1) : a[i] = part[first + i - 1]
    BY <1>1, <1>2, <1>4, <1>5, SubSeqProperties
  <2>2. /\ b \in Seq(D) /\ Len(b) = IF first <= last THEN last - first + 1 ELSE 0
        /\ \A i \in 1..(last - first + 1) : b[i] = all[first + i - 1]
    BY <1>1, <1>2, <1>4, <1>5, SubSeqProperties
  <2>3. ASSUME NEW i \in 1..Len(a) PROVE a[i] = b[i]
    <3>1. first <= last /\ i \in 1..(last - first + 1) /\ first + i - 1 \in 1..Len(part)
      BY <2>1, <1>1, <1>2, <1>4
    <3> QED
      BY <3>1, <2>1, <2>2
  <2> QED
    BY <2>1, <2>2, <2>3
<1>7. a = b
  BY <1>6, SeqEqual
<1> QED
  BY <1>1, <1>3, <1>5, <1>7 DEF PageOf

\* What a page shows was found, and is not longer than what was found.
LEMMA PageOfWithin ==
  ASSUME NEW D, NEW found \in Seq(D), NEW page \in Pages
  PROVE  /\ PageOf(found, page) \in Seq(D)
         /\ Len(PageOf(found, page)) <= Len(found)
         /\ \A i \in 1..Len(PageOf(found, page)) :
              \E k \in 1..Len(found) : PageOf(found, page)[i] = found[k]
<1>1. PICK first \in Nat \ {0} : first = (page - 1) * PageSize + 1
  BY LibraryAssumption
<1>2. PageSize \in Nat /\ page \in Nat /\ Len(found) \in Nat /\ page * PageSize \in Nat
  BY LibraryAssumption
<1>3. PICK last \in Nat : last = Minimum(page * PageSize, Len(found)) /\ last <= Len(found)
  BY <1>2 DEF Minimum
<1>4. PICK a : a = SubSeq(found, first, last)
  OBVIOUS
<1>5. PageOf(found, page) = a
  BY <1>1, <1>3, <1>4 DEF PageOf
<1>6. CASE first > last
  <2>1. a = <<>>
    BY <1>4, <1>6, <1>1, <1>3, SubSeqEmpty
  <2> QED
    BY <2>1, <1>5, <1>2
<1>7. CASE first <= last
  <2>1. /\ a \in Seq(D) /\ Len(a) = last - first + 1
        /\ \A i \in 1..(last - first + 1) : a[i] = found[first + i - 1]
    BY <1>1, <1>2, <1>3, <1>4, <1>7, SubSeqProperties
  <2>2. ASSUME NEW i \in 1..Len(a) PROVE \E k \in 1..Len(found) : a[i] = found[k]
    <3>1. first + i - 1 \in 1..Len(found) /\ i \in 1..(last - first + 1)
      BY <2>1, <1>1, <1>2, <1>3
    <3> QED
      BY <3>1, <2>1
  <2>3. Len(a) <= Len(found)
    BY <2>1, <1>1, <1>2, <1>3, SMTT(30)
  <2> QED
    BY <2>1, <2>2, <2>3, <1>5
<1> QED
  BY <1>1, <1>3, <1>6, <1>7

\* The first OverFetch hits leave room for the page and for what may drop out.
LEMMA OverFetchAllows ==
  ASSUME NEW page \in Pages
  PROVE  /\ OverFetch(page) \in Nat
         /\ page * PageSize <= Ceiling =>
              page * PageSize + Minimum(Floor, Ceiling - page * PageSize) <= OverFetch(page)
<1>1. PICK p \in Nat : p = page * PageSize
  BY LibraryAssumption
<1>2. Floor \in Nat /\ Ceiling \in Nat /\ page * PageSize * 2 = p * 2
  BY <1>1, LibraryAssumption
<1> QED
  BY <1>1, <1>2 DEF OverFetch, Minimum, Maximum

\* An answered page of search results is the page of the whole ranking as far
\* as the over-fetch allows, for any ranking, page, filter and table.
LEMMA SearchPageHolds ==
  ASSUME NEW D, NEW all \in Seq(D), NEW page \in Pages, NEW f
  PROVE  LET live   == Kept(all, Hydrated(f))
             slack  == Minimum(Floor, Ceiling - page * PageSize)
             answer == SearchAnswer(all, page, f)
         IN /\ Len(all) - Len(live) <= slack => answer.results = PageOf(live, page)
            /\ ToSet(answer.results) \subseteq Hydrated(f)
            /\ Len(answer.results) <= answer.total
<1>1. PICK H : H = Hydrated(f)
  OBVIOUS
<1>2. PICK n \in 0..Len(all) :
        n = Minimum(OverFetch(page), Len(all)) /\ (n = Len(all) \/ n = OverFetch(page))
  BY OverFetchAllows DEF Minimum
<1>3. PICK live : live = Kept(all, H)
  OBVIOUS
<1>4. PICK found : found = Kept(SubSeq(all, 1, n), H)
  OBVIOUS
<1>5. /\ live \in Seq(D) /\ found \in Seq(D)
      /\ Len(found) <= Len(live)
      /\ \A k \in 1..Len(found) : found[k] = live[k]
      /\ n - Len(found) <= Len(all) - Len(live)
  BY <1>3, <1>4, KeptPrefix
<1>6. PICK answer : answer = SearchAnswer(all, page, f)
  OBVIOUS
<1>7. answer.results = PageOf(found, page) /\ answer.total = Len(found)
  BY <1>1, <1>2, <1>4, <1>6 DEF SearchAnswer, Found
<1>8. \A k \in 1..Len(found) : found[k] \in H
  <2>1. PICK t : t = SubSeq(all, 1, n)
    OBVIOUS
  <2>2. t \in Seq(D)
    BY <2>1, SubSeqProperties
  <2>3. PICK at : Picks(t, H, Len(t), Kept(t, H), at)
    BY <2>2, KeptPositions
  <2> QED
    BY <2>1, <2>3, <1>4 DEF Picks
<1>9. /\ answer.results \in Seq(D)
      /\ Len(answer.results) <= answer.total
      /\ \A i \in 1..Len(answer.results) : answer.results[i] \in H
  <2>1. PICK a : a = answer.results /\ a = PageOf(found, page)
    BY <1>7
  <2>2. /\ a \in Seq(D) /\ Len(a) <= Len(found)
        /\ \A i \in 1..Len(a) : \E k \in 1..Len(found) : a[i] = found[k]
    <3>1. found \in Seq(D) /\ page \in Pages
      BY <1>5
    <3>2. /\ PageOf(found, page) \in Seq(D)
          /\ Len(PageOf(found, page)) <= Len(found)
          /\ \A i \in 1..Len(PageOf(found, page)) :
               \E k \in 1..Len(found) : PageOf(found, page)[i] = found[k]
      BY ONLY <3>1, PageOfWithin
    <3> QED
      BY <2>1, <3>2
  <2> QED
    BY <2>1, <2>2, <1>7, <1>8
<1>10. ToSet(answer.results) \subseteq H
  BY <1>9 DEF ToSet
<1>11. ASSUME Len(all) - Len(live) <= Minimum(Floor, Ceiling - page * PageSize)
       PROVE  answer.results = PageOf(live, page)
  <2>1. PICK p \in Nat : p = page * PageSize
    BY LibraryAssumption
  <2>2. Floor \in Nat /\ Ceiling \in Nat /\ Len(all) \in Nat /\ Len(live) \in Nat /\ Len(found) \in Nat
    BY <1>5, LibraryAssumption
  <2>3. CASE n = Len(all)
    <3>1. Len(found) = Len(live)
      BY <2>2, <2>3, <1>5
    <3>2. found = live
      BY <3>1, <1>5, SeqEqual
    <3> QED
      BY <3>2, <1>7
  <2>4. CASE n = OverFetch(page)
    <3>1. Len(live) <= Len(all)
      <4>1. PICK at \in [1..Len(live) -> 1..Len(all)] : Picks(all, H, Len(all), live, at)
        BY <1>3, KeptPositions
      <4>2. \A j, k \in 1..Len(live) : at[j] = at[k] => j = k
        BY <4>1, <2>2 DEF Picks
      <4>3. \A k \in Nat : IsFiniteSet(1..k) /\ Cardinality(1..k) = k
        <5> TAKE k \in Nat
        <5>1. 1 \in Int /\ k \in Int
          OBVIOUS
        <5>2. IsFiniteSet(1..k) /\ Cardinality(1..k) = IF 1 > k THEN 0 ELSE k - 1 + 1
          BY ONLY <5>1, FS_Interval
        <5> QED
          BY <5>2
      <4>4. at \in Injection(1..Len(live), 1..Len(all))
        BY <4>1, <4>2 DEF Injection, IsInjective
      <4> QED
        BY <2>2, <4>3, <4>4, FS_Injection
    <3>2. p <= Ceiling /\ Len(all) - Len(live) <= Minimum(Floor, Ceiling - p)
      BY <3>1, <2>1, <2>2, <1>11 DEF Minimum
    <3>3. p + Minimum(Floor, Ceiling - p) <= n
      BY <3>2, <2>1, <2>4, OverFetchAllows
    <3>4. Minimum(Floor, Ceiling - p) \in Int
      BY <2>1, <2>2 DEF Minimum
    <3>5. p <= Len(found)
      BY <3>2, <3>3, <3>4, <1>5, <2>2
    <3> QED
      BY <3>5, <2>1, <1>5, <1>7, PageOfPrefix
  <2> QED
    BY <2>3, <2>4, <1>2
<1> QED
  BY <1>1, <1>3, <1>6, <1>9, <1>10, <1>11

\* A search shows the page of the whole ranking restricted to what exists and
\* matches as long as the over-fetch allows for what drops out, never anything
\* else, and its total counts no less than it shows, whatever the page size,
\* the floor and the ceiling are and whichever writes overtake the ranking.
THEOREM SpecSearchPage == FacetsSpec => []SearchPage
<1>1. ASSUME FacetsInv PROVE SearchPage
  <2>1. SUFFICES ASSUME NEW h \in Handlers, NEW page \in Pages, NEW f \in Filters,
                        At(h, "search", "hydrate")
                 PROVE  LET all    == req[h].ranked
                            live   == Kept(all, Hydrated(f))
                            slack  == Minimum(Floor, Ceiling - page * PageSize)
                            answer == SearchAnswer(all, page, f)
                        IN /\ Len(all) - Len(live) <= slack => answer.results = PageOf(live, page)
                           /\ ToSet(answer.results) \subseteq Hydrated(f)
                           /\ Len(answer.results) <= answer.total
    BY DEF SearchPage
  <2>2. req[h] \in ReqStates
    BY <1>1 DEF FacetsInv, LibInv, LibTypeOK
  <2>3. req[h].ranked \in Seq(Ids)
    BY <2>1, <2>2 DEF At, ReqStates, ScrapeStates, DeleteStates, SearchStates, FacetStates
  <2> QED
    BY <2>3, SearchPageHolds
<1> QED
  BY <1>1, SpecFacetsInv, PTL

=============================================================================
