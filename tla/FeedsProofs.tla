----------------------------- MODULE FeedsProofs -----------------------------
(***************************************************************************)
(* Proofs about Feeds and Outbound: adds, imports, polls and deletions     *)
(* keep the tables consistent and their answers true, for any number of    *)
(* handlers, URLs and feeds; verdicts about hosts expire, for any number   *)
(* of fetches, hosts and threads.                                          *)
(***************************************************************************)
EXTENDS Feeds, Outbound, FiniteSetTheorems, SequenceTheorems, TLAPS

-----------------------------------------------------------------------------
(* The inductive invariant of Feeds *)

Calls ==
  [op: {"none", "add", "bulk", "delete", "poll"},
   pc: {"idle", "select", "insert", "find", "remove", "commit", "seek", "item", "update"},
   no: Nat, feed: Nat \cup {Null}, todo: Seq(Urls) \cup Seq(Guids), size: Nat,
   wrote: (SUBSET FeedRow) \cup (SUBSET ItemRow), created: Nat, skipped: Nat, failed: Nat]

Hows == {"ok", "unparsed", "conflict", "deadlock", "not_found", "fault"}

TablesTypeOK ==
  /\ feeds \subseteq FeedRow /\ items \subseteq ItemRow
  /\ requests \in Nat /\ nextId \in Nat
  /\ outcomes \subseteq [op: {"none", "add", "bulk", "delete", "poll"}, no: Nat, how: Hows]
  /\ reported \subseteq ItemRow \X Nat
  /\ call \in [Handlers -> Calls]

\* The call as TypeOK has it, and what only one step of its operation can leave.
CallTypeOK(h) ==
  LET c == call[h] IN
  /\ c.pc \in Steps[c.op]
  /\ c.op \in {"delete", "poll"} =>
       c.feed \in Nat /\ c.feed < nextId /\ c.todo \in Seq(Guids) /\ c.wrote \subseteq ItemRow
  /\ c.op \notin {"delete", "poll"} =>
       c.feed = Null /\ c.todo \in Seq(Urls) /\ c.wrote \subseteq FeedRow
  /\ c.pc # "idle" => c.no < requests
  /\ c.pc \in {"idle", "select", "find", "remove", "commit"} => c.wrote = {}
  /\ c.pc = "item" => c.todo # <<>>
  /\ c.op = "poll" => \A i \in c.wrote : i.feed = c.feed

\* The URLs still to create are distinct and different from the created ones;
\* the counters and what is left to do make up the body.
ImportOK(h) ==
  LET c == call[h] IN
  /\ c.pc = "insert" =>
       /\ \A j, k \in DOMAIN c.todo : c.todo[j] = c.todo[k] => j = k
       /\ \A f \in c.wrote, k \in DOMAIN c.todo : f.url # c.todo[k]
       /\ IsFiniteSet(c.wrote) /\ c.created = Cardinality(c.wrote)
       /\ c.created + c.skipped + c.failed + Len(c.todo) = c.size
  /\ c.pc = "select" => c.created = 0 /\ Len(c.todo) = c.size

\* Requests under way have numbers of their own.
NumbersOK == \A h, o \in Handlers : call[h].pc # "idle" /\ call[h].no = call[o].no /\ call[o].pc # "idle" => h = o

\* Committed rows are as the unique indexes have them.
FeedsOK ==
  /\ \A f \in feeds : f.id < nextId
  /\ \A f, g \in feeds : f.id = g.id \/ f.url = g.url => f = g
  /\ \A i \in items : i.feed \in FeedIds

\* Handlers that create feeds, and those that insert items.
Creates(h) == call[h].pc = "insert"
Polls(h) == call[h].pc \in {"seek", "item", "update"}

\* A feed that is not committed is unlike every committed one, unlike every
\* other, and nobody has polled it.
PendingOK ==
  \A h \in Handlers : Creates(h) => \A f \in call[h].wrote :
    /\ f.id < nextId
    /\ \A g \in feeds : g.id # f.id /\ g.url # f.url
    /\ \A o \in Handlers : Creates(o) => \A g \in call[o].wrote :
         g.id = f.id \/ g.url = f.url => g = f /\ o = h
    /\ \A o \in Handlers : Polls(o) => call[o].feed # f.id
    /\ \A p \in reported : p[1].feed # f.id

\* An item that is not committed is in no table and in no other transaction.
PollsOK ==
  \A h \in Handlers : Polls(h) => \A i \in call[h].wrote :
    /\ i \notin items
    /\ \A o \in Handlers : Polls(o) /\ i \in call[o].wrote => o = h

\* A reported item is in the table until its feed goes, for good.
ReportedOK ==
  \A p \in reported : p[1].feed < nextId /\ (p[1].feed \in FeedIds => p[1] \in items)

FeedsInv ==
  /\ TablesTypeOK
  /\ \A h \in Handlers : CallTypeOK(h)
  /\ \A h \in Handlers : ImportOK(h)
  /\ NumbersOK /\ FeedsOK /\ PendingOK /\ PollsOK /\ ReportedOK /\ ReportedOnce

-----------------------------------------------------------------------------
(* The inductive invariant of Outbound *)

\* A waiting fetch has age and time that add up to the timeout at most; a cache
\* entry comes from such a fetch.
Entry == [host: Hosts, verdict: Verdicts, age: Nat, left: Nat]

LookupsOK ==
  \A f \in Scrapes : scrape[f] # NoScrape /\ scrape[f].pc \in {"lookup", "resolved"} =>
    scrape[f].age + scrape[f].left <= DnsTimeout

\* A job that somebody waits for is the only one of its fetch.
JobsOK ==
  /\ \A i \in DOMAIN jobs : jobs[i].for # Nobody => At(jobs[i].for, "lookup")
  /\ \A i, j \in DOMAIN jobs : jobs[i].for = jobs[j].for => jobs[i].for = Nobody \/ i = j

OutboundInv ==
  /\ cache \in Seq(Entry)
  /\ jobs \in Seq([host: Hosts, for: Scrapes \cup {Nobody}])
  /\ scrape \in [Scrapes -> Fetches \cup {NoScrape}]
  /\ redirects \in Nat
  /\ LookupsOK /\ JobsOK /\ VerdictsExpire

Job == [host: Hosts, for: Scrapes \cup {Nobody}]

\* The parts of the invariant that a step of a fetch may disturb.
Lookups ==
  /\ jobs \in Seq(Job)
  /\ scrape \in [Scrapes -> Fetches \cup {NoScrape}]
  /\ LookupsOK /\ JobsOK

CacheOK == cache \in Seq(Entry) /\ VerdictsExpire

LEMMA RemovesOne ==
  ASSUME NEW S, NEW s \in Seq(S), NEW i \in 1..Len(s)
  PROVE  /\ RemoveAt(s, i) \in Seq(S)
         /\ \A k \in DOMAIN RemoveAt(s, i) : \E m \in DOMAIN s : m # i /\ RemoveAt(s, i)[k] = s[m]
         /\ \A k, l \in DOMAIN RemoveAt(s, i) : k # l =>
              \E m, n \in DOMAIN s : /\ m # i /\ n # i /\ m # n
                                     /\ RemoveAt(s, i)[k] = s[m] /\ RemoveAt(s, i)[l] = s[n]
<1> DEFINE a == SubSeq(s, 1, i - 1)
           b == SubSeq(s, i + 1, Len(s))
<1> HIDE DEF a, b
<1>1. Len(s) \in Nat /\ i \in Nat /\ i - 1 \in Int /\ i + 1 \in Int /\ DOMAIN s = 1..Len(s)
      /\ \A k \in 1..Len(s) : s[k] \in S
  BY LenProperties, ElementOfSeq
<1>2. /\ a \in Seq(S) /\ Len(a) = i - 1
      /\ \A k \in 1..(i - 1) : a[k] = s[k]
  <2>1. \A k \in 1..(i - 1) : s[k] \in S
    BY <1>1
  <2>2. /\ a \in Seq(S) /\ Len(a) = IF 1 <= i - 1 THEN (i - 1) - 1 + 1 ELSE 0
        /\ \A k \in 1..((i - 1) - 1 + 1) : a[k] = s[1 + k - 1]
    BY <1>1, <2>1, SubSeqProperties DEF a
  <2>3. Len(a) = i - 1
    BY <2>2
  <2>4. ASSUME NEW k \in 1..(i - 1) PROVE a[k] = s[k]
    <3>1. k \in 1..((i - 1) - 1 + 1) /\ 1 + k - 1 = k
      BY <1>1
    <3> QED BY <2>2, <3>1
  <2> QED BY <2>2, <2>3, <2>4
<1>3. /\ b \in Seq(S) /\ Len(b) = Len(s) - i
      /\ \A k \in 1..(Len(s) - i) : b[k] = s[i + k]
  <2>1. \A k \in (i + 1)..Len(s) : s[k] \in S
    BY <1>1
  <2>2. /\ b \in Seq(S) /\ Len(b) = IF i + 1 <= Len(s) THEN Len(s) - (i + 1) + 1 ELSE 0
        /\ \A k \in 1..(Len(s) - (i + 1) + 1) : b[k] = s[i + 1 + k - 1]
    BY <1>1, <2>1, SubSeqProperties DEF b
  <2>3. Len(b) = Len(s) - i
    <3>1. Len(s) \in Nat /\ i \in Nat /\ i <= Len(s)
      BY <1>1
    <3>2. Len(b) = IF i + 1 <= Len(s) THEN Len(s) - (i + 1) + 1 ELSE 0
      BY <2>2
    <3>3. PICK n : n = Len(s)
      OBVIOUS
    <3> QED BY <3>1, <3>2, <3>3
  <2>4. ASSUME NEW k \in 1..(Len(s) - i) PROVE b[k] = s[i + k]
    <3>1. k \in 1..(Len(s) - (i + 1) + 1) /\ i + 1 + k - 1 = i + k
      BY <1>1
    <3> QED BY <2>2, <3>1
  <2> QED BY <2>2, <2>3, <2>4
<1>4. RemoveAt(s, i) = a \o b
  BY DEF RemoveAt, a, b
<1>5. /\ a \o b \in Seq(S) /\ Len(a \o b) = Len(a) + Len(b)
      /\ \A k \in 1..(Len(a) + Len(b)) : (a \o b)[k] = IF k <= Len(a) THEN a[k] ELSE b[k - Len(a)]
  BY <1>2, <1>3, ConcatProperties
<1>6. PICK t : t = a \o b
  OBVIOUS
<1>7. /\ t \in Seq(S) /\ DOMAIN t = 1..(Len(s) - 1)
      /\ \A k \in 1..(Len(s) - 1) : t[k] = IF k < i THEN s[k] ELSE s[k + 1]
  <2>1. t \in Seq(S) /\ Len(t) = Len(s) - 1
    <3>1. t \in Seq(S) /\ Len(t) = Len(a) + Len(b)
      BY <1>5, <1>6
    <3>2. Len(a) = i - 1 /\ Len(b) = Len(s) - i
      BY <1>2, <1>3
    <3> QED BY <1>1, <3>1, <3>2
  <2>2. DOMAIN t = 1..(Len(s) - 1)
    BY <2>1, LenProperties
  <2>3. ASSUME NEW k \in 1..(Len(s) - 1) PROVE t[k] = IF k < i THEN s[k] ELSE s[k + 1]
    <3>1. t[k] = IF k <= i - 1 THEN a[k] ELSE b[k - (i - 1)]
      BY <1>1, <1>2, <1>3, <1>5, <1>6
    <3>2. CASE k < i
      BY <1>1, <1>2, <3>1, <3>2
    <3>3. CASE ~(k < i)
      <4>1. k - (i - 1) \in 1..(Len(s) - i) /\ i + (k - (i - 1)) = k + 1
        BY <1>1, <3>3
      <4>2. b[k - (i - 1)] = s[i + (k - (i - 1))]
        BY <1>3, <4>1
      <4> QED BY <1>1, <3>1, <3>3, <4>1, <4>2
    <3> QED BY <3>2, <3>3
  <2> QED BY <2>1, <2>2, <2>3
<1>8. ASSUME NEW k \in 1..(Len(s) - 1)
      PROVE  \E m \in DOMAIN s : m # i /\ t[k] = s[m]
  <2>1. CASE k < i
    BY <1>1, <1>7, <2>1, SMTT(30)
  <2>2. CASE ~(k < i)
    BY <1>1, <1>7, <2>2
  <2> QED BY <2>1, <2>2
<1>9. ASSUME NEW k \in 1..(Len(s) - 1), NEW l \in 1..(Len(s) - 1), k # l
      PROVE  \E m, n \in DOMAIN s : m # i /\ n # i /\ m # n /\ t[k] = s[m] /\ t[l] = s[n]
  <2>1. PICK m : m = IF k < i THEN k ELSE k + 1
    OBVIOUS
  <2>2. PICK n : n = IF l < i THEN l ELSE l + 1
    OBVIOUS
  <2>3. m \in DOMAIN s /\ n \in DOMAIN s /\ m # i /\ n # i /\ m # n
    BY <1>1, <1>9, <2>1, <2>2
  <2>4. t[k] = s[m] /\ t[l] = s[n]
    BY <1>7, <2>1, <2>2
  <2> QED BY <2>3, <2>4
<1>10. t = RemoveAt(s, i)
  BY <1>4, <1>6
<1>11. /\ t \in Seq(S)
       /\ \A k \in DOMAIN t : \E m \in DOMAIN s : m # i /\ t[k] = s[m]
       /\ \A k, l \in DOMAIN t : k # l =>
            \E m, n \in DOMAIN s : m # i /\ n # i /\ m # n /\ t[k] = s[m] /\ t[l] = s[n]
  <2>1. t \in Seq(S) /\ DOMAIN t = 1..(Len(s) - 1)
    BY <1>7
  <2>2. \A k \in DOMAIN t : \E m \in DOMAIN s : m # i /\ t[k] = s[m]
    BY <2>1, <1>8
  <2>3. ASSUME NEW k \in DOMAIN t, NEW l \in DOMAIN t, k # l
        PROVE  \E m, n \in DOMAIN s : m # i /\ n # i /\ m # n /\ t[k] = s[m] /\ t[l] = s[n]
    <3>1. k \in 1..(Len(s) - 1) /\ l \in 1..(Len(s) - 1)
      BY <2>1, <2>3
    <3> QED BY <1>9, <2>3, <3>1
  <2> QED BY <2>1, <2>2, <2>3
<1> QED BY <1>10, <1>11

LEMMA OutboundInitInv == OutboundInit => OutboundInv
BY OutboundAssumption DEF OutboundInit, OutboundInv, LookupsOK, JobsOK, VerdictsExpire

\* One fetch moves on, and no job is for it.
LEMMA FetchMoves ==
  ASSUME Lookups, NEW f \in Scrapes, NEW next \in Fetches \cup {NoScrape},
         \A i \in DOMAIN jobs : jobs[i].for # f,
         next # NoScrape => next.pc \in {"check", "sent"},
         scrape' = [scrape EXCEPT ![f] = next], UNCHANGED jobs
  PROVE  Lookups'
<1>1. /\ scrape' \in [Scrapes -> Fetches \cup {NoScrape}]
      /\ scrape'[f] = next /\ \A g \in Scrapes \ {f} : scrape'[g] = scrape[g]
  BY DEF Lookups
<1>2. LookupsOK'
  BY <1>1 DEF Lookups, LookupsOK
<1>3. JobsOK'
  <2>1. ASSUME NEW i \in DOMAIN jobs, jobs[i].for # Nobody
        PROVE  At(jobs[i].for, "lookup")'
    <3>1. jobs[i].for \in Scrapes \ {f}
      <4>1. jobs[i] \in Job
        BY LenProperties, ElementOfSeq DEF Lookups
      <4> QED BY <2>1, <4>1 DEF Job
    <3>2. At(jobs[i].for, "lookup")
      BY <2>1 DEF Lookups, JobsOK
    <3> QED BY <1>1, <3>1, <3>2 DEF At
  <2> QED BY <2>1 DEF Lookups, JobsOK
<1> QED BY <1>1, <1>2, <1>3 DEF Lookups

\* An answer that is young enough keeps the cache.
LEMMA LearnedKeeps ==
  ASSUME CacheOK, NEW h \in Hosts, NEW verdict \in Verdicts, NEW age \in Nat, age <= DnsTimeout,
         cache' = Learned(h, verdict, age)
  PROVE  CacheOK'
<1>1. CASE verdict = "unknown"
  BY <1>1 DEF Learned, CacheOK, VerdictsExpire
<1>2. CASE verdict # "unknown"
  <2>1. PICK new : new = [host |-> h, verdict |-> verdict, age |-> age, left |-> CacheTtl]
    OBVIOUS
  <2>2. /\ new \in Entry /\ new.left > 0 /\ new.age + new.left <= CacheTtl + DnsTimeout
    BY <2>1, OutboundAssumption DEF Entry
  <2>3. cache' = IF Entries(h) # {}
                   THEN [i \in DOMAIN cache |-> IF i \in Entries(h) THEN new ELSE cache[i]]
                   ELSE Append(IF Len(cache) >= CacheSize THEN Tail(cache) ELSE cache, new)
    BY <1>2, <2>1 DEF Learned, Put
  <2>4. /\ cache \in Seq(Entry) /\ Len(cache) \in Nat /\ DOMAIN cache = 1..Len(cache)
        /\ \A i \in DOMAIN cache : cache[i] \in Entry
        /\ \A i \in DOMAIN cache : cache[i].left > 0 => cache[i].age + cache[i].left <= CacheTtl + DnsTimeout
    BY LenProperties, ElementOfSeq DEF CacheOK, VerdictsExpire
  <2>5. CASE Entries(h) # {}
    <3>1. /\ cache' = [i \in 1..Len(cache) |-> IF i \in Entries(h) THEN new ELSE cache[i]]
      BY <2>3, <2>4, <2>5
    <3>2. cache' \in Seq(Entry)
      BY <2>2, <2>4, <3>1
    <3>3. VerdictsExpire'
      BY <2>2, <2>4, <3>1 DEF VerdictsExpire
    <3> QED BY <3>2, <3>3 DEF CacheOK
  <2>6. CASE Entries(h) = {}
    <3>1. PICK room : room = IF Len(cache) >= CacheSize THEN Tail(cache) ELSE cache
      OBVIOUS
    <3>2. /\ room \in Seq(Entry) /\ Len(room) \in Nat /\ DOMAIN room = 1..Len(room)
          /\ \A i \in DOMAIN room : room[i].left > 0 => room[i].age + room[i].left <= CacheTtl + DnsTimeout
      <4>1. CASE Len(cache) >= CacheSize
        <5>1. cache # <<>>
          BY <2>4, <4>1, OutboundAssumption
        <5>2. /\ Tail(cache) \in Seq(Entry) /\ Len(Tail(cache)) = Len(cache) - 1
              /\ \A i \in 1..Len(Tail(cache)) : Tail(cache)[i] = cache[i + 1]
          BY <2>4, <5>1, HeadTailProperties
        <5>3. room = Tail(cache)
          BY <3>1, <4>1
        <5>4. room \in Seq(Entry) /\ Len(room) \in Nat /\ DOMAIN room = 1..Len(room)
          BY <5>2, <5>3, LenProperties
        <5>5. \A i \in DOMAIN room : i + 1 \in DOMAIN cache /\ room[i] = cache[i + 1]
          BY <2>4, <5>2, <5>3, <5>4
        <5> QED BY <2>4, <5>4, <5>5
      <4>2. CASE ~(Len(cache) >= CacheSize)
        BY <2>4, <3>1, <4>2
      <4> QED BY <4>1, <4>2
    <3>3. cache' = Append(room, new)
      BY <2>3, <2>6, <3>1
    <3>4. /\ cache' \in Seq(Entry) /\ DOMAIN cache' = 1..(Len(room) + 1)
          /\ \A i \in 1..(Len(room) + 1) : cache'[i] = IF i = Len(room) + 1 THEN new ELSE room[i]
      BY <2>2, <3>2, <3>3
    <3>5. VerdictsExpire'
      BY <2>2, <3>2, <3>4 DEF VerdictsExpire
    <3> QED BY <3>4, <3>5 DEF CacheOK
  <2> QED BY <2>5, <2>6
<1> QED BY <1>1, <1>2
\* The next states of a fetch are states of a fetch, and it waits no more.
LEMMA DecidedStates ==
  ASSUME NEW f \in Scrapes, scrape[f] \in Fetches, NEW verdict \in Verdicts,
         NEW next \in Decided(f, verdict)
  PROVE  /\ next \in Fetches \cup {NoScrape}
         /\ next # NoScrape => next.pc \in {"check", "sent"}
<1>1. ASSUME NEW pc \in {"check", "sent"}, NEW check \in {"url", "request", "location"},
             NEW r, r = AtRest(f, pc, check)
      PROVE  r \in Fetches /\ r.pc = pc
  BY <1>1 DEF AtRest, Fetches, Verdicts
<1>2. \/ next = NoScrape
      \/ next = AtRest(f, "check", "request")
      \/ next = AtRest(f, "sent", "request")
  <2>1. scrape[f].check \in {"url", "request", "location"}
    BY DEF Fetches
  <2>2. CASE verdict # "allowed" \/ scrape[f].check = "location"
    BY <2>2 DEF Decided
  <2>3. CASE verdict = "allowed" /\ scrape[f].check = "url"
    BY <2>3 DEF Decided
  <2>4. CASE verdict = "allowed" /\ scrape[f].check = "request"
    BY <2>4 DEF Decided
  <2> QED BY <2>1, <2>2, <2>3, <2>4
<1> QED BY <1>1, <1>2

LEMMA TickKeeps == OutboundInv /\ OutboundTick => OutboundInv'
<1> SUFFICES ASSUME OutboundInv, OutboundTick PROVE OutboundInv'
  OBVIOUS
<1>1. /\ cache \in Seq(Entry) /\ Len(cache) \in Nat /\ DOMAIN cache = 1..Len(cache)
      /\ \A i \in DOMAIN cache : cache[i] \in Entry
      /\ \A i \in DOMAIN cache : cache[i].left > 0 => cache[i].age + cache[i].left <= CacheTtl + DnsTimeout
  BY LenProperties, ElementOfSeq DEF OutboundInv, VerdictsExpire
<1>2. ASSUME NEW i \in DOMAIN cache, NEW e, e = Kept(cache[i])
      PROVE  e \in Entry /\ (e.left > 0 => e.age + e.left <= CacheTtl + DnsTimeout)
  <2>1. cache[i] \in Entry
    BY <1>1
  <2>2. CASE cache[i].left > 1
    <3>1. e = [cache[i] EXCEPT !.left = @ - 1, !.age = @ + 1]
      BY <1>2, <2>2 DEF Kept, Passes
    <3>2. /\ e \in Entry /\ e.left = cache[i].left - 1 /\ e.age = cache[i].age + 1
      <4>1. PICK s \in Entry : s = cache[i]
        BY <2>1
      <4>2. ASSUME NEW m \in Nat, NEW n \in Nat, e = [s EXCEPT !.left = m, !.age = n]
            PROVE  e \in Entry /\ e.left = m /\ e.age = n
        BY <4>2 DEF Entry
      <4>3. s.left - 1 \in Nat /\ s.age + 1 \in Nat
        BY <2>2, <4>1 DEF Entry
      <4>4. e = [s EXCEPT !.left = s.left - 1, !.age = s.age + 1]
        BY <3>1, <4>1
      <4> QED BY <4>1, <4>2, <4>3, <4>4
    <3>3. cache[i].age + cache[i].left <= CacheTtl + DnsTimeout
      BY <1>1, <2>1, <2>2 DEF Entry
    <3>4. cache[i].age \in Nat /\ cache[i].left \in Nat
      BY <2>1 DEF Entry
    <3> QED BY <3>2, <3>3, <3>4
  <2>3. CASE ~(cache[i].left > 1)
    <3>1. e = [cache[i] EXCEPT !.left = 0, !.age = 0, !.verdict = "unknown"]
      BY <1>2, <2>3 DEF Kept
    <3>2. e \in Entry /\ e.left = 0
      BY <2>1, <3>1 DEF Entry, Verdicts
    <3> QED BY <3>2
  <2> QED BY <2>2, <2>3
<1>3. cache' = [i \in 1..Len(cache) |-> Kept(cache[i])]
  BY <1>1 DEF OutboundTick
<1>4. cache' \in Seq(Entry) /\ DOMAIN cache' = DOMAIN cache
  <2>1. \A i \in 1..Len(cache) : Kept(cache[i]) \in Entry
    BY <1>1, <1>2
  <2>2. cache' \in [1..Len(cache) -> Entry]
    BY <1>3, <2>1
  <2> QED BY <1>1, <2>2
<1>5. VerdictsExpire'
  BY <1>2, <1>3, <1>4, <1>1 DEF VerdictsExpire
<1>6. ASSUME NEW f \in Scrapes
      PROVE  /\ scrape'[f] \in Fetches \cup {NoScrape}
             /\ scrape[f] = NoScrape <=> scrape'[f] = NoScrape
             /\ scrape[f] # NoScrape => scrape'[f].pc = scrape[f].pc
             /\ scrape[f] # NoScrape /\ scrape[f].pc \in {"lookup", "resolved"} =>
                  scrape'[f].age + scrape'[f].left <= DnsTimeout
  <2>1. scrape[f] \in Fetches \cup {NoScrape}
    BY DEF OutboundInv
  <2>2. CASE Awaiting(f) /\ scrape[f].left > 0
    <3>1. scrape[f] \in Fetches /\ scrape[f] # NoScrape /\ scrape[f].pc \in {"lookup", "resolved"}
      BY <2>1, <2>2 DEF Awaiting, At
    <3>2. scrape'[f] = [scrape[f] EXCEPT !.left = @ - 1, !.age = @ + 1]
      BY <2>2 DEF OutboundTick, Passes
    <3>3. PICK s : s = scrape[f]
      OBVIOUS
    <3>4. PICK r : r = [s EXCEPT !.left = @ - 1, !.age = @ + 1]
      OBVIOUS
    <3>5. r \in Fetches /\ r.pc = s.pc /\ r.age = s.age + 1 /\ r.left = s.left - 1
      <4>1. s \in Fetches /\ s.left - 1 \in Nat /\ s.age + 1 \in Nat
        BY <2>2, <3>1, <3>3 DEF Fetches
      <4>2. ASSUME NEW m \in Nat, NEW n \in Nat, r = [s EXCEPT !.left = m, !.age = n]
            PROVE  r \in Fetches /\ r.pc = s.pc /\ r.left = m /\ r.age = n
        BY <4>1, <4>2 DEF Fetches
      <4>3. r = [s EXCEPT !.left = s.left - 1, !.age = s.age + 1]
        BY <3>4
      <4> QED BY <4>1, <4>2, <4>3
    <3>6. s.age + s.left <= DnsTimeout /\ s.age \in Nat /\ s.left \in Nat
      BY <3>1, <3>3 DEF OutboundInv, LookupsOK, Fetches
    <3>7. scrape'[f] = r
      BY <3>2, <3>3, <3>4
    <3>8. NoScrape \notin Fetches
      BY OutboundAssumption
    <3> QED BY <3>1, <3>3, <3>5, <3>6, <3>7, <3>8, OutboundAssumption
  <2>3. CASE ~(Awaiting(f) /\ scrape[f].left > 0)
    <3>1. scrape'[f] = scrape[f]
      BY <2>3 DEF OutboundTick
    <3> QED BY <2>1, <3>1 DEF OutboundInv, LookupsOK
  <2> QED BY <2>2, <2>3
<1>7. scrape' \in [Scrapes -> Fetches \cup {NoScrape}]
  <2>1. scrape' \in [Scrapes -> {scrape'[f] : f \in Scrapes}]
    BY DEF OutboundTick
  <2> QED BY <1>6, <2>1
<1>8. LookupsOK'
  BY <1>6 DEF LookupsOK
<1>9. jobs' = jobs /\ redirects' = redirects
  BY DEF OutboundTick
<1>10. JobsOK'
  <2>1. ASSUME NEW i \in DOMAIN jobs, jobs[i].for # Nobody
        PROVE  At(jobs[i].for, "lookup")'
    <3>1. jobs[i].for \in Scrapes
      <4>1. jobs[i] \in Job
        BY LenProperties, ElementOfSeq DEF OutboundInv, Job
      <4> QED BY <2>1, <4>1 DEF Job
    <3>2. At(jobs[i].for, "lookup")
      BY <2>1 DEF OutboundInv, JobsOK
    <3>3. PICK f \in Scrapes : f = jobs[i].for
      BY <3>1
    <3>4. At(f, "lookup")'
      BY <1>6, <3>2, <3>3 DEF At
    <3> QED BY <1>9, <3>3, <3>4
  <2> QED BY <1>9, <2>1 DEF OutboundInv, JobsOK
<1> QED BY <1>4, <1>5, <1>7, <1>8, <1>9, <1>10 DEF OutboundInv

LEMMA PartsOfInv == OutboundInv <=> Lookups /\ CacheOK /\ redirects \in Nat
BY DEF OutboundInv, Lookups, CacheOK, Job

LEMMA PartsOfNext == Lookups' /\ CacheOK' /\ redirects' \in Nat => OutboundInv'
BY DEF OutboundInv, Lookups, CacheOK, Job

LEMMA CacheStays == OutboundInv /\ cache' = cache => CacheOK'
BY DEF OutboundInv, CacheOK, VerdictsExpire

\* A fetch for which no job runs, as every fetch that is not in "lookup".
LEMMA NoJob ==
  ASSUME Lookups, NEW f \in Scrapes, ~At(f, "lookup")
  PROVE  \A i \in DOMAIN jobs : jobs[i].for # f
BY OutboundAssumption DEF Lookups, JobsOK

LEMMA BeginKeeps ==
  ASSUME OutboundInv, NEW f \in Scrapes, BeginScrape(f)
  PROVE  OutboundInv'
<1>1. PICK h \in Hosts : scrape' = [scrape EXCEPT ![f] =
        [pc |-> "check", check |-> "url", host |-> h, left |-> 0, age |-> 0, verdict |-> "unknown"]]
  BY DEF BeginScrape
<1>2. PICK r : r = [pc |-> "check", check |-> "url", host |-> h, left |-> 0, age |-> 0, verdict |-> "unknown"]
  OBVIOUS
<1>3. r \in Fetches /\ r.pc = "check"
  BY <1>2 DEF Fetches, Verdicts
<1>4. Lookups /\ \A i \in DOMAIN jobs : jobs[i].for # f
  BY NoJob, PartsOfInv DEF BeginScrape, At
<1>5. Lookups'
  BY <1>1, <1>2, <1>3, <1>4, FetchMoves DEF BeginScrape
<1> QED BY <1>5, PartsOfInv, PartsOfNext, CacheStays DEF BeginScrape

LEMMA CheckKeeps ==
  ASSUME OutboundInv, NEW f \in Scrapes, CheckCached(f)
  PROVE  OutboundInv'
<1>1. PICK i \in Hits(scrape[f].host) :
        /\ \E next \in Decided(f, cache[i].verdict) : scrape' = [scrape EXCEPT ![f] = next]
        /\ cache' = cache
  BY DEF CheckCached, Hit
<1>2. PICK next \in Decided(f, cache[i].verdict) : scrape' = [scrape EXCEPT ![f] = next]
  BY <1>1
<1>3. scrape[f] \in Fetches /\ ~At(f, "lookup") /\ Lookups
  BY PartsOfInv DEF CheckCached, At, Lookups
<1>4. cache[i].verdict \in Verdicts
  <2>1. cache[i] \in Entry
    BY <1>1, LenProperties, ElementOfSeq DEF Hits, Entries, OutboundInv
  <2> QED BY <2>1 DEF Entry
<1>5. /\ next \in Fetches \cup {NoScrape}
      /\ next # NoScrape => next.pc \in {"check", "sent"}
  BY <1>3, <1>4, DecidedStates
<1>6. Lookups'
  BY <1>2, <1>3, <1>5, NoJob, FetchMoves DEF CheckCached
<1> QED BY <1>1, <1>6, PartsOfInv, PartsOfNext, CacheStays DEF CheckCached

LEMMA StartKeeps ==
  ASSUME OutboundInv, NEW f \in Scrapes, StartLookup(f)
  PROVE  OutboundInv'
<1>1. /\ scrape[f] \in Fetches /\ scrape[f] # NoScrape /\ scrape[f].host \in Hosts
      /\ Lookups /\ jobs \in Seq(Job) /\ \A i \in DOMAIN jobs : jobs[i].for # f
  BY NoJob, PartsOfInv DEF StartLookup, At, Lookups, Fetches
<1>2. PICK s \in Fetches : s = scrape[f]
  BY <1>1
<1>3. PICK r : r = [s EXCEPT !.pc = "lookup", !.left = DnsTimeout, !.age = 0]
  OBVIOUS
<1>4. r \in Fetches /\ r.pc = "lookup" /\ r.left = DnsTimeout /\ r.age = 0
  BY <1>3, OutboundAssumption DEF Fetches
<1>5. /\ scrape' \in [Scrapes -> Fetches \cup {NoScrape}]
      /\ scrape'[f] = r /\ \A g \in Scrapes \ {f} : scrape'[g] = scrape[g]
  <2>1. scrape' = [scrape EXCEPT ![f] = r]
    BY <1>2, <1>3 DEF StartLookup
  <2> QED BY <1>1, <1>4, <2>1 DEF Lookups
<1>6. PICK j : j = [host |-> s.host, for |-> f]
  OBVIOUS
<1>7. j \in Job /\ j.for = f /\ jobs' = Append(jobs, j)
  BY <1>1, <1>2, <1>6 DEF Job, StartLookup
<1>8. /\ jobs' \in Seq(Job) /\ DOMAIN jobs = 1..Len(jobs) /\ DOMAIN jobs' = 1..(Len(jobs) + 1)
      /\ \A i \in 1..(Len(jobs) + 1) : jobs'[i] = IF i = Len(jobs) + 1 THEN j ELSE jobs[i]
      /\ Len(jobs) \in Nat
  BY <1>1, <1>7
<1>9. r # NoScrape /\ DnsTimeout \in Nat
  BY <1>4, OutboundAssumption
<1>10. LookupsOK'
  <2>1. ASSUME NEW g \in Scrapes, scrape'[g] # NoScrape, scrape'[g].pc \in {"lookup", "resolved"}
        PROVE  scrape'[g].age + scrape'[g].left <= DnsTimeout
    <3>1. CASE g = f
      BY <1>4, <1>5, <1>9, <3>1
    <3>2. CASE g # f
      BY <1>1, <1>5, <2>1, <3>2 DEF LookupsOK, Lookups
    <3> QED BY <3>1, <3>2
  <2> QED BY <2>1 DEF LookupsOK
<1>11. ASSUME NEW i \in DOMAIN jobs', jobs'[i].for # Nobody
       PROVE  At(jobs[i].for, "lookup")'
  <2>1. CASE i = Len(jobs) + 1
    <3>1. jobs'[i].for = f
      BY <1>7, <1>8, <2>1
    <3>2. At(f, "lookup")'
      BY <1>4, <1>5, <1>9 DEF At
    <3> QED BY <3>1, <3>2 DEF At
  <2>2. CASE i # Len(jobs) + 1
    <3>1. i \in DOMAIN jobs /\ jobs'[i] = jobs[i]
      BY <1>8, <2>2
    <3>2. jobs[i].for \in Scrapes \ {f}
      <4>1. jobs[i] \in Job
        BY <1>1, <3>1, LenProperties, ElementOfSeq
      <4> QED BY <1>1, <1>11, <3>1, <4>1 DEF Job
    <3>3. At(jobs[i].for, "lookup")
      BY <1>1, <1>11, <3>1 DEF Lookups, JobsOK
    <3>4. scrape'[jobs[i].for] = scrape[jobs[i].for]
      BY <1>5, <3>2
    <3> QED BY <3>1, <3>3, <3>4 DEF At
  <2> QED BY <2>1, <2>2
<1>12. ASSUME NEW i \in DOMAIN jobs', NEW k \in DOMAIN jobs', jobs'[i].for = jobs'[k].for
       PROVE  jobs'[i].for = Nobody \/ i = k
  BY <1>1, <1>7, <1>8, <1>12 DEF Lookups, JobsOK
<1>13. JobsOK'
  BY <1>11, <1>12 DEF JobsOK
<1>14. Lookups'
  BY <1>5, <1>8, <1>10, <1>13 DEF Lookups
<1> QED BY <1>14, PartsOfInv, PartsOfNext, CacheStays DEF StartLookup

LEMMA ReturnKeeps ==
  ASSUME OutboundInv, NEW i \in 1..Threads, Return(i)
  PROVE  OutboundInv'
<1>1. /\ jobs \in Seq(Job) /\ DOMAIN jobs = 1..Len(jobs) /\ i \in 1..Len(jobs) /\ jobs[i] \in Job
      /\ Lookups
  BY PartsOfInv, LenProperties, ElementOfSeq DEF Lookups, Return
<1>2. PICK t : t = RemoveAt(jobs, i)
  OBVIOUS
<1>3. /\ t \in Seq(Job)
      /\ \A k \in DOMAIN t : \E m \in DOMAIN jobs : m # i /\ t[k] = jobs[m]
      /\ \A k, l \in DOMAIN t : k # l =>
           \E m, n \in DOMAIN jobs : m # i /\ n # i /\ m # n /\ t[k] = jobs[m] /\ t[l] = jobs[n]
  <2>1. jobs \in Seq(Job) /\ i \in 1..Len(jobs)
    BY <1>1
  <2>2. RemoveAt(jobs, i) \in Seq(Job)
    BY <2>1, RemovesOne
  <2>3. \A k \in DOMAIN RemoveAt(jobs, i) : \E m \in DOMAIN jobs : m # i /\ RemoveAt(jobs, i)[k] = jobs[m]
    BY <2>1, RemovesOne
  <2>4. \A k, l \in DOMAIN RemoveAt(jobs, i) : k # l =>
          \E m, n \in DOMAIN jobs : /\ m # i /\ n # i /\ m # n
                                    /\ RemoveAt(jobs, i)[k] = jobs[m] /\ RemoveAt(jobs, i)[l] = jobs[n]
    BY <2>1, RemovesOne
  <2> QED BY <1>2, <2>2, <2>3, <2>4
<1>4. jobs' = t
  BY <1>2 DEF Return
<1>5. \A k, l \in DOMAIN t : t[k].for = t[l].for => t[k].for = Nobody \/ k = l
  BY <1>1, <1>3 DEF Lookups, JobsOK
<1>6. CASE jobs[i].for = Nobody /\ UNCHANGED scrape
  <2>1. \A k \in DOMAIN t : t[k].for # Nobody => At(t[k].for, "lookup")'
    BY <1>1, <1>3, <1>6 DEF Lookups, JobsOK, At
  <2>2. LookupsOK'
    BY <1>1, <1>6 DEF Lookups, LookupsOK
  <2>3. JobsOK'
    BY <1>4, <1>5, <2>1 DEF JobsOK
  <2>4. Lookups'
    BY <1>1, <1>3, <1>4, <1>6, <2>2, <2>3 DEF Lookups
  <2> QED BY <2>4, PartsOfInv, PartsOfNext, CacheStays DEF Return
<1>7. CASE jobs[i].for # Nobody
  <2>1. PICK f \in Scrapes : f = jobs[i].for /\ At(f, "lookup") /\ scrape[f] \in Fetches
    BY <1>1, <1>7 DEF Job, Lookups, JobsOK, At
  <2>2. PICK verdict \in Verdicts : scrape' = [scrape EXCEPT ![f] =
          [@ EXCEPT !.pc = "resolved", !.verdict = verdict, !.age = 0]]
    BY <1>7, <2>1 DEF Return
  <2>3. PICK s \in Fetches : s = scrape[f]
    BY <2>1
  <2>4. PICK r : r = [s EXCEPT !.pc = "resolved", !.verdict = verdict, !.age = 0]
    OBVIOUS
  <2>5. r \in Fetches /\ r.left = s.left /\ r.age = 0
    BY <2>4 DEF Fetches
  <2>6. s.left <= DnsTimeout /\ s.left \in Nat
    <3>1. s.age + s.left <= DnsTimeout
      BY <1>1, <2>1, <2>3 DEF At, Lookups, LookupsOK
    <3>2. s.age \in Nat /\ s.left \in Nat /\ DnsTimeout \in Nat
      BY OutboundAssumption DEF Fetches
    <3> QED BY <3>1, <3>2
  <2>7. /\ scrape' \in [Scrapes -> Fetches \cup {NoScrape}]
        /\ scrape'[f] = r /\ \A g \in Scrapes \ {f} : scrape'[g] = scrape[g]
    <3>1. scrape' = [scrape EXCEPT ![f] = r]
      BY <2>2, <2>3, <2>4
    <3> QED BY <1>1, <2>5, <3>1 DEF Lookups
  <2>8. LookupsOK'
    BY <1>1, <2>5, <2>6, <2>7 DEF LookupsOK, Lookups
  <2>9. ASSUME NEW k \in DOMAIN t, t[k].for # Nobody
        PROVE  At(t[k].for, "lookup")'
    <3>1. PICK m \in DOMAIN jobs : m # i /\ t[k] = jobs[m]
      BY <1>3
    <3>2. jobs[m].for # f
      BY <1>1, <1>7, <2>1, <3>1 DEF Lookups, JobsOK
    <3>3. jobs[m].for \in Scrapes /\ At(jobs[m].for, "lookup")
      <4>1. jobs[m] \in Job
        BY <1>1, <3>1, ElementOfSeq
      <4> QED BY <1>1, <2>9, <3>1, <4>1 DEF Lookups, JobsOK, Job
    <3> QED BY <2>7, <3>1, <3>2, <3>3 DEF At
  <2>10. JobsOK'
    BY <1>4, <1>5, <2>9 DEF JobsOK
  <2>11. Lookups'
    BY <1>3, <1>4, <2>7, <2>8, <2>10 DEF Lookups
  <2> QED BY <2>11, PartsOfInv, PartsOfNext, CacheStays DEF Return
<1> QED BY <1>6, <1>7 DEF Return

LEMMA ResumeKeeps ==
  ASSUME OutboundInv, NEW f \in Scrapes, Resume(f)
  PROVE  OutboundInv'
<1>1. /\ scrape[f] \in Fetches /\ scrape[f] # NoScrape /\ ~At(f, "lookup") /\ Lookups
      /\ scrape[f].pc = "resolved" /\ scrape[f].verdict \in Verdicts /\ scrape[f].host \in Hosts
      /\ scrape[f].age \in Nat /\ scrape[f].left \in Nat
  BY PartsOfInv DEF Resume, At, Lookups, Fetches
<1>2. scrape[f].age <= DnsTimeout
  <2>1. scrape[f].age + scrape[f].left <= DnsTimeout
    BY <1>1 DEF OutboundInv, LookupsOK
  <2> QED BY <1>1, <2>1, OutboundAssumption
<1>3. CacheOK'
  BY <1>1, <1>2, PartsOfInv, LearnedKeeps DEF Resume
<1>4. PICK next \in Decided(f, scrape[f].verdict) : scrape' = [scrape EXCEPT ![f] = next]
  BY DEF Resume
<1>5. /\ next \in Fetches \cup {NoScrape}
      /\ next # NoScrape => next.pc \in {"check", "sent"}
  BY <1>1, DecidedStates
<1>6. Lookups'
  BY <1>1, <1>4, <1>5, NoJob, FetchMoves DEF Resume
<1> QED BY <1>3, <1>6, PartsOfInv, PartsOfNext DEF Resume

\* A fetch ends, and what is left of its job is for nobody.
LEMMA FetchEnds ==
  ASSUME Lookups, NEW f \in Scrapes, scrape' = [scrape EXCEPT ![f] = NoScrape],
         jobs' \in Seq(Job),
         \A k \in DOMAIN jobs' : jobs'[k].for # Nobody =>
           jobs'[k].for # f /\ \E m \in DOMAIN jobs : jobs'[k].for = jobs[m].for,
         \A k, l \in DOMAIN jobs' : jobs'[k].for = jobs'[l].for => jobs'[k].for = Nobody \/ k = l
  PROVE  Lookups'
<1>1. /\ scrape' \in [Scrapes -> Fetches \cup {NoScrape}]
      /\ scrape'[f] = NoScrape /\ \A g \in Scrapes \ {f} : scrape'[g] = scrape[g]
  BY DEF Lookups
<1>2. LookupsOK'
  BY <1>1 DEF Lookups, LookupsOK
<1>3. ASSUME NEW k \in DOMAIN jobs', jobs'[k].for # Nobody
      PROVE  At(jobs[k].for, "lookup")'
  <2>1. PICK m \in DOMAIN jobs : jobs'[k].for = jobs[m].for
    BY <1>3
  <2>2. PICK g \in Scrapes \ {f} : g = jobs[m].for
    <3>1. jobs[m] \in Job
      BY LenProperties, ElementOfSeq DEF Lookups
    <3> QED BY <1>3, <2>1, <3>1 DEF Job
  <2>3. At(g, "lookup")
    BY <1>3, <2>1, <2>2 DEF Lookups, JobsOK
  <2>4. scrape'[jobs'[k].for] = scrape[g]
    BY <1>1, <2>1, <2>2
  <2> QED BY <2>3, <2>4 DEF At
<1>4. JobsOK'
  BY <1>3 DEF JobsOK
<1> QED BY <1>1, <1>2, <1>4 DEF Lookups

LEMMA TimeoutKeeps ==
  ASSUME OutboundInv, NEW f \in Scrapes, Timeout(f)
  PROVE  OutboundInv'
<1>1. Lookups /\ jobs \in Seq(Job) /\ Len(jobs) \in Nat /\ DOMAIN jobs = 1..Len(jobs)
  BY PartsOfInv, LenProperties DEF Lookups
<1>2. /\ \A k, l \in DOMAIN jobs : jobs[k].for = jobs[l].for => jobs[k].for = Nobody \/ k = l
      /\ f # Nobody
  BY <1>1, OutboundAssumption DEF Lookups, JobsOK
<1>3. CASE Given(f) = {} /\ UNCHANGED jobs
  <2>1. \A k \in DOMAIN jobs : jobs[k].for # f
    BY <1>3 DEF Given
  <2>2. Lookups'
    BY <1>1, <1>2, <1>3, <2>1, FetchEnds DEF Timeout
  <2> QED BY <2>2, PartsOfInv, PartsOfNext, CacheStays DEF Timeout
<1>4. ASSUME NEW i \in Given(f), jobs' = RemoveAt(jobs, i)
      PROVE  OutboundInv'
  <2>1. i \in 1..Len(jobs) /\ jobs[i].for = f
    BY <1>1 DEF Given
  <2>2. jobs' \in Seq(Job)
    BY <1>1, <1>4, <2>1, RemovesOne
  <2>3. \A k \in DOMAIN jobs' : \E m \in DOMAIN jobs : m # i /\ jobs'[k] = jobs[m]
    <3>1. \A k \in DOMAIN RemoveAt(jobs, i) : \E m \in DOMAIN jobs : m # i /\ RemoveAt(jobs, i)[k] = jobs[m]
      <4>1. jobs \in Seq(Job) /\ i \in 1..Len(jobs)
        BY <1>1, <2>1
      <4> QED BY <4>1, RemovesOne
    <3> QED BY <1>4, <3>1
  <2>4. \A k, l \in DOMAIN jobs' : k # l =>
          \E m, n \in DOMAIN jobs : m # i /\ n # i /\ m # n /\ jobs'[k] = jobs[m] /\ jobs'[l] = jobs[n]
    <3>1. \A k, l \in DOMAIN RemoveAt(jobs, i) : k # l =>
            \E m, n \in DOMAIN jobs : /\ m # i /\ n # i /\ m # n
                                      /\ RemoveAt(jobs, i)[k] = jobs[m] /\ RemoveAt(jobs, i)[l] = jobs[n]
      <4>1. jobs \in Seq(Job) /\ i \in 1..Len(jobs)
        BY <1>1, <2>1
      <4> QED BY <4>1, RemovesOne
    <3> QED BY <1>4, <3>1
  <2>5. \A k \in DOMAIN jobs' : jobs'[k].for # f /\ \E m \in DOMAIN jobs : jobs'[k].for = jobs[m].for
    BY <1>1, <1>2, <2>1, <2>3
  <2>6. \A k, l \in DOMAIN jobs' : jobs'[k].for = jobs'[l].for => jobs'[k].for = Nobody \/ k = l
    BY <1>2, <2>4
  <2>7. Lookups'
    BY <1>1, <2>2, <2>5, <2>6, FetchEnds DEF Timeout
  <2> QED BY <2>7, PartsOfInv, PartsOfNext, CacheStays DEF Timeout
<1>5. ASSUME NEW i \in Given(f), jobs' = [jobs EXCEPT ![i] = [@ EXCEPT !.for = Nobody]]
      PROVE  OutboundInv'
  <2>1. i \in 1..Len(jobs) /\ jobs[i].for = f /\ jobs[i] \in Job
    BY <1>1, ElementOfSeq DEF Given
  <2>2. PICK j \in Job : j = jobs[i]
    BY <2>1
  <2>3. PICK r : r = [j EXCEPT !.for = Nobody]
    OBVIOUS
  <2>4. r \in Job /\ r.for = Nobody
    BY <2>3 DEF Job
  <2>5. jobs' = [jobs EXCEPT ![i] = r]
    BY <1>5, <2>2, <2>3
  <2>6. /\ jobs' \in Seq(Job) /\ DOMAIN jobs' = DOMAIN jobs
        /\ \A k \in DOMAIN jobs : jobs'[k] = IF k = i THEN r ELSE jobs[k]
    BY <1>1, <2>1, <2>4, <2>5
  <2>7. \A k \in DOMAIN jobs' : jobs'[k].for # Nobody =>
          jobs'[k].for # f /\ \E m \in DOMAIN jobs : jobs'[k].for = jobs[m].for
    BY <1>1, <1>2, <2>1, <2>4, <2>6
  <2>8. \A k, l \in DOMAIN jobs' : jobs'[k].for = jobs'[l].for => jobs'[k].for = Nobody \/ k = l
    BY <1>2, <2>4, <2>6
  <2>9. Lookups'
    BY <1>1, <2>6, <2>7, <2>8, FetchEnds DEF Timeout
  <2> QED BY <2>9, PartsOfInv, PartsOfNext, CacheStays DEF Timeout
<1> QED BY <1>3, <1>4, <1>5 DEF Timeout

LEMMA SentKeeps ==
  ASSUME OutboundInv, NEW f \in Scrapes, Page(f) \/ Redirect(f)
  PROVE  OutboundInv'
<1>1. At(f, "sent") /\ UNCHANGED <<cache, jobs>>
  BY DEF Page, Redirect
<1>2. scrape[f] \in Fetches /\ ~At(f, "lookup") /\ Lookups
  BY <1>1, PartsOfInv DEF At, Lookups
<1>3. redirects' \in Nat
  <2>1. redirects \in Nat /\ redirects + 1 \in Nat
    BY DEF OutboundInv
  <2>2. redirects' = redirects \/ redirects' = redirects + 1
    BY DEF Page, Redirect
  <2> QED BY <2>1, <2>2
<1>4. CASE scrape' = [scrape EXCEPT ![f] = NoScrape]
  <2>1. Lookups'
    BY <1>1, <1>2, <1>4, NoJob, FetchMoves
  <2> QED BY <1>1, <1>3, <2>1, PartsOfNext, CacheStays
<1>5. ASSUME NEW h \in Hosts,
             scrape' = [scrape EXCEPT ![f] = [@ EXCEPT !.pc = "check", !.check = "location", !.host = h]]
      PROVE  OutboundInv'
  <2>1. PICK s \in Fetches : s = scrape[f]
    BY <1>2
  <2>2. PICK r : r = [s EXCEPT !.pc = "check", !.check = "location", !.host = h]
    OBVIOUS
  <2>3. r \in Fetches /\ r.pc = "check"
    BY <2>2 DEF Fetches
  <2>4. scrape' = [scrape EXCEPT ![f] = r]
    BY <1>5, <2>1, <2>2
  <2>5. Lookups'
    BY <1>1, <1>2, <2>3, <2>4, NoJob, FetchMoves
  <2> QED BY <1>1, <1>3, <2>5, PartsOfNext, CacheStays
<1>6. scrape' = [scrape EXCEPT ![f] = NoScrape] \/ \E h \in Hosts :
        scrape' = [scrape EXCEPT ![f] = [@ EXCEPT !.pc = "check", !.check = "location", !.host = h]]
  BY DEF Page, Redirect
<1> QED BY <1>4, <1>5, <1>6

LEMMA FeedLookupKeeps ==
  ASSUME OutboundInv, NEW h \in Hosts, FeedLookup(h)
  PROVE  OutboundInv'
<1>1. CacheOK'
  <2>1. CASE cache' = cache
    BY <2>1, CacheStays
  <2>2. CASE \E verdict \in Verdicts : cache' = Learned(h, verdict, 0)
    BY <2>2, PartsOfInv, LearnedKeeps, OutboundAssumption
  <2> QED BY <2>1, <2>2 DEF FeedLookup, Hit
<1>2. Lookups'
  BY PartsOfInv DEF FeedLookup, Lookups, LookupsOK, JobsOK, At
<1> QED BY <1>1, <1>2, PartsOfInv, PartsOfNext DEF FeedLookup

LEMMA OutboundNextInv == OutboundInv /\ [OutboundNext]_outboundVars => OutboundInv'
<1> SUFFICES ASSUME OutboundInv, [OutboundNext]_outboundVars PROVE OutboundInv'
  OBVIOUS
<1>1. CASE UNCHANGED outboundVars
  BY <1>1 DEF outboundVars, OutboundInv, LookupsOK, JobsOK, At, VerdictsExpire
<1>2. CASE OutboundTick
  BY <1>2, TickKeeps
<1>3. ASSUME NEW h \in Hosts, FeedLookup(h) PROVE OutboundInv'
  BY <1>3, FeedLookupKeeps
<1>4. ASSUME NEW i \in 1..Threads, Return(i) PROVE OutboundInv'
  BY <1>4, ReturnKeeps
<1>5. ASSUME NEW f \in Scrapes, ScrapeStep(f) PROVE OutboundInv'
  BY <1>5, BeginKeeps, CheckKeeps, StartKeeps, ResumeKeeps, TimeoutKeeps, SentKeeps DEF ScrapeStep
<1> QED BY <1>1, <1>2, <1>3, <1>4, <1>5 DEF OutboundNext

\* Every state of the lookups satisfies the inductive invariant.
THEOREM SpecOutboundInv == OutboundSpec => []OutboundInv
<1>1. OutboundInit => OutboundInv
  BY OutboundInitInv
<1>2. OutboundInv /\ [OutboundNext]_outboundVars => OutboundInv'
  BY OutboundNextInv
<1> QED BY <1>1, <1>2, PTL DEF OutboundSpec

\* No verdict about a host is used that is older than the cache keeps entries
\* plus the time a lookup may take (_cache_get and _cache_put of ssrf_guard.py).
THEOREM SpecVerdictsExpire == OutboundSpec => []VerdictsExpire
<1>1. OutboundInv => VerdictsExpire
  BY DEF OutboundInv
<1> QED BY <1>1, SpecOutboundInv, PTL

-----------------------------------------------------------------------------
(* Feeds *)

LEMMA StepsOf ==
  /\ Steps["none"] = {"idle"} /\ Steps["add"] = {"insert"} /\ Steps["bulk"] = {"select", "insert"}
  /\ Steps["delete"] = {"find", "remove", "commit"}
  /\ Steps["poll"] = {"find", "seek", "item", "update"}
BY DEF Steps

\* The operations that have a step.
LEMMA Kinds ==
  ASSUME TablesTypeOK, NEW h \in Handlers, CallTypeOK(h)
  PROVE  /\ call[h] \in Calls
         /\ call[h].pc = "idle" <=> call[h].op = "none"
         /\ call[h].pc = "select" => call[h].op = "bulk"
         /\ call[h].pc = "insert" => call[h].op \in {"add", "bulk"}
         /\ call[h].pc = "find" => call[h].op \in {"delete", "poll"}
         /\ call[h].pc \in {"remove", "commit"} => call[h].op = "delete"
         /\ call[h].pc \in {"seek", "item", "update"} => call[h].op = "poll"
         /\ call[h].op \in {"add", "bulk"} => call[h].wrote \subseteq FeedRow
         /\ call[h].op = "poll" => call[h].wrote \subseteq ItemRow
<1>1. call[h] \in Calls
  BY DEF TablesTypeOK
<1>2. call[h].op \in {"none", "add", "bulk", "delete", "poll"} /\ call[h].pc \in Steps[call[h].op]
  BY <1>1 DEF Calls, CallTypeOK
<1>3. CASE call[h].op = "none"
  BY <1>1, <1>2, <1>3, StepsOf
<1>4. CASE call[h].op \in {"add", "bulk"}
  BY <1>1, <1>2, <1>4, StepsOf DEF CallTypeOK
<1>5. CASE call[h].op = "delete"
  BY <1>1, <1>2, <1>5, StepsOf DEF CallTypeOK
<1>6. CASE call[h].op = "poll"
  BY <1>1, <1>2, <1>6, StepsOf DEF CallTypeOK
<1> QED BY <1>2, <1>3, <1>4, <1>5, <1>6

LEMMA OneMove ==
  ASSUME TablesTypeOK, NEW h \in Handlers, NEW r \in Calls, call' = [call EXCEPT ![h] = r]
  PROVE  /\ call' \in [Handlers -> Calls] /\ call'[h] = r
         /\ \A k \in Handlers \ {h} : call'[k] = call[k]
BY DEF TablesTypeOK

\* What a step of h may do to the tables and to the call of h so that the
\* other calls, their numbers and the types stay right.
Frame(h) ==
  /\ call' \in [Handlers -> Calls]
  /\ \A k \in Handlers \ {h} : call'[k] = call[k]
  /\ feeds' \subseteq FeedRow /\ items' \subseteq ItemRow
  /\ requests' \in Nat /\ requests' >= requests
  /\ nextId' \in Nat /\ nextId' >= nextId
  /\ outcomes' \subseteq [op: {"none", "add", "bulk", "delete", "poll"}, no: Nat, how: Hows]
  /\ reported' \subseteq ItemRow \X Nat
  /\ CallTypeOK(h)' /\ ImportOK(h)'
  /\ call'[h].pc # "idle" =>
       \/ call[h].pc # "idle" /\ call'[h].no = call[h].no
       \/ call'[h].no = requests /\ requests' = requests + 1

LEMMA FrameKeeps ==
  ASSUME FeedsInv, NEW h \in Handlers, Frame(h)
  PROVE  /\ TablesTypeOK' /\ NumbersOK'
         /\ \A k \in Handlers : CallTypeOK(k)' /\ ImportOK(k)'
<1>1. TablesTypeOK'
  BY DEF Frame, TablesTypeOK
<1>2. ASSUME NEW k \in Handlers \ {h}
      PROVE  CallTypeOK(k)'
  <2>1. CallTypeOK(k) /\ call'[k] = call[k] /\ call[k] \in Calls
    BY DEF FeedsInv, TablesTypeOK, Frame
  <2>2. \A n \in Nat : n < nextId => n < nextId'
    BY DEF Frame, FeedsInv, TablesTypeOK
  <2>3. \A n \in Nat : n < requests => n < requests'
    BY DEF Frame, FeedsInv, TablesTypeOK
  <2> QED BY <2>1, <2>2, <2>3 DEF CallTypeOK, Calls
<1>3. ASSUME NEW k \in Handlers \ {h}
      PROVE  ImportOK(k)'
  <2>1. ImportOK(k) /\ call'[k] = call[k]
    BY DEF FeedsInv, Frame
  <2> QED BY <2>1 DEF ImportOK
<1>4. NumbersOK'
  <2>1. ASSUME NEW k \in Handlers, call[k].pc # "idle" PROVE call[k].no < requests
    BY <2>1 DEF FeedsInv, CallTypeOK
  <2>2. requests \in Nat /\ \A k \in Handlers : call[k].no \in Nat
    BY DEF FeedsInv, TablesTypeOK, Calls
  <2>3. ASSUME NEW k \in Handlers \ {h}, call'[k].pc # "idle", call'[h].pc # "idle"
        PROVE  call'[k].no # call'[h].no
    <3>1. call[k].pc # "idle" /\ call'[k].no = call[k].no
      BY <2>3 DEF Frame
    <3>2. CASE call[h].pc # "idle" /\ call'[h].no = call[h].no
      BY <3>1, <3>2 DEF FeedsInv, NumbersOK
    <3>3. CASE call'[h].no = requests
      BY <2>1, <2>2, <3>1, <3>3
    <3> QED BY <2>3, <3>2, <3>3 DEF Frame
  <2>4. ASSUME NEW k \in Handlers, NEW o \in Handlers,
               call'[k].pc # "idle", call'[k].no = call'[o].no, call'[o].pc # "idle"
        PROVE  k = o
    <3>1. CASE k = h
      BY <2>3, <2>4, <3>1
    <3>2. CASE o = h
      BY <2>3, <2>4, <3>2
    <3>3. CASE k # h /\ o # h
      BY <2>4, <3>3 DEF Frame, FeedsInv, NumbersOK
    <3> QED BY <3>1, <3>2, <3>3
  <2> QED BY <2>4 DEF NumbersOK
<1> QED BY <1>1, <1>2, <1>3, <1>4 DEF Frame

\* A step that changes no table and opens no new row.
LEMMA QuietMove ==
  ASSUME FeedsInv, NEW h \in Handlers, Frame(h), UNCHANGED <<feeds, items, reported, nextId>>,
         call'[h].wrote \subseteq call[h].wrote,
         Creates(h)' => call'[h].wrote = {} \/ Creates(h),
         Polls(h)' => call'[h].wrote = {} \/ Polls(h),
         Polls(h)' => call'[h].feed \in FeedIds \/ (Polls(h) /\ call'[h].feed = call[h].feed)
  PROVE  FeedsInv'
<1>1. FeedsOK' /\ ReportedOK' /\ ReportedOnce'
  BY DEF FeedsInv, FeedsOK, ReportedOK, ReportedOnce, FeedIds
<1>2. ASSUME NEW k \in Handlers, Creates(k)', NEW f \in call'[k].wrote
      PROVE  Creates(k) /\ f \in call[k].wrote
  BY <1>2 DEF Frame, Creates
<1>3. ASSUME NEW k \in Handlers, Polls(k)', NEW i \in call'[k].wrote
      PROVE  Polls(k) /\ i \in call[k].wrote
  BY <1>3 DEF Frame, Polls
<1>4. PendingOK'
  <2> SUFFICES ASSUME NEW k \in Handlers, Creates(k)', NEW f \in call'[k].wrote
               PROVE  /\ f.id < nextId
                      /\ \A g \in feeds : g.id # f.id /\ g.url # f.url
                      /\ \A o \in Handlers : Creates(o)' => \A g \in call'[o].wrote :
                           g.id = f.id \/ g.url = f.url => g = f /\ o = k
                      /\ \A o \in Handlers : Polls(o)' => call'[o].feed # f.id
                      /\ \A p \in reported : p[1].feed # f.id
    BY DEF PendingOK
  <2>1. Creates(k) /\ f \in call[k].wrote /\ PendingOK
    BY <1>2 DEF FeedsInv
  <2>2. /\ f.id < nextId
        /\ \A g \in feeds : g.id # f.id /\ g.url # f.url
        /\ \A p \in reported : p[1].feed # f.id
    BY <2>1 DEF PendingOK
  <2>3. ASSUME NEW o \in Handlers, Creates(o)', NEW g \in call'[o].wrote, g.id = f.id \/ g.url = f.url
        PROVE  g = f /\ o = k
    <3>1. Creates(o) /\ g \in call[o].wrote
      BY <1>2, <2>3
    <3> QED BY <2>1, <2>3, <3>1 DEF PendingOK
  <2>4. ASSUME NEW o \in Handlers, Polls(o)'
        PROVE  call'[o].feed # f.id
    <3>1. CASE Polls(o) /\ call'[o].feed = call[o].feed
      BY <2>1, <3>1 DEF PendingOK
    <3>2. CASE call'[o].feed \in FeedIds
      BY <2>2, <3>2 DEF FeedIds
    <3> QED BY <2>4, <3>1, <3>2 DEF Frame, Polls
  <2> QED BY <2>2, <2>3, <2>4
<1>5. PollsOK'
  BY <1>3 DEF FeedsInv, PollsOK
<1> QED BY <1>1, <1>4, <1>5, FrameKeeps DEF FeedsInv

LEMMA IdleCall == Idle \in Calls /\ Idle.pc = "idle" /\ Idle.op = "none" /\ Idle.wrote = {}
                  /\ Idle.feed = Null /\ Idle.todo = <<>>
<1>1. <<>> \in Seq(Urls) \cup Seq(Guids)
  OBVIOUS
<1> QED BY <1>1 DEF Idle, Calls

LEMMA FeedsInitInv == Init => FeedsInv
<1> SUFFICES ASSUME Init PROVE FeedsInv
  OBVIOUS
<1>1. call \in [Handlers -> Calls] /\ \A h \in Handlers : call[h] = Idle
  BY IdleCall DEF Init
<1>2. TablesTypeOK
  BY <1>1 DEF Init, TablesTypeOK
<1>3. ASSUME NEW h \in Handlers PROVE CallTypeOK(h) /\ ImportOK(h)
  <2>1. PICK r : r = Idle
    OBVIOUS
  <2>2. call[h] = r /\ r.pc = "idle" /\ r.op = "none" /\ r.wrote = {} /\ r.feed = Null /\ r.todo = <<>>
    BY <1>1, <2>1, IdleCall
  <2>3. CallTypeOK(h)
    BY <2>2, StepsOf DEF CallTypeOK
  <2>4. ImportOK(h)
    BY <2>2 DEF ImportOK
  <2> QED BY <2>3, <2>4
<1>4. NumbersOK /\ PendingOK /\ PollsOK
  BY <1>1, IdleCall DEF NumbersOK, PendingOK, PollsOK, Creates, Polls
<1>5. FeedsOK /\ ReportedOK /\ ReportedOnce
  BY DEF Init, FeedsOK, ReportedOK, ReportedOnce
<1> QED BY <1>2, <1>3, <1>4, <1>5 DEF FeedsInv

\* A request starts with no row of its own.
LEMMA RequestBegins ==
  ASSUME FeedsInv, NEW h \in Handlers, NEW op \in {"add", "bulk", "delete", "poll"},
         NEW pc \in {"insert", "select", "find"}, pc \in Steps[op],
         NEW feed, NEW todo, todo \in Seq(Urls) \cup Seq(Guids),
         op \in {"add", "bulk"} => feed = Null /\ todo \in Seq(Urls),
         op \in {"delete", "poll"} => feed \in 0..(nextId - 1) /\ todo \in Seq(Guids),
         pc = "insert" => Len(todo) = 1,
         Begin(h, op, pc, feed, todo)
  PROVE  FeedsInv'
<1>1. PICK r : r = [Idle EXCEPT !.op = op, !.pc = pc, !.no = requests,
                      !.feed = feed, !.todo = todo, !.size = Len(todo)]
  OBVIOUS
<1>2. /\ requests \in Nat /\ nextId \in Nat /\ Len(todo) \in Nat /\ feed \in Nat \cup {Null}
      /\ op \in {"delete", "poll"} => feed \in Nat /\ feed < nextId
      /\ DOMAIN todo = 1..Len(todo)
  <2>1. requests \in Nat /\ nextId \in Nat
    BY DEF FeedsInv, TablesTypeOK
  <2>2. Len(todo) \in Nat /\ DOMAIN todo = 1..Len(todo)
    BY LenProperties
  <2>3. op \in {"delete", "poll"} => feed \in Nat /\ feed < nextId
    BY <2>1
  <2> QED BY <2>1, <2>2, <2>3
<1>3. r = [op |-> op, pc |-> pc, no |-> requests, feed |-> feed, todo |-> todo, size |-> Len(todo),
           wrote |-> {}, created |-> 0, skipped |-> 0, failed |-> 0]
  BY <1>1 DEF Idle
<1>4. r \in Calls
  BY <1>2, <1>3 DEF Calls
<1>5. /\ call' \in [Handlers -> Calls] /\ call'[h] = r /\ \A k \in Handlers \ {h} : call'[k] = call[k]
  BY <1>1, <1>4, OneMove DEF FeedsInv, Begin
<1>6. UNCHANGED <<feeds, items, nextId, outcomes, reported>> /\ requests' = requests + 1
  BY DEF Begin
<1>7. CallTypeOK(h)'
  <2>1. pc # "idle" /\ requests < requests'
    BY <1>2, <1>6
  <2> QED BY <1>2, <1>3, <1>5, <1>6, <2>1 DEF CallTypeOK
<1>8. ImportOK(h)'
  <2>1. Cardinality({}) = 0 /\ IsFiniteSet({})
    BY FS_EmptySet
  <2>2. pc = "insert" => \A j, k \in DOMAIN todo : todo[j] = todo[k] => j = k
    BY <1>2
  <2> QED BY <1>2, <1>3, <1>5, <2>1, <2>2 DEF ImportOK
<1>9. Frame(h)
  BY <1>2, <1>3, <1>5, <1>6, <1>7, <1>8 DEF Frame, FeedsInv, TablesTypeOK
<1> QED BY <1>3, <1>5, <1>6, <1>9, QuietMove DEF Polls

LEMMA EndFrame ==
  ASSUME FeedsInv, NEW h \in Handlers, NEW how \in Hows, End(h, how),
         feeds' \subseteq FeedRow, items' \subseteq ItemRow, reported' \subseteq ItemRow \X Nat,
         UNCHANGED <<requests, nextId>>
  PROVE  /\ Frame(h) /\ call'[h] = Idle
         /\ outcomes' = outcomes \cup {[op |-> call[h].op, how |-> how, no |-> call[h].no]}
<1>1. /\ call' \in [Handlers -> Calls] /\ call'[h] = Idle /\ \A k \in Handlers \ {h} : call'[k] = call[k]
  BY IdleCall, OneMove DEF FeedsInv, End
<1>2. CallTypeOK(h)' /\ ImportOK(h)'
  <2>1. PICK r : r = Idle
    OBVIOUS
  <2>2. call'[h] = r /\ r.pc = "idle" /\ r.op = "none" /\ r.wrote = {} /\ r.feed = Null /\ r.todo = <<>>
    BY <1>1, <2>1, IdleCall
  <2>3. CallTypeOK(h)'
    BY <2>2, StepsOf DEF CallTypeOK
  <2>4. ImportOK(h)'
    BY <2>2 DEF ImportOK
  <2> QED BY <2>3, <2>4
<1>3. outcomes' = outcomes \cup {[op |-> call[h].op, how |-> how, no |-> call[h].no]}
  BY DEF End
<1>4. [op |-> call[h].op, how |-> how, no |-> call[h].no]
        \in [op: {"none", "add", "bulk", "delete", "poll"}, no: Nat, how: Hows]
  <2>1. call[h].op \in {"none", "add", "bulk", "delete", "poll"} /\ call[h].no \in Nat
    BY DEF FeedsInv, TablesTypeOK, Calls
  <2> QED BY <2>1
<1>5. outcomes' \subseteq [op: {"none", "add", "bulk", "delete", "poll"}, no: Nat, how: Hows]
  BY <1>3, <1>4 DEF FeedsInv, TablesTypeOK
<1> QED BY <1>1, <1>2, <1>3, <1>5, IdleCall DEF Frame, FeedsInv, TablesTypeOK

\* A request that ends without a COMMIT.
LEMMA RequestEnds ==
  ASSUME FeedsInv, NEW h \in Handlers, NEW how \in Hows, End(h, how),
         UNCHANGED <<feeds, items, requests, nextId, reported>>
  PROVE  FeedsInv'
<1>1. Frame(h) /\ call'[h] = Idle
  BY EndFrame DEF FeedsInv, TablesTypeOK
<1> QED BY <1>1, QuietMove, IdleCall DEF Creates, Polls

\* The partition of an import's body counts every reference once.
LEMMA Partition ==
  ASSUME NEW batch \in Seq(Urls), NEW new \in SUBSET DOMAIN batch, NEW first \in SUBSET new
  PROVE  /\ IsFiniteSet(first) /\ Cardinality(first) \in Nat
         /\ Cardinality(DOMAIN batch \ new) \in Nat /\ Cardinality(new \ first) \in Nat
         /\ Cardinality(DOMAIN batch \ new) + Cardinality(new \ first) + Cardinality(first) = Len(batch)
<1>1. DOMAIN batch = 1..Len(batch) /\ Len(batch) \in Nat
  BY LenProperties
<1>2. PICK D : D = DOMAIN batch
  OBVIOUS
<1>3. IsFiniteSet(D) /\ Cardinality(D) = Len(batch)
  <2>1. IsFiniteSet(1..Len(batch)) /\ Cardinality(1..Len(batch)) = IF 1 > Len(batch) THEN 0 ELSE Len(batch) - 1 + 1
    BY <1>1, FS_Interval
  <2> QED BY <1>1, <1>2, <2>1
<1>4. IsFiniteSet(new) /\ IsFiniteSet(first)
  BY <1>2, <1>3, FS_Subset
<1>5. /\ IsFiniteSet(D \ new) /\ Cardinality(D \ new) = Cardinality(D) - Cardinality(D \cap new)
      /\ IsFiniteSet(new \ first) /\ Cardinality(new \ first) = Cardinality(new) - Cardinality(new \cap first)
  BY <1>3, <1>4, FS_Difference
<1>6. D \cap new = new /\ new \cap first = first
  BY <1>2
<1>7. /\ Cardinality(D \ new) \in Nat /\ Cardinality(new \ first) \in Nat
      /\ Cardinality(first) \in Nat /\ Cardinality(new) \in Nat
  BY <1>4, <1>5, FS_CardinalityType
<1>8. Cardinality(DOMAIN batch \ new) = Len(batch) - Cardinality(new)
  BY <1>2, <1>3, <1>5, <1>6
<1>9. Cardinality(new \ first) = Cardinality(new) - Cardinality(first)
  BY <1>5, <1>6
<1>10. ASSUME NEW d, NEW n \in Nat, NEW e, NEW f \in Nat, d = Len(batch) - n, e = n - f
       PROVE  d + e + f = Len(batch)
  BY <1>1, <1>10
<1> QED BY <1>2, <1>4, <1>7, <1>8, <1>9, <1>10

LEMMA BulkSelectInv ==
  ASSUME FeedsInv, NEW h \in Handlers, BulkSelect(h)
  PROVE  FeedsInv'
<1>1. /\ call[h] \in Calls /\ call[h].op = "bulk" /\ call[h].pc = "select" /\ call[h].wrote = {}
      /\ call[h].todo \in Seq(Urls) /\ call[h].feed = Null /\ call[h].created = 0
      /\ Len(call[h].todo) = call[h].size /\ call[h].no < requests
  BY Kinds DEF FeedsInv, BulkSelect, CallTypeOK, ImportOK
<1> DEFINE batch == call[h].todo
           new   == {i \in DOMAIN batch : ~UrlTaken(batch[i])}
           first == {i \in new : \A j \in 1..(i - 1) : batch[j] # batch[i]}
<1>2. PICK at \in [1..Cardinality(first) -> first] :
        /\ \A j, k \in DOMAIN at : j < k => at[j] < at[k]
        /\ call' = [call EXCEPT ![h].pc = "insert", ![h].todo = [k \in DOMAIN at |-> batch[at[k]]],
                                ![h].skipped = Cardinality(DOMAIN batch \ new),
                                ![h].failed = Cardinality(new \ first)]
  BY DEF BulkSelect
<1>3. batch \in Seq(Urls) /\ DOMAIN batch = 1..Len(batch) /\ Len(batch) \in Nat
  BY <1>1, LenProperties
<1>4. \A i \in first : \A j \in 1..(i - 1) : batch[j] # batch[i]
  OBVIOUS
<1>5. new \subseteq DOMAIN batch /\ first \subseteq new
  OBVIOUS
<1>6. batch = call[h].todo
  OBVIOUS
<1> HIDE DEF batch, new, first
<1>7. PICK c \in Nat : c = Cardinality(first)
  BY <1>3, <1>5, Partition
<1>8. PICK todo : todo = [k \in 1..c |-> batch[at[k]]]
  OBVIOUS
<1>9. /\ at \in [1..c -> first] /\ \A k \in 1..c : at[k] \in first /\ at[k] \in 1..Len(batch)
  BY <1>2, <1>3, <1>5, <1>7
<1>10. todo \in Seq(Urls) /\ Len(todo) = c /\ DOMAIN todo = 1..c
  <2>1. \A k \in 1..c : batch[at[k]] \in Urls
    BY <1>3, <1>9, ElementOfSeq
  <2>2. todo \in [1..c -> Urls]
    BY <1>8, <2>1
  <2> QED BY <2>2
<1>11. ASSUME NEW j \in 1..c, NEW k \in 1..c, todo[j] = todo[k], j < k
       PROVE  FALSE
  <2>1. at[j] < at[k] /\ at[j] \in 1..Len(batch) /\ at[k] \in first /\ at[k] \in 1..Len(batch)
    BY <1>2, <1>7, <1>9, <1>11
  <2>2. at[j] \in 1..(at[k] - 1)
    BY <1>3, <2>1
  <2>3. batch[at[j]] # batch[at[k]]
    BY <1>4, <2>1, <2>2
  <2> QED BY <1>8, <1>11, <2>3
<1>12. \A j, k \in DOMAIN todo : todo[j] = todo[k] => j = k
  <2>1. \A j, k \in 1..c : j = k \/ j < k \/ k < j
    BY <1>7
  <2> QED BY <1>10, <1>11, <2>1
<1>13. /\ Cardinality(DOMAIN batch \ new) \in Nat /\ Cardinality(new \ first) \in Nat
       /\ Cardinality(DOMAIN batch \ new) + Cardinality(new \ first) + c = Len(batch)
  BY <1>3, <1>5, <1>7, Partition
<1>14. PICK skipped \in Nat : skipped = Cardinality(DOMAIN batch \ new)
  BY <1>13
<1>15. PICK failed \in Nat : failed = Cardinality(new \ first)
  BY <1>13
<1>16. PICK s \in Calls : s = call[h]
  BY <1>1
<1>17. PICK r : r = [s EXCEPT !.pc = "insert", !.todo = todo, !.skipped = skipped, !.failed = failed]
  OBVIOUS
<1>18. /\ r \in Calls /\ r.op = s.op /\ r.pc = "insert" /\ r.no = s.no /\ r.feed = s.feed /\ r.todo = todo
       /\ r.size = s.size /\ r.wrote = s.wrote /\ r.created = s.created
       /\ r.skipped = skipped /\ r.failed = failed
  <2>1. todo \in Seq(Urls) \cup Seq(Guids)
    BY <1>10
  <2> QED BY <1>17, <2>1 DEF Calls
<1>19. call' = [call EXCEPT ![h] = r]
  <2>1. DOMAIN at = 1..c
    BY <1>9
  <2> QED BY <1>2, <1>8, <1>14, <1>15, <1>16, <1>17, <2>1 DEF FeedsInv, TablesTypeOK
<1>20. /\ call' \in [Handlers -> Calls] /\ call'[h] = r /\ \A k \in Handlers \ {h} : call'[k] = call[k]
  BY <1>18, <1>19, OneMove DEF FeedsInv
<1>21. CallTypeOK(h)'
  <2>1. nextId' = nextId /\ requests' = requests
    BY DEF BulkSelect
  <2>2. /\ r.op = "bulk" /\ r.pc = "insert" /\ r.feed = Null /\ r.todo \in Seq(Urls) /\ r.wrote = {}
        /\ r.no < requests
    BY <1>1, <1>10, <1>16, <1>18
  <2> QED BY <1>20, <2>1, <2>2, StepsOf DEF CallTypeOK
<1>22. ImportOK(h)'
  <2>1. Cardinality({}) = 0 /\ IsFiniteSet({})
    BY FS_EmptySet
  <2>2. 0 + skipped + failed + c = Len(batch)
    BY <1>13, <1>14, <1>15
  <2>3. r.wrote = {} /\ r.created = 0 /\ r.size = Len(batch)
    BY <1>1, <1>6, <1>16, <1>18
  <2>4. /\ \A j, k \in DOMAIN r.todo : r.todo[j] = r.todo[k] => j = k
        /\ \A f \in r.wrote, k \in DOMAIN r.todo : f.url # r.todo[k]
    BY <1>12, <1>18, <2>3
  <2>5. IsFiniteSet(r.wrote) /\ r.created = Cardinality(r.wrote)
    BY <2>1, <2>3
  <2>6. r.created + r.skipped + r.failed + Len(r.todo) = r.size
    BY <1>10, <1>18, <2>2, <2>3
  <2>7. r.pc = "insert" /\ call'[h] = r
    BY <1>18, <1>20
  <2> QED BY ONLY <2>4, <2>5, <2>6, <2>7 DEF ImportOK
<1>23. Frame(h)
  <2>1. UNCHANGED <<feeds, items, requests, nextId, outcomes, reported>>
    BY DEF BulkSelect
  <2>2. call[h].pc # "idle" /\ call'[h].no = call[h].no
    BY <1>1, <1>16, <1>18, <1>20
  <2>3. TablesTypeOK
    BY DEF FeedsInv
  <2> QED BY <1>20, <1>21, <1>22, <2>1, <2>2, <2>3 DEF Frame, TablesTypeOK
<1>24. call'[h].wrote = {} /\ call'[h].pc = "insert"
  BY <1>1, <1>16, <1>18, <1>20
<1>25. ~Polls(h)' /\ call'[h].wrote \subseteq call[h].wrote
  BY <1>24 DEF Polls
<1>26. UNCHANGED <<feeds, items, reported, nextId>>
  BY DEF BulkSelect
<1> QED BY <1>23, <1>24, <1>25, <1>26, QuietMove

LEMMA TailOfUrls ==
  ASSUME NEW todo \in Seq(Urls), todo # <<>>, \A j, k \in DOMAIN todo : todo[j] = todo[k] => j = k
  PROVE  /\ Head(todo) \in Urls /\ Tail(todo) \in Seq(Urls) /\ Len(Tail(todo)) = Len(todo) - 1
         /\ Len(todo) \in Nat /\ 1 \in DOMAIN todo /\ Head(todo) = todo[1]
         /\ \A k \in DOMAIN Tail(todo) : /\ Tail(todo)[k] # Head(todo)
                                         /\ \E m \in DOMAIN todo : Tail(todo)[k] = todo[m]
         /\ \A j, k \in DOMAIN Tail(todo) : Tail(todo)[j] = Tail(todo)[k] => j = k
<1>1. /\ Head(todo) \in Urls /\ Tail(todo) \in Seq(Urls) /\ Len(Tail(todo)) = Len(todo) - 1
      /\ \A i \in 1..Len(Tail(todo)) : Tail(todo)[i] = todo[i + 1]
  BY HeadTailProperties
<1>2. DOMAIN todo = 1..Len(todo) /\ Len(todo) \in Nat /\ Head(todo) = todo[1] /\ 1 \in DOMAIN todo
  BY LenProperties, EmptySeq
<1>3. DOMAIN Tail(todo) = 1..Len(Tail(todo))
  BY <1>1, LenProperties
<1>4. ASSUME NEW k \in DOMAIN Tail(todo)
      PROVE  k \in Nat /\ k # 0 /\ k + 1 \in DOMAIN todo /\ Tail(todo)[k] = todo[k + 1]
  BY <1>1, <1>2, <1>3
<1>5. ASSUME NEW k \in DOMAIN Tail(todo)
      PROVE  /\ Tail(todo)[k] # Head(todo)
             /\ \E m \in DOMAIN todo : Tail(todo)[k] = todo[m]
  BY <1>2, <1>4
<1>6. ASSUME NEW j \in DOMAIN Tail(todo), NEW k \in DOMAIN Tail(todo), Tail(todo)[j] = Tail(todo)[k]
      PROVE  j = k
  <2>1. j + 1 = k + 1
    BY <1>4, <1>6
  <2> QED BY <1>4, <2>1
<1> QED BY <1>1, <1>2, <1>5, <1>6

\* A step of a request that changes its call and no table; reading ids aside.
LEMMA CallFrame ==
  ASSUME FeedsInv, NEW h \in Handlers, call[h].pc # "idle", NEW r \in Calls, r.no = call[h].no,
         call' = [call EXCEPT ![h] = r], UNCHANGED <<feeds, items, requests, outcomes, reported>>,
         nextId' \in Nat, nextId' >= nextId, CallTypeOK(h)', ImportOK(h)'
  PROVE  Frame(h) /\ call'[h] = r /\ \A k \in Handlers \ {h} : call'[k] = call[k]
<1>1. /\ call' \in [Handlers -> Calls] /\ call'[h] = r /\ \A k \in Handlers \ {h} : call'[k] = call[k]
  BY OneMove DEF FeedsInv
<1>2. TablesTypeOK
  BY DEF FeedsInv
<1> QED BY <1>1, <1>2 DEF Frame, TablesTypeOK

LEMMA ParseFailsInv ==
  ASSUME FeedsInv, NEW h \in Handlers, ParseFails(h)
  PROVE  FeedsInv'
<1>1. CASE call[h].op = "add"
  <2>1. End(h, "unparsed") /\ UNCHANGED <<feeds, items, requests, nextId, reported>>
    BY <1>1 DEF ParseFails
  <2> QED BY <2>1, RequestEnds DEF Hows
<1>2. CASE call[h].op # "add"
  <2>1. PICK s \in Calls : s = call[h]
    BY DEF FeedsInv, TablesTypeOK
  <2>2. /\ s.op = "bulk" /\ s.pc = "insert" /\ s.todo # <<>> /\ s.todo \in Seq(Urls) /\ s.feed = Null
        /\ s.wrote \subseteq FeedRow /\ s.no < requests
    BY <1>2, <2>1, Kinds DEF FeedsInv, CallTypeOK, ParseFails
  <2>3. /\ \A j, k \in DOMAIN s.todo : s.todo[j] = s.todo[k] => j = k
        /\ \A f \in s.wrote, k \in DOMAIN s.todo : f.url # s.todo[k]
        /\ IsFiniteSet(s.wrote) /\ s.created = Cardinality(s.wrote)
        /\ s.created + s.skipped + s.failed + Len(s.todo) = s.size
    BY <2>1, <2>2 DEF FeedsInv, ImportOK
  <2>4. PICK t : t = Tail(s.todo)
    OBVIOUS
  <2>5. /\ t \in Seq(Urls) /\ Len(t) = Len(s.todo) - 1 /\ Len(s.todo) \in Nat
        /\ \A k \in DOMAIN t : \E m \in DOMAIN s.todo : t[k] = s.todo[m]
        /\ \A j, k \in DOMAIN t : t[j] = t[k] => j = k
    BY <2>2, <2>3, <2>4, TailOfUrls
  <2>6. PICK n : n = s.failed + 1
    OBVIOUS
  <2>7. PICK r : r = [s EXCEPT !.todo = t, !.failed = n]
    OBVIOUS
  <2>8. s.failed \in Nat /\ n \in Nat /\ t \in Seq(Urls) \cup Seq(Guids)
    BY <2>5, <2>6 DEF Calls
  <2>9. /\ r \in Calls /\ r.op = s.op /\ r.pc = s.pc /\ r.no = s.no /\ r.feed = s.feed /\ r.todo = t
        /\ r.size = s.size /\ r.wrote = s.wrote /\ r.created = s.created
        /\ r.skipped = s.skipped /\ r.failed = n
    BY <2>7, <2>8 DEF Calls
  <2>10. call' = [call EXCEPT ![h] = r]
    BY <1>2, <2>1, <2>4, <2>6, <2>7 DEF ParseFails, FeedsInv, TablesTypeOK
  <2>11. call'[h] = r /\ UNCHANGED <<feeds, items, requests, nextId, outcomes, reported>>
    BY <1>2, <2>9, <2>10, OneMove DEF ParseFails, FeedsInv
  <2>12. CallTypeOK(h)'
    BY <2>2, <2>5, <2>9, <2>11, StepsOf DEF CallTypeOK
  <2>13. ImportOK(h)'
    <3>1. s.created + s.skipped + n + Len(t) = s.size
      <4>1. s.created \in Nat /\ s.skipped \in Nat /\ s.failed \in Nat /\ s.size \in Nat
        BY DEF Calls
      <4>2. s.created + s.skipped + s.failed + Len(s.todo) = s.size
        BY <2>3
      <4>3. Len(s.todo) \in Nat /\ Len(t) = Len(s.todo) - 1
        BY <2>5
      <4>4. PICK a \in Nat, b \in Nat, c \in Nat, l \in Nat, z \in Nat :
              a = s.created /\ b = s.skipped /\ c = s.failed /\ l = Len(s.todo) /\ z = s.size
        BY <4>1, <4>3
      <4>5. a + b + c + l = z
        BY <4>2, <4>4
      <4>6. a + b + (c + 1) + (l - 1) = z
        BY <4>5
      <4> QED BY <2>6, <4>3, <4>4, <4>6
    <3>2. \A f \in s.wrote, k \in DOMAIN t : f.url # t[k]
      BY <2>3, <2>5
    <3> QED BY <2>2, <2>3, <2>5, <2>9, <2>11, <3>1, <3>2, SMTT(30) DEF ImportOK
  <2>14. Frame(h)
    <3>1. nextId' \in Nat /\ nextId' >= nextId
      BY <2>11 DEF FeedsInv, TablesTypeOK
    <3> QED BY <2>1, <2>2, <2>9, <2>10, <2>11, <2>12, <2>13, <3>1, CallFrame
  <2> QED BY <2>1, <2>2, <2>9, <2>11, <2>14, QuietMove DEF Creates, Polls
<1> QED BY <1>1, <1>2

\* What Blockers says at each statement that may wait.
LEMMA WhoBlocks ==
  ASSUME NEW h \in Handlers
  PROVE  /\ call[h].pc = "insert" /\ call[h].todo # <<>> => Blockers(h) = UrlHolders(h, Head(call[h].todo))
         /\ call[h].pc = "item" => Blockers(h) = ItemHolders(h, call[h].feed, Head(call[h].todo))
BY DEF Blockers

LEMMA InsertFeedInv ==
  ASSUME FeedsInv, NEW h \in Handlers, InsertFeed(h)
  PROVE  FeedsInv'
<1>1. CASE UrlTaken(Head(call[h].todo))
  <2>1. End(h, "conflict") /\ UNCHANGED <<feeds, items, requests, nextId, reported>>
    BY <1>1 DEF InsertFeed, Conflict
  <2> QED BY <2>1, RequestEnds DEF Hows
<1>2. CASE ~UrlTaken(Head(call[h].todo))
  <2>1. PICK s \in Calls : s = call[h]
    BY DEF FeedsInv, TablesTypeOK
  <2>2. /\ s.op \in {"add", "bulk"} /\ s.pc = "insert" /\ s.todo # <<>> /\ s.todo \in Seq(Urls) /\ s.feed = Null
        /\ s.wrote \subseteq FeedRow /\ s.no < requests
    BY <2>1, Kinds DEF FeedsInv, CallTypeOK, InsertFeed
  <2>3. /\ \A j, k \in DOMAIN s.todo : s.todo[j] = s.todo[k] => j = k
        /\ \A f \in s.wrote, k \in DOMAIN s.todo : f.url # s.todo[k]
        /\ IsFiniteSet(s.wrote) /\ s.created = Cardinality(s.wrote)
        /\ s.created + s.skipped + s.failed + Len(s.todo) = s.size
    BY <2>1, <2>2 DEF FeedsInv, ImportOK
  <2>4. PICK t : t = Tail(s.todo)
    OBVIOUS
  <2>5. PICK url : url = Head(s.todo)
    OBVIOUS
  <2>6. /\ t \in Seq(Urls) /\ Len(t) = Len(s.todo) - 1 /\ Len(s.todo) \in Nat /\ url \in Urls
        /\ \A k \in DOMAIN t : t[k] # url /\ \E m \in DOMAIN s.todo : t[k] = s.todo[m]
        /\ \A j, k \in DOMAIN t : t[j] = t[k] => j = k
        /\ \A f \in s.wrote : f.url # url
    BY <2>2, <2>3, <2>4, <2>5, TailOfUrls
  <2>7. PICK new : new = [id |-> nextId, url |-> url]
    OBVIOUS
  <2>8. nextId \in Nat /\ nextId + 1 \in Nat /\ new \in FeedRow /\ new.id = nextId /\ new.url = url
    BY <2>6, <2>7 DEF FeedsInv, TablesTypeOK, FeedRow
  <2>9. PICK w : w = s.wrote \cup {new}
    OBVIOUS
  <2>10. PICK n : n = s.created + 1
    OBVIOUS
  <2>11. PICK r : r = [s EXCEPT !.todo = t, !.created = n, !.wrote = w]
    OBVIOUS
  <2>12. /\ s.created \in Nat /\ n \in Nat /\ t \in Seq(Urls) \cup Seq(Guids) /\ w \subseteq FeedRow
         /\ w \in (SUBSET FeedRow) \cup (SUBSET ItemRow)
    BY <2>2, <2>6, <2>8, <2>9, <2>10 DEF Calls
  <2>13. /\ r \in Calls /\ r.op = s.op /\ r.pc = s.pc /\ r.no = s.no /\ r.feed = s.feed /\ r.todo = t
         /\ r.size = s.size /\ r.wrote = w /\ r.created = n
         /\ r.skipped = s.skipped /\ r.failed = s.failed
    BY <2>11, <2>12 DEF Calls
  <2>14. /\ call' = [call EXCEPT ![h] = r] /\ nextId' = nextId + 1
         /\ UNCHANGED <<feeds, items, requests, outcomes, reported>>
    BY <1>2, <2>1, <2>4, <2>5, <2>7, <2>9, <2>10, <2>11 DEF InsertFeed, FeedsInv, TablesTypeOK
  <2>15. call'[h] = r /\ \A k \in Handlers \ {h} : call'[k] = call[k]
    BY <2>13, <2>14, OneMove DEF FeedsInv
  <2>16. CallTypeOK(h)'
    BY <2>2, <2>6, <2>12, <2>13, <2>14, <2>15, StepsOf DEF CallTypeOK
  <2>17. ImportOK(h)'
    <3>1. s.created \in Nat /\ s.skipped \in Nat /\ s.failed \in Nat /\ s.size \in Nat
      BY DEF Calls
    <3>2. n + s.skipped + s.failed + Len(t) = s.size
      <4>1. s.created + s.skipped + s.failed + Len(s.todo) = s.size
        BY <2>3
      <4>2. Len(s.todo) \in Nat /\ Len(t) = Len(s.todo) - 1
        BY <2>6
      <4>3. PICK a \in Nat, b \in Nat, c \in Nat, l \in Nat, z \in Nat :
              a = s.created /\ b = s.skipped /\ c = s.failed /\ l = Len(s.todo) /\ z = s.size
        BY <3>1, <4>2
      <4>4. a + b + c + l = z
        BY <4>1, <4>3
      <4>5. (a + 1) + b + c + (l - 1) = z
        BY <4>4
      <4> QED BY <2>10, <4>2, <4>3, <4>5
    <3>3. \A f \in w, k \in DOMAIN t : f.url # t[k]
      BY <2>3, <2>6, <2>8, <2>9
    <3>4. new \notin s.wrote
      BY <2>6, <2>8
    <3>5. IsFiniteSet(w) /\ n = Cardinality(w)
      BY <2>3, <2>9, <2>10, <3>4, FS_AddElement, SMTT(30)
    <3> QED BY <2>2, <2>6, <2>13, <2>15, <3>2, <3>3, <3>5 DEF ImportOK
  <2>18. Frame(h)
    <3>1. nextId' \in Nat /\ nextId' >= nextId
      BY <2>8, <2>14
    <3> QED BY <2>1, <2>2, <2>13, <2>14, <2>16, <2>17, <3>1, CallFrame
  <2>19. \A f \in feeds : f.url # url
    BY <1>2, <2>1, <2>5 DEF UrlTaken
  <2>20. ASSUME NEW o \in Handlers \ {h}, Creates(o), NEW g \in call[o].wrote
         PROVE  g.url # url
    <3>1. o \notin UrlHolders(h, url)
      BY <2>1, <2>2, <2>5, WhoBlocks DEF InsertFeed
    <3>2. call[o].op # "poll"
      BY <2>20, Kinds DEF FeedsInv, Creates
    <3> QED BY <2>20, <3>1, <3>2 DEF UrlHolders, Others
  <2>21. ASSUME NEW o \in Handlers, Creates(o), NEW g \in call[o].wrote
         PROVE  g.id \in Nat /\ g.id < nextId
    <3>1. g \in FeedRow
      BY <2>21, Kinds DEF FeedsInv, Creates
    <3> QED BY <2>21, <3>1 DEF FeedsInv, PendingOK, FeedRow
  <2>22. ASSUME NEW k \in Handlers, Creates(k)', NEW f \in call'[k].wrote, f # new \/ k # h
         PROVE  Creates(k) /\ f \in call[k].wrote /\ f.url # url /\ f.id < nextId /\ f.id \in Nat
    <3>1. CASE k = h
      <4>1. Creates(h) /\ f \in call[h].wrote
        BY <2>1, <2>2, <2>9, <2>13, <2>15, <2>22, <3>1 DEF Creates
      <4> QED BY <2>1, <2>6, <2>21, <3>1, <4>1
    <3>2. CASE k # h
      <4>1. Creates(k) /\ f \in call[k].wrote
        BY <2>15, <2>22, <3>2 DEF Creates
      <4> QED BY <2>20, <2>21, <3>2, <4>1
    <3> QED BY <3>1, <3>2
  <2>23. ASSUME NEW o \in Handlers, Polls(o)'
         PROVE  Polls(o) /\ call'[o].feed = call[o].feed /\ call[o].feed < nextId /\ call[o].feed \in Nat
    <3>1. o # h
      BY <2>2, <2>13, <2>15, <2>23 DEF Polls
    <3>2. Polls(o) /\ call'[o].feed = call[o].feed
      BY <2>15, <2>23, <3>1 DEF Polls
    <3>3. call[o].op = "poll"
      BY <3>2, Kinds DEF FeedsInv, Polls
    <3> QED BY <3>2, <3>3 DEF FeedsInv, CallTypeOK
  <2>24. PendingOK'
    <3> SUFFICES ASSUME NEW k \in Handlers, Creates(k)', NEW f \in call'[k].wrote
                 PROVE  /\ f.id < nextId'
                        /\ \A g \in feeds : g.id # f.id /\ g.url # f.url
                        /\ \A o \in Handlers : Creates(o)' => \A g \in call'[o].wrote :
                             g.id = f.id \/ g.url = f.url => g = f /\ o = k
                        /\ \A o \in Handlers : Polls(o)' => call'[o].feed # f.id
                        /\ \A p \in reported : p[1].feed # f.id
      BY <2>14 DEF PendingOK
    <3>1. CASE f = new /\ k = h
      <4>1. f.id < nextId'
        BY <2>8, <2>14, <3>1
      <4>2. ASSUME NEW g \in feeds PROVE g.id # f.id /\ g.url # f.url
        <5>1. g.id < nextId /\ g.id \in Nat
          BY DEF FeedsInv, FeedsOK, TablesTypeOK, FeedRow
        <5> QED BY <2>8, <2>19, <3>1, <5>1
      <4>3. ASSUME NEW o \in Handlers, Creates(o)', NEW g \in call'[o].wrote, g.id = f.id \/ g.url = f.url
            PROVE  g = f /\ o = k
        <5>1. CASE g = new /\ o = h
          BY <3>1, <5>1
        <5>2. CASE g # new \/ o # h
          BY <2>8, <2>22, <3>1, <4>3, <5>2
        <5> QED BY <5>1, <5>2
      <4>4. ASSUME NEW o \in Handlers, Polls(o)' PROVE call'[o].feed # f.id
        BY <2>8, <2>23, <3>1, <4>4
      <4>5. ASSUME NEW p \in reported PROVE p[1].feed # f.id
        <5>1. p[1].feed < nextId /\ p[1].feed \in Nat
          BY DEF FeedsInv, ReportedOK, TablesTypeOK, ItemRow
        <5> QED BY <2>8, <3>1, <5>1
      <4> QED BY <4>1, <4>2, <4>3, <4>4, <4>5
    <3>2. CASE f # new \/ k # h
      <4>1. Creates(k) /\ f \in call[k].wrote /\ f.url # url /\ f.id < nextId /\ f.id \in Nat
        BY <2>22, <3>2
      <4>2. /\ \A g \in feeds : g.id # f.id /\ g.url # f.url
            /\ \A p \in reported : p[1].feed # f.id
        BY <4>1 DEF FeedsInv, PendingOK
      <4>3. ASSUME NEW o \in Handlers, Creates(o)', NEW g \in call'[o].wrote, g.id = f.id \/ g.url = f.url
            PROVE  g = f /\ o = k
        <5>1. CASE g = new /\ o = h
          BY <2>8, <4>1, <4>3, <5>1
        <5>2. CASE g # new \/ o # h
          <6>1. Creates(o) /\ g \in call[o].wrote
            BY <2>22, <4>3, <5>2
          <6> QED BY <4>1, <4>3, <6>1 DEF FeedsInv, PendingOK
        <5> QED BY <5>1, <5>2
      <4>4. ASSUME NEW o \in Handlers, Polls(o)' PROVE call'[o].feed # f.id
        <5>1. Polls(o) /\ call'[o].feed = call[o].feed
          BY <2>23, <4>4
        <5> QED BY <4>1, <5>1 DEF FeedsInv, PendingOK
      <4>5. f.id < nextId'
        BY <2>8, <2>14, <4>1
      <4> QED BY <4>2, <4>3, <4>4, <4>5
    <3> QED BY <3>1, <3>2
  <2>25. FeedsOK' /\ ReportedOK' /\ ReportedOnce'
    <3>1. \A m \in Nat : m < nextId => m < nextId'
      BY <2>8, <2>14
    <3>2. FeedIds' = FeedIds
      BY <2>14 DEF FeedIds
    <3>3. (\A f \in feeds : f.id \in Nat) /\ (\A p \in reported : p[1].feed \in Nat)
      BY DEF FeedsInv, TablesTypeOK, FeedRow, ItemRow
    <3>4. FeedsOK'
      BY <2>14, <3>1, <3>2, <3>3 DEF FeedsInv, FeedsOK
    <3>5. ReportedOK'
      BY <2>14, <3>1, <3>2, <3>3 DEF FeedsInv, ReportedOK
    <3> QED BY <2>14, <3>4, <3>5 DEF FeedsInv, ReportedOnce
  <2>26. PollsOK'
    <3>1. \A o \in Handlers : Polls(o)' => Polls(o) /\ call'[o].wrote = call[o].wrote
      BY <2>2, <2>13, <2>15 DEF Polls
    <3> QED BY <2>14, <3>1 DEF FeedsInv, PollsOK
  <2> QED BY <2>18, <2>24, <2>25, <2>26, FrameKeeps DEF FeedsInv
<1> QED BY <1>1, <1>2

\* A COMMIT ends the request of h and leaves the calls of the others alone.
LEMMA Committed ==
  ASSUME FeedsInv, NEW h \in Handlers, End(h, "ok"),
         feeds' \subseteq FeedRow, items' \subseteq ItemRow, reported' \subseteq ItemRow \X Nat,
         UNCHANGED <<requests, nextId>>
  PROVE  /\ Frame(h)
         /\ \A k \in Handlers : Creates(k)' =>
              k # h /\ Creates(k) /\ call'[k].wrote = call[k].wrote
         /\ \A k \in Handlers : Polls(k)' =>
              k # h /\ Polls(k) /\ call'[k].wrote = call[k].wrote /\ call'[k].feed = call[k].feed
<1>1. Frame(h) /\ call'[h] = Idle
  BY EndFrame DEF Hows
<1> QED BY <1>1, IdleCall DEF Frame, Creates, Polls

LEMMA CommitFeedsInv ==
  ASSUME FeedsInv, NEW h \in Handlers, CommitFeeds(h)
  PROVE  FeedsInv'
<1>1. PICK w \in SUBSET FeedRow : w = call[h].wrote
  BY Kinds DEF FeedsInv, CommitFeeds
<1>2. feeds' = feeds \cup w /\ End(h, "ok") /\ UNCHANGED <<items, requests, nextId, reported>> /\ Creates(h)
  BY <1>1 DEF CommitFeeds, Creates
<1>3. /\ Frame(h)
      /\ \A k \in Handlers : Creates(k)' =>
           k # h /\ Creates(k) /\ call'[k].wrote = call[k].wrote
      /\ \A k \in Handlers : Polls(k)' =>
           k # h /\ Polls(k) /\ call'[k].wrote = call[k].wrote /\ call'[k].feed = call[k].feed
  BY <1>2, Committed DEF FeedsInv, TablesTypeOK
<1>4. \A f \in w : /\ f.id < nextId
                   /\ \A g \in feeds : g.id # f.id /\ g.url # f.url
                   /\ \A o \in Handlers : Creates(o) => \A g \in call[o].wrote :
                        g.id = f.id \/ g.url = f.url => g = f /\ o = h
                   /\ \A o \in Handlers : Polls(o) => call[o].feed # f.id
                   /\ \A p \in reported : p[1].feed # f.id
  BY <1>1, <1>2 DEF FeedsInv, PendingOK
<1>5. FeedsOK'
  <2>1. \A f \in feeds' : f.id < nextId'
    BY <1>2, <1>4 DEF FeedsInv, FeedsOK
  <2>2. ASSUME NEW f \in feeds', NEW g \in feeds', f.id = g.id \/ f.url = g.url
        PROVE  f = g
    <3>1. CASE f \in feeds /\ g \in feeds
      BY <2>2, <3>1 DEF FeedsInv, FeedsOK
    <3>2. CASE f \in w /\ g \in w
      BY <1>1, <1>2, <1>4, <2>2, <3>2
    <3>3. CASE (f \in w /\ g \in feeds) \/ (f \in feeds /\ g \in w)
      BY <1>4, <2>2, <3>3
    <3> QED BY <1>2, <3>1, <3>2, <3>3
  <2>3. \A i \in items' : i.feed \in FeedIds'
    BY <1>2 DEF FeedsInv, FeedsOK, FeedIds
  <2> QED BY <2>1, <2>2, <2>3 DEF FeedsOK
<1>6. PendingOK'
  <2> SUFFICES ASSUME NEW k \in Handlers, Creates(k)', NEW f \in call'[k].wrote
               PROVE  /\ f.id < nextId'
                      /\ \A g \in feeds' : g.id # f.id /\ g.url # f.url
                      /\ \A o \in Handlers : Creates(o)' => \A g \in call'[o].wrote :
                           g.id = f.id \/ g.url = f.url => g = f /\ o = k
                      /\ \A o \in Handlers : Polls(o)' => call'[o].feed # f.id
                      /\ \A p \in reported' : p[1].feed # f.id
    BY DEF PendingOK
  <2>1. Creates(k) /\ f \in call[k].wrote /\ k # h
    BY <1>3
  <2>2. \A g \in w : g.id # f.id /\ g.url # f.url
    BY <1>4, <2>1
  <2>3. /\ f.id < nextId /\ \A g \in feeds : g.id # f.id /\ g.url # f.url
        /\ \A o \in Handlers : Creates(o) => \A g \in call[o].wrote :
             g.id = f.id \/ g.url = f.url => g = f /\ o = k
        /\ \A o \in Handlers : Polls(o) => call[o].feed # f.id
        /\ \A p \in reported : p[1].feed # f.id
    BY <2>1 DEF FeedsInv, PendingOK
  <2> QED BY <1>2, <1>3, <2>2, <2>3
<1>7. PollsOK'
  BY <1>2, <1>3 DEF FeedsInv, PollsOK
<1>8. ReportedOK'
  <2>1. ASSUME NEW p \in reported, p[1].feed \in FeedIds'
        PROVE  p[1].feed \in FeedIds
    BY <1>2, <1>4, <2>1 DEF FeedIds
  <2> QED BY <1>2, <2>1 DEF FeedsInv, ReportedOK
<1>9. ReportedOnce'
  BY <1>2 DEF FeedsInv, ReportedOnce
<1> QED BY <1>3, <1>5, <1>6, <1>7, <1>8, <1>9, FrameKeeps DEF FeedsInv

LEMMA CommitRemovalInv ==
  ASSUME FeedsInv, NEW h \in Handlers, CommitRemoval(h)
  PROVE  FeedsInv'
<1>1. PICK id : id = call[h].feed
  OBVIOUS
<1>2. /\ End(h, "ok") /\ UNCHANGED <<requests, nextId, reported>>
      /\ \A f : f \in feeds' <=> f \in feeds /\ f.id # id
      /\ \A i : i \in items' <=> i \in items /\ i.feed # id
  BY <1>1 DEF CommitRemoval, ItemsWithout
<1>3. feeds' \subseteq feeds /\ items' \subseteq items
  BY <1>2
<1>4. /\ Frame(h)
      /\ \A k \in Handlers : Creates(k)' =>
           k # h /\ Creates(k) /\ call'[k].wrote = call[k].wrote
      /\ \A k \in Handlers : Polls(k)' =>
           k # h /\ Polls(k) /\ call'[k].wrote = call[k].wrote /\ call'[k].feed = call[k].feed
  BY <1>2, <1>3, Committed DEF FeedsInv, TablesTypeOK
<1>5. \A n : n \in FeedIds' <=> n \in FeedIds /\ n # id
  BY <1>2 DEF FeedIds
<1>6. FeedsOK'
  BY <1>2, <1>3, <1>5 DEF FeedsInv, FeedsOK
<1>7. PendingOK'
  <2> SUFFICES ASSUME NEW k \in Handlers, Creates(k)', NEW f \in call'[k].wrote
               PROVE  /\ f.id < nextId'
                      /\ \A g \in feeds' : g.id # f.id /\ g.url # f.url
                      /\ \A o \in Handlers : Creates(o)' => \A g \in call'[o].wrote :
                           g.id = f.id \/ g.url = f.url => g = f /\ o = k
                      /\ \A o \in Handlers : Polls(o)' => call'[o].feed # f.id
                      /\ \A p \in reported' : p[1].feed # f.id
    BY DEF PendingOK
  <2>1. Creates(k) /\ f \in call[k].wrote /\ k # h
    BY <1>4
  <2> QED BY <1>2, <1>3, <1>4, <2>1 DEF FeedsInv, PendingOK
<1>8. PollsOK'
  BY <1>3, <1>4 DEF FeedsInv, PollsOK
<1>9. ReportedOK' /\ ReportedOnce'
  BY <1>2, <1>5 DEF FeedsInv, ReportedOK, ReportedOnce
<1> QED BY <1>4, <1>6, <1>7, <1>8, <1>9, FrameKeeps DEF FeedsInv

LEMMA PollCommitInv ==
  ASSUME FeedsInv, NEW h \in Handlers, PollCommit(h)
  PROVE  FeedsInv'
<1>1. CASE call[h].feed \notin FeedIds
  <2>1. End(h, "conflict") /\ UNCHANGED <<feeds, items, requests, nextId, reported>>
    BY <1>1 DEF PollCommit
  <2> QED BY <2>1, RequestEnds DEF Hows
<1>2. CASE call[h].feed \in FeedIds
  <2>1. PICK w : w = call[h].wrote
    OBVIOUS
  <2>2. /\ w \subseteq ItemRow /\ Polls(h) /\ call[h].op = "poll" /\ call[h].no \in Nat
        /\ \A i \in w : i.feed = call[h].feed
        /\ call[h].feed \in Nat /\ call[h].feed < nextId
    BY <2>1, Kinds DEF FeedsInv, CallTypeOK, PollCommit, Polls, Calls
  <2>3. /\ End(h, "ok") /\ UNCHANGED <<feeds, requests, nextId>>
        /\ items' = items \cup w /\ reported' = reported \cup (w \X {call[h].no})
    BY <1>2, <2>1 DEF PollCommit
  <2>4. \A p \in reported' : p \in reported \/ (p[1] \in w /\ p[2] = call[h].no)
    BY <2>3
  <2>5. items' \subseteq ItemRow /\ reported' \subseteq ItemRow \X Nat /\ feeds' \subseteq FeedRow
    BY <2>2, <2>3 DEF FeedsInv, TablesTypeOK
  <2>6. /\ Frame(h)
        /\ \A k \in Handlers : Creates(k)' =>
             k # h /\ Creates(k) /\ call'[k].wrote = call[k].wrote
        /\ \A k \in Handlers : Polls(k)' =>
             k # h /\ Polls(k) /\ call'[k].wrote = call[k].wrote /\ call'[k].feed = call[k].feed
    BY <2>3, <2>5, Committed
  <2>7. FeedIds' = FeedIds
    BY <2>3 DEF FeedIds
  <2>8. FeedsOK'
    BY <1>2, <2>2, <2>3, <2>7 DEF FeedsInv, FeedsOK
  <2>9. PendingOK'
    <3> SUFFICES ASSUME NEW k \in Handlers, Creates(k)', NEW f \in call'[k].wrote
                 PROVE  /\ f.id < nextId'
                        /\ \A g \in feeds' : g.id # f.id /\ g.url # f.url
                        /\ \A o \in Handlers : Creates(o)' => \A g \in call'[o].wrote :
                             g.id = f.id \/ g.url = f.url => g = f /\ o = k
                        /\ \A o \in Handlers : Polls(o)' => call'[o].feed # f.id
                        /\ \A p \in reported' : p[1].feed # f.id
      BY DEF PendingOK
    <3>1. Creates(k) /\ f \in call[k].wrote /\ k # h
      BY <2>6
    <3>2. /\ f.id < nextId
          /\ \A g \in feeds : g.id # f.id /\ g.url # f.url
          /\ \A o \in Handlers : Creates(o) => \A g \in call[o].wrote :
               g.id = f.id \/ g.url = f.url => g = f /\ o = k
          /\ \A o \in Handlers : Polls(o) => call[o].feed # f.id
          /\ \A p \in reported : p[1].feed # f.id
      BY <3>1 DEF FeedsInv, PendingOK
    <3>3. \A p \in reported' : p[1].feed # f.id
      BY <2>2, <2>4, <3>2
    <3> QED BY <2>3, <2>6, <3>2, <3>3
  <2>10. \A i \in w : /\ i \notin items
                      /\ \A o \in Handlers : Polls(o) /\ i \in call[o].wrote => o = h
    BY <2>1, <2>2 DEF FeedsInv, PollsOK
  <2>11. PollsOK'
    BY <2>3, <2>6, <2>10 DEF FeedsInv, PollsOK
  <2>12. ReportedOK'
    BY <2>2, <2>3, <2>4, <2>7 DEF FeedsInv, ReportedOK
  <2>13. ReportedOnce'
    <3>1. ASSUME NEW p \in reported, NEW i \in w, p[1] = i
          PROVE  FALSE
      BY <1>2, <2>2, <2>10, <3>1 DEF FeedsInv, ReportedOK
    <3>2. ASSUME NEW p \in reported', NEW q \in reported', p[1] = q[1]
          PROVE  p[2] = q[2]
      <4>1. CASE p \in reported /\ q \in reported
        BY <3>2, <4>1 DEF FeedsInv, ReportedOnce
      <4>2. CASE ~(p \in reported /\ q \in reported)
        BY <2>4, <3>1, <3>2, <4>2
      <4> QED BY <4>1, <4>2
    <3> QED BY <3>2 DEF ReportedOnce
  <2> QED BY <2>6, <2>8, <2>9, <2>11, <2>12, <2>13, FrameKeeps DEF FeedsInv
<1> QED BY <1>1, <1>2

LEMMA FindFeedInv ==
  ASSUME FeedsInv, NEW h \in Handlers, FindFeed(h)
  PROVE  FeedsInv'
<1>1. CASE call[h].feed \notin FeedIds
  <2>1. End(h, "not_found") /\ UNCHANGED <<feeds, items, requests, nextId, reported>>
    BY <1>1 DEF FindFeed
  <2> QED BY <2>1, RequestEnds DEF Hows
<1>2. CASE call[h].feed \in FeedIds
  <2>1. PICK s \in Calls : s = call[h]
    BY DEF FeedsInv, TablesTypeOK
  <2>2. /\ s.pc = "find" /\ s.op \in {"delete", "poll"} /\ s.wrote = {} /\ s.no < requests
        /\ s.feed \in Nat /\ s.feed < nextId /\ s.todo \in Seq(Guids)
    BY <2>1, Kinds DEF FeedsInv, CallTypeOK, FindFeed
  <2>3. PICK pc : pc = IF s.op = "poll" THEN "seek" ELSE "remove"
    OBVIOUS
  <2>4. PICK r : r = [s EXCEPT !.pc = pc]
    OBVIOUS
  <2>5. pc \in {"seek", "remove"}
    BY <2>3
  <2>6. r \in Calls /\ r.op = s.op /\ r.pc = pc /\ r.no = s.no /\ r.feed = s.feed /\ r.todo = s.todo /\ r.wrote = s.wrote
    BY <2>4, <2>5 DEF Calls
  <2>7. /\ call' = [call EXCEPT ![h] = r] /\ UNCHANGED <<feeds, items, requests, nextId, outcomes, reported>>
    BY <1>2, <2>1, <2>3, <2>4 DEF FindFeed, FeedsInv, TablesTypeOK
  <2>8. call'[h] = r
    BY <2>6, <2>7, OneMove DEF FeedsInv
  <2>9. CallTypeOK(h)' /\ ImportOK(h)'
    <3>1. CallTypeOK(h)'
      BY <2>2, <2>3, <2>6, <2>7, <2>8, StepsOf DEF CallTypeOK
    <3>2. ImportOK(h)'
      BY <2>5, <2>6, <2>8 DEF ImportOK
    <3> QED BY <3>1, <3>2
  <2>10. Frame(h)
    <3>1. nextId' \in Nat /\ nextId' >= nextId
      BY <2>7 DEF FeedsInv, TablesTypeOK
    <3> QED BY <2>1, <2>2, <2>6, <2>7, <2>9, <3>1, CallFrame
  <2> QED BY <1>2, <2>1, <2>2, <2>6, <2>7, <2>8, <2>10, QuietMove
<1> QED BY <1>1, <1>2

LEMMA RemoveFeedInv ==
  ASSUME FeedsInv, NEW h \in Handlers, RemoveFeed(h)
  PROVE  FeedsInv'
<1>1. PICK s \in Calls : s = call[h]
  BY DEF FeedsInv, TablesTypeOK
<1>2. /\ s.pc = "remove" /\ s.op = "delete" /\ s.wrote = {} /\ s.no < requests
      /\ s.feed \in Nat /\ s.feed < nextId /\ s.todo \in Seq(Guids)
  BY <1>1, Kinds DEF FeedsInv, CallTypeOK, RemoveFeed
<1>3. PICK r : r = [s EXCEPT !.pc = "commit"]
  OBVIOUS
<1>4. r \in Calls /\ r.op = s.op /\ r.pc = "commit" /\ r.no = s.no /\ r.feed = s.feed /\ r.todo = s.todo /\ r.wrote = s.wrote
  BY <1>3 DEF Calls
<1>5. /\ call' = [call EXCEPT ![h] = r] /\ UNCHANGED <<feeds, items, requests, nextId, outcomes, reported>>
  BY <1>1, <1>3 DEF RemoveFeed, FeedsInv, TablesTypeOK
<1>6. call'[h] = r
  BY <1>4, <1>5, OneMove DEF FeedsInv
<1>7. CallTypeOK(h)'
  BY <1>2, <1>4, <1>5, <1>6, StepsOf DEF CallTypeOK
<1>8. ImportOK(h)'
  BY <1>4, <1>6 DEF ImportOK
<1>9. Frame(h)
  <2>1. nextId' \in Nat /\ nextId' >= nextId
    BY <1>5 DEF FeedsInv, TablesTypeOK
  <2> QED BY <1>1, <1>2, <1>4, <1>5, <1>7, <1>8, <2>1, CallFrame
<1> QED BY <1>1, <1>2, <1>4, <1>5, <1>6, <1>9, QuietMove DEF Polls

LEMMA PollSeekInv ==
  ASSUME FeedsInv, NEW h \in Handlers, PollSeek(h)
  PROVE  FeedsInv'
<1>1. PICK s \in Calls : s = call[h]
  BY DEF FeedsInv, TablesTypeOK
<1>2. /\ s.pc = "seek" /\ s.op = "poll" /\ s.wrote \subseteq ItemRow /\ s.no < requests
      /\ s.feed \in Nat /\ s.feed < nextId /\ s.todo \in Seq(Guids) /\ \A i \in s.wrote : i.feed = s.feed
  BY <1>1, Kinds DEF FeedsInv, CallTypeOK, PollSeek
<1>3. PICK pc \in {"seek", "update", "item"}, todo \in Seq(Guids) :
        /\ call' = [call EXCEPT ![h] = [s EXCEPT !.pc = pc, !.todo = todo]]
        /\ pc = "item" => todo # <<>>
  <2>1. CASE s.todo = <<>>
    <3>1. call' = [call EXCEPT ![h].pc = "update"]
      BY <1>1, <2>1 DEF PollSeek
    <3>2. [s EXCEPT !.pc = "update"] = [s EXCEPT !.pc = "update", !.todo = s.todo]
      BY DEF Calls
    <3>3. call' = [call EXCEPT ![h] = [s EXCEPT !.pc = "update", !.todo = s.todo]]
      BY <1>1, <3>1, <3>2
    <3> s.todo \in Seq(Guids)
      BY <1>2
    <3> WITNESS "update" \in {"seek", "update", "item"}, s.todo \in Seq(Guids)
    <3> QED BY <3>3
  <2>2. CASE s.todo # <<>> /\ [feed |-> s.feed, guid |-> Head(s.todo)] \in items \cup s.wrote
    <3>1. call' = [call EXCEPT ![h].todo = Tail(@)]
      BY <1>1, <2>2 DEF PollSeek
    <3>2. [s EXCEPT !.todo = Tail(s.todo)] = [s EXCEPT !.pc = "seek", !.todo = Tail(s.todo)]
      BY <1>2 DEF Calls
    <3>3. call' = [call EXCEPT ![h] = [s EXCEPT !.pc = "seek", !.todo = Tail(s.todo)]]
      BY <1>1, <3>1, <3>2
    <3>4. Tail(s.todo) \in Seq(Guids)
      BY <1>2, <2>2, HeadTailProperties
    <3> WITNESS "seek" \in {"seek", "update", "item"}, Tail(s.todo) \in Seq(Guids)
    <3> QED BY <3>3
  <2>3. CASE s.todo # <<>> /\ [feed |-> s.feed, guid |-> Head(s.todo)] \notin items \cup s.wrote
    <3>1. call' = [call EXCEPT ![h].pc = "item"]
      BY <1>1, <2>3 DEF PollSeek
    <3>2. [s EXCEPT !.pc = "item"] = [s EXCEPT !.pc = "item", !.todo = s.todo]
      BY DEF Calls
    <3>3. call' = [call EXCEPT ![h] = [s EXCEPT !.pc = "item", !.todo = s.todo]]
      BY <1>1, <3>1, <3>2
    <3> s.todo \in Seq(Guids)
      BY <1>2
    <3> WITNESS "item" \in {"seek", "update", "item"}, s.todo \in Seq(Guids)
    <3> QED BY <2>3, <3>3
  <2> QED BY <2>1, <2>2, <2>3
<1>4. PICK r : r = [s EXCEPT !.pc = pc, !.todo = todo]
  OBVIOUS
<1>5. r \in Calls /\ r.op = s.op /\ r.pc = pc /\ r.no = s.no /\ r.feed = s.feed /\ r.todo = todo /\ r.wrote = s.wrote
  <2>1. todo \in Seq(Urls) \cup Seq(Guids)
    BY <1>3
  <2> QED BY <1>3, <1>4, <2>1 DEF Calls
<1>6. /\ call' = [call EXCEPT ![h] = r] /\ UNCHANGED <<feeds, items, requests, nextId, outcomes, reported>>
  BY <1>3, <1>4 DEF PollSeek
<1>7. call'[h] = r
  BY <1>5, <1>6, OneMove DEF FeedsInv
<1>8. CallTypeOK(h)'
  BY <1>2, <1>3, <1>5, <1>6, <1>7, StepsOf DEF CallTypeOK
<1>9. ImportOK(h)'
  BY <1>3, <1>5, <1>7 DEF ImportOK
<1>10. Frame(h)
  <2>1. nextId' \in Nat /\ nextId' >= nextId
    BY <1>6 DEF FeedsInv, TablesTypeOK
  <2> QED BY <1>1, <1>2, <1>5, <1>6, <1>8, <1>9, <2>1, CallFrame
<1> QED BY <1>1, <1>2, <1>3, <1>5, <1>6, <1>7, <1>10, QuietMove DEF Creates, Polls

LEMMA PollInsertInv ==
  ASSUME FeedsInv, NEW h \in Handlers, PollInsert(h)
  PROVE  FeedsInv'
<1> DEFINE taken == [feed |-> call[h].feed, guid |-> Head(call[h].todo)] \in items \/ call[h].feed \notin FeedIds
<1>1. CASE taken
  <2>1. End(h, "conflict") /\ UNCHANGED <<feeds, items, requests, nextId, reported>>
    BY <1>1 DEF PollInsert, ItemTaken
  <2> QED BY <2>1, RequestEnds DEF Hows
<1>2. CASE ~taken
  <2>1. PICK s \in Calls : s = call[h]
    BY DEF FeedsInv, TablesTypeOK
  <2>2. /\ s.pc = "item" /\ s.op = "poll" /\ s.wrote \subseteq ItemRow /\ s.no < requests /\ s.todo # <<>>
        /\ s.feed \in Nat /\ s.feed < nextId /\ s.todo \in Seq(Guids) /\ \A i \in s.wrote : i.feed = s.feed
    BY <2>1, Kinds DEF FeedsInv, CallTypeOK, PollInsert
  <2>3. PICK t : t = Tail(s.todo)
    OBVIOUS
  <2>4. PICK item : item = [feed |-> s.feed, guid |-> Head(s.todo)]
    OBVIOUS
  <2>5. /\ t \in Seq(Guids) /\ item \in ItemRow /\ item.feed = s.feed
        /\ item \notin items /\ s.feed \in FeedIds
    <3>1. Head(s.todo) \in Guids /\ Tail(s.todo) \in Seq(Guids)
      BY <2>2, HeadTailProperties
    <3> QED BY <1>2, <2>1, <2>2, <2>3, <2>4, <3>1 DEF ItemRow
  <2>6. PICK w : w = s.wrote \cup {item}
    OBVIOUS
  <2>7. PICK r : r = [s EXCEPT !.pc = "seek", !.todo = t, !.wrote = w]
    OBVIOUS
  <2>8. r \in Calls /\ r.op = s.op /\ r.pc = "seek" /\ r.no = s.no /\ r.feed = s.feed /\ r.todo = t /\ r.wrote = w
    <3>1. t \in Seq(Urls) \cup Seq(Guids) /\ w \subseteq ItemRow
      BY <2>2, <2>5, <2>6
    <3>2. w \in SUBSET ItemRow
      BY <3>1
    <3>3. w \in (SUBSET FeedRow) \cup (SUBSET ItemRow)
      BY <3>2
    <3> QED BY <2>7, <3>1, <3>3 DEF Calls
  <2>9. /\ call' = [call EXCEPT ![h] = r] /\ UNCHANGED <<feeds, items, requests, nextId, outcomes, reported>>
    BY <1>2, <2>1, <2>3, <2>4, <2>6, <2>7 DEF PollInsert, ItemTaken, FeedsInv, TablesTypeOK
  <2>10. call'[h] = r /\ \A k \in Handlers \ {h} : call'[k] = call[k]
    BY <2>8, <2>9, OneMove DEF FeedsInv
  <2>11. CallTypeOK(h)'
    <3>1. w \subseteq ItemRow /\ \A i \in w : i.feed = s.feed
      BY <2>2, <2>5, <2>6
    <3> QED BY <2>2, <2>5, <2>8, <2>9, <2>10, <3>1, StepsOf DEF CallTypeOK
  <2>12. ImportOK(h)'
    BY <2>8, <2>10 DEF ImportOK
  <2>13. Frame(h)
    <3>1. nextId' \in Nat /\ nextId' >= nextId
      BY <2>9 DEF FeedsInv, TablesTypeOK
    <3> QED BY <2>1, <2>2, <2>8, <2>9, <2>11, <2>12, <3>1, CallFrame
  <2>14. ASSUME NEW o \in Handlers \ {h}, Polls(o)
         PROVE  item \notin call[o].wrote
    <3>1. o \notin ItemHolders(h, s.feed, Head(s.todo))
      BY <2>1, <2>2, WhoBlocks DEF PollInsert
    <3>2. call[o].op = "poll"
      BY <2>14, Kinds DEF FeedsInv, Polls
    <3> QED BY <2>4, <3>1, <3>2 DEF ItemHolders, Others
  <2>15. PollsOK'
    <3> SUFFICES ASSUME NEW k \in Handlers, Polls(k)', NEW i \in call'[k].wrote
                 PROVE  /\ i \notin items
                        /\ \A o \in Handlers : Polls(o)' /\ i \in call'[o].wrote => o = k
      BY <2>9 DEF PollsOK
    <3>1. /\ Polls(h)
          /\ \A o \in Handlers : Polls(o)' => Polls(o)
          /\ \A o \in Handlers : \A j \in call'[o].wrote : j \in call[o].wrote \/ (o = h /\ j = item)
      BY <2>1, <2>2, <2>6, <2>8, <2>10 DEF Polls
    <3>2. CASE i = item
      BY <2>5, <2>14, <2>10, <3>1, <3>2
    <3>3. CASE i # item
      BY <3>1, <3>3 DEF FeedsInv, PollsOK
    <3> QED BY <3>2, <3>3
  <2>16. FeedsOK' /\ ReportedOK' /\ ReportedOnce'
    BY <2>9 DEF FeedsInv, FeedsOK, ReportedOK, ReportedOnce, FeedIds
  <2>17. PendingOK'
    <3>1. \A o \in Handlers : Creates(o)' => Creates(o) /\ call'[o].wrote = call[o].wrote
      BY <2>8, <2>10 DEF Creates
    <3>2. \A o \in Handlers : Polls(o)' => Polls(o) /\ call'[o].feed = call[o].feed
      BY <2>1, <2>2, <2>8, <2>10 DEF Polls
    <3> QED BY <2>9, <3>1, <3>2 DEF FeedsInv, PendingOK
  <2> QED BY <2>13, <2>15, <2>16, <2>17, FrameKeeps DEF FeedsInv
<1> QED BY <1>1, <1>2

LEMMA StartsInv ==
  ASSUME FeedsInv, NEW h \in Handlers, AddFeed(h) \/ BulkImport(h) \/ DeleteFeed(h) \/ PollFeed(h)
  PROVE  FeedsInv'
<1>1. ASSUME NEW url \in Urls, Begin(h, "add", "insert", Null, <<url>>) PROVE FeedsInv'
  <2>1. <<url>> \in Seq(Urls) /\ Len(<<url>>) = 1 /\ "insert" \in Steps["add"]
    BY StepsOf
  <2> QED BY <1>1, <2>1, RequestBegins
<1>2. ASSUME NEW batch \in Batches, Begin(h, "bulk", "select", Null, batch) PROVE FeedsInv'
  <2>1. batch \in Seq(Urls) /\ "select" \in Steps["bulk"]
    BY FeedsAssumption, StepsOf
  <2> QED BY <1>2, <2>1, RequestBegins
<1>3. ASSUME NEW id \in 0..(nextId - 1), Begin(h, "delete", "find", id, <<>>) PROVE FeedsInv'
  <2>1. <<>> \in Seq(Guids) /\ "find" \in Steps["delete"]
    BY StepsOf
  <2> QED BY <1>3, <2>1, RequestBegins
<1>4. ASSUME NEW id \in 0..(nextId - 1), NEW c \in Contents, Begin(h, "poll", "find", id, c) PROVE FeedsInv'
  <2>1. c \in Seq(Guids) /\ "find" \in Steps["poll"]
    BY FeedsAssumption, StepsOf
  <2> QED BY <1>4, <2>1, RequestBegins
<1> QED BY <1>1, <1>2, <1>3, <1>4 DEF AddFeed, BulkImport, DeleteFeed, PollFeed

LEMMA FeedsNextInv == FeedsInv /\ [Next]_vars => FeedsInv'
<1> SUFFICES ASSUME FeedsInv, [Next]_vars PROVE FeedsInv'
  OBVIOUS
<1>1. CASE UNCHANGED vars
  <2>1. UNCHANGED <<feeds, items, call, requests, nextId, outcomes, reported>>
    BY <1>1 DEF vars
  <2>2. TablesTypeOK' /\ NumbersOK'
    BY <2>1 DEF FeedsInv, TablesTypeOK, NumbersOK
  <2>3. \A h \in Handlers : CallTypeOK(h)' /\ ImportOK(h)'
    BY <2>1 DEF FeedsInv, CallTypeOK, ImportOK
  <2>4. FeedsOK' /\ ReportedOK' /\ ReportedOnce'
    BY <2>1 DEF FeedsInv, FeedsOK, ReportedOK, ReportedOnce, FeedIds
  <2>5. PendingOK'
    BY <2>1 DEF FeedsInv, PendingOK, Creates, Polls
  <2>6. PollsOK'
    BY <2>1 DEF FeedsInv, PollsOK, Polls
  <2> QED BY <2>2, <2>3, <2>4, <2>5, <2>6 DEF FeedsInv
<1>2. ASSUME NEW h \in Handlers, AddFeed(h) \/ BulkImport(h) \/ DeleteFeed(h) \/ PollFeed(h)
      PROVE  FeedsInv'
  BY <1>2, StartsInv
<1>3. ASSUME NEW h \in Handlers, PollUnparsed(h) PROVE FeedsInv'
  <2>1. End(h, "unparsed") /\ UNCHANGED <<feeds, items, requests, nextId, reported>>
    BY <1>3 DEF PollUnparsed
  <2> QED BY <2>1, RequestEnds DEF Hows
<1>4. ASSUME NEW h \in Handlers, DeadlockAbort(h) PROVE FeedsInv'
  <2>1. End(h, "deadlock") /\ UNCHANGED <<feeds, items, requests, nextId, reported>>
    BY <1>4 DEF DeadlockAbort
  <2> QED BY <2>1, RequestEnds DEF Hows
<1>5. ASSUME NEW h \in Handlers, RequestFails(h) PROVE FeedsInv'
  <2>1. End(h, "fault") /\ UNCHANGED <<feeds, items, requests, nextId, reported>>
    BY <1>5 DEF RequestFails
  <2> QED BY <2>1, RequestEnds DEF Hows
<1>6. ASSUME NEW h \in Handlers, Work(h) PROVE FeedsInv'
  BY <1>3, <1>4, <1>6, BulkSelectInv, ParseFailsInv, InsertFeedInv, CommitFeedsInv, FindFeedInv,
     RemoveFeedInv, CommitRemovalInv, PollSeekInv, PollInsertInv, PollCommitInv DEF Work
<1> QED BY <1>1, <1>2, <1>5, <1>6 DEF Next

\* Every state of the feeds satisfies the inductive invariant.
THEOREM SpecFeedsInv == Spec => []FeedsInv
<1>1. Init => FeedsInv
  BY FeedsInitInv
<1>2. FeedsInv /\ [Next]_vars => FeedsInv'
  BY FeedsNextInv
<1> QED BY <1>1, <1>2, PTL DEF Spec

\* Types of every variable: a call takes only steps of its operation, writes only
\* rows of its table and works on a feed that once existed.
THEOREM SpecFeedsTypeOK == Spec => []TypeOK
<1>1. FeedsInv => TypeOK
  <2> SUFFICES ASSUME FeedsInv PROVE TypeOK
    OBVIOUS
  <2>1. DOMAIN Steps = {"none", "add", "bulk", "delete", "poll"}
    BY DEF Steps
  <2>2. /\ feeds \subseteq FeedRow /\ items \subseteq ItemRow
        /\ requests \in Nat /\ nextId \in Nat /\ reported \subseteq ItemRow \X Nat
    BY DEF FeedsInv, TablesTypeOK
  <2>3. outcomes \subseteq [op: DOMAIN Steps, no: Nat, how: {"ok", "unparsed", "conflict", "deadlock", "not_found", "fault"}]
    BY <2>1 DEF FeedsInv, TablesTypeOK, Hows
  <2>4. ASSUME NEW h \in Handlers
        PROVE  /\ call[h].op \in DOMAIN Steps /\ call[h].pc \in Steps[call[h].op]
               /\ call[h].op \in {"delete", "poll"} =>
                    /\ call[h].feed \in 0..(nextId - 1)
                    /\ call[h].todo \in Seq(Guids) /\ call[h].wrote \subseteq ItemRow
               /\ call[h].op \notin {"delete", "poll"} =>
                    /\ call[h].feed = Null
                    /\ call[h].todo \in Seq(Urls) /\ call[h].wrote \subseteq FeedRow
    <3>1. CallTypeOK(h) /\ call[h].op \in {"none", "add", "bulk", "delete", "poll"}
      BY DEF FeedsInv, TablesTypeOK, Calls
    <3>2. call[h].feed \in Nat /\ call[h].feed < nextId => call[h].feed \in 0..(nextId - 1)
      BY <2>2
    <3> QED BY <2>1, <3>1, <3>2 DEF CallTypeOK
  <2> QED BY <2>2, <2>3, <2>4 DEF TypeOK
<1> QED BY <1>1, SpecFeedsInv, PTL

\* A URL is followed once and no item outlives its feed, however adds, imports,
\* polls and deletions race (the constraints of feeds and feed_items).
THEOREM SpecTablesConsistent == Spec => []TablesConsistent
<1>1. FeedsInv => TablesConsistent
  BY DEF FeedsInv, FeedsOK, TablesConsistent
<1> QED BY <1>1, SpecFeedsInv, PTL

\* An item is answered as new by one poll at most (poll_feed).
THEOREM SpecReportedOnce == Spec => []ReportedOnce
<1>1. FeedsInv => ReportedOnce
  BY DEF FeedsInv
<1> QED BY <1>1, SpecFeedsInv, PTL

\* The only step that answers an import with "ok" is its COMMIT.
LEMMA ImportEnds ==
  ASSUME FeedsInv, [Next]_vars, NEW h \in Handlers, call[h].op = "bulk",
         [op |-> "bulk", how |-> "ok", no |-> call[h].no] \in outcomes' \ outcomes
  PROVE  CommitFeeds(h)
<1> DEFINE answer == [op |-> "bulk", how |-> "ok", no |-> call[h].no]
<1>1. ASSUME NEW g \in Handlers, NEW how, End(g, how)
      PROVE  how = "ok" /\ g = h
  <2>1. outcomes' = outcomes \cup {[op |-> call[g].op, how |-> how, no |-> call[g].no]}
    BY <1>1 DEF End
  <2>2. answer = [op |-> call[g].op, how |-> how, no |-> call[g].no]
    BY <2>1
  <2>3. how = "ok" /\ call[g].op = "bulk" /\ call[g].no = call[h].no
    BY <2>2
  <2>4. call[g].pc # "idle" /\ call[h].pc # "idle"
    BY <2>3, Kinds DEF FeedsInv
  <2> QED BY <2>3, <2>4 DEF FeedsInv, NumbersOK
<1>2. ~(UNCHANGED outcomes)
  OBVIOUS
<1>3. ~(UNCHANGED vars)
  BY <1>2 DEF vars
<1>4. PICK g \in Handlers :
        AddFeed(g) \/ BulkImport(g) \/ DeleteFeed(g) \/ PollFeed(g) \/ Work(g) \/ RequestFails(g)
  BY <1>3 DEF Next
<1>5. ~(AddFeed(g) \/ BulkImport(g) \/ DeleteFeed(g) \/ PollFeed(g))
  BY <1>2 DEF AddFeed, BulkImport, DeleteFeed, PollFeed, Begin
<1>6. ~RequestFails(g) /\ ~DeadlockAbort(g) /\ ~PollUnparsed(g)
  BY <1>1 DEF RequestFails, DeadlockAbort, PollUnparsed
<1>7. ~BulkSelect(g) /\ ~RemoveFeed(g) /\ ~PollSeek(g)
  BY <1>2 DEF BulkSelect, RemoveFeed, PollSeek
<1>8. ~ParseFails(g)
  BY <1>1, <1>2 DEF ParseFails
<1>9. ~InsertFeed(g)
  BY <1>1, <1>2 DEF InsertFeed, Conflict
<1>10. ~FindFeed(g) /\ ~PollInsert(g)
  BY <1>1, <1>2 DEF FindFeed, PollInsert
<1>11. ~CommitRemoval(g)
  BY <1>1, Kinds DEF CommitRemoval, FeedsInv
<1>12. ~PollCommit(g)
  BY <1>1, Kinds DEF PollCommit, FeedsInv
<1>13. CommitFeeds(g)
  BY <1>4, <1>5, <1>6, <1>7, <1>8, <1>9, <1>10, <1>11, <1>12 DEF Work
<1>14. End(g, "ok")
  BY <1>13 DEF CommitFeeds
<1>15. g = h
  BY <1>1, <1>14
<1> QED BY <1>13, <1>15

\* The answer of an import counts the feeds that became visible with it and every
\* reference of its body once (bulk_import_feeds).
THEOREM SpecImportTellsTruth == Spec => ImportTellsTruth
<1>1. ASSUME FeedsInv, [Next]_vars, NEW h \in Handlers, call[h].op = "bulk",
             [op |-> "bulk", how |-> "ok", no |-> call[h].no] \in outcomes' \ outcomes
      PROVE  /\ call[h].created = Cardinality(feeds' \ feeds)
             /\ call[h].created + call[h].skipped + call[h].failed = call[h].size
  <2>1. CommitFeeds(h)
    BY <1>1, ImportEnds
  <2>2. PICK w : w = call[h].wrote
    OBVIOUS
  <2>3. /\ call[h].pc = "insert" /\ call[h].todo = <<>> /\ feeds' = feeds \cup w
    BY <2>1, <2>2 DEF CommitFeeds
  <2>4. /\ call[h].created = Cardinality(w)
        /\ call[h].created + call[h].skipped + call[h].failed + Len(call[h].todo) = call[h].size
    BY <1>1, <2>2, <2>3 DEF FeedsInv, ImportOK
  <2>5. w \cap feeds = {}
    BY <1>1, <2>2, <2>3 DEF FeedsInv, PendingOK, Creates
  <2>6. feeds' \ feeds = w
    BY <2>3, <2>5
  <2>7. call[h].created \in Nat /\ call[h].skipped \in Nat /\ call[h].failed \in Nat
    BY <1>1 DEF FeedsInv, TablesTypeOK, Calls
  <2>8. Len(call[h].todo) = 0
    BY <2>3
  <2>9. PICK a \in Nat, b \in Nat, c \in Nat :
          a = call[h].created /\ b = call[h].skipped /\ c = call[h].failed
    BY <2>7
  <2>10. a + b + c + 0 = call[h].size
    BY <2>4, <2>8, <2>9
  <2>11. a + b + c = call[h].size
    BY <2>10
  <2> QED BY <2>4, <2>6, <2>9, <2>11
<1>2. FeedsInv /\ [Next]_vars =>
        [\A h \in Handlers :
           /\ call[h].op = "bulk"
           /\ [op |-> "bulk", how |-> "ok", no |-> call[h].no] \in outcomes' \ outcomes
           =>
             /\ call[h].created = Cardinality(feeds' \ feeds)
             /\ call[h].created + call[h].skipped + call[h].failed = call[h].size]_vars
  BY <1>1
<1> QED BY <1>2, SpecFeedsInv, PTL DEF Spec, ImportTellsTruth

=============================================================================
