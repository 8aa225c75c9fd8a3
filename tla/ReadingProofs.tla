---------------------------- MODULE ReadingProofs ----------------------------
(***************************************************************************)
(* Proofs about what a user reads.  Briefing: articles are told once and   *)
(* the ones left out are explained.  Paging: rows are lost at page         *)
(* boundaries only.  Bell: the data is one answer.  Playground: the picker *)
(* predicts a call, and the metrics agree (Cauchy and Schwarz).            *)
(* WebSession: redirects end.  SearchBox: results belong to the URL.       *)
(***************************************************************************)
EXTENDS Bell, Briefing, Paging, Playground, WebSession, SearchBox,
        SelectionProofs, FiniteSetTheorems

-----------------------------------------------------------------------------
(* What a brief is made of. *)

BriefRows == [article : Articles, at : Nat]
Sections == [articles : Seq(Articles), rank : Nat]

BriefingTypeOK ==
  /\ shelf \in Seq(BriefRows)
  /\ clock \in Nat
  /\ run # Idle => run \in [date : Nat, todo : Seq(Sections), sections : Seq(Sections),
                            known : Seq(BriefRows)]
  /\ briefs = [d \in Dates |-> briefs[d]]
  /\ \A d \in Published : briefs[d].sections \in Seq(Sections) /\ briefs[d].known \in Seq(BriefRows)

\* The shelf has an article once, and its rows are in the order of their times.
ShelfOK ==
  /\ \A i, j \in 1..Len(shelf) : shelf[i].article = shelf[j].article => i = j
  /\ \A i, j \in 1..Len(shelf) : i < j => shelf[i].at <= shelf[j].at
  /\ \A i \in 1..Len(shelf) : shelf[i].at <= clock /\ shelf[i].article \notin deleted

\* Rows that are there or that a brief was drawn from.
KnownRows ==
  Range(shelf) \cup (IF run = Idle THEN {} ELSE Range(run.known))
               \cup UNION {Range(briefs[d].known) : d \in Published}

\* An article was indexed once, and its row went with it.
RowsOK ==
  /\ \A r, q \in KnownRows : r.article = q.article => r = q
  /\ \A r \in KnownRows : r \in Range(shelf) \/ r.article \in deleted

DayOf(known, d) == {row.article : row \in {r \in Range(known) : r.at \in Window(d)}}

Explained(known, d, told) ==
  \A row \in Range(known) :
    \/ row.at \notin Window(d)
    \/ row.article \in told \cup deleted \cup Blank
    \/ Cap <= Cardinality(Newer(known, d, row))

\* What a run has told and has yet to tell.
RunOK ==
  run # Idle =>
    /\ Disjoint(Lists(run.sections)) /\ Disjoint(Lists(run.todo))
    /\ Told(run.sections) \cap Told(run.todo) = {}
    /\ Told(run.sections) \cup Told(run.todo) \subseteq DayOf(run.known, run.date)
    /\ Explained(run.known, run.date, Told(run.sections) \cup Told(run.todo))

BriefsOK ==
  \A d \in Published :
    /\ Disjoint(Lists(briefs[d].sections))
    /\ Told(briefs[d].sections) \subseteq DayOf(briefs[d].known, d)
    /\ Explained(briefs[d].known, d, Told(briefs[d].sections))

BriefingInv == BriefingTypeOK /\ ShelfOK /\ RowsOK /\ RunOK /\ BriefsOK

\* Lists of sections by their entries.
LEMMA ListsFacts ==
  ASSUME NEW s \in Seq(Sections)
  PROVE  /\ Disjoint(Lists(s)) <=>
              \A k, l \in 1..Len(s) :
                \A i \in 1..Len(s[k].articles), j \in 1..Len(s[l].articles) :
                  s[k].articles[i] = s[l].articles[j] => k = l /\ i = j
         /\ \A x : x \in Told(s) <=>
              \E k \in 1..Len(s) : \E i \in 1..Len(s[k].articles) : s[k].articles[i] = x
<1>1. PICK lists : lists = Lists(s)
  OBVIOUS
<1>2. DOMAIN lists = 1..Len(s) /\ \A k \in 1..Len(s) : lists[k] = s[k].articles
  BY <1>1 DEF Lists
<1>3. ASSUME NEW k \in 1..Len(s) PROVE s[k].articles \in Seq(Articles)
  <2>1. s[k] \in Sections
    OBVIOUS
  <2> QED
    BY <2>1 DEF Sections
<1>4. \A k \in 1..Len(s) : DOMAIN lists[k] = 1..Len(s[k].articles)
  BY <1>2, <1>3
<1>5. Disjoint(lists) <=>
        \A k, l \in 1..Len(s) :
          \A i \in 1..Len(s[k].articles), j \in 1..Len(s[l].articles) :
            s[k].articles[i] = s[l].articles[j] => k = l /\ i = j
  <2>1. Disjoint(lists) <=>
          \A k, l \in 1..Len(s) :
            \A i \in DOMAIN lists[k], j \in DOMAIN lists[l] :
              lists[k][i] = lists[l][j] => k = l /\ i = j
    BY <1>2, Zenon DEF Disjoint
  <2>2. ASSUME Disjoint(lists), NEW k \in 1..Len(s), NEW l \in 1..Len(s),
               NEW i \in 1..Len(s[k].articles), NEW j \in 1..Len(s[l].articles),
               s[k].articles[i] = s[l].articles[j]
        PROVE  k = l /\ i = j
    <3>1. i \in DOMAIN lists[k] /\ j \in DOMAIN lists[l] /\ lists[k][i] = lists[l][j]
      BY <2>2, <1>2, <1>4
    <3> QED
      BY <3>1, <2>1, <2>2
  <2>3. ASSUME \A k, l \in 1..Len(s) :
                 \A i \in 1..Len(s[k].articles), j \in 1..Len(s[l].articles) :
                   s[k].articles[i] = s[l].articles[j] => k = l /\ i = j,
               NEW k \in 1..Len(s), NEW l \in 1..Len(s),
               NEW i \in DOMAIN lists[k], NEW j \in DOMAIN lists[l], lists[k][i] = lists[l][j]
        PROVE  k = l /\ i = j
    <3>1. /\ i \in 1..Len(s[k].articles) /\ j \in 1..Len(s[l].articles)
          /\ s[k].articles[i] = s[l].articles[j]
      BY <2>3, <1>2, <1>4
    <3> QED
      BY <3>1, <2>3
  <2> QED
    BY <2>1, <2>2, <2>3
<1>6. ASSUME NEW x
      PROVE  x \in Entries(lists) <=>
               \E k \in 1..Len(s) : \E i \in 1..Len(s[k].articles) : s[k].articles[i] = x
  BY <1>2, <1>4 DEF Entries, Range
<1> QED
  BY <1>1, <1>5, <1>6 DEF Told

LEMMA RangeIs ==
  ASSUME NEW D, NEW s \in Seq(D)
  PROVE  \A x : x \in Range(s) <=> \E i \in 1..Len(s) : s[i] = x
BY DEF Range

\* The first section and the others.
LEMMA FirstSection ==
  ASSUME NEW s \in Seq(Sections), s # <<>>, Disjoint(Lists(s)), NEW c, c = Head(s)
  PROVE  /\ c \in Sections /\ Tail(s) \in Seq(Sections)
         /\ \A i, j \in 1..Len(c.articles) : c.articles[i] = c.articles[j] => i = j
         /\ Disjoint(Lists(Tail(s)))
         /\ Told(s) = Range(c.articles) \cup Told(Tail(s))
         /\ Range(c.articles) \cap Told(Tail(s)) = {}
<1>1. PICK t \in Seq(Sections) : t = Tail(s)
  BY HeadTailProperties
<1>2. /\ Len(s) \in Nat \ {0} /\ Len(t) = Len(s) - 1 /\ c = s[1] /\ 1 \in 1..Len(s)
      /\ \A k \in 1..Len(t) : t[k] = s[k + 1] /\ k + 1 \in 1..Len(s)
      /\ \A k \in 1..Len(s) : k = 1 \/ (k - 1 \in 1..Len(t) /\ s[k] = t[k - 1])
  BY <1>1
<1>3. c \in Sections /\ c.articles \in Seq(Articles)
  <2>1. c \in Sections
    BY <1>2
  <2> QED
    BY <2>1 DEF Sections
<1>4. \A k, l \in 1..Len(s) :
        \A i \in 1..Len(s[k].articles), j \in 1..Len(s[l].articles) :
          s[k].articles[i] = s[l].articles[j] => k = l /\ i = j
  BY ListsFacts
<1>5. \A k, l \in 1..Len(t) :
        \A i \in 1..Len(t[k].articles), j \in 1..Len(t[l].articles) :
          t[k].articles[i] = t[l].articles[j] => k = l /\ i = j
  BY <1>2, <1>4, SMTT(30)
<1>6. Disjoint(Lists(t))
  BY <1>5, ListsFacts
<1>7. \A x : x \in Told(s) <=>
        \E k \in 1..Len(s) : \E i \in 1..Len(s[k].articles) : s[k].articles[i] = x
  BY ListsFacts
<1>8. \A x : x \in Told(t) <=>
        \E k \in 1..Len(t) : \E i \in 1..Len(t[k].articles) : t[k].articles[i] = x
  BY ListsFacts
<1>9. \A x : x \in Range(c.articles) <=> \E i \in 1..Len(c.articles) : c.articles[i] = x
  BY <1>3, RangeIs
<1>10. ASSUME NEW x PROVE x \in Told(s) <=> x \in Range(c.articles) \/ x \in Told(t)
  <2>1. ASSUME x \in Told(s) PROVE x \in Range(c.articles) \/ x \in Told(t)
    <3>1. PICK k \in 1..Len(s) : \E i \in 1..Len(s[k].articles) : s[k].articles[i] = x
      BY <2>1, <1>7
    <3>2. CASE k = 1
      BY <3>1, <3>2, <1>2, <1>9
    <3>3. CASE k - 1 \in 1..Len(t) /\ s[k] = t[k - 1]
      BY <3>1, <3>3, <1>8
    <3> QED
      BY <3>2, <3>3, <1>2
  <2>2. ASSUME x \in Range(c.articles) PROVE x \in Told(s)
    BY <2>2, <1>2, <1>7, <1>9
  <2>3. ASSUME x \in Told(t) PROVE x \in Told(s)
    <3>1. PICK k \in 1..Len(t) : \E i \in 1..Len(t[k].articles) : t[k].articles[i] = x
      BY <2>3, <1>8
    <3>2. k + 1 \in 1..Len(s) /\ t[k] = s[k + 1]
      BY <1>2
    <3> QED
      BY <3>1, <3>2, <1>7
  <2> QED
    BY <2>1, <2>2, <2>3
<1>11. ASSUME NEW x, x \in Range(c.articles), x \in Told(t) PROVE FALSE
  <2>1. PICK i \in 1..Len(c.articles) : c.articles[i] = x
    BY <1>9, <1>11
  <2>2. PICK k \in 1..Len(t) : \E j \in 1..Len(t[k].articles) : t[k].articles[j] = x
    BY <1>8, <1>11
  <2>3. PICK j \in 1..Len(t[k].articles) : t[k].articles[j] = x
    BY <2>2
  <2>4. k + 1 \in 1..Len(s) /\ t[k] = s[k + 1] /\ k + 1 # 1
    BY <1>2
  <2> QED
    BY <2>1, <2>3, <2>4, <1>2, <1>4
<1>12. \A i, j \in 1..Len(c.articles) : c.articles[i] = c.articles[j] => i = j
  BY <1>2, <1>4
<1> QED
  BY <1>1, <1>3, <1>6, <1>10, <1>11, <1>12

\* One section more.
LEMMA LastSection ==
  ASSUME NEW s \in Seq(Sections), NEW c \in Sections, Disjoint(Lists(s)),
         \A i, j \in 1..Len(c.articles) : c.articles[i] = c.articles[j] => i = j,
         Range(c.articles) \cap Told(s) = {}
  PROVE  /\ Append(s, c) \in Seq(Sections)
         /\ Disjoint(Lists(Append(s, c)))
         /\ Told(Append(s, c)) = Told(s) \cup Range(c.articles)
<1>1. PICK t \in Seq(Sections) : t = Append(s, c)
  BY AppendProperties
<1>2. PICK n \in Nat : n = Len(s)
  OBVIOUS
<1>3. /\ Len(t) = n + 1 /\ t[n + 1] = c
      /\ \A k \in 1..n : t[k] = s[k]
  BY <1>1, <1>2, AppendProperties
<1>4. c.articles \in Seq(Articles)
  BY DEF Sections
<1>5. \A k, l \in 1..n :
        \A i \in 1..Len(s[k].articles), j \in 1..Len(s[l].articles) :
          s[k].articles[i] = s[l].articles[j] => k = l /\ i = j
  BY <1>2, ListsFacts
<1>6. \A x : x \in Told(s) <=>
        \E k \in 1..n : \E i \in 1..Len(s[k].articles) : s[k].articles[i] = x
  BY <1>2, ListsFacts
<1>7. \A x : x \in Told(t) <=>
        \E k \in 1..(n + 1) : \E i \in 1..Len(t[k].articles) : t[k].articles[i] = x
  <2>1. \A x : x \in Told(t) <=>
          \E k \in 1..Len(t) : \E i \in 1..Len(t[k].articles) : t[k].articles[i] = x
    BY ListsFacts
  <2> QED
    BY <2>1, <1>3
<1>8. \A x : x \in Range(c.articles) <=> \E i \in 1..Len(c.articles) : c.articles[i] = x
  BY <1>4, RangeIs
<1>9. ASSUME NEW k \in 1..(n + 1), NEW l \in 1..(n + 1),
             NEW i \in 1..Len(t[k].articles), NEW j \in 1..Len(t[l].articles),
             t[k].articles[i] = t[l].articles[j]
      PROVE  k = l /\ i = j
  <2>1. (k \in 1..n \/ k = n + 1) /\ (l \in 1..n \/ l = n + 1)
    OBVIOUS
  <2>2. CASE k \in 1..n /\ l \in 1..n
    BY <2>2, <1>3, <1>5, <1>9, SMTT(30)
  <2>3. CASE k = n + 1 /\ l = n + 1
    BY <2>3, <1>3, <1>9
  <2>4. CASE k = n + 1 /\ l \in 1..n
    <3>1. t[k] = c /\ t[l] = s[l]
      BY <2>4, <1>3
    <3>2. t[k].articles[i] \in Range(c.articles)
      BY <3>1, <1>8
    <3>3. t[l].articles[j] \in Told(s)
      BY <3>1, <2>4, <1>6
    <3> QED
      BY <3>2, <3>3, <1>9
  <2>5. CASE k \in 1..n /\ l = n + 1
    <3>1. t[k] = s[k] /\ t[l] = c
      BY <2>5, <1>3
    <3>2. t[k].articles[i] \in Told(s)
      BY <3>1, <2>5, <1>6
    <3>3. t[l].articles[j] \in Range(c.articles)
      BY <3>1, <1>8
    <3> QED
      BY <3>2, <3>3, <1>9
  <2> QED
    BY <2>1, <2>2, <2>3, <2>4, <2>5
<1>10. Disjoint(Lists(t))
  <2>1. \A k, l \in 1..Len(t) :
          \A i \in 1..Len(t[k].articles), j \in 1..Len(t[l].articles) :
            t[k].articles[i] = t[l].articles[j] => k = l /\ i = j
    BY <1>3, <1>9
  <2> QED
    BY <2>1, ListsFacts
<1>11. ASSUME NEW x PROVE x \in Told(t) <=> x \in Told(s) \/ x \in Range(c.articles)
  <2>1. ASSUME x \in Told(t) PROVE x \in Told(s) \/ x \in Range(c.articles)
    <3>1. PICK k \in 1..(n + 1) : \E i \in 1..Len(t[k].articles) : t[k].articles[i] = x
      BY <2>1, <1>7
    <3>2. CASE k = n + 1
      BY <3>1, <3>2, <1>3, <1>8
    <3>3. CASE k \in 1..n
      BY <3>1, <3>3, <1>3, <1>6
    <3> QED
      BY <3>2, <3>3
  <2>2. ASSUME x \in Told(s) PROVE x \in Told(t)
    <3>1. PICK k \in 1..n : \E i \in 1..Len(s[k].articles) : s[k].articles[i] = x
      BY <2>2, <1>6
    <3>2. k \in 1..(n + 1) /\ t[k] = s[k]
      BY <1>3
    <3> QED
      BY <3>1, <3>2, <1>7
  <2>3. ASSUME x \in Range(c.articles) PROVE x \in Told(t)
    <3>1. n + 1 \in 1..(n + 1)
      OBVIOUS
    <3> QED
      BY <3>1, <2>3, <1>3, <1>7, <1>8
  <2> QED
    BY <2>1, <2>2, <2>3
<1> QED
  BY <1>1, <1>10, <1>11

\* No section.
LEMMA NoSection == <<>> \in Seq(Sections) /\ Disjoint(Lists(<<>>)) /\ Told(<<>>) = {}
<1>1. PICK s \in Seq(Sections) : s = <<>>
  BY EmptySeq
<1>2. \A k \in 1..Len(s) : FALSE
  BY <1>1
<1>3. Disjoint(Lists(s)) /\ \A x : x \notin Told(s)
  BY <1>2, ListsFacts
<1> QED
  BY <1>1, <1>3

\* Whatever the model answers, the clusters hold every article that was drawn
\* and hold it once.
LEMMA ClustersHoldAll ==
  ASSUME NEW ids \in Seq(Articles), \A i, j \in 1..Len(ids) : ids[i] = ids[j] => i = j,
         NEW clusters \in Clusters(ids)
  PROVE  /\ clusters \in Seq(Sections)
         /\ Disjoint(Lists(clusters))
         /\ Told(clusters) = Range(ids)
<1> DEFINE OK(c) == c \in Seq(Sections) /\ Disjoint(Lists(c)) /\ Told(c) = Range(ids)
<1>1. PICK n \in Nat : n = Len(ids)
  OBVIOUS
<1>2. \A x : x \in Range(ids) <=> \E i \in 1..n : ids[i] = x
  BY <1>1, RangeIs
<1>3. ASSUME ids = <<>> PROVE OK(<<>>)
  <2>1. Range(ids) = {}
    BY <1>1, <1>2, <1>3
  <2> QED
    BY <2>1, NoSection
<1>4. OK(OneCluster(ids))
  <2>1. PICK c \in Sections : c = [articles |-> ids, rank |-> 1]
    BY DEF Sections
  <2>2. c.articles = ids
    BY <2>1
  <2>3. PICK s \in Seq(Sections) : s = <<c>>
    <3>1. c \in Sections
      BY <2>1
    <3>2. Append(<<>>, c) \in Seq(Sections) /\ Append(<<>>, c) = <<c>>
      BY ONLY <3>1, AppendProperties, EmptySeq
    <3> QED
      BY <3>2
  <2>4. Len(s) = 1 /\ s[1] = c
    BY <2>3
  <2>5. Disjoint(Lists(s))
    <3>1. \A k, l \in 1..Len(s) :
            \A i \in 1..Len(s[k].articles), j \in 1..Len(s[l].articles) :
              s[k].articles[i] = s[l].articles[j] => k = l /\ i = j
      BY <2>2, <2>4
    <3> QED
      BY <3>1, ListsFacts
  <2>6. Told(s) = Range(ids)
    <3>1. \A x : x \in Told(s) <=>
            \E k \in 1..Len(s) : \E i \in 1..Len(s[k].articles) : s[k].articles[i] = x
      BY ListsFacts
    <3> QED
      <4>1. \A x : x \in Told(s) <=> \E i \in 1..n : ids[i] = x
        BY <3>1, <2>2, <2>4, <1>1
      <4> QED
        BY <4>1, <1>2
  <2> QED
    BY <2>1, <2>3, <2>5, <2>6 DEF OneCluster
<1>5. ASSUME NEW reply \in Answers(n), reply # Null, Accepted(reply, n)
      PROVE  OK(Bound(reply, ids))
  <2>1. PICK m \in 0..MaxClusters :
          reply \in [1..m -> [topic : {"topic", Unsafe}, indices : BoundedSeq(0..n, MaxIndices)]]
    BY <1>5 DEF Answers, BoundedSeq, SeqOf
  <2>2. m \in Nat /\ DOMAIN reply = 1..m
    BY <2>1, BriefingAssumption
  <2>3. ASSUME NEW k \in 1..m
        PROVE  \E p \in Nat : reply[k].indices \in [1..p -> 0..n]
    <3>1. reply[k].indices \in BoundedSeq(0..n, MaxIndices)
      BY <2>1
    <3>2. PICK p \in 0..MaxIndices : reply[k].indices \in [1..p -> 0..n]
      BY <3>1 DEF BoundedSeq, SeqOf
    <3>3. p \in Nat
      BY BriefingAssumption
    <3> QED
      BY <3>2, <3>3
  <2>4. PICK at : at = PositionsOf(reply)
    OBVIOUS
  <2>5. DOMAIN at = 1..m /\ \A k \in 1..m : at[k] = reply[k].indices
    BY <2>2, <2>4 DEF PositionsOf
  <2>6. \A k \in 1..m : at[k] = [i \in DOMAIN at[k] |-> at[k][i]] /\ \E p \in Nat : DOMAIN at[k] = 1..p
    BY <2>3, <2>5
  <2>7. Disjoint(at) /\ Entries(at) = 0..(n - 1)
    BY <1>5, <2>4 DEF Accepted
  <2>8. ASSUME NEW k \in 1..m, NEW i \in DOMAIN at[k]
        PROVE  at[k][i] \in 0..(n - 1) /\ at[k][i] + 1 \in 1..n
    <3>1. at[k][i] \in Entries(at)
      BY <2>5 DEF Entries, Range
    <3> QED
      BY <3>1, <2>7
  <2>9. PICK s : s = Bound(reply, ids)
    OBVIOUS
  <2>10. s = [k \in 1..m |-> [articles |-> [i \in DOMAIN at[k] |-> ids[at[k][i] + 1]], rank |-> k]]
    BY <2>2, <2>5, <2>9 DEF Bound
  <2>11. ASSUME NEW k \in 1..m
         PROVE  /\ s[k] \in Sections
                /\ s[k].articles = [i \in DOMAIN at[k] |-> ids[at[k][i] + 1]]
                /\ DOMAIN at[k] = 1..Len(s[k].articles)
    <3>1. PICK p \in Nat : DOMAIN at[k] = 1..p
      BY <2>6
    <3>2. PICK articles : articles = [i \in DOMAIN at[k] |-> ids[at[k][i] + 1]]
      OBVIOUS
    <3>3. articles \in [1..p -> Articles]
      BY <3>1, <3>2, <2>8, <1>1
    <3>4. articles \in Seq(Articles) /\ Len(articles) = p
      BY <3>3
    <3>5. s[k] = [articles |-> articles, rank |-> k] /\ k \in Nat
      BY <2>10, <3>2
    <3>6. s[k] \in Sections /\ s[k].articles = articles
      BY <3>4, <3>5 DEF Sections
    <3> QED
      BY <3>1, <3>2, <3>4, <3>6
  <2>12. ASSUME NEW k \in 1..m, NEW i \in DOMAIN at[k]
         PROVE  s[k].articles[i] = ids[at[k][i] + 1]
    <3>1. PICK articles : articles = s[k].articles
      OBVIOUS
    <3>2. articles = [j \in DOMAIN at[k] |-> ids[at[k][j] + 1]]
      BY <3>1, <2>11
    <3>3. articles[i] = ids[at[k][i] + 1]
      BY ONLY <3>2, i \in DOMAIN at[k]
    <3> QED
      BY <3>1, <3>3
  <2>13. s \in Seq(Sections) /\ Len(s) = m
    <3>1. s \in [1..m -> Sections]
      BY <2>10, <2>11
    <3> QED
      BY <3>1, <2>2
  <2>14. Disjoint(Lists(s))
    <3>1. ASSUME NEW k \in 1..m, NEW l \in 1..m,
                 NEW i \in 1..Len(s[k].articles), NEW j \in 1..Len(s[l].articles),
                 s[k].articles[i] = s[l].articles[j]
          PROVE  k = l /\ i = j
      <4>1. i \in DOMAIN at[k] /\ j \in DOMAIN at[l]
        BY <2>11
      <4>2. s[k].articles[i] = ids[at[k][i] + 1] /\ s[l].articles[j] = ids[at[l][j] + 1]
        BY <4>1, <2>12
      <4>3. at[k][i] \in 0..(n - 1) /\ at[l][j] \in 0..(n - 1)
        BY <4>1, <2>8
      <4>4. at[k][i] + 1 = at[l][j] + 1
        <5>1. at[k][i] + 1 \in 1..Len(ids) /\ at[l][j] + 1 \in 1..Len(ids)
          BY <4>1, <2>8, <1>1
        <5> QED
          BY <5>1, <4>2, <3>1
      <4>5. at[k][i] = at[l][j]
        <5>1. PICK a, b \in 0..(n - 1) : a = at[k][i] /\ b = at[l][j]
          BY <4>3
        <5>2. a + 1 = b + 1
          BY ONLY <4>4, <5>1
        <5>3. a \in Int /\ b \in Int
          OBVIOUS
        <5>4. a = b
          BY ONLY <5>2, <5>3
        <5> QED
          BY ONLY <5>1, <5>4
      <4> QED
        BY <4>1, <4>5, <2>5, <2>7 DEF Disjoint
    <3> QED
      BY <3>1, <2>13, ListsFacts
  <2>15. ASSUME NEW x PROVE x \in Told(s) <=> x \in Range(ids)
    <3>1. x \in Told(s) <=> \E k \in 1..m : \E i \in 1..Len(s[k].articles) : s[k].articles[i] = x
      BY <2>13, ListsFacts
    <3>2. ASSUME x \in Told(s) PROVE x \in Range(ids)
      <4>1. PICK k \in 1..m : \E i \in DOMAIN at[k] : s[k].articles[i] = x
        BY <3>1, <3>2, <2>11
      <4>2. PICK i \in DOMAIN at[k] : s[k].articles[i] = x
        BY <4>1
      <4>3. x = ids[at[k][i] + 1]
        BY <4>2, <2>12
      <4> QED
        BY <4>3, <2>8, <1>2
    <3>3. ASSUME x \in Range(ids) PROVE x \in Told(s)
      <4>1. PICK q \in 1..n : ids[q] = x
        BY <3>3, <1>2
      <4>2. q - 1 \in Entries(at)
        BY <2>7
      <4>3. PICK k \in 1..m : q - 1 \in Range(at[k])
        BY <4>2, <2>5 DEF Entries
      <4>4. PICK i \in DOMAIN at[k] : at[k][i] = q - 1
        BY <4>3 DEF Range
      <4>5. s[k].articles[i] = x
        <5>1. s[k].articles[i] = ids[at[k][i] + 1]
          BY <2>12
        <5>2. (q - 1) + 1 = q
          OBVIOUS
        <5> QED
          BY <5>1, <5>2, <4>1, <4>4
      <4> QED
        BY <4>5, <3>1, <2>11
    <3> QED
      BY <3>2, <3>3
  <2> QED
    BY <2>9, <2>13, <2>14, <2>15
<1> HIDE DEF OK
<1>6. OK(clusters)
  BY <1>1, <1>3, <1>4, <1>5 DEF Clusters
<1> QED
  BY <1>6 DEF OK

\* What is drawn: articles of the day, each once, and the others of that day
\* came before Cap of its articles.
LEMMA DrawnIsExplained ==
  ASSUME shelf \in Seq(BriefRows), ShelfOK, NEW d, NEW ids, ids = IdsOf(Newest(Fetched(d)))
  PROVE  /\ ids \in Seq(Articles)
         /\ \A i, j \in 1..Len(ids) : ids[i] = ids[j] => i = j
         /\ Range(ids) \subseteq DayOf(shelf, d)
         /\ Explained(shelf, d, Range(ids))
<1>1. PICK S : S = {row \in Range(shelf) : row.at \in Window(d)}
  OBVIOUS
<1>2. PICK f \in Seq(BriefRows) : f = Fetched(d)
  BY <1>1, KeptPositions DEF Fetched
<1>3. PICK at \in [1..Len(f) -> 1..Len(shelf)] : Picks(shelf, S, Len(shelf), f, at)
  <2>1. f = Kept(shelf, S)
    BY <1>1, <1>2 DEF Fetched
  <2>2. \E at \in [1..Len(Kept(shelf, S)) -> 1..Len(shelf)] :
          Picks(shelf, S, Len(shelf), Kept(shelf, S), at)
    BY KeptPositions
  <2> QED
    BY <2>1, <2>2
<1>4. /\ \A j, k \in 1..Len(f) : j < k => at[j] < at[k]
      /\ \A k \in 1..Len(f) : f[k] = shelf[at[k]] /\ shelf[at[k]] \in S
      /\ \A i \in 1..Len(shelf) : shelf[i] \in S => \E k \in 1..Len(f) : at[k] = i
  BY <1>3 DEF Picks
<1>5. Cap \in Nat \ {0} /\ Len(f) \in Nat /\ Len(shelf) \in Nat
  BY BriefingAssumption
<1>6. PICK off \in 0..Len(f) : /\ Len(f) > Cap => off = Len(f) - Cap
                               /\ ~(Len(f) > Cap) => off = 0
  <2>1. CASE Len(f) > Cap
    <3>1. Len(f) - Cap \in 0..Len(f)
      BY <2>1, <1>5
    <3> QED
      BY <3>1, <2>1
  <2>2. CASE ~(Len(f) > Cap)
    BY <2>2, <1>5
  <2> QED
    BY <2>1, <2>2
<1>7. PICK new : new = Newest(f)
  OBVIOUS
<1>8. /\ new \in Seq(BriefRows) /\ Len(new) = Len(f) - off
      /\ \A i \in 1..Len(new) : off + i \in 1..Len(f) /\ new[i] = f[off + i]
  <2>1. CASE Len(f) > Cap
    <3>1. new = SubSeq(f, off + 1, Len(f))
      BY <2>1, <1>5, <1>6, <1>7 DEF Newest
    <3>2. off + 1 \in 1..(Len(f) + 1) /\ Len(f) \in off..Len(f) /\ off \in Nat
      BY <2>1, <1>5, <1>6
    <3>3. new \in Seq(BriefRows) /\ Len(new) = Len(f) - off
      BY <3>1, <3>2
    <3>4. ASSUME NEW i \in 1..Len(new) PROVE off + i \in 1..Len(f) /\ new[i] = f[off + i]
      BY <3>1, <3>2, <3>3
    <3> QED
      BY <3>3, <3>4
  <2>2. CASE ~(Len(f) > Cap)
    <3>1. new = f /\ off = 0
      BY <2>2, <1>6, <1>7 DEF Newest
    <3> QED
      BY <3>1, <1>5
  <2> QED
    BY <2>1, <2>2
<1>9. /\ ids \in Seq(Articles) /\ Len(ids) = Len(f) - off
      /\ \A i \in 1..Len(ids) : ids[i] = f[off + i].article /\ off + i \in 1..Len(f)
  <2>1. ids = [i \in 1..Len(new) |-> new[i].article]
    BY <1>2, <1>7, <1>8 DEF IdsOf
  <2>2. \A i \in 1..Len(new) : new[i].article \in Articles
    <3> TAKE i \in 1..Len(new)
    <3>1. new[i] \in BriefRows
      BY <1>8
    <3> QED
      BY <3>1 DEF BriefRows
  <2>3. Len(new) \in Nat /\ ids \in [1..Len(new) -> Articles]
    BY <2>1, <2>2, <1>8
  <2>4. ids \in Seq(Articles) /\ Len(ids) = Len(new)
    BY <2>3
  <2>5. \A i \in 1..Len(new) : ids[i] = new[i].article
    BY ONLY <2>1
  <2> QED
    BY <2>4, <2>5, <1>8
<1>10. \A x : x \in Range(ids) <=> \E i \in 1..Len(ids) : ids[i] = x
  BY <1>9, RangeIs
<1>11. ASSUME NEW j \in 1..Len(f), NEW k \in 1..Len(f), f[j].article = f[k].article PROVE j = k
  <2>1. shelf[at[j]].article = shelf[at[k]].article /\ at[j] \in 1..Len(shelf) /\ at[k] \in 1..Len(shelf)
    BY <1>4, <1>11
  <2>2. at[j] = at[k]
    BY <2>1 DEF ShelfOK
  <2> QED
    BY <2>1, <2>2, <1>4
<1>12. ASSUME NEW i \in 1..Len(ids), NEW j \in 1..Len(ids), ids[i] = ids[j] PROVE i = j
  <2>1. off + i = off + j
    BY <1>9, <1>11, <1>12
  <2> QED
    BY <2>1, <1>6, <1>9
<1>13. ASSUME NEW x \in Range(ids) PROVE x \in DayOf(shelf, d)
  <2>1. PICK i \in 1..Len(ids) : ids[i] = x
    BY <1>10
  <2>2. f[off + i] \in S /\ x = f[off + i].article
    BY <2>1, <1>4, <1>9
  <2> QED
    BY <2>2, <1>1 DEF DayOf
<1>14. ASSUME NEW row \in Range(shelf), row.at \in Window(d), row.article \notin Range(ids)
       PROVE  Cap <= Cardinality(Newer(shelf, d, row))
  <2>1. PICK q \in 1..Len(shelf) : shelf[q] = row
    BY RangeIs
  <2>2. PICK k \in 1..Len(f) : at[k] = q
    BY <2>1, <1>1, <1>4, <1>14
  <2>3. f[k] = row
    BY <2>1, <2>2, <1>4
  <2>4. ~(k > off)
    <3>1. SUFFICES ASSUME k > off PROVE FALSE
      OBVIOUS
    <3>2. k - off \in 1..Len(ids) /\ off + (k - off) = k
      BY <3>1, <1>6, <1>9
    <3>3. ids[k - off] = row.article
      BY <3>2, <2>3, <1>9
    <3> QED
      BY <3>2, <3>3, <1>10, <1>14
  <2>5. off = Len(f) - Cap /\ k <= off
    BY <2>4, <1>5, <1>6
  <2>6. PICK g : g = [m \in 1..Cap |-> at[off + m]]
    OBVIOUS
  <2>7. ASSUME NEW m \in 1..Cap PROVE off + m \in 1..Len(f) /\ g[m] = at[off + m] /\ k < off + m
    BY <2>5, <2>6, <1>5, <1>6
  <2>8. ASSUME NEW m \in 1..Cap PROVE g[m] \in Newer(shelf, d, row)
    <3>1. at[off + m] \in 1..Len(shelf) /\ shelf[at[off + m]] \in S
      BY <2>7, <1>4
    <3>2. at[k] < at[off + m] /\ at[k] \in 1..Len(shelf)
      BY <2>7, <1>4
    <3>3. at[k] \in 1..(at[off + m] - 1) /\ shelf[at[k]] = row
      BY <3>1, <3>2, <2>1, <2>2
    <3>4. at[off + m] \in DOMAIN shelf
      BY <3>1
    <3>5. shelf[at[off + m]].at \in Window(d)
      BY <3>1, <1>1
    <3> QED
      BY <3>3, <3>4, <3>5, <2>7 DEF Newer
  <2>9. ASSUME NEW m \in 1..Cap, NEW l \in 1..Cap, g[m] = g[l] PROVE m = l
    <3>1. at[off + m] = at[off + l] /\ at[off + m] \in Int
      BY <2>7, <2>9
    <3>2. ~(off + m < off + l) /\ ~(off + l < off + m)
      BY <3>1, <2>7, <1>4
    <3> QED
      BY <3>2, <1>5, <1>6
  <2>10. g \in Injection(1..Cap, Newer(shelf, d, row))
    <3>1. g \in [1..Cap -> Newer(shelf, d, row)]
      BY <2>6, <2>8
    <3>2. IsInjective(g)
      BY <3>1, <2>9 DEF IsInjective
    <3> QED
      BY <3>1, <3>2 DEF Injection
  <2>11. IsFiniteSet(1..Cap) /\ Cardinality(1..Cap) = Cap /\ IsFiniteSet(1..Len(shelf))
    <3>1. 1 \in Int /\ Cap \in Int /\ Len(shelf) \in Int
      BY <1>5
    <3>2. IsFiniteSet(1..Cap) /\ Cardinality(1..Cap) = IF 1 > Cap THEN 0 ELSE Cap - 1 + 1
      BY ONLY <3>1, FS_Interval
    <3>3. IsFiniteSet(1..Len(shelf))
      BY ONLY <3>1, FS_Interval
    <3> QED
      BY <3>2, <3>3, <1>5
  <2>12. Newer(shelf, d, row) \in SUBSET (1..Len(shelf))
    BY DEF Newer
  <2>13. IsFiniteSet(Newer(shelf, d, row))
    BY ONLY <2>11, <2>12, FS_Subset
  <2>14. Cardinality(1..Cap) <= Cardinality(Newer(shelf, d, row))
    BY ONLY <2>10, <2>13, FS_Injection
  <2> QED
    BY <2>11, <2>14
<1>15. Explained(shelf, d, Range(ids))
  BY <1>14 DEF Explained
<1> QED
  BY <1>9, <1>12, <1>13, <1>15

LEMMA KeptRange ==
  ASSUME NEW D, NEW s \in Seq(D), NEW S
  PROVE  Range(Kept(s, S)) = Range(s) \cap S
<1>1. PICK r \in Seq(D) : r = Kept(s, S)
  BY KeptPositions
<1>2. PICK at \in [1..Len(r) -> 1..Len(s)] : Picks(s, S, Len(s), r, at)
  <2>1. \E at \in [1..Len(Kept(s, S)) -> 1..Len(s)] : Picks(s, S, Len(s), Kept(s, S), at)
    BY KeptPositions
  <2> QED
    BY <2>1, <1>1
<1>3. \A x : x \in Range(r) <=> \E i \in 1..Len(r) : r[i] = x
  BY RangeIs
<1>4. \A x : x \in Range(s) <=> \E i \in 1..Len(s) : s[i] = x
  BY RangeIs
<1>5. ASSUME NEW x \in Range(r) PROVE x \in Range(s) /\ x \in S
  BY <1>2, <1>3, <1>4 DEF Picks
<1>6. ASSUME NEW x \in Range(s), x \in S PROVE x \in Range(r)
  <2>1. PICK i \in 1..Len(s) : s[i] = x
    BY <1>4
  <2>2. PICK k \in 1..Len(r) : at[k] = i
    BY <2>1, <1>2, <1>6 DEF Picks
  <2>3. r[k] = x
    BY <2>1, <2>2, <1>2 DEF Picks
  <2> QED
    BY <2>3, <1>3
<1> QED
  BY <1>1, <1>5, <1>6

LEMMA BriefingInitInv == BriefingInit => BriefingInv
<1> SUFFICES ASSUME BriefingInit PROVE BriefingInv
  OBVIOUS
<1>1. shelf \in Seq(BriefRows) /\ Len(shelf) = 0 /\ Range(shelf) = {} /\ clock = 0
  BY EmptySeq DEF BriefingInit, Range
<1>2. run = Idle /\ Published = {} /\ briefs = [d \in Dates |-> briefs[d]]
  BY DEF BriefingInit, Published
<1>3. KnownRows = {}
  BY <1>1, <1>2 DEF KnownRows
<1> QED
  BY <1>1, <1>2, <1>3 DEF BriefingInv, BriefingTypeOK, ShelfOK, RowsOK, RunOK, BriefsOK

\* What was told and drawn stays explained while articles go.
LEMMA RunsStay ==
  ASSUME RunOK, BriefsOK, UNCHANGED <<run, briefs>>, deleted \subseteq deleted'
  PROVE  RunOK' /\ BriefsOK'
<1>1. Published' = Published
  BY DEF Published, Dates
<1>2. ASSUME NEW known, NEW d, NEW told, Explained(known, d, told)
      PROVE  Explained(known, d, told)'
  BY <1>2 DEF Explained
<1>3. RunOK'
  BY <1>2 DEF RunOK
<1>4. BriefsOK'
  BY <1>1, <1>2 DEF BriefsOK
<1> QED
  BY <1>3, <1>4

\* What a row that is put between others leaves of them.
LEMMA InsertAtProperties ==
  ASSUME NEW s \in Seq(BriefRows), NEW e \in BriefRows, NEW p \in 1..(Len(s) + 1)
  PROVE  /\ InsertAt(s, p, e) \in Seq(BriefRows)
         /\ Len(InsertAt(s, p, e)) = Len(s) + 1
         /\ InsertAt(s, p, e)[p] = e
         /\ \A i \in 1..Len(s) : i < p => InsertAt(s, p, e)[i] = s[i]
         /\ \A i \in 1..Len(s) : p <= i => InsertAt(s, p, e)[i + 1] = s[i]
<1> PICK n \in Nat : n = Len(s)
  OBVIOUS
<1>1. (\A i \in 1..n : s[i] \in BriefRows) /\ n \in Int /\ p \in Int /\ p - 1 \in Int /\ 1 \in Int
  OBVIOUS
<1>2. PICK u \in Seq(BriefRows) :
        /\ u = SubSeq(s, 1, p - 1) /\ Len(u) = p - 1
        /\ \A i \in 1..(p - 1) : u[i] = s[i]
  <2>1. \A i \in 1..(p - 1) : s[i] \in BriefRows
    BY <1>1
  <2>2. /\ SubSeq(s, 1, p - 1) \in Seq(BriefRows)
        /\ Len(SubSeq(s, 1, p - 1)) = IF 1 <= p - 1 THEN p - 1 - 1 + 1 ELSE 0
        /\ \A i \in 1..(p - 1 - 1 + 1) : SubSeq(s, 1, p - 1)[i] = s[1 + i - 1]
    BY ONLY <1>1, <2>1, SubSeqProperties
  <2>3. /\ Len(SubSeq(s, 1, p - 1)) = p - 1
        /\ \A i \in 1..(p - 1) : SubSeq(s, 1, p - 1)[i] = s[i]
    BY <2>2
  <2> QED
    BY <2>2, <2>3
<1>3. PICK v \in Seq(BriefRows) :
        /\ v = SubSeq(s, p, n) /\ Len(v) = n - p + 1
        /\ \A i \in 1..(n - p + 1) : v[i] = s[p + i - 1]
  <2>1. \A i \in p..n : s[i] \in BriefRows
    BY <1>1
  <2>2. /\ SubSeq(s, p, n) \in Seq(BriefRows)
        /\ Len(SubSeq(s, p, n)) = IF p <= n THEN n - p + 1 ELSE 0
        /\ \A i \in 1..(n - p + 1) : SubSeq(s, p, n)[i] = s[p + i - 1]
    BY ONLY <1>1, <2>1, SubSeqProperties
  <2>3. Len(SubSeq(s, p, n)) = n - p + 1
    BY <2>2
  <2> QED
    BY <2>2, <2>3
<1>4. PICK w \in Seq(BriefRows) :
        /\ w = u \o <<e>> /\ Len(w) = p /\ w[p] = e
        /\ \A i \in 1..(p - 1) : w[i] = u[i]
  <2>1. <<e>> \in Seq(BriefRows) /\ Len(<<e>>) = 1 /\ <<e>>[1] = e
    OBVIOUS
  <2>2. /\ u \o <<e>> \in Seq(BriefRows)
        /\ Len(u \o <<e>>) = Len(u) + Len(<<e>>)
        /\ \A i \in 1..(Len(u) + Len(<<e>>)) : (u \o <<e>>)[i] =
             IF i <= Len(u) THEN u[i] ELSE <<e>>[i - Len(u)]
    BY ONLY <2>1, ConcatProperties, u \in Seq(BriefRows)
  <2>3. Len(u) = p - 1
    BY <1>2
  <2>4. PICK w \in Seq(BriefRows) : w = u \o <<e>>
    BY <2>2
  <2>5. Len(w) = p /\ \A i \in 1..p : w[i] = IF i <= p - 1 THEN u[i] ELSE <<e>>[i - (p - 1)]
    BY <2>1, <2>2, <2>3, <2>4
  <2>6. w[p] = e /\ \A i \in 1..(p - 1) : w[i] = u[i]
    BY <2>1, <2>5
  <2> QED
    BY <2>4, <2>5, <2>6
<1>5. PICK new \in Seq(BriefRows) :
        /\ new = w \o v /\ Len(new) = n + 1
        /\ \A i \in 1..p : new[i] = w[i]
        /\ \A i \in 1..(n - p + 1) : new[p + i] = v[i]
  <2>1. /\ w \o v \in Seq(BriefRows)
        /\ Len(w \o v) = Len(w) + Len(v)
        /\ \A i \in 1..(Len(w) + Len(v)) : (w \o v)[i] = IF i <= Len(w) THEN w[i] ELSE v[i - Len(w)]
    BY ONLY ConcatProperties, w \in Seq(BriefRows), v \in Seq(BriefRows)
  <2>2. Len(w) = p /\ Len(v) = n - p + 1
    BY <1>3, <1>4
  <2>3. PICK new \in Seq(BriefRows) : new = w \o v
    BY <2>1
  <2>4. Len(new) = n + 1 /\ \A i \in 1..(n + 1) : new[i] = IF i <= p THEN w[i] ELSE v[i - p]
    BY <2>1, <2>2, <2>3
  <2>5. \A i \in 1..p : new[i] = w[i]
    BY <2>4
  <2>6. ASSUME NEW i \in 1..(n - p + 1) PROVE new[p + i] = v[i]
    <3>1. p + i \in 1..(n + 1) /\ ~(p + i <= p) /\ p + i - p = i
      OBVIOUS
    <3> QED
      BY <3>1, <2>4
  <2> QED
    BY <2>3, <2>4, <2>5, <2>6
<1>6. InsertAt(s, p, e) = new
  BY <1>2, <1>3, <1>4, <1>5 DEF InsertAt
<1>7. ASSUME NEW i \in 1..n, i < p PROVE new[i] = s[i]
  BY <1>7, <1>2, <1>4, <1>5
<1>8. ASSUME NEW i \in 1..n, p <= i PROVE new[i + 1] = s[i]
  <2>1. PICK k \in 1..(n - p + 1) : k = i + 1 - p
    BY <1>8
  <2>2. new[p + k] = s[p + k - 1]
    BY <1>3, <1>5
  <2>3. p + k = i + 1 /\ p + k - 1 = i
    BY <2>1
  <2> QED
    BY <2>2, <2>3
<1> QED
  BY <1>4, <1>5, <1>6, <1>7, <1>8

LEMMA IndexInv ==
  ASSUME BriefingInv, NEW a \in Articles, Index(a)
  PROVE  BriefingInv'
<1>1. shelf \in Seq(BriefRows) /\ clock \in Nat
  BY DEF BriefingInv, BriefingTypeOK
<1>2. PICK n \in Nat : n = Len(shelf)
  BY <1>1
<1>3. PICK at \in {t \in {clock - 1, clock} : t >= 0}, p \in 1..(n + 1) :
        /\ \A i \in DOMAIN shelf : IF i < p THEN shelf[i].at <= at ELSE at <= shelf[i].at
        /\ shelf' = InsertAt(shelf, p, [article |-> a, at |-> at])
  BY <1>2 DEF Index
<1>4. PICK row \in BriefRows : row = [article |-> a, at |-> at]
  BY <1>1, <1>3 DEF BriefRows
<1>5. row.article = a /\ row.at = at /\ at \in Nat /\ at <= clock
  BY <1>1, <1>3, <1>4
<1>6. PICK new \in Seq(BriefRows) :
        /\ new = shelf' /\ Len(new) = n + 1 /\ new[p] = row
        /\ \A i \in 1..n : i < p => new[i] = shelf[i]
        /\ \A i \in 1..n : p <= i => new[i + 1] = shelf[i]
  <2>1. shelf' = InsertAt(shelf, p, row)
    BY <1>3, <1>4
  <2>2. /\ InsertAt(shelf, p, row) \in Seq(BriefRows)
        /\ Len(InsertAt(shelf, p, row)) = n + 1
        /\ InsertAt(shelf, p, row)[p] = row
        /\ \A i \in 1..n : i < p => InsertAt(shelf, p, row)[i] = shelf[i]
        /\ \A i \in 1..n : p <= i => InsertAt(shelf, p, row)[i + 1] = shelf[i]
    <3>1. shelf \in Seq(BriefRows) /\ row \in BriefRows /\ n \in Nat /\ n = Len(shelf) /\ p \in 1..(Len(shelf) + 1)
      BY <1>1, <1>2
    <3> QED
      BY ONLY <3>1, InsertAtProperties
  <2> QED
    BY <2>1, <2>2
<1>7. \A x : x \in Range(shelf) <=> \E i \in 1..n : shelf[i] = x
  BY <1>1, <1>2, RangeIs
<1>8. \A x : x \in Range(new) <=> \E i \in 1..(n + 1) : new[i] = x
  BY <1>6, RangeIs
<1>17. ASSUME NEW i \in 1..(n + 1)
       PROVE  \/ i = p /\ new[i] = row
              \/ i < p /\ i \in 1..n /\ new[i] = shelf[i]
              \/ p < i /\ i - 1 \in 1..n /\ p <= i - 1 /\ new[i] = shelf[i - 1]
  <2>1. CASE i = p
    BY <2>1, <1>6
  <2>2. CASE i < p
    BY <2>2, <1>6
  <2>3. CASE p < i
    <3>1. PICK k \in 1..n : k = i - 1 /\ p <= k
      BY <2>3
    <3>2. new[k + 1] = shelf[k] /\ k + 1 = i
      BY <3>1, <1>6
    <3> QED
      BY <3>1, <3>2, <2>3
  <2> QED
    BY <2>1, <2>2, <2>3
<1>9. Range(shelf') = Range(shelf) \cup {row}
  <2>1. ASSUME NEW x PROVE x \in Range(new) <=> x \in Range(shelf) \/ x = row
    <3>1. ASSUME x \in Range(new) PROVE x \in Range(shelf) \/ x = row
      <4>1. PICK i \in 1..(n + 1) : new[i] = x
        BY <3>1, <1>8
      <4> QED
        BY <4>1, <1>17, <1>7
    <3>2. ASSUME x \in Range(shelf) PROVE x \in Range(new)
      <4>1. PICK i \in 1..n : shelf[i] = x
        BY <3>2, <1>7
      <4>2. i \in 1..(n + 1) /\ i + 1 \in 1..(n + 1) /\ (new[i] = x \/ new[i + 1] = x)
        BY <4>1, <1>6
      <4> QED
        BY <4>2, <1>8
    <3>3. row \in Range(new)
      BY <1>6, <1>8
    <3> QED
      BY <3>1, <3>2, <3>3
  <2> QED
    BY <2>1, <1>6
<1>10. a \notin deleted /\ \A r \in Range(shelf) : r.article # a
  BY DEF Index, OnShelf
<1>11. \A r \in KnownRows : r.article # a
  BY <1>10 DEF BriefingInv, RowsOK
<1>12. KnownRows' = KnownRows \cup {row}
  <2>1. Published' = Published
    BY DEF Index, Published, Dates
  <2> QED
    BY <2>1, <1>9 DEF Index, KnownRows
<1>13. RowsOK'
  <2>1. ASSUME NEW r \in KnownRows', NEW q \in KnownRows', r.article = q.article PROVE r = q
    BY <2>1, <1>5, <1>11, <1>12 DEF BriefingInv, RowsOK
  <2>2. ASSUME NEW r \in KnownRows' PROVE r \in Range(shelf)' \/ r.article \in deleted'
    BY <2>2, <1>9, <1>12 DEF Index, BriefingInv, RowsOK
  <2> QED
    BY <2>1, <2>2 DEF RowsOK
<1>14. BriefingTypeOK'
  <2>1. Published' = Published /\ Dates' = Dates
    BY DEF Index, Published, Dates
  <2> QED
    BY <2>1, <1>6 DEF Index, BriefingInv, BriefingTypeOK
<1>15. ShelfOK'
  <2>1. /\ \A i, j \in 1..n : shelf[i].article = shelf[j].article => i = j
        /\ \A i, j \in 1..n : i < j => shelf[i].at <= shelf[j].at
        /\ \A i \in 1..n : shelf[i].at <= clock /\ shelf[i].article \notin deleted /\ shelf[i].article # a
    BY <1>2, <1>7, <1>10 DEF BriefingInv, ShelfOK
  <2>2. \A i \in 1..n : (i < p => shelf[i].at <= at) /\ (p <= i => at <= shelf[i].at)
    BY <1>1, <1>2, <1>3
  <2>3. ASSUME NEW i \in 1..(n + 1), NEW j \in 1..(n + 1), new[i].article = new[j].article PROVE i = j
    <3>1. CASE i = p
      BY <3>1, <2>1, <2>3, <1>5, <1>17
    <3>2. CASE i < p
      BY <3>2, <2>1, <2>3, <1>5, <1>17
    <3>3. CASE p < i
      BY <3>3, <2>1, <2>3, <1>5, <1>17
    <3> QED
      BY <3>1, <3>2, <3>3
  <2>4. ASSUME NEW i \in 1..(n + 1), NEW j \in 1..(n + 1), i < j PROVE new[i].at <= new[j].at
    <3>1. CASE i = p
      <4>1. j - 1 \in 1..n /\ new[j] = shelf[j - 1] /\ p <= j - 1
        BY <3>1, <2>4, <1>17
      <4>2. new[i].at = at
        BY <3>1, <1>5, <1>6
      <4> QED
        BY <4>1, <4>2, <2>2
    <3>2. CASE i < p
      <4>1. i \in 1..n /\ new[i] = shelf[i] /\ shelf[i].at <= at
        BY <3>2, <2>2, <1>17
      <4>2. CASE j = p
        BY <4>1, <4>2, <1>5, <1>6
      <4>3. CASE j < p
        BY <4>1, <4>3, <2>1, <2>4, <1>17
      <4>4. CASE p < j
        <5>1. j - 1 \in 1..n /\ new[j] = shelf[j - 1] /\ i < j - 1
          BY <4>4, <3>2, <1>17
        <5> QED
          BY <5>1, <4>1, <2>1
      <4> QED
        BY <4>2, <4>3, <4>4
    <3>3. CASE p < i
      <4>1. i - 1 \in 1..n /\ new[i] = shelf[i - 1] /\ j - 1 \in 1..n /\ new[j] = shelf[j - 1] /\ i - 1 < j - 1
        BY <3>3, <2>4, <1>17
      <4> QED
        BY <4>1, <2>1
    <3> QED
      BY <3>1, <3>2, <3>3
  <2>5. ASSUME NEW i \in 1..(n + 1) PROVE new[i].at <= clock /\ new[i].article \notin deleted
    BY <2>1, <1>5, <1>10, <1>17
  <2> QED
    BY <2>3, <2>4, <2>5, <1>6 DEF ShelfOK, Index
<1>16. RunOK' /\ BriefsOK'
  BY RunsStay DEF Index, BriefingInv
<1> QED
  BY <1>13, <1>14, <1>15, <1>16 DEF BriefingInv

LEMMA DeleteInv ==
  ASSUME BriefingInv, NEW a \in Articles, Delete(a)
  PROVE  BriefingInv'
<1>1. shelf \in Seq(BriefRows)
  BY DEF BriefingInv, BriefingTypeOK
<1>2. PICK S : S = {row \in Range(shelf) : row.article # a}
  OBVIOUS
<1>3. PICK new \in Seq(BriefRows) : new = shelf' /\ new = Kept(shelf, S)
  BY <1>1, <1>2, KeptPositions DEF Delete
<1>4. PICK at \in [1..Len(new) -> 1..Len(shelf)] : Picks(shelf, S, Len(shelf), new, at)
  <2>1. \E at \in [1..Len(Kept(shelf, S)) -> 1..Len(shelf)] :
          Picks(shelf, S, Len(shelf), Kept(shelf, S), at)
    BY <1>1, KeptPositions
  <2> QED
    BY <2>1, <1>3
<1>5. /\ \A j, k \in 1..Len(new) : j < k => at[j] < at[k]
      /\ \A k \in 1..Len(new) : new[k] = shelf[at[k]] /\ new[k] \in S /\ at[k] \in 1..Len(shelf)
  BY <1>4 DEF Picks
<1>6. Range(shelf') = S
  <2>1. Range(Kept(shelf, S)) = Range(shelf) \cap S
    BY <1>1, KeptRange
  <2> QED
    BY <2>1, <1>2, <1>3
<1>7. deleted' = deleted \cup {a} /\ UNCHANGED <<clock, run, briefs>>
  BY DEF Delete
<1>8. Published' = Published /\ Dates' = Dates
  BY <1>7 DEF Published, Dates
<1>9. KnownRows' \subseteq KnownRows
  BY <1>2, <1>6, <1>7, <1>8 DEF KnownRows
<1>10. RowsOK'
  <2>1. ASSUME NEW r \in KnownRows' PROVE r \in Range(shelf)' \/ r.article \in deleted'
    <3>1. r \in Range(shelf) \/ r.article \in deleted
      BY <1>9 DEF BriefingInv, RowsOK
    <3> QED
      BY <3>1, <1>2, <1>6, <1>7
  <2>2. \A r, q \in KnownRows' : r.article = q.article => r = q
    BY <1>9 DEF BriefingInv, RowsOK
  <2> QED
    BY <2>1, <2>2 DEF RowsOK
<1>11. ShelfOK'
  <2>1. ASSUME NEW i \in 1..Len(new), NEW j \in 1..Len(new), new[i].article = new[j].article PROVE i = j
    <3>1. at[i] = at[j]
      BY <2>1, <1>5 DEF BriefingInv, ShelfOK
    <3>2. at[i] \in Int /\ at[j] \in Int /\ ~(i < j) /\ ~(j < i)
      BY <3>1, <1>5
    <3> QED
      BY <3>2
  <2>2. ASSUME NEW i \in 1..Len(new), NEW j \in 1..Len(new), i < j PROVE new[i].at <= new[j].at
    BY <2>2, <1>5 DEF BriefingInv, ShelfOK
  <2>3. ASSUME NEW i \in 1..Len(new) PROVE new[i].at <= clock /\ new[i].article \notin deleted'
    BY <1>2, <1>5, <1>7 DEF BriefingInv, ShelfOK
  <2> QED
    BY <2>1, <2>2, <2>3, <1>3, <1>7 DEF ShelfOK
<1>12. BriefingTypeOK'
  BY <1>3, <1>7, <1>8 DEF BriefingInv, BriefingTypeOK
<1>13. RunOK' /\ BriefsOK'
  BY <1>7, RunsStay DEF BriefingInv
<1> QED
  BY <1>10, <1>11, <1>12, <1>13 DEF BriefingInv

LEMMA RowsStay ==
  ASSUME RowsOK, ShelfOK, KnownRows' \subseteq KnownRows, UNCHANGED <<shelf, deleted, clock>>
  PROVE  RowsOK' /\ ShelfOK'
<1>1. RowsOK'
  BY DEF RowsOK
<1>2. ShelfOK'
  BY DEF ShelfOK
<1> QED
  BY <1>1, <1>2

LEMMA DrawInv == BriefingInv /\ Draw => BriefingInv'
<1> SUFFICES ASSUME BriefingInv, Draw PROVE BriefingInv'
  OBVIOUS
<1>1. shelf \in Seq(BriefRows) /\ clock \in Nat /\ ShelfOK
  BY DEF BriefingInv, BriefingTypeOK
<1>2. PICK d \in Nat : d = Today
  <2>1. clock \div DayLength \in Nat
    BY <1>1, BriefingAssumption
  <2> QED
    BY <2>1 DEF Today
<1>3. PICK ids : ids = IdsOf(Newest(Fetched(d)))
  OBVIOUS
<1>4. PICK clusters \in Clusters(ids) :
        run' = [date |-> d, todo |-> clusters, sections |-> <<>>, known |-> shelf]
  BY <1>2, <1>3 DEF Draw
<1>5. /\ ids \in Seq(Articles)
      /\ \A i, j \in 1..Len(ids) : ids[i] = ids[j] => i = j
      /\ Range(ids) \subseteq DayOf(shelf, d)
      /\ Explained(shelf, d, Range(ids))
  BY <1>1, <1>3, DrawnIsExplained
<1>6. clusters \in Seq(Sections) /\ Disjoint(Lists(clusters)) /\ Told(clusters) = Range(ids)
  BY <1>5, ClustersHoldAll
<1>7. <<>> \in Seq(Sections) /\ Disjoint(Lists(<<>>)) /\ Told(<<>>) = {}
  BY NoSection
<1>8. /\ run'.date = d /\ run'.todo = clusters /\ run'.sections = <<>> /\ run'.known = shelf
      /\ run' \in [date : Nat, todo : Seq(Sections), sections : Seq(Sections),
                   known : Seq(BriefRows)]
  BY <1>1, <1>4, <1>6, <1>7
<1>9. UNCHANGED <<shelf, deleted, clock, briefs>> /\ run = Idle
  BY DEF Draw
<1>10. Published' = Published /\ Dates' = Dates
  BY <1>9 DEF Published, Dates
<1>11. BriefingTypeOK'
  BY <1>8, <1>9, <1>10 DEF BriefingInv, BriefingTypeOK
<1>12. KnownRows' \subseteq KnownRows
  BY <1>8, <1>9, <1>10 DEF KnownRows
<1>13. RowsOK' /\ ShelfOK'
  BY <1>9, <1>12, RowsStay DEF BriefingInv
<1>14. Explained(shelf, d, Range(ids))'
  BY <1>5, <1>9 DEF Explained
<1>15. RunOK'
  <2>1. Told(run'.sections) \cup Told(run'.todo) = Range(ids)
    BY <1>6, <1>7, <1>8
  <2>2. Explained(run.known, run.date, Told(run.sections) \cup Told(run.todo))'
    <3>1. ASSUME NEW told, told = Range(ids) PROVE Explained(shelf, d, told)'
      BY <3>1, <1>14
    <3>2. PICK told : told = Told(run'.sections) \cup Told(run'.todo) /\ told = Range(ids)
      BY <2>1
    <3>3. Explained(shelf, d, told)'
      BY <3>1, <3>2
    <3> QED
      BY <3>2, <3>3, <1>8, <1>9 DEF Explained
  <2>3. Told(run'.sections) \cup Told(run'.todo) \subseteq DayOf(run'.known, run'.date)
    BY <2>1, <1>5, <1>8
  <2> QED
    BY <2>2, <2>3, <1>6, <1>7, <1>8 DEF RunOK
<1>16. BriefsOK'
  BY <1>9, <1>10 DEF BriefingInv, BriefsOK, Explained
<1> QED
  BY <1>11, <1>13, <1>15, <1>16 DEF BriefingInv

\* What a section says of its cluster: the articles that are still there, or
\* nothing when those have no text.
LEMMA SummariseInv == BriefingInv /\ Summarise => BriefingInv'
<1> SUFFICES ASSUME BriefingInv, Summarise PROVE BriefingInv'
  OBVIOUS
<1>1. PICK w : w = run
  OBVIOUS
<1>2. /\ w \in [date : Nat, todo : Seq(Sections), sections : Seq(Sections), known : Seq(BriefRows)]
      /\ w # Idle /\ w.todo # <<>>
  BY <1>1 DEF BriefingInv, BriefingTypeOK, Summarise
<1>3. w.todo \in Seq(Sections) /\ w.sections \in Seq(Sections) /\ w.known \in Seq(BriefRows)
  BY <1>2
<1>4. /\ Disjoint(Lists(w.sections)) /\ Disjoint(Lists(w.todo))
      /\ Told(w.sections) \cap Told(w.todo) = {}
      /\ Told(w.sections) \cup Told(w.todo) \subseteq DayOf(w.known, w.date)
      /\ Explained(w.known, w.date, Told(w.sections) \cup Told(w.todo))
  BY <1>1, <1>2 DEF BriefingInv, RunOK
<1>5. PICK cluster, rest : cluster = Head(w.todo) /\ rest = Tail(w.todo)
  OBVIOUS
<1>6. /\ cluster \in Sections /\ rest \in Seq(Sections)
      /\ \A i, j \in 1..Len(cluster.articles) : cluster.articles[i] = cluster.articles[j] => i = j
      /\ Disjoint(Lists(rest))
      /\ Told(w.todo) = Range(cluster.articles) \cup Told(rest)
      /\ Range(cluster.articles) \cap Told(rest) = {}
  BY <1>2, <1>3, <1>4, <1>5, FirstSection
<1>7. cluster.articles \in Seq(Articles) /\ cluster.rank \in Nat
  BY <1>6 DEF Sections
<1>8. PICK ids \in Seq(Articles) : ids = Remaining(cluster.articles)
  BY <1>7, KeptPositions DEF Remaining
<1>9. Range(ids) = Range(cluster.articles) \cap OnShelf
  BY <1>7, <1>8, KeptRange DEF Remaining
<1>10. ASSUME NEW i \in 1..Len(ids), NEW j \in 1..Len(ids), ids[i] = ids[j] PROVE i = j
  <2>1. \E at \in [1..Len(Kept(cluster.articles, OnShelf)) -> 1..Len(cluster.articles)] :
          Picks(cluster.articles, OnShelf, Len(cluster.articles), Kept(cluster.articles, OnShelf), at)
    BY <1>7, KeptPositions
  <2>2. PICK at \in [1..Len(ids) -> 1..Len(cluster.articles)] :
          Picks(cluster.articles, OnShelf, Len(cluster.articles), ids, at)
    BY <2>1, <1>8 DEF Remaining
  <2>3. /\ at[i] \in 1..Len(cluster.articles) /\ at[j] \in 1..Len(cluster.articles)
        /\ cluster.articles[at[i]] = cluster.articles[at[j]]
    BY <2>2, <1>10 DEF Picks
  <2>4. at[i] = at[j]
    BY <2>3, <1>6
  <2>5. ~(i < j) /\ ~(j < i)
    BY <2>2, <2>3, <2>4 DEF Picks
  <2> QED
    BY <2>5
<1>11. PICK section \in Sections : section = [articles |-> ids, rank |-> cluster.rank]
  BY <1>7 DEF Sections
<1>12. section.articles = ids
  BY <1>11
<1>13. PICK sections :
         /\ run' = [w EXCEPT !.todo = rest, !.sections = sections]
         /\ \/ sections = Append(w.sections, section)
            \/ sections = w.sections /\ NothingToSay(ids)
  <2>1. PICK answered \in {FALSE, ids # <<>>} :
          run' = [w EXCEPT !.todo = rest,
                           !.sections = IF answered \/ ~NothingToSay(ids)
                                        THEN Append(w.sections, section) ELSE w.sections]
    BY <1>1, <1>5, <1>8, <1>11 DEF Summarise
  <2>2. PICK sections : sections = IF answered \/ ~NothingToSay(ids)
                                   THEN Append(w.sections, section) ELSE w.sections
    OBVIOUS
  <2> QED
    BY <2>1, <2>2
<1>14. \A x : x \in Range(ids) <=> \E i \in 1..Len(ids) : ids[i] = x
  BY RangeIs
<1>15. /\ sections \in Seq(Sections)
       /\ Disjoint(Lists(sections))
       /\ Told(w.sections) \subseteq Told(sections)
       /\ Told(sections) \subseteq Told(w.sections) \cup Range(ids)
       /\ Range(ids) \subseteq Told(sections) \cup Blank
  <2>1. CASE sections = Append(w.sections, section)
    <3>1. Range(section.articles) \cap Told(w.sections) = {}
      BY <1>4, <1>6, <1>9, <1>12
    <3>2. /\ Append(w.sections, section) \in Seq(Sections)
          /\ Disjoint(Lists(Append(w.sections, section)))
          /\ Told(Append(w.sections, section)) = Told(w.sections) \cup Range(section.articles)
      BY <3>1, <1>3, <1>4, <1>10, <1>12, LastSection
    <3> QED
      BY <3>2, <2>1, <1>12
  <2>2. CASE sections = w.sections /\ NothingToSay(ids)
    <3>1. Range(ids) \subseteq Blank
      <4>1. CASE ids = <<>>
        BY <4>1, <1>14
      <4>2. CASE Len(ids) = 1 /\ ids[1] \in Blank
        BY <4>2, <1>14
      <4> QED
        BY <4>1, <4>2, <2>2 DEF NothingToSay
    <3> QED
      BY <3>1, <2>2, <1>3, <1>4
  <2> QED
    BY <2>1, <2>2, <1>13
<1>16. /\ run'.todo = rest /\ run'.sections = sections /\ run'.known = w.known /\ run'.date = w.date
       /\ run' \in [date : Nat, todo : Seq(Sections), sections : Seq(Sections),
                    known : Seq(BriefRows)]
  BY <1>2, <1>6, <1>13, <1>15
<1>17. UNCHANGED <<shelf, deleted, clock, briefs>>
  BY DEF Summarise
<1>18. Published' = Published /\ Dates' = Dates
  BY <1>17 DEF Published, Dates
<1>19. BriefingTypeOK'
  BY <1>16, <1>17, <1>18 DEF BriefingInv, BriefingTypeOK
<1>20. KnownRows' \subseteq KnownRows
  BY <1>1, <1>2, <1>16, <1>17, <1>18 DEF KnownRows
<1>21. RowsOK' /\ ShelfOK'
  BY <1>17, <1>20, RowsStay DEF BriefingInv
<1>22. Told(sections) \cup Told(rest) \subseteq DayOf(w.known, w.date)
  BY <1>4, <1>6, <1>9, <1>15
<1>23. Told(sections) \cap Told(rest) = {}
  BY <1>4, <1>6, <1>9, <1>15
<1>24. Explained(w.known, w.date, Told(sections) \cup Told(rest))
  <2>1. SUFFICES ASSUME NEW row \in Range(w.known), row.at \in Window(w.date),
                        ~(Cap <= Cardinality(Newer(w.known, w.date, row))),
                        row.article \notin deleted, row.article \notin Blank
                 PROVE  row.article \in Told(sections) \cup Told(rest)
    BY DEF Explained
  <2>2. row.article \in Told(w.sections) \cup Told(w.todo)
    BY <2>1, <1>4 DEF Explained
  <2>3. CASE row.article \in Range(cluster.articles)
    <3>1. row \in KnownRows
      BY <2>1, <1>1, <1>2 DEF KnownRows
    <3>2. row \in Range(shelf)
      BY <3>1, <2>1 DEF BriefingInv, RowsOK
    <3>3. row.article \in Range(ids)
      BY <3>2, <2>3, <1>9 DEF OnShelf
    <3> QED
      BY <3>3, <2>1, <1>15
  <2> QED
    BY <2>2, <2>3, <1>6, <1>15
<1>25. RunOK'
  <2>1. Explained(w.known, w.date, Told(sections) \cup Told(rest))'
    BY <1>24, <1>17 DEF Explained
  <2>2. Explained(run.known, run.date, Told(run.sections) \cup Told(run.todo))'
    BY <2>1, <1>16 DEF Explained
  <2> QED
    BY <2>2, <1>6, <1>15, <1>16, <1>22, <1>23 DEF RunOK
<1>26. BriefsOK'
  BY <1>17, <1>18 DEF BriefingInv, BriefsOK, Explained
<1> QED
  BY <1>19, <1>21, <1>25, <1>26 DEF BriefingInv

LEMMA PublishInv == BriefingInv /\ Publish => BriefingInv'
<1> SUFFICES ASSUME BriefingInv, Publish PROVE BriefingInv'
  OBVIOUS
<1>1. PICK w : w = run
  OBVIOUS
<1>2. /\ w \in [date : Nat, todo : Seq(Sections), sections : Seq(Sections), known : Seq(BriefRows)]
      /\ w # Idle /\ w.todo = <<>>
  BY <1>1 DEF BriefingInv, BriefingTypeOK, Publish
<1>3. PICK brief : /\ brief.sections = w.sections /\ brief.known = w.known
                   /\ briefs' = [briefs EXCEPT ![w.date] = brief]
  <2>1. PICK overall \in {FALSE, w.sections # <<>>} :
          briefs' = [briefs EXCEPT ![w.date] =
                       [sections |-> w.sections, known |-> w.known,
                        preview  |-> Preview(overall, w.sections)]]
    BY <1>1 DEF Publish
  <2>2. PICK preview : preview = Preview(overall, w.sections)
    OBVIOUS
  <2>3. PICK brief : brief = [sections |-> w.sections, known |-> w.known, preview |-> preview]
    OBVIOUS
  <2> QED
    BY <2>1, <2>2, <2>3
<1>4. briefs = [d \in Dates |-> briefs[d]]
  BY DEF BriefingInv, BriefingTypeOK
<1>5. briefs' = [d \in Dates |-> IF d = w.date THEN brief ELSE briefs[d]]
  BY <1>3, <1>4
<1>6. UNCHANGED <<shelf, deleted, clock>> /\ run' = Idle /\ Dates' = Dates
  BY DEF Publish, Dates
<1>7. ASSUME NEW d \in Published'
      PROVE  /\ d \in Dates
             /\ \/ d = w.date /\ briefs'[d] = brief
                \/ d \in Published /\ briefs'[d] = briefs[d]
  BY <1>5, <1>6 DEF Published
<1>8. BriefingTypeOK'
  <2>1. briefs' = [d \in Dates |-> briefs'[d]]
    BY <1>5
  <2>2. ASSUME NEW d \in Published'
        PROVE  briefs'[d].sections \in Seq(Sections) /\ briefs'[d].known \in Seq(BriefRows)
    BY <1>2, <1>3, <1>7 DEF BriefingInv, BriefingTypeOK
  <2> QED
    BY <2>1, <2>2, <1>6 DEF BriefingInv, BriefingTypeOK
<1>9. KnownRows' \subseteq KnownRows
  <2>1. ASSUME NEW r \in KnownRows' PROVE r \in KnownRows
    <3>1. CASE r \in Range(shelf')
      BY <3>1, <1>6 DEF KnownRows
    <3>2. CASE r \notin Range(shelf')
      <4>1. PICK d \in Published' : r \in Range(briefs'[d].known)
        BY <3>2, <1>6 DEF KnownRows
      <4>2. r \in Range(w.known) \/ (d \in Published /\ r \in Range(briefs[d].known))
        BY <4>1, <1>3, <1>7
      <4> QED
        BY <4>2, <1>1, <1>2 DEF KnownRows
    <3> QED
      BY <3>1, <3>2
  <2> QED
    BY <2>1
<1>10. RowsOK' /\ ShelfOK'
  BY <1>6, <1>9, RowsStay DEF BriefingInv
<1>11. Told(w.todo) = {}
  BY <1>2, NoSection
<1>12. /\ Disjoint(Lists(w.sections))
       /\ Told(w.sections) \subseteq DayOf(w.known, w.date)
       /\ Explained(w.known, w.date, Told(w.sections))
  <2>1. Told(w.sections) \cup Told(w.todo) = Told(w.sections)
    BY <1>11
  <2> QED
    BY <2>1, <1>1, <1>2 DEF BriefingInv, RunOK
<1>13. ASSUME NEW d \in Published'
       PROVE  /\ Disjoint(Lists(briefs'[d].sections))
              /\ Told(briefs'[d].sections) \subseteq DayOf(briefs'[d].known, d)
              /\ Explained(briefs'[d].known, d, Told(briefs'[d].sections))
  <2>1. CASE d = w.date /\ briefs'[d] = brief
    BY <2>1, <1>3, <1>12
  <2>2. CASE d \in Published /\ briefs'[d] = briefs[d]
    BY <2>2 DEF BriefingInv, BriefsOK
  <2> QED
    BY <2>1, <2>2, <1>7
<1>14. BriefsOK'
  BY <1>6, <1>13 DEF BriefsOK, Explained
<1>15. RunOK'
  BY <1>6 DEF RunOK
<1> QED
  BY <1>8, <1>10, <1>14, <1>15 DEF BriefingInv

LEMMA HourInv == BriefingInv /\ Hour => BriefingInv'
<1> SUFFICES ASSUME BriefingInv, Hour PROVE BriefingInv'
  OBVIOUS
<1>1. /\ UNCHANGED <<shelf, deleted, run, briefs>> /\ clock' = clock + 1
      /\ clock \in Nat /\ shelf \in Seq(BriefRows)
  BY DEF Hour, BriefingInv, BriefingTypeOK
<1>2. Published' = Published /\ Dates' = Dates
  BY <1>1 DEF Published, Dates
<1>3. BriefingTypeOK'
  <2>1. clock' \in Nat
    BY <1>1
  <2> QED
    BY <2>1, <1>1, <1>2, Zenon DEF BriefingInv, BriefingTypeOK
<1>4. ASSUME NEW i \in 1..Len(shelf) PROVE shelf[i].at <= clock'
  <2>1. shelf[i] \in BriefRows
    BY <1>1
  <2>2. shelf[i].at \in Nat /\ shelf[i].at <= clock
    BY <2>1 DEF BriefRows, BriefingInv, ShelfOK
  <2> QED
    BY <2>2, <1>1
<1>5. ShelfOK'
  BY <1>1, <1>4 DEF BriefingInv, ShelfOK
<1>6. KnownRows' = KnownRows
  BY <1>1, <1>2 DEF KnownRows
<1>7. RowsOK'
  BY <1>1, <1>6 DEF BriefingInv, RowsOK
<1>8. RunOK' /\ BriefsOK'
  BY <1>1, RunsStay DEF BriefingInv
<1> QED
  BY <1>3, <1>5, <1>7, <1>8 DEF BriefingInv

\* The inductive invariant of the content of briefs holds for every set of
\* articles, whatever the model answers and whenever articles come and go.
THEOREM SpecBriefingInv == BriefingSpec => []BriefingInv
<1>1. BriefingInit => BriefingInv
  BY BriefingInitInv
<1>2. BriefingInv /\ [BriefingNext]_briefingVars => BriefingInv'
  <2> SUFFICES ASSUME BriefingInv, [BriefingNext]_briefingVars PROVE BriefingInv'
    OBVIOUS
  <2>1. CASE UNCHANGED briefingVars
    <3>1. UNCHANGED <<shelf, deleted, clock, run, briefs>>
      BY <2>1 DEF briefingVars
    <3>2. Published' = Published /\ Dates' = Dates
      BY <3>1 DEF Published, Dates
    <3>3. KnownRows' = KnownRows
      BY <3>1, <3>2 DEF KnownRows
    <3>4. RowsOK' /\ ShelfOK'
      BY <3>1, <3>3, RowsStay DEF BriefingInv
    <3>5. BriefingTypeOK'
      BY <3>1, <3>2 DEF BriefingInv, BriefingTypeOK
    <3>6. RunOK' /\ BriefsOK'
      BY <3>1, RunsStay DEF BriefingInv
    <3> QED
      BY <3>4, <3>5, <3>6 DEF BriefingInv
  <2>2. ASSUME NEW a \in Articles, Index(a) \/ Delete(a) PROVE BriefingInv'
    BY <2>2, IndexInv, DeleteInv
  <2>3. CASE Draw \/ Summarise \/ Publish \/ Hour
    BY <2>3, DrawInv, SummariseInv, PublishInv, HourInv
  <2> QED
    BY <2>1, <2>2, <2>3 DEF BriefingNext
<1> QED
  BY <1>1, <1>2, PTL DEF BriefingSpec

\* The windows of two dates have no instant in common.
LEMMA WindowsApart ==
  ASSUME NEW d \in Nat, NEW e \in Nat, d < e
  PROVE  Window(d) \cap Window(e) = {}
<1>1. PICK n \in Nat \ {0} : n = DayLength
  BY BriefingAssumption
<1>2. PICK k \in Nat : e = d + 1 + k
  <2>1. e - d - 1 \in Nat /\ e = d + 1 + (e - d - 1)
    OBVIOUS
  <2> QED
    BY <2>1
<1>3. e * n = (d + 1) * n + k * n /\ k * n \in Nat /\ (d + 1) * n \in Nat
  BY <1>1, <1>2
<1>4. PICK next, start \in Nat : next = (d + 1) * n /\ start = e * n /\ next <= start
  BY <1>3
<1>5. ASSUME NEW t \in Window(d), t \in Window(e) PROVE FALSE
  <2>1. t \in Int /\ t <= next - 1 /\ start <= t
    BY <1>1, <1>4, <1>5 DEF Window
  <2> QED
    BY <2>1, <1>4
<1> QED
  BY <1>5

\* No article is told twice, in two sections or on two days (ToldOnce).
THEOREM SpecToldOnce == BriefingSpec => []ToldOnce
<1>1. BriefingInv => ToldOnce
  <2> SUFFICES ASSUME BriefingInv PROVE ToldOnce
    OBVIOUS
  <2>1. \A d \in Published : d \in Nat
    BY BriefingAssumption DEF Published, Dates
  <2>2. ASSUME NEW d \in Published, NEW e \in Published, d < e
        PROVE  Told(briefs[d].sections) \cap Told(briefs[e].sections) = {}
    <3>1. SUFFICES ASSUME NEW a \in Told(briefs[d].sections), a \in Told(briefs[e].sections)
                   PROVE  FALSE
      OBVIOUS
    <3>2. PICK r \in Range(briefs[d].known) : r.at \in Window(d) /\ r.article = a
      BY <3>1 DEF BriefingInv, BriefsOK, DayOf
    <3>3. PICK q \in Range(briefs[e].known) : q.at \in Window(e) /\ q.article = a
      BY <3>1 DEF BriefingInv, BriefsOK, DayOf
    <3>4. r \in KnownRows /\ q \in KnownRows
      BY <3>2, <3>3 DEF KnownRows
    <3>5. r = q
      BY <3>2, <3>3, <3>4 DEF BriefingInv, RowsOK
    <3> QED
      BY <3>2, <3>3, <3>5, <2>1, <2>2, WindowsApart
  <2>3. ASSUME NEW d \in Published, NEW e \in Published, d # e
        PROVE  Told(briefs[d].sections) \cap Told(briefs[e].sections) = {}
    BY <2>1, <2>2, <2>3
  <2> QED
    BY <2>3 DEF ToldOnce, BriefingInv, BriefsOK
<1> QED
  BY <1>1, SpecBriefingInv, PTL

\* An article the brief of its day leaves out came too late, was crowded out by
\* Cap newer ones or has no text (LeftOutExplained).
THEOREM SpecLeftOutExplained == BriefingSpec => []LeftOutExplained
<1>1. BriefingInv => LeftOutExplained
  <2> SUFFICES ASSUME BriefingInv, NEW d \in Published, NEW row \in Range(shelf),
                      row \in Range(briefs[d].known)
               PROVE  \/ row.at \notin Window(d)
                      \/ row.article \in Told(briefs[d].sections) \cup Blank
                      \/ Cap <= Cardinality(Newer(briefs[d].known, d, row))
    BY DEF LeftOutExplained
  <2>1. row.article \notin deleted
    <3>1. PICK i \in 1..Len(shelf) : shelf[i] = row
      BY RangeIs DEF BriefingInv, BriefingTypeOK
    <3> QED
      BY <3>1 DEF BriefingInv, ShelfOK
  <2> QED
    BY <2>1 DEF BriefingInv, BriefsOK, Explained
<1> QED
  BY <1>1, SpecBriefingInv, PTL

-----------------------------------------------------------------------------
(* Lists read page by page. *)

ListRows == [id : Nat, at : Nat]
Walks == [list : {"digests", "notifications"}, cursor : Nat \cup {NoCursor}, begun : BOOLEAN,
          had : SUBSET ListRows, seen : Seq(ListRows), cut : SUBSET (Nat \cup {NoCursor})]

PagingTypeOK ==
  /\ digests \subseteq Nat /\ IsFiniteSet(digests)
  /\ notes \subseteq ListRows /\ IsFiniteSet(notes)
  /\ today \in Nat
  /\ walk \in Walks \cup {NoWalk}

\* Newest first, and no row twice.
NewestFirst(seen) ==
  /\ \A i, j \in 1..Len(seen) : seen[i] = seen[j] => i = j
  /\ \A i, j \in 1..Len(seen) : i < j => seen[i].at >= seen[j].at

\* The cursor splits the list: nothing that was shown is older, and what is not
\* older was shown or has the time of a cursor.
WalkOK ==
  walk # NoWalk =>
    /\ walk.had \subseteq Rows(walk.list)
    /\ ~walk.begun => walk.seen = <<>> /\ walk.cursor = NoCursor
    /\ NewestFirst(walk.seen)
    /\ walk.cursor # NoCursor => \A i \in 1..Len(walk.seen) : walk.seen[i].at >= walk.cursor
    /\ walk.begun => \A row \in walk.had \ Range(walk.seen) :
         row.at \in walk.cut \/ (walk.cursor # NoCursor /\ row.at < walk.cursor)

PagingInv == PagingTypeOK /\ WalkOK

\* What ORDER BY and LIMIT give of a finite set of rows.
LEMMA TopFacts ==
  ASSUME NEW R \in SUBSET ListRows, IsFiniteSet(R), NEW n \in Nat \ {0}, NEW s \in Top(R, n)
  PROVE  /\ s \in Seq(R) /\ s \in Seq(ListRows) /\ Len(s) <= n
         /\ NewestFirst(s)
         /\ \A r \in R \ Range(s), i \in 1..Len(s) : s[i].at >= r.at
         /\ Len(s) < n => Range(s) = R
<1>1. PICK k \in Nat : k = Limited(n, Cardinality(R))
  BY FS_CardinalityType DEF Limited
<1>2. s \in [1..k -> R] /\ DOMAIN s = 1..k
  BY <1>1 DEF Top
<1>3. s \in Seq(R) /\ s \in Seq(ListRows) /\ Len(s) = k
  BY <1>2
<1>4. /\ IsInjective(s)
      /\ \A i, j \in 1..k : i < j => s[i].at >= s[j].at
      /\ \A r \in R \ Range(s), i \in 1..k : s[i].at >= r.at
  BY <1>2 DEF Top
<1>5. \A i, j \in 1..k : s[i] = s[j] => i = j
  BY <1>2, <1>4 DEF IsInjective
<1>6. NewestFirst(s)
  BY <1>3, <1>4, <1>5 DEF NewestFirst
<1>7. Cardinality(R) \in Nat /\ k <= n /\ (k < n => k = Cardinality(R))
  BY <1>1, FS_CardinalityType DEF Limited
<1>8. ASSUME k < n PROVE Range(s) = R
  <2>1. IsFiniteSet(1..k) /\ Cardinality(1..k) = k
    <3>1. 1 \in Int /\ k \in Int
      OBVIOUS
    <3>2. IsFiniteSet(1..k) /\ Cardinality(1..k) = IF 1 > k THEN 0 ELSE k - 1 + 1
      BY ONLY <3>1, FS_Interval
    <3> QED
      BY <3>2
  <2>2. s \in Injection(1..k, R)
    BY <1>2, <1>4 DEF Injection
  <2>3. s \in Surjection(1..k, R)
    BY <2>1, <2>2, <1>7, <1>8, FS_Injection
  <2> QED
    BY <2>3, <1>2 DEF Surjection, Range
<1> QED
  BY <1>3, <1>4, <1>6, <1>7, <1>8

\* A page and the cursor it hands out split the rows that were asked for.
PageOK(R, onPage, next) ==
  /\ onPage \in Seq(R) /\ onPage \in Seq(ListRows)
  /\ next \in Nat \cup {NoCursor}
  /\ NewestFirst(onPage)
  /\ next # NoCursor => /\ \A i \in 1..Len(onPage) : onPage[i].at >= next
                        /\ \E r \in R : r.at = next
  /\ \A r \in R \ Range(onPage) : next # NoCursor /\ r.at <= next

\* list_digests: the row after the page, whose date is the cursor.
LEMMA DigestPage ==
  ASSUME NEW R \in SUBSET ListRows, IsFiniteSet(R), NEW s \in Top(R, Limit + 1)
  PROVE  PageOK(R, SubSeq(s, 1, Limited(Limit, Len(s))),
                IF Len(s) > Limit THEN s[Limit + 1].at ELSE NoCursor)
<1>1. Limit \in Nat \ {0} /\ NoCursor \notin Nat /\ Limit + 1 \in Nat \ {0}
  BY PagingAssumption
<1>2. /\ s \in Seq(R) /\ s \in Seq(ListRows) /\ Len(s) <= Limit + 1
      /\ NewestFirst(s)
      /\ \A r \in R \ Range(s), i \in 1..Len(s) : s[i].at >= r.at
      /\ Len(s) < Limit + 1 => Range(s) = R
  BY <1>1, TopFacts
<1>3. PICK k \in 0..Len(s) : k = Limited(Limit, Len(s)) /\ (Len(s) > Limit => k = Limit)
                             /\ (Len(s) <= Limit => k = Len(s))
  BY <1>1, <1>2 DEF Limited
<1>4. PICK onPage : onPage = SubSeq(s, 1, k)
  OBVIOUS
<1>5. /\ onPage \in Seq(R) /\ onPage \in Seq(ListRows) /\ Len(onPage) = k
      /\ \A i \in 1..k : onPage[i] = s[i]
  BY <1>2, <1>3, <1>4, SubSeqProperties
<1>6. NewestFirst(onPage)
  BY <1>2, <1>3, <1>5, SMTT(30) DEF NewestFirst
<1>7. CASE Len(s) > Limit
  <2>1. Len(s) = Limit + 1 /\ k = Limit /\ Limit + 1 \in 1..Len(s) /\ k \in Nat
    BY <1>1, <1>2, <1>3, <1>7
  <2>2. PICK next \in Nat : next = s[Limit + 1].at
    BY <2>1, <1>2 DEF ListRows
  <2>3. /\ \A i \in 1..Len(onPage) : onPage[i].at >= next
        /\ \E r \in R : r.at = next
    BY <2>1, <2>2, <1>2, <1>5 DEF NewestFirst
  <2>4. ASSUME NEW r \in R \ Range(onPage) PROVE r.at <= next
    <3>1. r.at \in Nat
      BY DEF ListRows
    <3>2. CASE r \in Range(s)
      <4>1. PICK i \in 1..Len(s) : s[i] = r
        BY <3>2, <1>2 DEF Range
      <4>2. i \notin 1..k
        <5>1. DOMAIN onPage = 1..k
          BY <1>5
        <5> QED
          BY <5>1, <4>1, <1>5, <2>4 DEF Range
      <4>3. i = Limit + 1
        BY <4>2, <2>1
      <4> QED
        BY <4>1, <4>3, <2>2, <3>1
    <3>3. CASE r \notin Range(s)
      BY <3>1, <3>3, <1>2, <2>1, <2>2
    <3> QED
      BY <3>2, <3>3
  <2> QED
    BY <2>2, <2>3, <2>4, <1>1, <1>3, <1>4, <1>5, <1>6, <1>7 DEF PageOK
<1>8. CASE Len(s) <= Limit
  <2>1. k = Len(s) /\ Range(s) = R
    BY <1>1, <1>2, <1>3, <1>8
  <2>2. Range(onPage) = R
    <3>1. DOMAIN onPage = 1..k /\ DOMAIN s = 1..k
      BY <1>2, <1>5, <2>1
    <3> QED
      BY <3>1, <2>1, <1>5 DEF Range
  <2>3. ~(Len(s) > Limit)
    BY <1>1, <1>2, <1>8
  <2> QED
    BY <2>2, <2>3, <1>3, <1>4, <1>5, <1>6 DEF PageOK
<1> QED
  BY <1>1, <1>2, <1>7, <1>8

\* list_notifications: the last row of a full page.
LEMMA NotificationPage ==
  ASSUME NEW R \in SUBSET ListRows, IsFiniteSet(R), NEW s \in Top(R, Limit)
  PROVE  PageOK(R, s, IF Len(s) = Limit THEN Last(s).at ELSE NoCursor)
<1>1. Limit \in Nat \ {0} /\ NoCursor \notin Nat
  BY PagingAssumption
<1>2. /\ s \in Seq(R) /\ s \in Seq(ListRows) /\ Len(s) <= Limit
      /\ NewestFirst(s)
      /\ \A r \in R \ Range(s), i \in 1..Len(s) : s[i].at >= r.at
      /\ Len(s) < Limit => Range(s) = R
  BY <1>1, TopFacts
<1>3. CASE Len(s) = Limit
  <2>1. Limit \in 1..Len(s)
    BY <1>1, <1>3
  <2>2. PICK next \in Nat : next = s[Limit].at /\ next = Last(s).at
    BY <2>1, <1>2, <1>3 DEF ListRows, Last
  <2>3. \A i \in 1..Len(s) : s[i].at \in Nat
    BY <1>2 DEF ListRows
  <2>4. ASSUME NEW i \in 1..Len(s) PROVE s[i].at >= next
    <3>1. i = Limit \/ i < Limit
      BY <1>1, <1>3
    <3>2. CASE i = Limit
      BY <3>2, <2>2
    <3>3. CASE i < Limit
      BY <3>3, <2>1, <2>2, <1>2 DEF NewestFirst
    <3> QED
      BY <3>1, <3>2, <3>3
  <2>5. \E r \in R : r.at = next
    <3>1. s[Limit] \in R
      BY <2>1, <1>2
    <3> QED
      BY <3>1, <2>2
  <2>6. \A r \in R \ Range(s) : r.at <= next
    BY <2>1, <2>2, <1>2 DEF ListRows
  <2> QED
    BY <2>2, <2>4, <2>6, <2>5, <1>1, <1>2, <1>3 DEF PageOK
<1>4. CASE Len(s) < Limit
  BY <1>1, <1>2, <1>4 DEF PageOK
<1> QED
  BY <1>1, <1>2, <1>3, <1>4

LEMMA PagingInitInv == PagingInit => PagingInv
  BY FS_EmptySet DEF PagingInit, PagingInv, PagingTypeOK, WalkOK

\* A list that grows leaves a walk as it is.
LEMMA GrowInv ==
  ASSUME PagingInv, UNCHANGED walk,
         digests \subseteq digests', notes \subseteq notes',
         digests' \subseteq Nat, IsFiniteSet(digests'),
         notes' \subseteq ListRows, IsFiniteSet(notes'), today' \in Nat
  PROVE  PagingInv'
<1>1. PagingTypeOK'
  BY DEF PagingInv, PagingTypeOK
<1>2. \A list : Rows(list) \subseteq Rows(list)'
  BY DEF Rows
<1>3. WalkOK'
  BY <1>2 DEF PagingInv, WalkOK
<1> QED
  BY <1>1, <1>3 DEF PagingInv

LEMMA RowsFinite ==
  ASSUME PagingTypeOK, NEW list
  PROVE  Rows(list) \subseteq ListRows /\ IsFiniteSet(Rows(list))
<1>1. CASE list = "digests"
  <2>1. PICK R : R = {[id |-> d, at |-> d] : d \in digests}
    OBVIOUS
  <2>2. PICK f : f = [d \in digests |-> [id |-> d, at |-> d]]
    OBVIOUS
  <2>3. f \in Surjection(digests, R)
    BY <2>1, <2>2 DEF Surjection
  <2>4. IsFiniteSet(R)
    BY <2>3, FS_Surjection DEF PagingTypeOK
  <2>5. R \subseteq ListRows
    BY <2>1 DEF PagingTypeOK, ListRows
  <2> QED
    BY <2>1, <2>4, <2>5, <1>1 DEF Rows
<1>2. CASE list # "digests"
  BY <1>2 DEF Rows, PagingTypeOK
<1> QED
  BY <1>1, <1>2

LEMMA NewNoteInv == PagingInv /\ NewNote => PagingInv'
<1> SUFFICES ASSUME PagingInv, NewNote PROVE PagingInv'
  OBVIOUS
<1>1. PICK at \in {t \in {today - 1, today} : t >= 0} :
        notes' = notes \cup {[id |-> Cardinality(notes) + 1, at |-> at]}
  BY DEF NewNote
<1>2. PICK row : row = [id |-> Cardinality(notes) + 1, at |-> at]
  OBVIOUS
<1>3. IsFiniteSet(notes) /\ Cardinality(notes) \in Nat /\ at \in Nat
  BY <1>1, FS_CardinalityType DEF PagingInv, PagingTypeOK
<1>4. row \in ListRows
  BY <1>2, <1>3 DEF ListRows
<1>5. notes' = notes \cup {row}
  BY <1>1, <1>2
<1>6. IsFiniteSet(notes')
  BY <1>3, <1>5, FS_AddElement
<1> QED
  BY <1>4, <1>5, <1>6, GrowInv DEF NewNote, PagingInv, PagingTypeOK

LEMMA BeginWalkInv ==
  ASSUME PagingInv, NEW list \in {"digests", "notifications"}, BeginWalk(list)
  PROVE  PagingInv'
<1>1. walk' = [list |-> list, cursor |-> NoCursor, begun |-> FALSE,
               had |-> Rows(list), seen |-> <<>>, cut |-> {}]
  BY DEF BeginWalk
<1>2. Rows(list) \subseteq ListRows
  BY RowsFinite DEF PagingInv
<1>3. walk' \in Walks
  BY <1>1, <1>2 DEF Walks
<1>4. PagingTypeOK'
  BY <1>3 DEF BeginWalk, PagingInv, PagingTypeOK
<1>5. Rows(list)' = Rows(list)
  BY DEF BeginWalk, Rows
<1>6. /\ walk'.had = Rows(list) /\ walk'.list = list /\ walk'.begun = FALSE
      /\ walk'.seen = <<>> /\ walk'.cursor = NoCursor
  BY <1>1
<1>7. NewestFirst(<<>>)
  BY DEF NewestFirst
<1>8. WalkOK'
  BY <1>5, <1>6, <1>7 DEF WalkOK
<1> QED
  BY <1>4, <1>8 DEF PagingInv

\* A page of older rows goes behind what was shown.
LEMMA ShownOn ==
  ASSUME NEW seen \in Seq(ListRows), NEW onPage \in Seq(ListRows),
         NewestFirst(seen), NewestFirst(onPage),
         \A i \in 1..Len(seen), j \in 1..Len(onPage) : seen[i].at > onPage[j].at
  PROVE  /\ seen \o onPage \in Seq(ListRows)
         /\ NewestFirst(seen \o onPage)
         /\ Range(seen \o onPage) = Range(seen) \cup Range(onPage)
         /\ \A c \in Nat : (\A i \in 1..Len(seen) : seen[i].at >= c)
                             /\ (\A j \in 1..Len(onPage) : onPage[j].at >= c)
              => \A i \in 1..Len(seen \o onPage) : (seen \o onPage)[i].at >= c
<1>1. PICK all \in Seq(ListRows) : all = seen \o onPage
  BY ConcatProperties
<1>2. PICK m, n \in Nat : m = Len(seen) /\ n = Len(onPage)
  OBVIOUS
<1>3. Len(all) = m + n
  BY <1>1, <1>2, ConcatProperties
<1>4. \A i \in 1..(m + n) :
        \/ i \in 1..m /\ all[i] = seen[i]
        \/ i - m \in 1..n /\ all[i] = onPage[i - m]
  BY <1>1, <1>2, ConcatProperties
<1>5. ASSUME NEW i \in 1..m PROVE seen[i].at \in Nat
  <2>1. seen[i] \in ListRows
    BY <1>2
  <2> QED
    BY <2>1 DEF ListRows
<1>6. ASSUME NEW i \in 1..n PROVE onPage[i].at \in Nat
  <2>1. onPage[i] \in ListRows
    BY <1>2
  <2> QED
    BY <2>1 DEF ListRows
<1>7. \A i \in 1..m, j \in 1..n : seen[i].at > onPage[j].at /\ seen[i] # onPage[j]
  BY <1>2, <1>5, <1>6
<1>8. ASSUME NEW i \in 1..(m + n), NEW j \in 1..(m + n), all[i] = all[j] PROVE i = j
  <2>1. CASE i \in 1..m /\ all[i] = seen[i] /\ j \in 1..m /\ all[j] = seen[j]
    BY <2>1, <1>2, <1>8 DEF NewestFirst
  <2>2. CASE i \in 1..m /\ all[i] = seen[i] /\ j - m \in 1..n /\ all[j] = onPage[j - m]
    BY <2>2, <1>7, <1>8
  <2>3. CASE i - m \in 1..n /\ all[i] = onPage[i - m] /\ j \in 1..m /\ all[j] = seen[j]
    BY <2>3, <1>7, <1>8
  <2>4. CASE i - m \in 1..n /\ all[i] = onPage[i - m] /\ j - m \in 1..n /\ all[j] = onPage[j - m]
    <3>1. i - m = j - m
      BY <2>4, <1>2, <1>8 DEF NewestFirst
    <3> QED
      BY <3>1, <1>2
  <2> QED
    BY <2>1, <2>2, <2>3, <2>4, <1>4
<1>9. ASSUME NEW i \in 1..(m + n), NEW j \in 1..(m + n), i < j PROVE all[i].at >= all[j].at
  <2>1. CASE i \in 1..m /\ all[i] = seen[i] /\ j \in 1..m /\ all[j] = seen[j]
    BY <2>1, <1>2, <1>9 DEF NewestFirst
  <2>2. CASE i \in 1..m /\ all[i] = seen[i] /\ j - m \in 1..n /\ all[j] = onPage[j - m]
    <3>1. seen[i].at \in Nat /\ onPage[j - m].at \in Nat /\ seen[i].at > onPage[j - m].at
      BY <2>2, <1>5, <1>6, <1>7
    <3> QED
      BY <3>1, <2>2
  <2>3. CASE i - m \in 1..n /\ all[i] = onPage[i - m] /\ j - m \in 1..n /\ all[j] = onPage[j - m]
    <3>1. i - m < j - m
      BY <1>2, <1>9
    <3>2. onPage[i - m].at >= onPage[j - m].at
      BY <3>1, <2>3, <1>2 DEF NewestFirst
    <3> QED
      BY <3>2, <2>3
  <2>4. ~(i - m \in 1..n /\ j \in 1..m)
    BY <1>2, <1>9
  <2> QED
    BY <2>1, <2>2, <2>3, <2>4, <1>4
<1>10. NewestFirst(all)
  BY <1>3, <1>8, <1>9 DEF NewestFirst
<1>11. Range(all) = Range(seen) \cup Range(onPage)
  BY <1>1, ConcatProperties, RangeConcatenation
<1>12. ASSUME NEW c \in Nat, \A i \in 1..m : seen[i].at >= c, \A j \in 1..n : onPage[j].at >= c,
              NEW i \in 1..(m + n)
       PROVE  all[i].at >= c
  BY <1>4, <1>12
<1> QED
  BY <1>1, <1>2, <1>3, <1>10, <1>11, <1>12

LEMMA ReadPageInv == PagingInv /\ ReadPage => PagingInv'
<1> SUFFICES ASSUME PagingInv, ReadPage PROVE PagingInv'
  OBVIOUS
<1>1. PICK w \in Walks : w = walk
  BY DEF PagingInv, PagingTypeOK, ReadPage
<1>2. PICK R : R = Older(Rows(w.list), w.cursor)
  OBVIOUS
<1>3. R \subseteq Rows(w.list) /\ R \in SUBSET ListRows /\ IsFiniteSet(R)
  BY <1>2, RowsFinite, FS_Subset DEF Older, PagingInv
<1>4. \A r \in Rows(w.list) : w.cursor = NoCursor \/ r.at < w.cursor <=> r \in R
  BY <1>2 DEF Older
<1>5. PICK onPage, next :
        /\ PageOK(R, onPage, next)
        /\ walk' = [w EXCEPT !.begun = TRUE, !.cursor = next,
                             !.seen = w.seen \o onPage, !.cut = w.cut \cup {next}]
  <2>1. CASE w.list = "digests"
    <3>1. PICK page \in DigestPages(w.cursor) :
            walk' = [walk EXCEPT !.begun = TRUE, !.cursor = page.next,
                                 !.seen = @ \o page.rows, !.cut = @ \cup {page.next}]
      BY <1>1, <2>1 DEF ReadPage
    <3>2. PICK s \in Top(R, Limit + 1) :
            page = [rows |-> SubSeq(s, 1, Limited(Limit, Len(s))),
                    next |-> IF Len(s) > Limit THEN s[Limit + 1].at ELSE NoCursor]
      BY <3>1, <1>2, <2>1 DEF DigestPages
    <3>3. PageOK(R, page.rows, page.next)
      BY <3>2, <1>3, DigestPage
    <3> QED
      BY <3>1, <3>3, <1>1
  <2>2. CASE w.list # "digests"
    <3>1. PICK page \in NotificationPages(w.cursor) :
            walk' = [walk EXCEPT !.begun = TRUE, !.cursor = page.next,
                                 !.seen = @ \o page.rows, !.cut = @ \cup {page.next}]
      BY <1>1, <2>2 DEF ReadPage
    <3>2. PICK s \in Top(R, Limit) :
            page = [rows |-> s, next |-> IF Len(s) = Limit THEN Last(s).at ELSE NoCursor]
      BY <3>1, <1>2, <2>2 DEF NotificationPages, Rows
    <3>3. PageOK(R, page.rows, page.next)
      BY <3>2, <1>3, NotificationPage
    <3> QED
      BY <3>1, <3>3, <1>1
  <2> QED
    BY <2>1, <2>2
<1>6. /\ w.seen \in Seq(ListRows) /\ w.cursor \in Nat \cup {NoCursor} /\ w.begun \in BOOLEAN
      /\ w.had \in SUBSET ListRows /\ w.cut \in SUBSET (Nat \cup {NoCursor})
      /\ w.list \in {"digests", "notifications"}
  BY DEF Walks
<1>7. w # NoWalk /\ ~(w.begun /\ w.cursor = NoCursor)
  BY <1>1 DEF ReadPage, Ended
<1>8. /\ w.had \subseteq Rows(w.list)
      /\ ~w.begun => w.seen = <<>> /\ w.cursor = NoCursor
      /\ NewestFirst(w.seen)
      /\ w.cursor # NoCursor => \A i \in 1..Len(w.seen) : w.seen[i].at >= w.cursor
      /\ w.begun => \A row \in w.had \ Range(w.seen) :
           row.at \in w.cut \/ (w.cursor # NoCursor /\ row.at < w.cursor)
  BY <1>1, <1>7 DEF PagingInv, WalkOK
<1>9. /\ onPage \in Seq(R) /\ onPage \in Seq(ListRows) /\ next \in Nat \cup {NoCursor}
      /\ NewestFirst(onPage)
      /\ next # NoCursor => /\ \A i \in 1..Len(onPage) : onPage[i].at >= next
                            /\ \E r \in R : r.at = next
      /\ \A r \in R \ Range(onPage) : next # NoCursor /\ r.at <= next
  BY <1>5 DEF PageOK
<1>10. ASSUME NEW i \in 1..Len(w.seen), NEW j \in 1..Len(onPage)
       PROVE  w.seen[i].at > onPage[j].at
  <2>1. w.begun /\ w.cursor # NoCursor /\ w.cursor \in Nat
    BY <1>6, <1>7, <1>8
  <2>2. w.seen[i].at >= w.cursor /\ w.seen[i].at \in Nat
    <3>1. w.seen[i] \in ListRows
      BY <1>6
    <3> QED
      BY <3>1, <2>1, <1>8 DEF ListRows
  <2>3. onPage[j] \in R
    BY <1>9
  <2>4. onPage[j].at < w.cursor /\ onPage[j].at \in Nat
    BY <2>1, <2>3, <1>3, <1>4 DEF ListRows
  <2> QED
    BY <2>1, <2>2, <2>4
<1>11. PICK seen : seen = w.seen \o onPage
  OBVIOUS
<1>12. /\ seen \in Seq(ListRows) /\ NewestFirst(seen)
       /\ Range(seen) = Range(w.seen) \cup Range(onPage)
       /\ \A c \in Nat : (\A i \in 1..Len(w.seen) : w.seen[i].at >= c)
                           /\ (\A j \in 1..Len(onPage) : onPage[j].at >= c)
            => \A i \in 1..Len(seen) : seen[i].at >= c
  BY <1>6, <1>8, <1>9, <1>10, <1>11, ShownOn
<1>13. walk' = [w EXCEPT !.begun = TRUE, !.cursor = next, !.seen = seen,
                         !.cut = w.cut \cup {next}]
  BY <1>5, <1>11
<1>14. /\ walk'.list = w.list /\ walk'.had = w.had /\ walk'.begun = TRUE
       /\ walk'.cursor = next /\ walk'.seen = seen /\ walk'.cut = w.cut \cup {next}
  BY <1>13 DEF Walks
<1>15. walk' \in Walks
  BY <1>6, <1>9, <1>12, <1>13 DEF Walks
<1>16. PagingTypeOK'
  BY <1>15 DEF ReadPage, PagingInv, PagingTypeOK
<1>17. ASSUME next # NoCursor, NEW i \in 1..Len(seen) PROVE seen[i].at >= next
  <2>1. next \in Nat
    BY <1>9, <1>17
  <2>2. ASSUME NEW k \in 1..Len(w.seen) PROVE w.seen[k].at >= next
    <3>1. w.cursor # NoCursor /\ w.cursor \in Nat /\ w.seen[k].at >= w.cursor
      BY <1>6, <1>7, <1>8
    <3>2. PICK r \in R : r.at = next
      BY <1>9, <1>17
    <3>3. r.at < w.cursor
      BY <3>1, <1>3, <1>4
    <3>4. w.seen[k] \in ListRows
      BY <1>6
    <3>5. w.seen[k].at \in Nat
      BY <3>4 DEF ListRows
    <3> QED
      BY <3>1, <3>2, <3>3, <3>5, <2>1
  <2> QED
    BY <2>1, <2>2, <1>9, <1>12, <1>17
<1>18. ASSUME NEW row \in w.had, row \notin Range(seen)
       PROVE  row.at \in w.cut \cup {next} \/ (next # NoCursor /\ row.at < next)
  <2>1. row \notin Range(w.seen) /\ row \notin Range(onPage) /\ row \in Rows(w.list)
    BY <1>8, <1>12, <1>18
  <2>2. CASE row \in R
    <3>1. next # NoCursor /\ row.at <= next /\ next \in Nat /\ row.at \in Nat
      BY <2>1, <2>2, <1>3, <1>9 DEF ListRows
    <3> QED
      BY <3>1
  <2>3. CASE row \notin R
    BY <2>1, <2>3, <1>4, <1>7, <1>8
  <2> QED
    BY <2>2, <2>3
<1>19. Rows(w.list)' = Rows(w.list)
  BY DEF ReadPage, Rows
<1>20. WalkOK'
  BY <1>8, <1>12, <1>14, <1>17, <1>18, <1>19 DEF WalkOK
<1> QED
  BY <1>16, <1>20 DEF PagingInv

\* From a page to the next, and while lists grow, a walk keeps WalkOK.
LEMMA PagingNextInv == PagingInv /\ [PagingNext]_pagingVars => PagingInv'
<1> SUFFICES ASSUME PagingInv, [PagingNext]_pagingVars PROVE PagingInv'
  OBVIOUS
<1>1. CASE UNCHANGED pagingVars
  BY <1>1, GrowInv DEF pagingVars, PagingInv, PagingTypeOK
<1>2. CASE NewDigest
  <2>1. digests' = digests \cup {today} /\ IsFiniteSet(digests')
    BY <1>2, FS_AddElement DEF NewDigest, PagingInv, PagingTypeOK
  <2> QED
    BY <2>1, <1>2, GrowInv DEF NewDigest, PagingInv, PagingTypeOK
<1>3. CASE NewNote
  BY <1>3, NewNoteInv
<1>4. CASE NextDay
  BY <1>4, GrowInv DEF NextDay, PagingInv, PagingTypeOK
<1>5. ASSUME NEW list \in {"digests", "notifications"}, BeginWalk(list) PROVE PagingInv'
  BY <1>5, BeginWalkInv
<1>6. CASE ReadPage
  BY <1>6, ReadPageInv
<1>7. CASE EndWalk
  <2>1. WalkOK'
    BY <1>7 DEF EndWalk, WalkOK
  <2> QED
    BY <2>1, <1>7 DEF EndWalk, PagingInv, PagingTypeOK
<1> QED
  BY <1>1, <1>2, <1>3, <1>4, <1>5, <1>6, <1>7 DEF PagingNext

\* The invariant of a walk through digests or notifications: the cursor splits
\* what was shown from what is to come.
THEOREM SpecPagingInv == PagingSpec => []PagingInv
  BY PagingInitInv, PagingNextInv, PTL DEF PagingSpec

\* A walk that is over has shown rows newest first and none twice, and lost
\* none but those with the time of a cursor, for any page size, any rows and
\* whatever is added in between (list_digests, list_notifications).
THEOREM SpecLostOnlyAtBoundaries == PagingSpec => []LostOnlyAtBoundaries
<1>1. ASSUME PagingInv PROVE LostOnlyAtBoundaries
  <2>1. SUFFICES ASSUME Ended
                 PROVE  /\ IsInjective(walk.seen)
                        /\ \A i, j \in DOMAIN walk.seen : i < j => walk.seen[i].at >= walk.seen[j].at
                        /\ \A row \in walk.had \ Range(walk.seen) : row.at \in walk.cut
    BY DEF LostOnlyAtBoundaries
  <2>2. walk \in Walks /\ walk # NoWalk /\ walk.begun /\ walk.cursor = NoCursor
    BY <1>1, <2>1 DEF Ended, PagingInv, PagingTypeOK
  <2>3. walk.seen \in Seq(ListRows)
    BY <2>2 DEF Walks
  <2>4. DOMAIN walk.seen = 1..Len(walk.seen)
    BY <2>3
  <2> QED
    BY <1>1, <2>2, <2>4 DEF PagingInv, WalkOK, NewestFirst, IsInjective
<1> QED
  BY <1>1, SpecPagingInv, PTL

-----------------------------------------------------------------------------
(* The bell. *)

\* A list as the service may have answered with, now or earlier: when there
\* were `size` notifications and those of `seen` were read.
AnswerOf(items, size, seen) ==
  items \subseteq {[id |-> n, read |-> n \in seen] : n \in Dropdown(size)}
OnceHeld(items) ==
  \E size \in 0..inbox : \E seen \in SUBSET read : AnswerOf(items, size, seen)

BellInv ==
  /\ inbox \in Nat
  /\ DOMAIN fetch = Fetches
  /\ OnceHeld(shown)
  /\ \A f \in Fetches : fetch[f] # NoRequest /\ fetch[f].answered => OnceHeld(fetch[f].items)

\* What was an answer stays one while notifications come and are read.
LEMMA AnswerStays ==
  ASSUME inbox \in Nat, inbox' \in Nat, inbox <= inbox', read \subseteq read',
         NEW items, OnceHeld(items), NEW less \in SUBSET items
  PROVE  OnceHeld(less)'
<1>1. PICK size \in 0..inbox : \E seen \in SUBSET read : AnswerOf(items, size, seen)
  BY DEF OnceHeld
<1>2. PICK seen \in SUBSET read : AnswerOf(items, size, seen)
  BY <1>1
<1>3. size \in 0..inbox' /\ seen \in SUBSET read'
  OBVIOUS
<1>4. AnswerOf(less, size, seen)
  BY <1>2 DEF AnswerOf
<1>5. \E m \in 0..inbox' : \E s \in SUBSET read' : AnswerOf(less, m, s)
  BY <1>3, <1>4
<1> QED
  BY <1>5 DEF OnceHeld, AnswerOf, Dropdown

LEMMA TruthIsAnswer == ASSUME inbox \in Nat PROVE OnceHeld(Truth)
<1>1. AnswerOf(Truth, inbox, read)
  BY DEF AnswerOf, Truth, Note
<1>2. inbox \in 0..inbox /\ read \in SUBSET read
  OBVIOUS
<1> QED
  BY <1>1, <1>2 DEF OnceHeld

\* Steps that leave requests as they are, or end or begin one.
LEMMA BellKeeps ==
  ASSUME BellInv, inbox' \in Nat, inbox <= inbox', read \subseteq read', DOMAIN fetch' = Fetches,
         \/ shown' \subseteq shown
         \/ \E f \in Fetches : fetch[f] # NoRequest /\ fetch[f].answered /\ shown' = fetch[f].items,
         \A f \in Fetches :
           \/ fetch'[f] = fetch[f]
           \/ fetch'[f] = NoRequest
           \/ ~fetch'[f].answered
  PROVE  BellInv'
<1>1. OnceHeld(shown)'
  <2>1. CASE shown' \subseteq shown
    <3>1. PICK less \in SUBSET shown : less = shown'
      BY <2>1
    <3>2. PICK items : items = shown
      OBVIOUS
    <3>3. OnceHeld(less)'
      BY <3>1, <3>2, AnswerStays DEF BellInv
    <3> QED
      BY <3>1, <3>3 DEF OnceHeld
  <2>2. CASE \E f \in Fetches : fetch[f] # NoRequest /\ fetch[f].answered /\ shown' = fetch[f].items
    <3>1. PICK f \in Fetches : fetch[f] # NoRequest /\ fetch[f].answered /\ shown' = fetch[f].items
      BY <2>2
    <3>2. PICK items : items = fetch[f].items
      OBVIOUS
    <3>3. OnceHeld(items)
      BY <3>1, <3>2 DEF BellInv
    <3>4. OnceHeld(items)'
      BY <3>3, AnswerStays DEF BellInv
    <3> QED
      BY <3>1, <3>2, <3>4 DEF OnceHeld
  <2> QED
    BY <2>1, <2>2
<1>2. ASSUME NEW f \in Fetches, fetch'[f] # NoRequest, fetch'[f].answered
      PROVE  OnceHeld(fetch[f].items)'
  <2>1. fetch'[f] = fetch[f]
    BY <1>2
  <2>2. PICK items : items = fetch[f].items
    OBVIOUS
  <2>3. OnceHeld(items)
    BY <2>1, <2>2, <1>2 DEF BellInv
  <2>4. OnceHeld(items)'
    BY <2>3, AnswerStays DEF BellInv
  <2> QED
    BY <2>1, <2>2, <2>4 DEF OnceHeld
<1> QED
  BY <1>1, <1>2 DEF BellInv

\* The inductive invariant of the bell: the data and every answer on its way
\* are lists the service once held, for any number of requests.
THEOREM SpecBellInv == BellSpec => []BellInv
<1>1. BellInit => BellInv
  <2> SUFFICES ASSUME BellInit PROVE BellInv
    OBVIOUS
  <2>1. PICK g \in Fetches : fetch = [f \in Fetches |-> IF f = g THEN Asked ELSE NoRequest]
    BY DEF BellInit
  <2>2. inbox = 0 /\ shown = {} /\ read = {}
    BY DEF BellInit
  <2>3. OnceHeld(shown)
    <3>1. 0 \in 0..inbox /\ {} \in SUBSET read /\ AnswerOf(shown, 0, {})
      BY <2>2 DEF AnswerOf
    <3> QED
      BY <3>1 DEF OnceHeld
  <2>4. ASSUME NEW f \in Fetches PROVE fetch[f] = NoRequest \/ ~fetch[f].answered
    BY <2>1 DEF Asked
  <2> QED
    BY <2>1, <2>2, <2>3, <2>4 DEF BellInv
<1>2. BellInv /\ [BellNext]_bellVars => BellInv'
  <2> SUFFICES ASSUME BellInv, [BellNext]_bellVars PROVE BellInv'
    OBVIOUS
  <2> USE DEF BellInv
  <2>1. ASSUME Ask
        PROVE  /\ DOMAIN fetch' = Fetches
               /\ \A f \in Fetches : fetch'[f] = fetch[f] \/ ~fetch'[f].answered
    BY <2>1 DEF Ask, Asked
  <2>2. ASSUME NEW f \in Fetches, fetch' = [fetch EXCEPT ![f] = NoRequest]
        PROVE  /\ DOMAIN fetch' = Fetches
               /\ \A g \in Fetches : fetch'[g] = fetch[g] \/ fetch'[g] = NoRequest
    BY <2>2
  <2>3. CASE UNCHANGED bellVars
    BY <2>3, BellKeeps DEF bellVars
  <2>4. CASE Arrive
    BY <2>4, BellKeeps DEF Arrive, browser
  <2>5. CASE Poll \/ Hide \/ Show
    BY <2>1, <2>5, BellKeeps DEF Poll, Hide, Show, browser
  <2>6. ASSUME NEW f \in Fetches, List(f) PROVE BellInv'
    <3>1. PICK items : items = Truth
      OBVIOUS
    <3>2. fetch' = [fetch EXCEPT ![f] = [answered |-> TRUE, items |-> items]]
      BY <2>6, <3>1 DEF List
    <3>3. UNCHANGED <<inbox, read, shown>>
      BY <2>6 DEF List
    <3>4. OnceHeld(items)
      BY <3>1, TruthIsAnswer
    <3>5. DOMAIN fetch' = Fetches /\ fetch'[f].items = items
      BY <3>2
    <3>6. \A g \in Fetches : g # f => fetch'[g] = fetch[g]
      BY <3>2
    <3>7. OnceHeld(shown)' /\ OnceHeld(items)'
      BY <3>3, <3>4 DEF OnceHeld
    <3>8. ASSUME NEW g \in Fetches, fetch'[g] # NoRequest, fetch'[g].answered
          PROVE  OnceHeld(fetch[g].items)'
      <4>1. CASE g = f
        BY <4>1, <3>5, <3>7 DEF OnceHeld
      <4>2. CASE g # f
        <5>1. fetch'[g] = fetch[g]
          BY <4>2, <3>6
        <5> QED
          BY <5>1, <3>3, <3>8 DEF OnceHeld
      <4> QED
        BY <4>1, <4>2
    <3> QED
      BY <3>3, <3>5, <3>7, <3>8
  <2>7. ASSUME NEW f \in Fetches, Deliver(f) PROVE BellInv'
    BY <2>2, <2>7, BellKeeps DEF Deliver, browser
  <2>8. ASSUME NEW f \in Fetches, FetchFails(f) PROVE BellInv'
    BY <2>2, <2>8, BellKeeps DEF FetchFails, browser
  <2>9. ASSUME NEW n, Click(n) \/ Mark(n) PROVE BellInv'
    BY <2>9, BellKeeps DEF Click, Mark
  <2>10. ASSUME NEW n, MarkFails(n) PROVE BellInv'
    <3>1. read \subseteq read'
      BY <2>10 DEF MarkFails
    <3> QED
      BY <2>1, <2>10, <3>1, BellKeeps DEF MarkFails
  <2> QED
    BY <2>3, <2>4, <2>5, <2>6, <2>7, <2>8, <2>9, <2>10 DEF BellNext
<1> QED
  BY <1>1, <1>2, PTL DEF BellSpec

\* The bell shows one answer of the service, less what was clicked since
\* (OneAnswer).
THEOREM SpecOneAnswer == BellSpec => []OneAnswer
<1>1. BellInv => OneAnswer
  <2> SUFFICES ASSUME BellInv PROVE OneAnswer
    OBVIOUS
  <2>1. PICK size \in 0..inbox : \E seen \in SUBSET read : AnswerOf(shown, size, seen)
    BY DEF BellInv, OnceHeld
  <2>2. PICK seen \in SUBSET read : AnswerOf(shown, size, seen)
    BY <2>1
  <2>3. inbox \in Nat /\ DropdownLimit \in Nat
    BY BellAssumption DEF BellInv
  <2>4. ASSUME NEW item \in shown
        PROVE  /\ item.id \in 1..size /\ item.id > size - DropdownLimit
               /\ item = [id |-> item.id, read |-> item.id \in seen]
    <3>1. PICK n \in Dropdown(size) : item = [id |-> n, read |-> n \in seen]
      BY <2>2 DEF AnswerOf
    <3>2. item.id = n
      BY <3>1
    <3> QED
      BY <3>1, <3>2 DEF Dropdown
  <2>5. ASSUME NEW item \in shown PROVE item.id \in 1..inbox /\ (item.read => item.id \in read)
    <3>1. PICK id : id = item.id
      OBVIOUS
    <3>2. item = [id |-> id, read |-> id \in seen] /\ id \in 1..size
      BY <3>1, <2>4
    <3>3. id \in 1..inbox
      BY <3>2, <2>3
    <3>4. item.read = (id \in seen)
      BY ONLY <3>2
    <3> QED
      BY <3>1, <3>3, <3>4
  <2>6. ASSUME NEW one \in shown, NEW other \in shown, one.id = other.id PROVE one = other
    BY <2>4, <2>6
  <2>7. ASSUME NEW one \in shown, NEW other \in shown PROVE one.id - other.id < DropdownLimit
    <3>1. PICK a, b \in 1..size : a = one.id /\ b = other.id /\ b > size - DropdownLimit
      BY <2>4
    <3> QED
      BY <3>1, <2>3
  <2> QED
    BY <2>5, <2>6, <2>7 DEF OneAnswer
<1> QED
  BY <1>1, SpecBellInv, PTL

-----------------------------------------------------------------------------
(* The playground *)

\* What embedding one text comes to: refused for what the picker shows, or
\* answered by what the provider did.
LEMMA EmbedTextAnswer ==
  ASSUME NEW p, NEW o \in Outcomes, NEW a, a = EmbedText(p, o)
  PROVE  /\ p \notin Registered => a = Refused("provider_unknown")
         /\ p \in Registered /\ ~Listed(p).key_configured => a = Refused("provider_key_missing")
         /\ p \in Registered /\ Listed(p).key_configured /\ ~Listed(p).supports_embed =>
              a = Refused("provider_does_not_support_embedding")
         /\ p \in Registered /\ Listed(p).key_configured /\ Listed(p).supports_embed =>
              a.status \in {200, 422, 500} /\ (a.status = 422 => o.kind = "nothing")
  <1>1. CASE p \notin Registered
    BY <1>1 DEF EmbedText
  <1>2. CASE p \in Registered /\ ResolvedKey(p) \in {"", Placeholder}
    BY <1>2 DEF EmbedText, Listed
  <1>3. CASE p \in Registered /\ ResolvedKey(p) \notin {"", Placeholder} /\ ~CanEmbed(p)
    BY <1>3 DEF EmbedText, Listed
  <1>4. CASE p \in Registered /\ ResolvedKey(p) \notin {"", Placeholder} /\ CanEmbed(p)
    <2>1. a = IF o = Raises THEN Broken
              ELSE IF o = Nothing THEN Refused("provider_does_not_support_embedding")
              ELSE [status |-> 200, code |-> "", vector |-> o.vector]
      BY <1>4 DEF EmbedText
    <2>2. Listed(p).key_configured /\ Listed(p).supports_embed
      BY <1>4 DEF Listed, CanEmbed
    <2>3. a.status \in {200, 422, 500} /\ (a.status = 422 => o.kind = "nothing")
      <3>1. CASE o = Raises
        BY <2>1, <3>1 DEF Broken
      <3>2. CASE o = Nothing
        BY <2>1, <3>2 DEF Refused, Raises, Nothing
      <3>3. CASE o # Raises /\ o # Nothing
        <4>1. PICK c, v : a = [status |-> 200, code |-> c, vector |-> v]
          BY <2>1, <3>3, Zenon
        <4>2. a.status = 200
          BY <4>1
        <4> QED
          BY <4>2
      <3> QED
        BY <3>1, <3>2, <3>3
    <2> QED
      BY <1>4, <2>2, <2>3
  <1> QED
    BY <1>1, <1>2, <1>3, <1>4

\* A comparison is refused as its first text is, or else as its second.
LEMMA CompareAnswer ==
  ASSUME NEW p, NEW o \in Outcomes, NEW q \in Outcomes
  PROVE  LET a == Compare(p, o, q) IN
         \/ a = EmbedText(p, o) /\ a.status # 200
         \/ a = EmbedText(p, q) /\ a.status # 200
         \/ EmbedText(p, o).status = 200 /\ a.status \in {200, 500}
  <1> DEFINE a == EmbedText(p, o)
             b == EmbedText(p, q)
             c == Compare(p, o, q)
  <1>1. CASE a.status # 200
    BY <1>1 DEF Compare
  <1>2. CASE a.status = 200 /\ b.status # 200
    BY <1>2 DEF Compare
  <1>3. CASE a.status = 200 /\ b.status = 200
    BY <1>3 DEF Compare, Broken
  <1> QED
    BY <1>1, <1>2, <1>3

\* The picker and the calls work out the same, though each on its own: whatever
\* keys are set and whatever the providers return (list_providers, embed_text and
\* similarity).
THEOREM SpecPickerPredicts == PlaySpec => []PickerPredicts
  <1>1. PlayInit => PickerPredicts
    BY DEF PlayInit, PickerPredicts
  <1>2. PickerPredicts /\ [PlayNext]_playVars => PickerPredicts'
    <2> SUFFICES ASSUME PickerPredicts, [PlayNext]_playVars PROVE PickerPredicts'
      OBVIOUS
    <2>1. CASE UNCHANGED playVars
      BY <2>1 DEF playVars, PickerPredicts, Listed, ResolvedKey
    <2>2. ASSUME NEW p, NEW kinds, NEW reply,
                 call' = [provider |-> p, upstream |-> kinds, answer |-> reply],
                 UNCHANGED keys,
                 \/ reply.status = 429
                 \/ \E o \in Outcomes : o.kind \in kinds /\ reply = EmbedText(p, o)
                 \/ /\ p \in Registered /\ Listed(p).key_configured /\ Listed(p).supports_embed
                    /\ reply.status # 422
          PROVE  PickerPredicts'
      <3>1. Listed(p)' = Listed(p)
        BY <2>2 DEF Listed, ResolvedKey
      <3> QED
        BY <2>2, <3>1, EmbedTextAnswer DEF PickerPredicts
    <2>3. CASE Embed /\ UNCHANGED keys
      <3>1. PICK p \in Registered \cup {"other"}, o \in Outcomes :
              \E reply \in {RateLimited, EmbedText(p, o)} :
                call' = [provider |-> p, upstream |-> {o.kind}, answer |-> reply]
        BY <2>3 DEF Embed
      <3> QED
        BY <2>2, <2>3, <3>1 DEF RateLimited
    <2>4. CASE Similarity /\ UNCHANGED keys
      <3>1. PICK p \in Registered \cup {"other"}, o \in Outcomes, q \in Outcomes :
              \E reply \in {RateLimited, Compare(p, o, q)} :
                call' = [provider |-> p, upstream |-> {o.kind, q.kind}, answer |-> reply]
        BY <2>4 DEF Similarity
      <3>2. EmbedText(p, o).status = 200 =>
              p \in Registered /\ Listed(p).key_configured /\ Listed(p).supports_embed
        BY EmbedTextAnswer DEF Refused
      <3> QED
        BY <2>2, <2>4, <3>1, <3>2, CompareAnswer DEF RateLimited
    <2> QED
      BY <2>1, <2>3, <2>4 DEF PlayNext
  <1> QED
    BY <1>1, <1>2, PTL DEF PlaySpec

-----------------------------------------------------------------------------
(* The metrics of the playground. *)

\* The table of the sums of the first elements of s, up to the n-th.
IsSum(s, n, g) == g[0] = 0 /\ \A i \in 1..n : g[i] = g[i - 1] + s[i]

LEMMA SumTable ==
  ASSUME NEW s \in Seq(Int)
  PROVE  \E g \in [0..Len(s) -> Int] : IsSum(s, Len(s), g)
<1> DEFINE T == {k \in Nat : k <= Len(s) => \E g \in [0..k -> Int] : IsSum(s, k, g)}
<1>1. 0 \in T
  <2>1. PICK g : g = [i \in 0..0 |-> 0]
    OBVIOUS
  <2>2. g \in [0..0 -> Int] /\ IsSum(s, 0, g)
    BY <2>1 DEF IsSum
  <2> QED
    BY <2>2
<1>2. ASSUME NEW k \in T PROVE k + 1 \in T
  <2>1. SUFFICES ASSUME k + 1 <= Len(s) PROVE \E g \in [0..(k + 1) -> Int] : IsSum(s, k + 1, g)
    OBVIOUS
  <2>2. PICK g \in [0..k -> Int] : IsSum(s, k, g)
    BY <2>1
  <2>3. PICK new \in Int : new = g[k] + s[k + 1]
    <3>1. k + 1 \in 1..Len(s) /\ k \in 0..k
      BY <2>1
    <3>2. s[k + 1] \in Int /\ g[k] \in Int
      BY <3>1, <2>2
    <3> QED
      BY <3>2
  <2>4. PICK h : h = [i \in 0..(k + 1) |-> IF i = k + 1 THEN new ELSE g[i]]
    OBVIOUS
  <2>5. h \in [0..(k + 1) -> Int]
    BY <2>3, <2>4
  <2>6. h[0] = 0 /\ \A i \in 1..k : h[i] = g[i] /\ h[i - 1] = g[i - 1]
    BY <2>2, <2>4 DEF IsSum
  <2>7. h[k + 1] = new /\ h[k] = g[k]
    BY <2>4
  <2>8. ASSUME NEW i \in 1..(k + 1) PROVE h[i] = h[i - 1] + s[i]
    <3>1. CASE i = k + 1
      BY <3>1, <2>3, <2>7
    <3>2. CASE i \in 1..k
      BY <3>2, <2>6, <2>2 DEF IsSum
    <3> QED
      BY <3>1, <3>2
  <2>9. IsSum(s, k + 1, h)
    BY <2>6, <2>8 DEF IsSum
  <2> QED
    BY <2>5, <2>9
<1>3. T = Nat
  BY <1>1, <1>2, SetInduction
<1> QED
  BY <1>3

\* Total is the last entry of that table.
LEMMA TotalIs ==
  ASSUME NEW s \in Seq(Int)
  PROVE  \E g \in [0..Len(s) -> Int] : IsSum(s, Len(s), g) /\ Total(s) = g[Len(s)]
<1> DEFINE F == CHOOSE F : F = [i \in 0..Len(s) |-> IF i = 0 THEN 0 ELSE F[i - 1] + s[i]]
<1>1. Len(s) \in Nat
  OBVIOUS
<1> HIDE DEF F
<1>2. PICK g \in [0..Len(s) -> Int] : IsSum(s, Len(s), g)
  BY SumTable
<1>3. ASSUME NEW i \in 0..Len(s) PROVE g[i] = IF i = 0 THEN 0 ELSE g[i - 1] + s[i]
  <2>1. CASE i = 0
    BY <2>1, <1>2 DEF IsSum
  <2>2. CASE i \in 1..Len(s)
    BY <2>2, <1>2 DEF IsSum
  <2> QED
    BY <1>1, <2>1, <2>2
<1>4. g = [i \in 0..Len(s) |-> IF i = 0 THEN 0 ELSE g[i - 1] + s[i]]
  BY <1>2, <1>3
<1>5. F = [i \in 0..Len(s) |-> IF i = 0 THEN 0 ELSE F[i - 1] + s[i]]
  BY <1>4 DEF F
<1>6. \A i \in 0..Len(s) : F[i] = IF i = 0 THEN 0 ELSE F[i - 1] + s[i]
  BY <1>5, Zenon
<1> DEFINE T == {k \in Nat : k <= Len(s) => F[k] = g[k]}
<1>7. 0 \in T
  BY <1>1, <1>2, <1>6 DEF IsSum
<1>8. ASSUME NEW k \in T PROVE k + 1 \in T
  <2>1. SUFFICES ASSUME k + 1 <= Len(s) PROVE F[k + 1] = g[k + 1]
    OBVIOUS
  <2>2. k + 1 \in 0..Len(s) /\ k + 1 \in 1..Len(s) /\ k + 1 # 0 /\ (k + 1) - 1 = k /\ F[k] = g[k]
    BY <2>1, <1>1
  <2>3. F[k + 1] = F[k] + s[k + 1]
    BY <2>2, <1>6
  <2> QED
    BY <2>2, <2>3, <1>2 DEF IsSum
<1>9. T = Nat
  BY <1>7, <1>8, SetInduction
<1>10. F[Len(s)] = g[Len(s)]
  BY <1>1, <1>9
<1>11. Total(s) = F[Len(s)]
  BY DEF Total, F
<1> QED
  BY <1>2, <1>10, <1>11

\* A square is never negative, and zero only for zero.
LEMMA Squares == ASSUME NEW e \in Int PROVE e * e >= 0 /\ (e * e = 0 => e = 0)
<1>1. CASE e >= 1
  BY <1>1
<1>2. CASE e <= -1
  BY <1>2
<1> QED
  BY <1>1, <1>2

\* What adding one coordinate does to the product of two sums of squares.
LEMMA CauchyStep ==
  ASSUME NEW A \in Nat, NEW B \in Nat, NEW P \in Int, NEW x \in Int, NEW y \in Int,
         P * P <= A * B
  PROVE  (P + x * y) * (P + x * y) <= (A + x * x) * (B + y * y)
<1>1. PICK X \in Int : X = A * (y * y)
  OBVIOUS
<1>2. PICK Y \in Int : Y = B * (x * x)
  OBVIOUS
<1>3. PICK z \in Int : z = x * y
  OBVIOUS
<1>4. X >= 0 /\ Y >= 0
  <2>1. x * x >= 0 /\ y * y >= 0
    OBVIOUS
  <2> QED
    BY <2>1, <1>1, <1>2
<1>5. (P * P) * (z * z) <= (A * B) * (z * z)
  <2>1. PICK q \in Nat : q = z * z
    OBVIOUS
  <2>2. \A r, t \in Int : r <= t => r * q <= t * q
    OBVIOUS
  <2> QED
    BY <2>1, <2>2
<1>6. (A * B) * (z * z) = X * Y
  BY <1>1, <1>2, <1>3
<1>7. (P * z) * (P * z) <= X * Y
  <2>1. (P * z) * (P * z) = (P * P) * (z * z)
    OBVIOUS
  <2> QED
    BY <2>1, <1>5, <1>6
<1>8. 2 * (P * z) <= X + Y
  <2>1. PICK w \in Int : w = P * z
    OBVIOUS
  <2>2. SUFFICES ASSUME 2 * w > X + Y PROVE FALSE
    BY <2>1
  <2>3. (2 * w) * (2 * w) > (X + Y) * (X + Y)
    BY <2>2, <1>4
  <2>4. (X + Y) * (X + Y) - 4 * (X * Y) = (X - Y) * (X - Y)
    OBVIOUS
  <2>5. (X - Y) * (X - Y) >= 0
    OBVIOUS
  <2>6. (2 * w) * (2 * w) = 4 * (w * w) /\ w * w <= X * Y
    BY <2>1, <1>7
  <2> QED
    BY <2>3, <2>4, <2>5, <2>6
<1>9. (P + z) * (P + z) = P * P + 2 * (P * z) + z * z
  OBVIOUS
<1>10. (A + x * x) * (B + y * y) = A * B + X + Y + z * z
  BY <1>1, <1>2, <1>3
<1> QED
  BY <1>3, <1>8, <1>9, <1>10

\* The three sums of a comparison: the square of a difference, the inequality
\* of Cauchy and Schwarz, and what a sum of squares that is zero says.
LEMMA Metrics ==
  ASSUME NEW a \in Seq(Int), NEW b \in Seq(Int), Len(a) = Len(b)
  PROVE  /\ Dot(a, a) \in Nat /\ Dot(b, b) \in Nat /\ Dot(a, b) \in Int
         /\ Dot(a, b) * Dot(a, b) <= Dot(a, a) * Dot(b, b)
         /\ Distance(a, b) = Dot(a, a) + Dot(b, b) - 2 * Dot(a, b)
         /\ Distance(a, b) = 0 => a = b
<1>1. PICK n \in Nat : n = Len(a) /\ n = Len(b)
  OBVIOUS
<1>2. \A i \in 1..n : a[i] \in Int /\ b[i] \in Int
  BY <1>1
<1>3. PICK aa, bb, ab, dd :
        /\ aa = [i \in 1..n |-> a[i] * a[i]] /\ bb = [i \in 1..n |-> b[i] * b[i]]
        /\ ab = [i \in 1..n |-> a[i] * b[i]]
        /\ dd = [i \in 1..n |-> (a[i] - b[i]) * (a[i] - b[i])]
  OBVIOUS
<1>4. /\ aa \in [1..n -> Int] /\ bb \in [1..n -> Int]
      /\ ab \in [1..n -> Int] /\ dd \in [1..n -> Int]
  BY <1>2, <1>3
<1>5. \A s \in [1..n -> Int] : s \in Seq(Int) /\ Len(s) = n
  OBVIOUS
<1>6. PICK A \in [0..n -> Int] : IsSum(aa, n, A) /\ Total(aa) = A[n]
  BY <1>4, <1>5, TotalIs
<1>7. PICK B \in [0..n -> Int] : IsSum(bb, n, B) /\ Total(bb) = B[n]
  BY <1>4, <1>5, TotalIs
<1>8. PICK P \in [0..n -> Int] : IsSum(ab, n, P) /\ Total(ab) = P[n]
  BY <1>4, <1>5, TotalIs
<1>9. PICK S \in [0..n -> Int] : IsSum(dd, n, S) /\ Total(dd) = S[n]
  BY <1>4, <1>5, TotalIs
<1>10. /\ Dot(a, a) = A[n] /\ Dot(b, b) = B[n] /\ Dot(a, b) = P[n]
       /\ Distance(a, b) = S[n]
  <2>1. DOMAIN a = 1..n /\ DOMAIN b = 1..n
    BY <1>1
  <2> QED
    BY <2>1, <1>3, <1>6, <1>7, <1>8, <1>9 DEF Dot, Distance
<1> DEFINE Agree(k) ==
             /\ A[k] >= 0 /\ B[k] >= 0 /\ S[k] >= 0
             /\ P[k] * P[k] <= A[k] * B[k]
             /\ S[k] = A[k] + B[k] - 2 * P[k]
             /\ S[k] = 0 => \A i \in 1..k : a[i] = b[i]
           T == {k \in Nat : k <= n => Agree(k)}
<1>11. 0 \in T
  BY <1>6, <1>7, <1>8, <1>9 DEF IsSum
<1>12. ASSUME NEW k \in T PROVE k + 1 \in T
  <2> HIDE DEF Agree
  <2>1. SUFFICES ASSUME k + 1 <= n PROVE Agree(k + 1)
    OBVIOUS
  <2>2. Agree(k)
    BY <2>1
  <2>3. k + 1 \in 1..n /\ (k + 1) - 1 = k /\ k \in 0..n /\ k \in Nat
    BY <2>1
  <2>4. PICK x \in Int, y \in Int : x = a[k + 1] /\ y = b[k + 1]
    BY <2>3, <1>2
  <2>5. PICK A0 \in Nat, B0 \in Nat, P0 \in Int, S0 \in Nat :
          A0 = A[k] /\ B0 = B[k] /\ P0 = P[k] /\ S0 = S[k]
    BY <2>2, <2>3, SMTT(30) DEF Agree
  <2>6. P0 * P0 <= A0 * B0 /\ S0 = A0 + B0 - 2 * P0
    BY <2>2, <2>5 DEF Agree
  <2>7. A[k + 1] = A0 + x * x
    BY <2>3, <2>4, <2>5, <1>3, <1>6 DEF IsSum
  <2>8. B[k + 1] = B0 + y * y
    BY <2>3, <2>4, <2>5, <1>3, <1>7 DEF IsSum
  <2>9. P[k + 1] = P0 + x * y
    BY <2>3, <2>4, <2>5, <1>3, <1>8 DEF IsSum
  <2>10. S[k + 1] = S0 + (x - y) * (x - y)
    BY <2>3, <2>4, <2>5, <1>3, <1>9 DEF IsSum
  <2>11. PICK e \in Int, ee \in Int : e = x - y /\ ee = e * e /\ S[k + 1] = S0 + ee
    BY <2>10
  <2>12. P[k + 1] * P[k + 1] <= A[k + 1] * B[k + 1]
    BY <2>6, <2>7, <2>8, <2>9, CauchyStep
  <2>13. S[k + 1] = A[k + 1] + B[k + 1] - 2 * P[k + 1]
    <3>1. (x - y) * (x - y) = x * x + y * y - 2 * (x * y)
      OBVIOUS
    <3>2. PICK xx \in Int, yy \in Int, xy \in Int : xx = x * x /\ yy = y * y /\ xy = x * y
      OBVIOUS
    <3> QED
      BY <3>1, <3>2, <2>6, <2>7, <2>8, <2>9, <2>10
  <2>14. A[k + 1] >= 0 /\ B[k + 1] >= 0 /\ S[k + 1] >= 0
    <3>1. PICK xx \in Int, yy \in Int : xx = x * x /\ yy = y * y
      OBVIOUS
    <3>2. xx >= 0 /\ yy >= 0 /\ ee >= 0
      BY <3>1, <2>11, Squares
    <3>3. A[k + 1] = A0 + xx /\ B[k + 1] = B0 + yy
      BY <3>1, <2>7, <2>8
    <3>4. A0 + xx >= 0 /\ B0 + yy >= 0 /\ S0 + ee >= 0
      BY <3>2
    <3> QED
      BY <3>3, <3>4, <2>11
  <2>15. ASSUME S[k + 1] = 0, NEW i \in 1..(k + 1) PROVE a[i] = b[i]
    <3>1. ee >= 0
      BY <2>11, Squares
    <3>2. S0 = 0 /\ ee = 0
      <4>1. S0 + ee = 0
        BY <2>11, <2>15
      <4> QED
        BY <4>1, <3>1
    <3>3. e = 0
      BY <3>2, <2>11, Squares
    <3>4. x = y
      BY <3>3, <2>11
    <3>5. CASE i = k + 1
      BY <3>4, <3>5, <2>4
    <3>6. CASE i \in 1..k
      BY <3>2, <3>6, <2>2, <2>5 DEF Agree
    <3> QED
      BY <2>3, <3>5, <3>6
  <2> QED
    BY <2>12, <2>13, <2>14, <2>15 DEF Agree
<1> HIDE DEF Agree
<1>13. T = Nat
  BY <1>11, <1>12, SetInduction
<1>14. Agree(n)
  BY <1>13
<1>15. A[n] \in Int /\ B[n] \in Int /\ P[n] \in Int /\ S[n] \in Int
  OBVIOUS
<1>16. S[n] = 0 => a = b
  <2>1. SUFFICES ASSUME S[n] = 0 PROVE a = b
    OBVIOUS
  <2>2. \A i \in 1..n : a[i] = b[i]
    BY <2>1, <1>14 DEF Agree
  <2> QED
    BY <2>2, <1>1, SeqEqual
<1> QED
  BY <1>10, <1>14, <1>15, <1>16 DEF Agree

\* The cosine of any two vectors is a fraction from -1 to 1.
LEMMA CosineBounds ==
  ASSUME NEW a \in Seq(Int), NEW b \in Seq(Int), Len(a) = Len(b)
  PROVE  Cosine(a, b).den > 0 /\ Cosine(a, b).num <= Cosine(a, b).den
<1>1. PICK A \in Nat, B \in Nat, P \in Int :
        A = Dot(a, a) /\ B = Dot(b, b) /\ P = Dot(a, b) /\ P * P <= A * B
  BY Metrics
<1>2. CASE A = 0 \/ B = 0
  BY <1>1, <1>2 DEF Cosine
<1>3. CASE A # 0 /\ B # 0
  <2>1. A * B > 0
    BY <1>3
  <2>2. Cosine(a, b).num = P * P /\ Cosine(a, b).den = A * B
    BY <1>1, <1>3 DEF Cosine
  <2> QED
    BY <1>1, <2>1, <2>2
<1> QED
  BY <1>2, <1>3

\* An embedding is a vector some provider returned, or an error.
LEMMA EmbedTextVector ==
  ASSUME NEW p, NEW o \in Outcomes, NEW a, a = EmbedText(p, o)
  PROVE  \/ a = Broken
         \/ \E c : a = Refused(c)
         \/ \E c : a = [status |-> 200, code |-> c, vector |-> o.vector] /\ o.vector \in Upstream
<1>1. CASE p \notin Registered
  BY <1>1 DEF EmbedText
<1>2. CASE p \in Registered /\ ResolvedKey(p) \in {"", Placeholder}
  BY <1>2 DEF EmbedText
<1>3. CASE p \in Registered /\ ResolvedKey(p) \notin {"", Placeholder} /\ ~CanEmbed(p)
  BY <1>3 DEF EmbedText
<1>4. CASE p \in Registered /\ ResolvedKey(p) \notin {"", Placeholder} /\ CanEmbed(p)
  <2>1. a = IF o = Raises THEN Broken
            ELSE IF o = Nothing THEN Refused("provider_does_not_support_embedding")
            ELSE [status |-> 200, code |-> "", vector |-> o.vector]
    BY <1>4 DEF EmbedText
  <2>2. CASE o = Raises \/ o = Nothing
    BY <2>1, <2>2, Zenon
  <2>3. CASE o # Raises /\ o # Nothing
    <3>1. a = [status |-> 200, code |-> "", vector |-> o.vector]
      BY <2>1, <2>3, Zenon
    <3>2. o.vector \in Upstream
      BY <2>3 DEF Outcomes
    <3> QED
      BY <3>1, <3>2, Zenon
  <2> QED
    BY <2>2, <2>3
<1> QED
  BY <1>1, <1>2, <1>3, <1>4

\* A comparison that is answered with metrics is one of two such vectors of
\* one length.
LEMMA CompareMetrics ==
  ASSUME NEW p, NEW o \in Outcomes, NEW q \in Outcomes, NEW reply,
         reply = Compare(p, o, q), "cosine" \in DOMAIN reply
  PROVE  \E a, b \in Upstream :
           /\ Len(a) = Len(b)
           /\ \E c : reply = [status |-> 200, code |-> c, a |-> a, b |-> b, cosine |-> Cosine(a, b),
                             dot |-> Dot(a, b), square |-> Distance(a, b)]
<1>1. PICK x, y : x = EmbedText(p, o) /\ y = EmbedText(p, q)
  OBVIOUS
<1>2. /\ "cosine" \notin DOMAIN Broken /\ Broken.status # 200
      /\ \A c : "cosine" \notin DOMAIN Refused(c) /\ Refused(c).status # 200
      /\ \A c, v : /\ "cosine" \notin DOMAIN [status |-> 200, code |-> c, vector |-> v]
                   /\ [status |-> 200, code |-> c, vector |-> v].status = 200
                   /\ [status |-> 200, code |-> c, vector |-> v].vector = v
  BY DEF Broken, Refused
<1>3. /\ "cosine" \notin DOMAIN x
      /\ x.status = 200 => x.vector \in Upstream
  <2>1. \/ x = Broken
        \/ \E c : x = Refused(c)
        \/ \E c : x = [status |-> 200, code |-> c, vector |-> o.vector] /\ o.vector \in Upstream
    BY <1>1, EmbedTextVector
  <2> QED
    BY <1>2, <2>1
<1>4. /\ "cosine" \notin DOMAIN y
      /\ y.status = 200 => y.vector \in Upstream
  <2>1. \/ y = Broken
        \/ \E c : y = Refused(c)
        \/ \E c : y = [status |-> 200, code |-> c, vector |-> q.vector] /\ q.vector \in Upstream
    BY <1>1, EmbedTextVector
  <2> QED
    BY <1>2, <2>1
<1>5. CASE x.status # 200
  <2>1. reply = x
    BY <1>1, <1>5 DEF Compare
  <2> QED
    BY <2>1, <1>3
<1>6. CASE x.status = 200 /\ y.status # 200
  <2>1. reply = y
    BY <1>1, <1>6 DEF Compare
  <2> QED
    BY <2>1, <1>4
<1>7. CASE x.status = 200 /\ y.status = 200
  <2>1. reply = IF Len(x.vector) # Len(y.vector) \/ x.vector = <<>> THEN Broken
                ELSE [status |-> 200, code |-> "", a |-> x.vector, b |-> y.vector,
                      cosine |-> Cosine(x.vector, y.vector),
                      dot |-> Dot(x.vector, y.vector),
                      square |-> Distance(x.vector, y.vector)]
    BY <1>1, <1>7, Zenon DEF Compare
  <2>2. ~(Len(x.vector) # Len(y.vector) \/ x.vector = <<>>)
    <3>1. SUFFICES ASSUME Len(x.vector) # Len(y.vector) \/ x.vector = <<>> PROVE FALSE
      OBVIOUS
    <3>2. reply = Broken
      BY <2>1, <3>1, Zenon
    <3> QED
      BY <3>2, <1>2
  <2>3. reply = [status |-> 200, code |-> "", a |-> x.vector, b |-> y.vector,
                 cosine |-> Cosine(x.vector, y.vector),
                 dot |-> Dot(x.vector, y.vector),
                 square |-> Distance(x.vector, y.vector)]
    BY <2>1, <2>2, Zenon
  <2>4. Len(x.vector) = Len(y.vector) /\ x.vector \in Upstream /\ y.vector \in Upstream
    BY <2>2, <1>3, <1>4, <1>7
  <2> QED
    BY <2>3, <2>4, Zenon
<1> QED
  BY <1>5, <1>6, <1>7

\* For every comparison the API answers, whatever the vectors are, the metrics
\* agree with each other and the cosine is within [-1, 1].
THEOREM SpecMetricsAgree == PlaySpec => []MetricsAgree
<1>1. PlayInit => MetricsAgree
  BY DEF PlayInit, MetricsAgree
<1>2. MetricsAgree /\ [PlayNext]_playVars => MetricsAgree'
  <2> SUFFICES ASSUME MetricsAgree, [PlayNext]_playVars PROVE MetricsAgree'
    OBVIOUS
  <2>1. CASE UNCHANGED playVars
    BY <2>1 DEF playVars, MetricsAgree
  <2>2. ASSUME NEW p, NEW kinds, NEW reply,
               call' = [provider |-> p, upstream |-> kinds, answer |-> reply],
               "cosine" \notin DOMAIN reply
        PROVE  MetricsAgree'
    BY <2>2 DEF MetricsAgree
  <2>3. ASSUME NEW p, NEW kinds, NEW a \in Upstream, NEW b \in Upstream, NEW c, NEW reply,
               Len(a) = Len(b),
               reply = [status |-> 200, code |-> c, a |-> a, b |-> b, cosine |-> Cosine(a, b),
                        dot |-> Dot(a, b), square |-> Distance(a, b)],
               call' = [provider |-> p, upstream |-> kinds, answer |-> reply]
        PROVE  MetricsAgree'
    <3>1. a \in Seq(Int) /\ b \in Seq(Int)
      BY PlayAssumption
    <3>2. call'.answer = reply
      BY <2>3
    <3>3. /\ reply.a = a /\ reply.b = b /\ reply.cosine = Cosine(a, b)
          /\ reply.dot = Dot(a, b) /\ reply.square = Distance(a, b)
      BY <2>3
    <3>4. Cosine(a, b).den > 0 /\ Cosine(a, b).num <= Cosine(a, b).den
      BY <3>1, <2>3, CosineBounds
    <3>5. /\ Distance(a, b) = Dot(a, a) + Dot(b, b) - 2 * Dot(a, b)
          /\ Distance(a, b) = 0 => a = b
      BY <3>1, <2>3, Metrics
    <3> QED
      BY <3>2, <3>3, <3>4, <3>5 DEF MetricsAgree
  <2>4. ASSUME NEW p, NEW o \in Outcomes PROVE "cosine" \notin DOMAIN EmbedText(p, o)
    <3>1. PICK c : c = ""
      OBVIOUS
    <3> QED
      BY <3>1 DEF EmbedText, Refused, Broken
  <2>5. "cosine" \notin DOMAIN RateLimited
    BY DEF RateLimited
  <2>6. CASE Embed
    BY <2>2, <2>4, <2>5, <2>6 DEF Embed
  <2>7. CASE Similarity
    <3>1. PICK p \in Registered \cup {"other"}, o \in Outcomes, q \in Outcomes :
            \E r \in {RateLimited, Compare(p, o, q)} :
              call' = [provider |-> p, upstream |-> {o.kind, q.kind}, answer |-> r]
      BY <2>7, Zenon DEF Similarity
    <3>2. PICK reply \in {RateLimited, Compare(p, o, q)} :
            call' = [provider |-> p, upstream |-> {o.kind, q.kind}, answer |-> reply]
      BY <3>1
    <3>3. CASE "cosine" \notin DOMAIN reply
      BY <3>2, <3>3, <2>2
    <3>4. CASE "cosine" \in DOMAIN reply
      <4>1. reply = Compare(p, o, q)
        BY <3>4, <2>5
      <4>2. PICK a \in Upstream, b \in Upstream :
              /\ Len(a) = Len(b)
              /\ \E c : reply = [status |-> 200, code |-> c, a |-> a, b |-> b,
                                cosine |-> Cosine(a, b),
                                dot |-> Dot(a, b), square |-> Distance(a, b)]
        BY <4>1, <3>4, CompareMetrics
      <4> QED
        BY <4>2, <3>2, <2>3
    <3> QED
      BY <3>3, <3>4
  <2> QED
    BY <2>1, <2>6, <2>7 DEF PlayNext
<1> QED
  BY <1>1, <1>2, PTL DEF PlaySpec

-----------------------------------------------------------------------------
(***************************************************************************)
(* The web tier                                                            *)
(***************************************************************************)

WebTypeOK ==
  /\ cookie \in Nat /\ token \in Nat
  /\ hops \in 0..2
  /\ place \in [locale : Locales \cup {Bare}, page : PageNames, shown : BOOLEAN]

\* A redirect leaves a locale behind and never a public page for somebody with a
\* cookie; the second one ends at the login page of somebody who has none, and
\* no cookie comes back on the way.
RedirectOK ==
  /\ hops >= 1 => place.locale # Bare
  /\ hops >= 1 /\ ~place.shown /\ Public(place) => cookie = 0
  /\ hops = 2 /\ ~place.shown => Public(place)

WebInv == WebTypeOK /\ RedirectOK

LEMMA WebInitInv == WebSessionInit => WebInv
  BY WebSessionAssumption DEF WebSessionInit, WebInv, WebTypeOK, RedirectOK, PageNames

\* A new chain starts at no redirects, wherever it leads.
LEMMA ChainInv ==
  ASSUME WebInv, SetOut \/ SignIn PROVE WebInv'
  <1> USE DEF WebInv, WebTypeOK
  <1>1. hops' = 0
    BY DEF SetOut, SignIn
  <1>2. cookie' \in Nat /\ token' \in Nat
    BY WebSessionAssumption DEF SetOut, SignIn
  <1>3. \E page \in PageNames, locale \in Locales \cup {Bare} : place' = Request(locale, page)
    <2>1. CASE SetOut
      BY <2>1 DEF SetOut
    <2>2. CASE SignIn
      BY <2>2 DEF SignIn, PageNames
    <2> QED
      BY <2>1, <2>2
  <1>4. place' \in [locale : Locales \cup {Bare}, page : PageNames, shown : BOOLEAN]
    BY <1>3 DEF Request
  <1> QED
    BY <1>1, <1>2, <1>4 DEF RedirectOK

\* What the middleware makes of a request, by the three cases of Routed.
LEMMA RedirectInv ==
  ASSUME WebInv, Middleware PROVE WebInv'
  <1> USE DEF WebInv, WebTypeOK
  <1>1. PICK next \in Routed(place) :
          place' = next /\ hops' = IF next.shown THEN hops ELSE hops + 1
    BY DEF Middleware
  <1>2. ~place.shown /\ cookie' = cookie /\ token' = token
    BY DEF Middleware
  <1>3. ActiveLocale(place) \in Locales
    BY WebSessionAssumption DEF ActiveLocale
  <1>4. CASE Public(place) /\ cookie > 0
    <2>1. next = Request(ActiveLocale(place), "home")
      BY <1>1, <1>4 DEF Routed
    <2>2. hops = 0 /\ hops' = 1
      BY <1>1, <1>2, <1>4, <2>1 DEF RedirectOK, Request
    <2> QED
      BY <1>1, <1>2, <1>3, <2>1, <2>2, WebSessionAssumption
      DEF RedirectOK, Request, Public, PageNames
  <1>5. CASE ~Public(place) /\ cookie = 0
    <2>1. next = Request(ActiveLocale(place), "login")
      BY <1>1, <1>5 DEF Routed
    <2>2. hops \in 0..1 /\ hops' = hops + 1
      BY <1>1, <1>2, <1>5, <2>1 DEF RedirectOK, Request
    <2> QED
      BY <1>1, <1>2, <1>3, <1>5, <2>1, <2>2, WebSessionAssumption
      DEF RedirectOK, Request, Public, PageNames
  <1>6. CASE Public(place) <=> cookie = 0
    <2>1. next \in Intl(place)
      BY <1>1, <1>6 DEF Routed
    <2>2. CASE place.locale = Bare
      <3>1. PICK locale \in Locales : next = Request(locale, place.page)
        BY <2>1, <2>2 DEF Intl
      <3>2. hops = 0 /\ hops' = 1
        BY <1>1, <2>2, <3>1 DEF RedirectOK, Request
      <3> QED
        BY <1>1, <1>2, <1>6, <3>1, <3>2, WebSessionAssumption
        DEF RedirectOK, Request, Public
    <2>3. CASE place.locale # Bare
      <3>1. next = [place EXCEPT !.shown = TRUE]
        BY <2>1, <2>3 DEF Intl
      <3> QED
        BY <1>1, <1>2, <2>3, <3>1 DEF RedirectOK
    <2> QED
      BY <2>2, <2>3
  <1> QED
    BY <1>4, <1>5, <1>6

\* The cookie only runs out, and the page shown only calls the API.
LEMMA WebNextInv == WebInv /\ [WebSessionNext]_webVars => WebInv'
  <1> SUFFICES ASSUME WebInv, [WebSessionNext]_webVars PROVE WebInv'
    OBVIOUS
  <1>1. CASE UNCHANGED webVars \/ CallApi \/ SignOut
    BY <1>1 DEF webVars, CallApi, SignOut, WebInv, WebTypeOK, RedirectOK, Public
  <1>2. CASE WebSessionTick
    <2>1. /\ cookie' \in Nat /\ token' \in Nat /\ cookie # 0
          /\ UNCHANGED <<place, hops>>
      BY <1>2 DEF WebSessionTick, WebInv, WebTypeOK
    <2> QED
      BY <2>1 DEF WebInv, WebTypeOK, RedirectOK, Public
  <1> QED
    BY <1>1, <1>2, ChainInv, RedirectInv DEF WebSessionNext

\* The inductive invariant of a chain of redirects.
THEOREM SpecWebInv == WebSessionSpec => []WebInv
  BY WebInitInv, WebNextInv, PTL DEF WebSessionSpec

\* No chain of redirects is longer than two, whatever locales there are and
\* whenever the cookie ends: the middleware cannot send a browser in circles.
THEOREM SpecRedirectsEnd == WebSessionSpec => []RedirectsEnd
  <1>1. WebInv => RedirectsEnd
    BY DEF WebInv, WebTypeOK, RedirectsEnd
  <1> QED
    BY <1>1, SpecWebInv, PTL

-----------------------------------------------------------------------------
(* The search page. *)

BoxTypeOK ==
  /\ url \in Params /\ nav \in Params \cup {NoNav} /\ debounce \in Params \cup {NoNav}
  /\ typed \in Texts \cup {NoText}
  /\ asked \in [Slots -> Params \cup {NoNav}]
  /\ live \in Slots \cup {NoNav}
  /\ failed \in BOOLEAN /\ pending \in BOOLEAN

\* The request that is heeded asks for the URL of the page, and the spinner
\* turns for it.
LiveOK == live # NoNav => asked[live] = url /\ url.q # NoText /\ pending

BoxInv == BoxTypeOK /\ LiveOK /\ ShownIsAsked

LEMMA BoxInitInv == SearchBoxInit => BoxInv
  <1> SUFFICES ASSUME SearchBoxInit PROVE BoxInv
    OBVIOUS
  <1>1. url \in Params
    BY DEF SearchBoxInit, Params, PageNumbers
  <1>2. asked \in [Slots -> Params \cup {NoNav}]
    BY DEF SearchBoxInit
  <1>3. /\ nav = NoNav /\ debounce = NoNav /\ typed = NoText /\ live = NoNav
        /\ answer = NoAnswer /\ failed = FALSE /\ pending = FALSE
    BY DEF SearchBoxInit
  <1> QED
    BY <1>1, <1>2, <1>3 DEF BoxInv, BoxTypeOK, LiveOK, ShownIsAsked

\* Params stay params with another query, another filter or another page.
LEMMA ParamsKept ==
  ASSUME NEW params \in Params
  PROVE  /\ Mutated(params) \in Params
         /\ \A c \in FilterValues \cup {NoChoice} : [params EXCEPT !.filter = c] \in Params
         /\ \A p \in PageNumbers : [params EXCEPT !.page = p] \in Params
  BY DEF Params, Mutated, PageNumbers

\* Typing and clicking only name where the page is to go.
LEMMA NavigateInv ==
  ASSUME BoxInv, NEW q \in Texts \cup {NoText},
         \/ Type(q) \/ Debounced \/ Submit \/ Choose \/ Turn \/ Retry \/ Follow
  PROVE  BoxInv'
  <1> USE DEF BoxInv, BoxTypeOK
  <1>1. UNCHANGED <<url, asked, live, answer, failed, pending>>
    BY DEF Type, Debounced, Submit, Choose, Turn, Retry, Follow
  <1>2. nav' \in Params \cup {NoNav}
    <2>1. CASE Type(q)
      BY <2>1 DEF Type
    <2>2. CASE Debounced \/ Submit \/ Retry
      BY <2>2, ParamsKept DEF Debounced, Submit, Retry, SetBoth
    <2>3. CASE Choose
      BY <2>3, ParamsKept DEF Choose
    <2>4. CASE Turn
      BY <2>4, ParamsKept DEF Turn
    <2>5. CASE Follow
      BY <2>5 DEF Follow
    <2> QED
      BY <2>1, <2>2, <2>3, <2>4, <2>5
  <1>3. debounce' \in Params \cup {NoNav} /\ typed' \in Texts \cup {NoText}
    BY DEF Type, Debounced, Submit, Choose, Turn, Retry, Follow
  <1> QED
    BY <1>1, <1>2, <1>3 DEF LiveOK, ShownIsAsked

\* A new URL drops the request of the old one; a query starts its own.
LEMMA RenderInv ==
  ASSUME BoxInv, Render PROVE BoxInv'
  <1> USE DEF BoxInv, BoxTypeOK
  <1>1. /\ nav \in Params /\ url' = nav /\ nav' = NoNav
        /\ UNCHANGED <<typed, debounce>>
    BY DEF Render
  <1>2. CASE nav = url /\ UNCHANGED <<asked, live, answer, failed, pending>>
    BY <1>1, <1>2 DEF LiveOK, ShownIsAsked
  <1>3. CASE /\ nav.q = NoText
             /\ live' = NoNav /\ answer' = NoAnswer /\ UNCHANGED <<asked, failed, pending>>
    BY <1>1, <1>3 DEF LiveOK, ShownIsAsked
  <1>4. ASSUME nav.q # NoText, NEW s \in Slots, asked[s] = NoNav,
               asked' = [asked EXCEPT ![s] = nav], live' = s,
               failed' = FALSE, pending' = TRUE
        PROVE  BoxInv'
    <2>1. asked'[s] = nav /\ s # NoNav
      BY <1>4, SearchBoxAssumption
    <2>2. asked' \in [Slots -> Params \cup {NoNav}]
      BY <1>1, <1>4
    <2> QED
      BY <1>1, <1>4, <2>1, <2>2 DEF LiveOK, ShownIsAsked
  <1> QED
    BY <1>2, <1>3, <1>4 DEF Render

\* Only the answer of the live request is heeded, and it is about this URL.
LEMMA AnsweredInv ==
  ASSUME BoxInv, NEW s \in Slots, Answered(s) PROVE BoxInv'
  <1> USE DEF BoxInv, BoxTypeOK
  <1>1. /\ asked[s] # NoNav /\ asked' = [asked EXCEPT ![s] = NoNav]
        /\ UNCHANGED <<url, nav, typed, debounce>>
    BY DEF Answered
  <1>2. /\ asked' \in [Slots -> Params \cup {NoNav}]
        /\ \A r \in Slots : r # s => asked'[r] = asked[r]
    BY <1>1
  <1>3. CASE live # s /\ UNCHANGED <<live, answer, failed, pending>>
    BY <1>1, <1>2, <1>3 DEF LiveOK, ShownIsAsked
  <1>4. CASE /\ live = s /\ live' = NoNav /\ pending' = FALSE
             /\ \/ answer' = asked[s] /\ UNCHANGED failed
                \/ failed' = TRUE /\ UNCHANGED answer
    <2>1. asked[s] = url
      BY <1>4, SearchBoxAssumption DEF LiveOK
    <2> QED
      BY <1>1, <1>2, <1>4, <2>1 DEF LiveOK, ShownIsAsked
  <1> QED
    BY <1>3, <1>4 DEF Answered, Heeded

LEMMA BoxNextInv == BoxInv /\ [SearchBoxNext]_boxVars => BoxInv'
  <1> SUFFICES ASSUME BoxInv, [SearchBoxNext]_boxVars PROVE BoxInv'
    OBVIOUS
  <1>1. CASE UNCHANGED boxVars
    BY <1>1 DEF boxVars, BoxInv, BoxTypeOK, LiveOK, ShownIsAsked
  <1> QED
    BY <1>1, NavigateInv, RenderInv, AnsweredInv DEF SearchBoxNext

\* The inductive invariant of the search page.
THEOREM SpecBoxInv == SearchBoxSpec => []BoxInv
  BY BoxInitInv, BoxNextInv, PTL DEF SearchBoxSpec

\* However many requests are under way and in whatever order they are answered,
\* results never stand under a URL that did not ask for them, and a page with a
\* query never waits for nothing.
THEOREM SpecShownIsAsked == SearchBoxSpec => []ShownIsAsked
  <1>1. BoxInv => ShownIsAsked
    BY DEF BoxInv
  <1> QED
    BY <1>1, SpecBoxInv, PTL

=============================================================================
