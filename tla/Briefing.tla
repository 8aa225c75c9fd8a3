------------------------------ MODULE Briefing ------------------------------
(***************************************************************************)
(* What a brief is made of: the articles of the UTC day, grouped by the    *)
(* model's answer (services/clustering.py) and summarised cluster by       *)
(* cluster (services/digest.py), while articles arrive and are deleted.    *)
(* Brief.tla models the rows, retries and e-mails of the same pipeline and *)
(* treats the content as opaque.                                           *)
(***************************************************************************)
EXTENDS Selection, SequencesExt, FiniteSets

CONSTANTS
  Articles,      \* articles of one user
  DayLength,     \* clock ticks in a day
  TickHour,      \* hour of the daily tick: 8 UTC in the code
  Days,          \* bound on the clock, in days
  Cap,           \* _MAX_ARTICLES_FOR_LLM: 24 in the code
  MaxClusters,   \* bound on the clusters of an answer
  MaxIndices,    \* bound on the indices of a cluster
  Unsafe,        \* a topic that _is_safe_topic rejects
  Blank,         \* articles with no text: no headline, body or summary
  Null, Idle

ASSUME BriefingAssumption ==
  /\ {DayLength, Days, Cap} \subseteq Nat \ {0}
  /\ {MaxClusters, MaxIndices} \subseteq Nat
  /\ TickHour \in 0..(DayLength - 1)
  /\ Blank \subseteq Articles

VARIABLES
  shelf,    \* the user's rows [article, at], in order of indexed_at
  deleted,  \* articles that were deleted
  clock,
  run,      \* generation under way, or Idle
  briefs    \* date -> the brief's sections and preview, or Null

briefingVars == <<shelf, deleted, clock, run, briefs>>

Dates == 0..(Days - 1)
Today == clock \div DayLength
OnShelf == {row.article : row \in Range(shelf)}
Remaining(s) == Kept(s, OnShelf)
IdsOf(rows) == [i \in DOMAIN rows |-> rows[i].article]

BriefingInit ==
  /\ shelf = <<>>
  /\ deleted = {}
  /\ clock = 0
  /\ run = Idle
  /\ briefs = [d \in Dates |-> Null]

-----------------------------------------------------------------------------
\* utc_day_window: [start, end).
Window(d) == (d * DayLength)..((d + 1) * DayLength - 1)

\* _fetch_user_articles: the window's rows, oldest first.
Fetched(d) == Kept(shelf, {row \in Range(shelf) : row.at \in Window(d)})

\* Mutant: it keeps the oldest.
NewestOldest(s) == IF Len(s) > Cap THEN SubSeq(s, 1, Cap) ELSE s
\* The cost ceiling keeps the newest.
Newest(s) == IF Len(s) > Cap THEN SubSeq(s, Len(s) - Cap + 1, Len(s)) ELSE s

\* Answers of the model for n articles: clusters with a topic and positions,
\* or Null for a failed call and for what is no JSON of that shape.
Answers(n) ==
  {Null} \cup
  BoundedSeq([topic : {"topic", Unsafe}, indices : BoundedSeq(0..n, MaxIndices)], MaxClusters)

\* No entry comes twice, in one of the lists or in two.
Disjoint(lists) ==
  \A k, l \in DOMAIN lists : \A i \in DOMAIN lists[k], j \in DOMAIN lists[l] :
    lists[k][i] = lists[l][j] => k = l /\ i = j
Entries(lists) == UNION {Range(lists[k]) : k \in DOMAIN lists}
PositionsOf(answer) == [k \in DOMAIN answer |-> answer[k].indices]

\* Mutant: a position may come twice.
AcceptedTwice(answer, n) ==
  /\ Len(answer) <= n
  /\ \A c \in Range(answer) : c.topic # Unsafe /\ c.indices # <<>>
  /\ Entries(PositionsOf(answer)) = 0..(n - 1)
\* _parse_cluster_response: every position in exactly one cluster.
Accepted(answer, n) ==
  /\ Len(answer) <= n
  /\ \A c \in Range(answer) : c.topic # Unsafe /\ c.indices # <<>>
  /\ Disjoint(PositionsOf(answer))
  /\ Entries(PositionsOf(answer)) = 0..(n - 1)

\* cluster_user_articles: one article stands alone, an answer that does not
\* parse gives one cluster of all, and ranks count the answer's clusters.
OneCluster(ids) == <<[articles |-> ids, rank |-> 1]>>
Bound(answer, ids) ==
  [k \in DOMAIN answer |->
     [articles |-> [i \in DOMAIN answer[k].indices |-> ids[answer[k].indices[i] + 1]],
      rank     |-> k]]
Clusters(ids) ==
  IF ids = <<>> THEN {<<>>}
  ELSE IF Len(ids) = 1 THEN {OneCluster(ids)}
  ELSE {IF answer # Null /\ Accepted(answer, Len(ids))
        THEN Bound(answer, ids) ELSE OneCluster(ids) : answer \in Answers(Len(ids))}

-----------------------------------------------------------------------------
\* A scrape inserts an article.  indexed_at is the time at which its transaction
\* began, so the row may come before others that are there.
Index(a) ==
  /\ a \notin OnShelf \cup deleted
  /\ \E at \in {t \in {clock - 1, clock} : t >= 0}, p \in 1..(Len(shelf) + 1) :
       /\ \A i \in DOMAIN shelf : IF i < p THEN shelf[i].at <= at ELSE at <= shelf[i].at
       /\ shelf' = InsertAt(shelf, p, [article |-> a, at |-> at])
  /\ UNCHANGED <<deleted, clock, run, briefs>>

\* DELETE /articles/{id}.
Delete(a) ==
  /\ a \in OnShelf
  /\ shelf' = Kept(shelf, {row \in Range(shelf) : row.article # a})
  /\ deleted' = deleted \cup {a}
  /\ UNCHANGED <<clock, run, briefs>>

\* The tick of the day, which may come late: the day's articles are read and
\* grouped.  `known` is the shelf it saw, for LeftOutExplained.
Draw ==
  /\ run = Idle
  /\ clock % DayLength >= TickHour
  /\ briefs[Today] = Null
  /\ \E clusters \in Clusters(IdsOf(Newest(Fetched(Today)))) :
       run' = [date |-> Today, todo |-> clusters, sections |-> <<>>, known |-> shelf]
  /\ UNCHANGED <<shelf, deleted, clock, briefs>>

\* _fallback_section_summary is empty without a row, and for a row alone that
\* has no text.
NothingToSay(ids) == ids = <<>> \/ (Len(ids) = 1 /\ ids[1] \in Blank)

\* _build_sections, one cluster: rows that are still there are summarised by
\* the model, which may fail, or from the first of them; a section without a
\* summary is left out.
Summarise ==
  LET cluster == Head(run.todo)
      ids     == Remaining(cluster.articles)
      section == [articles |-> ids, rank |-> cluster.rank] IN
  /\ run # Idle
  /\ run.todo # <<>>
  /\ \E answered \in {FALSE, ids # <<>>} :
       run' = [run EXCEPT !.todo = Tail(@),
                          !.sections = IF answered \/ ~NothingToSay(ids) THEN Append(@, section)
                                                                        ELSE @]
  /\ UNCHANGED <<shelf, deleted, clock, briefs>>

\* _preview_for_notification: the overall summary, which may have failed, or
\* the first section, or "No new articles today.".
Preview(overall, sections) ==
  IF overall THEN "overall"
  ELSE IF sections # <<>> THEN "first section"
  ELSE "nothing new"

\* The overall summary, and the brief is stored.
Publish ==
  /\ run # Idle
  /\ run.todo = <<>>
  /\ \E overall \in {FALSE, run.sections # <<>>} :
       briefs' = [briefs EXCEPT ![run.date] =
         [sections |-> run.sections, known |-> run.known,
          preview  |-> Preview(overall, run.sections)]]
  /\ run' = Idle
  /\ UNCHANGED <<shelf, deleted, clock>>

Hour ==
  /\ clock < Days * DayLength - 1
  /\ clock' = clock + 1
  /\ UNCHANGED <<shelf, deleted, run, briefs>>

BriefingNext ==
  \/ \E a \in Articles : Index(a) \/ Delete(a)
  \/ Draw \/ Summarise \/ Publish
  \/ Hour

BriefingSpec == BriefingInit /\ [][BriefingNext]_briefingVars

-----------------------------------------------------------------------------
Lists(clusters) == [k \in DOMAIN clusters |-> clusters[k].articles]
Told(sections) == Entries(Lists(sections))
Published == {d \in Dates : briefs[d] # Null}

\* An article is told once: never in two sections and never in the briefs of
\* two days, whatever positions the model answered with.
ToldOnce ==
  /\ \A d \in Published : Disjoint(Lists(briefs[d].sections))
  /\ \A d, e \in Published : d # e =>
       Told(briefs[d].sections) \cap Told(briefs[e].sections) = {}

\* Rows of the day that came after this one.
Newer(known, d, row) ==
  {k \in DOMAIN known : known[k].at \in Window(d) /\ \E j \in 1..(k - 1) : known[j] = row}

\* An article of the library that the brief of its day does not tell had not
\* come yet when the brief was drawn, or Cap newer ones of that day had, or it
\* has no text to tell.
LeftOutExplained ==
  \A d \in Published : \A row \in Range(shelf) :
    \/ row.at \notin Window(d)
    \/ row.article \in Told(briefs[d].sections) \cup Blank
    \/ row \notin Range(briefs[d].known)
    \/ Cap <= Cardinality(Newer(briefs[d].known, d, row))

=============================================================================
