------------------------------- MODULE Paging -------------------------------
(***************************************************************************)
(* Reading lists page by page with a cursor while they grow: the history   *)
(* of digests (GET /digest, routers/digest.py), whose cursor the API hands *)
(* out, and the notifications (GET /notifications, services/               *)
(* notifications.py), whose caller takes the created_at of the last row.   *)
(***************************************************************************)
EXTENDS Integers, SequencesExt, FiniteSets

CONSTANTS
  Limit,     \* rows on a page: 30 or 50 by default
  Depth,     \* bound on the clock, in days
  MaxNotes,  \* bound on the notifications
  NoCursor, NoWalk

ASSUME PagingAssumption == Limit \in Nat \ {0} /\ NoCursor \notin Nat

VARIABLES
  digests,  \* dates of the user's digests
  notes,    \* the user's notifications [id, at]
  today,
  walk      \* a reader going through one of the lists, or NoWalk

pagingVars == <<digests, notes, today, walk>>

PagingInit ==
  /\ digests = {}
  /\ notes = {}
  /\ today = 0
  /\ walk = NoWalk

\* generate_digest commits the digest of the day, a new one or in place of a
\* failed one of the same date.
NewDigest ==
  /\ today \notin digests
  /\ digests' = digests \cup {today}
  /\ UNCHANGED <<notes, today, walk>>

\* A notification; created_at is the time at which its transaction began, so
\* it may be older than one that is there.
NewNote ==
  /\ Cardinality(notes) < MaxNotes
  /\ \E at \in {t \in {today - 1, today} : t >= 0} :
       notes' = notes \cup {[id |-> Cardinality(notes) + 1, at |-> at]}
  /\ UNCHANGED <<digests, today, walk>>

NextDay ==
  /\ today < Depth
  /\ today' = today + 1
  /\ UNCHANGED <<digests, notes, walk>>

-----------------------------------------------------------------------------
Rows(list) == IF list = "digests" THEN {[id |-> d, at |-> d] : d \in digests} ELSE notes

\* Both lists use `< cursor`.
Older(rows, cursor) == {r \in rows : cursor = NoCursor \/ r.at < cursor}

\* The length of what LIMIT n leaves of so many rows.
Limited(n, count) == IF count < n THEN count ELSE n

\* Mutant: oldest first.
TopOldest(rows, n) ==
  {s \in [1..Limited(n, Cardinality(rows)) -> rows] :
     /\ IsInjective(s)
     /\ \A i, j \in DOMAIN s : i < j => s[i].at <= s[j].at
     /\ \A r \in rows \ Range(s), i \in DOMAIN s : s[i].at <= r.at}
\* ORDER BY ... DESC LIMIT n; rows of one created_at come in any order.
Top(rows, n) ==
  {s \in [1..Limited(n, Cardinality(rows)) -> rows] :
     /\ IsInjective(s)
     /\ \A i, j \in DOMAIN s : i < j => s[i].at >= s[j].at
     /\ \A r \in rows \ Range(s), i \in DOMAIN s : s[i].at >= r.at}

\* list_digests: one row more than the page tells whether there is a next
\* page, and that row's date is the cursor.
DigestPages(cursor) ==
  {[rows |-> SubSeq(s, 1, Limited(Limit, Len(s))),
    next |-> IF Len(s) > Limit THEN s[Limit + 1].at ELSE NoCursor]
     : s \in Top(Older(Rows("digests"), cursor), Limit + 1)}

\* list_notifications: a reader goes on while pages are full.
NotificationPages(cursor) ==
  {[rows |-> s, next |-> IF Len(s) = Limit THEN Last(s).at ELSE NoCursor]
     : s \in Top(Older(notes, cursor), Limit)}

BeginWalk(list) ==
  /\ walk = NoWalk
  /\ walk' = [list |-> list, cursor |-> NoCursor, begun |-> FALSE,
              had |-> Rows(list), seen |-> <<>>, cut |-> {}]
  /\ UNCHANGED <<digests, notes, today>>

Ended == walk # NoWalk /\ walk.begun /\ walk.cursor = NoCursor

ReadPage ==
  /\ walk # NoWalk
  /\ ~Ended
  /\ \E page \in IF walk.list = "digests" THEN DigestPages(walk.cursor)
                                          ELSE NotificationPages(walk.cursor) :
       walk' = [walk EXCEPT !.begun  = TRUE,
                            !.cursor = page.next,
                            !.seen   = @ \o page.rows,
                            !.cut    = @ \cup {page.next}]
  /\ UNCHANGED <<digests, notes, today>>

EndWalk ==
  /\ Ended
  /\ walk' = NoWalk
  /\ UNCHANGED <<digests, notes, today>>

PagingNext ==
  \/ NewDigest \/ NewNote \/ NextDay
  \/ \E list \in {"digests", "notifications"} : BeginWalk(list)
  \/ ReadPage \/ EndWalk

PagingSpec == PagingInit /\ [][PagingNext]_pagingVars

-----------------------------------------------------------------------------
\* A walk that is over has shown rows newest first and none twice, and what
\* was there when it began and was not shown has the very date or time of a
\* cursor: rows are lost at page boundaries and nowhere else, however many
\* are added while the reader goes on.
LostOnlyAtBoundaries ==
  Ended =>
    /\ IsInjective(walk.seen)
    /\ \A i, j \in DOMAIN walk.seen : i < j => walk.seen[i].at >= walk.seen[j].at
    /\ \A row \in walk.had \ Range(walk.seen) : row.at \in walk.cut

\* "Cursor-paginated history": who follows next_cursor to the end has seen
\* every digest.
HistoryComplete ==
  Ended /\ walk.list = "digests" => walk.had \subseteq Range(walk.seen)

=============================================================================
