-------------------------------- MODULE Bell --------------------------------
(***************************************************************************)
(* The notification bell: the polling hook of the web client               *)
(* (hooks/useNotifications.ts) in front of GET /notifications and          *)
(* POST /notifications/{id}/read (services/notifications.py).  Requests    *)
(* overlap, and answers come back in any order.                            *)
(***************************************************************************)
EXTENDS Integers, FiniteSets

CONSTANTS
  MaxNotifications,   \* bound on the notifications; the newest has the highest number
  DropdownLimit,     \* DROPDOWN_LIMIT: 10 in the code
  Fetches,    \* list requests under way at one time
  MaxFaults,  \* bound on the requests that fail
  NoRequest

ASSUME BellAssumption == DropdownLimit \in Nat \ {0}

VARIABLES
  inbox,    \* number of the user's notifications
  read,     \* those that are read
  shown,    \* items of the hook's data
  fetch,    \* list request -> whether the service has answered and what, or NoRequest
  marks,    \* mark-read requests under way
  visible,  \* whether the page is visible
  timer,    \* whether the poll timer runs
  faults    \* number of failed requests so far

bellVars == <<inbox, read, shown, fetch, marks, visible, timer, faults>>
browser == <<marks, visible, timer>>

Asked == [answered |-> FALSE, items |-> {}]
Note(n) == [id |-> n, read |-> n \in read]

\* list_notifications: the newest DropdownLimit notifications.
Dropdown(size) == {n \in 1..size : n > size - DropdownLimit}
Truth == {Note(n) : n \in Dropdown(inbox)}

\* The effect of the hook: a first fetch and the timer.
BellInit ==
  /\ inbox = 0
  /\ read = {}
  /\ shown = {}
  /\ fetch \in {[f \in Fetches |-> IF f = g THEN Asked ELSE NoRequest] : g \in Fetches}
  /\ marks = {}
  /\ visible = TRUE
  /\ timer = TRUE
  /\ faults = 0

Ask == \E f \in Fetches : fetch[f] = NoRequest /\ fetch' = [fetch EXCEPT ![f] = Asked]

Fault ==
  /\ faults < MaxFaults
  /\ faults' = faults + 1

Arrive ==
  /\ inbox < MaxNotifications
  /\ inbox' = inbox + 1
  /\ UNCHANGED <<read, shown, fetch, browser, faults>>

Poll ==
  /\ timer
  /\ Ask
  /\ UNCHANGED <<inbox, read, shown, browser, faults>>

Hide ==
  /\ visible
  /\ visible' = FALSE
  /\ timer' = FALSE
  /\ UNCHANGED <<inbox, read, shown, fetch, marks, faults>>

\* Mutant: the timer is left to the next mount.
ShowOnce ==
  /\ ~visible
  /\ visible' = TRUE
  /\ Ask
  /\ UNCHANGED <<inbox, read, shown, marks, timer, faults>>
\* Visible again: fetch at once and start the timer.
Show ==
  /\ ~visible
  /\ visible' = TRUE
  /\ Ask
  /\ timer' = TRUE
  /\ UNCHANGED <<inbox, read, shown, marks, faults>>

\* The service reads the list.
List(f) ==
  /\ fetch[f] = Asked
  /\ fetch' = [fetch EXCEPT ![f] = [answered |-> TRUE, items |-> Truth]]
  /\ UNCHANGED <<inbox, read, shown, browser, faults>>

\* Mutant: the answer is added to the data.
DeliverMerged(f) ==
  /\ fetch[f] # NoRequest
  /\ fetch[f].answered
  /\ shown' = shown \cup fetch[f].items
  /\ fetch' = [fetch EXCEPT ![f] = NoRequest]
  /\ UNCHANGED <<inbox, read, browser, faults>>
\* The answer replaces the data.
Deliver(f) ==
  /\ fetch[f] # NoRequest
  /\ fetch[f].answered
  /\ shown' = fetch[f].items
  /\ fetch' = [fetch EXCEPT ![f] = NoRequest]
  /\ UNCHANGED <<inbox, read, browser, faults>>

\* A failed list request sets the error and leaves the data.
FetchFails(f) ==
  /\ fetch[f] # NoRequest
  /\ Fault
  /\ fetch' = [fetch EXCEPT ![f] = NoRequest]
  /\ UNCHANGED <<inbox, read, shown, browser>>

\* A click on an unread item takes it off the list before the request is sent.
Click(n) ==
  /\ [id |-> n, read |-> FALSE] \in shown
  /\ shown' = {item \in shown : item.id # n}
  /\ marks' = marks \cup {n}
  /\ UNCHANGED <<inbox, read, fetch, visible, timer, faults>>

\* mark_read commits; the client does nothing with the answer.
Mark(n) ==
  /\ n \in marks
  /\ read' = read \cup {n}
  /\ marks' = marks \ {n}
  /\ UNCHANGED <<inbox, shown, fetch, visible, timer, faults>>

\* The request is lost, or its answer: the hook fetches the list again.
MarkFails(n) ==
  /\ n \in marks
  /\ Fault
  /\ read' \in {read, read \cup {n}}
  /\ marks' = marks \ {n}
  /\ Ask
  /\ UNCHANGED <<inbox, shown, visible, timer>>

BellNext ==
  \/ Arrive \/ Poll \/ Hide \/ Show
  \/ \E f \in Fetches : List(f) \/ Deliver(f) \/ FetchFails(f)
  \/ \E n \in 1..MaxNotifications : Click(n) \/ Mark(n) \/ MarkFails(n)

BellSpec == BellInit /\ [][BellNext]_bellVars

\* Requests are answered and the timer fires.
BellFairness ==
  /\ WF_bellVars(Poll)
  /\ \A f \in Fetches : WF_bellVars(List(f)) /\ WF_bellVars(Deliver(f))
  /\ \A n \in 1..MaxNotifications : WF_bellVars(Mark(n) \/ MarkFails(n))

-----------------------------------------------------------------------------
\* The bell shows one answer of the service, less what was clicked since,
\* however answers and clicks overlap: every item exists and comes once, it is
\* shown as read only if it is, and the list is no longer than an answer.
OneAnswer ==
  /\ \A item \in shown : item.id \in 1..inbox /\ (item.read => item.id \in read)
  /\ \A one, other \in shown : one.id = other.id => one = other
  /\ \A one, other \in shown : one.id - other.id < DropdownLimit

\* While the page stays visible the bell comes to show what the service
\* holds, after answers in the wrong order, an item restored by a poll that
\* overlapped its click, lost requests and a page that was hidden.
BellSettles == <>[]visible => <>[](shown = Truth)

=============================================================================
