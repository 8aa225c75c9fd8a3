------------------------------ MODULE SearchBox ------------------------------
(***************************************************************************)
(* The search page of the web client: filters kept in the URL              *)
(* (components/filters/useFilterUrl.ts), the text field with its debounce  *)
(* and the requests it starts and abandons (SearchClient.tsx).             *)
(***************************************************************************)
EXTENDS FiniteSets

CONSTANTS
  Texts,    \* queries a user may type
  FilterValues,  \* values of a filter
  NoText,   \* no query
  NoChoice, \* filter not set
  NoNav,    \* no navigation pending
  NoAnswer, \* no results, no error
  Slots     \* requests under way at one time

ASSUME SearchBoxAssumption ==
  NoText \notin Texts /\ NoChoice \notin FilterValues /\ NoNav \notin Slots

VARIABLES
  url,      \* search params of the page as rendered
  nav,      \* the target of the last router.replace, until it is rendered
  typed,    \* state q of the text field
  debounce, \* params in the closure of the timer, or NoNav when none runs
  asked,    \* slot -> params of the request, or NoNav
  live,     \* the slot that has not been aborted, or NoNav
  answer,   \* params the results on the page are for, or NoAnswer
  failed,   \* an error is shown
  pending   \* the spinner

boxVars == <<url, nav, typed, debounce, asked, live, answer, failed, pending>>

PageNumbers == {1, 2}
Params == [q: Texts \cup {NoText}, filter: FilterValues \cup {NoChoice}, page: PageNumbers]

\* The page mounts on any URL without a query, and then follows links.
SearchBoxInit ==
  /\ url = [q |-> NoText, filter |-> NoChoice, page |-> 1]
  /\ nav = NoNav
  /\ typed = NoText
  /\ debounce = NoNav
  /\ asked = [s \in Slots |-> NoNav]
  /\ live = NoNav
  /\ answer = NoAnswer
  /\ failed = FALSE
  /\ pending = FALSE

\* mutate: from the params of the render the caller belongs to, and always
\* without `page`, since nothing ever sets _keep_page.
Mutated(params) == [params EXCEPT !.page = 1]

\* set('q', ..) and set('page', '1') of one handler: the second replace starts
\* from the same params and takes the place of the first.
SetBoth(params, q) == Mutated(params)

\* Typing restarts the timer, unless the text is the one in the URL.
Type(q) ==
  /\ q # typed
  /\ typed' = q
  /\ debounce' = IF q = url.q THEN NoNav ELSE url
  /\ UNCHANGED <<url, nav, asked, live, answer, failed, pending>>

Debounced ==
  /\ debounce # NoNav
  /\ nav' = SetBoth(debounce, typed)
  /\ debounce' = NoNav
  /\ UNCHANGED <<url, typed, asked, live, answer, failed, pending>>

\* The button is disabled while a request runs.
Submit ==
  /\ typed # NoText
  /\ ~pending
  /\ nav' = SetBoth(url, typed)
  /\ UNCHANGED <<url, typed, debounce, asked, live, answer, failed, pending>>

\* A filter, a page of the pagination, the retry of an error.
Choose ==
  /\ \E c \in FilterValues \cup {NoChoice} : nav' = Mutated([url EXCEPT !.filter = c])
  /\ UNCHANGED <<url, typed, debounce, asked, live, answer, failed, pending>>

Turn ==
  /\ answer # NoAnswer
  /\ \E p \in PageNumbers : nav' = Mutated([url EXCEPT !.page = p])
  /\ UNCHANGED <<url, typed, debounce, asked, live, answer, failed, pending>>

Retry ==
  /\ failed
  /\ url.q # NoText
  /\ nav' = Mutated(url)
  /\ UNCHANGED <<url, typed, debounce, asked, live, answer, failed, pending>>

\* A link, or the browser's back and forward.
Follow ==
  /\ nav' \in Params
  /\ UNCHANGED <<url, typed, debounce, asked, live, answer, failed, pending>>

\* The router commits the last navigation; new params abort the request of the
\* old ones and start another, unless there is no query.
Render ==
  /\ nav # NoNav
  /\ url' = nav
  /\ nav' = NoNav
  /\ \/ nav = url /\ UNCHANGED <<asked, live, answer, failed, pending>>
     \/ /\ nav # url /\ nav.q = NoText
        /\ live' = NoNav
        /\ answer' = NoAnswer
        /\ UNCHANGED <<asked, failed, pending>>
     \/ /\ nav # url /\ nav.q # NoText
        /\ \E s \in Slots :
             /\ asked[s] = NoNav
             /\ asked' = [asked EXCEPT ![s] = nav]
             /\ live' = s
        /\ failed' = FALSE
        /\ pending' = TRUE
        /\ UNCHANGED answer
  /\ UNCHANGED <<typed, debounce>>

\* Mutant: the answer of an aborted request is painted too.
HeededAlways(s) == TRUE
\* The request has not been aborted.
Heeded(s) == live = s

\* Results or an error; what was on the page before an error stays there.
Answered(s) ==
  /\ asked[s] # NoNav
  /\ asked' = [asked EXCEPT ![s] = NoNav]
  /\ \/ ~Heeded(s) /\ UNCHANGED <<live, answer, failed, pending>>
     \/ /\ Heeded(s)
        /\ live' = NoNav
        /\ pending' = FALSE
        /\ \/ answer' = asked[s] /\ UNCHANGED failed
           \/ failed' = TRUE /\ UNCHANGED answer
  /\ UNCHANGED <<url, nav, typed, debounce>>

SearchBoxNext ==
  \/ \E q \in Texts \cup {NoText} : Type(q)
  \/ Debounced \/ Submit \/ Choose \/ Turn \/ Retry \/ Follow \/ Render
  \/ \E s \in Slots : Answered(s)

SearchBoxSpec == SearchBoxInit /\ [][SearchBoxNext]_boxVars

-----------------------------------------------------------------------------
\* Results never stand under the wrong URL: once the page is neither waiting
\* nor showing an error, what it shows is what its params ask for, in whatever
\* order requests are started, abandoned and answered.  The spinner of a page
\* with a query has a request behind it.
ShownIsAsked ==
  /\ ~pending /\ ~failed /\ answer # NoAnswer => answer = url
  /\ pending /\ url.q # NoText => live # NoNav /\ asked[live] = url

=============================================================================
