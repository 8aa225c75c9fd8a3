-------------------------------- MODULE Shell --------------------------------
(***************************************************************************)
(* The shell around every route of the API (main.py, exceptions.py,        *)
(* middleware/logging.py, middleware/security_headers.py).  From the       *)
(* outside in: Starlette's handler of unhandled errors, the security       *)
(* headers, CORS, the request id, the exception handlers, the route.  Each *)
(* request is a task with its own value of _request_id_var, and requests   *)
(* overlap.                                                                *)
(***************************************************************************)
EXTENDS Naturals

CONSTANTS
  Requests,     \* requests under way at one time
  GivenIds,     \* well-formed ids that clients send
  Malformed,    \* an id that is not
  NoId,         \* no header; the empty default of _request_id_var
  MaxRequests,  \* bound on the requests
  NoRequest

ASSUME ShellAssumption ==
  /\ GivenIds \cap Nat = {} /\ NoId \notin GivenIds \cup Nat
  /\ Malformed \notin GivenIds /\ MaxRequests \in Nat

VARIABLES
  request,   \* what each task has made of its request, or NoRequest
  current,   \* _request_id_var of each task
  served,    \* number of requests so far; minted ids are named by it
  access,    \* records of api.access
  answers    \* answers as the clients got them

shellVars == <<request, current, served, access, answers>>

Statuses == {"2xx", "4xx", "5xx"}
Plain(status) == [status |-> status, problem |-> FALSE, instance |-> NoId]

ShellInit ==
  /\ request = [r \in Requests |-> NoRequest]
  /\ current = [r \in Requests |-> NoId]
  /\ served = 0
  /\ access = {}
  /\ answers = {}

\* `dressed`: with the headers of the two outer middlewares.
Send(no, header, dressed, answer) ==
  answers' = answers \cup
    {[no |-> no, header |-> header, dressed |-> dressed, status |-> answer.status,
      problem |-> answer.problem, instance |-> answer.instance]}

\* CORS answers a preflight itself.
Preflight ==
  /\ served < MaxRequests
  /\ served' = served + 1
  /\ \E status \in {"2xx", "4xx"} : Send(served', NoId, TRUE, Plain(status))
  /\ UNCHANGED <<request, current, access>>

ChosenId(inbound) == IF inbound \in GivenIds THEN inbound ELSE served'

\* RequestIDMiddleware takes over the id or mints one.
Enter(r) ==
  /\ request[r] = NoRequest
  /\ served < MaxRequests
  /\ served' = served + 1
  /\ \E inbound \in GivenIds \cup {Malformed, NoId} :
       /\ current' = [current EXCEPT ![r] = ChosenId(inbound)]
       /\ request' = [request EXCEPT ![r] =
            [no |-> served', id |-> ChosenId(inbound), answer |-> NoRequest, raised |-> FALSE]]
  /\ UNCHANGED <<access, answers>>

\* Mutant: a variable of the process instead of the task.
InScopeShared(r) ==
  IF \E q \in Requests : current[q] # NoId
    THEN current[CHOOSE q \in Requests : current[q] # NoId] ELSE NoId
\* get_request_id in the task of r.
InScope(r) == current[r]

\* _problem_body, as each exception handler calls it.
Problem(r, status) == [status |-> status, problem |-> TRUE, instance |-> InScope(r)]

Running(r) ==
  /\ request[r] # NoRequest
  /\ request[r].answer = NoRequest
  /\ ~request[r].raised

\* The route returns, raises what a handler of main.py answers, or asks for
\* an unknown path, which the handler of FastAPI answers.
Route(r) ==
  /\ Running(r)
  /\ \E answer \in {Plain(s) : s \in Statuses} \cup {Problem(r, s) : s \in {"4xx", "5xx"}} :
       request' = [request EXCEPT ![r].answer = answer]
  /\ UNCHANGED <<current, served, access, answers>>

\* Any other exception, also one of a handler whose body JSON cannot render,
\* passes through dispatch, which resets the id.
Raise(r) ==
  /\ Running(r)
  /\ request' = [request EXCEPT ![r].raised = TRUE]
  /\ current' = [current EXCEPT ![r] = NoId]
  /\ UNCHANGED <<served, access, answers>>

\* ServerErrorMiddleware calls _catch_all_exception_handler outside every
\* middleware of the application.
CatchAll(r) ==
  /\ request[r] # NoRequest
  /\ request[r].raised
  /\ Send(request[r].no, NoId, FALSE, Problem(r, "5xx"))
  /\ request' = [request EXCEPT ![r] = NoRequest]
  /\ UNCHANGED <<current, served, access>>

\* dispatch after call_next: the header, from its local variable; the access
\* record, whose id RequestIDFilter reads from the context; the reset.
Leave(r) ==
  /\ request[r] # NoRequest
  /\ request[r].answer # NoRequest
  /\ access' = access \cup
       {[no |-> request[r].no, id |-> InScope(r), status |-> request[r].answer.status]}
  /\ Send(request[r].no, request[r].id, TRUE, request[r].answer)
  /\ current' = [current EXCEPT ![r] = NoId]
  /\ request' = [request EXCEPT ![r] = NoRequest]
  /\ UNCHANGED served

ShellNext ==
  \/ Preflight
  \/ \E r \in Requests : Enter(r) \/ Route(r) \/ Raise(r) \/ CatchAll(r) \/ Leave(r)

ShellSpec == ShellInit /\ [][ShellNext]_shellVars

-----------------------------------------------------------------------------
Logged(a) == \E record \in access : record.no = a.no /\ record.status = a.status /\ record.id = a.header

\* Every answer of the application leads to its own access record by the id
\* in its header, and an error body names that id, however requests overlap;
\* the answers that cannot be traced are preflights and unhandled errors (these
\* without the headers of CORS too), which have neither header nor record.  One
\* id stands for two requests only if clients sent it.
AnswersTraceable ==
  /\ \A a \in answers :
       IF a.header = NoId
         THEN /\ a.instance = NoId /\ (a.dressed <=> ~a.problem)
              /\ \A record \in access : record.no # a.no
         ELSE Logged(a) /\ (a.problem => a.instance = a.header)
  /\ \A a, b \in answers : a.header = b.header /\ a.header \in Nat => a = b

=============================================================================
