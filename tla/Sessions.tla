------------------------------ MODULE Sessions ------------------------------
(***************************************************************************)
(* Accounts and refresh tokens: register, login, refresh and logout of the *)
(* auth router, run concurrently by any number of handlers, and the        *)
(* browsers whose auth_refresh cookie they read and write.                 *)
(*                                                                         *)
(* A token belongs to the family of the login it descends from: refresh    *)
(* revokes the row of the cookie and mints the next one in one             *)
(* transaction.  Handlers share only the tables (READ COMMITTED): SELECT   *)
(* reads committed rows, an UPDATE waits for the open transaction that     *)
(* holds the row and then writes it.  A request and its response cross     *)
(* the network on their own: cookies are those of the moment of sending,   *)
(* and a response may be delivered late or never.                          *)
(***************************************************************************)
EXTENDS Naturals, FiniteSets

CONSTANTS
  Users,       \* e-mail addresses
  Browsers,    \* cookie jars
  Handlers,    \* coroutines that may execute a request
  Null,
  MaxTokens,   \* bound: refresh tokens minted over a behaviour
  MaxFaults    \* bound: failed requests and lost responses

ASSUME SessionsAssumption ==
  MaxTokens \in Nat /\ MaxFaults \in Nat /\ Null \notin Nat \cup Browsers

VARIABLES
  accounts,    \* table users: registered addresses
  tokens,      \* table refresh_tokens (committed rows)
  jar,         \* jar[b]: the auth_refresh cookie of b, a token id
  call,        \* call[h]: the request h executes
  nextToken,   \* fresh token ids
  faults,      \* faults so far
  contended,   \* history: families with two open requests at once
  loggedOut,   \* history: families a logout has revoked a token of
  unlucky      \* history: browsers with two calls at once or a lost response

dbVars   == <<accounts, tokens, nextToken>>
histVars == <<faults, contended, loggedOut, unlucky>>
vars == <<dbVars, jar, call, histVars>>

TokenRow == [id: Nat, family: Nat, user: Users, revoked: BOOLEAN]

\* `cookie` is the token sent along, `old` the row SELECT found, `set` the
\* cookie the response sets.
Idle == [pc |-> "idle", browser |-> Null, user |-> Null, cookie |-> Null,
         old |-> Null, set |-> Null]

\* Steps that work on the token of the cookie, steps that still touch the
\* database, and answers under way ("stale" is the 401 of a refresh).
Using   == {"lookup", "revoke", "rotate", "logout"}
Open    == {"check", "insert", "verify", "mint"} \cup Using
Answers == {"set", "clear", "refused", "stale"}

RowOf(id)  == CHOOSE t \in tokens : t.id = id
Active(id) == \E t \in tokens : t.id = id /\ ~t.revoked
Known(id)  == \E t \in tokens : t.id = id
FamilyOf(id) == RowOf(id).family
Live(f) == {t \in tokens : t.family = f /\ ~t.revoked}

\* Mutant: the UPDATE matches no row.
RevokedNever(rows, id) == rows
\* Mutant: the UPDATE matches every row of the user.
RevokedByUser(rows, id) ==
  {IF \E o \in rows : o.id = id /\ o.user = t.user THEN [t EXCEPT !.revoked = TRUE] ELSE t :
     t \in rows}
\* UPDATE ... SET revoked_at.
Revoked(rows, id) == {IF t.id = id THEN [t EXCEPT !.revoked = TRUE] ELSE t : t \in rows}

Init ==
  /\ accounts = {} /\ tokens = {} /\ nextToken = 0
  /\ jar = [b \in Browsers |-> Null]
  /\ call = [h \in Handlers |-> Idle]
  /\ faults = 0 /\ contended = {} /\ loggedOut = {} /\ unlucky = {}

Goto(h, pc) == call' = [call EXCEPT ![h].pc = pc]

(***************************************************************************)
(* Browser                                                                 *)
(***************************************************************************)

\* The browser b sends a request; its cookie goes along.
Send(h, b, pc, u) ==
  LET rivals == {o \in Handlers :
                   /\ pc \in Using /\ call[o].pc \in Using
                   /\ Known(call[o].cookie) /\ Known(jar[b])
                   /\ FamilyOf(call[o].cookie) = FamilyOf(jar[b])} IN
  /\ call[h].pc = "idle"
  /\ call' = [call EXCEPT ![h] = [pc |-> pc, browser |-> b, user |-> u, cookie |-> jar[b],
                                  old |-> Null, set |-> Null]]
  /\ contended' = contended \cup {FamilyOf(jar[b]) : o \in rivals}
  /\ unlucky' = unlucky \cup {b : o \in {x \in Handlers : call[x].browser = b}}
  /\ UNCHANGED <<dbVars, jar, faults, loggedOut>>

SendRegister(h) == \E b \in Browsers, u \in Users : Send(h, b, "check", u)
SendLogin(h)    == \E b \in Browsers, u \in Users : Send(h, b, "verify", u)
SendRefresh(h)  == \E b \in Browsers : Send(h, b, "lookup", Null)
SendLogout(h)   == \E b \in Browsers : Send(h, b, "logout", Null)

\* The response arrives and its Set-Cookie headers take effect.  A refusal
\* carries none: it is an exception, answered by the problem+json handler,
\* so that what _clear_auth_cookies put on `response` is dropped.
Deliver(h) ==
  LET b == call[h].browser IN
  /\ call[h].pc \in Answers
  /\ jar' = CASE call[h].pc = "set"   -> [jar EXCEPT ![b] = call[h].set]
              [] call[h].pc = "clear" -> [jar EXCEPT ![b] = Null]
              [] OTHER                -> jar
  /\ call' = [call EXCEPT ![h] = Idle]
  /\ UNCHANGED <<dbVars, histVars>>

\* The response is lost on its way.
Lose(h) ==
  /\ call[h].pc \in Answers /\ faults < MaxFaults
  /\ call' = [call EXCEPT ![h] = Idle]
  /\ faults' = faults + 1
  /\ unlucky' = unlucky \cup {call[h].browser}
  /\ UNCHANGED <<dbVars, jar, contended, loggedOut>>

\* The cookie reaches its max_age; nothing happens to the row.
CookieExpires(b) ==
  /\ jar[b] # Null
  /\ jar' = [jar EXCEPT ![b] = Null]
  /\ UNCHANGED <<dbVars, call, histVars>>

(***************************************************************************)
(* register and login                                                      *)
(***************************************************************************)

\* SELECT by address: 409 if it is registered.
RegisterCheck(h) ==
  /\ call[h].pc = "check"
  /\ Goto(h, IF call[h].user \in accounts THEN "refused" ELSE "insert")
  /\ UNCHANGED <<dbVars, jar, histVars>>

\* INSERT and COMMIT the user; the unique address turns a twin away.
RegisterInsert(h) ==
  /\ call[h].pc = "insert"
  /\ Goto(h, IF call[h].user \in accounts THEN "refused" ELSE "mint")
  /\ accounts' = accounts \cup {call[h].user}
  /\ UNCHANGED <<tokens, nextToken, jar, histVars>>

LoginVerify(h) ==
  /\ call[h].pc = "verify"
  /\ \/ Goto(h, IF call[h].user \in accounts THEN "mint" ELSE "refused")
     \/ Goto(h, "refused")                      \* wrong password
  /\ UNCHANGED <<dbVars, jar, histVars>>

\* INSERT the first token of a family and COMMIT.
Mint(h) ==
  /\ call[h].pc = "mint" /\ nextToken < MaxTokens
  /\ tokens' = tokens \cup {[id |-> nextToken, family |-> nextToken,
                             user |-> call[h].user, revoked |-> FALSE]}
  /\ call' = [call EXCEPT ![h].pc = "set", ![h].set = nextToken]
  /\ nextToken' = nextToken + 1
  /\ UNCHANGED <<accounts, jar, histVars>>

(***************************************************************************)
(* refresh and logout                                                      *)
(***************************************************************************)

\* h has revoked its row and not committed yet.
Holds(h, id) == call[h].pc = "rotate" /\ call[h].old = id

\* lookup_active_refresh_token.
RefreshLookup(h) ==
  /\ call[h].pc = "lookup"
  /\ \/ /\ Active(call[h].cookie)
        /\ call' = [call EXCEPT ![h].pc = "revoke", ![h].old = call[h].cookie]
     \/ /\ ~Active(call[h].cookie)
        /\ Goto(h, "stale")
  /\ UNCHANGED <<dbVars, jar, histVars>>

\* Mutant: the revocation is committed on its own.
RefreshRevokeCommits(h) ==
  /\ call[h].pc = "revoke"
  /\ tokens' = Revoked(tokens, call[h].old)
  /\ Goto(h, "rotate")
  /\ UNCHANGED <<accounts, nextToken, jar, histVars>>

\* UPDATE ... SET revoked_at WHERE id: waits for the row, not for a condition.
RefreshRevoke(h) ==
  /\ call[h].pc = "revoke"
  /\ \A o \in Handlers : ~Holds(o, call[h].old)
  /\ Goto(h, "rotate")
  /\ UNCHANGED <<dbVars, jar, histVars>>

\* The next token of the family, for the same user.
Successor(h) ==
  [id |-> nextToken, family |-> FamilyOf(call[h].old), user |-> RowOf(call[h].old).user,
   revoked |-> FALSE]

\* INSERT it, COMMIT, answer with it.
RefreshRotate(h) ==
  /\ call[h].pc = "rotate" /\ nextToken < MaxTokens
  /\ tokens' = Revoked(tokens, call[h].old) \cup {Successor(h)}
  /\ call' = [call EXCEPT ![h].pc = "set", ![h].set = nextToken]
  /\ nextToken' = nextToken + 1
  /\ UNCHANGED <<accounts, jar, histVars>>

\* revoke_refresh_token and COMMIT; without a cookie only the answer is left.
Logout(h) ==
  LET id == call[h].cookie IN
  /\ call[h].pc = "logout"
  /\ \A o \in Handlers : ~Holds(o, id)
  /\ tokens' = Revoked(tokens, id)
  /\ loggedOut' = loggedOut \cup {t.family : t \in {x \in tokens : x.id = id /\ ~x.revoked}}
  /\ Goto(h, "clear")
  /\ UNCHANGED <<accounts, nextToken, jar, faults, contended, unlucky>>

\* The database or the process fails an open request: its transaction rolls
\* back, the answer is a 500 without cookies.
Fail(h) ==
  /\ call[h].pc \in Open /\ faults < MaxFaults
  /\ Goto(h, "refused")
  /\ faults' = faults + 1
  /\ UNCHANGED <<dbVars, jar, contended, loggedOut, unlucky>>

RefreshStep(h) == RefreshLookup(h) \/ RefreshRevoke(h) \/ RefreshRotate(h)

HandlerStep(h) ==
  \/ RegisterCheck(h) \/ RegisterInsert(h) \/ LoginVerify(h) \/ Mint(h)
  \/ RefreshStep(h) \/ Logout(h) \/ Fail(h)

BrowserStep(h) ==
  \/ SendRegister(h) \/ SendLogin(h) \/ SendRefresh(h) \/ SendLogout(h)
  \/ Deliver(h) \/ Lose(h)

Next ==
  \/ \E h \in Handlers : HandlerStep(h) \/ BrowserStep(h)
  \/ \E b \in Browsers : CookieExpires(b)

Spec == Init /\ [][Next]_vars

(***************************************************************************)
(* Properties                                                              *)
(***************************************************************************)

CallState ==
  [pc: {"idle"} \cup Open \cup Answers, browser: Browsers \cup {Null},
   user: Users \cup {Null}, cookie: Nat \cup {Null}, old: Nat \cup {Null},
   set: Nat \cup {Null}]

\* Types of every variable.
TypeOK ==
  /\ accounts \subseteq Users
  /\ tokens \subseteq TokenRow
  /\ nextToken \in Nat /\ faults \in Nat
  /\ jar \in [Browsers -> Nat \cup {Null}]
  /\ call \in [Handlers -> CallState]
  /\ contended \subseteq Nat /\ loggedOut \subseteq Nat
  /\ unlucky \subseteq Browsers

\* Rotation is atomic: as long as no two requests work on one family at the
\* same time, it has exactly one live token from its login to its logout, and
\* none after, whatever request fails or response is lost.
OneLiveToken ==
  \A t \in tokens : t.family \notin contended =>
    Cardinality(Live(t.family)) = IF t.family \in loggedOut THEN 0 ELSE 1

\* A browser that sends one request at a time and gets every answer always
\* holds a token that is live, until it logs out: rotation never leaves it
\* with the revoked predecessor.
JarIsLive ==
  \A b \in Browsers :
    /\ b \notin unlucky /\ jar[b] # Null
    /\ \A h \in Handlers : call[h].browser # b
    => Active(jar[b])

\* Once a logout or a rotation has been decided, the cookie it was sent with is
\* dead for good, also when other requests with the same cookie overlap it.
SpentIsDead ==
  \A h \in Handlers :
    /\ call[h].pc = "clear" => ~Active(call[h].cookie)
    /\ call[h].pc = "set" /\ call[h].old # Null => ~Active(call[h].old)

\* services/auth.py:143: "Atomically revoke ``raw_token`` and mint a new one"
\* -- no token has two live successors, so a family never has two live tokens.
AtMostOneLiveToken == \A t \in tokens : Cardinality(Live(t.family)) <= 1

=============================================================================
