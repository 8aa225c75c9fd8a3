--------------------------- MODULE SessionsProofs ---------------------------
(***************************************************************************)
(* Proofs about Sessions: rotation keeps one live token per family, a      *)
(* browser that sends one request at a time holds a live one, and a spent  *)
(* cookie stays dead, for any number of users, browsers and handlers.      *)
(***************************************************************************)
EXTENDS Sessions, FiniteSetTheorems, TLAPS

-----------------------------------------------------------------------------
(* The inductive invariant *)

\* Ids are unique and never used again; families are named by ids.
TokensOK ==
  /\ \A s, t \in tokens : s.id = t.id => s = t
  /\ \A t \in tokens : t.id < nextToken /\ t.family < nextToken
  /\ \A f \in contended \cup loggedOut : f < nextToken

\* Cookies name rows, and a request revokes the row of its own cookie.
CallOK(h) ==
  LET c == call[h] IN
  /\ IF c.pc = "idle" THEN c = Idle ELSE c.browser \in Browsers
  /\ c.pc \in {"check", "insert", "verify", "mint"} => c.user \in Users /\ c.old = Null
  /\ c.cookie # Null => Known(c.cookie)
  /\ c.old \in {Null, c.cookie}
  /\ c.pc \in {"revoke", "rotate"} => c.old # Null
  /\ c.pc = "set" <=> c.set # Null
  /\ c.set # Null => Known(c.set)

JarOK(b) == jar[b] # Null => Known(jar[b])

\* The token that h works on, at a family no other request is at.
Alone(h) ==
  \A t \in tokens : call[h].pc \in Using /\ call[h].cookie = t.id /\ t.family \notin contended =>
    /\ call[h].pc \in {"revoke", "rotate"} => ~t.revoked
    /\ \A o \in Handlers \ {h}, s \in tokens :
         call[o].pc \in Using /\ call[o].cookie = s.id => s.family # t.family

\* OneLiveToken token by token.
FamilyOK ==
  \A t \in tokens : t.family \notin contended =>
    IF t.family \in loggedOut
      THEN t.revoked
      ELSE \E s \in tokens : /\ s.family = t.family /\ ~s.revoked
                             /\ \A r \in tokens : r.family = t.family /\ ~r.revoked => r = s

\* b has the token in its jar, in a request or in an answer.
Refers(b, id) ==
  \/ jar[b] = id
  \/ \E h \in Handlers : call[h].browser = b /\ (call[h].cookie = id \/ call[h].set = id)

\* A token is handed to one browser only.
OneOwner ==
  \A b, c \in Browsers, t \in tokens : Refers(b, t.id) /\ Refers(c, t.id) => b = c

\* What a browser that is not unlucky has: one request at most, and a token that
\* is live until that request revokes it.
LuckyOK(b) ==
  b \notin unlucky =>
    /\ \A h, o \in Handlers : call[h].browser = b /\ call[o].browser = b => h = o
    /\ jar[b] # Null /\ (\A h \in Handlers : call[h].browser # b) => Active(jar[b])
    /\ \A h \in Handlers : call[h].browser = b =>
         /\ call[h].pc \notin {"set", "clear"} =>
              /\ jar[b] \in {Null, call[h].cookie}
              /\ call[h].cookie # Null => Active(call[h].cookie)
         /\ call[h].pc = "set" => Active(call[h].set)

SessionsInv ==
  /\ TypeOK
  /\ TokensOK
  /\ \A h \in Handlers : CallOK(h)
  /\ \A b \in Browsers : JarOK(b)
  /\ \A h \in Handlers : Alone(h)
  /\ FamilyOK
  /\ OneOwner
  /\ \A b \in Browsers : LuckyOK(b)
  /\ SpentIsDead

-----------------------------------------------------------------------------
(* Rows *)

LEMMA RowFacts ==
  ASSUME TokensOK, NEW t \in tokens
  PROVE  RowOf(t.id) = t /\ FamilyOf(t.id) = t.family
  BY DEF TokensOK, RowOf, FamilyOf

\* UPDATE touches the row of the id only, and only its revocation.
LEMMA RevokedRows ==
  ASSUME NEW rows \in SUBSET TokenRow, NEW id
  PROVE  /\ \A t \in rows : t.id # id => t \in Revoked(rows, id)
         /\ \A t \in rows : t.id = id =>
              \E s \in Revoked(rows, id) : s.id = id /\ s.family = t.family
         /\ \A s \in Revoked(rows, id) :
              /\ s \in TokenRow
              /\ s.id = id => s.revoked
              /\ s.id # id => s \in rows
              /\ \E t \in rows : t.id = s.id /\ t.family = s.family /\ (t.revoked => s.revoked)
  <1>1. ASSUME NEW t \in rows
        PROVE  LET s == IF t.id = id THEN [t EXCEPT !.revoked = TRUE] ELSE t
               IN /\ s \in TokenRow /\ s.id = t.id /\ s.family = t.family
                  /\ t.id = id => s.revoked = TRUE
                  /\ t.id # id => s = t
    BY DEF TokenRow
  <1>2. \A t \in rows : t.id # id => t \in Revoked(rows, id)
    BY DEF Revoked
  <1>3. ASSUME NEW t \in rows, t.id = id
        PROVE  \E s \in Revoked(rows, id) : s.id = id /\ s.family = t.family
    <2>1. [t EXCEPT !.revoked = TRUE] \in Revoked(rows, id)
      BY <1>3 DEF Revoked
    <2> QED
      BY <1>1, <1>3, <2>1
  <1>4. ASSUME NEW s \in Revoked(rows, id)
        PROVE  /\ s \in TokenRow
               /\ s.id = id => s.revoked
               /\ s.id # id => s \in rows
               /\ \E t \in rows : t.id = s.id /\ t.family = s.family /\ (t.revoked => s.revoked)
    <2>1. PICK t \in rows : s = IF t.id = id THEN [t EXCEPT !.revoked = TRUE] ELSE t
      BY DEF Revoked
    <2>2. CASE t.id = id
      BY <1>1, <2>1, <2>2
    <2>3. CASE t.id # id
      BY <2>1, <2>3
    <2> QED
      BY <2>2, <2>3
  <1> QED
    BY <1>2, <1>3, <1>4

LEMMA SessionsInitInv == Init => SessionsInv
  BY SessionsAssumption
  DEF Init, SessionsInv, TypeOK, TokensOK, CallOK, JarOK, Alone, FamilyOK, OneOwner, Refers,
      LuckyOK, SpentIsDead, Idle, CallState, Open, Using, Answers

-----------------------------------------------------------------------------
(* Steps that leave the tokens alone *)

\* A handler reads, waits or gives up.
LEMMA QuietStep ==
  ASSUME SessionsInv, TypeOK', NEW h \in Handlers,
         UNCHANGED <<tokens, nextToken, jar, contended, loggedOut, unlucky>>,
         \A o \in Handlers \ {h} : call'[o] = call[o],
         call[h].pc \notin {"idle", "set", "clear"},
         call'[h].browser = call[h].browser, call'[h].cookie = call[h].cookie,
         call'[h].set = Null, call'[h].old \in {Null, call[h].cookie},
         call'[h].pc \notin {"idle", "set", "clear"},
         call'[h].pc \in {"check", "insert", "verify", "mint"} =>
           call'[h].user \in Users /\ call'[h].old = Null,
         call'[h].pc \in Using => call[h].pc \in Using,
         call'[h].pc \in {"revoke", "rotate"} =>
           /\ call'[h].old # Null
           /\ call[h].pc \in {"revoke", "rotate"} \/ Active(call[h].cookie)
  PROVE  SessionsInv'
  <1> USE DEF SessionsInv
  <1>1. TokensOK' /\ FamilyOK' /\ \A b \in Browsers : JarOK(b)'
    BY DEF TokensOK, FamilyOK, JarOK, Known
  <1>2. \A o \in Handlers : CallOK(o)'
    BY DEF CallOK, Known
  <1>3. \A o \in Handlers : Alone(o)'
    <2> SUFFICES ASSUME NEW o \in Handlers, NEW t \in tokens,
                        call'[o].pc \in Using, call'[o].cookie = t.id, t.family \notin contended
                 PROVE  /\ call'[o].pc \in {"revoke", "rotate"} => ~t.revoked
                        /\ \A p \in Handlers \ {o}, s \in tokens :
                             call'[p].pc \in Using /\ call'[p].cookie = s.id =>
                               s.family # t.family
      BY DEF Alone
    <2>1. /\ call[o].pc \in Using /\ call[o].cookie = t.id
          /\ \A p \in Handlers : call'[p].pc \in Using => call[p].pc \in Using
          /\ \A p \in Handlers : call'[p].cookie = call[p].cookie
      OBVIOUS
    <2>2. Active(t.id) => ~t.revoked
      BY DEF Active, TokensOK
    <2> QED
      BY <2>1, <2>2 DEF Alone
  <1>4. OneOwner'
    <2>1. \A b, id : id # Null /\ Refers(b, id)' => Refers(b, id)
      BY DEF Refers
    <2>2. \A t \in tokens : t.id # Null
      BY SessionsAssumption DEF TypeOK, TokenRow
    <2> QED
      BY <2>1, <2>2 DEF OneOwner
  <1>5. \A b \in Browsers : LuckyOK(b)'
    <2>1. \A o \in Handlers : /\ call'[o].browser = call[o].browser
                              /\ call'[o].cookie = call[o].cookie
                              /\ call'[o].pc = "set" => call[o].pc = "set" /\ call'[o] = call[o]
                              /\ call[o].pc \in {"set", "clear"} => call'[o].pc = call[o].pc
      OBVIOUS
    <2> QED
      BY <2>1 DEF LuckyOK, Active
  <1>6. SpentIsDead'
    BY DEF SpentIsDead, Active
  <1> QED
    BY <1>1, <1>2, <1>3, <1>4, <1>5, <1>6

\* The requests of the browser b are those it had, and the new one.
LEMMA SendInv ==
  ASSUME SessionsInv, NEW h \in Handlers, NEW b \in Browsers, NEW u \in Users \cup {Null},
         NEW pc \in {"check", "verify", "lookup", "logout"}, Send(h, b, pc, u),
         pc \in {"check", "verify"} => u \in Users
  PROVE  SessionsInv'
  <1> USE DEF SessionsInv
  <1> DEFINE Rival(o) == /\ pc \in Using /\ call[o].pc \in Using
                         /\ Known(call[o].cookie) /\ Known(jar[b])
                         /\ FamilyOf(call[o].cookie) = FamilyOf(jar[b])
  <1>1. /\ call[h] = Idle /\ b \notin {Null}
        /\ UNCHANGED <<tokens, nextToken, jar, accounts, faults, loggedOut>>
    BY SessionsAssumption DEF Send, CallOK, dbVars
  <1>2. /\ call' = [call EXCEPT ![h] = [pc |-> pc, browser |-> b, user |-> u, cookie |-> jar[b],
                                        old |-> Null, set |-> Null]]
        /\ contended \subseteq contended'
        /\ \A f \in contended' \ contended : f = FamilyOf(jar[b]) /\ \E o \in Handlers : Rival(o)
        /\ \A o \in Handlers : Rival(o) => FamilyOf(jar[b]) \in contended'
        /\ unlucky \subseteq unlucky' /\ unlucky' \subseteq unlucky \cup {b}
        /\ \A o \in Handlers : call[o].browser = b => b \in unlucky'
    <2>1. call' = [call EXCEPT ![h] = [pc |-> pc, browser |-> b, user |-> u, cookie |-> jar[b],
                                        old |-> Null, set |-> Null]]
      BY DEF Send
    <2>2. contended' = contended \cup {FamilyOf(jar[b]) : o \in {o \in Handlers : Rival(o)}}
      BY DEF Send
    <2>3. unlucky' = unlucky \cup {b : o \in {x \in Handlers : call[x].browser = b}}
      BY DEF Send
    <2> HIDE DEF Rival
    <2>4. /\ contended \subseteq contended'
          /\ \A f \in contended' \ contended : f = FamilyOf(jar[b]) /\ \E o \in Handlers : Rival(o)
          /\ \A o \in Handlers : Rival(o) => FamilyOf(jar[b]) \in contended'
      BY <2>2
    <2> QED
      BY <2>1, <2>3, <2>4
  <1>3. /\ call'[h].pc = pc /\ call'[h].browser = b /\ call'[h].cookie = jar[b]
        /\ call'[h].old = Null /\ call'[h].set = Null /\ call'[h].user = u
        /\ \A o \in Handlers \ {h} : call'[o] = call[o]
    BY <1>2 DEF TypeOK
  <1>4. jar[b] # Null => \E t \in tokens : t.id = jar[b] /\ FamilyOf(jar[b]) = t.family
    BY RowFacts DEF JarOK, Known
  <1>5. \A f \in contended' : f \in contended \/
           \E t \in tokens : f = t.family /\ t.id = jar[b]
    <2>1. \A o \in Handlers : Rival(o) => jar[b] # Null
      BY SessionsAssumption DEF Known, TypeOK, TokenRow
    <2> HIDE DEF Rival
    <2> QED
      BY <1>2, <1>4, <2>1
  <1>6. TypeOK'
    <2>1. contended' \subseteq Nat
      BY <1>5 DEF TypeOK, TokenRow
    <2>2. call'[h] \in CallState
      BY <1>2, SessionsAssumption DEF CallState, TypeOK, Open, Using
    <2>3. unlucky' \subseteq Browsers
      BY <1>2 DEF TypeOK
    <2> QED
      BY <1>1, <1>2, <2>1, <2>2, <2>3 DEF TypeOK
  <1>7. TokensOK' /\ FamilyOK' /\ \A c \in Browsers : JarOK(c)'
    <2>1. contended \subseteq contended'
      BY <1>2
    <2>2. \A f \in contended' : f < nextToken
      BY <1>5 DEF TokensOK
    <2> QED
      BY <1>1, <2>1, <2>2 DEF TokensOK, FamilyOK, JarOK, Known
  <1>8. \A o \in Handlers : CallOK(o)'
    BY <1>1, <1>3 DEF CallOK, JarOK, Known
  <1>9. \A o \in Handlers : Alone(o)'
    <2> SUFFICES ASSUME NEW o \in Handlers, NEW t \in tokens,
                        call'[o].pc \in Using, call'[o].cookie = t.id, t.family \notin contended'
                 PROVE  /\ call'[o].pc \in {"revoke", "rotate"} => ~t.revoked
                        /\ \A p \in Handlers \ {o}, s \in tokens :
                             call'[p].pc \in Using /\ call'[p].cookie = s.id =>
                               s.family # t.family
      BY <1>1 DEF Alone
    <2>1. call'[o].pc \in {"revoke", "rotate"} => ~t.revoked
      BY <1>2, <1>3 DEF Alone
    <2>2. ASSUME NEW p \in Handlers \ {o}, NEW s \in tokens,
                 call'[p].pc \in Using, call'[p].cookie = s.id, s.family = t.family
          PROVE  FALSE
      <3>1. CASE o # h /\ p # h
        BY <1>2, <1>3, <2>2, <3>1 DEF Alone
      <3>2. ASSUME NEW q \in Handlers, NEW r \in tokens, q # h,
                   pc \in Using, call[q].pc \in Using, call[q].cookie = r.id,
                   NEW j \in tokens, jar[b] = j.id, j.family = r.family, r.family = t.family
            PROVE  FALSE
        <4>1. FamilyOf(call[q].cookie) = r.family /\ FamilyOf(jar[b]) = r.family
          BY <3>2, RowFacts
        <4>2. Rival(q)
          BY <3>2, <4>1 DEF Known
        <4>3. t.family \in contended'
          BY <1>2, <3>2, <4>1, <4>2
        <4> QED
          BY <4>3
      <3>3. CASE o = h
        BY <1>3, <2>2, <3>2, <3>3
      <3>4. CASE p = h
        BY <1>3, <2>2, <3>2, <3>4
      <3> QED
        BY <3>1, <3>3, <3>4
    <2> QED
      BY <2>1, <2>2
  <1>10. OneOwner'
    <2>1. \A c, id : id # Null /\ Refers(c, id)' => Refers(c, id)
      BY <1>1, <1>3 DEF Refers
    <2>2. \A t \in tokens : t.id # Null
      BY SessionsAssumption DEF TypeOK, TokenRow
    <2> QED
      BY <1>1, <2>1, <2>2 DEF OneOwner
  <1>11. \A c \in Browsers : LuckyOK(c)'
    <2>1. CASE b \in unlucky'
      <3>1. \A c \in Browsers : c \notin unlucky' => c \notin unlucky /\ c # b
        BY <1>2, <2>1
      <3>2. \A c \in Browsers, o \in Handlers : c # b =>
               /\ call'[o].browser = c => call[o].browser = c /\ call'[o] = call[o]
               /\ call[o].browser = c => call'[o].browser = c
        BY <1>1, <1>3, SessionsAssumption DEF Idle
      <3> QED
        BY <1>1, <3>1, <3>2 DEF LuckyOK, Active
    <2>2. CASE b \notin unlucky'
      <3>1. b \notin unlucky /\ \A o \in Handlers : call[o].browser # b
        BY <1>2, <2>2
      <3>2. \A c \in Browsers, o \in Handlers : c # b =>
               /\ call'[o].browser = c => call[o].browser = c /\ call'[o] = call[o]
               /\ call[o].browser = c => call'[o].browser = c
        BY <1>1, <1>3, SessionsAssumption DEF Idle
      <3>3. \A c \in Browsers \ {b} : LuckyOK(c)'
        BY <1>1, <1>2, <3>2 DEF LuckyOK, Active
      <3>4. LuckyOK(b)'
        BY <1>1, <1>3, <3>1 DEF LuckyOK, Active, Using
      <3> QED
        BY <3>3, <3>4
    <2> QED
      BY <2>1, <2>2
  <1>12. SpentIsDead'
    BY <1>1, <1>3 DEF SpentIsDead, Active
  <1> QED
    BY <1>1, <1>6, <1>7, <1>8, <1>9, <1>10, <1>11, <1>12

\* An answer arrives or is lost.
LEMMA EndInv ==
  ASSUME SessionsInv, NEW h \in Handlers, Deliver(h) \/ Lose(h)
  PROVE  SessionsInv'
  <1> USE DEF SessionsInv
  <1> PICK b : b = call[h].browser
    OBVIOUS
  <1>1. /\ call[h].pc \in Answers /\ b \in Browsers /\ b # Null
        /\ UNCHANGED <<tokens, nextToken, accounts, contended, loggedOut>>
        /\ call' = [call EXCEPT ![h] = Idle]
    BY SessionsAssumption DEF Deliver, Lose, CallOK, dbVars, histVars, Answers, Idle
  <1>2. /\ call'[h] = Idle /\ Idle.browser = Null /\ Idle.pc = "idle" /\ Idle.cookie = Null
        /\ Idle.old = Null /\ Idle.set = Null
        /\ \A o \in Handlers \ {h} : call'[o] = call[o]
    BY <1>1 DEF TypeOK, Idle
  <1>3. /\ unlucky \subseteq unlucky'
        /\ \/ b \in unlucky' /\ jar' = jar
           \/ /\ call[h].pc = "set" /\ call[h].set \in Nat /\ jar' = [jar EXCEPT ![b] = call[h].set]
           \/ /\ call[h].pc = "clear" /\ jar' = [jar EXCEPT ![b] = Null]
           \/ /\ call[h].pc \notin {"set", "clear"} /\ jar' = jar
    BY DEF Deliver, Lose, histVars, CallOK, TypeOK, CallState
  <1>4. /\ jar'[b] \in {jar[b], Null, call[h].set}
        /\ \A c \in Browsers \ {b} : jar'[c] = jar[c]
    BY <1>1, <1>3 DEF TypeOK
  <1>5. TypeOK'
    <2>1. jar' \in [Browsers -> Nat \cup {Null}]
      BY <1>3 DEF TypeOK
    <2>2. call' \in [Handlers -> CallState]
      BY <1>1 DEF TypeOK, CallState, Idle
    <2>3. unlucky' \subseteq Browsers /\ faults' \in Nat
      BY <1>1 DEF Deliver, Lose, histVars, TypeOK
    <2> QED
      BY <1>1, <2>1, <2>2, <2>3 DEF TypeOK
  <1>6. TokensOK' /\ FamilyOK'
    BY <1>1 DEF TokensOK, FamilyOK
  <1>7. /\ \A c \in Browsers : JarOK(c)'
        /\ \A o \in Handlers : CallOK(o)'
    BY <1>1, <1>2, <1>4 DEF CallOK, JarOK, Known
  <1>8. \A o \in Handlers : Alone(o)'
    BY <1>1, <1>2 DEF Alone, Using
  <1>9. OneOwner'
    <2>1. \A c \in Browsers : \A id : id # Null /\ Refers(c, id)' => Refers(c, id)
      BY <1>1, <1>2, <1>4 DEF Refers
    <2>2. \A t \in tokens : t.id # Null
      BY SessionsAssumption DEF TypeOK, TokenRow
    <2> QED
      BY <1>1, <2>1, <2>2 DEF OneOwner
  <1>10. \A c \in Browsers : LuckyOK(c)'
    <2>1. \A c \in Browsers, o \in Handlers : c # b =>
               /\ call'[o].browser = c => call[o].browser = c /\ call'[o] = call[o]
               /\ call[o].browser = c => call'[o].browser = c
      BY <1>2, SessionsAssumption
    <2>2. \A c \in Browsers \ {b} : LuckyOK(c)'
      BY <1>1, <1>3, <1>4, <2>1 DEF LuckyOK, Active
    <2>3. LuckyOK(b)'
      <3> SUFFICES ASSUME b \notin unlucky' PROVE LuckyOK(b)'
        BY DEF LuckyOK
      <3>1. b \notin unlucky /\ \A o \in Handlers : call'[o].browser # b
        BY <1>1, <1>2, <1>3 DEF LuckyOK
      <3>2. jar'[b] # Null => Active(jar'[b])
        BY <1>1, <1>3, <3>1 DEF LuckyOK, TypeOK
      <3> QED
        BY <1>1, <3>1, <3>2 DEF LuckyOK, Active
    <2> QED
      BY <2>2, <2>3
  <1>11. SpentIsDead'
    BY <1>1, <1>2 DEF SpentIsDead, Active
  <1> QED
    BY <1>5, <1>6, <1>7, <1>8, <1>9, <1>10, <1>11

LEMMA ExpireInv ==
  ASSUME SessionsInv, NEW b \in Browsers, CookieExpires(b)
  PROVE  SessionsInv'
  <1> USE DEF SessionsInv
  <1>1. UNCHANGED <<tokens, nextToken, accounts, call, faults, contended, loggedOut, unlucky>>
    BY DEF CookieExpires, dbVars, histVars
  <1>2. jar'[b] = Null /\ \A c \in Browsers \ {b} : jar'[c] = jar[c]
    BY DEF CookieExpires, TypeOK
  <1>3. TypeOK'
    BY <1>1 DEF CookieExpires, TypeOK
  <1>4. TokensOK' /\ FamilyOK' /\ SpentIsDead'
    BY <1>1 DEF TokensOK, FamilyOK, SpentIsDead, Active
  <1>5. /\ \A c \in Browsers : JarOK(c)'
        /\ \A h \in Handlers : CallOK(h)' /\ Alone(h)'
    BY <1>1, <1>2 DEF CallOK, JarOK, Alone, Known
  <1>6. OneOwner'
    <2>1. \A c \in Browsers : \A id : id # Null /\ Refers(c, id)' => Refers(c, id)
      BY <1>1, <1>2 DEF Refers
    <2>2. \A t \in tokens : t.id # Null
      BY SessionsAssumption DEF TypeOK, TokenRow
    <2> QED
      BY <1>1, <2>1, <2>2 DEF OneOwner
  <1>7. \A c \in Browsers : LuckyOK(c)'
    BY <1>1, <1>2 DEF LuckyOK, Active
  <1> QED
    BY <1>3, <1>4, <1>5, <1>6, <1>7

\* What QuietStep asks of the steps that only move a handler on.
LEMMA QuietHandler ==
  ASSUME SessionsInv, NEW h \in Handlers,
         \/ RegisterCheck(h) \/ RegisterInsert(h) \/ LoginVerify(h)
         \/ RefreshLookup(h) \/ RefreshRevoke(h) \/ Fail(h)
  PROVE  SessionsInv'
  <1> USE DEF SessionsInv
  <1>1. /\ call[h].pc \in Open /\ call[h].set = Null /\ call[h] \in CallState
        /\ UNCHANGED <<tokens, nextToken, jar, contended, loggedOut, unlucky>>
    BY DEF RegisterCheck, RegisterInsert, LoginVerify, RefreshLookup, RefreshRevoke, Fail, dbVars,
           histVars, Open, Using, CallOK, TypeOK
  <1>2. accounts' \subseteq Users /\ faults' \in Nat
    <2>1. CASE RegisterInsert(h)
      BY <2>1 DEF RegisterInsert, TypeOK, histVars, CallOK
    <2>2. CASE ~RegisterInsert(h)
      BY <2>2 DEF RegisterCheck, LoginVerify, RefreshLookup, RefreshRevoke, Fail, TypeOK, dbVars, histVars
    <2> QED
      BY <2>1, <2>2
  <1>3. CASE RefreshLookup(h) /\ Active(call[h].cookie)
    <2>1. /\ call[h].pc = "lookup"
          /\ call' = [call EXCEPT ![h].pc = "revoke", ![h].old = call[h].cookie]
      BY <1>3 DEF RefreshLookup
    <2>2. /\ call'[h].pc = "revoke" /\ call'[h].old = call[h].cookie /\ call'[h].set = call[h].set
          /\ call'[h].cookie = call[h].cookie /\ call'[h].browser = call[h].browser
          /\ \A o \in Handlers \ {h} : call'[o] = call[o]
      BY <1>1, <2>1 DEF TypeOK, CallState
    <2>3. call[h].cookie # Null
      BY <1>3, SessionsAssumption DEF Active, TypeOK, TokenRow
    <2>4. TypeOK'
      <3>1. PICK c \in CallState : c = call[h] /\ c.cookie \in Nat \cup {Null}
        BY <1>1 DEF CallState
      <3>2. PICK r : r = [c EXCEPT !.pc = "revoke", !.old = c.cookie]
        OBVIOUS
      <3>3. r \in CallState
        BY <3>1, <3>2 DEF CallState, Open, Using
      <3>4. call' = [call EXCEPT ![h] = r]
        BY <2>1, <3>1, <3>2 DEF TypeOK
      <3> QED
        BY <1>1, <1>2, <3>3, <3>4 DEF TypeOK
    <2> QED
      BY <1>1, <1>3, <2>1, <2>2, <2>3, <2>4, QuietStep DEF Using
  <1>4. ASSUME NEW pc \in {"refused", "insert", "mint", "stale", "rotate"}, Goto(h, pc),
               pc \in {"insert", "mint"} => call[h].pc \in {"check", "insert", "verify"},
               pc = "rotate" => call[h].pc = "revoke"
        PROVE  SessionsInv'
    <2>1. /\ call'[h].pc = pc /\ call'[h].old = call[h].old /\ call'[h].set = call[h].set
          /\ call'[h].cookie = call[h].cookie /\ call'[h].browser = call[h].browser
          /\ call'[h].user = call[h].user
          /\ \A o \in Handlers \ {h} : call'[o] = call[o]
      BY <1>1, <1>4 DEF Goto, TypeOK, CallState
    <2>2. TypeOK'
      BY <1>1, <1>2, <1>4 DEF Goto, TypeOK, CallState, Open, Using, Answers
    <2>3. /\ pc \in {"insert", "mint"} => call[h].user \in Users /\ call[h].old = Null
          /\ pc = "rotate" => call[h].old # Null
          /\ call[h].old \in {Null, call[h].cookie}
      BY <1>4 DEF CallOK
    <2> QED
      BY <1>1, <1>4, <2>1, <2>2, <2>3, QuietStep DEF Using, Open
  <1>5. CASE RegisterCheck(h)
    BY <1>4, <1>5 DEF RegisterCheck
  <1>6. CASE RegisterInsert(h)
    BY <1>4, <1>6 DEF RegisterInsert
  <1>7. CASE LoginVerify(h)
    BY <1>4, <1>7 DEF LoginVerify
  <1>8. CASE RefreshLookup(h) /\ ~Active(call[h].cookie)
    BY <1>4, <1>8 DEF RefreshLookup
  <1>9. CASE RefreshRevoke(h)
    BY <1>4, <1>9 DEF RefreshRevoke
  <1>10. CASE Fail(h)
    BY <1>4, <1>10 DEF Fail
  <1> QED
    BY <1>3, <1>5, <1>6, <1>7, <1>8, <1>9, <1>10

-----------------------------------------------------------------------------
(* Steps that write the tokens *)

\* What the tables owe a handler that mints or revokes: every token keeps its
\* id and family, those with another id keep their row, and a new row has a
\* new id.
Carried(id) ==
  /\ \A t \in tokens : \E s \in tokens' :
       s.id = t.id /\ s.family = t.family /\ (t.revoked => s.revoked) /\ (t.id # id => s = t)
  /\ \A s \in tokens' : s.id < nextToken => \E t \in tokens :
       s.id = t.id /\ s.family = t.family /\ (t.revoked => s.revoked) /\ (t.id # id => s = t)

\* A handler whose transaction commits: it revokes the row of its cookie, or
\* none, and its answer carries the new token, or none.
LEMMA WriteStep ==
  ASSUME SessionsInv, TypeOK', TokensOK', FamilyOK', NEW h \in Handlers, CallOK(h)',
         NEW id \in {Null, call[h].cookie}, Carried(id),
         UNCHANGED <<jar, contended, unlucky>>,
         \A o \in Handlers \ {h} : call'[o] = call[o],
         call[h].pc \notin {"idle", "set", "clear"}, id # Null => call[h].pc \in Using,
         call'[h].browser = call[h].browser, call'[h].cookie = call[h].cookie,
         call'[h].old = call[h].old, call'[h].pc \in {"set", "clear"},
         call'[h].set \in {Null, nextToken},
         call'[h].pc = "set" => Active(call[h].set)',
         call'[h].pc = "clear" => ~Active(call[h].cookie)',
         call'[h].pc = "set" /\ call[h].old # Null => ~Active(call[h].old)'
  PROVE  SessionsInv'
  <1> USE DEF SessionsInv
  <1>1. \A x : Known(x) => Known(x)' /\ x \in Nat /\ x # nextToken
    BY DEF Known, Carried, TokensOK, TypeOK, TokenRow
  <1>2. \A b \in Browsers : JarOK(b)'
    BY <1>1 DEF JarOK
  <1>3. \A o \in Handlers : CallOK(o)'
    BY <1>1 DEF CallOK
  <1>4. \A o \in Handlers : Alone(o)'
    <2> SUFFICES ASSUME NEW o \in Handlers, NEW t \in tokens',
                        call'[o].pc \in Using, call'[o].cookie = t.id, t.family \notin contended
                 PROVE  /\ call'[o].pc \in {"revoke", "rotate"} => ~t.revoked
                        /\ \A p \in Handlers \ {o}, s \in tokens' :
                             call'[p].pc \in Using /\ call'[p].cookie = s.id =>
                               s.family # t.family
      BY DEF Alone
    <2>1. o # h /\ call[o].pc \in Using /\ call[o].cookie = t.id
      BY DEF Using
    <2>2. ASSUME NEW p \in Handlers, NEW s \in tokens', call'[p].cookie = s.id
          PROVE  \E r \in tokens : /\ s.id = r.id /\ s.family = r.family
                                   /\ (r.revoked => s.revoked) /\ (r.id # id => s = r)
      <3>1. s.id \in Nat
        BY DEF TypeOK, TokenRow
      <3>2. s.id < nextToken
        BY <2>2, <3>1, SessionsAssumption DEF CallOK, Known, TokensOK
      <3> QED
        BY <3>2 DEF Carried
    <2>3. PICK r \in tokens : /\ t.id = r.id /\ t.family = r.family
                              /\ (r.revoked => t.revoked) /\ (r.id # id => t = r)
      BY <2>1, <2>2
    <2>4. ASSUME NEW p \in Handlers \ {o}, NEW s \in tokens',
                 call'[p].pc \in Using, call'[p].cookie = s.id
          PROVE  s.family # t.family
      <3>1. p # h /\ call[p].pc \in Using /\ call[p].cookie = s.id
        BY <2>4 DEF Using
      <3>2. PICK q \in tokens : s.id = q.id /\ s.family = q.family
        BY <2>2, <2>4
      <3> QED
        BY <2>1, <2>3, <3>1, <3>2 DEF Alone
    <2>5. t.id # id
      <3>1. call[h].pc \in Using /\ call[h].cookie = r.id => FALSE
        BY <2>1, <2>3 DEF Alone
      <3> QED
        BY <2>3, <3>1, SessionsAssumption DEF TypeOK, TokenRow
    <2> QED
      BY <2>1, <2>3, <2>4, <2>5 DEF Alone
  <1>5. ASSUME NEW b \in Browsers, NEW x
        PROVE  /\ x # Null /\ Refers(b, x) => x # nextToken
               /\ Refers(b, x)' => Refers(b, x) \/ x = Null \/ (x = nextToken /\ b = call[h].browser)
    BY <1>1 DEF Refers, JarOK, CallOK
  <1>6. OneOwner'
    <2> SUFFICES ASSUME NEW b \in Browsers, NEW c \in Browsers, NEW s \in tokens',
                        Refers(b, s.id)', Refers(c, s.id)'
                 PROVE  b = c
      BY DEF OneOwner
    <2>1. s.id \in Nat /\ s.id # Null /\ nextToken \in Nat
      BY SessionsAssumption DEF TypeOK, TokenRow
    <2>2. CASE s.id = nextToken
      BY <1>5, <2>1, <2>2
    <2>3. CASE s.id # nextToken
      <3>1. Refers(b, s.id) /\ Refers(c, s.id)
        BY <1>5, <2>1, <2>3
      <3>2. Known(s.id)
        BY <2>1, <3>1 DEF Refers, JarOK, CallOK
      <3> QED
        BY <3>1, <3>2 DEF OneOwner, Known
    <2> QED
      BY <2>2, <2>3
  <1>7. \A x : Active(x) /\ x # id => Active(x)'
    BY DEF Active, Carried
  <1>8. \A b \in Browsers : LuckyOK(b)'
    <2> SUFFICES ASSUME NEW b \in Browsers, b \notin unlucky PROVE LuckyOK(b)'
      BY DEF LuckyOK
    <2>1. \A o \in Handlers : call'[o].browser = call[o].browser
      OBVIOUS
    <2>2. CASE call[h].browser = b
      <3>1. \A o, p \in Handlers : call[o].browser = b /\ call[p].browser = b => o = p
        BY DEF LuckyOK
      <3>2. \A o \in Handlers : call[o].browser = b => o = h
        BY <2>2, <3>1
      <3>3. \E o \in Handlers : call'[o].browser = b
        BY <2>1, <2>2
      <3> QED
        BY <2>1, <3>1, <3>2, <3>3 DEF LuckyOK
    <2>3. CASE call[h].browser # b
      <3>1. call[h].browser \in Browsers
        BY DEF CallOK
      <3>2. \A x : x # Null /\ Refers(b, x) => x # id
        <4> SUFFICES ASSUME id # Null, Refers(b, id) PROVE FALSE
          OBVIOUS
        <4>1. Refers(call[h].browser, id)
          BY DEF Refers
        <4>2. Known(id)
          BY DEF CallOK
        <4> QED
          BY <2>3, <3>1, <4>1, <4>2 DEF OneOwner, Known
      <3>3. /\ jar[b] # Null /\ Active(jar[b]) => Active(jar[b])'
            /\ \A o \in Handlers : call[o].browser = b =>
                 /\ call[o].cookie # Null /\ Active(call[o].cookie) => Active(call[o].cookie)'
                 /\ call[o].set # Null /\ Active(call[o].set) => Active(call[o].set)'
        <4>1. \A x : x # Null /\ Refers(b, x) /\ Active(x) => Active(x)'
          BY <1>7, <3>2
        <4>2. jar[b] # Null /\ Active(jar[b]) => Active(jar[b])'
          BY <4>1 DEF Refers, Active
        <4>3. ASSUME NEW o \in Handlers, call[o].browser = b
              PROVE  /\ call[o].cookie # Null /\ Active(call[o].cookie) => Active(call[o].cookie)'
                     /\ call[o].set # Null /\ Active(call[o].set) => Active(call[o].set)'
          <5>1. Refers(b, call[o].cookie) /\ Refers(b, call[o].set)
            BY <4>3 DEF Refers
          <5>2. call'[o] = call[o]
            BY <2>3, <4>3
          <5> QED
            BY <4>1, <5>1, <5>2 DEF Active
        <4> QED
          BY <4>2, <4>3
      <3>4. \A o \in Handlers : call[o].browser = b =>
              o # h /\ (call[o].pc = "set" => call[o].set # Null)
        BY <2>3 DEF CallOK
      <3>5. jar[b] # Null /\ (\A o \in Handlers : call'[o].browser # b) => Active(jar[b])'
        BY <2>1, <3>3 DEF LuckyOK
      <3>6. ASSUME NEW o \in Handlers, call[o].browser = b
            PROVE  /\ call[o].pc \notin {"set", "clear"} =>
                        /\ jar[b] \in {Null, call[o].cookie}
                        /\ call[o].cookie # Null => Active(call[o].cookie)'
                   /\ call[o].pc = "set" => Active(call[o].set)'
        BY <3>3, <3>4, <3>6 DEF LuckyOK
      <3>7. \A o, p \in Handlers : call'[o].browser = b /\ call'[p].browser = b => o = p
        BY <2>1 DEF LuckyOK
      <3> QED
        BY <2>1, <3>4, <3>5, <3>6, <3>7 DEF LuckyOK, Active
    <2> QED
      BY <2>2, <2>3
  <1>9. SpentIsDead'
    <2>1. \A x : Known(x) /\ ~Active(x) => ~Active(x)'
      <3> SUFFICES ASSUME NEW s \in tokens', ~s.revoked, Known(s.id) PROVE Active(s.id)
        BY DEF Active
      <3>1. s.id < nextToken
        BY DEF Known, TokensOK
      <3> QED
        BY <3>1 DEF Carried, Active
    <2>2. \A o \in Handlers \ {h} :
            /\ call[o].pc = "clear" => ~Active(call[o].cookie)'
            /\ call[o].pc = "set" /\ call[o].old # Null => ~Active(call[o].old)'
      <3> SUFFICES ASSUME NEW o \in Handlers \ {h}
                   PROVE  /\ call[o].pc = "clear" => ~Active(call[o].cookie)'
                          /\ call[o].pc = "set" /\ call[o].old # Null => ~Active(call[o].old)'
        OBVIOUS
      <3>1. ~Active(Null)'
        BY SessionsAssumption DEF Active, TypeOK, TokenRow
      <3> QED
        BY <2>1, <3>1 DEF SpentIsDead, CallOK
    <2> QED
      BY <2>2 DEF SpentIsDead, Active
  <1> QED
    BY <1>2, <1>3, <1>4, <1>6, <1>8, <1>9

LEMMA MintInv ==
  ASSUME SessionsInv, NEW h \in Handlers, Mint(h)
  PROVE  SessionsInv'
  <1> USE DEF SessionsInv
  <1> DEFINE new == [id |-> nextToken, family |-> nextToken, user |-> call[h].user,
                     revoked |-> FALSE]
  <1>1. /\ call[h].pc = "mint" /\ call[h].set = Null /\ call[h].old = Null
        /\ call[h] \in CallState /\ call[h].user \in Users
        /\ tokens' = tokens \cup {new} /\ nextToken' = nextToken + 1 /\ nextToken \in Nat
        /\ call' = [call EXCEPT ![h].pc = "set", ![h].set = nextToken]
        /\ UNCHANGED <<accounts, jar, faults, contended, loggedOut, unlucky>>
    BY DEF Mint, CallOK, TypeOK, histVars
  <1>2. /\ call'[h].pc = "set" /\ call'[h].set = nextToken /\ call'[h].old = Null
        /\ call'[h].cookie = call[h].cookie /\ call'[h].browser = call[h].browser
        /\ \A o \in Handlers \ {h} : call'[o] = call[o]
    BY <1>1 DEF TypeOK, CallState
  <1>3. new \in TokenRow /\ new.id = nextToken /\ new.family = nextToken /\ new.revoked = FALSE
    BY <1>1 DEF TokenRow
  <1> HIDE DEF new
  <1>4. TypeOK'
    <2>1. [call[h] EXCEPT !.pc = "set", !.set = nextToken] \in CallState
      BY <1>1 DEF CallState, Answers
    <2>2. call' \in [Handlers -> CallState]
      BY <1>1, <2>1 DEF TypeOK
    <2> QED
      BY <1>1, <1>3, <2>2 DEF TypeOK
  <1>5. TokensOK'
    <2>1. \A s \in tokens' : s = new \/ (s \in tokens /\ s.id < nextToken /\ s.family < nextToken)
      BY <1>1 DEF TokensOK
    <2>2. \A s, t \in tokens' : s.id = t.id => s = t
      BY <1>1, <1>3, <2>1 DEF TokensOK
    <2>3. \A s \in tokens' : s.id < nextToken' /\ s.family < nextToken'
      BY <1>1, <1>3, <2>1 DEF TypeOK, TokenRow
    <2>4. \A f \in contended \cup loggedOut : f < nextToken'
      BY <1>1 DEF TokensOK, TypeOK
    <2> QED
      BY <1>1, <2>2, <2>3, <2>4 DEF TokensOK
  <1>6. FamilyOK'
    <2>1. \A t \in tokens : t.family # nextToken
      BY <1>1 DEF TokensOK, TypeOK, TokenRow
    <2>2. nextToken \notin loggedOut
      BY <1>1 DEF TokensOK
    <2> SUFFICES ASSUME NEW t \in tokens', t.family \notin contended
                 PROVE  IF t.family \in loggedOut
                          THEN t.revoked
                          ELSE \E s \in tokens' :
                                 /\ s.family = t.family /\ ~s.revoked
                                 /\ \A r \in tokens' : r.family = t.family /\ ~r.revoked => r = s
      BY <1>1 DEF FamilyOK
    <2>3. CASE t = new
      BY <1>1, <1>3, <2>1, <2>2, <2>3
    <2>4. CASE t \in tokens
      <3>1. t.family # nextToken
        BY <2>1, <2>4
      <3>2. CASE t.family \in loggedOut
        BY <1>1, <2>4, <3>2 DEF FamilyOK
      <3>3. CASE t.family \notin loggedOut
        <4>1. PICK s \in tokens : /\ s.family = t.family /\ ~s.revoked
                                  /\ \A r \in tokens : r.family = t.family /\ ~r.revoked => r = s
          BY <1>1, <2>4, <3>3 DEF FamilyOK
        <4>2. \A r \in tokens' : r.family = t.family /\ ~r.revoked => r = s
          BY <1>1, <1>3, <3>1, <4>1
        <4> QED
          BY <1>1, <3>3, <4>1, <4>2
      <3> QED
        BY <3>2, <3>3
    <2> QED
      BY <1>1, <2>3, <2>4
  <1>7. CallOK(h)'
    <2>1. \A x : Known(x) => Known(x)'
      BY <1>1 DEF Known
    <2>2. PICK n : n = nextToken
      OBVIOUS
    <2>3. Known(n)' /\ n # Null
      BY <1>1, <1>3, <2>2, SessionsAssumption DEF Known
    <2>4. call[h].browser \in Browsers /\ (call[h].cookie # Null => Known(call[h].cookie))
      BY <1>1 DEF CallOK
    <2>5. call'[h].cookie # Null => Known(call[h].cookie)'
      BY <1>2, <2>1, <2>4 DEF Known
    <2> QED
      BY <1>2, <2>2, <2>3, <2>4, <2>5 DEF CallOK, Known
  <1>8. Carried(Null)
    BY <1>1, <1>3 DEF Carried, TypeOK, TokenRow
  <1>9. Active(call[h].set)'
    BY <1>1, <1>2, <1>3 DEF Active
  <1> QED
    BY <1>1, <1>2, <1>4, <1>5, <1>6, <1>7, <1>8, <1>9, WriteStep

LEMMA RotateInv ==
  ASSUME SessionsInv, NEW h \in Handlers, RefreshRotate(h)
  PROVE  SessionsInv'
  <1> USE DEF SessionsInv
  <1>1. /\ call[h].pc = "rotate" /\ call[h].set = Null /\ call[h].old = call[h].cookie
        /\ call[h].cookie # Null /\ Known(call[h].cookie) /\ call[h] \in CallState
        /\ tokens' = Revoked(tokens, call[h].old) \cup {Successor(h)}
        /\ nextToken' = nextToken + 1 /\ nextToken \in Nat
        /\ call' = [call EXCEPT ![h].pc = "set", ![h].set = nextToken]
        /\ UNCHANGED <<accounts, jar, faults, contended, loggedOut, unlucky>>
    BY DEF RefreshRotate, CallOK, TypeOK, histVars
  <1>2. /\ call'[h].pc = "set" /\ call'[h].set = nextToken /\ call'[h].old = call[h].old
        /\ call'[h].cookie = call[h].cookie /\ call'[h].browser = call[h].browser
        /\ \A o \in Handlers \ {h} : call'[o] = call[o]
    BY <1>1 DEF TypeOK, CallState
  <1>3. PICK old \in tokens : old.id = call[h].cookie
    BY <1>1 DEF Known
  <1>4. PICK new : new = Successor(h)
    OBVIOUS
  <1>5. /\ new \in TokenRow /\ new.id = nextToken /\ new.family = old.family /\ new.revoked = FALSE
        /\ tokens' = Revoked(tokens, old.id) \cup {new}
    <2>1. Successor(h) = [id |-> nextToken, family |-> old.family, user |-> old.user,
                          revoked |-> FALSE]
      BY <1>1, <1>3, RowFacts DEF Successor
    <2> QED
      BY <1>1, <1>3, <1>4, <2>1 DEF TypeOK, TokenRow
  <1>6. /\ \A t \in tokens : t.id # old.id => t \in tokens'
        /\ \E s \in tokens' : s.id = old.id /\ s.family = old.family
        /\ \A s \in tokens' : s = new \/
             /\ s \in TokenRow
             /\ s.id = old.id => s.revoked
             /\ s.id # old.id => s \in tokens
             /\ \E t \in tokens : t.id = s.id /\ t.family = s.family /\ (t.revoked => s.revoked)
    BY <1>5, RevokedRows DEF TypeOK
  <1>7. new.id # old.id /\ \A t \in tokens : t.id # new.id
    BY <1>1, <1>5 DEF TokensOK, TypeOK, TokenRow
  <1>8. TypeOK'
    <2>1. [call[h] EXCEPT !.pc = "set", !.set = nextToken] \in CallState
      BY <1>1 DEF CallState, Answers
    <2>2. call' \in [Handlers -> CallState]
      BY <1>1, <2>1 DEF TypeOK
    <2>3. tokens' \subseteq TokenRow
      BY <1>5, <1>6
    <2> QED
      BY <1>1, <2>2, <2>3 DEF TypeOK
  <1>9. TokensOK'
    <2>1. \A s \in tokens' : s = new \/ \E t \in tokens : t.id = s.id /\ t.family = s.family
      BY <1>6
    <2>2. \A s \in tokens' : s.id < nextToken' /\ s.family < nextToken'
      BY <1>1, <1>5, <2>1 DEF TokensOK, TypeOK, TokenRow
    <2>3. \A s, t \in tokens' : s.id = t.id => s = t
      <3>1. \A s \in tokens' : s.id = old.id => s = [old EXCEPT !.revoked = TRUE]
        BY <1>5, <1>7 DEF Revoked, TokensOK, TypeOK, TokenRow
      <3>2. \A s \in tokens' : s.id # old.id => s = new \/ s \in tokens
        BY <1>6
      <3>3. ASSUME NEW s \in tokens', NEW t \in tokens', s.id = t.id
            PROVE  s = t
        <4>1. CASE s.id = old.id
          BY <3>1, <3>3, <4>1
        <4>2. CASE s.id # old.id
          <5>1. (s = new \/ s \in tokens) /\ (t = new \/ t \in tokens)
            BY <3>2, <3>3, <4>2
          <5> QED
            BY <1>7, <3>3, <5>1 DEF TokensOK
        <4> QED
          BY <4>1, <4>2
      <3> QED
        BY <3>3
    <2>4. \A f \in contended \cup loggedOut : f < nextToken'
      BY <1>1 DEF TokensOK, TypeOK
    <2> QED
      BY <1>1, <2>2, <2>3, <2>4 DEF TokensOK
  <1>10. old.family \notin contended =>
           /\ ~old.revoked /\ old.family \notin loggedOut
           /\ \A r \in tokens : r.family = old.family /\ ~r.revoked => r = old
    BY <1>1, <1>3 DEF Alone, FamilyOK, Using
  <1>11. FamilyOK'
    <2> SUFFICES ASSUME NEW t \in tokens', t.family \notin contended
                 PROVE  IF t.family \in loggedOut
                          THEN t.revoked
                          ELSE \E s \in tokens' :
                                 /\ s.family = t.family /\ ~s.revoked
                                 /\ \A r \in tokens' : r.family = t.family /\ ~r.revoked => r = s
      BY <1>1 DEF FamilyOK
    <2>1. CASE t.family = old.family
      BY <1>5, <1>6, <1>10, <2>1
    <2>2. CASE t.family # old.family
      <3>1. PICK t0 \in tokens : t0.family = t.family /\ (t0.revoked => t.revoked)
        BY <1>5, <1>6, <2>2
      <3>2. CASE t.family \in loggedOut
        BY <3>1, <3>2 DEF FamilyOK
      <3>3. CASE t.family \notin loggedOut
        <4>1. PICK s \in tokens : /\ s.family = t.family /\ ~s.revoked
                                  /\ \A r \in tokens : r.family = t.family /\ ~r.revoked => r = s
          BY <3>1, <3>3 DEF FamilyOK
        <4>2. s \in tokens'
          BY <1>6, <2>2, <4>1 DEF TokensOK
        <4>3. \A r \in tokens' : r.family = t.family /\ ~r.revoked => r = s
          BY <1>5, <1>6, <2>2, <4>1
        <4> QED
          BY <3>3, <4>1, <4>2, <4>3
      <3> QED
        BY <3>2, <3>3
    <2> QED
      BY <2>1, <2>2
  <1>12. Carried(call[h].cookie)
    <2>1. \A s \in tokens' : s.id = old.id => s.revoked
      BY <1>6, <1>7
    <2>2. \A t \in tokens : t.id = old.id => t = old
      BY DEF TokensOK
    <2>3. \A t \in tokens : \E s \in tokens' :
            s.id = t.id /\ s.family = t.family /\ (t.revoked => s.revoked) /\ (t.id # old.id => s = t)
      BY <1>6, <2>1, <2>2
    <2>4. ASSUME NEW s \in tokens', s.id < nextToken
          PROVE  \E t \in tokens :
            s.id = t.id /\ s.family = t.family /\ (t.revoked => s.revoked) /\ (t.id # old.id => s = t)
      <3>1. s # new
        BY <1>1, <1>5, <2>4
      <3> QED
        BY <1>6, <3>1
    <2> QED
      BY <1>3, <2>3, <2>4 DEF Carried
  <1>13. CallOK(h)'
    <2>1. \A x : Known(x) => Known(x)'
      BY <1>12 DEF Known, Carried
    <2>2. PICK n : n = nextToken
      OBVIOUS
    <2>3. Known(n)' /\ n # Null
      BY <1>1, <1>5, <2>2, SessionsAssumption DEF Known
    <2>4. call[h].browser \in Browsers
      BY <1>1 DEF CallOK
    <2>5. Known(call[h].cookie)'
      BY <1>1, <1>2, <2>1 DEF Known
    <2> QED
      BY <1>1, <1>2, <2>2, <2>3, <2>4, <2>5 DEF CallOK, Known
  <1>14. Active(call[h].set)'
    BY <1>2, <1>5 DEF Active
  <1>15. ~Active(call[h].old)'
    BY <1>1, <1>2, <1>3, <1>6, <1>7 DEF Active
  <1> QED
    BY <1>1, <1>2, <1>8, <1>9, <1>11, <1>12, <1>13, <1>14, <1>15, WriteStep DEF Using

LEMMA LogoutInv ==
  ASSUME SessionsInv, NEW h \in Handlers, Logout(h)
  PROVE  SessionsInv'
  <1> USE DEF SessionsInv
  <1> PICK id : id = call[h].cookie
    OBVIOUS
  <1>1. /\ call[h].pc = "logout" /\ call[h].set = Null /\ call[h] \in CallState
        /\ tokens' = Revoked(tokens, id)
        /\ loggedOut' = loggedOut \cup {t.family : t \in {x \in tokens : x.id = id /\ ~x.revoked}}
        /\ call' = [call EXCEPT ![h].pc = "clear"]
        /\ UNCHANGED <<accounts, nextToken, jar, faults, contended, unlucky>>
    BY DEF Logout, CallOK, TypeOK, Goto
  <1>2. /\ call'[h].pc = "clear" /\ call'[h].set = Null /\ call'[h].old = call[h].old
        /\ call'[h].cookie = call[h].cookie /\ call'[h].browser = call[h].browser
        /\ \A o \in Handlers \ {h} : call'[o] = call[o]
    BY <1>1 DEF TypeOK, CallState
  <1>3. /\ \A t \in tokens : t.id # id => t \in tokens'
        /\ \A t \in tokens : t.id = id => \E s \in tokens' : s.id = id /\ s.family = t.family
        /\ \A s \in tokens' :
             /\ s \in TokenRow
             /\ s.id = id => s.revoked
             /\ s.id # id => s \in tokens
             /\ \E t \in tokens : t.id = s.id /\ t.family = s.family /\ (t.revoked => s.revoked)
    BY <1>1, RevokedRows DEF TypeOK
  <1>4. /\ \A f \in loggedOut' : f \in loggedOut \/
             \E t \in tokens : t.id = id /\ ~t.revoked /\ t.family = f
        /\ \A f \in loggedOut : f \in loggedOut'
        /\ \A t \in tokens : t.id = id /\ ~t.revoked => t.family \in loggedOut'
    BY <1>1
  <1>5. TypeOK'
    <2>1. call' \in [Handlers -> CallState]
      BY <1>1 DEF TypeOK, CallState, Answers
    <2>2. tokens' \subseteq TokenRow
      BY <1>3
    <2>3. loggedOut' \subseteq Nat
      BY <1>4 DEF TypeOK, TokenRow
    <2> QED
      BY <1>1, <2>1, <2>2, <2>3 DEF TypeOK
  <1>6. TokensOK'
    <2>1. \A s \in tokens' : s.id < nextToken /\ s.family < nextToken
      BY <1>3 DEF TokensOK
    <2>2. ASSUME NEW s \in tokens', NEW t \in tokens', s.id = t.id
          PROVE  s = t
      <3>1. CASE s.id = id
        <4>1. \A r \in tokens' : r.id = id =>
                \E o \in tokens : o.id = id /\ r = [o EXCEPT !.revoked = TRUE]
          BY <1>1 DEF Revoked, TypeOK, TokenRow
        <4> QED
          BY <2>2, <3>1, <4>1 DEF TokensOK
      <3>2. CASE s.id # id
        BY <1>3, <2>2, <3>2 DEF TokensOK
      <3> QED
        BY <3>1, <3>2
    <2>3. \A f \in contended \cup loggedOut' : f < nextToken
      BY <1>4 DEF TokensOK
    <2> QED
      BY <1>1, <2>1, <2>2, <2>3 DEF TokensOK
  <1>7. FamilyOK'
    <2> SUFFICES ASSUME NEW t \in tokens', t.family \notin contended
                 PROVE  IF t.family \in loggedOut'
                          THEN t.revoked
                          ELSE \E s \in tokens' :
                                 /\ s.family = t.family /\ ~s.revoked
                                 /\ \A r \in tokens' : r.family = t.family /\ ~r.revoked => r = s
      BY <1>1 DEF FamilyOK
    <2>1. PICK t0 \in tokens : t0.id = t.id /\ t0.family = t.family /\ (t0.revoked => t.revoked)
      BY <1>3
    <2>2. CASE t.family \in loggedOut
      BY <1>4, <2>1, <2>2 DEF FamilyOK
    <2>3. CASE t.family \notin loggedOut
      <3>1. PICK s \in tokens : /\ s.family = t.family /\ ~s.revoked
                                /\ \A r \in tokens : r.family = t.family /\ ~r.revoked => r = s
        BY <2>1, <2>3 DEF FamilyOK
      <3>2. \A r \in tokens' : r.family = t.family /\ ~r.revoked => r = s /\ s.id # id
        BY <1>3, <3>1
      <3>3. CASE s.id = id
        BY <1>4, <3>1, <3>2, <3>3
      <3>4. CASE s.id # id
        <4>1. t.family \notin loggedOut'
          BY <1>4, <2>3, <3>1, <3>4
        <4>2. s \in tokens'
          BY <1>3, <3>4
        <4> QED
          BY <3>1, <3>2, <4>1, <4>2
      <3> QED
        BY <3>3, <3>4
    <2> QED
      BY <2>2, <2>3
  <1>8. Carried(id)
    <2>1. \A t \in tokens : \E s \in tokens' :
            s.id = t.id /\ s.family = t.family /\ (t.revoked => s.revoked) /\ (t.id # id => s = t)
      BY <1>3
    <2>2. \A s \in tokens' : \E t \in tokens :
            s.id = t.id /\ s.family = t.family /\ (t.revoked => s.revoked) /\ (t.id # id => s = t)
      BY <1>3
    <2> QED
      BY <2>1, <2>2 DEF Carried
  <1>9. CallOK(h)'
    <2>1. \A x : Known(x) => Known(x)'
      BY <1>8 DEF Known, Carried
    <2>2. /\ call[h].browser \in Browsers /\ call[h].old \in {Null, call[h].cookie}
          /\ call[h].cookie # Null => Known(call[h].cookie)
      BY <1>1 DEF CallOK
    <2> QED
      BY <1>1, <1>2, <2>1, <2>2 DEF CallOK, Known
  <1>10. ~Active(call[h].cookie)'
    BY <1>2, <1>3 DEF Active
  <1> QED
    BY <1>1, <1>2, <1>5, <1>6, <1>7, <1>8, <1>9, <1>10, WriteStep DEF Using

-----------------------------------------------------------------------------
(* The theorems *)

LEMMA SessionsNextInv == SessionsInv /\ [Next]_vars => SessionsInv'
  <1> SUFFICES ASSUME SessionsInv, [Next]_vars PROVE SessionsInv'
    OBVIOUS
  <1>1. ASSUME NEW h \in Handlers, HandlerStep(h) PROVE SessionsInv'
    BY <1>1, QuietHandler, MintInv, RotateInv, LogoutInv DEF HandlerStep, RefreshStep
  <1>2. ASSUME NEW h \in Handlers, BrowserStep(h) PROVE SessionsInv'
    <2>1. CASE SendRegister(h) \/ SendLogin(h)
      BY <2>1, SendInv DEF SendRegister, SendLogin
    <2>2. CASE SendRefresh(h) \/ SendLogout(h)
      BY <2>2, SendInv DEF SendRefresh, SendLogout
    <2>3. CASE Deliver(h) \/ Lose(h)
      BY <2>3, EndInv
    <2> QED
      BY <1>2, <2>1, <2>2, <2>3 DEF BrowserStep
  <1>3. ASSUME NEW b \in Browsers, CookieExpires(b) PROVE SessionsInv'
    BY <1>3, ExpireInv
  <1>4. CASE UNCHANGED vars
    BY <1>4
    DEF SessionsInv, vars, dbVars, histVars, TypeOK, TokensOK, CallOK, JarOK, Alone, FamilyOK,
        OneOwner, Refers, LuckyOK, SpentIsDead, Active, Known
  <1> QED
    BY <1>1, <1>2, <1>3, <1>4 DEF Next

\* The inductive invariant holds whatever handlers and browsers do.
THEOREM SpecSessionsInv == Spec => []SessionsInv
  BY SessionsInitInv, SessionsNextInv, PTL DEF Spec

\* A family that no two requests worked on at once has exactly one live token
\* until its logout and none after, for any number of handlers.
THEOREM SpecOneLiveToken == Spec => []OneLiveToken
  <1>1. SessionsInv => OneLiveToken
    <2> SUFFICES ASSUME SessionsInv, NEW t \in tokens, t.family \notin contended
                 PROVE  Cardinality(Live(t.family)) = IF t.family \in loggedOut THEN 0 ELSE 1
      BY DEF OneLiveToken
    <2> USE DEF SessionsInv
    <2>1. CASE t.family \in loggedOut
      <3>1. \A s \in tokens : s.family = t.family => s.revoked
        BY <2>1 DEF FamilyOK
      <3>2. Live(t.family) = {}
        BY <3>1 DEF Live
      <3> QED
        BY <2>1, <3>2, FS_EmptySet
    <2>2. CASE t.family \notin loggedOut
      <3>1. PICK s \in tokens : /\ s.family = t.family /\ ~s.revoked
                                /\ \A r \in tokens : r.family = t.family /\ ~r.revoked => r = s
        BY <2>2 DEF FamilyOK
      <3>2. Live(t.family) = {s}
        BY <3>1 DEF Live
      <3> QED
        BY <2>2, <3>2, FS_Singleton
    <2> QED
      BY <2>1, <2>2
  <1> QED
    BY <1>1, SpecSessionsInv, PTL

\* A browser with one request at a time and no lost response holds a live
\* token between its requests.
THEOREM SpecJarIsLive == Spec => []JarIsLive
  <1>1. SessionsInv => JarIsLive
    BY DEF SessionsInv, LuckyOK, JarIsLive
  <1> QED
    BY <1>1, SpecSessionsInv, PTL

\* A cookie stays dead once the request that spends it has been decided.
THEOREM SpecSpentIsDead == Spec => []SpentIsDead
  <1>1. SessionsInv => SpentIsDead
    BY DEF SessionsInv
  <1> QED
    BY <1>1, SpecSessionsInv, PTL

=============================================================================
