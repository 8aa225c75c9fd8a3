------------------------------- MODULE Shares -------------------------------
(***************************************************************************)
(* Public links to articles (services/shared_links.py, routers/share.py,   *)
(* routers/public.py): a link is minted for an article, opened by anybody  *)
(* who has its token, expires, and goes with its article by ON DELETE      *)
(* CASCADE.  Handlers interleave between their statements; a statement     *)
(* with the commit that follows it is one step.  Articles are those of     *)
(* Scorer.                                                                 *)
(***************************************************************************)
EXTENDS Scorer

CONSTANTS
  Visitors,    \* visitors, each with one request at a time
  Lifetimes,   \* lifetimes a link may be minted with, in ticks
  MaxLinks     \* bound on the links

\* A row of `shared_links`, a request to mint one and a request to open one.
LinkRows == [id : Nat, article : Articles, exp : Nat]
MintStates == [pc : {"insert"}, article : Articles, lifetime : Lifetimes]
OpenStates == [pc : {"lookup", "article", "visit", "answer"}, link : LinkRows, began : Nat,
               code : {0, 200, 404, 410}]

ASSUME SharesAssumption ==
  /\ Lifetimes \subseteq Nat \ {0}
  /\ Idle \notin MintStates \cup OpenStates

VARIABLES
  links,    \* committed rows of `shared_links`
  visits,   \* committed rows of `shared_link_visits`, as <<link, second>>
  minted,   \* links ever minted, with their expiry: what tokens refer to
  viewed,   \* history: <<link, second>> of the views that were recorded
  share     \* request of each visitor, or Idle

shareVars == <<links, visits, minted, viewed, share>>
allVars == <<scorerVars, shareVars>>

SharesInit ==
  /\ ScorerInit
  /\ links = {}
  /\ visits = {}
  /\ minted = {}
  /\ viewed = {}
  /\ share = [v \in Visitors |-> Idle]

AtShare(v, pc) == share[v] # Idle /\ share[v].pc = pc
ToShare(v, r) == share' = [share EXCEPT ![v] = r]

\* POST /share: the article is looked up, a miss is a 404.
Mint(v) ==
  /\ share[v] = Idle
  /\ \E a \in Alive, d \in Lifetimes :
       ToShare(v, [pc |-> "insert", article |-> a, lifetime |-> d])
  /\ UNCHANGED <<scorerVars, links, visits, minted, viewed>>

\* shared_links.article_id references articles.
Refers(a) == a \in Alive

\* INSERT and commit; the foreign key fails, and the request with it, when the
\* article went since it was looked up.
InsertLink(v) ==
  LET a == share[v].article
      link == [id |-> Cardinality(minted) + 1, article |-> a,
               exp |-> now + share[v].lifetime]
  IN /\ AtShare(v, "insert")
     /\ Cardinality(minted) < MaxLinks
     /\ IF Refers(a)
        THEN links' = links \cup {link} /\ minted' = minted \cup {link}
        ELSE UNCHANGED <<links, minted>>
     /\ ToShare(v, Idle)
     /\ UNCHANGED <<scorerVars, visits, viewed>>

\* GET /s/{token}.
Open(v) ==
  /\ share[v] = Idle
  /\ \E m \in minted : ToShare(v, [pc |-> "lookup", link |-> m, began |-> now, code |-> 0])
  /\ UNCHANGED <<scorerVars, links, visits, minted, viewed>>

Answer(v, code) ==
  ToShare(v, [pc |-> "answer", link |-> share[v].link, began |-> share[v].began, code |-> code])

\* Mutant: a link is still good at the very tick it expires.
ExpiredAfter(link) == link.exp < now
Expired(link) == link.exp <= now

\* The row of the hash: 404 without one, 410 when it has expired.
Lookup(v) ==
  LET link == share[v].link IN
  /\ AtShare(v, "lookup")
  /\ \/ link \notin links /\ Answer(v, 404)
     \/ link \in links /\ Expired(link) /\ Answer(v, 410)
     \/ link \in links /\ ~Expired(link) /\ ToShare(v, [share[v] EXCEPT !.pc = "article"])
  /\ UNCHANGED <<scorerVars, links, visits, minted, viewed>>

\* The article of the row; 404 when it went in between.
LoadArticle(v) ==
  /\ AtShare(v, "article")
  /\ IF share[v].link.article \in Alive
     THEN ToShare(v, [share[v] EXCEPT !.pc = "visit"])
     ELSE Answer(v, 404)
  /\ UNCHANGED <<scorerVars, links, visits, minted, viewed>>

\* record_visit: INSERT ... ON CONFLICT DO NOTHING under the second of the
\* clock, and commit.  Anything that fails, the foreign key included, is
\* logged and the page is served all the same.
RecordVisit(v) ==
  LET visit == <<share[v].link.id, now>> IN
  /\ AtShare(v, "visit")
  /\ \/ /\ share[v].link \in links
        /\ visits' = visits \cup {visit}
        /\ viewed' = viewed \cup {visit}
     \/ UNCHANGED <<visits, viewed>>
  /\ Answer(v, 200)
  /\ UNCHANGED <<scorerVars, links, minted>>

Close(v) ==
  /\ AtShare(v, "answer")
  /\ ToShare(v, Idle)
  /\ UNCHANGED <<scorerVars, links, visits, minted, viewed>>

\* Mutant: the cascade stops at the links.
CascadedLinksOnly(a) ==
  /\ links' = {l \in links : l.article # a}
  /\ UNCHANGED visits
\* Links of the article and visits of those links.
Cascaded(a) ==
  /\ links' = {l \in links : l.article # a}
  /\ visits' = {w \in visits : \E l \in links' : l.id = w[1]}

\* DELETE /articles/{id} with what refers to the row.
DeleteArticle(a) ==
  /\ DeleteRow(a)
  /\ Cascaded(a)
  /\ UNCHANGED <<minted, viewed, share>>

ShareStep(v) ==
  Mint(v) \/ InsertLink(v) \/ Open(v) \/ Lookup(v) \/ LoadArticle(v)
    \/ RecordVisit(v) \/ Close(v)

ScorerStep ==
  /\ Trigger \/ Restart \/ ScorerTick \/ \E t \in Tasks : TaskStep(t)
  /\ UNCHANGED shareVars

SharesNext ==
  \/ ScorerStep
  \/ \E v \in Visitors : ShareStep(v)
  \/ \E a \in Articles : DeleteArticle(a)

SharesSpec == SharesInit /\ [][SharesNext]_allVars /\ ScorerFairness

-----------------------------------------------------------------------------
\* The tables refer to what exists, also where a mint or a visit races the
\* deletion of the article; and the visits of a link are the seconds at which
\* it was viewed and recorded, none lost or made up by concurrent views.
ShareIntegrity ==
  /\ \A l \in links : l.article \in Alive
  /\ visits = {w \in viewed : \E l \in links : l.id = w[1]}

\* The answer to a visitor is right whatever happened while it was made: a
\* page only if the link had not expired when the request came, 410 only once
\* it has expired, 404 only if the link is gone.
ShareAnswers ==
  \A v \in Visitors : AtShare(v, "answer") =>
    LET r == share[v] IN
    /\ r.code = 200 => r.began < r.link.exp
    /\ r.code = 410 => r.link.exp <= now
    /\ r.code = 404 => r.link \notin links

=============================================================================
