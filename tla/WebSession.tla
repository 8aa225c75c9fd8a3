------------------------------ MODULE WebSession ------------------------------
(***************************************************************************)
(* The session as the web tier keeps it: the middleware that routes every  *)
(* request (middleware.ts, lib/routing-helpers.ts, i18n/routing.ts), the   *)
(* actions that set the cookie (lib/auth.ts) and fail to clear it          *)
(* (lib/auth/logout.ts).  Cookie and token have lifetimes of their own.    *)
(***************************************************************************)
EXTENDS Integers

CONSTANTS
  Locales,     \* routing.locales
  Default,     \* routing.defaultLocale
  Bare,        \* a path without a locale
  TokenLife,   \* life of the access token the API issues
  CookieLife,  \* COOKIE_MAX_AGE of the web's cookie, longer than TokenLife
  NoVisit

ASSUME WebSessionAssumption ==
  /\ Default \in Locales /\ Bare \notin Locales
  /\ TokenLife \in Nat \ {0} /\ CookieLife \in Nat /\ CookieLife >= TokenLife

VARIABLES
  cookie,  \* seconds the cookie auth_token has left
  token,   \* seconds the token in it has left
  goal,    \* the page the visitor set out for, or NoVisit
  place,   \* locale and page of the request under way, or of the page shown
  hops,    \* redirects since the visitor set out
  said     \* what the page last said of a call of the API or a sign-out

webVars == <<cookie, token, goal, place, hops, said>>

\* `share` is /s/{token}; `articles` stands for every page of the app group.
PageNames == {"home", "login", "register", "unsubscribe", "share", "articles"}

WebSessionInit ==
  /\ cookie = 0
  /\ token = 0
  /\ goal = NoVisit
  /\ place = [locale |-> Default, page |-> "home", shown |-> TRUE]
  /\ hops = 0
  /\ said = "nothing"

Request(locale, page) == [locale |-> locale, page |-> page, shown |-> FALSE]

\* The visitor types an address or follows a link.
SetOut ==
  /\ place.shown
  /\ \E page \in PageNames, locale \in Locales \cup {Bare} :
       goal' = page /\ place' = Request(locale, page)
  /\ hops' = 0
  /\ said' = "nothing"
  /\ UNCHANGED <<cookie, token>>

\* Mutant: looks the path up with its locale.
PublicUnstripped(at) == at.locale = Bare /\ at.page \in {"login", "register", "unsubscribe"}
\* PUBLIC_PATHS after stripLocalePrefix.
Public(at) == at.page \in {"login", "register", "unsubscribe"}

\* A path without a locale counts as one of the default locale.
ActiveLocale(at) == IF at.locale = Bare THEN Default ELSE at.locale

\* intlMiddleware: serve, or redirect to a locale it picks.
Intl(at) ==
  IF at.locale = Bare THEN {Request(locale, at.page) : locale \in Locales}
  ELSE {[at EXCEPT !.shown = TRUE]}

Routed(at) ==
  CASE Public(at) /\ cookie > 0 -> {Request(ActiveLocale(at), "home")}
    [] ~Public(at) /\ cookie = 0 -> {Request(ActiveLocale(at), "login")}
    [] Public(at) <=> cookie = 0 -> Intl(at)

Middleware ==
  /\ ~place.shown
  /\ \E next \in Routed(place) :
       /\ place' = next
       /\ hops' = IF next.shown THEN hops ELSE hops + 1
  /\ UNCHANGED <<cookie, token, goal, said>>

\* loginAction or registerAction: a cookie for a day around a token for
\* minutes, and on to `/`, whatever `next` says.
SignIn ==
  /\ place.shown
  /\ place.page \in {"login", "register"}
  /\ cookie' = CookieLife
  /\ token' = TokenLife
  /\ goal' = "home"
  /\ place' = Request(Bare, "home")
  /\ hops' = 0
  /\ said' = "nothing"

OnApp == place.shown /\ place.page \in {"home", "articles"}

\* The page calls the API, which looks at the token; a refusal is shown and
\* nothing asks for a refresh.
CallApi ==
  /\ OnApp
  /\ said' = IF cookie > 0 /\ token > 0 THEN "ok" ELSE "unauthorised"
  /\ UNCHANGED <<cookie, token, goal, place, hops>>

\* performLogout: the server action sends no cookie of the browser, the API
\* answers 204, and the parse of its empty body raises; the cookies stay.
SignOut ==
  /\ OnApp
  /\ said' = "logout_failed"
  /\ UNCHANGED <<cookie, token, goal, place, hops>>

WebSessionTick ==
  /\ cookie > 0
  /\ cookie' = cookie - 1
  /\ token' = IF token > 0 THEN token - 1 ELSE 0
  /\ UNCHANGED <<goal, place, hops, said>>

WebSessionNext == SetOut \/ Middleware \/ SignIn \/ CallApi \/ SignOut \/ WebSessionTick

WebSessionSpec == WebSessionInit /\ [][WebSessionNext]_webVars

-----------------------------------------------------------------------------
\* Every chain of redirects is short: the locale, and once the login page if
\* the cookie ends on the way.
RedirectsEnd == hops <= 2

=============================================================================
