----------------------------- MODULE MCReading ------------------------------
(* What a user reads and where it comes from: briefs, lists, the bell, the  *)
(* playground, the session of the web tier and the search page.  They share *)
(* nothing but the tables other modules model, so `scope`, fixed at the     *)
(* start, says which of them a behaviour is about.                          *)
EXTENDS Briefing, Paging, Bell, Playground, WebSession, SearchBox

CONSTANTS f1, f2, text, choice, slot1, slot2

VARIABLE scope

MCArticleSet == 1..3
MCBlank == {2}
MCFetches == {f1, f2}
MCKeyValues == {"", Placeholder, "key"}
MCUpstream == {<<>>, <<1>>, <<0, 0>>, <<1, 2>>, <<-2, 1>>, <<-2, -4>>}
MCLocales == {"en", "ru"}
MCTexts == {text}
MCFilterValues == {choice}
MCSlots == {slot1, slot2}

\* Articles are named by the order in which they come.
InOrder == OnShelf \cup deleted = 1..Cardinality(OnShelf \cup deleted)

vars == <<briefingVars, pagingVars, bellVars, playVars, webVars, boxVars, scope>>

\* Only the part `scope` names takes a step.
Only(name) ==
  /\ scope = name
  /\ name # "brief" => UNCHANGED briefingVars
  /\ name # "lists" => UNCHANGED pagingVars
  /\ name # "bell" => UNCHANGED bellVars
  /\ name # "playground" => UNCHANGED playVars
  /\ name # "session" => UNCHANGED webVars
  /\ name # "search" => UNCHANGED boxVars

MCInit ==
  /\ BriefingInit /\ PagingInit /\ BellInit /\ PlayInit
  /\ WebSessionInit /\ SearchBoxInit
  /\ scope \in {"brief", "lists", "bell", "playground", "session", "search"}
  /\ scope # "playground" => \A f \in Fields : keys[f] = ""
  /\ scope # "bell" => fetch[f1] # NoRequest

MCNext ==
  /\ UNCHANGED scope
  /\ \/ Only("brief") /\ BriefingNext /\ InOrder'
     \/ Only("lists") /\ PagingNext
     \/ Only("bell") /\ BellNext
     \/ Only("playground") /\ PlayNext
     \/ Only("session") /\ WebSessionNext
     \/ Only("search") /\ SearchBoxNext

MCSpec == MCInit /\ [][MCNext]_vars /\ BellFairness
=============================================================================
