----------------------------- MODULE MCLibrary -----------------------------
(* Two requests at a time over three pages.  `scope` is fixed at the start: *)
(* behaviours about the rows, vectors and searches use the library's        *)
(* actions alone; behaviours about the facets keep the writes small, since  *)
(* facets see nothing of a write but that it happened.                      *)
EXTENDS Facets, TLC

CONSTANTS u1, u2, u3, h1, h2, t1

VARIABLE scope

MCUrls == {u1, u2, u3}
MCHandlers == {h1, h2}
MCSeeds == <<u3>>
MCBatches == {<<u1, u2>>}
MCTopics == {t1}
MCSources == {MCUrls, {u1, u2}}
MCFilters == {[topics |-> {}, from |-> 0, to |-> 2], [topics |-> {t1}, from |-> 1, to |-> 1]}
MCPages == {1, 2}
MCSymmetry == Permutations(MCHandlers)

SmallWrites ==
  \A h \in Handlers : req[h] # Idle =>
    /\ req[h].op # "search"
    /\ req[h].op = "scrape" => /\ req[h].todo = <<u1>> /\ req[h].single
                               /\ req[h].topics = {} /\ ~req[h].embedded

MCInit == FacetsInit /\ scope \in {"library", "facets"}
MCNext ==
  /\ UNCHANGED scope
  /\ \/ /\ scope = "library"
        /\ FacetsTick \/ \E h \in Handlers : LibraryAction(h)
     \/ /\ scope = "facets"
        /\ FacetsNext
        /\ SmallWrites'
MCSpec == MCInit /\ [][MCNext]_<<vars, scope>>
=============================================================================
