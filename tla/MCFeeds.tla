------------------------------ MODULE MCFeeds ------------------------------
(* Feeds of a user, and the lookups of host names that polls and scrapes     *)
(* share.  `scope`, fixed at the start, says which of the two a behaviour is *)
(* about: Feeds takes the outcome of a parse as a choice, so they only meet  *)
(* in the host's verdict.                                                    *)
EXTENDS Feeds, Outbound

CONSTANTS x, y, g1, g2, h1, h2, host1, host2

VARIABLE scope

MCUrls     == {x, y}
MCGuids    == {g1, g2}
\* Two imports in opposite order, and one that names a URL twice.
MCBatches  == {<<x, y>>, <<y, x>>, <<x, x>>}
\* The same entries in two orders.
MCContents == {<<g1, g2>>, <<g2, g1>>}
MCHandlers == {h1, h2}
MCHosts    == {host1, host2}

MCInit == Init /\ OutboundInit /\ scope \in {"feeds", "lookups"}

MCNext ==
  /\ UNCHANGED scope
  /\ \/ scope = "feeds" /\ Next /\ UNCHANGED outboundVars
     \/ scope = "lookups" /\ OutboundNext /\ UNCHANGED vars

MCSpec == MCInit /\ [][MCNext]_<<vars, outboundVars, scope>> /\ Fairness /\ OutboundFairness

=============================================================================
