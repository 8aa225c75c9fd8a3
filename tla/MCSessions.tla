----------------------------- MODULE MCSessions -----------------------------
(* Model values and symmetry for the TLC runs of Sessions. *)
EXTENDS Sessions, TLC

CONSTANTS u1, b1, b2, h1, h2

MCBrowsers == {b1, b2}
MCHandlers == {h1, h2}
MCSymmetry == Permutations(MCBrowsers) \cup Permutations(MCHandlers)

=============================================================================
