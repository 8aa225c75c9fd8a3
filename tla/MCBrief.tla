------------------------------- MODULE MCBrief -------------------------------
(* Model values and symmetry for the TLC runs of Brief. *)
EXTENDS BriefRefinement, TLC

CONSTANTS u1, u2, r1, r2, m1

MCUsers   == {u1, u2}
MCRunners == {r1, r2}
MCMailers == {m1}
MCRunnerSymmetry == Permutations(MCRunners)

=============================================================================
