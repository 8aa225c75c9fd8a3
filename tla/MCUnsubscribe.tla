---------------------------- MODULE MCUnsubscribe ----------------------------
(* Model values for the TLC runs of Unsubscribe. *)
EXTENDS Unsubscribe

CONSTANTS u1, r1, m1, c1, c2

MCUsers     == {u1}
MCRunners   == {r1}
MCMailers   == {m1}
MCConsumers == {c1, c2}

=============================================================================
