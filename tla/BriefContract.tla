---------------------------- MODULE BriefContract ----------------------------
(***************************************************************************)
(* What the brief pipeline promises a user about one date, without         *)
(* runners, transactions or e-mail workers: a brief appears once and then  *)
(* stays; its delivery status moves; it is written anew, with a new alert  *)
(* in the inbox, only after a delivery of it failed.                       *)
(***************************************************************************)
EXTENDS Naturals

CONSTANTS Keys      \* pairs of a user and a date

VARIABLES
  brief,      \* brief[k]: "none", or the delivery status of the brief
  alerts,     \* alerts[k]: brief_ready notifications in the inbox
  failed      \* keys whose delivery was once recorded failed

contractVars == <<brief, alerts, failed>>

Init ==
  /\ brief = [k \in Keys |-> "none"]
  /\ alerts = [k \in Keys |-> 0]
  /\ failed = {}

\* A brief, new or written anew, and its alert become visible together.
Publish(k) ==
  /\ brief[k] = "none" \/ k \in failed
  /\ brief' = [brief EXCEPT ![k] = "notified"]
  /\ alerts' = [alerts EXCEPT ![k] = @ + 1]
  /\ UNCHANGED failed

\* The outcome of an e-mail; it never makes a brief appear or disappear.
Record(k, status) ==
  /\ brief[k] # "none"
  /\ brief' = [brief EXCEPT ![k] = status]
  /\ failed' = IF status = "failed" THEN failed \cup {k} ELSE failed
  /\ UNCHANGED alerts

Next ==
  \E k \in Keys :
    \/ Publish(k)
    \/ \E status \in {"emailed", "failed"} : Record(k, status)

Spec == Init /\ [][Next]_contractVars

=============================================================================
