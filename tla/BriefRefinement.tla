--------------------------- MODULE BriefRefinement ---------------------------
(***************************************************************************)
(* Brief implements BriefContract: a user sees the status of the committed *)
(* row of the key and the notifications raised for it; transactions, locks *)
(* and SMTP attempts are stuttering steps.                                 *)
(***************************************************************************)
EXTENDS Brief

Keys == Users \X Days

StatusOf(k) ==
  IF RowsOf(k) = {} THEN "none" ELSE (CHOOSE d \in RowsOf(k) : TRUE).status

\* The notifications of a key, each named by the digest it was raised for.
AlertsOf(k) == {n.born : n \in {o \in notifications : Key(o) = k}}

Contract == INSTANCE BriefContract WITH
  Keys   <- Keys,
  brief  <- [k \in Keys |-> StatusOf(k)],
  alerts <- [k \in Keys |-> Cardinality(AlertsOf(k))],
  failed <- failedOnce

\* The pipeline of digest.py, brief.py and email.py, with every interleaving,
\* crash and rollback, shows a user only what the contract allows: each brief
\* comes with its own alert, and none is taken back.
ImplementsContract == Contract!Spec

=============================================================================
