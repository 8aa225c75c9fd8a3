------------------------------ MODULE Selection ------------------------------
(***************************************************************************)
(* What a WHERE clause, or a list comprehension with an `if`, leaves of    *)
(* ordered rows.  SelectSeq says the same of a predicate; this form, over  *)
(* a set and by a recursive function, is one the provers can unfold.       *)
(***************************************************************************)
EXTENDS Integers, Sequences

\* The elements of s that are in S, in the order of s.
Kept(s, S) ==
  LET upto[i \in 0..Len(s)] ==
        IF i = 0 THEN <<>>
        ELSE IF s[i] \in S THEN Append(upto[i - 1], s[i]) ELSE upto[i - 1]
  IN upto[Len(s)]

=============================================================================
