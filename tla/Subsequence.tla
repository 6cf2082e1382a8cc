---------------------------- MODULE Subsequence ----------------------------
(***************************************************************************)
(* The filters of the code (Array.filter and flatMap over a list, the      *)
(* deletion of entries of a Map while it is iterated): the elements of a   *)
(* sequence at some of its places, in their order.  It is SelectSeq,       *)
(* written as a recursive function and over places instead of a test, so   *)
(* that proofs can say where an element came from.                         *)
(***************************************************************************)
EXTENDS Naturals, Sequences

Where(s, I) ==
    LET w[n \in 0..Len(s)] ==
            IF n = 0 THEN <<>>
            ELSE IF n \in I THEN Append(w[n - 1], s[n]) ELSE w[n - 1]
    IN  w[Len(s)]
=============================================================================
