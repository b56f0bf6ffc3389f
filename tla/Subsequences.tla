------------------------------ MODULE Subsequences ------------------------------
(***************************************************************************)
(* Filtering a sequence by a set of positions.  A list comprehension of    *)
(* the code, [x for x in s if ...], keeps the elements at the positions    *)
(* where the condition holds; so does a frame, which lists the hypotheses  *)
(* at the positions that are in scope.  (A set in place of the condition   *)
(* lets lemmas about it be cited: see PositionLemmas.)                     *)
(***************************************************************************)
EXTENDS Integers, Sequences

\* the members of S among 1..n, in ascending order
Ascending(n, S) ==
    LET upTo[k \in 0..n] ==
            IF k = 0 THEN <<>> ELSE IF k \in S THEN Append(upTo[k - 1], k) ELSE upTo[k - 1]
    IN  upTo[n]

\* the elements of s at the positions S, in order
At(s, S) == LET ps == Ascending(Len(s), S) IN [n \in DOMAIN ps |-> s[ps[n]]]
=============================================================================
