------------------------------- MODULE Derivation -------------------------------
(***************************************************************************)
(* What a published text promises, whoever wrote it and however: a set of  *)
(* assertions that grows by one at a time, in which a theorem is derived   *)
(* from what was there before it.  Axioms, definitions and rules may be    *)
(* added at any time.                                                      *)
(***************************************************************************)
EXTENDS Logic

VARIABLE accepted

Init == accepted = {}

Accept(d) ==
    /\ accepted' = accepted \cup {d}
    /\ KindOf[d] = "theorem" => Derives(accepted, d)

Next == \E d \in Decls : Accept(d)

Spec == Init /\ [][Next]_accepted
=============================================================================
