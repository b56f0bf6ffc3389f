--------------------------------- MODULE Scopes ---------------------------------
(***************************************************************************)
(* The ${ ... $} scopes of a statement sequence s, by position and without *)
(* any stack.  Builder, linker and verifier each track scopes with a stack *)
(* of their own; the operators below say what those must compute.          *)
(***************************************************************************)
EXTENDS Integers, Sequences, FiniteSets

Count(s, i, op) == Cardinality({k \in 1..i : s[k].op = op})

\* the number of blocks that are open after statement i
Depth(s, i) == Count(s, i, "enter") - Count(s, i, "exit")

\* statement j is still in scope right before statement i
InScope(s, j, i) ==
    /\ j < i
    /\ \A k \in j .. i - 1 : Depth(s, k) >= Depth(s, j)

Balanced(s) ==
    /\ Depth(s, Len(s)) = 0
    /\ \A i \in 1..Len(s) : Depth(s, i) >= 0
=============================================================================
