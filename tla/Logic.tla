---------------------------------- MODULE Logic ----------------------------------
(***************************************************************************)
(* What an assertion says.  A judgment is a value; an assertion leads from *)
(* its premises to its conclusion under each substitution that its         *)
(* distinct-variable conditions allow (core/disjoint.py,                   *)
(* authoring/assertion.py; module Assertion computes them).                *)
(***************************************************************************)
EXTENDS Sequences

CONSTANTS
    Decls, KindOf, Premises, Conclusion,
    Judgments, Substs,
    Ground,        \* no proof: the context of a statement that stands for itself
    Allowed        \* Allowed[c][d]: the substitutions of d that its $d allow in context c

Contexts == Decls \cup {Ground}

\* substitutions compose, and so do the conditions on them
ASSUME LogicAssumption ==
    /\ Premises \in [Decls -> Seq(Judgments)] /\ Conclusion \in [Decls -> Judgments]
    /\ Substs \subseteq [Judgments -> Judgments]
    /\ Ground \notin Decls
    /\ Allowed \in [Contexts -> [Decls -> SUBSET Substs]]
    /\ \A c \in Contexts, d, e \in Decls :
          \A u \in Allowed[c][d], s \in Allowed[d][e] :
              [j \in Judgments |-> u[s[j]]] \in Allowed[c][e]

\* each instance of d in context c leads from members of M to a member of M
Holds(M, c, d) ==
    \A s \in Allowed[c][d] :
        (\A n \in DOMAIN Premises[d] : s[Premises[d][n]] \in M) => s[Conclusion[d]] \in M

\* an assertion is true in a model
Valid(M, d) == Holds(M, Ground, d)

\* the conclusion of d can be reached from its premises, in its own context, by
\* steps that cite assertions of A: it is in every set closed under these
Derives(A, d) ==
    \A M \in SUBSET Judgments :
        /\ \A n \in DOMAIN Premises[d] : Premises[d][n] \in M
        /\ \A e \in A : Holds(M, d, e)
        => Conclusion[d] \in M

\* the theorems of A follow from its axioms and rules: they are true in each model
\* of these
Follow(A) ==
    \A M \in SUBSET Judgments :
        (\A d \in A : KindOf[d] # "theorem" => Valid(M, d)) => \A d \in A : Valid(M, d)
=============================================================================
