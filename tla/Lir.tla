---------------------------------- MODULE Lir ----------------------------------
(***************************************************************************)
(* The linear IR of a proof unit (skfd/core/lir.py), which is also the     *)
(* statement stream the linker emits and a Metamath verifier reads, and    *)
(* the declarative meaning of its ${ ... $} scopes: by position and        *)
(* without any stack, the frame that an assertion must be given.           *)
(* A symbol stands for its SymbolId; an expression is a sequence of them.  *)
(***************************************************************************)
EXTENDS Scopes, Subsequences

CONSTANT Vars     \* the symbols of kind Var

Enter == [op |-> "enter"]
Exit == [op |-> "exit"]
FloatingHyp(label, tc, var) == [op |-> "f", label |-> label, tc |-> tc, var |-> var]
EssentialHyp(label, tc, expr) == [op |-> "e", label |-> label, tc |-> tc, expr |-> expr]
Axiom(label, tc, expr) == [op |-> "a", label |-> label, tc |-> tc, expr |-> expr]
Theorem(label, tc, expr, proof) ==
    [op |-> "p", label |-> label, tc |-> tc, expr |-> expr, proof |-> proof]
DisjointVar(vs) == [op |-> "d", vars |-> vs]

IsHyp(st) == st.op \in {"f", "e"}
IsAssertion(st) == st.op \in {"a", "p"}
IsLabelled(st) == IsHyp(st) \/ IsAssertion(st)

TokensOf(seq) == {seq[i] : i \in DOMAIN seq}
VarsIn(expr) == TokensOf(expr) \cap Vars

\* all unordered pairs of a $d statement, each as a two-element set
PairsOf(vs) == UNION {{{vs[i], vs[j]} : i \in 1 .. j - 1} : j \in DOMAIN vs}

\* normalize_dv_pairs accepts them: each is of two variables, and of different ones
\* (a group of less than two symbols has no pair that could be refused)
Separable(vs) ==
    \A i, j \in DOMAIN vs : i < j => vs[i] \in Vars /\ vs[j] \in Vars /\ vs[i] # vs[j]

-----------------------------------------------------------------------------
(* What is in scope at a statement of a sequence *)

ActiveE(s, i) == {j \in 1..Len(s) : s[j].op = "e" /\ InScope(s, j, i)}
ActiveF(s, i) == {j \in 1..Len(s) : s[j].op = "f" /\ InScope(s, j, i)}
ActiveD(s, i) ==
    UNION {PairsOf(s[j].vars) : j \in {k \in 1..Len(s) : s[k].op = "d" /\ InScope(s, k, i)}}

\* the position of the innermost active $f of v before statement i, 0 if none
FloatOf(s, v, i) ==
    LET fs == {j \in ActiveF(s, i) : s[j].var = v}
    IN  IF fs = {} THEN 0 ELSE CHOOSE j \in fs : \A k \in fs : k <= j

\* the variables of assertion i and of the essential hypotheses it is under
MandatoryVars(s, i) ==
    VarsIn(s[i].expr) \cup UNION {VarsIn(s[j].expr) : j \in ActiveE(s, i)}

\* the positions of its mandatory floating hypotheses
MandatoryF(s, i) == {FloatOf(s, v, i) : v \in MandatoryVars(s, i)} \ {0}
MandatoryD(s, i) == {p \in ActiveD(s, i) : p \subseteq MandatoryVars(s, i)}

LabelsInOrder(sts) == [n \in DOMAIN sts |-> sts[n].label]

\* the frame of assertion i: what using it in a proof requires
FrameOf(s, i) ==
    [f |-> LabelsInOrder(At(s, MandatoryF(s, i))),
     e |-> LabelsInOrder(At(s, ActiveE(s, i))),
     d |-> MandatoryD(s, i)]

-----------------------------------------------------------------------------
(* What a verifier takes for granted of a text *)

LabelsDistinct(s) ==
    \A m, n \in DOMAIN s :
        IsLabelled(s[m]) /\ IsLabelled(s[n]) /\ s[m].label = s[n].label => m = n

\* the variables that assertion n requires have a $f, and the $f in scope there
\* agree on what type a variable has
VarsDeclared(s, n) ==
    /\ \A v \in MandatoryVars(s, n) : FloatOf(s, v, n) # 0
    /\ \A i, j \in ActiveF(s, n) : s[i].var = s[j].var => s[i].tc = s[j].tc
=============================================================================
