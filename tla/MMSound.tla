--------------------------------- MODULE MMSound ---------------------------------
(***************************************************************************)
(* A meaning for the statements of a small logic, to judge the verifier    *)
(* by: what it accepts must be true.  There are two objects and two object *)
(* variables.  A setvar stands for an object variable, a wff for the set   *)
(* of environments where it holds; "i p q" is implication, "A z p" is      *)
(* quantification and $d says that two meanings depend on no common object *)
(* variable.  Meanings are computed from the right, as prefix notation is. *)
(***************************************************************************)
EXTENDS MMVerify

ObjVars == {1, 2}
Objects == {0, 1}
Envs == [ObjVars -> Objects]

Wff(s) == [type |-> "wff", holds |-> s]
Setvar(o) == [type |-> "setvar", var |-> o]
Junk == [type |-> "junk"]

Meanings == [wff |-> {Wff(s) : s \in SUBSET Envs}, setvar |-> {Setvar(o) : o \in ObjVars}]

\* a token is met with the meanings of what is right of it
Token(tok, right, mean) ==
    LET is(n, type) == Len(right) >= n /\ right[n].type = type
        rest == SubSeq(right, 3, Len(right))
    IN  CASE tok \in DOMAIN mean -> <<mean[tok]>> \o right
          [] tok = "i" /\ is(1, "wff") /\ is(2, "wff") ->
                <<Wff((Envs \ right[1].holds) \cup right[2].holds)>> \o rest
          [] tok = "A" /\ is(1, "setvar") /\ is(2, "wff") ->
                <<Wff({env \in Envs : \A obj \in Objects :
                          [env EXCEPT ![right[1].var] = obj] \in right[2].holds})>> \o rest
          [] OTHER -> <<Junk>>

Meaning(expr, mean) ==
    LET all == FoldRight(LAMBDA tok, right : Token(tok, right, mean), expr, <<>>)
    IN  IF Len(all) = 1 THEN all[1] ELSE Junk

DependsOn(m) ==
    IF m.type = "setvar" THEN {m.var}
    ELSE {o \in ObjVars : \E env \in m.holds, obj \in Objects :
                              [env EXCEPT ![o] = obj] \notin m.holds}

\* the type of each variable, as all $f of it in the text have it
TypeOf(v) == (CHOOSE st \in ToSet(text) : st.op = "f" /\ st.var = v).tc
TypedVars == {st.var : st \in Hyps("f")}

Assignments(vs) == {mean \in [vs -> Meanings.wff \cup Meanings.setvar] :
                       \A v \in vs : mean[v] \in Meanings[TypeOf(v)]}

Holds(stat, mean) == Meaning(Tail(stat), mean) = Wff(Envs)

\* an assertion: whatever its variables stand for, if the $d pairs are kept and
\* the hypotheses hold, it holds
Valid(a) ==
    LET vs == {a.f[n].var : n \in DOMAIN a.f}
    IN  Head(a.stat) = "|-" =>
            \A mean \in Assignments(vs) :
                /\ \A pair \in a.d \cap SUBSET vs : \A x, y \in pair :
                      x # y => DependsOn(mean[x]) \cap DependsOn(mean[y]) = {}
                /\ \A n \in DOMAIN a.e : Holds(Stat(a.e[n]), mean)
                => Holds(a.stat, mean)

-----------------------------------------------------------------------------
(* Properties *)

Theorems == {l \in DOMAIN labels : labels[l].class = "p"}
AxiomsValid == \A l \in DOMAIN labels : labels[l].class = "a" => Valid(labels[l])

\* Every $p the verifier lets pass is true, whatever its proof: no chain of
\* applications under open blocks, $d and hidden $f derives a statement that does
\* not follow from the axioms.  (A verifier is there for this.  For proofs that
\* cite hypotheses of closed blocks see TrueWhateverCited.)
Sound ==
    ~proving /\ ~strayed /\ AxiomsValid => \A l \in Theorems : Valid(labels[l])

\* What is on the proof stack is a well-formed expression of the type it says.
WellFormed ==
    LET mean == [v \in TypedVars |-> CHOOSE m \in Meanings[TypeOf(v)] : TRUE]
        kind(type) == IF type = "|-" THEN "wff" ELSE type
    IN  \A n \in DOMAIN stack :
            Meaning(Tail(stack[n]), mean).type = kind(Head(stack[n]))

\* "If the Linker produces garbage, the Verifier must reject it"
\* (001_arch-design.md): nothing accepted is false, also when a proof cites what
\* is out of scope.
TrueWhateverCited ==
    ~proving /\ AxiomsValid => \A l \in Theorems : Valid(labels[l])
=============================================================================
