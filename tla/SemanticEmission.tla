---------------------------- MODULE SemanticEmission ----------------------------
(***************************************************************************)
(* From a theory to Metamath statements (authoring/metamath_emission.py,   *)
(* metamath_lowering.py, metamath_language.py): a block for each formation *)
(* and each assertion, with a $f for every variable, $e, $d, and a proof   *)
(* that pushes the terms of a substitution in the order of those $f.       *)
(***************************************************************************)
EXTENDS Assertion, Lir, TLC

CONSTANTS
    Signature,     \* the assertions, by label
    NameOf,        \* variable_names: the emitted name of a variable
    KeyOrder,      \* all variables in the order of _variable_key
    Typecode,      \* of a sort
    Provable,      \* the typecode of an assertion
    Template,      \* of a constructor: tokens and argument positions
    Formation,     \* of a constructor: its syntax axiom
    RuleFloating   \* of a primitive rule: the names of its variables, in order

Lit(token) == [kind |-> "literal", token |-> token]
Arg(n) == [kind |-> "argument", index |-> n]

RECURSIVE Lower(_, _)
\* the tokens of a term, its variables by a name each
Lower(t, name) ==
    IF IsVar(t) THEN <<name[t[1]]>>
    ELSE FlattenSeq([n \in DOMAIN Template[t[1]] |->
             LET part == Template[t[1]][n]
             IN  IF part.kind = "literal" THEN <<part.token>>
                 ELSE Lower(Args(t)[part.index], name)])

Emitted(t) == Lower(t, NameOf)

-----------------------------------------------------------------------------
(* Labels of hypotheses: one counter for the theory, taken names are skipped *)

HypothesisName(n) == "mmtranspiler.h" \o ToString(n)
NextHypotheses(from, count, taken) ==
    SubSeq(SelectSeq([n \in 1 .. from + count + Cardinality(taken) |-> HypothesisName(n - 1)],
                     LAMBDA name : name \notin taken),
           from + 1, from + count)

\* _emit_formation
EmitFormation(form, hyps) ==
    <<Enter>>
    \o [n \in DOMAIN form.floating |->
           FloatingHyp(hyps[n], Typecode[form.floating[n].sort], form.floating[n].variable)]
    \o <<Axiom(form.label, form.typecode, form.expression), Exit>>

-----------------------------------------------------------------------------
(* Assertions *)

\* _primitive_rule_variables: the variables of a rule in the order of the binding
RuleVariables(a) ==
    [n \in DOMAIN RuleFloating[a.label] |->
        CHOOSE v \in ToSet(a.vars) : NameOf[v] = RuleFloating[a.label][n]]

\* the order in which a use of a pushes its terms
CallOrder(a) == IF a.kind = "primitive_rule" THEN RuleVariables(a) ELSE a.vars

\* the variables of the judgments of a proof
JudgmentVariables(p) ==
    VariablesIn(JudgmentsOf(p.of) \cup {p.steps[n].result : n \in DOMAIN p.steps})

\* _replay_variables: also of substitutions and of conditions
ReplayVariables(p) ==
    JudgmentVariables(p) \cup UNION p.active
      \cup UNION {VariablesIn({p.steps[n].subst[v] : v \in DOMAIN p.steps[n].subst}) :
                     n \in DOMAIN p.steps}

\* (variant: all variables in the order of their keys)
FloatedIn_Sorted(a, p) ==
    IF a.kind # "theorem" THEN CallOrder(a)
    ELSE SelectSeq(KeyOrder, LAMBDA v : v \in ReplayVariables(p) \cup ToSet(a.vars))
\* the $f of an assertion: those of a theorem go on with what its proof needs
FloatedIn(a, p) ==
    IF a.kind # "theorem" THEN CallOrder(a)
    ELSE a.vars \o SelectSeq(KeyOrder, LAMBDA v : v \in ReplayVariables(p) \ ToSet(a.vars))

\* (variant: the conditions of the signature)
ConditionsOf_Signature(a, p) == a.distinct
\* the $d of an assertion: those of a theorem are those its proof was checked under
ConditionsOf(a, p) == IF a.kind = "theorem" THEN p.active ELSE a.distinct

\* What emission refuses: two variables of a judgment that share a name, and a
\* variable of a condition that is in no judgment (lower_replay_to_metamath_proof)
Lowers(p) ==
    /\ \A u, v \in JudgmentVariables(p) : NameOf[u] = NameOf[v] => u = v
    /\ UNION p.active \subseteq JudgmentVariables(p)

RECURSIVE TermProof(_, _)
\* _term_proof: the syntax of a term, from the labels of the active $f
TermProof(t, floating) ==
    IF IsVar(t) THEN <<floating[t[1]]>>
    ELSE FlattenSeq([n \in DOMAIN Args(t) |-> TermProof(Args(t)[n], floating)])
         \o <<Formation[t[1]].label>>

RECURSIVE StepProof(_, _, _, _)
\* emit_step: the terms of the substitution, the premises, the label
StepProof(p, n, floating, essential) ==
    IF n <= Len(p.of.premises) THEN <<essential[n]>>
    ELSE LET st == p.steps[n - Len(p.of.premises)]
             a == Signature[st.cites]
         IN  FlattenSeq([m \in DOMAIN CallOrder(a) |->
                            TermProof(st.subst[CallOrder(a)[m]], floating)])
             \o FlattenSeq([m \in DOMAIN st.premises |->
                               StepProof(p, st.premises[m], floating, essential)])
             \o <<a.label>>

\* _emit_assertion, with the proof p of a theorem that ends at root
EmitAssertion(a, p, root, hyps) ==
    LET floated == FloatedIn(a, p)
        floating == [v \in ToSet(floated) |->
                        hyps[CHOOSE n \in DOMAIN floated : floated[n] = v]]
        essential == SubSeq(hyps, Len(floated) + 1, Len(floated) + Len(a.premises))
        pairs == SetToSeq(ConditionsOf(a, p))
        expr == Emitted(a.conclusion)
    IN  <<Enter>>
        \o [n \in DOMAIN floated |->
               FloatingHyp(hyps[n], Typecode[SortOf[floated[n]]], NameOf[floated[n]])]
        \o [n \in DOMAIN a.premises |->
               EssentialHyp(essential[n], Provable, Emitted(a.premises[n]))]
        \o [n \in DOMAIN pairs |-> LET vs == SetToSeq(pairs[n])
                                   IN DisjointVar([m \in DOMAIN vs |-> NameOf[vs[m]]])]
        \o <<IF a.kind = "theorem"
             THEN Theorem(a.label, Provable, expr, StepProof(p, root, floating, essential))
             ELSE Axiom(a.label, Provable, expr),
             Exit>>

-----------------------------------------------------------------------------
(* The theory *)

Hypotheses(sts) == Cardinality({n \in DOMAIN sts : IsHyp(sts[n])})

\* one entry of the sequence: a constructor or the label of an assertion
EmitEntry(sts, entry, proofs, roots, taken) ==
    LET hyps(count) == NextHypotheses(Hypotheses(sts), count, taken)
    IN  IF entry \in DOMAIN Formation
        THEN sts \o EmitFormation(Formation[entry], hyps(Len(Formation[entry].floating)))
        ELSE LET a == Signature[entry]
             IN  sts \o EmitAssertion(a, proofs[entry], roots[entry],
                            hyps(Len(FloatedIn(a, proofs[entry])) + Len(a.premises)))

\* emit: formations and assertions in the order of the binding
EmitTheory(sequence, proofs, roots) ==
    LET taken == {IF entry \in DOMAIN Formation THEN Formation[entry].label ELSE entry :
                     entry \in ToSet(sequence)}
    IN  FoldLeft(LAMBDA sts, entry : EmitEntry(sts, entry, proofs, roots, taken),
                 <<>>, sequence)

\* the theorems of the sequence that emission can replay and lower
Emittable(sequence, proofs) ==
    \A entry \in ToSet(sequence) :
        entry \in DOMAIN Signature /\ Signature[entry].kind = "theorem" =>
            Replayable(proofs[entry], Signature) /\ Lowers(proofs[entry])
=============================================================================
