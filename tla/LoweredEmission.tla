----------------------------- MODULE LoweredEmission -----------------------------
(***************************************************************************)
(* From lemmas that are lists of steps to statements of a unit             *)
(* (authoring/emit.py, on the builder of builder_v2/builder.py).  A lemma  *)
(* is [name, statement, steps, dv]; a step is [label, op, expr, args, ref].*)
(* out is what was written so far and the proof under construction: every  *)
(* syntax proof may write further $f statements.                           *)
(***************************************************************************)
EXTENDS Unify, DependencyOrder, TLC

CONSTANTS
    IdOrder,       \* all variables in the order of their symbol ids
    Binops,        \* [op, label] of the infix connectives a logic has
    Ternaries,     \* [op, label] of those that join three formulas
    Bare, Prefix2, Prefix3,  \* [op, label] of the connectives of other shapes
    Delims         \* the delimiters of a substitution, or <<>>

Tokens(ops) == [n \in DOMAIN ops |-> ops[n].op]
\* the UnifyCtx of the emitter
EmitCtx == Ctx(Tokens(Binops), Tokens(Bare), Tokens(Prefix2), Tokens(Prefix3), Delims)

InIdOrder(vs) == SelectSeq(IdOrder, LAMBDA v : v \in vs)

-----------------------------------------------------------------------------
(* The builder: labels and $f *)

LabelsOf(sts) == {sts[n].label : n \in {m \in DOMAIN sts : IsLabelled(sts[m])}}

\* a statement with a label that the unit has not used yet
Labelled(sts, st) == IF st.label \in LabelsOf(sts) THEN {} ELSE {Append(sts, st)}

\* active_floating_vars
ActiveFloats(sts) == At(sts, ActiveF(sts, Len(sts) + 1))
FloatLabel(sts, v) ==
    LET active == ActiveFloats(sts)
    IN  active[Greatest({n \in DOMAIN active : active[n].var = v})].label
IsActive(sts, v) == \E n \in DOMAIN ActiveFloats(sts) : ActiveFloats(sts)[n].var = v

\* auto.floating: w<name>, or the first of w<name>0, w<name>1, ... that is free
AutoLabel(sts, v) ==
    LET name(n) == "w" \o v \o IF n = 0 THEN "" ELSE ToString(n - 1)
    IN  name(Least({n \in 0 .. Len(sts) : name(n) \notin LabelsOf(sts)}))
Floated(sts, v) ==
    IF IsActive(sts, v) THEN sts ELSE Append(sts, FloatingHyp(AutoLabel(sts, v), "wff", v))
FloatedAll(sts, vs) == FoldLeft(Floated, sts, InIdOrder(vs))

\* a(): the label, then the $f of a wff statement, then the statement
AddAxiom(sts, st) ==
    IF st.label \in LabelsOf(sts) THEN {}
    ELSE {Append(IF st.tc = "wff" THEN FloatedAll(sts, VarsIn(st.expr)) ELSE sts, st)}

WithPairs(sts, dv) ==
    LET pairs == SetToSeq(dv)
    IN  sts \o [n \in DOMAIN pairs |-> DisjointVar(SetToSeq(pairs[n]))]

\* _emit_axiom_with_active_dv
EmitAxiom(sts, st, dv) ==
    IF dv = {} THEN AddAxiom(sts, st)
    ELSE {Append(done, Exit) : done \in AddAxiom(WithPairs(Append(sts, Enter), dv), st)}

-----------------------------------------------------------------------------
(* Conditions given apart from the assertions *)

\* _active_dv_pairs_for: the conditions of an assertion are its own or those of the
\* map explicit; both must agree if both say something
ActivePairs(label, own, explicit) ==
    IF label \notin DOMAIN explicit THEN {own}
    ELSE IF own \notin {{}, explicit[label]} THEN {} ELSE {explicit[label]}

-----------------------------------------------------------------------------
(* Syntax proofs *)

Out(sts) == [text |-> sts, proof |-> <<>>]
Pushed(outs, label) == {[out EXCEPT !.proof = Append(@, label)] : out \in outs}

\* the variables that have a $f, in order: those the caller gave, or all active
FloatOrder(sts, given) ==
    IF given # <<>> THEN given
    ELSE LET active == ActiveFloats(sts) IN [n \in DOMAIN active |-> active[n].var]

\* ph_ps_mandatory_substs, ph_ps_ch_mandatory_substs: the parts of a connective
\* in the order in which ph, ps and ch have their $f, if all of them have one
InFloatOrder(order, names, parts) ==
    LET named == SelectSeq(order, LAMBDA v : v \in ToSet(names))
    IN  IF Len(named) # Len(names) THEN parts
        ELSE [n \in DOMAIN named |-> parts[CHOOSE m \in DOMAIN names : names[m] = named[n]]]

Names(count) == SubSeq(<<"ph", "ps", "ch">>, 1, count)

\* the connective at the root of the tokens, as v2_wff_proof looks for it: its
\* label, and its parts in the order they are pushed
RootOf(toks, order) ==
    LET roots(ops, Split(_)) ==
            FirstOf([n \in DOMAIN ops |-> {<<ops[n].label, parts>> : parts \in Split(ops[n].op)}])
        named(found) == {<<root[1], InFloatOrder(order, Names(Len(root[2])), root[2])>> : root \in found}
        \* the body of a quantifier or a substitution comes first
        body(parts) == <<Last(parts)>> \o Front(parts)
    IN  IF Head(toks) = "-." THEN {<<"wn", <<Tail(toks)>>>>}
        ELSE FirstOf(
          <<{<<"wsb", body(parts)>> : parts \in SplitSubstitution(EmitCtx, toks)},
            {<<root[1], body(root[2])>> : root \in
                roots(Prefix2, LAMBDA op : SplitPrefix(EmitCtx, toks, op, 2))},
            roots(Bare, LAMBDA op : SplitBare(toks, op)),
            named(roots(Prefix3, LAMBDA op : SplitPrefix(EmitCtx, toks, op, 3))),
            named(roots(Ternaries, LAMBDA op : SplitTernary(toks, op))),
            named(roots(Binops, LAMBDA op : SplitBinary(toks, op)))>>)

RECURSIVE WffProof(_, _, _), WffProofs(_, _, _)
\* v2_wff_proof, pushed on out
WffProof(toks, out, given) ==
    IF toks = <<>> THEN {}
    ELSE IF Len(toks) = 1 /\ Head(toks) \in Vars
    THEN LET v == Head(toks)
             sts == Floated(out.text, v)
         IN  IF given # <<>> /\ v \notin ToSet(given) THEN {}
             ELSE Pushed({[out EXCEPT !.text = sts]}, FloatLabel(sts, v))
    ELSE UNION {Pushed(WffProofs(root[2], out, given), root[1]) :
                   root \in RootOf(toks, FloatOrder(out.text, given))}
WffProofs(parts, out, given) ==
    IF parts = <<>> THEN {out}
    ELSE UNION {WffProofs(Tail(parts), next, given) : next \in WffProof(Head(parts), out, given)}

-----------------------------------------------------------------------------
(* Steps *)

HypSteps(lemma) == SelectSeq(lemma.steps, LAMBDA st : st.op = "hyp")
\* the expressions of the hypotheses of a lemma
HypsOf(lemma) == [n \in DOMAIN HypSteps(lemma) |-> HypSteps(lemma)[n].expr]
HypLabel(lemma, label) == lemma.name \o "." \o label

\* a label names the last step that has it
StepNamed(lemma, label) ==
    lemma.steps[Greatest({n \in DOMAIN lemma.steps : lemma.steps[n].label = label})]
HasStep(lemma, label) == \E n \in DOMAIN lemma.steps : lemma.steps[n].label = label

\* (variant: in the order of the ids)
MandatoryOrder_ById(sts, given, templates) == InIdOrder(UNION {VarsIn(toks) : toks \in templates})
\* mandatory_vars_for_templates: those with a $f first, then by id
MandatoryOrder(sts, given, templates) ==
    LET needed == UNION {VarsIn(toks) : toks \in templates}
        floating == SelectSeq(FloatOrder(sts, given), LAMBDA v : v \in needed)
    IN  floating \o InIdOrder(needed \ ToSet(floating))

\* the syntax axioms that emission knows by itself, over variables of its own
SyntaxTemplates ==
    LET table(ops, Form(_)) == {<<ops[n].label, Form(ops[n].op)>> : n \in DOMAIN ops}
        all == {<<"wn", <<"-.", "__ph">>>>}
               \cup table(Binops, LAMBDA op : <<"(", "__ph", op, "__ps", ")">>)
               \cup table(Ternaries, LAMBDA op : <<"(", "__ph", op, "__ps", op, "__ch", ")">>)
               \cup table(Prefix2, LAMBDA op : <<op, "__x", "__ph">>)
               \cup table(Prefix3, LAMBDA op : <<op, "__ph", "__ps", "__ch">>)
               \cup table(Bare, LAMBDA op : <<"__x", op, "__ps">>)
               \cup IF Delims = <<>> THEN {}
                    ELSE {<<"wsb", <<Delims[1], "__ph", Delims[2], "__ps", Delims[3], "__ch">>>>}
    IN  [l \in {pair[1] : pair \in all} |->
            [expr |-> (CHOOSE pair \in all : pair[1] = l)[2], hyps |-> <<>>]]

\* templates: the assertions that a proof may cite, as [expr, hyps]; the
\* substitution under which a step and its arguments are one of them
RefSubst(lemma, st, templates) ==
    LET template == templates[st.ref]
        args == [n \in DOMAIN st.args |-> StepNamed(lemma, st.args[n]).expr]
        trees(seq) == AllOf([n \in DOMAIN seq |-> Parse(EmitCtx, seq[n])])
    IN  IF Len(args) # Len(template.hyps) THEN {}
        ELSE UNION {UnifyAll({<<expected[n], actual[n]>> : n \in DOMAIN expected}) :
                       expected \in trees(<<template.expr>> \o template.hyps),
                       actual \in trees(<<st.expr>> \o args)}

RECURSIVE EmitStep(_, _, _, _, _, _), EmitSteps(_, _, _, _, _, _)
\* v2_emit_step, pushed on out
EmitStep(lemma, label, templates, given, out, visiting) ==
    LET st == StepNamed(lemma, label)
        inner == visiting \cup {label}
        known == \A n \in DOMAIN st.args : HasStep(lemma, st.args[n])
        Expr(n) == StepNamed(lemma, st.args[n]).expr
        whole(parts) ==
            UNION {EmitSteps(lemma, st.args, templates, given, done, inner) :
                      done \in WffProofs(parts, out, given)}
    IN  IF label \in visiting \/ ~known THEN {}
        ELSE CASE st.op = "hyp" -> Pushed({out}, HypLabel(lemma, label))
          [] st.op = "ref" ->
                IF st.ref \notin DOMAIN templates THEN {}
                ELSE LET template == templates[st.ref]
                         vs == MandatoryOrder(out.text, given, {template.expr} \cup ToSet(template.hyps))
                         instance(n, subst) ==
                             {ToTokens(EmitCtx, ApplySubst(hyp, subst)) : hyp \in Parse(EmitCtx, template.hyps[n])}
                         exact(subst) == \A n \in DOMAIN st.args : Expr(n) \in instance(n, subst)
                     IN  UNION {Pushed(whole([n \in DOMAIN vs |->
                                           IF vs[n] \in DOMAIN subst
                                           THEN ToTokens(EmitCtx, subst[vs[n]]) ELSE <<vs[n]>>]),
                                       st.ref) : subst \in {s \in RefSubst(lemma, st, templates) : exact(s)}}
          [] st.op \in {"mp", "apply"} ->
                IF (st.op = "apply" /\ st.ref # "mp") \/ Len(st.args) # 2 THEN {}
                ELSE UNION {IF Expr(1) # parts[1] THEN {}
                            ELSE Pushed(whole(InFloatOrder(FloatOrder(out.text, given), Names(2), parts)),
                                        "mp") : parts \in SplitBinary(Expr(2), "->")}
          [] OTHER -> {}
EmitSteps(lemma, steps, templates, given, out, visiting) ==
    IF steps = <<>> THEN {out}
    ELSE UNION {EmitSteps(lemma, Tail(steps), templates, given, next, visiting) :
                   next \in EmitStep(lemma, Head(steps), templates, given, out, visiting)}

\* the step that is emitted as the proof
Root(lemma) == IF HasStep(lemma, "res") THEN "res" ELSE Last(lemma.steps).label

-----------------------------------------------------------------------------
(* Lemmas *)

\* a lemma with a step that cannot be lowered becomes an axiom
IsRaw(lemma) == \E st \in ToSet(lemma.steps) : st.op \notin {"hyp", "ref", "mp", "apply"}

EmitHyps(lemma, sts, tc) ==
    FoldLeft(LAMBDA done, st : UNION {Labelled(d, EssentialHyp(HypLabel(lemma, st.label), tc, st.expr)) : d \in done},
             {sts}, HypSteps(lemma))

\* one lemma, under the conditions dv
EmitLemma(lemma, dv, templates, given, tc, sts) ==
    LET needed == VarsIn(lemma.statement) \cup UNION {VarsIn(toks) : toks \in ToSet(HypsOf(lemma))}
        opened == FloatedAll(WithPairs(Append(sts, Enter), dv), needed \ ToSet(given))
    IN  IF IsRaw(lemma) THEN EmitAxiom(sts, Axiom(lemma.name, tc, lemma.statement), dv)
        ELSE IF lemma.steps = <<>> THEN {}
        ELSE UNION {UNION {{Append(done, Exit) : done \in
                               Labelled(out.text, Theorem(lemma.name, tc, lemma.statement, out.proof))} :
                              out \in EmitStep(lemma, Root(lemma), templates, given, Out(hyped), {})} :
                       hyped \in EmitHyps(lemma, opened, tc)}

\* the lemmas a lemma depends on
Deps(lemma, names) ==
    IF IsRaw(lemma) THEN {}
    ELSE {st.ref : st \in {s \in ToSet(lemma.steps) : s.op = "ref"}} \cap names
RefersToItself(lemma) == ~IsRaw(lemma) /\ \E st \in ToSet(lemma.steps) : st.op = "ref" /\ st.ref = lemma.name
=============================================================================
