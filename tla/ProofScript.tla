------------------------------ MODULE ProofScript ------------------------------
(***************************************************************************)
(* A proof script (driver/script_runner.py): its functions build lemmas    *)
(* step by step (proof/ir.py), the lemmas they cite are taken from a       *)
(* catalogue, the builder gets axioms, rules and lemmas in the order of    *)
(* their dependencies (authoring/emit.py), and the verifier (mmverify.py)  *)
(* reads the one unit that results, with the proofs that were written.     *)
(* Linking, which leaves one unit as it is, is the subject of Linker; the  *)
(* $f with typecodes and the constants without arguments that a package    *)
(* can ask for are left out.                                               *)
(***************************************************************************)
EXTENDS LoweredEmission, ProofRegistry

CONSTANTS
    Scripts,       \* scripts and packages, with the configuration of the builder:
                   \* [axioms, functions, catalog, floats, given, typecode,
                   \*  axiomDv, lemmaDv, forbidRaw]
    NameOrder,     \* the names of all lemmas, sorted
    MaxTokens      \* bound: tokens on the verifier's stack

VARIABLES
    script,        \* the script that runs
    cache,         \* SignatureCache: the lemmas of the catalogue it was preloaded with
    proofs,        \* the lemmas its functions returned
    phase,
    closure,       \* lemma_by_name
    pending,       \* the names of lemmas still to emit
    token,         \* the label of a proof that is read next
    text, at, fs, labels, proving, stack, strayed, verdict   \* the verifier's

verifier == <<text, at, fs, labels, proving, stack, strayed, verdict>>
reader == <<at, fs, labels, proving, stack, strayed, verdict>>
vars == <<script, cache, proofs, phase, closure, pending, token, verifier>>

V == INSTANCE MMVerify WITH Consts <- {}, Labels <- {}, Texts <- {}

NoLemmas == [l \in {} |-> {}]

Init ==
    /\ script \in Scripts
    /\ cache = NoLemmas /\ proofs = <<>> /\ phase = "preload"
    /\ closure = NoLemmas /\ pending = <<>> /\ token = 1
    /\ text = <<>> /\ at = 1 /\ fs = <<V!EmptyFrame>> /\ labels = NoLemmas
    /\ proving = FALSE /\ stack = <<>> /\ strayed = FALSE /\ verdict = "reading"

-----------------------------------------------------------------------------
(* ProofBuilder *)

Step(label, op, expr, args, ref) ==
    [label |-> label, op |-> op, expr |-> expr, args |-> args, ref |-> ref]
With(proof, st) == {[proof EXCEPT !.steps = Append(@, st)]}
StepOf(proof, label) == StepNamed(proof, label)

\* the connectives the builder knows: of those of the emitter three at most
BuilderCtx ==
    Ctx(SelectSeq(Tokens(Binops), LAMBDA op : op \in {"->", "/\\", "\\/"}), <<>>, <<>>, <<>>, <<>>)

Signature(lemma) ==
    [hyps |-> HypsOf(lemma), conclusion |-> lemma.statement]

\* ref: without arguments, those that match the signature in the cache known
RefArgs(proof, call, known) ==
    IF call.args # <<>> \/ call.ref \notin DOMAIN known THEN {call.args}
    ELSE IF HypsOf(known[call.ref]) = <<>> THEN {<<>>}
    ELSE LET chosen(matches) ==
                 IF \E match \in matches : match.raised THEN {}
                 ELSE IF \A match \in matches : match.labels = {} THEN {<<>>}
                 ELSE UNION {match.labels : match \in matches}
         IN  chosen(MatchHyps(BuilderCtx, Signature(known[call.ref]), call.expr, proof.steps))

\* System.apply of the rule mp
Detached(proof, args) ==
    IF Len(args) # 2 THEN {}
    ELSE {parts[2] : parts \in {p \in SplitBinary(StepOf(proof, args[2]).expr, "->") :
                                   p[1] = StepOf(proof, args[1]).expr}}

\* one call of a proof builder; a condition is on two different variables
Called(proof, call, known) ==
    CASE call.op = "hyp" -> With(proof, Step(call.label, "hyp", call.expr, <<>>, ""))
      [] call.op = "raw" -> With(proof, Step(call.label, "raw", call.expr, <<>>, ""))
      [] call.op = "disjoint" ->
            {[proof EXCEPT !.dv = @ \cup {pair}] : pair \in {call.pair} \cap kSubset(2, Vars)}
      [] call.op = "ref" ->
            UNION {With(proof, Step(call.label, "ref", call.expr, args, call.ref)) :
                      args \in RefArgs(proof, call, known)}
      [] call.op = "apply" ->
            UNION {With(proof, Step(call.label, "apply", expr, call.args, "mp")) :
                      expr \in Detached(proof, call.args)}

\* a proof function: its calls, then build(statement)
Built(function, known) ==
    FoldLeft(LAMBDA made, call : UNION {Called(proof, call, known) : proof \in made},
             {[name |-> function.name, statement |-> function.statement, steps |-> <<>>, dv |-> {}]},
             function.calls)

Fail ==
    /\ phase' = "failed"
    /\ UNCHANGED <<script, cache, proofs, closure, pending, token, verifier>>

\* every lemma of the catalogue is built once, without a cache; one that raises is
\* left out
Preload ==
    /\ phase = "preload"
    /\ LET built == [l \in DOMAIN script.catalog |-> Built(script.catalog[l], NoLemmas)]
       IN  cache' = [l \in {k \in DOMAIN built : built[k] # {}} |-> CHOOSE lemma \in built[l] : TRUE]
    /\ phase' = "prove"
    /\ UNCHANGED <<script, proofs, closure, pending, token, verifier>>

RunFunction ==
    /\ phase = "prove" /\ Len(proofs) < Len(script.functions)
    /\ LET made == Built(script.functions[Len(proofs) + 1], cache)
       IN  \/ /\ made = {} /\ Fail
           \/ /\ \E proof \in made : proofs' = Append(proofs, proof)
              /\ UNCHANGED <<script, cache, phase, closure, pending, token, verifier>>

-----------------------------------------------------------------------------
(* Emission *)

Refs(lemma) == {st.ref : st \in {s \in ToSet(lemma.steps) : s.op = "ref"}}
AxiomLabels == {script.axioms[n].label : n \in DOMAIN script.axioms}
Reserved == {"wi", "wn", "wa", "mp"}

\* what a package writes first: $f in an order of its own; it may hand them on
Floats == FoldLeft(LAMBDA sts, v : Floated(sts, v), <<>>, script.floats)
Given == IF script.given THEN script.floats ELSE <<>>

\* a map of conditions may only have labels that are emitted
EmitAxioms(sts) ==
    LET emitted(done, ax) == UNION {EmitAxiom(done, Axiom(ax.label, script.typecode, ax.expr), dv) :
                                       dv \in ActivePairs(ax.label, {}, script.axiomDv)}
    IN  IF ~(DOMAIN script.axiomDv \subseteq AxiomLabels) THEN {}
        ELSE FoldLeft(LAMBDA made, ax : UNION {emitted(done, ax) : done \in made}, {sts}, script.axioms)
Syntax == <<Axiom("wi", "wff", <<"(", "ph", "->", "ps", ")">>), Axiom("wn", "wff", <<"-.", "ph">>),
            Axiom("wa", "wff", <<"(", "ph", "/\\", "ps", ")">>)>>
\* _emit_rule_skeleton
EmitRules(sts) ==
    LET tc == script.typecode
        syntax == FoldLeft(LAMBDA made, st : IF st.label \in AxiomLabels THEN made
                                             ELSE UNION {AddAxiom(done, st) : done \in made},
                           {sts}, Syntax)
        opened(done) == done \o <<Enter, EssentialHyp("mp.1", tc, <<"ph">>),
                                  EssentialHyp("mp.2", tc, <<"(", "ph", "->", "ps", ")">>)>>
    IN  IF "mp" \in AxiomLabels THEN {sts}
        ELSE UNION {{Append(rule, Exit) : rule \in AddAxiom(opened(done), Axiom("mp", tc, <<"ps">>))} :
                       done \in syntax}

\* emit_axioms, then the rules
WritePrelude ==
    /\ phase = "prove" /\ Len(proofs) = Len(script.functions)
    /\ LET written == UNION {EmitRules(sts) : sts \in EmitAxioms(Floats)}
       IN  \/ /\ written = {} /\ Fail
           \/ /\ text' \in written
              /\ phase' = "written"
              /\ UNCHANGED <<script, cache, proofs, closure, pending, token, reader>>

\* The lemmas of the script, the first of each name, and of the catalogue (built anew)
\* what they cite, all the way; none if a constructor on the way raises. A name that
\* the script comes to later is asked of the catalogue too, and the answer dropped.
Closures(built) ==
    LET upTo(n) == {proofs[m].name : m \in 1 .. n}
        names == upTo(Len(proofs))
        lemma(l) == IF l \in names THEN {proofs[Least({n \in DOMAIN proofs : proofs[n].name = l})]}
                    ELSE built[l]
        foreign(made) == Refs(made) \ (AxiomLabels \cup Reserved)
        cited(l) == UNION {foreign(made) : made \in lemma(l)}
        asked == UNION {foreign(proofs[n]) \ upTo(n) :
                           n \in {m \in DOMAIN proofs : proofs[m].name \notin upTo(m - 1)}}
        known[n \in 0 .. Cardinality(DOMAIN built)] ==
            IF n = 0 THEN names
            ELSE known[n - 1] \cup (UNION {cited(l) : l \in known[n - 1]} \cap DOMAIN built)
    IN  IF \E l \in asked \cap DOMAIN built : built[l] = {} THEN {}
        ELSE AllOf([l \in known[Cardinality(DOMAIN built)] |-> lemma(l)])

CloseLemmas ==
    /\ phase = "written"
    /\ LET closures == Closures([l \in DOMAIN script.catalog |-> Built(script.catalog[l], cache)])
       IN  \/ /\ closures = {} /\ Fail
           \/ /\ closure' \in closures
              /\ phase' = "closed"
              /\ UNCHANGED <<script, cache, proofs, pending, token, verifier>>

Unresolved ==
    UNION {Refs(closure[l]) : l \in DOMAIN closure} \ (AxiomLabels \cup Reserved \cup DOMAIN closure)
Dependencies == [l \in DOMAIN closure |-> Deps(closure[l], DOMAIN closure)]

\* what emit_lowered_lemmas checks before it writes anything
Refused ==
    \/ ~(DOMAIN script.lemmaDv \subseteq DOMAIN closure)
    \/ \E l \in DOMAIN closure :
          \/ ActivePairs(l, closure[l].dv, script.lemmaDv) = {}
          \/ script.forbidRaw /\ IsRaw(closure[l])
          \/ RefersToItself(closure[l])

OrderLemmas ==
    /\ phase = "closed"
    /\ LET order == EmissionOrder(Dependencies, NameOrder)
       IN  IF Unresolved # {} \/ Refused \/ Len(order) < Cardinality(DOMAIN closure) THEN Fail
           ELSE /\ pending' = order
                /\ phase' = "emit"
                /\ UNCHANGED <<script, cache, proofs, closure, token, verifier>>

\* stmt_by_label and hyps_by_label; the syntax axioms by default
Templates ==
    [l \in AxiomLabels \cup DOMAIN closure |->
        IF l \in DOMAIN closure
        THEN [expr |-> closure[l].statement, hyps |-> HypsOf(closure[l])]
        ELSE [expr |-> (CHOOSE ax \in ToSet(script.axioms) : ax.label = l).expr, hyps |-> <<>>]]
    @@ SyntaxTemplates

EmitNext ==
    /\ phase = "emit" /\ pending # <<>>
    /\ LET lemma == closure[Head(pending)]
           made == UNION {EmitLemma(lemma, dv, Templates, Given, script.typecode, text) :
                             dv \in ActivePairs(lemma.name, lemma.dv, script.lemmaDv)}
       IN  \/ /\ made = {} /\ Fail
           \/ /\ text' \in made
              /\ pending' = Tail(pending)
              /\ UNCHANGED <<script, cache, proofs, phase, closure, token, reader>>

StartReading ==
    /\ phase = "emit" /\ pending = <<>>
    /\ phase' = "read"
    /\ UNCHANGED <<script, cache, proofs, closure, pending, token, verifier>>

-----------------------------------------------------------------------------
(* Verification *)

ReadStatement ==
    /\ phase = "read"
    /\ \/ V!OpenBlock \/ V!CloseBlock \/ V!EndOfText
       \/ V!ReadF \/ V!ReadE \/ V!ReadD \/ V!ReadA \/ V!ReadP
    /\ token' = 1
    /\ UNCHANGED <<script, cache, proofs, phase, closure, pending>>

ReadProof ==
    /\ phase = "read" /\ proving
    /\ IF token > Len(text[at].proof) THEN V!EndProof
       ELSE LET l == text[at].proof[token] IN V!PushHyp(l) \/ V!Apply(l) \/ V!Refuse(l)
    /\ token' = token + 1
    /\ UNCHANGED <<script, cache, proofs, phase, closure, pending>>

Next ==
    \/ Preload \/ RunFunction
    \/ WritePrelude \/ CloseLemmas \/ OrderLemmas \/ EmitNext
    \/ StartReading \/ ReadStatement \/ ReadProof

Spec == Init /\ [][Next]_vars

-----------------------------------------------------------------------------
(* What a proof needs *)

\* the steps that the emitted proof of a lemma goes through
UsedSteps(lemma) ==
    LET used[n \in 0 .. Len(lemma.steps)] ==
            IF n = 0 THEN {Root(lemma)}
            ELSE used[n - 1] \cup
                 UNION {ToSet(StepNamed(lemma, l).args) : l \in used[n - 1]}
    IN  {StepNamed(lemma, l) : l \in used[Len(lemma.steps)]}
Citations(lemma) == {st \in UsedSteps(lemma) : st.op = "ref"}

Proved == {closure[l] : l \in {k \in DOMAIN closure : ~IsRaw(closure[k])}}
Position(l) == CHOOSE n \in DOMAIN text : IsAssertion(text[n]) /\ text[n].label = l
FrameDv(l) == IF l \in LabelsOf(text) THEN MandatoryD(text, Position(l)) ELSE {}

\* the last step is something else than the statement
ProvesOther(lemma) == StepNamed(lemma, Root(lemma)).expr # lemma.statement
\* it cites a lemma that was emitted as an axiom, without its hypotheses
DropsHypotheses(lemma) ==
    \E st \in Citations(lemma) :
        st.ref \in DOMAIN closure /\ IsRaw(closure[st.ref]) /\ HypsOf(closure[st.ref]) # <<>>
\* what it substitutes for two variables is not apart, or it does not say so
Undeclared(lemma) ==
    \E st \in Citations(lemma) : \E subst \in RefSubst(lemma, st, Templates) :
        \E pair \in FrameDv(st.ref) : \E v, w \in pair :
            /\ v # w
            /\ \E x \in VarsIn(ToTokens(EmitCtx, subst[v])), y \in VarsIn(ToTokens(EmitCtx, subst[w])) :
                  x = y \/ {x, y} \notin ActiveD(text, Position(lemma.name))
\* two variables of a cited lemma have their $f in one order where it is proved
\* and not in that order where it is cited
FloatsDisagree(lemma) ==
    \E st \in Citations(lemma) :
        /\ st.ref \in LabelsOf(text)
        /\ \E v, w \in MandatoryVars(text, Position(st.ref)) :
              /\ FloatOf(text, v, Position(st.ref)) < FloatOf(text, w, Position(st.ref))
              /\ FloatOf(text, w, Position(lemma.name)) # 0
              /\ ~(FloatOf(text, v, Position(lemma.name)) \in 1 .. FloatOf(text, w, Position(lemma.name)))

-----------------------------------------------------------------------------
(* Properties *)

\* A unit whose lemmas prove what they state, from what they may cite, is
\* accepted by the verifier: the proofs the emitter writes, with the $f it adds on
\* the way, the order of the parts of a connective and of mandatory variables, are
\* the ones the verifier expects (emit_lowered_lemmas against MM.verify).
ProofsVerify ==
    verdict = "rejected" =>
        \E lemma \in Proved :
            \/ ProvesOther(lemma) \/ DropsHypotheses(lemma) \/ Undeclared(lemma)
            \/ FloatsDisagree(lemma)

\* What the proof-lowering document promises, without the reservation about the
\* order of $f: "Supported lowered proofs emit $p statements with real RPN proof
\* tokens" (projects/016_proof_lowering.md).
LoweredProofsVerify ==
    verdict = "rejected" =>
        \E lemma \in Proved : ProvesOther(lemma) \/ DropsHypotheses(lemma) \/ Undeclared(lemma)

\* The emission does not make up for a wrong lemma: one whose last step is not its
\* statement, or that hides a condition of what it cites, is not accepted.
WrongProofsFail ==
    verdict = "accepted" => \A lemma \in Proved : ~ProvesOther(lemma) /\ ~Undeclared(lemma)

\* emit_lowered_lemmas finds an order exactly if no lemmas that have proofs need
\* each other; a lemma with raw steps needs nothing.
OrderUnlessCircular ==
    phase = "closed" =>
        (Len(EmissionOrder(Dependencies, NameOrder)) = Cardinality(DOMAIN closure) <=>
            \A S \in (SUBSET DOMAIN closure) \ {{}} : \E l \in S : Dependencies[l] \cap S = {})

\* The registry validation and the emission agree: if the lemmas of the script and
\* of its catalogue are found valid, neither an unresolved name nor a circle stops
\* the emission of any part of them (validate.py: "intentionally independent").
Constructors ==
    [n \in DOMAIN proofs |-> [key |-> proofs[n].name, lemma |-> proofs[n]]]
        \o SetToSeq({[key |-> l, lemma |-> IF l \in DOMAIN cache THEN cache[l] ELSE <<>>] :
                        l \in DOMAIN script.catalog})
ValidMeansEmittable ==
    phase = "closed" /\ RegistryIssues(Constructors, AxiomLabels \cup Reserved, NameOrder) = {} =>
        /\ Unresolved = {}
        /\ Len(EmissionOrder(Dependencies, NameOrder)) = Cardinality(DOMAIN closure)

\* Unification of the statement of any lemma with any step finds a substitution
\* exactly if one exists among the subformulas of the step, and what it finds
\* gives the step back token by token (unify.py, parse and to_tokens included).
RECURSIVE Subtrees(_)
Subtrees(t) == {t} \cup UNION {Subtrees(t[3][n]) : n \in DOMAIN t[3]}
UnifyIsExact ==
    phase = "closed" =>
        \A l \in DOMAIN closure : \A st \in UNION {ToSet(closure[k].steps) : k \in DOMAIN closure} :
            \A one \in Parse(EmitCtx, closure[l].statement), other \in Parse(EmitCtx, st.expr) :
                LET fits(subst) == ToTokens(EmitCtx, ApplySubst(one, subst)) = st.expr
                IN  /\ \A subst \in UnifyAll({<<one, other>>}) : fits(subst)
                    /\ UnifyAll({<<one, other>>}) = {} =>
                          ~\E subst \in [VarsIn(closure[l].statement) -> Subtrees(other)] : fits(subst)

\* Arguments left out are found exactly if earlier steps can be the hypotheses of
\* the cited lemma, provided its conclusion mentions all their variables
\* (ProofBuilder._auto_match, match_hyps).
AutoMatchExact ==
    \A n \in DOMAIN proofs : \A m \in DOMAIN proofs[n].steps :
        LET st == proofs[n].steps[m]
            earlier == SubSeq(proofs[n].steps, 1, m - 1)
            sig == Signature(cache[st.ref])
            tree(toks) == CHOOSE t \in Parse(BuilderCtx, toks) : TRUE
            fits(args) ==
                UnifyAll({<<tree(sig.conclusion), tree(st.expr)>>} \cup
                         {<<tree(sig.hyps[k]), tree(earlier[args[k]].expr)>> : k \in DOMAIN args}) # {}
        IN  /\ st.op = "ref" /\ st.ref \in DOMAIN cache
            /\ \E k \in DOMAIN script.functions[n].calls :
                  LET call == script.functions[n].calls[k]
                  IN  call.op = "ref" /\ call.label = st.label /\ call.args = <<>>
            /\ \A toks \in {sig.conclusion, st.expr} \cup ToSet(sig.hyps) \cup {e.expr : e \in ToSet(earlier)} :
                  Parse(BuilderCtx, toks) # {}
            /\ UNION {VarsIn(toks) : toks \in ToSet(sig.hyps)} \subseteq VarsIn(sig.conclusion)
            /\ sig.hyps # <<>>
            => (st.args # <<>> <=> \E args \in [DOMAIN sig.hyps -> DOMAIN earlier] : fits(args))
=============================================================================
