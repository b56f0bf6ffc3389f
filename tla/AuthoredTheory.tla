----------------------------- MODULE AuthoredTheory -----------------------------
(***************************************************************************)
(* A theory from its proof bodies to the verifier: bodies call use() and   *)
(* qed() of a proof author (authoring/proof_author.py, theory.py), the     *)
(* emitter replays the finished proofs and writes the statements           *)
(* (metamath_emission.py), and the verifier (mmverify.py, module MMSound)  *)
(* reads them with the proofs that were written.  What a body calls is not *)
(* fixed: it may use any assertion on any of its steps, with any bounded   *)
(* substitution.                                                           *)
(***************************************************************************)
EXTENDS SemanticEmission

CONSTANTS
    Sequences,      \* the bindings: formations and assertions in an order
    ProofDistinct,  \* of a theorem: the conditions its proof declares
    TermsFor,       \* of a theorem: the terms its body may substitute
    MaxSteps,       \* bound: steps of a proof
    MaxTokens,      \* bound: tokens on the verifier's stack
    None            \* no proof

ASSUME AuthoredAssumption == \A l \in DOMAIN Signature : ValidSignature(Signature[l])

VARIABLES
    sequence, phase,
    todo,           \* the theorems that are not proved yet, in order
    proof,          \* the prefix of the first of them, if its body runs
    proofs, roots,  \* the finished proofs
    token,          \* the label of a proof that is read next
    text, at, fs, labels, proving, stack, strayed, verdict   \* the verifier's

verifier == <<text, at, fs, labels, proving, stack, strayed, verdict>>
authoring == <<sequence, todo, proof, proofs, roots>>
authored == <<authoring, phase, token, verifier>>

V == INSTANCE MMSound WITH Consts <- {}, Labels <- {}, Texts <- {}

Cited == {entry \in ToSet(sequence) : entry \in DOMAIN Signature}

AuthoredInit ==
    /\ sequence \in Sequences
    /\ todo = SelectSeq(sequence, LAMBDA entry : entry \in DOMAIN Signature
                                                 /\ Signature[entry].kind = "theorem")
    /\ phase = "prove" /\ proof = None
    /\ proofs = [l \in Cited |-> None] /\ roots = [l \in Cited |-> 0]
    /\ token = 1
    /\ text = <<>> /\ at = 1 /\ fs = <<V!EmptyFrame>> /\ labels = [l \in {} |-> {}]
    /\ proving = FALSE /\ stack = <<>> /\ strayed = FALSE /\ verdict = "reading"

-----------------------------------------------------------------------------
(* Proof bodies *)

Fail ==
    /\ phase' = "failed"
    /\ UNCHANGED <<authoring, token, verifier>>

\* _elaborate: the author of the next theorem, with the conditions in force
Begin ==
    /\ phase = "prove" /\ proof = None /\ todo # <<>>
    /\ LET a == Signature[Head(todo)]
           prefix == Prefix(a, a.distinct \cup ProofDistinct[a.label])
       IN  IF ValidPrefix(prefix)
           THEN /\ proof' = prefix
                /\ UNCHANGED <<sequence, todo, proofs, roots, phase, token, verifier>>
           ELSE Fail

InBody == phase = "prove" /\ proof # None

\* the variables of a that its premises do not determine
Undetermined(a) == ToSet(a.vars) \ VariablesIn(ToSet(a.premises))
Explicit(a) == UNION {[vs -> TermsFor[proof.of.label]] : vs \in SUBSET Undetermined(a)}

\* proof.use(assertion, *premises, target=, subst=)
Use(a, premises, target, explicit) ==
    /\ InBody /\ Len(proof.steps) < MaxSteps
    /\ LET made == ApplyAssertion(proof, a, premises, target, explicit)
       IN  IF made = {} THEN Fail
           ELSE \E step \in made :
                    /\ proof' = [proof EXCEPT !.steps = Append(@, step)]
                    /\ UNCHANGED <<sequence, todo, proofs, roots, phase, token, verifier>>

\* proof.qed(root)
Qed(root) ==
    /\ InBody
    /\ IF Completes(proof, root)
       THEN /\ proofs' = [proofs EXCEPT ![proof.of.label] = proof]
            /\ roots' = [roots EXCEPT ![proof.of.label] = root]
            /\ todo' = Tail(todo) /\ proof' = None
            /\ UNCHANGED <<sequence, phase, token, verifier>>
       ELSE Fail

-----------------------------------------------------------------------------
(* Emission and verification *)

Emit ==
    /\ phase = "prove" /\ todo = <<>>
    /\ IF Emittable(sequence, proofs)
       THEN /\ phase' = "read"
            /\ text' = EmitTheory(sequence, proofs, roots)
            /\ UNCHANGED <<authoring, token, at, fs, labels, proving, stack, strayed, verdict>>
       ELSE Fail

ReadStatement ==
    /\ phase = "read"
    /\ \/ V!OpenBlock \/ V!CloseBlock \/ V!EndOfText
       \/ V!ReadF \/ V!ReadE \/ V!ReadD \/ V!ReadA \/ V!ReadP
    /\ token' = 1
    /\ UNCHANGED <<authoring, phase>>

\* verify(): the labels that were written, one by one
ReadProof ==
    /\ phase = "read" /\ proving
    /\ IF token > Len(text[at].proof) THEN V!EndProof
       ELSE LET l == text[at].proof[token] IN V!PushHyp(l) \/ V!Apply(l) \/ V!Refuse(l)
    /\ token' = token + 1
    /\ UNCHANGED <<authoring, phase>>

AuthoredNext ==
    \/ Begin
    \/ /\ InBody
       /\ \E l \in Cited : \E premises \in [DOMAIN Signature[l].premises -> Known(proof)] :
             \E target \in {{}, {proof.of.conclusion}}, explicit \in Explicit(Signature[l]) :
                Use(Signature[l], premises, target, explicit)
    \/ InBody /\ \E root \in Known(proof) : Qed(root)
    \/ Emit
    \/ ReadStatement
    \/ ReadProof

AuthoredSpec == AuthoredInit /\ [][AuthoredNext]_authored

-----------------------------------------------------------------------------
(* Properties *)

Place(entry) == CHOOSE n \in DOMAIN sequence : sequence[n] = entry

RECURSIVE constructors(_)
constructors(t) == IF IsVar(t) THEN {} ELSE {t[1]} \cup UNION {constructors(arg) : arg \in ToSet(Args(t))}

\* what a proof refers to: the assertions of its steps, the syntax of their terms
RefersTo(p) ==
    UNION {{p.steps[n].cites} \cup UNION {constructors(p.steps[n].subst[v]) :
                                             v \in DOMAIN p.steps[n].subst} :
              n \in DOMAIN p.steps}

\* The verifier rejects an emitted theory exactly if some theorem refers to
\* something that does not stand before it: nothing else the emitter computes
\* (names and order of $f, dummies, conditions, labels, the order in which terms
\* are pushed) can go wrong for a proof the author completed.  The emitter does
\* not look at the order; circular proofs stop here.
Accepted ==
    LET late == \E l \in Cited : proofs[l] # None
                    /\ \E other \in RefersTo(proofs[l]) : Place(other) >= Place(l)
    IN  verdict # "reading" => (verdict = "rejected" <=> late)

\* What the verifier takes an emitted assertion for is its signature: the same
\* variables in the order in which a use pushes them, the same premises, the same
\* conditions; those of dummies stay inside.
FrameIsSignature ==
    \A l \in Cited \cap DOMAIN labels :
        LET a == Signature[l]
            frame == labels[l]
        IN  /\ [n \in DOMAIN frame.f |-> <<frame.f[n].tc, frame.f[n].var>>]
                 = [n \in DOMAIN CallOrder(a) |->
                       <<Typecode[SortOf[CallOrder(a)[n]]], NameOf[CallOrder(a)[n]]>>]
            /\ [n \in DOMAIN frame.e |-> frame.e[n].expr]
                 = [n \in DOMAIN a.premises |-> Emitted(a.premises[n])]
            /\ frame.d = {{NameOf[v] : v \in pair} : pair \in a.distinct}

\* the meaning of an assertion, its variables by their own names
Means(t, mean) == V!Meaning(Lower(t, [v \in Variables |-> v]), mean) = V!Wff(V!Envs)
True(a) ==
    \A mean \in {m \in [ToSet(a.vars) -> V!Meanings.wff \cup V!Meanings.setvar] :
                    \A v \in ToSet(a.vars) : m[v] \in V!Meanings[Typecode[SortOf[v]]]} :
        /\ \A pair \in a.distinct : \A x, y \in pair :
              x # y => V!DependsOn(mean[x]) \cap V!DependsOn(mean[y]) = {}
        /\ \A n \in DOMAIN a.premises : Means(a.premises[n], mean)
        => Means(a.conclusion, mean)

\* A theorem that qed() lets pass is true if what it cites is, whatever its body
\* calls: dummies, substitutions and distinct-variable conditions included.
AuthorTrue ==
    \A l \in Cited : proofs[l] # None =>
        LET cited == {proofs[l].steps[n].cites : n \in DOMAIN proofs[l].steps}
        IN  (\A other \in cited : True(Signature[other])) => True(Signature[l])
=============================================================================
