--------------------------------- MODULE Theory ---------------------------------
(***************************************************************************)
(* Theories (skfd/authoring/theory.py) and what happens to them until they *)
(* are published.  A module of source text (a shard) declares assertions   *)
(* and attaches proof bodies when it is imported.  A body is not run then: *)
(* it runs when the implementation of its theorem is first asked for, it   *)
(* may import further shards and ask for other implementations, and it     *)
(* cites assertions of the registry as it is at that moment.  What a step  *)
(* keeps of the assertion is its identifier.  The emitter walks a theory   *)
(* in order, looks the identifiers up again in a catalogue of its own, and *)
(* the verifier reads what was emitted.                                    *)
(*                                                                         *)
(* What a step yields is abstract here (module Logic).  That the texts the *)
(* verifier passes are derivations is stated by module Derivation.         *)
(***************************************************************************)
EXTENDS Logic, Subsequences, SequencesExt

CONSTANTS
    Theories,
    Upstreams,     \* Theory._upstreams
    Chain,         \* t and all its upstreams, in the order identifiers are looked up in
    Merge,         \* the same, in the order the emitter's catalogue is put together in
    DeclOrder,     \* declaration_order of a theory, <<>> for none
    Home, LabelOf, IdOf,
    Shards,
    Programs,      \* which of the shards a program has
    Text,          \* the statements of a shard: declare d, prove d
    Body,          \* the instructions of a proof body: import, read, use, qed
    Sequence,      \* the assertions of a theory's emission binding, in order
    NoProof,
    MaxFrames      \* bound: the nested proof bodies at which the interpreter gives up

Instances(s, js) == [n \in DOMAIN js |-> s[js[n]]]

Ids == {IdOf[d] : d \in Decls}
Steps == [assertion : Ids, premises : Seq(Nat), subst : Substs, result : Judgments]
\* a step of an emitted proof has the label of one assertion
Lines == [cites : Decls, premises : Seq(Nat), subst : Substs, result : Judgments]
Statements == [op : {"declare", "prove"}, of : Decls]
Instructions ==
    [op : {"import"}, shard : Shards] \cup [op : {"read"}, of : Decls] \cup
    [op : {"use"}, by : {"handle", "id"}, cites : Decls, premises : Seq(Nat), subst : Substs] \cup
    [op : {"qed"}, root : Nat]

ASSUME TheoryAssumption ==
    /\ MaxFrames \in Nat
    /\ DeclOrder \in [Theories -> Seq(Decls)] /\ Sequence \in [Theories -> Seq(Decls)]
    /\ Upstreams \in [Theories -> Seq(Theories)]
    /\ Chain \in [Theories -> Seq(Theories)] /\ Merge \in [Theories -> Seq(Theories)]
    \* a theory comes first and then each upstream with its own, or last
    /\ \A t \in Theories :
          /\ Chain[t] # <<>> /\ Chain[t][1] = t
          /\ Tail(Chain[t]) = FlattenSeq([n \in DOMAIN Upstreams[t] |-> Chain[Upstreams[t][n]]])
          /\ Merge[t] = Append(FlattenSeq([n \in DOMAIN Upstreams[t] |-> Merge[Upstreams[t][n]]]), t)
    /\ Home \in [Decls -> Theories]
    /\ Programs \subseteq SUBSET Shards
    /\ Text \in [Shards -> Seq(Statements)] /\ Body \in [Decls -> Seq(Instructions)]
    /\ NoProof \notin Seq(Steps) \cup Seq(Lines)

VARIABLES
    source,      \* the shards of the program
    handles,     \* Theory._handles and _by_id: registered assertions, in order
    bodies,      \* the theorems with a proof body
    impl,        \* AssertionHandle._implementation: the steps of the proof
    loaded,      \* the shards imported (sys.modules)
    importing,   \* the shard whose import is running, and how far it is
    frames,      \* the proof bodies that are running, outermost first
    call,        \* what the program called
    outcome,     \* how the last call ended
    report,      \* the last report of verify_all
    published,   \* the assertions emitted, for each theory
    emitted,     \* the proof with which a theorem was emitted
    checked      \* how many of them the verifier has passed

registry == <<source, handles, bodies, loaded>>
vars == <<source, handles, bodies, impl, loaded, importing, frames, call, outcome,
          report, published, emitted, checked>>

NoImport == [shard |-> "none", next |-> 0]
NoCall == [op |-> "none"]
NoReport == [of |-> "none", entries |-> <<>>]

Init ==
    /\ source \in Programs
    /\ handles = [t \in Theories |-> <<>>]
    /\ bodies = {}
    /\ impl = [d \in Decls |-> NoProof]
    /\ loaded = {}
    /\ importing = NoImport
    /\ frames = <<>>
    /\ call = NoCall
    /\ outcome = "none"
    /\ report = NoReport
    /\ published = [t \in Theories |-> <<>>]
    /\ emitted = [d \in Decls |-> NoProof]
    /\ checked = [t \in Theories |-> 0]

-----------------------------------------------------------------------------
(* The registry *)

Registered(t) == ToSet(handles[t])
\* what a theory sees: its own assertions and those of its upstreams
Visible(t) == UNION {Registered(u) : u \in ToSet(Chain[t])}

\* _signature_for: what an identifier stands for in t, in its own registry or else in
\* the first upstream that has it
Finds(t, id, e) ==
    \E n \in DOMAIN Chain[t] :
        /\ e \in Registered(Chain[t][n]) /\ IdOf[e] = id
        /\ \A m \in 1 .. n - 1 : \A f \in Registered(Chain[t][m]) : IdOf[f] # id

\* Theory.assertions
Listed(t) ==
    IF DeclOrder[t] = <<>> THEN handles[t]
    ELSE At(DeclOrder[t], {n \in DOMAIN DeclOrder[t] : DeclOrder[t][n] \in Registered(t)})

Complete(t) == DeclOrder[t] = <<>> \/ Len(handles[t]) = Len(DeclOrder[t])

\* (variant: an identifier is looked up in the own registry only)
NewAssertion_OwnIds(d) ==
    /\ \A e \in Visible(Home[d]) : LabelOf[e] # LabelOf[d]
    /\ \A e \in Registered(Home[d]) : IdOf[e] # IdOf[d]
    /\ DeclOrder[Home[d]] = <<>> \/ d \in ToSet(DeclOrder[Home[d]])
\* _new_assertion_id: neither label nor identifier is in use here or upstream.  (What
\* theories elsewhere have registered, or an upstream registers later, is not looked
\* at: assertion_id= may give an assertion any identifier.)
NewAssertion(d) ==
    /\ \A e \in Visible(Home[d]) : LabelOf[e] # LabelOf[d] /\ IdOf[e] # IdOf[d]
    /\ DeclOrder[Home[d]] = <<>> \/ d \in ToSet(DeclOrder[Home[d]])

-----------------------------------------------------------------------------
(* Calls and exceptions *)

Idle == call.op = "none"
Entry(d, ok) == [of |-> d, ok |-> ok]

Returned ==
    /\ call' = NoCall /\ outcome' = "returned"

\* (variant: a failing entry is tried again)
Counted_Again(c) == c
\* verify_all reports an authoring error and goes on
Counted(c) ==
    [c EXCEPT !.next = @ + 1, !.entries = Append(@, Entry(Listed(c.of)[c.next], FALSE))]

\* An exception leaves all bodies and the import that are running.  Only
\* verify_all catches it, if it is an AuthoringSemanticError and was raised by
\* an implementation.
Raise(error) ==
    /\ importing' = NoImport /\ frames' = <<>>
    /\ IF call.op = "verify" /\ error = "AuthoringSemanticError"
       THEN call' = Counted(call) /\ UNCHANGED outcome
       ELSE call' = NoCall /\ outcome' = error
    /\ UNCHANGED <<registry, impl, report, published, emitted, checked>>

-----------------------------------------------------------------------------
(* Importing a shard *)

StartImport(s) ==
    /\ importing' = [shard |-> s, next |-> 1]
    /\ UNCHANGED <<registry, impl, frames, outcome, report, published, emitted, checked>>

ImportShard(s) ==
    /\ Idle /\ s \in source \ loaded
    /\ call' = [op |-> "import"]
    /\ StartImport(s)

Statement(op) ==
    /\ importing # NoImport
    /\ importing.next <= Len(Text[importing.shard])
    /\ Text[importing.shard][importing.next].op = op

StatementDone ==
    /\ importing' = [importing EXCEPT !.next = @ + 1]
    /\ UNCHANGED <<source, impl, loaded, frames, call, outcome, report, published, emitted, checked>>

\* theorem(), axiom(), definition(), primitive_rule()
Declare ==
    /\ Statement("declare")
    /\ LET d == Text[importing.shard][importing.next].of
       IN  IF NewAssertion(d)
           THEN /\ handles' = [handles EXCEPT ![Home[d]] = Append(@, d)]
                /\ StatementDone /\ UNCHANGED bodies
           ELSE Raise("AuthoringSemanticError")

AcceptsBody(d) == KindOf[d] = "theorem" /\ d \notin bodies

\* AssertionHandle.proof registers the body, it does not run it
Prove ==
    /\ Statement("prove")
    /\ LET d == Text[importing.shard][importing.next].of
       IN  IF AcceptsBody(d)
           THEN /\ bodies' = bodies \cup {d}
                /\ StatementDone /\ UNCHANGED handles
           ELSE Raise("AuthoringSemanticError")

NextInstruction == [frames EXCEPT ![Len(frames)].next = @ + 1]

ImportEnds ==
    /\ importing # NoImport
    /\ importing.next > Len(Text[importing.shard])
    /\ loaded' = loaded \cup {importing.shard}
    /\ importing' = NoImport
    /\ IF frames = <<>> THEN Returned /\ UNCHANGED frames
       ELSE frames' = NextInstruction /\ UNCHANGED <<call, outcome>>
    /\ UNCHANGED <<source, handles, bodies, impl, report, published, emitted, checked>>

-----------------------------------------------------------------------------
(* Running a proof body *)

Frame(d) == [of |-> d, next |-> 1, steps |-> <<>>]
Running == importing = NoImport /\ frames # <<>>
Top == Last(frames)
Reached == Top.next <= Len(Body[Top.of])
Instruction == Body[Top.of][Top.next]

\* implementation, of a theorem whose proof is not cached: _elaborate
Elaborate(d) ==
    IF d \notin bodies THEN Raise("AuthoringSemanticError")
    ELSE IF Len(frames) >= MaxFrames THEN Raise("RecursionError")
    ELSE /\ frames' = Append(frames, Frame(d))
         /\ UNCHANGED <<registry, impl, importing, call, outcome, report, published, emitted, checked>>

GoOn ==
    /\ frames' = NextInstruction
    /\ UNCHANGED <<registry, impl, importing, call, outcome, report, published, emitted, checked>>

\* a function-local import
ImportLocally ==
    /\ Running /\ Reached /\ Instruction.op = "import"
    /\ IF Instruction.shard \in loaded THEN GoOn
       ELSE StartImport(Instruction.shard) /\ UNCHANGED call

\* the body asks for the implementation of another theorem
ReadInBody ==
    /\ Running /\ Reached /\ Instruction.op = "read"
    /\ IF impl[Instruction.of] # NoProof THEN GoOn ELSE Elaborate(Instruction.of)

\* the judgment at a position of a proof: hypotheses come first
ResultAt(d, steps, n) ==
    IF n <= Len(Premises[d]) THEN Premises[d][n] ELSE steps[n - Len(Premises[d])].result

Positions(d, steps) == 1 .. Len(Premises[d]) + Len(steps)

\* what AssertionSignature compares
Signature(e) ==
    <<IdOf[e], LabelOf[e], KindOf[e], Premises[e], Conclusion[e], [c \in Contexts |-> Allowed[c][e]]>>

\* _resolve: an identifier stands for what it is found to be; a handle must have the
\* signature that is found
Resolves(t, i, e) ==
    /\ Finds(t, IdOf[i.cites], e)
    /\ i.by = "handle" => Signature(e) = Signature(i.cites)

\* _apply_assertion_step, of assertion e in a proof of d: it is not the theorem
\* itself, the steps are of this proof, they match the premises and the substitution
\* is allowed.
Applies(d, steps, e, i) ==
    /\ IdOf[e] # IdOf[d]
    /\ \A n \in DOMAIN i.premises : i.premises[n] \in Positions(d, steps)
    /\ i.subst \in Allowed[d][e]
    /\ [n \in DOMAIN i.premises |-> ResultAt(d, steps, i.premises[n])]
          = Instances(i.subst, Premises[e])

\* the step, which keeps the identifier of e
Step(e, i) ==
    [assertion |-> IdOf[e], premises |-> i.premises, subst |-> i.subst,
     result |-> i.subst[Conclusion[e]]]

WithStep(e) == [frames EXCEPT ![Len(frames)] =
    [of |-> Top.of, next |-> Top.next + 1, steps |-> Append(Top.steps, Step(e, Instruction))]]

Usable(e) ==
    Resolves(Home[Top.of], Instruction, e) /\ Applies(Top.of, Top.steps, e, Instruction)

\* TheoryProofAuthor.use
Use ==
    /\ Running /\ Reached /\ Instruction.op = "use"
    /\ \/ \E e \in Decls :
             /\ Usable(e) /\ frames' = WithStep(e)
             /\ UNCHANGED <<registry, impl, importing, call, outcome,
                            report, published, emitted, checked>>
       \/ (\A e \in Decls : ~Usable(e)) /\ Raise("AuthoringSemanticError")

\* _validate_complete_proof: the root proves the conclusion and every step is
\* used by a later one or is the root
Concludes(d, steps, root) ==
    /\ root \in Positions(d, steps)
    /\ ResultAt(d, steps, root) = Conclusion[d]
    /\ \A n \in DOMAIN steps : LET at == Len(Premises[d]) + n IN
          at = root \/ \E m \in n + 1 .. Len(steps) : at \in ToSet(steps[m].premises)

WithoutTop == [Front(frames) EXCEPT ![Len(frames) - 1].next = @ + 1]

\* TheoryProofAuthor.qed: the body returns a CompleteProof, which is cached
Qed ==
    /\ Running /\ Reached /\ Instruction.op = "qed"
    /\ IF Concludes(Top.of, Top.steps, Instruction.root)
       THEN /\ impl' = [impl EXCEPT ![Top.of] = Top.steps]
            /\ IF Len(frames) = 1
               THEN /\ frames' = <<>>
                    /\ IF call.op = "read" THEN Returned ELSE UNCHANGED <<call, outcome>>
               ELSE /\ frames' = WithoutTop
                    /\ UNCHANGED <<call, outcome>>
            /\ UNCHANGED <<registry, importing, report, published, emitted, checked>>
       ELSE Raise("AuthoringSemanticError")

\* the body returns something else than the value of qed
BodyEnds ==
    /\ Running /\ ~Reached
    /\ Raise("AuthoringSemanticError")

-----------------------------------------------------------------------------
(* The calls that elaborate *)

Fail ==
    /\ outcome' = "AuthoringSemanticError"
    /\ UNCHANGED <<registry, impl, importing, frames, call, report, published, emitted, checked>>

\* a program reads handle.implementation
ReadImplementation(d) ==
    /\ Idle /\ d \in Registered(Home[d]) /\ impl[d] = NoProof
    /\ IF d \in bodies
       THEN /\ call' = [op |-> "read"] /\ frames' = <<Frame(d)>>
            /\ UNCHANGED <<registry, impl, importing, outcome, report, published, emitted, checked>>
       ELSE Fail

VerifyAll(t) ==
    /\ Idle
    /\ IF Complete(t)
       THEN /\ call' = [op |-> "verify", of |-> t, next |-> 1, size |-> Len(handles[t]),
                        entries |-> <<>>]
            /\ UNCHANGED <<registry, impl, importing, frames, outcome, report, published, emitted, checked>>
       ELSE Fail

\* between two entries of verify_all or of the emitter
Between(op) == call.op = op /\ importing = NoImport /\ frames = <<>>

\* (variant: verify_all walks a copy of the list it started with)
MovedUnder_Copy == FALSE
\* the dictionary has grown since the iteration began
MovedUnder == DeclOrder[call.of] = <<>> /\ Len(handles[call.of]) # call.size

DictionaryChanged ==
    /\ Between("verify") /\ MovedUnder
    /\ Raise("RuntimeError")

\* a theorem whose proof is not cached is elaborated first
VerifyNext ==
    /\ Between("verify") /\ ~MovedUnder
    /\ call.next <= call.size
    /\ LET d == Listed(call.of)[call.next]
       IN  IF KindOf[d] = "theorem" /\ impl[d] = NoProof THEN Elaborate(d)
           ELSE /\ call' = [call EXCEPT !.next = @ + 1, !.entries = Append(@, Entry(d, TRUE))]
                /\ UNCHANGED <<registry, impl, importing, frames, outcome,
                               report, published, emitted, checked>>

VerifyReturns ==
    /\ Between("verify") /\ ~MovedUnder
    /\ call.next > call.size
    /\ report' = [of |-> call.of, entries |-> call.entries]
    /\ Returned
    /\ UNCHANGED <<registry, impl, importing, frames, published, emitted, checked>>

-----------------------------------------------------------------------------
(* Emission (metamath_emission.py) and verification of the text *)

Upstream(t) == Tail(Chain[t])
IsPublished(t) == published[t] # <<>>

\* _all_handles: the assertion that each label stands for, an upstream before the
\* upstreams that come after it and before the theory itself
LaterIn(seq, u, v) ==
    \A n \in DOMAIN seq : seq[n] = v => \E m \in DOMAIN seq : m >= n /\ seq[m] = u
Handles(t) ==
    {d \in Visible(t) : \A e \in Visible(t) :
        LabelOf[e] = LabelOf[d] => LaterIn(Merge[t], Home[d], Home[e])}

\* two upstreams of one theory have a label for different identifiers
Conflicting(t) ==
    \E u \in ToSet(Chain[t]) : \E m, n \in DOMAIN Upstreams[u] :
        \E d \in Handles(Upstreams[u][m]), e \in Handles(Upstreams[u][n]) :
            LabelOf[d] = LabelOf[e] /\ IdOf[d] # IdOf[e]

\* Upstream theories are built first.
StartEmission(t) ==
    /\ Idle /\ ~IsPublished(t) /\ handles[t] # <<>>
    /\ \A u \in ToSet(Upstream(t)) : IsPublished(u)
    /\ IF Listed(t) = Sequence[t] /\ ~Conflicting(t)
       THEN /\ call' = [op |-> "emit", of |-> t, next |-> 1, sequence |-> Sequence[t],
                        catalog |-> Handles(t)]
            /\ UNCHANGED <<registry, impl, importing, frames, outcome,
                           report, published, emitted, checked>>
       ELSE Fail

\* e makes step n of a proof what it is
Justifies(e, d, steps, n) ==
    /\ IdOf[e] = steps[n].assertion
    /\ Applies(d, SubSeq(steps, 1, n - 1), e, steps[n])
    /\ steps[n].result = steps[n].subst[Conclusion[e]]

\* an assertion of an upstream must have been exported (the program that emits maps
\* each exported label to the assertion that the catalogue has for it)
Labelled(e) == Home[e] = call.of \/ e \in ToSet(published[Home[e]])

\* (variant: the steps of a proof that was checked are not checked again)
Replayable_Trusted(d) ==
    \A n \in DOMAIN impl[d] : \E e \in call.catalog :
        IdOf[e] = impl[d][n].assertion /\ Labelled(e)
\* replay_proof, _proof_binding and _assertion_label: each step again, by a catalogue
\* of the assertions there were when the emission began, which has each identifier
\* once
Replayable(d) ==
    /\ \A e, f \in call.catalog : IdOf[e] = IdOf[f] => e = f
    /\ \A n \in DOMAIN impl[d] : \E e \in call.catalog :
          Justifies(e, d, impl[d], n) /\ Labelled(e)

\* the proof in the text: each identifier is the label of what the catalogue has
InCatalog(id) == CHOOSE e \in call.catalog : IdOf[e] = id
Lowered(steps) ==
    [n \in DOMAIN steps |->
        [cites |-> InCatalog(steps[n].assertion), premises |-> steps[n].premises,
         subst |-> steps[n].subst, result |-> steps[n].result]]

EmitNext ==
    /\ Between("emit")
    /\ call.next <= Len(call.sequence)
    /\ LET d == call.sequence[call.next]
       IN  IF KindOf[d] # "theorem" \/ (impl[d] # NoProof /\ Replayable(d))
           THEN /\ call' = [call EXCEPT !.next = @ + 1]
                /\ emitted' = IF KindOf[d] # "theorem" THEN emitted
                              ELSE [emitted EXCEPT ![d] = Lowered(impl[d])]
                /\ UNCHANGED <<registry, impl, importing, frames, outcome,
                               report, published, checked>>
           ELSE IF impl[d] = NoProof THEN Elaborate(d)
           ELSE Raise("AuthoringSemanticError")

EmissionEnds ==
    /\ Between("emit")
    /\ call.next > Len(call.sequence)
    /\ published' = [published EXCEPT ![call.of] = call.sequence]
    /\ Returned
    /\ UNCHANGED <<registry, impl, importing, frames, report, emitted, checked>>

PassedIn(t) == {published[t][n] : n \in 1 .. checked[t]}
Passed == UNION {PassedIn(t) : t \in Theories}

\* (variant: the verifier knows the labels of the whole text)
Known_WholeText(t) == ToSet(published[t]) \cup UNION {PassedIn(u) : u \in ToSet(Upstream(t))}
\* the labels that the verifier has met in the linked text
Known(t) == PassedIn(t) \cup UNION {PassedIn(u) : u \in ToSet(Upstream(t))}

\* MM.read of the next assertion; a text that is refused is not read on
Check(t) ==
    /\ IsPublished(t) /\ checked[t] < Len(published[t])
    /\ \A u \in ToSet(Upstream(t)) : checked[u] = Len(published[u])
    /\ LET d == published[t][checked[t] + 1]
       IN  KindOf[d] = "theorem" => \A n \in DOMAIN emitted[d] : emitted[d][n].cites \in Known(t)
    /\ checked' = [checked EXCEPT ![t] = @ + 1]
    /\ UNCHANGED <<registry, impl, importing, frames, call, outcome, report, published, emitted>>

-----------------------------------------------------------------------------

\* what goes on by itself once something was called
Work ==
    \/ Declare \/ Prove \/ ImportEnds
    \/ ImportLocally \/ ReadInBody \/ Use \/ Qed \/ BodyEnds
    \/ DictionaryChanged \/ VerifyNext \/ VerifyReturns
    \/ EmitNext \/ EmissionEnds

Next ==
    \/ \E s \in source : ImportShard(s)
    \/ \E d \in Decls : ReadImplementation(d)
    \/ \E t \in Theories : VerifyAll(t) \/ StartEmission(t) \/ Check(t)
    \/ Work

Spec == Init /\ [][Next]_vars
\* Python runs what was called
FairSpec == Spec /\ WF_vars(Work)
-----------------------------------------------------------------------------
(* Properties *)

\* Every variable stays in its range; what is registered was registered once,
\* under its own theory.
TypeOK ==
    /\ source \in Programs
    /\ handles \in [Theories -> Seq(Decls)]
    /\ \A t \in Theories : \A m, n \in DOMAIN handles[t] :
          Home[handles[t][n]] = t /\ (handles[t][m] = handles[t][n] => m = n)
    /\ bodies \subseteq {d \in Decls : KindOf[d] = "theorem"}
    /\ impl \in [Decls -> Seq(Steps) \cup {NoProof}]
    /\ loaded \subseteq Shards
    /\ importing = NoImport \/ importing \in [shard : Shards, next : Nat \ {0}]
    /\ frames \in Seq([of : Decls, next : Nat \ {0}, steps : Seq(Steps)])
    /\ published \in [Theories -> Seq(Decls)]
    /\ emitted \in [Decls -> Seq(Lines) \cup {NoProof}]
    /\ checked \in [Theories -> Nat]
    /\ \A t \in Theories : checked[t] <= Len(published[t])

\* For each step of a proof of d there is an assertion in view that makes it what it
\* is, and its identifier stands for this assertion, or for one of a theory that does
\* not see the assertion.
Stands(d, steps) ==
    \A n \in DOMAIN steps : \E e \in Visible(Home[d]) :
        /\ Justifies(e, d, steps, n)
        /\ \A f \in Decls : Finds(Home[d], steps[n].assertion, f) =>
              f = e \/ Home[e] \notin ToSet(Chain[Home[f]])

\* A proof that was built against the registry of its day stands in the registry
\* of any later one.  Steps keep identifiers, the cache is never cleared, and the
\* registries go on growing, in theories further up too: still, whatever was
\* imported in between, the identifiers of a cached proof mean what they did and
\* each step can be replayed with it; and the proof ends with the conclusion.  The
\* exception is an identifier that is also taken, before or after, by an upstream
\* which does not see the assertion cited, as two upstreams beside each other may;
\* ImplementsDerivation says that this does no harm.
ProofsStand ==
    /\ \A d \in Decls : impl[d] # NoProof =>
          /\ Stands(d, impl[d])
          /\ \E root \in Positions(d, impl[d]) : Concludes(d, impl[d], root)
    /\ \A n \in DOMAIN frames : Stands(frames[n].of, frames[n].steps)

\* What passed the verifier is a derivation (module Derivation): each theorem
\* follows, in its own context, from assertions that passed before it.  Neither
\* the lazy order of elaboration, nor proofs that cite each other, nor a registry
\* that changes while proofs run, nor identifiers and labels that several upstreams
\* have lets anything else through (theory.py, replay.py, metamath_emission.py).
Publication == INSTANCE Derivation WITH accepted <- Passed
ImplementsDerivation == Publication!Spec

\* What passed follows from the axioms and rules that passed: in each model of
\* these every theorem is true.
Sound == Follow(Passed)

\* When verify_all returns, its report has one entry for each assertion that is
\* registered at that time, in the order of the view.  An axiom, a definition or
\* a rule is in order; a theorem only if it has a proof.  (A theorem that failed
\* may have one by then, when a later body asked for it again.)
ReportCovers ==
    [][report' # report =>
          LET entries == report'.entries
          IN  /\ [n \in DOMAIN entries |-> entries[n].of] = Listed(report'.of)
              /\ \A n \in DOMAIN entries :
                    IF KindOf[entries[n].of] = "theorem"
                    THEN entries[n].ok => impl[entries[n].of] # NoProof
                    ELSE entries[n].ok]_vars

\* Every call comes to an end.
Returns == call.op # "none" ~> call.op = "none"
=============================================================================
