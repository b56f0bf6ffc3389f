-------------------------------- MODULE MMVerify --------------------------------
(***************************************************************************)
(* The verifier, class MM (skfd/verifier/mmverify.py).  It reads the       *)
(* emitted statement stream once, with a stack of frames for the open      *)
(* blocks and a dictionary of all labels met, and checks the proof of a $p *)
(* label by label on a stack of statements.  The proof of a $p of the text *)
(* is not fixed here: at each step it may name any label, so that one run  *)
(* covers every proof within the bounds.  (Emitted proofs are not          *)
(* compressed: decompress_proof is left out.)                              *)
(***************************************************************************)
EXTENDS Lir, SequencesExt

CONSTANTS
    Consts, Labels,
    Texts,                 \* the statement streams that are read
    MaxTokens              \* bound: tokens on the proof stack

ASSUME VerifierAssumption ==
    /\ MaxTokens \in Nat
    /\ \A t \in Texts : t \in Seq(ToSet(t)) /\ LabelsDistinct(t)

VARIABLES
    text,      \* the stream
    at,        \* the statement that is read next
    fs,        \* FrameStack: $f, $e and $d of each open block
    labels,    \* MM.labels
    proving,   \* the statement is a $p whose proof is being checked
    stack,     \* verify(): the proof stack
    strayed,   \* history: a proof cited a hypothesis of a block already closed
    verdict

vars == <<text, at, fs, labels, proving, stack, strayed, verdict>>

EmptyFrame == [f |-> <<>>, e |-> <<>>, d |-> {}]
Stat(st) == <<st.tc>> \o (IF st.op = "f" THEN <<st.var>> ELSE st.expr)

Init ==
    /\ text \in Texts
    /\ at = 1
    /\ fs = <<EmptyFrame>>
    /\ labels = [l \in {} |-> {}]
    /\ proving = FALSE /\ stack = <<>> /\ strayed = FALSE
    /\ verdict = "reading"

-----------------------------------------------------------------------------
(* Reading *)

Reading(op) ==
    /\ verdict = "reading" /\ ~proving
    /\ at <= Len(text) /\ text[at].op = op

Reject ==
    /\ verdict' = "rejected"
    /\ UNCHANGED <<text, at, fs, labels, proving, stack, strayed>>

\* the statement is done, with the frame stack frames and the dictionary dict
Proceed(frames, dict) ==
    /\ fs' = frames /\ labels' = dict
    /\ at' = at + 1
    /\ UNCHANGED <<text, strayed, verdict>>

InTop(frame) == [fs EXCEPT ![Len(fs)] = frame]
With(l, entry) == [k \in DOMAIN labels \cup {l} |-> IF k = l THEN entry ELSE labels[k]]

OpenBlock ==
    /\ Reading("enter")
    /\ Proceed(Append(fs, EmptyFrame), labels)
    /\ UNCHANGED <<proving, stack>>

Closed == Front(fs)

\* read() of the block returns; at top level it returns to the main program,
\* which is content
CloseBlock ==
    /\ Reading("exit")
    /\ IF Len(fs) = 1
       THEN /\ verdict' = "accepted" /\ fs' = <<>>
            /\ UNCHANGED <<text, at, labels, strayed>>
       ELSE Proceed(Closed, labels)
    /\ UNCHANGED <<proving, stack>>

\* at the end of the file an open block reads on and fails
EndOfText ==
    /\ verdict = "reading" /\ ~proving /\ at > Len(text)
    /\ IF Len(fs) = 1
       THEN /\ verdict' = "accepted" /\ fs' = <<>>
            /\ UNCHANGED <<text, at, labels, proving, stack, strayed>>
       ELSE Reject

\* add_f: one $f of a variable in a frame (an outer one is hidden)
ReadF ==
    LET st == text[at]
        top == Last(fs)
    IN  /\ Reading("f")
        /\ IF \E n \in DOMAIN top.f : top.f[n].var = st.var THEN Reject
           ELSE /\ Proceed(InTop([top EXCEPT !.f = Append(@, st)]),
                           With(st.label, [class |-> "f", stat |-> Stat(st)]))
                /\ UNCHANGED <<proving, stack>>

ReadE ==
    /\ Reading("e")
    /\ Proceed(InTop([Last(fs) EXCEPT !.e = Append(@, text[at])]),
               With(text[at].label, [class |-> "e", stat |-> Stat(text[at])]))
    /\ UNCHANGED <<proving, stack>>

ReadD ==
    /\ Reading("d")
    /\ Proceed(InTop([Last(fs) EXCEPT !.d = @ \cup PairsOf(text[at].vars)]), labels)
    /\ UNCHANGED <<proving, stack>>

Pairs == UNION {fs[n].d : n \in DOMAIN fs}

\* (variant: the outermost $f of a variable is taken)
Hidden_Outer(floats, n) == \E m \in 1 .. n - 1 : floats[m].var = floats[n].var
\* an inner $f of the same variable hides the n-th
Hidden(floats, n) == \E m \in n + 1 .. Len(floats) : floats[m].var = floats[n].var

\* make_assertion: what using the statement will require
MakeAssertion(st) ==
    LET floats == FlattenSeq([n \in DOMAIN fs |-> fs[n].f])
        hyps == FlattenSeq([n \in DOMAIN fs |-> fs[n].e])
        mand == VarsIn(st.expr) \cup UNION {VarsIn(hyps[n].expr) : n \in DOMAIN hyps}
        used == {n \in DOMAIN floats : floats[n].var \in mand /\ ~Hidden(floats, n)}
    IN  [class |-> st.op,
         f |-> At(floats, used),
         e |-> hyps,
         d |-> {pair \in Pairs : pair \subseteq mand},
         stat |-> Stat(st)]

ReadA ==
    /\ Reading("a")
    /\ Proceed(fs, With(text[at].label, MakeAssertion(text[at])))
    /\ UNCHANGED <<proving, stack>>

ReadP ==
    /\ Reading("p")
    /\ proving' = TRUE /\ stack' = <<>>
    /\ UNCHANGED <<text, at, fs, labels, strayed, verdict>>

-----------------------------------------------------------------------------
(* verify: one label of the proof *)

InProof == verdict = "reading" /\ proving

PositionOf(l) == CHOOSE n \in DOMAIN text : IsLabelled(text[n]) /\ text[n].label = l

\* a hypothesis is pushed; any label met so far will do, in scope or not
PushHyp(l) ==
    /\ InProof
    /\ l \in DOMAIN labels /\ labels[l].class \in {"f", "e"}
    /\ stack' = Append(stack, labels[l].stat)
    /\ Len(FlattenSeq(stack')) <= MaxTokens
    /\ strayed' = (strayed \/ ~InScope(text, PositionOf(l), at))
    /\ UNCHANGED <<text, at, fs, labels, proving, verdict>>

Subst(stat, subst) ==
    FlattenSeq([n \in DOMAIN stat |->
                   IF stat[n] \in DOMAIN subst THEN subst[stat[n]] ELSE <<stat[n]>>])

Needed(a) == Len(a.f) + Len(a.e)
\* the n-th of the entries an assertion pops
Popped(a, n) == stack[Len(stack) - Needed(a) + n]
SubstOf(a) ==
    [v \in {a.f[n].var : n \in DOMAIN a.f} |->
        Tail(Popped(a, CHOOSE n \in DOMAIN a.f : a.f[n].var = v))]

\* (variant: any entry is substituted)
TypesMatch_Any(a) == TRUE
TypesMatch(a) == \A n \in DOMAIN a.f : Head(Popped(a, n)) = a.f[n].tc

\* (variant: the variables must differ, whether or not they are declared disjoint)
DisjointKept_SharedOnly(a) ==
    \A pair \in a.d : pair \subseteq DOMAIN SubstOf(a) /\ \A x, y \in pair :
        x # y => VarsIn(SubstOf(a)[x]) \cap VarsIn(SubstOf(a)[y]) = {}
\* every $d pair of the assertion: the expressions share no variable, and each
\* two of their variables are declared disjoint here.  (A variable without $f
\* is not in the substitution: the code fails with a KeyError.)
DisjointKept(a) ==
    \A pair \in a.d :
        /\ pair \subseteq DOMAIN SubstOf(a)
        /\ \A x, y \in pair : x # y =>
              \A u \in VarsIn(SubstOf(a)[x]), v \in VarsIn(SubstOf(a)[y]) :
                  u # v /\ {u, v} \in Pairs

HypsMatch(a) ==
    \A n \in DOMAIN a.e : Popped(a, Len(a.f) + n) = Subst(Stat(a.e[n]), SubstOf(a))

Fits(a) ==
    /\ Len(stack) >= Needed(a)
    /\ TypesMatch(a) /\ DisjointKept(a) /\ HypsMatch(a)

Applied(a) ==
    Append(SubSeq(stack, 1, Len(stack) - Needed(a)), Subst(a.stat, SubstOf(a)))

Apply(l) ==
    /\ InProof
    /\ l \in DOMAIN labels /\ labels[l].class \in {"a", "p"}
    /\ Fits(labels[l])
    /\ stack' = Applied(labels[l])
    /\ Len(FlattenSeq(stack')) <= MaxTokens
    /\ UNCHANGED <<text, at, fs, labels, proving, strayed, verdict>>

\* the label is unknown, or what it needs is not on the stack
Refuse(l) ==
    /\ InProof
    /\ \/ l \notin DOMAIN labels
       \/ l \in DOMAIN labels /\ labels[l].class \in {"a", "p"} /\ ~Fits(labels[l])
    /\ Reject

Proved == stack = <<Stat(text[at])>>

\* the proof ends
EndProof ==
    /\ InProof
    /\ IF Proved
       THEN /\ Proceed(fs, With(text[at].label, MakeAssertion(text[at])))
            /\ proving' = FALSE /\ stack' = <<>>
       ELSE Reject

Next ==
    \/ OpenBlock \/ CloseBlock \/ EndOfText
    \/ ReadF \/ ReadE \/ ReadD \/ ReadA \/ ReadP
    \/ \E l \in Labels : PushHyp(l) \/ Apply(l) \/ Refuse(l)
    \/ EndProof

Spec == Init /\ [][Next]_vars

-----------------------------------------------------------------------------
(* Properties *)

Tokens == Consts \cup Vars
Hyps(op) == {st \in ToSet(text) : st.op = op}

\* The frames the verifier builds with its stack are the ones the scopes of the
\* text say, block by block: innermost $f only, hypotheses in order, $d pairs of
\* mandatory variables.  (The linker's contracts are these frames as well:
\* Linker!ContractIsFrame.)
FramesAgree ==
    \A n \in 1 .. at - 1 : IsAssertion(text[n]) =>
        LET a == labels[text[n].label]
        IN  /\ a.f = At(text, MandatoryF(text, n))
            /\ a.e = At(text, ActiveE(text, n))
            /\ a.d = MandatoryD(text, n)
=============================================================================
