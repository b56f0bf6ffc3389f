-------------------------------- MODULE Builder --------------------------------
(***************************************************************************)
(* The unit builder, MMBuilderV2 (skfd/builder_v2/builder.py): an author   *)
(* calls f, e, a, p, d inside nested `with mm.block()` scopes and gets a   *)
(* ProofUnitIR.  a and p complete the missing $f statements of a wff       *)
(* assertion one variable at a time (Auto.mandatory_f), so an assertion is *)
(* begun, floats its variables, and is appended last; a failure on the way *)
(* leaves what was already done.  Symbols stand for their ids (interning   *)
(* is one to one, see SymbolInterner); a label stands for its local name.  *)
(***************************************************************************)
EXTENDS Lir

CONSTANTS
    Consts,         \* symbols of kind Const
    Wff,            \* the constant spelled "wff"
    LocalLabels,    \* labels of this unit's module, by canonical spelling
    ForeignLabels,  \* labels of other modules
    Spellings,      \* label spellings, the canonical ones included
    CanonLabel,     \* [Spellings -> LocalLabels], NameResolver on labels
    AutoName,       \* [Vars \X (0..MaxSuffix) -> Spellings]: w<var>, w<var>0, ...
    Rank,           \* [Vars -> Nat], the numeric order of the variables' ids
    AutoF,          \* BuildConfig.auto_f
    Exprs, Proofs,  \* the math strings and proofs authors write
    Exportable,     \* the symbols authors export
    None,           \* no label, no call
    MaxSuffix, MaxStmts, MaxDepth   \* bounds of the model

AllLabels == LocalLabels \cup ForeignLabels
Tokens == Consts \cup Vars \cup AllLabels

ASSUME BuilderAssumption ==
    /\ Wff \in Consts
    /\ LocalLabels \subseteq Spellings
    /\ CanonLabel \in [Spellings -> LocalLabels]
    /\ \A l \in LocalLabels : CanonLabel[l] = l
    /\ AutoName \in [Vars \X (0..MaxSuffix) -> Spellings]
    /\ Rank \in [Vars -> Nat]
    /\ AutoF \in BOOLEAN
    /\ Exprs \subseteq Seq(Tokens)
    /\ Proofs \subseteq Seq(Tokens)
    /\ Exportable \subseteq Tokens
    /\ None \notin AllLabels
    /\ LocalLabels \cap ForeignLabels = {}
    /\ MaxSuffix \in Nat /\ MaxStmts \in Nat /\ MaxDepth \in Nat

VARIABLES
    scopes,       \* _ScopeStackV2: names and active $f of each open scope
    labels_used,  \* _labels_used: every label name of the unit so far
    lir,          \* LIRVisitor: the statements
    exports,      \* _exports
    call,         \* the a/p call in progress, with the variables left to float
    borrowed,     \* history: variables given a foreign $f by use_existing_floating
    done          \* finish() was called

vars == <<scopes, labels_used, lir, exports, call, borrowed, done>>

EmptyScope == [names |-> {}, f |-> [v \in Vars |-> None]]
Top == Len(scopes)
Idle == call = None /\ ~done
Room == Len(lir) < MaxStmts     \* bounds the author's statements, not automatic ones

\* get_active_f: scopes are searched from the innermost outwards
GetActiveF(v) ==
    LET with == {i \in 1..Top : scopes[i].f[v] # None}
    IN  IF with = {} THEN None
        ELSE scopes[CHOOSE i \in with : \A k \in with : k <= i].f[v]

\* (variant: a popped name is free again)
SpellingTaken_VisibleOnly(s) == \E i \in 1..Top : s \in scopes[i].names

\* label_name_is_visible or _label_name_used
SpellingTaken(s) == s \in labels_used \/ \E i \in 1..Top : s \in scopes[i].names

\* The checks of each operation.  They all come before its first assignment,
\* so a call that fails one raises and changes nothing.

LocalLabel(l) == l \in LocalLabels

\* (variant: only the labels in scope are compared)
Unused_VisibleOnly(l) == \A i \in 1..Top : l \notin scopes[i].names
Unused(l) == l \notin labels_used

MathString(expr) == TokensOf(expr) \subseteq Consts \cup Vars
ProofString(proof) == TokensOf(proof) \subseteq AllLabels

UseLabel(l) == labels_used' = labels_used \cup {l}
WithName(scope, l) == [scope EXCEPT !.names = @ \cup {l}]
Emit(st) == lir' = Append(lir, st)

-----------------------------------------------------------------------------
(* Operations of the author *)

Init ==
    /\ scopes = <<EmptyScope>>
    /\ labels_used = {}
    /\ lir = <<>>
    /\ exports = {}
    /\ call = None
    /\ borrowed = {}
    /\ done = FALSE

\* with mm.block(): __enter__
PushScope ==
    /\ Idle /\ Room /\ Top < MaxDepth
    /\ Emit(Enter)
    /\ scopes' = Append(scopes, EmptyScope)
    /\ UNCHANGED <<labels_used, exports, call, borrowed, done>>

\* (variant: a block's floats outlive it)
Popped_KeepsFloats ==
    [i \in 1 .. Top - 1 |->
        IF i < Top - 1 THEN scopes[i]
        ELSE [scopes[i] EXCEPT !.f = [v \in Vars |-> IF @[v] = None THEN scopes[Top].f[v]
                                                     ELSE @[v]]]]
Popped == SubSeq(scopes, 1, Top - 1)

\* (variant: the block is closed in the text only when it declared a name)
PopScope_SkipsEmpty ==
    /\ Idle /\ Top > 1
    /\ scopes' = Popped
    /\ IF scopes[Top].names = {} THEN UNCHANGED lir ELSE Emit(Exit)
    /\ UNCHANGED <<labels_used, exports, call, borrowed, done>>

\* __exit__, also when the block is left by an exception
PopScope ==
    /\ Idle /\ Top > 1
    /\ scopes' = Popped
    /\ Emit(Exit)
    /\ UNCHANGED <<labels_used, exports, call, borrowed, done>>

\* what f() does once its checks passed
AddFloat(l, tc, v) ==
    /\ UseLabel(l)
    /\ scopes' = [scopes EXCEPT ![Top] = [WithName(@, l) EXCEPT !.f[v] = l]]
    /\ Emit(FloatingHyp(l, tc, v))

F(l, tc, v) ==
    /\ Idle /\ Room
    /\ LocalLabel(l) /\ Unused(l)
    /\ AddFloat(l, tc, v)
    /\ UNCHANGED <<exports, call, borrowed, done>>

E(l, tc, expr) ==
    /\ Idle /\ Room
    /\ LocalLabel(l) /\ MathString(expr) /\ Unused(l)
    /\ UseLabel(l)
    /\ scopes' = [scopes EXCEPT ![Top] = WithName(@, l)]
    /\ Emit(EssentialHyp(l, tc, expr))
    /\ UNCHANGED <<exports, call, borrowed, done>>

\* $d: at least two variables, none repeated
D(vs) ==
    /\ Idle /\ Room
    /\ Len(vs) >= 2
    /\ Cardinality(TokensOf(vs)) = Len(vs)
    /\ TokensOf(vs) \subseteq Vars
    /\ Emit(DisjointVar(vs))
    /\ UNCHANGED <<scopes, labels_used, exports, call, borrowed, done>>

\* the variables a()/p() float on their own: those of a wff assertion
\* (variant: only p() does)
ToFloat_TheoremsOnly(st) == IF AutoF /\ st.tc = Wff /\ st.op = "p" THEN VarsIn(st.expr) ELSE {}
ToFloat(st) == IF AutoF /\ st.tc = Wff THEN VarsIn(st.expr) ELSE {}

\* a() and p() register the label first; the statement is appended last
BeginAssertion(st) ==
    /\ Idle /\ Room
    /\ LocalLabel(st.label) /\ MathString(st.expr) /\ Unused(st.label)
    /\ UseLabel(st.label)
    /\ scopes' = [scopes EXCEPT ![Top] = WithName(@, st.label)]
    /\ call' = [st |-> st, todo |-> ToFloat(st)]
    /\ UNCHANGED <<lir, exports, borrowed, done>>

A(l, tc, expr) == BeginAssertion(Axiom(l, tc, expr))
P(l, tc, expr, proof) == ProofString(proof) /\ BeginAssertion(Theorem(l, tc, expr, proof))

\* the suffix floating() settles on: the first spelling that is not taken
FreshSuffix(v) ==
    CHOOSE n \in 0..MaxSuffix :
        /\ ~SpellingTaken(AutoName[<<v, n>>])
        /\ \A m \in 0 .. n - 1 : SpellingTaken(AutoName[<<v, m>>])

SuffixLeft(v) == \E n \in 0..MaxSuffix : ~SpellingTaken(AutoName[<<v, n>>])

\* Auto.floating on the variables of the call, in id order
NextToFloat == CHOOSE v \in call.todo : \A w \in call.todo : Rank[v] <= Rank[w]
AutoLabel(v) == CanonLabel[AutoName[<<v, FreshSuffix(v)>>]]
Floating == call # None /\ call.todo # {}

FloatKnown ==
    /\ Floating
    /\ GetActiveF(NextToFloat) # None
    /\ call' = [call EXCEPT !.todo = @ \ {NextToFloat}]
    /\ UNCHANGED <<scopes, labels_used, lir, exports, borrowed, done>>

FloatNew ==
    /\ Floating
    /\ GetActiveF(NextToFloat) = None
    /\ SuffixLeft(NextToFloat)
    /\ Unused(AutoLabel(NextToFloat))
    /\ AddFloat(AutoLabel(NextToFloat), call.st.tc, NextToFloat)
    /\ call' = [call EXCEPT !.todo = @ \ {NextToFloat}]
    /\ UNCHANGED <<exports, borrowed, done>>

\* The spelling is canonicalized only after it was found free, so f() may
\* still refuse it; the a()/p() call then raises with its label registered.
FloatRefused ==
    /\ Floating
    /\ GetActiveF(NextToFloat) = None
    /\ SuffixLeft(NextToFloat)
    /\ ~Unused(AutoLabel(NextToFloat))
    /\ call' = None
    /\ UNCHANGED <<scopes, labels_used, lir, exports, borrowed, done>>

FinishAssertion ==
    /\ call # None /\ call.todo = {}
    /\ Emit(call.st)
    /\ call' = None
    /\ UNCHANGED <<scopes, labels_used, exports, borrowed, done>>

\* auto.use_existing_floating(var, label=...): no statement, no label used.
\* (The code checks kinds only; the label is an already emitted $f, of another unit.)
UseExistingFloating(v, l) ==
    /\ Idle
    /\ scopes' = [scopes EXCEPT ![Top].f[v] = l]
    /\ borrowed' = borrowed \cup {v}
    /\ UNCHANGED <<labels_used, lir, exports, call, done>>

Export(l) ==
    /\ Idle
    /\ exports' = exports \cup {l}
    /\ UNCHANGED <<scopes, labels_used, lir, call, borrowed, done>>

\* the driver calls finish() after build(ctx) returned: every block was left
Finish ==
    /\ Idle /\ Top = 1
    /\ done' = TRUE
    /\ UNCHANGED <<scopes, labels_used, lir, exports, call, borrowed>>

Next ==
    \/ PushScope
    \/ PopScope
    \/ \E l \in AllLabels, tc \in Consts, v \in Vars : F(l, tc, v)
    \/ \E l \in AllLabels, tc \in Consts, expr \in Exprs : E(l, tc, expr)
    \/ \E l \in AllLabels, tc \in Consts, expr \in Exprs : A(l, tc, expr)
    \/ \E l \in AllLabels, tc \in Consts, expr \in Exprs, proof \in Proofs :
          P(l, tc, expr, proof)
    \/ \E expr \in Exprs : D(expr)
    \/ FloatKnown
    \/ FloatNew
    \/ FloatRefused
    \/ FinishAssertion
    \/ \E v \in Vars, l \in ForeignLabels : UseExistingFloating(v, l)
    \/ \E l \in Exportable : Export(l)
    \/ Finish

Spec == Init /\ [][Next]_vars

-----------------------------------------------------------------------------
(* Properties *)

LabelsOf(s) == {s[i].label : i \in {k \in DOMAIN s : IsLabelled(s[k])}}
Now == Len(lir) + 1

Statements ==
    [op : {"enter", "exit"}]
    \cup [op : {"f"}, label : LocalLabels, tc : Consts, var : Vars]
    \cup [op : {"e", "a"}, label : LocalLabels, tc : Consts, expr : Exprs]
    \cup [op : {"p"}, label : LocalLabels, tc : Consts, expr : Exprs, proof : Proofs]
    \cup [op : {"d"}, vars : Exprs]
Calls == [st : {st \in Statements : IsAssertion(st)}, todo : SUBSET Vars]
Scopes == [names : SUBSET LocalLabels, f : [Vars -> AllLabels \cup {None}]]

\* None is no call, as it is no label.
ASSUME NoneAssumption == None \notin Calls

\* Every variable stays in its range.
TypeOK ==
    /\ scopes \in Seq(Scopes) /\ Top >= 1
    /\ labels_used \subseteq LocalLabels
    /\ lir \in Seq(Statements)
    /\ exports \subseteq Tokens
    /\ call \in {None} \cup Calls
    /\ borrowed \subseteq Vars
    /\ done \in BOOLEAN

\* No label heads two statements of a unit, not even in blocks that were both
\* left, where neither the scope stack nor the active $f remembers the first:
\* a Metamath label is global (_labels_used survives pop, E_DUPLICATE_LABEL).
LabelsUnique ==
    \A i, j \in DOMAIN lir :
        IsLabelled(lir[i]) /\ IsLabelled(lir[j]) /\ lir[i].label = lir[j].label => i = j

\* What the scope stack believes about the active $f of a variable is what the
\* text written so far says, across nested, left and failed blocks: a label of
\* this unit is the innermost $f in scope, and no $f in scope is overlooked.
ActiveFIsTextual ==
    \A v \in Vars :
        LET l == GetActiveF(v)
            pos == FloatOf(lir, v, Now)
        IN  /\ l \in LocalLabels => pos # 0 /\ lir[pos].label = l
            /\ l = None => pos = 0

\* With auto_f, every variable of a wff assertion has a $f in scope at the
\* assertion, unless the author borrowed a foreign one for it: the frame the
\* verifier builds can substitute it (Auto.mandatory_f before the statement).
AutoFloatsComplete ==
    AutoF =>
        \A i \in DOMAIN lir :
            IsAssertion(lir[i]) /\ lir[i].tc = Wff =>
                \A v \in VarsIn(lir[i].expr) \ borrowed : FloatOf(lir, v, i) # 0

\* The stack depth is the number of blocks open in the text, so a finished unit
\* is scope-balanced, which the linker passes take for granted.
BlocksAgree ==
    /\ Depth(lir, Len(lir)) = Top - 1
    /\ done => Balanced(lir)

\* no automatic label in use was spelled otherwise than the resolver has it
AsSpelled ==
    \A p \in Vars \X (0..MaxSuffix) :
        CanonLabel[AutoName[p]] \in labels_used => CanonLabel[AutoName[p]] = AutoName[p]

\* Between calls, every label that counts as used heads a statement: a failed
\* call consumed no label, so that its caller may try again.  (Once an
\* automatic label was hashed, a second $f of its variable collides with it
\* instead of taking a suffix, and the label of the assertion stays used.)
NoOrphanLabel == call = None /\ AsSpelled => labels_used = LabelsOf(lir)
=============================================================================
