----------------------------- MODULE Builder_proof -----------------------------
(***************************************************************************)
(* Proofs about a unit under construction, for every set of symbols,       *)
(* labels, spellings and expressions and every order of the author's       *)
(* calls: its labels head one statement each, its blocks balance, the      *)
(* scope stack knows the $f that are in scope in the text, assertions have *)
(* the $f they need, and a failed call keeps no label.                     *)
(***************************************************************************)
EXTENDS Builder, PositionLemmas

-----------------------------------------------------------------------------
(* The choices of Auto.floating exist *)

\* The next variable to float is one of those left, whatever the id order is.
LEMMA NextToFloatChosen ==
    ASSUME TypeOK, Floating
    PROVE  NextToFloat \in call.todo /\ NextToFloat \in Vars
<1> DEFINE ranks == {Rank[v] : v \in call.todo}
<1>1. call \in Calls /\ call.todo \subseteq Vars /\ call.todo # {}
  BY DEF TypeOK, Floating, Calls
<1>2. ranks \subseteq Nat /\ ranks # {}
  BY <1>1, BuilderAssumption
<1>3. PICK r \in ranks : \A q \in ranks : r <= q
  BY <1>2, NatLeast
<1>4. \E v \in call.todo : \A w \in call.todo : Rank[v] <= Rank[w]
  BY <1>3
<1>5. QED
  BY <1>1, <1>4 DEF NextToFloat

\* The search for a suffix ends at a spelling, so the automatic label is a
\* label of the unit's module.
LEMMA AutoLabelLocal ==
    ASSUME NEW v \in Vars, SuffixLeft(v)
    PROVE  /\ FreshSuffix(v) \in 0..MaxSuffix /\ ~SpellingTaken(AutoName[<<v, FreshSuffix(v)>>])
           /\ AutoLabel(v) \in LocalLabels
<1> DEFINE free == {n \in 0..MaxSuffix : ~SpellingTaken(AutoName[<<v, n>>])}
<1>1. free \subseteq Nat /\ free # {}
  BY BuilderAssumption DEF SuffixLeft
<1>2. PICK n \in free : \A m \in free : n <= m
  BY <1>1, NatLeast
<1>3. n \in 0..MaxSuffix /\ \A m \in 0 .. n - 1 : SpellingTaken(AutoName[<<v, m>>])
  BY <1>1, <1>2, BuilderAssumption
<1>4. \E k \in 0..MaxSuffix : /\ ~SpellingTaken(AutoName[<<v, k>>])
                              /\ \A m \in 0 .. k - 1 : SpellingTaken(AutoName[<<v, m>>])
  BY <1>2, <1>3
<1>5. FreshSuffix(v) \in 0..MaxSuffix /\ ~SpellingTaken(AutoName[<<v, FreshSuffix(v)>>])
  BY <1>4 DEF FreshSuffix
<1>6. AutoName[<<v, FreshSuffix(v)>>] \in Spellings
  BY <1>5, BuilderAssumption
<1>7. QED
  BY <1>5, <1>6, BuilderAssumption DEF AutoLabel

-----------------------------------------------------------------------------
(* What a step does to the statements and the labels *)

\* A step leaves the statements alone, opens or closes a block, or appends one
\* statement inside the same blocks.
OpensBlock == ~done /\ Emit(Enter) /\ scopes' = Append(scopes, EmptyScope)
ClosesBlock == ~done /\ Top > 1 /\ Emit(Exit) /\ scopes' = Popped
SameBlocks == Len(scopes') = Top /\ scopes' \in Seq(Scopes)
Writes(st) == st \in Statements /\ st.op \notin {"enter", "exit"} /\ Emit(st) /\ SameBlocks

\* The new scope of a call that declared name l, and the $f of v if it is one.
LEMMA TopScope ==
    ASSUME TypeOK, NEW new \in Scopes, scopes' = [scopes EXCEPT ![Top] = new]
    PROVE  SameBlocks
BY DEF TypeOK, SameBlocks, Top

LEMMA TopIsScope == ASSUME TypeOK PROVE scopes[Top] \in Scopes
BY DEF TypeOK, Top

LEMMA AddFloatWrites ==
    ASSUME TypeOK, NEW l \in LocalLabels, NEW tc \in Consts, NEW v \in Vars,
           AddFloat(l, tc, v)
    PROVE  Writes(FloatingHyp(l, tc, v))
<1> DEFINE new == [WithName(scopes[Top], l) EXCEPT !.f[v] = l]
<1>1. new \in Scopes
  BY TopIsScope DEF Scopes, WithName, AllLabels
<1>2. scopes' = [scopes EXCEPT ![Top] = new]
  BY DEF AddFloat
<1>3. SameBlocks
  BY <1>1, <1>2, TopScope
<1>4. FloatingHyp(l, tc, v) \in Statements
  BY DEF FloatingHyp, Statements
<1>5. QED
  BY <1>3, <1>4 DEF Writes, AddFloat, FloatingHyp

\* a() and p() change the scope's names and the call, not the statements.
LEMMA BeginAssertionShape ==
    ASSUME TypeOK, NEW st \in Statements, IsAssertion(st), BeginAssertion(st)
    PROVE  SameBlocks /\ st.label \in LocalLabels /\ call' \in Calls /\ lir' = lir
<1> DEFINE new == WithName(scopes[Top], st.label)
<1>1. st.label \in LocalLabels
  BY DEF BeginAssertion, LocalLabel
<1>2. new \in Scopes
  BY <1>1, TopIsScope DEF Scopes, WithName
<1>3. SameBlocks
  BY <1>2, TopScope DEF BeginAssertion
<1>4. ToFloat(st) \in SUBSET Vars
  BY DEF ToFloat, VarsIn
<1>5. QED
  BY <1>1, <1>3, <1>4 DEF BeginAssertion, Calls

\* The statement of a call in progress is a labelled assertion.
LEMMA CallStatement ==
    ASSUME TypeOK, call # None
    PROVE  /\ call.st \in Statements /\ call.st.tc \in Consts
           /\ call.st.op \in {"a", "p"} /\ call.todo \subseteq Vars
BY DEF TypeOK, Calls, Statements, IsAssertion

\* The shape of a step: what it may do to the statements, the blocks, the used
\* labels and the call in progress.
Step ==
    \/ UNCHANGED vars
    \/ OpensBlock /\ UNCHANGED <<labels_used, call>>
    \/ ClosesBlock /\ UNCHANGED <<labels_used, call>>
    \/ SameBlocks /\ UNCHANGED <<lir, labels_used, call>>
    \/ \E st \in Statements :
          /\ Writes(st) /\ st.op = "d"
          /\ UNCHANGED <<labels_used, call>>
    \/ \E st \in Statements :
          /\ Writes(st) /\ IsHyp(st)
          /\ Unused(st.label) /\ UseLabel(st.label)
          /\ call' = call \/ (call # None /\ call' \in Calls /\ call'.st = call.st)
    \/ \E st \in Statements :
          /\ IsAssertion(st) /\ Unused(st.label) /\ UseLabel(st.label)
          /\ SameBlocks /\ UNCHANGED lir
          /\ call = None /\ call' \in Calls /\ call'.st = st
    \/ /\ SameBlocks /\ UNCHANGED <<lir, labels_used>>
       /\ call # None /\ call' \in Calls /\ call'.st = call.st
    \/ FloatRefused /\ SameBlocks
    \/ FinishAssertion /\ Writes(call.st)

LEMMA AuthorStep == ASSUME TypeOK, Idle, Next PROVE Step
<1> SUFFICES ASSUME call = None
             PROVE  Step
  BY DEF Idle
<1>1. CASE PushScope
  BY <1>1 DEF PushScope, Step, OpensBlock, Idle
<1>2. CASE PopScope
  BY <1>2 DEF PopScope, Step, ClosesBlock, Idle
<1>3. ASSUME NEW l \in AllLabels, NEW tc \in Consts, NEW v \in Vars, F(l, tc, v)
      PROVE  Step
  <2>1. l \in LocalLabels /\ Unused(l) /\ AddFloat(l, tc, v) /\ call' = call
    BY <1>3 DEF F, LocalLabel
  <2>2. Writes(FloatingHyp(l, tc, v))
    BY <2>1, AddFloatWrites
  <2>3. QED
    BY <2>1, <2>2 DEF Step, Writes, AddFloat, FloatingHyp, IsHyp
<1>4. ASSUME NEW l \in AllLabels, NEW tc \in Consts, NEW expr \in Exprs, E(l, tc, expr)
      PROVE  Step
  <2> DEFINE st == EssentialHyp(l, tc, expr)
             new == WithName(scopes[Top], l)
  <2>1. l \in LocalLabels /\ Unused(l) /\ UseLabel(l) /\ Emit(st) /\ call' = call
    BY <1>4 DEF E, LocalLabel
  <2>2. st \in Statements /\ st.label = l /\ st.op = "e"
    BY <2>1 DEF EssentialHyp, Statements
  <2>3. new \in Scopes
    BY <2>1, TopIsScope DEF Scopes, WithName
  <2>4. SameBlocks
    BY <1>4, <2>3, TopScope DEF E
  <2>5. QED
    BY <2>1, <2>2, <2>4 DEF Step, Writes, IsHyp
<1>5. ASSUME NEW l \in AllLabels, NEW tc \in Consts, NEW expr \in Exprs, A(l, tc, expr)
      PROVE  Step
  <2> DEFINE st == Axiom(l, tc, expr)
  <2>1. BeginAssertion(st) /\ l \in LocalLabels
    BY <1>5 DEF A, BeginAssertion, LocalLabel, Axiom
  <2>2. st \in Statements /\ IsAssertion(st) /\ st.label = l
    BY <2>1 DEF Axiom, Statements, IsAssertion
  <2>3. QED
    BY <2>1, <2>2, BeginAssertionShape DEF Step, BeginAssertion
<1>6. ASSUME NEW l \in AllLabels, NEW tc \in Consts, NEW expr \in Exprs,
             NEW proof \in Proofs, P(l, tc, expr, proof)
      PROVE  Step
  <2> DEFINE st == Theorem(l, tc, expr, proof)
  <2>1. BeginAssertion(st) /\ l \in LocalLabels
    BY <1>6 DEF P, BeginAssertion, LocalLabel, Theorem
  <2>2. st \in Statements /\ IsAssertion(st) /\ st.label = l
    BY <2>1 DEF Theorem, Statements, IsAssertion
  <2>3. QED
    BY <2>1, <2>2, BeginAssertionShape DEF Step, BeginAssertion
<1>7. ASSUME NEW expr \in Exprs, D(expr) PROVE Step
  <2> DEFINE st == DisjointVar(expr)
  <2>1. st \in Statements /\ st.op = "d"
    BY DEF DisjointVar, Statements
  <2>2. QED
    BY <1>7, <2>1 DEF D, Step, Writes, SameBlocks, TypeOK, Top
<1>8. ASSUME NEW v \in Vars, NEW l \in ForeignLabels, UseExistingFloating(v, l)
      PROVE  Step
  <2> DEFINE new == [scopes[Top] EXCEPT !.f[v] = l]
  <2>1. new \in Scopes
    BY TopIsScope DEF Scopes, AllLabels
  <2>2. QED
    BY <1>8, <2>1, TopScope DEF UseExistingFloating, Step
<1>9. CASE Finish \/ \E l \in Exportable : Export(l)
  BY <1>9 DEF Finish, Export, Step, SameBlocks, TypeOK, Top
<1>10. QED
  BY <1>1, <1>2, <1>3, <1>4, <1>5, <1>6, <1>7, <1>8, <1>9
     DEF Next, FloatKnown, FloatNew, FloatRefused, FinishAssertion, Floating

LEMMA CallStep == ASSUME TypeOK, ~Idle, Next PROVE Step
<1>1. CASE FloatKnown
  BY <1>1, CallStatement DEF FloatKnown, Floating, Step, SameBlocks, TypeOK, Top, Calls
<1>2. CASE FloatNew
  <2> DEFINE l == AutoLabel(NextToFloat)
             st == FloatingHyp(l, call.st.tc, NextToFloat)
  <2>1. Floating /\ SuffixLeft(NextToFloat) /\ Unused(l) /\ call # None
    BY <1>2 DEF FloatNew, Floating
  <2>2. NextToFloat \in Vars /\ l \in LocalLabels /\ call.st.tc \in Consts
    BY <2>1, NextToFloatChosen, AutoLabelLocal, CallStatement
  <2>3. Writes(st)
    BY <1>2, <2>2, AddFloatWrites DEF FloatNew
  <2>4. call' \in Calls /\ call'.st = call.st
    BY <1>2, <2>1 DEF FloatNew, TypeOK, Calls
  <2>5. st.label = l /\ IsHyp(st) /\ UseLabel(l)
    BY <1>2 DEF FloatNew, AddFloat, FloatingHyp, IsHyp
  <2>6. QED
    BY <2>1, <2>3, <2>4, <2>5 DEF Step, Writes
<1>3. CASE FloatRefused
  BY <1>3 DEF FloatRefused, Step, SameBlocks, TypeOK, Top
<1>4. CASE FinishAssertion
  BY <1>4, CallStatement DEF FinishAssertion, Step, Writes, SameBlocks, TypeOK, Top
<1>5. QED
  BY <1>1, <1>2, <1>3, <1>4
     DEF Next, PushScope, PopScope, F, E, A, P, D, BeginAssertion, UseExistingFloating,
         Export, Finish

LEMMA NextIsStep == TypeOK /\ [Next]_vars => Step
BY AuthorStep, CallStep DEF Step

-----------------------------------------------------------------------------
(* The variables stay in their ranges *)

\* Exports, borrowed variables and the end of the unit.
LEMMA RestStep == ASSUME TypeOK, [Next]_vars
                  PROVE  exports' \subseteq Tokens /\ borrowed' \subseteq Vars /\ done' \in BOOLEAN
<1>1. exports \subseteq Tokens /\ borrowed \subseteq Vars /\ done \in BOOLEAN
  BY DEF TypeOK
<1>2. UNCHANGED exports \/ \E l \in Exportable : exports' = exports \cup {l}
  BY DEF Next, vars, PushScope, PopScope, F, E, A, P, D, BeginAssertion, FloatKnown, FloatNew,
         FloatRefused, FinishAssertion, UseExistingFloating, Export, Finish
<1>3. UNCHANGED borrowed \/ \E v \in Vars : borrowed' = borrowed \cup {v}
  BY DEF Next, vars, PushScope, PopScope, F, E, A, P, D, BeginAssertion, FloatKnown, FloatNew,
         FloatRefused, FinishAssertion, UseExistingFloating, Export, Finish
<1>4. UNCHANGED done \/ done' = TRUE
  BY DEF Next, vars, PushScope, PopScope, F, E, A, P, D, BeginAssertion, FloatKnown, FloatNew,
         FloatRefused, FinishAssertion, UseExistingFloating, Export, Finish
<1>5. QED
  BY <1>1, <1>2, <1>3, <1>4, BuilderAssumption

\* The scopes and the statements of the unit.
LEMMA TextStep == ASSUME TypeOK, Step
                  PROVE  scopes' \in Seq(Scopes) /\ Len(scopes') >= 1 /\ lir' \in Seq(Statements)
<1>1. scopes \in Seq(Scopes) /\ Len(scopes) >= 1 /\ lir \in Seq(Statements)
  BY DEF TypeOK, Top
<1>2. CASE OpensBlock
  <2>1. EmptyScope \in Scopes /\ Enter \in Statements
    BY DEF EmptyScope, Scopes, Enter, Statements
  <2>2. QED
    BY <1>1, <1>2, <2>1 DEF OpensBlock, Emit
<1>3. CASE ClosesBlock
  <2>1. Exit \in Statements
    BY DEF Exit, Statements
  <2>2. Popped \in Seq(Scopes) /\ Len(Popped) = Len(scopes) - 1
    BY <1>1, <1>3, SubSeqProperties DEF ClosesBlock, Popped, Top
  <2>3. QED
    BY <1>1, <1>3, <2>1, <2>2 DEF ClosesBlock, Emit, Top
<1>4. ASSUME NEW st \in Statements, Writes(st)
      PROVE  scopes' \in Seq(Scopes) /\ Len(scopes') >= 1 /\ lir' \in Seq(Statements)
  BY <1>1, <1>4 DEF Writes, SameBlocks, Emit, Top
<1>5. CASE SameBlocks /\ UNCHANGED lir
  BY <1>1, <1>5 DEF SameBlocks, Top
<1>6. QED
  BY <1>1, <1>2, <1>3, <1>4, <1>5, CallStatement DEF Step, vars, FloatRefused, FinishAssertion

LEMMA TypeStep == TypeOK /\ [Next]_vars => TypeOK'
<1> SUFFICES ASSUME TypeOK, [Next]_vars, Step PROVE TypeOK'
  BY NextIsStep
<1>1. scopes' \in Seq(Scopes) /\ Len(scopes') >= 1 /\ lir' \in Seq(Statements)
  BY TextStep
<1>2. labels_used' \subseteq LocalLabels
  <2>1. \A st \in Statements : IsLabelled(st) => st.label \in LocalLabels
    BY DEF Statements, IsLabelled, IsHyp, IsAssertion
  <2>2. QED
    BY <2>1 DEF Step, TypeOK, UseLabel, IsLabelled, vars, FloatRefused, FinishAssertion
<1>3. call' \in {None} \cup Calls
  BY DEF Step, TypeOK, vars, FloatRefused, FinishAssertion
<1>4. QED
  BY <1>1, <1>2, <1>3, RestStep DEF TypeOK, Top

\* The builder's state stays in its ranges: statements are headed by labels of
\* the unit's module, the scope stack keeps its root.
THEOREM TypeCorrect == Spec => []TypeOK
<1>1. Init => TypeOK
  <2>1. EmptyScope \in Scopes
    BY DEF EmptyScope, Scopes
  <2>2. <<EmptyScope>> \in Seq(Scopes) /\ Len(<<EmptyScope>>) = 1
    BY <2>1
  <2>3. <<>> \in Seq(Statements)
    OBVIOUS
  <2>4. ASSUME Init PROVE TypeOK
    <3>1. scopes \in Seq(Scopes) /\ Top >= 1
      BY <2>2, <2>4 DEF Init, Top
    <3>2. lir \in Seq(Statements)
      BY <2>3, <2>4 DEF Init
    <3>3. QED
      BY <2>4, <3>1, <3>2 DEF Init, TypeOK
  <2>5. QED
    BY <2>4
<1>2. QED
  BY <1>1, TypeStep, PTL DEF Spec

-----------------------------------------------------------------------------
(* Labels *)

\* Uniqueness alone is not inductive: that a new statement's label is new rests
\* on every written label being recorded as used, and on the label of the call
\* in progress, used but not yet written, being kept for its statement.
LabelInv ==
    /\ LabelsUnique
    /\ \A i \in DOMAIN lir : IsLabelled(lir[i]) => lir[i].label \in labels_used
    /\ call # None =>
          /\ call.st.label \in labels_used
          /\ \A i \in DOMAIN lir : IsLabelled(lir[i]) => lir[i].label # call.st.label

\* Appending a statement whose label, if any, no other statement has.
LEMMA AppendUnique ==
    ASSUME NEW s \in Seq(Statements), NEW st \in Statements,
           \A i, j \in DOMAIN s :
              IsLabelled(s[i]) /\ IsLabelled(s[j]) /\ s[i].label = s[j].label => i = j,
           IsLabelled(st) => \A i \in DOMAIN s : IsLabelled(s[i]) => s[i].label # st.label
    PROVE  LET t == Append(s, st)
           IN  \A i, j \in DOMAIN t :
                  IsLabelled(t[i]) /\ IsLabelled(t[j]) /\ t[i].label = t[j].label => i = j
<1> DEFINE t == Append(s, st)
<1>1. /\ DOMAIN t = 1 .. Len(s) + 1 /\ DOMAIN s = 1..Len(s) /\ Len(s) \in Nat
      /\ t[Len(s) + 1] = st /\ \A i \in DOMAIN s : t[i] = s[i]
  OBVIOUS
<1> HIDE DEF t
<1>2. SUFFICES ASSUME NEW i \in DOMAIN t, NEW j \in DOMAIN t, IsLabelled(t[i]),
                      IsLabelled(t[j]), t[i].label = t[j].label
               PROVE  i = j
  BY DEF t
<1>3. CASE i \in DOMAIN s /\ j \in DOMAIN s
  BY <1>1, <1>2, <1>3
<1>4. CASE i = Len(s) + 1 /\ j \in DOMAIN s
  BY <1>1, <1>2, <1>4
<1>5. CASE i \in DOMAIN s /\ j = Len(s) + 1
  BY <1>1, <1>2, <1>5
<1>6. QED
  BY <1>1, <1>3, <1>4, <1>5

LEMMA LabelStep == TypeOK /\ LabelInv /\ [Next]_vars => LabelInv'
<1> SUFFICES ASSUME TypeOK, LabelInv, Step PROVE LabelInv'
  BY NextIsStep
<1>0. lir \in Seq(Statements)
  BY DEF TypeOK
<1>1. CASE UNCHANGED <<lir, labels_used>> /\ (UNCHANGED call \/ call' = None)
  BY <1>1 DEF LabelInv, LabelsUnique
<1>2. CASE UNCHANGED <<lir, labels_used>> /\ call # None /\ call'.st = call.st
  BY <1>2 DEF LabelInv, LabelsUnique
<1>3. ASSUME NEW st \in Statements, IsAssertion(st), Unused(st.label), UseLabel(st.label),
             UNCHANGED lir, call'.st = st
      PROVE  LabelInv'
  BY <1>3 DEF LabelInv, LabelsUnique, Unused, UseLabel
<1>4. ASSUME NEW st \in {Enter, Exit} \cup Statements, Emit(st), ~IsLabelled(st),
             UNCHANGED <<labels_used, call>>
      PROVE  LabelInv'
  <2>1. st \in Statements
    BY DEF Enter, Exit, Statements
  <2>2. LabelsUnique'
    BY <1>0, <1>4, <2>1, AppendUnique DEF LabelInv, LabelsUnique, Emit
  <2>3. \A i \in DOMAIN lir' : (i \in DOMAIN lir /\ lir'[i] = lir[i]) \/ lir'[i] = st
    BY <1>0, <1>4, <2>1 DEF Emit
  <2>4. QED
    BY <1>4, <2>2, <2>3 DEF LabelInv
<1>5. ASSUME NEW st \in Statements, Emit(st), IsHyp(st), Unused(st.label),
             UseLabel(st.label), UNCHANGED call \/ (call # None /\ call'.st = call.st)
      PROVE  LabelInv'
  <2>1. LabelsUnique'
    BY <1>0, <1>5, AppendUnique DEF LabelInv, LabelsUnique, Emit, Unused
  <2>2. \A i \in DOMAIN lir' : (i \in DOMAIN lir /\ lir'[i] = lir[i]) \/ lir'[i] = st
    BY <1>0, <1>5 DEF Emit
  <2>3. QED
    BY <1>5, <2>1, <2>2 DEF LabelInv, UseLabel, Unused
<1>6. CASE call # None /\ Emit(call.st) /\ call' = None /\ UNCHANGED labels_used
  <2>1. call.st \in Statements
    BY <1>6, CallStatement
  <2>2. LabelsUnique'
    BY <1>0, <1>6, <2>1, AppendUnique DEF LabelInv, LabelsUnique, Emit
  <2>3. \A i \in DOMAIN lir' : (i \in DOMAIN lir /\ lir'[i] = lir[i]) \/ lir'[i] = call.st
    BY <1>0, <1>6, <2>1 DEF Emit
  <2>4. QED
    BY <1>6, <2>2, <2>3 DEF LabelInv
<1>7. QED
  <2>1. ~IsLabelled(Enter) /\ ~IsLabelled(Exit)
    BY DEF IsLabelled, IsHyp, IsAssertion, Enter, Exit
  <2>2. \A st \in Statements : st.op = "d" => ~IsLabelled(st)
    BY DEF IsLabelled, IsHyp, IsAssertion
  <2>3. QED
    BY <2>1, <2>2, <1>1, <1>2, <1>3, <1>4, <1>5, <1>6
       DEF Step, vars, OpensBlock, ClosesBlock, Writes, FloatRefused, FinishAssertion

\* No two statements of a unit have the same label, whatever the nesting of its
\* blocks and whichever calls failed (E_DUPLICATE_LABEL, _labels_used).
THEOREM LabelsAreUnique == Spec => []LabelsUnique
<1>1. Init => LabelInv
  BY DEF Init, LabelInv, LabelsUnique
<1>2. LabelInv => LabelsUnique
  BY DEF LabelInv
<1>3. QED
  BY <1>1, <1>2, LabelStep, TypeCorrect, PTL DEF Spec

-----------------------------------------------------------------------------
(* Blocks *)

\* The builder's own stack counts the blocks open in the text, at no point of
\* the text is a block closed that was not opened, and finish() finds only the
\* root scope.
BlockInv ==
    /\ Depth(lir, Len(lir)) = Top - 1
    /\ \A i \in 1..Len(lir) : Depth(lir, i) >= 0
    /\ done => Top = 1

\* The effect on the blocks of writing one statement.
LEMMA WriteBlocks ==
    ASSUME TypeOK, BlockInv, NEW st \in Statements, Emit(st),
           Len(scopes') \in Nat, Len(scopes') >= 1,
           Len(scopes') = CASE st.op = "enter" -> Top + 1
                            [] st.op = "exit" -> Top - 1
                            [] OTHER -> Top
    PROVE  /\ Depth(lir', Len(lir')) = Len(scopes') - 1
           /\ \A i \in 1..Len(lir') : Depth(lir', i) >= 0
<1>1. lir \in Seq(Statements) /\ Len(lir) \in Nat /\ lir' = Append(lir, st)
  BY DEF TypeOK, Emit
<1>2. Len(lir') = Len(lir) + 1
  BY <1>1
<1>3. Depth(lir, Len(lir)) = Top - 1 /\ Top \in Nat
  BY DEF BlockInv, TypeOK, Top
<1>4. Depth(lir', Len(lir')) = Len(scopes') - 1
  BY <1>1, <1>2, <1>3, DepthAppend
<1>5. \A i \in 1..Len(lir) : Depth(lir', i) = Depth(lir, i)
  BY <1>1, DepthAppend
<1>6. ASSUME NEW i \in 1..Len(lir') PROVE Depth(lir', i) >= 0
  <2>1. CASE i \in 1..Len(lir)
    <3>1. Depth(lir', i) = Depth(lir, i)
      BY <1>5, <2>1
    <3>2. Depth(lir, i) >= 0
      BY <2>1 DEF BlockInv
    <3>3. QED
      BY <3>1, <3>2
  <2>2. CASE i = Len(lir')
    <3>1. Len(scopes') - 1 >= 0
      OBVIOUS
    <3>2. QED
      BY <1>4, <2>2, <3>1
  <2>3. QED
    BY <1>1, <1>2, <2>1, <2>2
<1>7. QED
  BY <1>4, <1>6

LEMMA BlockStep == TypeOK /\ BlockInv /\ [Next]_vars => BlockInv'
<1> SUFFICES ASSUME TypeOK, BlockInv, [Next]_vars, Step PROVE BlockInv'
  BY NextIsStep
<1>0. scopes \in Seq(Scopes) /\ Len(scopes) \in Nat \ {0}
  BY DEF TypeOK, Top
<1>1. done' => Len(scopes') = 1
  <2>1. done' = done \/ (UNCHANGED scopes /\ Top = 1)
    BY DEF Next, vars, PushScope, PopScope, F, E, A, P, D, BeginAssertion, FloatKnown,
           FloatNew, FloatRefused, FinishAssertion, UseExistingFloating, Export, Finish
  <2>2. Len(scopes') = Top \/ ~done
    BY DEF Step, vars, SameBlocks, OpensBlock, ClosesBlock, Writes, Top
  <2>3. QED
    BY <2>1, <2>2 DEF BlockInv, Top
<1>2. ASSUME NEW st \in Statements, Emit(st), Len(scopes') \in Nat, Len(scopes') >= 1,
             Len(scopes') = CASE st.op = "enter" -> Top + 1
                              [] st.op = "exit" -> Top - 1
                              [] OTHER -> Top
      PROVE  BlockInv'
  BY <1>1, <1>2, WriteBlocks DEF BlockInv, Top
<1>3. CASE OpensBlock
  <2>1. Enter \in Statements /\ Enter.op = "enter"
    BY DEF Enter, Statements
  <2>2. Len(scopes') = Top + 1 /\ Len(scopes') \in Nat /\ Len(scopes') >= 1
    BY <1>0, <1>3 DEF OpensBlock, Top
  <2>3. QED
    BY <1>2, <1>3, <2>1, <2>2 DEF OpensBlock
<1>4. CASE ClosesBlock
  <2>1. Exit \in Statements /\ Exit.op = "exit"
    BY DEF Exit, Statements
  <2>2. Top \in Nat /\ Top > 1 /\ Len(scopes') = Top - 1
    BY <1>0, <1>4, SubSeqProperties DEF ClosesBlock, Popped, Top
  <2>3. Len(scopes') \in Nat /\ Len(scopes') >= 1
    BY <2>2
  <2>4. QED
    BY <1>2, <1>4, <2>1, <2>2, <2>3 DEF ClosesBlock
<1>5. ASSUME NEW st \in Statements, Writes(st) PROVE BlockInv'
  BY <1>0, <1>2, <1>5 DEF Writes, SameBlocks, Top
<1>6. CASE UNCHANGED lir /\ Len(scopes') = Len(scopes)
  BY <1>1, <1>6 DEF BlockInv, Top
<1>7. QED
  BY <1>3, <1>4, <1>5, <1>6, CallStatement
     DEF Step, vars, SameBlocks, Top, FloatRefused, FinishAssertion

LEMMA InitBlocks == Init => BlockInv
<1> SUFFICES ASSUME Init PROVE BlockInv
  OBVIOUS
<1>1. Len(lir) = 0 /\ Top = 1
  BY DEF Init, Top
<1>2. \A op : Count(lir, 0, op) = 0
  BY FS_EmptySet DEF Count
<1>3. Depth(lir, Len(lir)) = 0
  BY <1>1, <1>2 DEF Depth
<1>4. QED
  BY <1>1, <1>3 DEF Init, BlockInv

\* The depth of the scope stack is the number of blocks open in the text, and
\* a finished unit is balanced (block(), _push_scope, _pop_scope).
THEOREM BlocksBalance == Spec => []BlocksAgree
<1>1. Init => BlockInv
  BY InitBlocks
<1>2. BlockInv => BlocksAgree
  BY DEF BlockInv, BlocksAgree, Balanced
<1>3. QED
  BY <1>1, <1>2, BlockStep, TypeCorrect, PTL DEF Spec

-----------------------------------------------------------------------------
(* The active $f, level by level *)

\* The active $f of v that were written with i scopes open.
LevelFloats(s, v, i) == {j \in ActiveF(s, Len(s) + 1) : s[j].var = v /\ Depth(s, j) = i - 1}

\* What scope i believes of v is what level i of the text says: a label of the
\* unit is the last active $f of the level, no label means that there is none, and
\* a foreign label was borrowed.  For the innermost belief alone this would not be
\* inductive: a block that is left uncovers the scopes below it.
LevelOK(i, v) ==
    /\ scopes[i].f[v] \in LocalLabels =>
          \E j \in LevelFloats(lir, v, i) :
             lir[j].label = scopes[i].f[v] /\ \A k \in LevelFloats(lir, v, i) : k <= j
    /\ scopes[i].f[v] = None => LevelFloats(lir, v, i) = {}
    /\ scopes[i].f[v] \in ForeignLabels => v \in borrowed
FloatInv == \A i \in 1..Top, v \in Vars : LevelOK(i, v)

\* The active $f of a level after one more statement.
LEMMA LevelFloatsAppend ==
    ASSUME NEW s \in Seq(Statements), NEW st \in Statements, NEW v \in Vars, NEW i \in Nat \ {0}
    PROVE  LET t == Append(s, st)
               d == Depth(t, Len(s) + 1)
           IN  /\ \A j \in 1..Len(s) :
                     j \in LevelFloats(t, v, i) <=> j \in LevelFloats(s, v, i) /\ d >= i - 1
               /\ Len(s) + 1 \in LevelFloats(t, v, i) <=> st.op = "f" /\ st.var = v /\ d = i - 1
               /\ LevelFloats(t, v, i) \subseteq 1 .. Len(s) + 1
               /\ LevelFloats(s, v, i) \subseteq 1..Len(s)
               /\ LevelFloats(s, v, i) # {} => i - 1 <= Depth(s, Len(s))
<1> DEFINE t == Append(s, st)
           n == Len(s)
           d == Depth(t, n + 1)
<1>1. /\ n \in Nat /\ Len(t) = n + 1 /\ t[n + 1] = st /\ \A k \in 1..n : t[k] = s[k]
  OBVIOUS
<1>2. /\ \A j \in 1..n : InScope(t, j, n + 2) <=> InScope(s, j, n + 1) /\ d >= Depth(s, j)
      /\ \A j \in 1..n : InScope(s, j, n + 1) => Depth(s, j) <= Depth(s, n)
      /\ InScope(t, n + 1, n + 2)
  BY InScopeAppend
<1>3. \A j \in 0..n : Depth(t, j) = Depth(s, j)
  BY DepthAppend
<1> HIDE DEF t, d, n
<1>4. \A j \in 1..n :
        j \in LevelFloats(s, v, i) <=> s[j].op = "f" /\ InScope(s, j, n + 1) /\ s[j].var = v /\ Depth(s, j) = i - 1
  BY DEF LevelFloats, ActiveF, n
<1>5. Len(t) + 1 = n + 2
  BY <1>1
<1>6. \A j \in 1 .. n + 1 :
        j \in LevelFloats(t, v, i) <=> t[j].op = "f" /\ InScope(t, j, n + 2) /\ t[j].var = v /\ Depth(t, j) = i - 1
  BY <1>1, <1>5 DEF LevelFloats, ActiveF
<1>7. LevelFloats(t, v, i) \subseteq 1 .. n + 1 /\ LevelFloats(s, v, i) \subseteq 1..n
  BY <1>1 DEF LevelFloats, ActiveF, n
<1>8. ASSUME NEW j \in 1..n PROVE j \in LevelFloats(t, v, i) <=> j \in LevelFloats(s, v, i) /\ d >= i - 1
  <2>1. j \in 1 .. n + 1 /\ j \in 0..n
    BY <1>1
  <2>2. t[j] = s[j] /\ Depth(t, j) = Depth(s, j)
    BY <1>1, <1>3, <2>1
  <2>3. QED
    BY <1>2, <1>4, <1>6, <2>1, <2>2
<1>9. n + 1 \in LevelFloats(t, v, i) <=> st.op = "f" /\ st.var = v /\ d = i - 1
  <2>1. n + 1 \in 1 .. n + 1
    BY <1>1
  <2>2. QED
    BY <1>1, <1>2, <1>6, <2>1 DEF d
<1>10. LevelFloats(s, v, i) # {} => i - 1 <= Depth(s, n)
  <2>1. SUFFICES ASSUME NEW j \in LevelFloats(s, v, i) PROVE i - 1 <= Depth(s, n)
    OBVIOUS
  <2>2. j \in 1..n
    BY <1>7
  <2>3. QED
    BY <1>2, <1>4, <2>1, <2>2
<1>11. QED
  BY <1>7, <1>8, <1>9, <1>10 DEF t, d, n

\* What a step does to the active $f of the scopes and to the statements.
SameFloats == Len(scopes') = Top /\ \A i \in 1..Top : scopes'[i].f = scopes[i].f
SetsFloat(v, l) ==
    /\ Len(scopes') = Top
    /\ \A i \in 1 .. Top - 1 : scopes'[i].f = scopes[i].f
    /\ scopes'[Top].f = [scopes[Top].f EXCEPT ![v] = l]

FloatShape ==
    /\ borrowed \subseteq borrowed'
    /\ \/ OpensBlock
       \/ ClosesBlock
       \/ SameFloats /\ UNCHANGED lir
       \/ SameFloats /\ \E st \in Statements : st.op \notin {"enter", "exit", "f"} /\ Emit(st)
       \/ \E v \in Vars, l \in LocalLabels, tc \in Consts :
             SetsFloat(v, l) /\ Emit(FloatingHyp(l, tc, v))
       \/ \E v \in Vars, l \in ForeignLabels : SetsFloat(v, l) /\ UNCHANGED lir /\ v \in borrowed'

LEMMA NameOnly ==
    ASSUME TypeOK, NEW l \in LocalLabels, scopes' = [scopes EXCEPT ![Top] = WithName(@, l)]
    PROVE  SameFloats
<1>1. scopes \in Seq(Scopes) /\ Top \in 1..Len(scopes) /\ Top = Len(scopes)
  BY DEF TypeOK, Top
<1>2. WithName(scopes[Top], l).f = scopes[Top].f
  BY <1>1 DEF WithName, Scopes
<1>3. scopes' = [scopes EXCEPT ![Top] = WithName(scopes[Top], l)]
  OBVIOUS
<1> DEFINE new == WithName(scopes[Top], l)
<1> HIDE DEF new
<1>4. Len(scopes') = Len(scopes) /\ \A i \in 1..Len(scopes) : scopes'[i] = IF i = Top THEN new ELSE scopes[i]
  BY <1>1, <1>3 DEF new
<1>5. QED
  BY <1>1, <1>2, <1>4 DEF SameFloats, new

LEMMA AddFloatSets ==
    ASSUME TypeOK, NEW l \in LocalLabels, NEW tc \in Consts, NEW v \in Vars, AddFloat(l, tc, v)
    PROVE  SetsFloat(v, l) /\ Emit(FloatingHyp(l, tc, v))
<1> DEFINE new == [WithName(scopes[Top], l) EXCEPT !.f[v] = l]
<1>1. scopes \in Seq(Scopes) /\ Top \in 1..Len(scopes) /\ Top = Len(scopes)
  BY DEF TypeOK, Top
<1>2. new.f = [scopes[Top].f EXCEPT ![v] = l]
  BY <1>1 DEF WithName, Scopes
<1>3. scopes' = [scopes EXCEPT ![Top] = new]
  BY DEF AddFloat
<1> HIDE DEF new
<1>4. Len(scopes') = Len(scopes) /\ \A i \in 1..Len(scopes) : scopes'[i] = IF i = Top THEN new ELSE scopes[i]
  BY <1>1, <1>3
<1>5. SetsFloat(v, l)
  BY <1>1, <1>2, <1>4 DEF SetsFloat
<1>6. Emit(FloatingHyp(l, tc, v))
  BY DEF AddFloat
<1>7. QED
  BY <1>5, <1>6

LEMMA NextHasFloatShape == ASSUME TypeOK, [Next]_vars PROVE FloatShape
<1> USE DEF FloatShape
<1>0. SameFloats \/ ~UNCHANGED scopes
  BY DEF SameFloats, Top
<1>1. CASE PushScope
  BY <1>1 DEF PushScope, OpensBlock, Idle
<1>2. CASE PopScope
  BY <1>2 DEF PopScope, ClosesBlock, Idle
<1>3. ASSUME NEW l \in AllLabels, NEW tc \in Consts, NEW v \in Vars, F(l, tc, v) PROVE FloatShape
  <2>1. l \in LocalLabels /\ AddFloat(l, tc, v) /\ borrowed' = borrowed
    BY <1>3 DEF F, LocalLabel
  <2>2. QED
    BY <2>1, AddFloatSets
<1>4. ASSUME NEW l \in AllLabels, NEW tc \in Consts, NEW expr \in Exprs, E(l, tc, expr) PROVE FloatShape
  <2>1. l \in LocalLabels /\ Emit(EssentialHyp(l, tc, expr)) /\ borrowed' = borrowed /\ SameFloats
    BY <1>4, NameOnly DEF E, LocalLabel
  <2>2. EssentialHyp(l, tc, expr) \in Statements /\ EssentialHyp(l, tc, expr).op = "e"
    BY <2>1 DEF EssentialHyp, Statements
  <2>3. QED
    BY <2>1, <2>2
<1>5. ASSUME NEW st, BeginAssertion(st) PROVE FloatShape
  <2>1. st.label \in LocalLabels /\ borrowed' = borrowed /\ lir' = lir /\ SameFloats
    BY <1>5, NameOnly DEF BeginAssertion, LocalLabel
  <2>2. QED
    BY <2>1
<1>6. ASSUME NEW expr \in Exprs, D(expr) PROVE FloatShape
  <2>1. DisjointVar(expr) \in Statements /\ DisjointVar(expr).op = "d"
    BY DEF DisjointVar, Statements
  <2>2. SameFloats /\ Emit(DisjointVar(expr)) /\ borrowed' = borrowed
    BY <1>0, <1>6 DEF D
  <2>3. QED
    BY <2>1, <2>2
<1>7. CASE FloatNew
  <2> DEFINE l == AutoLabel(NextToFloat)
  <2>1. Floating /\ SuffixLeft(NextToFloat) /\ call # None /\ borrowed' = borrowed
        /\ AddFloat(l, call.st.tc, NextToFloat)
    BY <1>7 DEF FloatNew, Floating
  <2>2. NextToFloat \in Vars /\ l \in LocalLabels /\ call.st.tc \in Consts
    BY <2>1, NextToFloatChosen, AutoLabelLocal, CallStatement
  <2>3. QED
    BY <2>1, <2>2, AddFloatSets
<1>8. CASE FinishAssertion
  <2>1. call.st \in Statements /\ call.st.op \in {"a", "p"} /\ Emit(call.st) /\ SameFloats /\ borrowed' = borrowed
    BY <1>0, <1>8, CallStatement DEF FinishAssertion
  <2>2. QED
    BY <2>1
<1>9. ASSUME NEW v \in Vars, NEW l \in ForeignLabels, UseExistingFloating(v, l) PROVE FloatShape
  <2> DEFINE new == [scopes[Top] EXCEPT !.f[v] = l]
  <2>1. scopes \in Seq(Scopes) /\ Top \in 1..Len(scopes) /\ Top = Len(scopes)
    BY DEF TypeOK, Top
  <2>2. new.f = [scopes[Top].f EXCEPT ![v] = l]
    BY <2>1 DEF Scopes
  <2>3. scopes' = [scopes EXCEPT ![Top] = new] /\ borrowed' = borrowed \cup {v} /\ lir' = lir
    BY <1>9 DEF UseExistingFloating
  <2> HIDE DEF new
  <2>4. Len(scopes') = Len(scopes) /\ \A i \in 1..Len(scopes) : scopes'[i] = IF i = Top THEN new ELSE scopes[i]
    BY <2>1, <2>3
  <2>5. SetsFloat(v, l)
    BY <2>1, <2>2, <2>4 DEF SetsFloat
  <2>6. QED
    BY <2>3, <2>5
<1>10. CASE FloatKnown \/ FloatRefused \/ Finish \/ (\E l \in Exportable : Export(l)) \/ UNCHANGED vars
  BY <1>0, <1>10 DEF FloatKnown, FloatRefused, Finish, Export, vars
<1>11. QED
  BY <1>1, <1>2, <1>3, <1>4, <1>5, <1>6, <1>7, <1>8, <1>9, <1>10 DEF Next, A, P

\* Two sets of positions that agree on 1..n are equal, n + 1 being in neither.
LEMMA SamePositions ==
    ASSUME NEW n \in Nat, NEW S, NEW T, S \subseteq 1 .. n + 1, T \subseteq 1..n, n + 1 \notin S,
           \A j \in 1..n : j \in S <=> j \in T
    PROVE  S = T
<1>1. ASSUME NEW j \in S PROVE j \in T
  <2>1. j \in 1..n
    OBVIOUS
  <2>2. QED
    BY <2>1
<1>2. ASSUME NEW j \in T PROVE j \in S
  OBVIOUS
<1>3. QED
  BY <1>1, <1>2

LEMMA FloatStep == ASSUME TypeOK, BlockInv, FloatInv, [Next]_vars, TypeOK' PROVE FloatInv'
<1>1. FloatShape /\ borrowed \subseteq borrowed'
  BY NextHasFloatShape DEF FloatShape
<1>2. /\ lir \in Seq(Statements) /\ Len(lir) \in Nat /\ Top \in Nat \ {0} /\ Top = Len(scopes)
      /\ scopes \in Seq(Scopes) /\ Depth(lir, Len(lir)) = Top - 1
  BY DEF TypeOK, BlockInv, Top
<1>3. None \notin AllLabels /\ LocalLabels \cap ForeignLabels = {}
  BY BuilderAssumption
<1>4. SUFFICES ASSUME NEW i \in 1..Len(scopes'), NEW v \in Vars PROVE LevelOK(i, v)'
  BY DEF FloatInv, Top
<1> DEFINE n == Len(lir)
           d == Depth(lir', n + 1)
           LF == LevelFloats(lir, v, i)
           LFN == LevelFloats(lir', v, i)
<1>5. ASSUME NEW st \in Statements, Emit(st)
      PROVE  /\ \A j \in 1..n : j \in LFN <=> j \in LF /\ d >= i - 1
             /\ n + 1 \in LFN <=> st.op = "f" /\ st.var = v /\ d = i - 1
             /\ LFN \subseteq 1 .. n + 1 /\ LF \subseteq 1..n
             /\ LF # {} => i - 1 <= Top - 1
             /\ lir'[n + 1] = st /\ \A j \in 1..n : lir'[j] = lir[j]
             /\ d = CASE st.op = "enter" -> Top [] st.op = "exit" -> Top - 2 [] OTHER -> Top - 1
  <2>1. lir' = Append(lir, st) /\ i \in Nat \ {0}
    BY <1>5 DEF Emit
  <2>2. /\ \A j \in 1..n : j \in LFN <=> j \in LF /\ d >= i - 1
        /\ n + 1 \in LFN <=> st.op = "f" /\ st.var = v /\ d = i - 1
        /\ LFN \subseteq 1 .. n + 1 /\ LF \subseteq 1..n
        /\ LF # {} => i - 1 <= Top - 1
    BY <1>2, <1>5, <2>1, LevelFloatsAppend
  <2>3. lir'[n + 1] = st /\ \A j \in 1..n : lir'[j] = lir[j]
    BY <1>2, <1>5, <2>1
  <2>4. d = CASE st.op = "enter" -> Depth(lir, n) + 1
              [] st.op = "exit" -> Depth(lir, n) - 1
              [] OTHER -> Depth(lir, n)
    BY <1>2, <1>5, <2>1, DepthAppend
  <2>5. d = CASE st.op = "enter" -> Top [] st.op = "exit" -> Top - 2 [] OTHER -> Top - 1
    BY <1>2, <2>4
  <2>6. QED
    BY <2>2, <2>3, <2>5
<1>6. i <= Top => LevelOK(i, v)
  BY <1>2 DEF FloatInv
<1> HIDE DEF LF, LFN, d, n
<1>7. n \in Nat
  BY <1>2 DEF n
\* The scope's belief is unchanged, and so is its level of the text.
<1>8. ASSUME i <= Top, scopes'[i].f[v] = scopes[i].f[v], LFN = LF, \A j \in LF : lir'[j] = lir[j]
      PROVE  LevelOK(i, v)'
  BY <1>1, <1>6, <1>8 DEF LevelOK, LF, LFN
<1>9. CASE OpensBlock
  <2>1. Emit(Enter) /\ Enter \in Statements /\ Enter.op = "enter" /\ scopes' = Append(scopes, EmptyScope)
    BY <1>9 DEF OpensBlock, Enter, Statements
  <2>2. i \in 1 .. Top + 1 /\ \A k \in 1..Top : scopes'[k] = scopes[k]
        /\ scopes'[Top + 1] = EmptyScope
    BY <1>2, <2>1
  <2>3. LFN = LF
    <3>1. /\ \A j \in 1..n : j \in LFN <=> j \in LF /\ d >= i - 1
          /\ n + 1 \notin LFN /\ LFN \subseteq 1 .. n + 1 /\ LF \subseteq 1..n /\ d = Top
      BY <1>5, <2>1
    <3>2. d >= i - 1
      BY <1>2, <2>2, <3>1
    <3>3. QED
      BY <1>7, <3>1, <3>2, SamePositions
  <2>4. CASE i = Top + 1
    <3>1. LF = {} /\ scopes'[i].f[v] = None
      BY <1>2, <1>5, <2>1, <2>2, <2>4 DEF EmptyScope
    <3>2. QED
      BY <1>3, <2>3, <3>1 DEF LevelOK, LFN, AllLabels
  <2>5. CASE i # Top + 1
    BY <1>2, <1>5, <1>8, <2>1, <2>2, <2>3, <2>5
  <2>6. QED
    BY <2>4, <2>5
<1>10. CASE ClosesBlock
  <2>1. Emit(Exit) /\ Exit \in Statements /\ Exit.op = "exit" /\ Top > 1 /\ scopes' = Popped
    BY <1>10 DEF ClosesBlock, Exit, Statements
  <2>2. Len(scopes') = Top - 1 /\ \A k \in 1 .. Top - 1 : scopes'[k] = scopes[k]
    BY <1>2, <2>1 DEF Popped
  <2>3. i <= Top - 1 /\ scopes'[i] = scopes[i]
    BY <1>2, <2>2
  <2>4. LFN = LF
    <3>1. /\ \A j \in 1..n : j \in LFN <=> j \in LF /\ d >= i - 1
          /\ n + 1 \notin LFN /\ LFN \subseteq 1 .. n + 1 /\ LF \subseteq 1..n /\ d = Top - 2
      BY <1>5, <2>1
    <3>2. d >= i - 1
      BY <1>2, <2>3, <3>1
    <3>3. QED
      BY <1>7, <3>1, <3>2, SamePositions
  <2>5. QED
    BY <1>2, <1>5, <1>8, <2>1, <2>3, <2>4
<1>11. CASE SameFloats /\ UNCHANGED lir
  BY <1>2, <1>8, <1>11 DEF SameFloats, LF, LFN
<1>12. ASSUME SameFloats, NEW st \in Statements, st.op \notin {"enter", "exit", "f"}, Emit(st)
       PROVE  LevelOK(i, v)'
  <2>1. i <= Top /\ scopes'[i].f = scopes[i].f
    BY <1>2, <1>12 DEF SameFloats
  <2>2. LFN = LF
    <3>1. /\ \A j \in 1..n : j \in LFN <=> j \in LF /\ d >= i - 1
          /\ n + 1 \notin LFN /\ LFN \subseteq 1 .. n + 1 /\ LF \subseteq 1..n /\ d = Top - 1
      BY <1>5, <1>12
    <3>2. d >= i - 1
      BY <1>2, <2>1, <3>1
    <3>3. QED
      BY <1>7, <3>1, <3>2, SamePositions
  <2>3. QED
    BY <1>5, <1>8, <1>12, <2>1, <2>2
<1>13. ASSUME NEW w \in Vars, NEW l \in LocalLabels, NEW tc \in Consts,
              SetsFloat(w, l), Emit(FloatingHyp(l, tc, w))
       PROVE  LevelOK(i, v)'
  <2> DEFINE st == FloatingHyp(l, tc, w)
  <2>1. st \in Statements /\ st.op = "f" /\ st.var = w /\ st.label = l
    BY DEF FloatingHyp, Statements
  <2>2. i <= Top /\ (i # Top => scopes'[i].f = scopes[i].f)
    BY <1>2, <1>13 DEF SetsFloat
  <2>3. scopes'[Top].f = [scopes[Top].f EXCEPT ![w] = l] /\ scopes[Top].f \in [Vars -> AllLabels \cup {None}]
    <3>1. scopes'[Top].f = [scopes[Top].f EXCEPT ![w] = l]
      BY <1>13 DEF SetsFloat
    <3>2. scopes[Top] \in Scopes
      BY <1>2
    <3>3. QED
      BY <3>1, <3>2 DEF Scopes
  <2> HIDE DEF st
  <2>4. /\ \A j \in 1..n : j \in LFN <=> j \in LF /\ d >= i - 1
        /\ n + 1 \in LFN <=> st.op = "f" /\ st.var = v /\ d = i - 1
        /\ LFN \subseteq 1 .. n + 1 /\ LF \subseteq 1..n
        /\ lir'[n + 1] = st /\ (\A j \in 1..n : lir'[j] = lir[j]) /\ d = Top - 1
    BY <1>5, <1>13, <2>1 DEF st
  <2>5. CASE i = Top /\ v = w
    <3>1. scopes'[i].f[v] = l
      BY <2>3, <2>5
    <3>2. n + 1 \in LFN /\ lir'[n + 1].label = l
      BY <1>2, <2>1, <2>4, <2>5
    <3>3. \A k \in LFN : k <= n + 1
      BY <1>7, <2>4
    <3>4. l # None /\ l \notin ForeignLabels
      BY <1>3 DEF AllLabels
    <3>5. QED
      BY <3>1, <3>2, <3>3, <3>4 DEF LevelOK, LFN
  <2>6. CASE i # Top \/ v # w
    <3>1. n + 1 \notin LFN
      BY <1>2, <2>1, <2>2, <2>4, <2>6
    <3>2. LFN = LF
      <4>1. d >= i - 1
        BY <1>2, <2>2, <2>4
      <4>2. QED
        BY <1>7, <2>4, <3>1, <4>1, SamePositions
    <3>3. scopes'[i].f[v] = scopes[i].f[v]
      BY <2>2, <2>3, <2>6
    <3>4. QED
      BY <1>8, <2>2, <2>4, <3>2, <3>3
  <2>7. QED
    BY <2>5, <2>6
<1>14. ASSUME NEW w \in Vars, NEW l \in ForeignLabels, SetsFloat(w, l), UNCHANGED lir, w \in borrowed'
       PROVE  LevelOK(i, v)'
  <2>1. i <= Top /\ (i # Top => scopes'[i].f = scopes[i].f)
    BY <1>2, <1>14 DEF SetsFloat
  <2>2. scopes'[Top].f = [scopes[Top].f EXCEPT ![w] = l] /\ scopes[Top].f \in [Vars -> AllLabels \cup {None}]
    <3>1. scopes'[Top].f = [scopes[Top].f EXCEPT ![w] = l]
      BY <1>14 DEF SetsFloat
    <3>2. scopes[Top] \in Scopes
      BY <1>2
    <3>3. QED
      BY <3>1, <3>2 DEF Scopes
  <2>3. CASE i = Top /\ v = w
    <3>1. scopes'[i].f[v] = l
      BY <2>2, <2>3
    <3>2. l # None /\ l \notin LocalLabels
      BY <1>3 DEF AllLabels
    <3>3. QED
      BY <1>14, <2>3, <3>1, <3>2 DEF LevelOK
  <2>4. CASE i # Top \/ v # w
    <3>1. scopes'[i].f[v] = scopes[i].f[v]
      BY <2>1, <2>2, <2>4
    <3>2. LFN = LF
      BY <1>14 DEF LF, LFN
    <3>3. QED
      BY <1>8, <1>14, <2>1, <3>1, <3>2
  <2>5. QED
    BY <2>3, <2>4
<1>15. QED
  BY <1>1, <1>9, <1>10, <1>11, <1>12, <1>13, <1>14 DEF FloatShape

\* What the scopes say of the innermost $f follows from what each says of its level:
\* an active $f of a lower level comes before one of a higher level.
LEMMA InnermostFloat == ASSUME TypeOK, BlockInv, FloatInv PROVE ActiveFIsTextual
<1>1. SUFFICES ASSUME NEW v \in Vars
               PROVE  /\ GetActiveF(v) \in LocalLabels =>
                            FloatOf(lir, v, Now) # 0 /\ lir[FloatOf(lir, v, Now)].label = GetActiveF(v)
                      /\ GetActiveF(v) = None => FloatOf(lir, v, Now) = 0
  BY DEF ActiveFIsTextual
<1> DEFINE fs == {j \in ActiveF(lir, Now) : lir[j].var = v}
           n == Len(lir)
           with == {i \in 1..Top : scopes[i].f[v] # None}
<1>2. n \in Nat /\ Top \in Nat \ {0} /\ Depth(lir, n) = Top - 1 /\ Now = n + 1
  BY DEF TypeOK, BlockInv, Top, Now
<1>3. None \notin AllLabels
  BY BuilderAssumption
\* the level of an active $f
<1>4. ASSUME NEW j \in fs
      PROVE  /\ j \in 1..n /\ Depth(lir, j) \in Int /\ InScope(lir, j, Now)
             /\ Depth(lir, j) + 1 \in 1..Top /\ j \in LevelFloats(lir, v, Depth(lir, j) + 1)
  <2>1. j \in 1..n /\ InScope(lir, j, n + 1) /\ lir[j].var = v /\ j \in ActiveF(lir, n + 1)
    BY <1>2 DEF ActiveF
  <2>2. Depth(lir, j) \in Int /\ Depth(lir, j) >= 0
    BY <2>1, <1>2, DepthType DEF BlockInv
  <2>3. Depth(lir, j) <= Depth(lir, n)
    <3>1. n \in j .. (n + 1) - 1
      BY <1>2, <2>1
    <3>2. QED
      BY <2>1, <3>1 DEF InScope
  <2>4. Depth(lir, j) = (Depth(lir, j) + 1) - 1
    BY <2>2
  <2>5. j \in LevelFloats(lir, v, Depth(lir, j) + 1)
    BY <2>1, <2>4 DEF LevelFloats
  <2>6. QED
    BY <1>2, <2>1, <2>2, <2>3, <2>5
<1>5. CASE with = {}
  <2>1. GetActiveF(v) = None
    BY <1>5 DEF GetActiveF
  <2>2. fs = {}
    <3>1. SUFFICES ASSUME NEW j \in fs PROVE FALSE
      OBVIOUS
    <3> DEFINE i == Depth(lir, j) + 1
    <3>2. i \in 1..Top /\ j \in LevelFloats(lir, v, i)
      BY <1>4
    <3> HIDE DEF i, fs
    <3>3. scopes[i].f[v] = None
      BY <1>5, <3>2
    <3>4. QED
      BY <3>2, <3>3 DEF FloatInv, LevelOK
  <2>3. FloatOf(lir, v, Now) = 0
    BY <2>2 DEF FloatOf
  <2>4. QED
    BY <1>3, <2>1, <2>3 DEF AllLabels
<1>6. CASE with # {}
  <2>1. with \subseteq 0..Top
    BY <1>2
  <2>2. PICK m \in with : \A k \in with : k <= m
    BY <1>2, <1>6, <2>1, NatGreatest
  <2>3. (CHOOSE i \in with : \A k \in with : k <= i) = m
    <3> DEFINE c == CHOOSE i \in with : \A k \in with : k <= i
    <3>1. c \in with /\ \A k \in with : k <= c
      BY <2>2
    <3>2. c <= m /\ m <= c /\ c \in Nat /\ m \in Nat
      BY <2>1, <2>2, <3>1
    <3> HIDE DEF c
    <3>3. QED
      BY <3>2 DEF c
  <2>4. GetActiveF(v) = scopes[m].f[v] /\ m \in 1..Top /\ scopes[m].f[v] # None
    BY <1>6, <2>2, <2>3 DEF GetActiveF
  <2>5. ASSUME GetActiveF(v) \in LocalLabels
        PROVE  FloatOf(lir, v, Now) # 0 /\ lir[FloatOf(lir, v, Now)].label = GetActiveF(v)
    <3>1. LevelOK(m, v)
      BY <2>4 DEF FloatInv
    <3>2. PICK j \in LevelFloats(lir, v, m) :
             lir[j].label = GetActiveF(v) /\ \A k \in LevelFloats(lir, v, m) : k <= j
      BY <2>4, <2>5, <3>1 DEF LevelOK
    <3>3. j \in fs /\ Depth(lir, j) = m - 1
      BY <1>2, <3>2 DEF LevelFloats
    <3>4. ASSUME NEW k \in fs PROVE k <= j
      <4> DEFINE i == Depth(lir, k) + 1
      <4>1. i \in 1..Top /\ k \in LevelFloats(lir, v, i) /\ k \in 1..n /\ j \in 1..n
            /\ Depth(lir, k) = i - 1 /\ i \in Nat /\ m \in Nat
        BY <1>2, <1>4, <2>4, <3>3
      <4> HIDE DEF i
      <4>2. CASE i = m
        BY <3>2, <4>1, <4>2
      <4>3. CASE i > m
        <5>1. i \notin with
          BY <2>2, <4>1, <4>3
        <5>2. scopes[i].f[v] = None
          BY <4>1, <5>1
        <5>3. LevelFloats(lir, v, i) = {}
          BY <4>1, <5>2 DEF FloatInv, LevelOK
        <5>4. QED
          BY <4>1, <5>3
      <4>4. CASE i < m
        <5>1. SUFFICES ASSUME k > j PROVE FALSE
          BY <4>1
        <5>2. k \in j .. Now - 1
          BY <1>2, <4>1, <5>1
        <5>3. InScope(lir, j, Now)
          BY <1>4, <3>3
        <5>4. Depth(lir, k) >= Depth(lir, j)
          BY <5>2, <5>3 DEF InScope
        <5>5. QED
          BY <3>3, <4>1, <4>4, <5>4
      <4>5. QED
        BY <4>1, <4>2, <4>3, <4>4
    <3>5. \A k \in fs : k \in 1..n
      BY <1>4
    <3> HIDE DEF fs
    <3>6. (CHOOSE x \in fs : \A k \in fs : k <= x) = j
      <4> DEFINE c == CHOOSE x \in fs : \A k \in fs : k <= x
      <4>1. c \in fs /\ \A k \in fs : k <= c
        BY <3>3, <3>4
      <4>2. c <= j /\ j <= c /\ c \in Nat /\ j \in Nat
        BY <1>2, <3>3, <3>4, <3>5, <4>1
      <4> HIDE DEF c
      <4>3. QED
        BY <4>2 DEF c
    <3>7. FloatOf(lir, v, Now) = j
      BY <3>3, <3>6 DEF FloatOf, fs
    <3>8. QED
      BY <1>2, <3>2, <3>3, <3>5, <3>7
  <2>6. QED
    BY <1>3, <2>4, <2>5 DEF AllLabels
<1>7. QED
  BY <1>5, <1>6

LEMMA FloatInvariant == Spec => [](TypeOK /\ BlockInv /\ FloatInv)
<1>1. Init => BlockInv
  BY InitBlocks
<1>2. Init => FloatInv
  <2> SUFFICES ASSUME Init, NEW i \in 1..Top, NEW v \in Vars PROVE LevelOK(i, v)
    BY DEF FloatInv
  <2>1. None \notin AllLabels /\ lir = <<>> /\ scopes = <<EmptyScope>>
    BY BuilderAssumption DEF Init
  <2>2. Top = 1 /\ i = 1 /\ scopes[i].f[v] = None
    BY <2>1 DEF Top, EmptyScope
  <2>3. LevelFloats(lir, v, i) = {}
    BY <2>1 DEF LevelFloats, ActiveF
  <2>4. QED
    BY <2>1, <2>2, <2>3 DEF LevelOK, AllLabels
<1>3. TypeOK /\ BlockInv /\ FloatInv /\ [Next]_vars /\ TypeOK' => BlockInv' /\ FloatInv'
  BY BlockStep, FloatStep
<1>4. QED
  BY <1>1, <1>2, <1>3, TypeCorrect, PTL DEF Spec

\* The scope stack and the text agree on the active $f of every variable
\* (get_active_f), across nested, left and failed blocks.
THEOREM ActiveFloatIsTextual == Spec => []ActiveFIsTextual
<1>1. TypeOK /\ BlockInv /\ FloatInv => ActiveFIsTextual
  BY InnermostFloat
<1>2. QED
  BY <1>1, FloatInvariant, PTL

-----------------------------------------------------------------------------
(* Automatic $f statements are complete *)

\* What is in scope at an earlier statement does not depend on later ones.
LEMMA FloatOfAppend ==
    ASSUME NEW s \in Seq(Statements), NEW st \in Statements, NEW v \in Vars, NEW i \in 1 .. Len(s) + 1
    PROVE  FloatOf(Append(s, st), v, i) = FloatOf(s, v, i)
<1> DEFINE t == Append(s, st)
           n == Len(s)
           fs == {j \in ActiveF(s, i) : s[j].var = v}
           ft == {j \in ActiveF(t, i) : t[j].var = v}
<1>1. n \in Nat /\ Len(t) = n + 1 /\ \A k \in 1..n : t[k] = s[k]
  OBVIOUS
<1>2. \A j \in 1 .. n + 1 : InScope(t, j, i) <=> InScope(s, j, i)
  BY InScopeAppend
<1>3. ~InScope(t, n + 1, i)
  BY <1>1 DEF InScope
<1> HIDE DEF t, n
<1>4. ASSUME NEW j \in 1 .. n + 1 PROVE j \in ft <=> j \in fs
  <2>1. CASE j = n + 1
    BY <1>1, <1>3, <2>1 DEF ActiveF, n
  <2>2. CASE j # n + 1
    <3>1. j \in 1..n
      BY <1>1, <2>2
    <3>2. QED
      BY <1>1, <1>2, <3>1 DEF ActiveF, n
  <2>3. QED
    BY <2>1, <2>2
<1>5. ft \subseteq 1 .. n + 1 /\ fs \subseteq 1 .. n + 1
  BY <1>1 DEF ActiveF, n
<1>6. ft = fs
  BY <1>4, <1>5
<1>7. FloatOf(t, v, i) = FloatOf(s, v, i)
  <2>1. /\ FloatOf(t, v, i) = IF ft = {} THEN 0 ELSE CHOOSE j \in ft : \A k \in ft : k <= j
        /\ FloatOf(s, v, i) = IF fs = {} THEN 0 ELSE CHOOSE j \in fs : \A k \in fs : k <= j
    BY DEF FloatOf
  <2> HIDE DEF ft, fs
  <2>2. QED
    BY <1>6, <2>1
<1>8. QED
  BY <1>7 DEF t

\* The call in progress has a $f for every variable it is done with, which is
\* what the scope stack answers and, by FloatInv, what the text has.
Declared(v) == \E i \in 1..Top : scopes[i].f[v] # None
CallInv ==
    call # None /\ AutoF /\ call.st.tc = Wff =>
        \A v \in VarsIn(call.st.expr) \ call.todo : Declared(v)

LEMMA DeclaredStays ==
    ASSUME TypeOK, call # None, call' # None, [Next]_vars, NEW v \in Vars, Declared(v)
    PROVE  Declared(v)'
<1>0. None \notin AllLabels
  BY BuilderAssumption
<1>1. scopes \in Seq(Scopes) /\ Top \in Nat \ {0} /\ Top = Len(scopes)
  BY DEF TypeOK, Top
<1>2. PICK i \in 1..Top : scopes[i].f[v] # None
  BY DEF Declared
<1>3. CASE UNCHANGED scopes
  BY <1>2, <1>3 DEF Declared, Top
<1>4. CASE FloatNew
  <2> DEFINE l == AutoLabel(NextToFloat)
  <2>1. l \in LocalLabels /\ NextToFloat \in Vars /\ AddFloat(l, call.st.tc, NextToFloat)
        /\ call.st.tc \in Consts
    BY <1>4, NextToFloatChosen, AutoLabelLocal, CallStatement DEF FloatNew, Floating
  <2>2. SetsFloat(NextToFloat, l)
    BY <2>1, AddFloatSets
  <2>3. scopes'[Top].f = [scopes[Top].f EXCEPT ![NextToFloat] = l] /\ l # None
    BY <1>0, <2>1, <2>2 DEF SetsFloat, AllLabels
  <2>4. scopes[Top].f \in [Vars -> AllLabels \cup {None}]
    BY TopIsScope DEF Scopes
  <2> HIDE DEF l
  <2>5. Len(scopes') = Top /\ (i # Top => scopes'[i].f = scopes[i].f)
    BY <1>1, <2>2 DEF SetsFloat
  <2>6. scopes'[i].f[v] # None
    BY <1>2, <2>3, <2>4, <2>5
  <2>7. QED
    BY <2>5, <2>6 DEF Declared, Top
<1>5. QED
  BY <1>3, <1>4 DEF Next, vars, Idle, PushScope, PopScope, F, E, A, P, D, BeginAssertion, FloatKnown,
                    FloatRefused, FinishAssertion, UseExistingFloating, Export, Finish

LEMMA CallInvStep == ASSUME TypeOK, CallInv, [Next]_vars, TypeOK' PROVE CallInv'
<1>0. None \notin AllLabels
  BY BuilderAssumption
<1>1. SUFFICES ASSUME call' # None, AutoF, call'.st.tc = Wff,
                      NEW v \in VarsIn(call'.st.expr) \ call'.todo
               PROVE  Declared(v)'
  BY DEF CallInv
<1>2. v \in Vars
  BY DEF VarsIn
<1>3. ASSUME call # None, call'.st = call.st, v \notin call.todo PROVE Declared(v)'
  BY <1>1, <1>2, <1>3, DeclaredStays DEF CallInv
<1>4. ASSUME NEW st, BeginAssertion(st) PROVE FALSE
  BY <1>1, <1>4 DEF BeginAssertion, ToFloat
<1>5. CASE FloatKnown
  <2>1. /\ call # None /\ GetActiveF(NextToFloat) # None /\ UNCHANGED scopes
        /\ call' = [call EXCEPT !.todo = @ \ {NextToFloat}]
    BY <1>5 DEF FloatKnown, Floating
  <2>2. call'.st = call.st /\ call'.todo = call.todo \ {NextToFloat}
    BY <2>1 DEF TypeOK, Calls
  <2>3. CASE v = NextToFloat
    <3>1. Declared(v)
      BY <2>1, <2>3 DEF GetActiveF, Declared
    <3>2. QED
      BY <2>1, <3>1 DEF Declared, Top
  <2>4. QED
    BY <1>1, <1>3, <2>1, <2>2, <2>3
<1>6. CASE FloatNew
  <2> DEFINE l == AutoLabel(NextToFloat)
  <2>1. /\ l \in LocalLabels /\ NextToFloat \in Vars /\ AddFloat(l, call.st.tc, NextToFloat)
        /\ call.st.tc \in Consts /\ call # None
        /\ call' = [call EXCEPT !.todo = @ \ {NextToFloat}]
    BY <1>6, NextToFloatChosen, AutoLabelLocal, CallStatement DEF FloatNew, Floating
  <2>2. call'.st = call.st /\ call'.todo = call.todo \ {NextToFloat}
    BY <2>1 DEF TypeOK, Calls
  <2>3. CASE v = NextToFloat
    <3>1. SetsFloat(v, l)
      BY <2>1, <2>3, AddFloatSets
    <3>2. Len(scopes') = Top /\ scopes'[Top].f = [scopes[Top].f EXCEPT ![v] = l] /\ l # None
      BY <1>0, <2>1, <3>1 DEF SetsFloat, AllLabels
    <3>3. scopes[Top].f \in [Vars -> AllLabels \cup {None}]
      BY TopIsScope DEF Scopes
    <3>4. Top \in 1..Top
      BY DEF TypeOK, Top
    <3> HIDE DEF l
    <3>5. scopes'[Top].f[v] # None
      BY <1>2, <3>2, <3>3
    <3>6. QED
      BY <3>2, <3>4, <3>5 DEF Declared, Top
  <2>4. QED
    BY <1>1, <1>3, <2>1, <2>2, <2>3
<1>7. CASE UNCHANGED call
  BY <1>1, <1>3, <1>7
<1>8. QED
  BY <1>1, <1>4, <1>5, <1>6, <1>7
     DEF Next, vars, PushScope, PopScope, F, E, A, P, D, FloatRefused, FinishAssertion,
         UseExistingFloating, Export, Finish

\* A declared variable that was not borrowed has a $f in the text.
LEMMA DeclaredInText ==
    ASSUME TypeOK, FloatInv, NEW v \in Vars \ borrowed, Declared(v)
    PROVE  FloatOf(lir, v, Now) # 0
<1>1. PICK i \in 1..Top : scopes[i].f[v] # None
  BY DEF Declared
<1>2. scopes[i] \in Scopes
  BY DEF TypeOK, Top
<1>3. scopes[i].f[v] \in LocalLabels
  BY <1>1, <1>2 DEF FloatInv, LevelOK, Scopes, AllLabels
<1>4. PICK j \in LevelFloats(lir, v, i) : TRUE
  BY <1>3 DEF FloatInv, LevelOK
<1> DEFINE fs == {k \in ActiveF(lir, Now) : lir[k].var = v}
<1>5. j \in fs /\ fs \subseteq 1..Len(lir) /\ Len(lir) \in Nat
  BY <1>4 DEF LevelFloats, ActiveF, Now, TypeOK
<1> HIDE DEF fs
<1>6. fs \subseteq 0..Len(lir) /\ fs # {}
  BY <1>5
<1>7. PICK m \in fs : \A k \in fs : k <= m
  BY <1>5, <1>6, NatGreatest
<1>8. FloatOf(lir, v, Now) \in fs
  BY <1>6, <1>7 DEF FloatOf, fs
<1>9. QED
  BY <1>5, <1>8

LEMMA CompleteStep ==
    ASSUME TypeOK, FloatInv, CallInv, AutoFloatsComplete, [Next]_vars PROVE AutoFloatsComplete'
<1>1. SUFFICES ASSUME AutoF, NEW i \in DOMAIN lir', IsAssertion(lir'[i]), lir'[i].tc = Wff,
                      NEW v \in VarsIn(lir'[i].expr) \ borrowed'
               PROVE  FloatOf(lir', v, i) # 0
  BY DEF AutoFloatsComplete
<1>2. lir \in Seq(Statements) /\ Len(lir) \in Nat /\ v \in Vars /\ borrowed \subseteq borrowed'
  BY NextHasFloatShape DEF TypeOK, VarsIn, FloatShape
<1>3. CASE UNCHANGED lir
  BY <1>1, <1>2, <1>3 DEF AutoFloatsComplete
<1>4. ASSUME NEW st \in Statements, Emit(st), i # Len(lir) + 1 PROVE FloatOf(lir', v, i) # 0
  <2>1. i \in 1..Len(lir) /\ lir'[i] = lir[i] /\ lir' = Append(lir, st)
    BY <1>2, <1>4 DEF Emit
  <2>2. FloatOf(lir, v, i) # 0
    BY <1>1, <1>2, <2>1 DEF AutoFloatsComplete
  <2>3. QED
    BY <1>2, <2>1, <2>2, FloatOfAppend
<1>5. ASSUME NEW st \in Statements, Emit(st), ~IsAssertion(st) PROVE FloatOf(lir', v, i) # 0
  <2>1. i # Len(lir) + 1
    BY <1>1, <1>2, <1>5 DEF Emit
  <2>2. QED
    BY <1>4, <1>5, <2>1
<1>6. CASE FinishAssertion /\ Writes(call.st)
  <2>1. call # None /\ call.todo = {} /\ lir' = Append(lir, call.st) /\ call.st \in Statements
    BY <1>6 DEF FinishAssertion, Emit, Writes
  <2>2. CASE i = Len(lir) + 1
    <3>1. lir'[i] = call.st
      BY <1>2, <2>1, <2>2
    <3>2. Declared(v)
      BY <1>1, <2>1, <3>1 DEF CallInv
    <3>3. FloatOf(lir, v, i) # 0
      BY <1>2, <2>2, <3>2, DeclaredInText DEF Now
    <3>4. QED
      BY <1>2, <2>1, <2>2, <3>3, FloatOfAppend
  <2>3. QED
    BY <1>4, <2>1, <2>2 DEF Emit
<1>7. Enter \in Statements /\ ~IsAssertion(Enter) /\ Exit \in Statements /\ ~IsAssertion(Exit)
  BY DEF Enter, Exit, Statements, IsAssertion
<1>8. Step
  BY NextIsStep
<1>9. ASSUME NEW st \in Statements, Writes(st), st.op \in {"d", "f", "e"} PROVE FloatOf(lir', v, i) # 0
  BY <1>5, <1>9 DEF Writes, IsAssertion
<1>10. QED
  BY <1>3, <1>5, <1>6, <1>7, <1>8, <1>9
     DEF Step, OpensBlock, ClosesBlock, IsHyp, FloatRefused, vars

\* An assertion of typecode wff comes after a $f in scope for each of its variables
\* that the author did not borrow one for (Auto.mandatory_f).
THEOREM AutoFloatsAreComplete == Spec => []AutoFloatsComplete
<1>1. Init => CallInv /\ AutoFloatsComplete
  BY DEF Init, CallInv, AutoFloatsComplete
<1>2. TypeOK /\ CallInv /\ [Next]_vars /\ TypeOK' => CallInv'
  BY CallInvStep
<1>3. TypeOK /\ FloatInv /\ CallInv /\ AutoFloatsComplete /\ [Next]_vars => AutoFloatsComplete'
  BY CompleteStep
<1>4. QED
  BY <1>1, <1>2, <1>3, TypeCorrect, FloatInvariant, PTL DEF Spec

-----------------------------------------------------------------------------
(* Every used label heads a statement *)

\* During a call the label of its assertion is the one used label without one.
OrphanInv ==
    AsSpelled => labels_used = LabelsOf(lir) \cup (IF call = None THEN {} ELSE {call.st.label})

LEMMA LabelsAppend ==
    ASSUME NEW s \in Seq(Statements), NEW st \in Statements
    PROVE  LabelsOf(Append(s, st)) = LabelsOf(s) \cup (IF IsLabelled(st) THEN {st.label} ELSE {})
<1> DEFINE t == Append(s, st)
<1>1. /\ DOMAIN t = 1 .. Len(s) + 1 /\ DOMAIN s = 1..Len(s) /\ Len(s) \in Nat
      /\ t[Len(s) + 1] = st /\ \A i \in DOMAIN s : t[i] = s[i]
  OBVIOUS
<1> HIDE DEF t
<1>2. DOMAIN t = DOMAIN s \cup {Len(s) + 1}
  BY <1>1
<1>3. QED
  BY <1>1, <1>2 DEF LabelsOf, t

\* f() can refuse an automatic label only when the resolver respelled it.
LEMMA RefusedIsRespelled == ASSUME TypeOK, FloatRefused PROVE ~AsSpelled
<1> DEFINE p == <<NextToFloat, FreshSuffix(NextToFloat)>>
<1>1. SuffixLeft(NextToFloat) /\ NextToFloat \in Vars /\ AutoLabel(NextToFloat) \in labels_used
  BY NextToFloatChosen DEF FloatRefused, Unused
<1>2. p \in Vars \X (0..MaxSuffix) /\ ~SpellingTaken(AutoName[p])
  BY <1>1, AutoLabelLocal
<1>3. CanonLabel[AutoName[p]] \in labels_used /\ AutoName[p] \notin labels_used
  BY <1>1, <1>2 DEF AutoLabel, SpellingTaken
<1>4. QED
  BY <1>2, <1>3 DEF AsSpelled

LEMMA OrphanStep == ASSUME TypeOK, OrphanInv, [Next]_vars PROVE OrphanInv'
<1>1. Step /\ lir \in Seq(Statements)
  BY NextIsStep DEF TypeOK
<1>2. labels_used \subseteq labels_used'
  BY <1>1 DEF Step, UseLabel, FloatRefused, FinishAssertion, vars
<1>3. SUFFICES ASSUME AsSpelled'
               PROVE  (labels_used = LabelsOf(lir) \cup (IF call = None THEN {} ELSE {call.st.label}))'
  BY DEF OrphanInv
<1>4. AsSpelled
  BY <1>2, <1>3 DEF AsSpelled
<1>5. labels_used = LabelsOf(lir) \cup (IF call = None THEN {} ELSE {call.st.label})
  BY <1>4 DEF OrphanInv
<1>6. ASSUME NEW st \in Statements, Emit(st)
      PROVE  LabelsOf(lir)' = LabelsOf(lir) \cup (IF IsLabelled(st) THEN {st.label} ELSE {})
  <2>1. LabelsOf(lir)' = LabelsOf(lir')
    BY DEF LabelsOf
  <2>2. QED
    BY <1>1, <1>6, <2>1, LabelsAppend DEF Emit
<1>7. UNCHANGED lir => LabelsOf(lir)' = LabelsOf(lir)
  BY DEF LabelsOf
<1>8. CASE UNCHANGED vars
  BY <1>5, <1>7, <1>8 DEF vars
<1>9. CASE (OpensBlock \/ ClosesBlock) /\ UNCHANGED <<labels_used, call>>
  <2>1. Enter \in Statements /\ ~IsLabelled(Enter) /\ Exit \in Statements /\ ~IsLabelled(Exit)
    BY DEF Enter, Exit, Statements, IsLabelled, IsHyp, IsAssertion
  <2>2. LabelsOf(lir)' = LabelsOf(lir)
    BY <1>6, <1>9, <2>1 DEF OpensBlock, ClosesBlock
  <2>3. QED
    BY <1>5, <1>9, <2>2
<1>10. CASE SameBlocks /\ UNCHANGED <<lir, labels_used, call>>
  BY <1>5, <1>7, <1>10
<1>11. ASSUME NEW st \in Statements, Writes(st), st.op = "d", UNCHANGED <<labels_used, call>>
       PROVE  (labels_used = LabelsOf(lir) \cup (IF call = None THEN {} ELSE {call.st.label}))'
  <2>1. LabelsOf(lir)' = LabelsOf(lir)
    BY <1>6, <1>11 DEF Writes, IsLabelled, IsHyp, IsAssertion
  <2>2. QED
    BY <1>5, <1>11, <2>1
<1>12. ASSUME NEW st \in Statements, Writes(st), IsHyp(st), UseLabel(st.label),
              call' = call \/ (call # None /\ call' \in Calls /\ call'.st = call.st)
       PROVE  (labels_used = LabelsOf(lir) \cup (IF call = None THEN {} ELSE {call.st.label}))'
  <2>1. LabelsOf(lir)' = LabelsOf(lir) \cup {st.label}
    BY <1>6, <1>12 DEF Writes, IsLabelled
  <2>2. call' \in Calls => call' # None
    BY NoneAssumption
  <2>3. QED
    BY <1>5, <1>12, <2>1, <2>2 DEF UseLabel
<1>13. ASSUME NEW st \in Statements, UseLabel(st.label), UNCHANGED lir, call = None,
              call' \in Calls, call'.st = st
       PROVE  (labels_used = LabelsOf(lir) \cup (IF call = None THEN {} ELSE {call.st.label}))'
  BY <1>5, <1>7, <1>13, NoneAssumption DEF UseLabel
<1>14. CASE /\ SameBlocks /\ UNCHANGED <<lir, labels_used>>
            /\ call # None /\ call' \in Calls /\ call'.st = call.st
  BY <1>5, <1>7, <1>14, NoneAssumption
<1>15. ~FloatRefused
  BY <1>4, RefusedIsRespelled
<1>16. CASE FinishAssertion /\ Writes(call.st)
  <2>1. LabelsOf(lir)' = LabelsOf(lir) \cup {call.st.label}
    BY <1>6, <1>16, CallStatement DEF Writes, IsLabelled, IsAssertion, FinishAssertion
  <2>2. call # None /\ call' = None /\ labels_used' = labels_used
    BY <1>16 DEF FinishAssertion
  <2>3. QED
    BY <1>5, <2>1, <2>2
<1>17. QED
  BY <1>1, <1>8, <1>9, <1>10, <1>11, <1>12, <1>13, <1>14, <1>15, <1>16 DEF Step

\* Between calls every used label heads a statement, as long as the resolver spells
\* the automatic labels the way the suffix search does.
THEOREM NoLabelIsOrphaned == Spec => []NoOrphanLabel
<1>1. Init => OrphanInv
  BY DEF Init, OrphanInv, LabelsOf
<1>2. TypeOK /\ OrphanInv /\ [Next]_vars => OrphanInv'
  BY OrphanStep
<1>3. OrphanInv => NoOrphanLabel
  BY DEF OrphanInv, NoOrphanLabel
<1>4. QED
  BY <1>1, <1>2, <1>3, TypeCorrect, PTL DEF Spec
=============================================================================
