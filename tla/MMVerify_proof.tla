----------------------------- MODULE MMVerify_proof -----------------------------
(***************************************************************************)
(* Proofs about the verifier, for every text and every proof that is       *)
(* checked on the way.  First that the frames it assembles from its stack  *)
(* of blocks are the ones the scopes of the text say.  Then, from this,    *)
(* that what it accepts follows from the axioms (Consequence), in every    *)
(* language: what an entry of the proof stack says is true however good    *)
(* values are put for the variables in scope.  Last, what that says of a   *)
(* whole text.                                                             *)
(***************************************************************************)
EXTENDS Consequence, PositionLemmas

-----------------------------------------------------------------------------
(* The invariant *)

\* the statements of kind op that block m of the stack holds
Level(op, m) == {j \in 1..Len(text) : text[j].op = op /\ InScope(text, j, at) /\ Depth(text, j) = m - 1}
LevelD(m) == UNION {PairsOf(text[j].vars) : j \in Level("d", m)}

TextOK ==
    /\ text \in Texts /\ text \in Seq(ToSet(text))
    /\ at \in 1 .. Len(text) + 1
    /\ proving => at <= Len(text) /\ text[at].op = "p"

AllPairs == UNION {PairsOf(text[j].vars) : j \in 1..Len(text)}
Frames == [f : Seq(ToSet(text)), e : Seq(ToSet(text)), d : SUBSET AllPairs]

\* While it reads, the verifier has one frame for each open block, and the frame
\* holds what was declared at that level and is still in scope, in order.
FrameOK(m) ==
    /\ fs[m].f = At(text, Level("f", m))
    /\ fs[m].e = At(text, Level("e", m))
    /\ fs[m].d = LevelD(m)
FrameInv ==
    verdict = "reading" =>
        /\ fs \in Seq(Frames)
        /\ Len(fs) = Depth(text, at - 1) + 1
        /\ \A i \in 0 .. at - 1 : Depth(text, i) >= 0
        /\ \A m \in 1..Len(fs) : FrameOK(m)

\* the assertions that were read are in the dictionary
LabelsMet == \A n \in 1 .. at - 1 : IsAssertion(text[n]) => text[n].label \in DOMAIN labels

IInv == TextOK /\ FrameInv /\ LabelsMet /\ FramesAgree

-----------------------------------------------------------------------------
(* What the frames together hold *)

LEMMA DepthNow ==
    ASSUME TextOK, FrameInv, verdict = "reading"
    PROVE  /\ text \in Seq(ToSet(text)) /\ Len(text) \in Nat /\ at \in Nat \ {0}
           /\ fs \in Seq(Frames) /\ Len(fs) \in Nat \ {0} /\ DOMAIN fs = 1..Len(fs)
           /\ Len(fs) = Depth(text, at - 1) + 1
<1>1. text \in Seq(ToSet(text)) /\ Len(text) \in Nat /\ at \in Nat \ {0}
  BY DEF TextOK
<1>2. fs \in Seq(Frames) /\ Len(fs) = Depth(text, at - 1) + 1
  BY DEF FrameInv
<1>3. Len(fs) \in Nat /\ DOMAIN fs = 1..Len(fs)
  BY <1>2
<1>4. at - 1 \in 0 .. at - 1
  BY <1>1
<1>5. Depth(text, at - 1) >= 0 /\ Depth(text, at - 1) \in Int
  BY <1>1, <1>4, DepthType DEF FrameInv
<1>6. QED
  BY <1>1, <1>2, <1>3, <1>5

\* The levels are consecutive, and together they are what is in scope.
LEMMA LevelsOf ==
    ASSUME TextOK, FrameInv, verdict = "reading", NEW op
    PROVE  /\ UNION {Level(op, m) : m \in 1..Len(fs)}
                = {j \in 1..Len(text) : text[j].op = op /\ InScope(text, j, at)}
           /\ Consecutive([m \in 1..Len(fs) |-> Level(op, m)], Len(fs))
<1>1. /\ Len(text) \in Nat /\ at \in Nat \ {0} /\ Len(fs) \in Nat \ {0}
      /\ Len(fs) = Depth(text, at - 1) + 1 /\ \A i \in 0 .. at - 1 : Depth(text, i) >= 0
  BY DepthNow DEF FrameInv
<1>2. ASSUME NEW j \in 1..Len(text), text[j].op = op, InScope(text, j, at)
      PROVE  \E m \in 1..Len(fs) : j \in Level(op, m)
  <2>1. j \in 1 .. at - 1 /\ j \in 0 .. at - 1
    BY <1>1, <1>2 DEF InScope
  <2>2. Depth(text, j) <= Depth(text, at - 1) /\ Depth(text, j) \in Int /\ Depth(text, j) >= 0
    BY <1>1, <1>2, <2>1, InScopeOrder, DepthType
  <2>3. Depth(text, j) + 1 \in 1..Len(fs) /\ Depth(text, j) = (Depth(text, j) + 1) - 1
    <3> DEFINE d == Depth(text, j)
               e == Depth(text, at - 1)
    <3>1. d <= e /\ d \in Int /\ d >= 0 /\ Len(fs) = e + 1 /\ Len(fs) \in Nat
      BY <1>1, <2>2
    <3> HIDE DEF d, e
    <3>2. e \in Int
      <4>1. at - 1 \in Nat
        BY <1>1
      <4>2. QED
        BY <4>1, DepthType DEF e
    <3>3. QED
      BY <3>1, <3>2 DEF d
  <2>4. j \in Level(op, Depth(text, j) + 1)
    BY <1>2, <2>3 DEF Level
  <2>5. QED
    BY <2>3, <2>4
<1>3. UNION {Level(op, m) : m \in 1..Len(fs)}
        = {j \in 1..Len(text) : text[j].op = op /\ InScope(text, j, at)}
  BY <1>2 DEF Level
<1>4. ASSUME NEW m \in 1..Len(fs), NEW k \in 1..Len(fs), m < k,
             NEW x \in Level(op, m), NEW y \in Level(op, k)
      PROVE  x < y
  <2>1. /\ x \in 1 .. at - 1 /\ InScope(text, x, at) /\ Depth(text, x) = m - 1
        /\ y \in 1 .. at - 1 /\ InScope(text, y, at) /\ Depth(text, y) = k - 1
    BY <1>1 DEF Level, InScope
  <2>2. Depth(text, x) < Depth(text, y)
    BY <1>4, <2>1
  <2>3. QED
    BY <1>1, <2>1, <2>2, InScopeOrder
<1>5. QED
  BY <1>3, <1>4 DEF Consecutive, Before

\* The frames put end to end list the hypotheses in scope in textual order.
LEMMA FloatsAndHyps ==
    ASSUME TextOK, FrameInv, verdict = "reading"
    PROVE  /\ FlattenSeq([n \in DOMAIN fs |-> fs[n].f]) = At(text, ActiveF(text, at))
           /\ FlattenSeq([n \in DOMAIN fs |-> fs[n].e]) = At(text, ActiveE(text, at))
           /\ Pairs = ActiveD(text, at)
<1>1. /\ text \in Seq(ToSet(text)) /\ fs \in Seq(Frames) /\ DOMAIN fs = 1..Len(fs) /\ Len(fs) \in Nat
      /\ \A m \in 1..Len(fs) : fs[m] \in Frames /\ FrameOK(m)
  BY DepthNow DEF FrameInv
<1> DEFINE ff == [n \in 1..Len(fs) |-> fs[n].f]
           ee == [n \in 1..Len(fs) |-> fs[n].e]
           Pf == [m \in 1..Len(fs) |-> Level("f", m)]
           Pe == [m \in 1..Len(fs) |-> Level("e", m)]
<1>2. /\ ff \in Seq(Seq(ToSet(text))) /\ Len(ff) = Len(fs)
      /\ ee \in Seq(Seq(ToSet(text))) /\ Len(ee) = Len(fs)
  <2>1. \A m \in 1..Len(fs) : fs[m].f \in Seq(ToSet(text)) /\ fs[m].e \in Seq(ToSet(text))
    BY <1>1 DEF Frames
  <2>2. QED
    BY <1>1, <2>1
<1>3. /\ \A m \in 1..Len(fs) : ff[m] = At(text, Pf[m])
      /\ \A m \in 1..Len(fs) : ee[m] = At(text, Pe[m])
  BY <1>1 DEF FrameOK
<1>4. Consecutive(Pf, Len(fs)) /\ Consecutive(Pe, Len(fs))
  BY LevelsOf
<1>5. /\ Together(Pf, Len(fs)) = ActiveF(text, at)
      /\ Together(Pe, Len(fs)) = ActiveE(text, at)
  <2>1. /\ Together(Pf, Len(fs)) = UNION {Level("f", m) : m \in 1..Len(fs)}
        /\ Together(Pe, Len(fs)) = UNION {Level("e", m) : m \in 1..Len(fs)}
    BY DEF Together
  <2>2. QED
    BY <2>1, LevelsOf DEF ActiveF, ActiveE
<1> HIDE DEF ff, ee, Pf, Pe
<1>6. FlattenSeq(ff) = At(text, Together(Pf, Len(ff)))
  <2>1. Filters(text, Pf, ff)
    BY <1>2, <1>3, <1>4 DEF Filters
  <2>2. text \in Seq(ToSet(text)) /\ ff \in Seq(Seq(ToSet(text))) /\ ee \in Seq(Seq(ToSet(text)))
    BY <1>1, <1>2
  <2>3. QED
    BY <2>1, <2>2, AtFlatten
<1>7. FlattenSeq(ee) = At(text, Together(Pe, Len(ee)))
  <2>1. Filters(text, Pe, ee)
    BY <1>2, <1>3, <1>4 DEF Filters
  <2>2. text \in Seq(ToSet(text)) /\ ff \in Seq(Seq(ToSet(text))) /\ ee \in Seq(Seq(ToSet(text)))
    BY <1>1, <1>2
  <2>3. QED
    BY <2>1, <2>2, AtFlatten
<1>8. Pairs = ActiveD(text, at)
  <2>1. Pairs = UNION {LevelD(m) : m \in 1..Len(fs)}
    BY <1>1 DEF Pairs, FrameOK
  <2>2. UNION {Level("d", m) : m \in 1..Len(fs)}
           = {j \in 1..Len(text) : text[j].op = "d" /\ InScope(text, j, at)}
    BY LevelsOf
  <2>3. ASSUME NEW p
        PROVE  p \in Pairs <=> \E j \in UNION {Level("d", m) : m \in 1..Len(fs)} : p \in PairsOf(text[j].vars)
    BY <2>1 DEF LevelD
  <2>4. ASSUME NEW p
        PROVE  p \in ActiveD(text, at) <=>
                 \E j \in {k \in 1..Len(text) : text[k].op = "d" /\ InScope(text, k, at)} :
                    p \in PairsOf(text[j].vars)
    BY DEF ActiveD
  <2>5. QED
    BY <2>2, <2>3, <2>4
<1>9. QED
  BY <1>1, <1>2, <1>5, <1>6, <1>7, <1>8 DEF ff, ee

\* Of the $f in scope, the ones used are the innermost of each mandatory variable.
LEMMA FrameMade ==
    ASSUME TextOK, FrameInv, verdict = "reading", at <= Len(text)
    PROVE  LET a == MakeAssertion(text[at])
           IN  /\ a.f = At(text, MandatoryF(text, at))
               /\ a.e = At(text, ActiveE(text, at))
               /\ a.d = MandatoryD(text, at)
<1> DEFINE act == ActiveF(text, at)
           floats == At(text, act)
           hyps == At(text, ActiveE(text, at))
           mand == VarsIn(text[at].expr) \cup UNION {VarsIn(hyps[n].expr) : n \in DOMAIN hyps}
           used == {n \in DOMAIN floats : floats[n].var \in mand /\ ~Hidden(floats, n)}
           ps == Ascending(Len(text), act)
           of(v) == {j \in act : text[j].var = v}
<1>1. text \in Seq(ToSet(text)) /\ Len(text) \in Nat /\ at \in Nat \ {0}
  BY DepthNow
<1>2. act \subseteq 1..Len(text) /\ ActiveE(text, at) \subseteq 1..Len(text)
  BY DEF ActiveF, ActiveE
<1>3. MandatoryVars(text, at) = mand
  <2>1. hyps \in Seq(ToSet(text)) /\ ToSet(hyps) = {text[n] : n \in ActiveE(text, at) \cap 1..Len(text)}
    BY <1>1, AtElements
  <2>2. ActiveE(text, at) \cap 1..Len(text) = ActiveE(text, at)
    BY <1>2
  <2> HIDE DEF hyps
  <2>3. ToSet(hyps) = {hyps[n] : n \in DOMAIN hyps}
    BY DEF ToSet
  <2>4. UNION {VarsIn(hyps[n].expr) : n \in DOMAIN hyps} = UNION {VarsIn(st.expr) : st \in ToSet(hyps)}
    BY <2>3
  <2>5. UNION {VarsIn(text[j].expr) : j \in ActiveE(text, at)} = UNION {VarsIn(st.expr) : st \in ToSet(hyps)}
    BY <2>1, <2>2
  <2>6. QED
    BY <2>4, <2>5 DEF MandatoryVars
<1>4. /\ MakeAssertion(text[at]).f = At(floats, used)
      /\ MakeAssertion(text[at]).e = hyps
      /\ MakeAssertion(text[at]).d = {pair \in ActiveD(text, at) : pair \subseteq mand}
  BY FloatsAndHyps DEF MakeAssertion
<1>5. Lists(ps, act \cap 1..Len(text)) /\ act \cap 1..Len(text) = act
  BY <1>1, <1>2, AscendingLists
<1>6. Picks(floats, text, ps)
  BY <1>1, <1>5, AtIs
<1> HIDE DEF ps, hyps, mand
<1>7. /\ ps \in Seq(Nat) /\ Len(ps) \in Nat /\ Len(floats) = Len(ps) /\ DOMAIN floats = 1..Len(ps)
      /\ \A n \in 1..Len(ps) : ps[n] \in act /\ floats[n] = text[ps[n]]
      /\ \A j \in act : \E n \in 1..Len(ps) : j = ps[n]
      /\ \A m, n \in 1..Len(ps) : m < n => ps[m] < ps[n]
  <2>1. floats \in Seq(ToSet(text)) /\ Len(floats) = Len(ps) /\ floats = [n \in 1..Len(ps) |-> text[ps[n]]]
    BY <1>1, <1>6, AtElements DEF Picks
  <2> HIDE DEF floats, act
  <2>2. ps \in Seq(Nat) /\ act = {ps[n] : n \in 1..Len(ps)}
        /\ \A m, n \in 1..Len(ps) : m < n => ps[m] < ps[n]
    BY <1>5 DEF Lists
  <2>3. Len(ps) \in Nat
    BY <2>2
  <2>4. QED
    BY <2>1, <2>2, <2>3
<1> HIDE DEF floats, act
<1>8. ASSUME NEW n \in used PROVE ps[n] \in MandatoryF(text, at)
  <2> DEFINE v == text[ps[n]].var
  <2>1. n \in 1..Len(ps) /\ v \in mand /\ ps[n] \in of(v) /\ ps[n] \in Nat /\ ps[n] # 0
    BY <1>2, <1>7
  <2>2. ASSUME NEW j \in of(v) PROVE j <= ps[n]
    <3>1. PICK m \in 1..Len(ps) : j = ps[m]
      BY <1>7
    <3>2. floats[m].var = floats[n].var
      BY <1>7, <2>1, <2>2, <3>1
    <3>3. ~(m > n)
      BY <1>7, <2>1, <3>2 DEF Hidden
    <3>4. m < n \/ m = n
      BY <1>7, <2>1, <3>3
    <3>5. ps[m] \in Nat
      BY <1>7
    <3>6. QED
      BY <1>7, <2>1, <3>1, <3>4, <3>5
  <2>3. of(v) \subseteq Nat /\ of(v) # {}
    <3> DEFINE F == of(v)
    <3>1. F \subseteq act /\ ps[n] \in F
      BY <2>1
    <3> HIDE DEF F
    <3>2. F \subseteq Nat /\ F # {}
      BY <1>1, <1>2, <3>1
    <3>3. QED
      BY <3>2 DEF F
  <2> HIDE DEF v
  <2>4. FloatOf(text, v, at) = ps[n]
    <3> DEFINE F == of(v)
    <3>1. F \subseteq Nat /\ ps[n] \in F /\ \A j \in F : j <= ps[n]
      BY <2>1, <2>2, <2>3
    <3>2. FloatOf(text, v, at) = IF F = {} THEN 0 ELSE CHOOSE j \in F : \A k \in F : k <= j
      BY DEF FloatOf, act
    <3> HIDE DEF F
    <3>3. (CHOOSE j \in F : \A k \in F : k <= j) = ps[n]
      BY <3>1, GreatestIs
    <3>4. QED
      BY <3>1, <3>2, <3>3
  <2>5. QED
    BY <1>3, <2>1, <2>4 DEF MandatoryF
<1>9. ASSUME NEW x \in MandatoryF(text, at) PROVE \E n \in used : x = ps[n]
  <2>1. PICK v \in mand : x = FloatOf(text, v, at) /\ x # 0
    BY <1>3 DEF MandatoryF
  <2> DEFINE F == of(v)
  <2>2. F # {} /\ x = CHOOSE j \in F : \A k \in F : k <= j
    BY <2>1 DEF FloatOf, act
  <2>3. F \subseteq 0..Len(text)
    <3>1. F \subseteq act
      OBVIOUS
    <3> HIDE DEF F
    <3>2. QED
      BY <1>1, <1>2, <3>1
  <2>4. \A j \in F : j \in act /\ text[j].var = v
    OBVIOUS
  <2>5. \A j \in act : text[j].var = v => j \in F
    OBVIOUS
  <2> HIDE DEF F
  <2>6. x \in F /\ \A k \in F : k <= x
    <3>1. \E j \in F : \A k \in F : k <= j
      BY <1>1, <2>2, <2>3, NatGreatest
    <3>2. QED
      BY <2>2, <3>1
  <2>7. PICK n \in 1..Len(ps) : x = ps[n]
    BY <1>7, <2>4, <2>6
  <2>8. floats[n].var = v /\ n \in DOMAIN floats
    BY <1>7, <2>4, <2>6, <2>7
  <2>9. ~Hidden(floats, n)
    <3> SUFFICES ASSUME NEW m \in n + 1 .. Len(floats), floats[m].var = floats[n].var PROVE FALSE
      BY DEF Hidden
    <3>1. m \in 1..Len(ps) /\ n < m
      BY <1>7
    <3>2. ps[m] \in F
      BY <1>7, <2>5, <2>8, <3>1
    <3>3. ps[m] <= x /\ x < ps[m] /\ x \in Nat /\ ps[m] \in Nat
      BY <1>7, <2>6, <2>7, <3>1, <3>2
    <3>4. QED
      BY <3>3
  <2>10. QED
    BY <2>1, <2>7, <2>8, <2>9
<1>10. At(floats, used) = At(text, MandatoryF(text, at))
  <2>1. At(floats, used) = At(text, Chosen(ps, used))
    <3> HIDE DEF used
    <3>1. QED
      BY <1>1, <1>5, AtAt DEF floats
  <2>2. used \cap 1..Len(ps) = used
    BY <1>7
  <2>3. {ps[k] : k \in used} = MandatoryF(text, at)
    BY <1>8, <1>9
  <2>4. QED
    BY <2>1, <2>2, <2>3 DEF Chosen
<1>11. QED
  BY <1>3, <1>4, <1>10 DEF MandatoryD, hyps

-----------------------------------------------------------------------------
(* The step *)

\* The levels once the statement was read: it belongs to the innermost.
LEMMA NextLevel ==
    ASSUME TextOK, FrameInv, verdict = "reading", at <= Len(text),
           text' = text, at' = at + 1, NEW op, NEW m \in 1 .. Depth(text, at) + 1
    PROVE  /\ Level(op, m)' = IF text[at].op = op /\ m = Depth(text, at) + 1
                              THEN Level(op, m) \cup {at} ELSE Level(op, m)
           /\ Level(op, m) \subseteq 1 .. at - 1
           /\ m > Len(fs) => Level(op, m) = {}
<1>1. Len(text) \in Nat /\ at \in Nat \ {0} /\ at \in 1..Len(text)
      /\ Len(fs) = Depth(text, at - 1) + 1 /\ Len(fs) \in Nat
  BY DepthNow
<1>2. Depth(text, at) \in Int /\ m \in Int
  BY <1>1, DepthType
<1>3. Level(op, m) \subseteq 1 .. at - 1
  BY <1>1 DEF Level, InScope
<1>4. \A j \in Level(op, m)' : j \in 1..at
  BY <1>1 DEF Level, InScope
<1>5. ASSUME NEW j \in 1 .. at - 1 PROVE j \in Level(op, m)' <=> j \in Level(op, m)
  <2>1. InScope(text, j, at + 1) <=> InScope(text, j, at) /\ Depth(text, at) >= Depth(text, j)
    BY <1>1, InScopeNext
  <2>2. Depth(text, j) = m - 1 => Depth(text, at) >= Depth(text, j)
    BY <1>2
  <2>3. QED
    BY <2>1, <2>2 DEF Level
<1>6. at \in Level(op, m)' <=> text[at].op = op /\ m = Depth(text, at) + 1
  <2>1. InScope(text, at, at + 1)
    BY <1>1, InScopeNext
  <2>2. Depth(text, at) = m - 1 <=> m = Depth(text, at) + 1
    BY <1>2
  <2>3. QED
    BY <1>1, <2>1, <2>2 DEF Level
<1>7. 1..at = 1 .. at - 1 \cup {at}
  BY <1>1
<1>8. m > Len(fs) => Level(op, m) = {}
  <2> SUFFICES ASSUME m > Len(fs), NEW j \in Level(op, m) PROVE FALSE
    OBVIOUS
  <2>1. j \in 1 .. at - 1 /\ InScope(text, j, at) /\ Depth(text, j) = m - 1
    BY <1>3 DEF Level
  <2>2. Depth(text, j) <= Depth(text, at - 1) /\ Depth(text, at - 1) \in Int
    <3>1. at - 1 \in Nat
      BY <1>1
    <3>2. QED
      BY <1>1, <2>1, <3>1, InScopeOrder, DepthType
  <2>3. QED
    BY <1>1, <1>2, <2>1, <2>2
<1>9. Level(op, m)' = IF text[at].op = op /\ m = Depth(text, at) + 1
                      THEN Level(op, m) \cup {at} ELSE Level(op, m)
  <2>1. CASE text[at].op = op /\ m = Depth(text, at) + 1
    <3>1. at \in Level(op, m)'
      BY <1>6, <2>1
    <3>2. Level(op, m)' = Level(op, m) \cup {at}
      BY <1>3, <1>4, <1>5, <1>7, <3>1
    <3>3. QED
      BY <2>1, <3>2
  <2>2. CASE ~(text[at].op = op /\ m = Depth(text, at) + 1)
    <3>1. at \notin Level(op, m)'
      BY <1>6, <2>2
    <3>2. Level(op, m)' = Level(op, m)
      BY <1>3, <1>4, <1>5, <1>7, <3>1
    <3>3. QED
      BY <2>2, <3>2
  <2>3. QED
    BY <2>1, <2>2
<1>10. QED
  BY <1>3, <1>8, <1>9

\* The blocks of the frame stack follow the depth of the text.
Reads(frames) ==
    /\ verdict = "reading" /\ verdict' = "reading" /\ at <= Len(text)
    /\ text' = text /\ at' = at + 1 /\ fs' = frames

\* A frame that was not touched, and the statement belongs elsewhere.
LEMMA FrameKept ==
    ASSUME TextOK, FrameInv, NEW frames, Reads(frames), NEW m \in 1..Len(fs),
           m <= Depth(text, at) + 1, fs'[m] = fs[m],
           text[at].op \notin {"f", "e", "d"} \/ m # Depth(text, at) + 1
    PROVE  FrameOK(m)'
<1>1. m \in 1 .. Depth(text, at) + 1
  <2>1. Depth(text, at) \in Int /\ Len(fs) \in Nat
    BY DepthNow, DepthType DEF Reads
  <2>2. QED
    BY <2>1
<1>2. \A op \in {"f", "e", "d"} : Level(op, m)' = Level(op, m)
  BY <1>1, NextLevel DEF Reads
<1>3. FrameOK(m)
  BY DEF FrameInv, Reads
<1>4. LevelD(m)' = LevelD(m)
  BY <1>2 DEF LevelD, Reads
<1>5. QED
  BY <1>2, <1>3, <1>4 DEF FrameOK, Reads

LEMMA FramesStep ==
    ASSUME TextOK, FrameInv, NEW frames, Reads(frames), frames \in Seq(Frames),
           Len(frames) = Depth(text, at) + 1, Len(frames) >= 1,
           \A m \in 1..Len(frames) : FrameOK(m)'
    PROVE  FrameInv'
<1>1. at \in Nat \ {0} /\ \A i \in 0 .. at - 1 : Depth(text, i) >= 0
  BY DepthNow DEF FrameInv, Reads
<1>2. (at + 1) - 1 = at /\ 0..at = (0 .. at - 1) \cup {at}
  BY <1>1
<1>3. Depth(text, at) >= 0 /\ Depth(text, at) \in Int
  BY <1>1, DepthType
<1>4. Frames' = Frames
  BY DEF Frames, AllPairs, Reads
<1>5. QED
  BY <1>1, <1>2, <1>3, <1>4 DEF FrameInv, Reads

LEMMA AtEmpty == ASSUME TextOK PROVE At(text, {}) = <<>> /\ EmptyFrame \in Frames
<1>1. text \in Seq(ToSet(text))
  BY DEF TextOK
<1>2. At(text, {}) = <<>>
  BY <1>1, AtNothing
<1>3. <<>> \in Seq(ToSet(text))
  OBVIOUS
<1>4. QED
  BY <1>2, <1>3 DEF EmptyFrame, Frames

\* A block opens, with an empty frame.
LEMMA OpenFrames ==
    ASSUME TextOK, FrameInv, Reads(Append(fs, EmptyFrame)), text[at].op = "enter"
    PROVE  FrameInv'
<1>1. /\ fs \in Seq(Frames) /\ Len(fs) \in Nat \ {0} /\ at \in Nat \ {0}
      /\ Len(fs) = Depth(text, at - 1) + 1
  BY DepthNow DEF Reads
<1> DEFINE frames == Append(fs, EmptyFrame)
<1>2. /\ frames \in Seq(Frames) /\ Len(frames) = Len(fs) + 1 /\ frames[Len(fs) + 1] = EmptyFrame
      /\ \A m \in 1..Len(fs) : frames[m] = fs[m]
  BY <1>1, AtEmpty
<1>3. Depth(text, at) = Depth(text, at - 1) + 1
  BY <1>1, DepthNext
<1>4. Len(frames) = Depth(text, at) + 1
  BY <1>1, <1>2, <1>3
<1>5. Reads(frames)
  OBVIOUS
<1>6. fs' = frames
  BY DEF Reads
<1> HIDE DEF frames
<1>7. ASSUME NEW m \in 1..Len(fs) PROVE FrameOK(m)'
  <2>1. m <= Depth(text, at) + 1 /\ m # Depth(text, at) + 1
    BY <1>1, <1>2, <1>4
  <2>2. QED
    BY <1>2, <1>5, <1>6, <2>1, FrameKept
<1>8. ASSUME NEW m \in Nat, m = Len(fs) + 1 PROVE FrameOK(m)'
  <2>1. m \in 1 .. Depth(text, at) + 1 /\ m > Len(fs)
    BY <1>1, <1>2, <1>4, <1>8
  <2>2. ASSUME NEW op \in {"f", "e", "d"} PROVE Level(op, m)' = {}
    <3>1. text[at].op # op
      OBVIOUS
    <3>2. Level(op, m)' = Level(op, m) /\ Level(op, m) = {}
      BY <1>5, <2>1, <3>1, NextLevel DEF Reads
    <3>3. QED
      BY <3>2
  <2>3. LevelD(m)' = {}
    BY <2>2 DEF LevelD
  <2>4. At(text', {}) = <<>>
    BY AtEmpty, <1>5 DEF Reads
  <2>5. fs'[m] = EmptyFrame
    BY <1>2, <1>6, <1>8
  <2>6. Level("f", m)' = {} /\ Level("e", m)' = {}
    BY <2>2
  <2>7. fs'[m].f = <<>> /\ fs'[m].e = <<>> /\ fs'[m].d = {}
    BY <2>5 DEF EmptyFrame
  <2>8. At(text, Level("f", m))' = <<>> /\ At(text, Level("e", m))' = <<>>
    BY <2>4, <2>6
  <2>9. QED
    BY <2>3, <2>7, <2>8 DEF FrameOK
<1>9. \A m \in 1..Len(frames) : FrameOK(m)'
  <2> SUFFICES ASSUME NEW m \in 1..Len(frames) PROVE FrameOK(m)'
    OBVIOUS
  <2>1. m \in 1..Len(fs) \/ (m \in Nat /\ m = Len(fs) + 1)
    BY <1>1, <1>2
  <2>2. QED
    BY <1>7, <1>8, <2>1
<1>10. Len(frames) >= 1
  BY <1>1, <1>2
<1>11. QED
  BY <1>2, <1>4, <1>5, <1>9, <1>10, FramesStep
\* A block closes: its frame goes.
LEMMA CloseFrames ==
    ASSUME TextOK, FrameInv, Reads(Front(fs)), text[at].op = "exit", Len(fs) > 1
    PROVE  FrameInv'
<1>1. /\ fs \in Seq(Frames) /\ Len(fs) \in Nat \ {0} /\ at \in Nat \ {0}
      /\ Len(fs) = Depth(text, at - 1) + 1
  BY DepthNow DEF Reads
<1> DEFINE frames == Front(fs)
<1>2. /\ frames \in Seq(Frames) /\ Len(frames) = Len(fs) - 1
      /\ \A m \in 1..Len(frames) : m \in 1..Len(fs) /\ frames[m] = fs[m]
  BY <1>1 DEF Front
<1>3. Depth(text, at) = Depth(text, at - 1) - 1
  BY <1>1, DepthNext
<1>4. at - 1 \in Nat
  BY <1>1
<1>5. Depth(text, at - 1) \in Int
  BY <1>4, DepthType
<1>6. Len(frames) = Depth(text, at) + 1 /\ Len(frames) >= 1 /\ Len(frames) \in Nat
  BY <1>1, <1>2, <1>3, <1>5
<1>7. Reads(frames) /\ fs' = frames
  BY DEF Reads
<1> HIDE DEF frames
<1>8. ASSUME NEW m \in 1..Len(frames) PROVE FrameOK(m)'
  <2>1. m \in 1..Len(fs) /\ fs'[m] = fs[m] /\ m <= Depth(text, at) + 1
    BY <1>2, <1>6, <1>7
  <2>2. text[at].op \notin {"f", "e", "d"}
    OBVIOUS
  <2>3. QED
    BY <1>7, <2>1, <2>2, FrameKept
<1>9. QED
  BY <1>2, <1>6, <1>7, <1>8, FramesStep

\* A statement that neither opens nor closes a block is read in the innermost.
LEMMA TopFrame ==
    ASSUME TextOK, FrameInv, NEW frames, Reads(frames), frames \in Seq(Frames), Len(frames) = Len(fs),
           text[at].op \notin {"enter", "exit"},
           \A m \in 1..Len(fs) : m # Len(fs) => frames[m] = fs[m],
           NEW top \in Nat, top = Len(fs), FrameOK(top)'
    PROVE  FrameInv'
<1>1. /\ Len(fs) \in Nat \ {0} /\ at \in Nat \ {0}
      /\ Len(fs) = Depth(text, at - 1) + 1 /\ fs' = frames
  BY DepthNow DEF Reads
<1>2. Depth(text, at) = Depth(text, at - 1)
  BY <1>1, DepthNext
<1>3. ASSUME NEW m \in 1..Len(frames), m # Len(fs) PROVE FrameOK(m)'
  <2>1. m \in 1..Len(fs) /\ fs'[m] = fs[m]
    BY <1>1, <1>3
  <2>2. m <= Depth(text, at) + 1 /\ m # Depth(text, at) + 1
    BY <1>1, <1>2, <1>3
  <2>3. QED
    BY <2>1, <2>2, FrameKept
<1>4. \A m \in 1..Len(frames) : FrameOK(m)'
  <2> SUFFICES ASSUME NEW m \in 1..Len(frames) PROVE FrameOK(m)'
    OBVIOUS
  <2>1. CASE m = top
    BY <2>1
  <2>2. CASE m # top
    BY <1>3, <2>2
  <2>3. QED
    BY <2>1, <2>2
<1>5. Len(frames) = Depth(text, at) + 1 /\ Len(frames) >= 1
  BY <1>1, <1>2
<1>6. QED
  BY <1>4, <1>5, FramesStep
\* The frame of the innermost block: the levels it must hold next.
LEMMA TopLevels ==
    ASSUME TextOK, FrameInv, NEW frames, Reads(frames), text[at].op \notin {"enter", "exit"},
           NEW top \in Nat, top = Len(fs)
    PROVE  /\ \A op \in {"f", "e", "d"} :
                 /\ Level(op, top)' = IF text[at].op = op THEN Level(op, top) \cup {at} ELSE Level(op, top)
                 /\ Level(op, top) \subseteq 1 .. at - 1
           /\ FrameOK(top) /\ fs[top] \in Frames /\ top \in 1..Len(fs)
           /\ at \in 1..Len(text) /\ text \in Seq(ToSet(text)) /\ text[at] \in ToSet(text)
<1>1. /\ fs \in Seq(Frames) /\ Len(fs) \in Nat \ {0} /\ at \in Nat \ {0}
      /\ Len(fs) = Depth(text, at - 1) + 1 /\ text \in Seq(ToSet(text)) /\ Len(text) \in Nat
  BY DepthNow DEF Reads
<1>2. Depth(text, at) = Depth(text, at - 1)
  BY <1>1, DepthNext
<1>3. top = Depth(text, at) + 1 /\ top \in 1 .. Depth(text, at) + 1
  BY <1>1, <1>2
<1>4. ASSUME NEW op \in {"f", "e", "d"}
      PROVE  /\ Level(op, top)' = IF text[at].op = op THEN Level(op, top) \cup {at} ELSE Level(op, top)
             /\ Level(op, top) \subseteq 1 .. at - 1
  BY <1>3, NextLevel DEF Reads
<1>5. top \in 1..Len(fs) /\ fs[top] \in Frames /\ FrameOK(top)
  BY <1>1 DEF FrameInv, Reads
<1>6. at \in 1..Len(text) /\ text[at] \in ToSet(text)
  BY <1>1 DEF Reads, ToSet
<1>7. QED
  BY <1>1, <1>4, <1>5, <1>6

\* A hypothesis is read: its frame has it at the end.
LEMMA HypFrames ==
    ASSUME TextOK, FrameInv, NEW op \in {"f", "e"}, text[at].op = op, NEW frame,
           Reads(InTop(frame)), NEW top \in Nat, top = Len(fs),
           frame.f = IF op = "f" THEN Append(fs[top].f, text[at]) ELSE fs[top].f,
           frame.e = IF op = "e" THEN Append(fs[top].e, text[at]) ELSE fs[top].e,
           frame.d = fs[top].d,
           frame \in Frames
    PROVE  FrameInv'
<1> DEFINE frames == InTop(frame)
<1>1. text[at].op \notin {"enter", "exit"}
  OBVIOUS
<1>2. fs \in Seq(Frames) /\ Len(fs) \in Nat \ {0}
  BY DepthNow DEF Reads
<1>3. /\ frames \in Seq(Frames) /\ Len(frames) = Len(fs) /\ frames[top] = frame
      /\ \A m \in 1..Len(fs) : m # Len(fs) => frames[m] = fs[m]
  BY <1>2 DEF InTop
<1>4. Reads(frames) /\ fs' = frames /\ text' = text
  BY DEF Reads
<1> HIDE DEF frames
<1>5. /\ \A o \in {"f", "e", "d"} :
            /\ Level(o, top)' = IF text[at].op = o THEN Level(o, top) \cup {at} ELSE Level(o, top)
            /\ Level(o, top) \subseteq 1 .. at - 1
      /\ FrameOK(top) /\ at \in 1..Len(text) /\ text \in Seq(ToSet(text))
  BY <1>1, <1>4, TopLevels
<1>6. ASSUME NEW o \in {"f", "e"}
      PROVE  At(text, Level(o, top))'
                = IF o = op THEN Append(At(text, Level(o, top)), text[at]) ELSE At(text, Level(o, top))
  <2>1. CASE o = op
    <3>1. Level(o, top)' = Level(o, top) \cup {at} /\ Level(o, top) \subseteq 1 .. at - 1
      BY <1>5, <2>1
    <3>2. At(text, Level(o, top) \cup {at}) = Append(At(text, Level(o, top)), text[at])
      BY <1>5, <3>1, AtAdd
    <3>3. QED
      BY <1>4, <2>1, <3>1, <3>2
  <2>2. CASE o # op
    <3>1. Level(o, top)' = Level(o, top)
      BY <1>5, <2>2
    <3>2. QED
      BY <1>4, <2>2, <3>1
  <2>3. QED
    BY <2>1, <2>2
<1>7. LevelD(top)' = LevelD(top)
  <2>1. Level("d", top)' = Level("d", top)
    BY <1>5
  <2>2. QED
    BY <1>4, <2>1 DEF LevelD
<1>8. fs'[top] = frame
  BY <1>3, <1>4
<1>9. fs'[top].f = At(text, Level("f", top))'
  <2>1. fs[top].f = At(text, Level("f", top))
    BY <1>5 DEF FrameOK
  <2>2. QED
    BY <1>6, <1>8, <2>1
<1>10. fs'[top].e = At(text, Level("e", top))'
  <2>1. fs[top].e = At(text, Level("e", top))
    BY <1>5 DEF FrameOK
  <2>2. QED
    BY <1>6, <1>8, <2>1
<1>11. FrameOK(top)'
  <2>1. fs[top].d = LevelD(top)
    BY <1>5 DEF FrameOK
  <2>2. QED
    BY <1>7, <1>8, <1>9, <1>10, <2>1 DEF FrameOK
<1>12. QED
  BY <1>1, <1>3, <1>4, <1>11, TopFrame

\* A $d is read: its frame has its pairs.
LEMMA DisjFrames ==
    ASSUME TextOK, FrameInv, text[at].op = "d", NEW frame,
           Reads(InTop(frame)), NEW top \in Nat, top = Len(fs),
           frame.f = fs[top].f, frame.e = fs[top].e,
           frame.d = fs[top].d \cup PairsOf(text[at].vars),
           frame \in Frames
    PROVE  FrameInv'
<1> DEFINE frames == InTop(frame)
<1>1. text[at].op \notin {"enter", "exit"}
  OBVIOUS
<1>2. fs \in Seq(Frames) /\ Len(fs) \in Nat \ {0}
  BY DepthNow DEF Reads
<1>3. /\ frames \in Seq(Frames) /\ Len(frames) = Len(fs) /\ frames[top] = frame
      /\ \A m \in 1..Len(fs) : m # Len(fs) => frames[m] = fs[m]
  BY <1>2 DEF InTop
<1>4. Reads(frames) /\ fs' = frames /\ text' = text
  BY DEF Reads
<1> HIDE DEF frames
<1>5. /\ Level("f", top)' = Level("f", top) /\ Level("e", top)' = Level("e", top)
      /\ Level("d", top)' = Level("d", top) \cup {at}
      /\ FrameOK(top)
  BY <1>1, <1>4, TopLevels
<1>6. LevelD(top)' = LevelD(top) \cup PairsOf(text[at].vars)
  BY <1>4, <1>5 DEF LevelD
<1>7. fs'[top] = frame
  BY <1>3, <1>4
<1>8. FrameOK(top)'
  BY <1>4, <1>5, <1>6, <1>7 DEF FrameOK
<1>9. QED
  BY <1>1, <1>3, <1>4, <1>8, TopFrame

\* An assertion is read: the frames stay.
LEMMA SameFrames ==
    ASSUME TextOK, FrameInv, text[at].op \in {"a", "p"}, Reads(fs)
    PROVE  FrameInv'
<1>1. text[at].op \notin {"enter", "exit"}
  OBVIOUS
<1>2. fs \in Seq(Frames) /\ Len(fs) \in Nat \ {0} /\ fs' = fs
  BY DepthNow DEF Reads
<1>3. ASSUME NEW top \in Nat, top = Len(fs) PROVE FrameOK(top)'
  <2>1. /\ Level("f", top)' = Level("f", top) /\ Level("e", top)' = Level("e", top)
        /\ Level("d", top)' = Level("d", top) /\ FrameOK(top)
    BY <1>1, <1>3, TopLevels
  <2>2. LevelD(top)' = LevelD(top)
    BY <2>1 DEF LevelD, Reads
  <2>3. QED
    BY <1>2, <2>1, <2>2 DEF FrameOK, Reads
<1>4. QED
  BY <1>1, <1>2, <1>3, TopFrame
-----------------------------------------------------------------------------
(* The whole invariant *)

\* The entry of the n-th statement is the frame its scopes give it.
EntryIs(a, n) ==
    /\ a.f = At(text, MandatoryF(text, n))
    /\ a.e = At(text, ActiveE(text, n))
    /\ a.d = MandatoryD(text, n)

\* Nothing is read: the proof of a $p is being checked, or the verdict is given.
LEMMA Stays ==
    ASSUME IInv, UNCHANGED <<text, at, labels>>,
           proving' => at <= Len(text) /\ text[at].op = "p",
           verdict' = "reading" => verdict = "reading" /\ fs' = fs
    PROVE  IInv'
<1>1. TextOK'
  BY DEF IInv, TextOK
<1>2. LabelsMet'
  BY DEF IInv, LabelsMet
<1>3. FramesAgree'
  BY DEF IInv, FramesAgree
<1>4. FrameInv'
  <2> SUFFICES ASSUME verdict' = "reading" PROVE FrameInv'
    BY DEF FrameInv
  <2>1. \A op, m : Level(op, m)' = Level(op, m)
    BY DEF Level
  <2>2. \A m : LevelD(m)' = LevelD(m)
    BY <2>1 DEF LevelD
  <2>3. \A m : FrameOK(m)' <=> FrameOK(m)
    BY <2>1, <2>2 DEF FrameOK
  <2>4. Frames' = Frames
    BY DEF Frames, AllPairs
  <2>5. QED
    BY <2>3, <2>4 DEF IInv, FrameInv
<1>5. QED
  BY <1>1, <1>2, <1>3, <1>4 DEF IInv

\* A statement is read.  The entries there were belong to other statements, for
\* the labels of the text are distinct.
LEMMA Proceeds ==
    ASSUME IInv, at <= Len(text), text' = text, at' = at + 1, ~proving', FrameInv',
           \/ ~IsAssertion(text[at]) /\ labels' = labels
           \/ \E entry :
                 /\ IsLabelled(text[at]) /\ labels' = With(text[at].label, entry)
                 /\ IsAssertion(text[at]) => EntryIs(entry, at)
    PROVE  IInv'
<1>1. Len(text) \in Nat /\ at \in 1..Len(text) /\ text \in Texts
  BY DEF IInv, TextOK
<1>2. TextOK'
  BY <1>1 DEF IInv, TextOK
<1>3. ASSUME NEW n \in 1 .. at - 1, IsAssertion(text[n])
      PROVE  text[n].label \in DOMAIN labels' /\ EntryIs(labels'[text[n].label], n)
  <2>1. text[n].label \in DOMAIN labels /\ EntryIs(labels[text[n].label], n)
    BY <1>3 DEF IInv, LabelsMet, FramesAgree, EntryIs
  <2>2. CASE labels' = labels
    BY <2>1, <2>2
  <2>3. CASE \E entry : IsLabelled(text[at]) /\ labels' = With(text[at].label, entry)
    <3>1. PICK entry : IsLabelled(text[at]) /\ labels' = With(text[at].label, entry)
      BY <2>3
    <3>2. text[n].label # text[at].label
      <4>1. n \in DOMAIN text /\ at \in DOMAIN text /\ n # at /\ IsLabelled(text[n])
        BY <1>1, <1>3 DEF IInv, TextOK, IsLabelled
      <4>2. QED
        BY <1>1, <3>1, <4>1, VerifierAssumption DEF LabelsDistinct
    <3>3. text[n].label \in DOMAIN labels' /\ labels'[text[n].label] = labels[text[n].label]
      BY <2>1, <3>1, <3>2 DEF With
    <3>4. QED
      BY <2>1, <3>3
  <2>4. QED
    BY <2>2, <2>3
<1>4. ASSUME IsAssertion(text[at])
      PROVE  text[at].label \in DOMAIN labels' /\ EntryIs(labels'[text[at].label], at)
  <2>1. PICK entry : labels' = With(text[at].label, entry) /\ EntryIs(entry, at)
    BY <1>4
  <2>2. text[at].label \in DOMAIN labels' /\ labels'[text[at].label] = entry
    BY <2>1 DEF With
  <2>3. QED
    BY <2>1, <2>2
<1>5. ASSUME NEW n \in 1..at, IsAssertion(text[n])
      PROVE  text[n].label \in DOMAIN labels' /\ EntryIs(labels'[text[n].label], n)
  <2>1. n \in 1 .. at - 1 \/ n = at
    BY <1>1
  <2>2. QED
    BY <1>3, <1>4, <1>5, <2>1
<1>6. (at + 1) - 1 = at
  BY <1>1
<1>7. LabelsMet' /\ FramesAgree'
  <2>1. LabelsMet'
    BY <1>5, <1>6 DEF LabelsMet
  <2>2. FramesAgree'
    BY <1>5, <1>6 DEF FramesAgree, EntryIs
  <2>3. QED
    BY <2>1, <2>2
<1>8. QED
  BY <1>2, <1>7 DEF IInv

LEMMA InitInv == Init => IInv
<1> SUFFICES ASSUME Init PROVE IInv
  OBVIOUS
<1>1. text \in Texts /\ text \in Seq(ToSet(text)) /\ Len(text) \in Nat /\ at = 1 /\ fs = <<EmptyFrame>>
  BY VerifierAssumption DEF Init
<1>2. TextOK
  BY <1>1 DEF Init, TextOK
<1>3. FrameInv
  <2>1. Depth(text, 0) = 0 /\ at - 1 = 0 /\ 0 .. at - 1 = {0}
    BY <1>1, DepthStart
  <2>2. fs \in Seq(Frames) /\ Len(fs) = 1 /\ fs[1] = EmptyFrame
    BY <1>1, <1>2, AtEmpty
  <2>3. \A op : Level(op, 1) = {}
    BY <1>1 DEF Level, InScope
  <2>4. LevelD(1) = {} /\ \A op : At(text, Level(op, 1)) = <<>>
    BY <1>2, <2>3, AtEmpty DEF LevelD
  <2>5. FrameOK(1)
    BY <2>2, <2>4 DEF FrameOK, EmptyFrame
  <2>6. QED
    BY <2>1, <2>2, <2>5 DEF FrameInv
<1>4. LabelsMet /\ FramesAgree
  BY <1>1 DEF LabelsMet, FramesAgree
<1>5. QED
  BY <1>2, <1>3, <1>4 DEF IInv

\* A frame that gets a statement or pairs of the text is a frame.
LEMMA FrameWith ==
    ASSUME NEW fr \in Frames, NEW st \in ToSet(text)
    PROVE  /\ LET frame == [fr EXCEPT !.f = Append(@, st)]
              IN  frame \in Frames /\ frame.f = Append(fr.f, st) /\ frame.e = fr.e /\ frame.d = fr.d
           /\ LET frame == [fr EXCEPT !.e = Append(@, st)]
              IN  frame \in Frames /\ frame.e = Append(fr.e, st) /\ frame.f = fr.f /\ frame.d = fr.d
<1>1. PICK f \in Seq(ToSet(text)), e \in Seq(ToSet(text)), d \in SUBSET AllPairs : fr = [f |-> f, e |-> e, d |-> d]
  BY DEF Frames
<1>2. Append(f, st) \in Seq(ToSet(text)) /\ Append(e, st) \in Seq(ToSet(text))
  OBVIOUS
<1> DEFINE ff == Append(f, st)
           ee == Append(e, st)
<1>5. fr.f = f /\ fr.e = e /\ fr.d = d
  BY <1>1
<1> HIDE DEF ff, ee
<1>6. [fr EXCEPT !.f = ff] = [f |-> ff, e |-> e, d |-> d]
  BY <1>1
<1>7. [fr EXCEPT !.e = ee] = [f |-> f, e |-> ee, d |-> d]
  BY <1>1
<1>3. /\ [fr EXCEPT !.f = Append(@, st)] = [f |-> Append(f, st), e |-> e, d |-> d]
      /\ [fr EXCEPT !.e = Append(@, st)] = [f |-> f, e |-> Append(e, st), d |-> d]
  BY <1>5, <1>6, <1>7 DEF ff, ee
<1>4. QED
  BY <1>1, <1>2, <1>3 DEF Frames

\* The handlers that read a statement.
LEMMA ReadsKeep ==
    ASSUME IInv, OpenBlock \/ CloseBlock \/ ReadF \/ ReadE \/ ReadD \/ ReadA
    PROVE  IInv'
<1>1. verdict = "reading" /\ ~proving /\ at <= Len(text)
  BY DEF OpenBlock, CloseBlock, ReadF, ReadE, ReadD, ReadA, Reading
<1>2. TextOK /\ FrameInv
  BY DEF IInv
<1>3. /\ fs \in Seq(Frames) /\ Len(fs) \in Nat \ {0} /\ DOMAIN fs = 1..Len(fs) /\ Last(fs) = fs[Len(fs)]
      /\ at \in 1..Len(text) /\ text[at] \in ToSet(text) /\ fs[Len(fs)] \in Frames
  <2>1. fs \in Seq(Frames) /\ Len(fs) \in Nat \ {0} /\ at \in Nat \ {0} /\ text \in Seq(ToSet(text))
    BY <1>1, <1>2, DepthNow
  <2>2. QED
    BY <1>1, <2>1 DEF Last, ToSet
<1> DEFINE st == text[at]
           top == Len(fs)
<1>4. ASSUME Reject PROVE IInv'
  BY <1>1, <1>4, Stays DEF Reject
<1>5. CASE OpenBlock
  <2>1. Reads(Append(fs, EmptyFrame)) /\ text[at].op = "enter" /\ labels' = labels /\ ~proving'
    BY <1>1, <1>5 DEF OpenBlock, Reading, Proceed, Reads
  <2>2. FrameInv'
    BY <1>2, <2>1, OpenFrames
  <2>3. QED
    BY <1>1, <2>1, <2>2, Proceeds DEF Reads, IsAssertion
<1>6. CASE CloseBlock
  <2>1. CASE Len(fs) = 1
    <3>1. UNCHANGED <<text, at, labels>> /\ ~proving' /\ verdict' = "accepted"
      BY <1>1, <1>6, <2>1 DEF CloseBlock
    <3>2. QED
      BY <3>1, Stays
  <2>2. CASE Len(fs) # 1
    <3>1. /\ Reads(Front(fs)) /\ text[at].op = "exit" /\ labels' = labels /\ ~proving' /\ Len(fs) > 1
      BY <1>1, <1>3, <1>6, <2>2 DEF CloseBlock, Reading, Proceed, Reads, Closed
    <3>2. FrameInv'
      BY <1>2, <3>1, CloseFrames
    <3>3. QED
      BY <1>1, <3>1, <3>2, Proceeds DEF Reads, IsAssertion
  <2>3. QED
    BY <2>1, <2>2
<1>7. CASE ReadF
  <2>1. CASE \E n \in DOMAIN Last(fs).f : Last(fs).f[n].var = st.var
    BY <1>4, <1>7, <2>1 DEF ReadF
  <2>2. CASE ~ \E n \in DOMAIN Last(fs).f : Last(fs).f[n].var = st.var
    <3> DEFINE frame == [fs[top] EXCEPT !.f = Append(@, st)]
    <3>1. /\ Reads(InTop(frame)) /\ st.op = "f" /\ ~proving'
          /\ labels' = With(st.label, [class |-> "f", stat |-> Stat(st)])
      BY <1>1, <1>3, <1>7, <2>2 DEF ReadF, Reading, Proceed, Reads
    <3>2. /\ frame.f = Append(fs[top].f, st) /\ frame.e = fs[top].e /\ frame.d = fs[top].d
          /\ frame \in Frames
      BY <1>3, FrameWith
    <3> HIDE DEF frame
    <3>3. FrameInv'
      BY <1>2, <1>3, <3>1, <3>2, HypFrames
    <3>4. QED
      BY <1>1, <3>1, <3>3, Proceeds DEF Reads, IsAssertion, IsLabelled, IsHyp
  <2>3. QED
    BY <2>1, <2>2
<1>8. CASE ReadE
  <2> DEFINE frame == [fs[top] EXCEPT !.e = Append(@, st)]
  <2>1. /\ Reads(InTop(frame)) /\ st.op = "e" /\ ~proving'
        /\ labels' = With(st.label, [class |-> "e", stat |-> Stat(st)])
    BY <1>1, <1>3, <1>8 DEF ReadE, Reading, Proceed, Reads
  <2>2. /\ frame.e = Append(fs[top].e, st) /\ frame.f = fs[top].f /\ frame.d = fs[top].d
        /\ frame \in Frames
    BY <1>3, FrameWith
  <2> HIDE DEF frame
  <2>3. FrameInv'
    BY <1>2, <1>3, <2>1, <2>2, HypFrames
  <2>4. QED
    BY <1>1, <2>1, <2>3, Proceeds DEF Reads, IsAssertion, IsLabelled, IsHyp
<1>9. CASE ReadD
  <2> DEFINE frame == [fs[top] EXCEPT !.d = @ \cup PairsOf(st.vars)]
  <2>1. Reads(InTop(frame)) /\ st.op = "d" /\ ~proving' /\ labels' = labels
    BY <1>1, <1>3, <1>9 DEF ReadD, Reading, Proceed, Reads
  <2>2. PairsOf(st.vars) \subseteq AllPairs
    BY <1>3 DEF AllPairs
  <2>3. /\ frame.e = fs[top].e /\ frame.f = fs[top].f /\ frame.d = fs[top].d \cup PairsOf(st.vars)
        /\ frame \in Frames
    BY <1>3, <2>2 DEF Frames
  <2> HIDE DEF frame
  <2>4. FrameInv'
    BY <1>2, <1>3, <2>1, <2>3, DisjFrames
  <2>5. QED
    BY <1>1, <2>1, <2>4, Proceeds DEF Reads, IsAssertion
<1>10. CASE ReadA
  <2>1. Reads(fs) /\ st.op = "a" /\ ~proving' /\ labels' = With(st.label, MakeAssertion(st))
    BY <1>1, <1>10 DEF ReadA, Reading, Proceed, Reads
  <2>2. FrameInv'
    BY <1>2, <2>1, SameFrames
  <2>3. EntryIs(MakeAssertion(st), at)
    BY <1>1, <1>2, FrameMade DEF EntryIs
  <2>4. QED
    BY <1>1, <2>1, <2>2, <2>3, Proceeds DEF Reads, IsAssertion, IsLabelled
<1>11. QED
  BY <1>5, <1>6, <1>7, <1>8, <1>9, <1>10

\* The proof of a $p ends, and the $p is in the dictionary.
LEMMA EndKeeps == ASSUME IInv, EndProof PROVE IInv'
<1>1. verdict = "reading" /\ proving /\ at <= Len(text) /\ text[at].op = "p"
  BY DEF EndProof, InProof, IInv, TextOK
<1>2. TextOK /\ FrameInv
  BY DEF IInv
<1>3. CASE Proved
  <2>1. Reads(fs) /\ ~proving' /\ labels' = With(text[at].label, MakeAssertion(text[at]))
    BY <1>1, <1>3 DEF EndProof, Proceed, Reads
  <2>2. FrameInv'
    BY <1>1, <1>2, <2>1, SameFrames
  <2>3. EntryIs(MakeAssertion(text[at]), at)
    BY <1>1, <1>2, FrameMade DEF EntryIs
  <2>4. QED
    BY <1>1, <2>1, <2>2, <2>3, Proceeds DEF Reads, IsAssertion, IsLabelled
<1>4. CASE ~Proved
  <2>1. Reject
    BY <1>4 DEF EndProof
  <2>2. QED
    BY <1>1, <2>1, Stays DEF Reject
<1>5. QED
  BY <1>3, <1>4

LEMMA StepKeeps == IInv /\ [Next]_vars => IInv'
<1> SUFFICES ASSUME IInv, [Next]_vars PROVE IInv'
  OBVIOUS
<1>1. proving => at <= Len(text) /\ text[at].op = "p"
  BY DEF IInv, TextOK
<1>2. CASE OpenBlock \/ CloseBlock \/ ReadF \/ ReadE \/ ReadD \/ ReadA
  BY <1>2, ReadsKeep
<1>3. CASE EndOfText
  <2>1. UNCHANGED <<text, at, labels, proving>> /\ verdict' # "reading"
    BY <1>3 DEF EndOfText, Reject
  <2>2. QED
    BY <1>1, <2>1, Stays
<1>4. CASE ReadP
  BY <1>4, Stays DEF ReadP, Reading
<1>5. ASSUME NEW l \in Labels, PushHyp(l) \/ Apply(l) PROVE IInv'
  BY <1>1, <1>5, Stays DEF PushHyp, Apply
<1>6. ASSUME NEW l \in Labels, Refuse(l) PROVE IInv'
  BY <1>1, <1>6, Stays DEF Refuse, Reject
<1>7. CASE EndProof
  BY <1>7, EndKeeps
<1>8. CASE UNCHANGED vars
  BY <1>1, <1>8, Stays DEF vars
<1>9. QED
  BY <1>2, <1>3, <1>4, <1>5, <1>6, <1>7, <1>8 DEF Next

\* The verifier keeps a stack of frames, one for each open block, and assembles
\* what an assertion requires from all of them (make_assertion).  For every text
\* and whatever proofs are checked on the way, what it assembles is what the
\* scopes of the text say, by position and without any stack.
THEOREM FramesAreScopes == Spec => []FramesAgree
<1>1. IInv => FramesAgree
  BY DEF IInv
<1>2. QED
  BY <1>1, InitInv, StepKeeps, PTL DEF Spec

-----------------------------------------------------------------------------
(* Substitution *)

\* what becomes of a token
Image(sigma, x) == IF x \in DOMAIN sigma THEN sigma[x] ELSE <<x>>

\* sigma makes sequences over Y of sequences over X
Into(sigma, X, Y) == \A x \in X : Image(sigma, x) \in Seq(Y)

Images(s, sigma) == [n \in 1..Len(s) |-> Image(sigma, s[n])]

LEMMA SubstIs ==
    ASSUME NEW X, NEW Y, NEW sigma, Into(sigma, X, Y), NEW s \in Seq(X)
    PROVE  /\ Images(s, sigma) \in Seq(Seq(Y)) /\ Len(Images(s, sigma)) = Len(s)
           /\ Subst(s, sigma) = FlattenSeq(Images(s, sigma))
           /\ Subst(s, sigma) \in Seq(Y)
           /\ Images(<<>>, sigma) = <<>>
<1>1. Len(s) \in Nat /\ DOMAIN s = 1..Len(s) /\ \A n \in 1..Len(s) : s[n] \in X
  OBVIOUS
<1>2. \A n \in 1..Len(s) : Image(sigma, s[n]) \in Seq(Y)
  BY <1>1 DEF Into
<1>3. Images(s, sigma) \in Seq(Seq(Y)) /\ Len(Images(s, sigma)) = Len(s)
  BY <1>1, <1>2 DEF Images
<1>4. Subst(s, sigma) = FlattenSeq(Images(s, sigma))
  BY <1>1 DEF Subst, Image, Images
<1>5. FlattenSeq(Images(s, sigma)) \in Seq(Y)
  BY <1>3, FlattenElements
<1>6. Images(<<>>, sigma) = <<>>
  BY DEF Images
<1>7. QED
  BY <1>3, <1>4, <1>5, <1>6

LEMMA SubstEmpty == \A sigma : Subst(<<>>, sigma) = <<>>
<1> TAKE sigma
<1>1. [n \in DOMAIN <<>> |-> IF <<>>[n] \in DOMAIN sigma THEN sigma[<<>>[n]] ELSE <<<<>>[n]>>] = <<>>
  OBVIOUS
<1>2. QED
  BY <1>1, FlattenEmpty DEF Subst

\* Substitution is token by token.
LEMMA SubstAppend ==
    ASSUME NEW X, NEW Y, NEW sigma, Into(sigma, X, Y), NEW s \in Seq(X), NEW x \in X
    PROVE  /\ Subst(Append(s, x), sigma) = Subst(s, sigma) \o Image(sigma, x)
           /\ Append(s, x) \in Seq(X) /\ Image(sigma, x) \in Seq(Y)
<1> DEFINE a == Append(s, x)
<1>1. /\ a \in Seq(X) /\ Len(s) \in Nat
      /\ Len(a) = Len(s) + 1 /\ a[Len(s) + 1] = x
      /\ \A n \in 1..Len(s) : a[n] = s[n]
  OBVIOUS
<1> HIDE DEF a
<1>2. /\ Images(s, sigma) \in Seq(Seq(Y)) /\ Len(Images(s, sigma)) = Len(s)
      /\ Subst(s, sigma) = FlattenSeq(Images(s, sigma))
  BY SubstIs
<1>3. Image(sigma, x) \in Seq(Y)
  BY DEF Into
<1>4. Images(a, sigma) = Append(Images(s, sigma), Image(sigma, x))
  <2>1. Images(a, sigma) = [n \in 1 .. Len(s) + 1 |-> IF n = Len(s) + 1 THEN Image(sigma, x) ELSE Image(sigma, s[n])]
    BY <1>1 DEF Images
  <2>2. \A n \in 1..Len(s) : Images(s, sigma)[n] = Image(sigma, s[n])
    BY DEF Images
  <2>3. Append(Images(s, sigma), Image(sigma, x))
          = [n \in 1 .. Len(s) + 1 |-> IF n = Len(s) + 1 THEN Image(sigma, x) ELSE Images(s, sigma)[n]]
    <3>1. ASSUME NEW Z, NEW q \in Seq(Z), NEW z \in Z
          PROVE  Append(q, z) = [n \in 1 .. Len(q) + 1 |-> IF n = Len(q) + 1 THEN z ELSE q[n]]
      <4> DEFINE r == [n \in 1 .. Len(q) + 1 |-> IF n = Len(q) + 1 THEN z ELSE q[n]]
      <4>1. r \in Seq(Z) /\ Len(r) = Len(q) + 1 /\ \A n \in 1 .. Len(q) + 1 : r[n] = Append(q, z)[n]
        OBVIOUS
      <4>2. Append(q, z) \in Seq(Z) /\ Len(Append(q, z)) = Len(q) + 1
        OBVIOUS
      <4> HIDE DEF r
      <4>3. Append(q, z) = r
        BY <4>1, <4>2
      <4>4. QED
        BY <4>3 DEF r
    <3>2. QED
      BY <1>2, <1>3, <3>1
  <2>4. QED
    BY <1>1, <2>1, <2>2, <2>3
<1>5. Subst(a, sigma) = FlattenSeq(Images(a, sigma))
  BY <1>1, SubstIs
<1>6. FlattenSeq(Append(Images(s, sigma), Image(sigma, x))) = FlattenSeq(Images(s, sigma)) \o Image(sigma, x)
  BY <1>2, <1>3, FlattenAppend
<1>7. QED
  BY <1>1, <1>2, <1>3, <1>4, <1>5, <1>6 DEF a

LEMMA SubstConcat ==
    ASSUME NEW X, NEW Y, NEW sigma, Into(sigma, X, Y), NEW s \in Seq(X), NEW t \in Seq(X)
    PROVE  Subst(s \o t, sigma) = Subst(s, sigma) \o Subst(t, sigma)
<1> DEFINE T == {u \in Seq(X) : Subst(s \o u, sigma) = Subst(s, sigma) \o Subst(u, sigma)}
<1>1. <<>> \in T
  <2>1. s \o <<>> = s /\ Subst(<<>>, sigma) = <<>> /\ Subst(s, sigma) \in Seq(Y) /\ <<>> \in Seq(X)
    BY SubstEmpty, SubstIs
  <2>2. Subst(s, sigma) \o <<>> = Subst(s, sigma)
    BY <2>1
  <2>3. QED
    BY <2>1, <2>2
<1>2. ASSUME NEW u \in Seq(X), NEW x \in X, u \in T PROVE Append(u, x) \in T
  <2> DEFINE su == s \o u
  <2>1. s \o Append(u, x) = Append(su, x) /\ su \in Seq(X) /\ Append(u, x) \in Seq(X)
    OBVIOUS
  <2> HIDE DEF su
  <2>2. /\ Subst(Append(su, x), sigma) = Subst(su, sigma) \o Image(sigma, x)
        /\ Subst(Append(u, x), sigma) = Subst(u, sigma) \o Image(sigma, x)
        /\ Subst(s, sigma) \in Seq(Y) /\ Subst(u, sigma) \in Seq(Y) /\ Image(sigma, x) \in Seq(Y)
    <3>1. /\ Subst(Append(su, x), sigma) = Subst(su, sigma) \o Image(sigma, x)
          /\ Image(sigma, x) \in Seq(Y)
      <4>1. su \in Seq(X)
        BY <2>1
      <4>2. QED
        BY <4>1, SubstAppend
    <3>2. Subst(Append(u, x), sigma) = Subst(u, sigma) \o Image(sigma, x)
      BY SubstAppend
    <3>3. Subst(s, sigma) \in Seq(Y) /\ Subst(u, sigma) \in Seq(Y)
      BY SubstIs
    <3>4. QED
      BY <3>1, <3>2, <3>3
  <2>3. (Subst(s, sigma) \o Subst(u, sigma)) \o Image(sigma, x)
          = Subst(s, sigma) \o (Subst(u, sigma) \o Image(sigma, x))
    BY <2>2, ConcatAssociative
  <2>4. QED
    BY <1>2, <2>1, <2>2, <2>3 DEF su
<1> HIDE DEF T
<1>3. Seq(X) \subseteq T
  BY <1>1, <1>2, SeqInduct
<1>4. QED
  BY <1>3 DEF T

\* A substitution changes nothing but the variables it has.
LEMMA SubstOne ==
    ASSUME NEW sigma, NEW x
    PROVE  /\ x \notin DOMAIN sigma => Subst(<<x>>, sigma) = <<x>>
           /\ \A Y : x \in DOMAIN sigma /\ sigma[x] \in Seq(Y) => Subst(<<x>>, sigma) = sigma[x]
<1>1. ASSUME NEW Y, Image(sigma, x) \in Seq(Y) PROVE Subst(<<x>>, sigma) = Image(sigma, x)
  <2>1. Into(sigma, {x}, Y) /\ <<>> \in Seq({x}) /\ Append(<<>>, x) = <<x>>
    BY <1>1 DEF Into
  <2>2. Subst(Append(<<>>, x), sigma) = Subst(<<>>, sigma) \o Image(sigma, x)
    BY <2>1, SubstAppend
  <2>3. <<>> \o Image(sigma, x) = Image(sigma, x)
    BY <1>1
  <2>4. QED
    BY <2>1, <2>2, <2>3, SubstEmpty
<1>2. <<x>> \in Seq({x})
  OBVIOUS
<1>3. QED
  BY <1>1, <1>2 DEF Image

\* Two substitutions that agree on the variables of an expression do the same.
LEMMA SubstAgree ==
    ASSUME NEW X, NEW Y, NEW sigma, Into(sigma, X, Y), NEW tau,
           \A x \in X : Image(sigma, x) = Image(tau, x), NEW s \in Seq(X)
    PROVE  Subst(s, sigma) = Subst(s, tau)
<1>1. Into(tau, X, Y)
  BY DEF Into
<1>2. Images(s, sigma) = Images(s, tau)
  BY DEF Images
<1>3. QED
  BY <1>1, <1>2, SubstIs

\* Substitutions compose: one after the other is the one that puts for a variable
\* what the second makes of what the first puts for it.
After(tau, sigma) == [v \in DOMAIN sigma |-> Subst(sigma[v], tau)]

LEMMA SubstCompose ==
    ASSUME NEW X, NEW Y, NEW Z, NEW sigma, Into(sigma, X, Y), NEW tau, Into(tau, Y, Z),
           \A x \in X : x \in DOMAIN sigma \/ x \notin DOMAIN tau, NEW s \in Seq(X)
    PROVE  Subst(Subst(s, sigma), tau) = Subst(s, After(tau, sigma))
<1>1. \A x \in X : Image(sigma, x) \in Seq(Y) /\ Subst(Image(sigma, x), tau) = Image(After(tau, sigma), x)
  <2> TAKE x \in X
  <2>1. Image(sigma, x) \in Seq(Y)
    BY DEF Into
  <2>2. CASE x \in DOMAIN sigma
    BY <2>1, <2>2 DEF Image, After
  <2>3. CASE x \notin DOMAIN sigma
    <3>1. x \notin DOMAIN tau /\ x \notin DOMAIN After(tau, sigma)
      BY <2>3 DEF After
    <3>2. QED
      BY <2>1, <2>3, <3>1, SubstOne DEF Image
  <2>4. QED
    BY <2>2, <2>3
<1>2. Into(After(tau, sigma), X, Z)
  <2>1. \A x \in X : Subst(Image(sigma, x), tau) \in Seq(Z)
    BY <1>1, SubstIs
  <2>2. QED
    BY <1>1, <2>1 DEF Into
<1> DEFINE T == {u \in Seq(X) : Subst(Subst(u, sigma), tau) = Subst(u, After(tau, sigma))}
<1>3. <<>> \in T
  BY SubstEmpty
<1>4. ASSUME NEW u \in Seq(X), NEW x \in X, u \in T PROVE Append(u, x) \in T
  <2>1. /\ Subst(Append(u, x), sigma) = Subst(u, sigma) \o Image(sigma, x)
        /\ Append(u, x) \in Seq(X) /\ Image(sigma, x) \in Seq(Y)
    BY SubstAppend
  <2>2. Subst(u, sigma) \in Seq(Y)
    BY SubstIs
  <2>3. Subst(Subst(u, sigma) \o Image(sigma, x), tau) = Subst(Subst(u, sigma), tau) \o Subst(Image(sigma, x), tau)
    <3> DEFINE a == Subst(u, sigma)
               b == Image(sigma, x)
    <3>1. a \in Seq(Y) /\ b \in Seq(Y)
      BY <2>1, <2>2
    <3> HIDE DEF a, b
    <3>2. Subst(a \o b, tau) = Subst(a, tau) \o Subst(b, tau)
      BY <3>1, SubstConcat
    <3>3. QED
      BY <3>2 DEF a, b
  <2>4. Subst(Append(u, x), After(tau, sigma)) = Subst(u, After(tau, sigma)) \o Image(After(tau, sigma), x)
    BY <1>2, SubstAppend
  <2>5. QED
    BY <1>1, <1>4, <2>1, <2>3, <2>4
<1> HIDE DEF T
<1>5. Seq(X) \subseteq T
  BY <1>3, <1>4, SeqInduct
<1>6. QED
  BY <1>5 DEF T

\* The tokens of the result are those of the images.
LEMMA SubstTokens ==
    ASSUME NEW X, NEW Y, NEW sigma, Into(sigma, X, Y), NEW s \in Seq(X)
    PROVE  TokensOf(Subst(s, sigma)) = UNION {TokensOf(Image(sigma, x)) : x \in TokensOf(s)}
<1>1. \A q : ToSet(q) = TokensOf(q)
  BY DEF ToSet, TokensOf
<1>2. /\ Images(s, sigma) \in Seq(Seq(Y)) /\ Len(Images(s, sigma)) = Len(s)
      /\ Subst(s, sigma) = FlattenSeq(Images(s, sigma))
  BY SubstIs
<1>3. ToSet(Subst(s, sigma)) = UNION {ToSet(Images(s, sigma)[n]) : n \in 1..Len(s)}
  BY <1>2, FlattenElements
<1>4. \A n \in 1..Len(s) : Images(s, sigma)[n] = Image(sigma, s[n])
  BY DEF Images
<1>5. TokensOf(s) = {s[n] : n \in 1..Len(s)}
  BY DEF TokensOf
<1>6. QED
  BY <1>1, <1>3, <1>4, <1>5

-----------------------------------------------------------------------------
(* The variables of a statement *)

VarsAt(s, n) == {s[j].var : j \in ActiveF(s, n)}

\* the tokens that may occur in a statement with the variables vs
Over(vs) == Consts \cup vs

LEMMA FloatIs ==
    ASSUME NEW s, Len(s) \in Nat, NEW n, NEW v, FloatOf(s, v, n) # 0
    PROVE  FloatOf(s, v, n) \in ActiveF(s, n) /\ s[FloatOf(s, v, n)].var = v
<1> DEFINE F == {j \in ActiveF(s, n) : s[j].var = v}
<1>1. FloatOf(s, v, n) = IF F = {} THEN 0 ELSE CHOOSE j \in F : \A k \in F : k <= j
  BY DEF FloatOf
<1>2. F \subseteq 0..Len(s)
  BY DEF ActiveF
<1>3. \A j \in F : j \in ActiveF(s, n) /\ s[j].var = v
  OBVIOUS
<1> HIDE DEF F
<1>4. F # {}
  BY <1>1
<1>5. \E j \in F : \A k \in F : k <= j
  BY <1>2, <1>4, NatGreatest
<1>6. FloatOf(s, v, n) \in F
  BY <1>1, <1>4, <1>5
<1>7. QED
  BY <1>3, <1>6

\* In an ordinary text the variables of an assertion and its hypotheses have a $f.
LEMMA MandatoryHaveFloats ==
    ASSUME NEW s, Len(s) \in Nat, DOMAIN s = 1..Len(s), Ordinary(s),
           NEW n \in 1..Len(s), IsAssertion(s[n])
    PROVE  /\ MandatoryVars(s, n) \subseteq VarsAt(s, n)
           /\ MandatoryF(s, n) = {FloatOf(s, v, n) : v \in MandatoryVars(s, n)}
           /\ MandatoryF(s, n) \subseteq ActiveF(s, n)
           /\ \A v \in MandatoryVars(s, n) :
                 FloatOf(s, v, n) \in MandatoryF(s, n) /\ s[FloatOf(s, v, n)].var = v
           /\ \A j \in MandatoryF(s, n) :
                 s[j].var \in MandatoryVars(s, n) /\ FloatOf(s, s[j].var, n) = j
<1>1. \A v \in MandatoryVars(s, n) : FloatOf(s, v, n) # 0
  BY DEF Ordinary, VarsDeclared
<1>2. \A v \in MandatoryVars(s, n) : FloatOf(s, v, n) \in ActiveF(s, n) /\ s[FloatOf(s, v, n)].var = v
  BY <1>1, FloatIs
<1>3. MandatoryF(s, n) = {FloatOf(s, v, n) : v \in MandatoryVars(s, n)}
  BY <1>1 DEF MandatoryF
<1>4. MandatoryVars(s, n) \subseteq VarsAt(s, n)
  BY <1>2 DEF VarsAt
<1>5. QED
  BY <1>2, <1>3, <1>4

\* Statements are made of constants and of variables that are in scope.
LEMMA StatementsAre ==
    ASSUME NEW s, Len(s) \in Nat, DOMAIN s = 1..Len(s), Ordinary(s), NEW n \in 1..Len(s)
    PROVE  /\ VarsAt(s, n) \subseteq Vars /\ Consts \cap VarsAt(s, n) = {}
           /\ \A j \in ActiveF(s, n) :
                 s[j].op = "f" /\ s[j].tc \in Consts /\ s[j].var \in VarsAt(s, n)
           /\ \A j \in ActiveE(s, n) : s[j].op = "e"
           /\ IsAssertion(s[n]) =>
                 \A j \in ActiveE(s, n) \cup {n} :
                    /\ s[j].op # "f" /\ s[j].tc \in Consts
                    /\ s[j].expr \in Seq(Over(MandatoryVars(s, n)))
           /\ MandatoryVars(s, n) \subseteq Vars
<1>1. \A j \in 1..Len(s) : s[j] \in ToSet(s)
  BY DEF ToSet
<1>2. \A j \in ActiveF(s, n) : s[j].op = "f" /\ s[j].tc \in Consts /\ s[j].var \in Vars
  BY <1>1 DEF ActiveF, Ordinary, IsLabelled, IsHyp
<1>3. \A j \in ActiveE(s, n) : j \in 1..Len(s) /\ s[j].op = "e"
  BY DEF ActiveE
<1>4. ASSUME IsAssertion(s[n]), NEW j \in ActiveE(s, n) \cup {n}
      PROVE  s[j].op # "f" /\ s[j].tc \in Consts /\ s[j].expr \in Seq(Over(MandatoryVars(s, n)))
  <2>1. j \in 1..Len(s) /\ s[j].op \in {"e", "a", "p"}
    BY <1>3, <1>4 DEF IsAssertion
  <2>2. s[j].tc \in Consts /\ s[j].expr \in Seq(Tokens)
    BY <1>1, <2>1 DEF Ordinary, IsLabelled, IsHyp, IsAssertion
  <2>3. VarsIn(s[j].expr) \subseteq MandatoryVars(s, n)
    BY <1>4 DEF MandatoryVars
  <2> DEFINE x == s[j].expr
  <2>4. \A k \in 1..Len(x) : x[k] \in Tokens /\ (x[k] \in Vars => x[k] \in VarsIn(x))
    BY <2>2 DEF VarsIn, TokensOf
  <2>5. \A k \in 1..Len(x) : x[k] \in Over(MandatoryVars(s, n))
    BY <2>3, <2>4 DEF Tokens, Over
  <2>6. x \in Seq(Over(MandatoryVars(s, n)))
    <3> DEFINE Y == Over(MandatoryVars(s, n))
    <3>1. x \in Seq(Tokens) /\ \A k \in 1..Len(x) : x[k] \in Y
      BY <2>2, <2>5
    <3> HIDE DEF x, Y
    <3>2. x \in Seq(Y)
      BY <3>1
    <3>3. QED
      BY <3>2 DEF Y
  <2>7. QED
    BY <2>1, <2>2, <2>6
<1>5. VarsAt(s, n) \subseteq Vars /\ \A j \in ActiveF(s, n) : s[j].var \in VarsAt(s, n)
  BY <1>2 DEF VarsAt
<1>6. Consts \cap VarsAt(s, n) = {}
  BY <1>5 DEF Ordinary, VarsDeclared
<1>7. MandatoryVars(s, n) \subseteq Vars
  BY DEF MandatoryVars, VarsIn
<1>8. QED
  BY <1>2, <1>3, <1>4, <1>5, <1>6, <1>7

\* an expression with its type, as they are on the proof stack
Formed(vs, x) == x \in Seq(Over(vs)) /\ x # <<>> /\ Head(x) \in Consts

LEMMA FormedIs ==
    ASSUME NEW vs, NEW c \in Consts, NEW e \in Seq(Over(vs))
    PROVE  Formed(vs, <<c>> \o e) /\ Head(<<c>> \o e) = c /\ Tail(<<c>> \o e) = e
<1> DEFINE X == Over(vs)
           x == <<c>> \o e
<1>1. c \in X /\ e \in Seq(X)
  BY DEF Over
<1> HIDE DEF X
<1>2. x \in Seq(X) /\ Len(x) = 1 + Len(e) /\ Len(e) \in Nat /\ x[1] = c
      /\ \A k \in 1..Len(e) : x[1 + k] = e[k]
  BY <1>1
<1> HIDE DEF x
<1>3. x # <<>> /\ Head(x) = c
  BY <1>2
<1>4. Tail(x) \in Seq(X) /\ Len(Tail(x)) = Len(e) /\ \A k \in 1..Len(e) : Tail(x)[k] = x[k + 1]
  BY <1>2, <1>3
<1>5. Tail(x) = e
  BY <1>1, <1>2, <1>4
<1>6. QED
  BY <1>2, <1>3, <1>5 DEF x, X, Formed

LEMMA FormedSplit ==
    ASSUME NEW vs, NEW x, Formed(vs, x)
    PROVE  x = <<Head(x)>> \o Tail(x) /\ Tail(x) \in Seq(Over(vs))
<1> DEFINE X == Over(vs)
           y == <<Head(x)>> \o Tail(x)
<1>1. x \in Seq(X) /\ x # <<>>
  BY DEF Formed
<1> HIDE DEF X
<1>2. Len(x) \in Nat \ {0} /\ Head(x) = x[1] /\ Head(x) \in X /\ Tail(x) \in Seq(X)
      /\ Len(Tail(x)) = Len(x) - 1 /\ \A k \in 1 .. Len(x) - 1 : Tail(x)[k] = x[k + 1]
  BY <1>1
<1>3. <<Head(x)>> \in Seq(X) /\ Len(<<Head(x)>>) = 1 /\ <<Head(x)>>[1] = x[1]
  BY <1>2
<1>4. y \in Seq(X) /\ Len(y) = Len(x)
  BY <1>2, <1>3
<1>5. \A k \in 1..Len(x) : y[k] = x[k]
  <2> TAKE k \in 1..Len(x)
  <2>1. CASE k = 1
    BY <1>2, <1>3, <2>1
  <2>2. CASE k # 1
    <3>1. k - 1 \in 1 .. Len(x) - 1 /\ (k - 1) + 1 = k /\ k > 1
      BY <1>2, <2>2
    <3>2. y[k] = Tail(x)[k - 1]
      BY <1>2, <1>3, <3>1
    <3>3. QED
      BY <1>2, <3>1, <3>2
  <2>3. QED
    BY <2>1, <2>2
<1> HIDE DEF y
<1>6. x = y
  BY <1>1, <1>4, <1>5
<1>7. QED
  BY <1>2, <1>6 DEF y, X

LEMMA IntoOver ==
    ASSUME NEW vs, NEW Y, NEW sigma \in [vs -> Seq(Y)], Consts \subseteq Y, NEW ws, ws \subseteq vs
    PROVE  Into(sigma, Over(ws), Y)
<1> SUFFICES ASSUME NEW x \in Over(ws) PROVE Image(sigma, x) \in Seq(Y)
  BY DEF Into
<1>1. CASE x \in vs
  BY <1>1 DEF Image
<1>2. CASE x \notin vs
  <2>1. x \in Y /\ Image(sigma, x) = <<x>>
    BY <1>2 DEF Over, Image
  <2>2. <<x>> \in Seq(Y)
    BY <2>1
  <2>3. QED
    BY <2>1, <2>2
<1>3. QED
  BY <1>1, <1>2

\* The type stays, and the expression is substituted in.
LEMMA FormedSubst ==
    ASSUME NEW vs, NEW Y, NEW sigma, Into(sigma, Over(vs), Y), Consts \cap DOMAIN sigma = {},
           NEW c \in Consts, NEW e \in Seq(Over(vs))
    PROVE  /\ Subst(<<c>> \o e, sigma) = <<c>> \o Subst(e, sigma)
           /\ Subst(e, sigma) \in Seq(Y)
<1> DEFINE X == Over(vs)
<1>1. c \in X /\ <<c>> \in Seq(X) /\ Into(sigma, X, Y) /\ e \in Seq(X)
  BY DEF Over
<1> HIDE DEF X
<1>2. Subst(<<c>> \o e, sigma) = Subst(<<c>>, sigma) \o Subst(e, sigma)
  <2> DEFINE b == <<c>>
  <2>1. b \in Seq(X)
    BY <1>1
  <2> HIDE DEF b
  <2>2. Subst(b \o e, sigma) = Subst(b, sigma) \o Subst(e, sigma)
    BY <1>1, <2>1, SubstConcat
  <2>3. QED
    BY <2>2 DEF b
<1>3. Subst(<<c>>, sigma) = <<c>>
  <2>1. c \notin DOMAIN sigma
    OBVIOUS
  <2>2. QED
    BY <2>1, SubstOne
<1>4. Subst(e, sigma) \in Seq(Y)
  BY <1>1, SubstIs
<1>5. QED
  BY <1>2, <1>3, <1>4

\* The statements of a text are formed.
LEMMA StatFormed ==
    ASSUME NEW s, Len(s) \in Nat, DOMAIN s = 1..Len(s), Ordinary(s), NEW n \in 1..Len(s)
    PROVE  /\ \A j \in ActiveF(s, n) :
                 /\ Stat(s[j]) = <<s[j].tc>> \o <<s[j].var>> /\ s[j].tc \in Consts
                 /\ <<s[j].var>> \in Seq(Over(VarsAt(s, n))) /\ s[j].var \in VarsAt(s, n)
           /\ IsAssertion(s[n]) =>
                 \A j \in ActiveE(s, n) \cup {n} :
                    /\ Stat(s[j]) = <<s[j].tc>> \o s[j].expr /\ s[j].tc \in Consts
                    /\ s[j].expr \in Seq(Over(MandatoryVars(s, n)))
<1>1. ASSUME NEW j \in ActiveF(s, n)
      PROVE  /\ Stat(s[j]) = <<s[j].tc>> \o <<s[j].var>> /\ s[j].tc \in Consts
             /\ <<s[j].var>> \in Seq(Over(VarsAt(s, n))) /\ s[j].var \in VarsAt(s, n)
  <2>1. s[j].op = "f" /\ s[j].tc \in Consts /\ s[j].var \in VarsAt(s, n)
    BY StatementsAre
  <2>2. s[j].var \in Over(VarsAt(s, n))
    BY <2>1 DEF Over
  <2>3. <<s[j].var>> \in Seq(Over(VarsAt(s, n)))
    BY <2>2
  <2>4. QED
    BY <2>1, <2>3 DEF Stat
<1>2. ASSUME IsAssertion(s[n]), NEW j \in ActiveE(s, n) \cup {n}
      PROVE  /\ Stat(s[j]) = <<s[j].tc>> \o s[j].expr /\ s[j].tc \in Consts
             /\ s[j].expr \in Seq(Over(MandatoryVars(s, n)))
  <2>1. /\ s[j].op # "f" /\ s[j].tc \in Consts
        /\ s[j].expr \in Seq(Over(MandatoryVars(s, n)))
    BY <1>2, StatementsAre
  <2>2. QED
    BY <2>1 DEF Stat
<1>3. QED
  BY <1>1, <1>2

-----------------------------------------------------------------------------
(* One application *)

\* what the variables in scope at statement n of s may stand for
Goods(L, s, n) ==
    {tau \in [VarsAt(s, n) -> Seq(L.symbols)] :
        /\ \A j \in ActiveF(s, n) : <<s[j].tc>> \o tau[s[j].var] \in L.true
        /\ \A j \in ActiveE(s, n) : Subst(Stat(s[j]), tau) \in L.true
        /\ \A pair \in ActiveD(s, n) : pair \subseteq VarsAt(s, n) => KeptApart(L, tau, pair)}

\* sigma makes of assertion m a step of a proof of n: X has its hypotheses
Fitting(s, m, n, sigma, X) ==
    /\ sigma \in [MandatoryVars(s, m) -> Seq(Over(VarsAt(s, n)))]
    /\ \A j \in MandatoryF(s, m) : <<s[j].tc>> \o sigma[s[j].var] \in X
    /\ \A j \in ActiveE(s, m) : Subst(Stat(s[j]), sigma) \in X
    /\ \A pair \in MandatoryD(s, m) : \A x, y \in pair : x # y =>
          \A u \in VarsIn(sigma[x]), v \in VarsIn(sigma[y]) : u # v /\ {u, v} \in ActiveD(s, n)

\* The variables of what tau makes of e come from variables of e.
LEMMA VarsComeFrom ==
    ASSUME NEW L, L.vars \cap Consts = {}, Consts \subseteq L.symbols, NEW vs, Consts \cap vs = {},
           vs \subseteq Vars,
           NEW tau \in [vs -> Seq(L.symbols)], NEW e \in Seq(Over(vs)),
           NEW u \in TokensOf(Subst(e, tau)), u \in L.vars
    PROVE  \E z \in VarsIn(e) : z \in vs /\ u \in TokensOf(tau[z])
<1>1. Into(tau, Over(vs), L.symbols)
  BY IntoOver
<1>2. TokensOf(Subst(e, tau)) = UNION {TokensOf(Image(tau, x)) : x \in TokensOf(e)}
  BY <1>1, SubstTokens
<1>3. PICK z \in TokensOf(e) : u \in TokensOf(Image(tau, z))
  BY <1>2
<1>4. z \in Over(vs)
  BY DEF TokensOf
<1>5. z \in vs
  <2> SUFFICES ASSUME z \notin vs PROVE FALSE
    OBVIOUS
  <2>1. z \in Consts /\ Image(tau, z) = <<z>>
    BY <1>4 DEF Over, Image
  <2>2. u = z
    BY <1>3, <2>1 DEF TokensOf
  <2>3. QED
    BY <2>1, <2>2
<1>6. z \in VarsIn(e) /\ u \in TokensOf(tau[z])
  BY <1>3, <1>5 DEF VarsIn, Image
<1>7. QED
  BY <1>5, <1>6

\* What a step of a proof leads to is an expression over the variables in scope;
\* and whatever these stand for, the step is a use of its assertion.
LEMMA StepIsUse ==
    ASSUME NEW s, Len(s) \in Nat, DOMAIN s = 1..Len(s), Ordinary(s),
           NEW n \in 1..Len(s), NEW m \in 1..Len(s), IsAssertion(s[m]),
           NEW sigma, NEW X, Fitting(s, m, n, sigma, X)
    PROVE  /\ Formed(VarsAt(s, n), Subst(Stat(s[m]), sigma))
           /\ \A L, tau : Language(L, s) /\ tau \in Goods(L, s, n)
                          /\ (\A x \in X : Subst(x, tau) \in L.true) =>
                 /\ After(tau, sigma) \in Uses(L, s, m)
                 /\ Subst(Subst(Stat(s[m]), sigma), tau) = Subst(Stat(s[m]), After(tau, sigma))
<1> DEFINE M == MandatoryVars(s, m)
           V == VarsAt(s, n)
<1>1. /\ V \subseteq Vars /\ Consts \cap V = {}
      /\ M \subseteq Vars /\ Consts \cap M = {}
      /\ sigma \in [M -> Seq(Over(V))]
  BY StatementsAre DEF Fitting, Ordinary
<1>2. Into(sigma, Over(M), Over(V))
  BY <1>1, IntoOver DEF Over
<1>3. \A j \in ActiveE(s, m) \cup {m} :
          Stat(s[j]) = <<s[j].tc>> \o s[j].expr /\ s[j].tc \in Consts /\ s[j].expr \in Seq(Over(M))
  BY StatFormed
<1> HIDE DEF M, V
<1>4. Formed(V, Subst(Stat(s[m]), sigma))
  <2>1. /\ Subst(<<s[m].tc>> \o s[m].expr, sigma) = <<s[m].tc>> \o Subst(s[m].expr, sigma)
        /\ Subst(s[m].expr, sigma) \in Seq(Over(V))
    BY <1>1, <1>2, <1>3, FormedSubst
  <2>2. QED
    BY <1>3, <2>1, FormedIs
<1>5. ASSUME NEW L, NEW tau, Language(L, s), tau \in Goods(L, s, n),
             \A x \in X : Subst(x, tau) \in L.true
      PROVE  /\ After(tau, sigma) \in Uses(L, s, m)
             /\ Subst(Subst(Stat(s[m]), sigma), tau) = Subst(Stat(s[m]), After(tau, sigma))
  <2> DEFINE rho == After(tau, sigma)
  <2>1. /\ Consts \subseteq L.symbols /\ L.vars \cap Consts = {}
        /\ tau \in [V -> Seq(L.symbols)] /\ Into(tau, Over(V), L.symbols)
    <3>1. Consts \subseteq L.symbols /\ L.vars \cap Consts = {} /\ tau \in [V -> Seq(L.symbols)]
      BY <1>5 DEF Language, Goods, V
    <3>2. QED
      BY <3>1, IntoOver
  <2>2. \A j \in ActiveE(s, m) \cup {m} : Stat(s[j]) \in Seq(Over(M))
    <3> TAKE j \in ActiveE(s, m) \cup {m}
    <3>1. Formed(M, <<s[j].tc>> \o s[j].expr)
      BY <1>3, FormedIs
    <3>2. QED
      BY <1>3, <3>1 DEF Formed
  <2>3. \A e \in Seq(Over(M)) : Subst(Subst(e, sigma), tau) = Subst(e, rho)
    <3>1. \A x \in Over(M) : x \in DOMAIN sigma \/ x \notin DOMAIN tau
      BY <1>1, <2>1 DEF Over
    <3> DEFINE Y == Over(M)
               W == Over(V)
    <3>2. Into(sigma, Y, W) /\ Into(tau, W, L.symbols) /\ \A x \in Y : x \in DOMAIN sigma \/ x \notin DOMAIN tau
      BY <1>2, <2>1, <3>1
    <3> HIDE DEF Y, W
    <3>3. \A e \in Seq(Y) : Subst(Subst(e, sigma), tau) = Subst(e, After(tau, sigma))
      <4> TAKE e \in Seq(Y)
      <4>1. QED
        BY ONLY <3>2, SubstCompose, e \in Seq(Y)
    <3>4. QED
      BY <3>3 DEF Y
  <2>4. rho \in [M -> Seq(L.symbols)] /\ \A x \in M : rho[x] = Subst(sigma[x], tau)
    <3>1. \A x \in M : Subst(sigma[x], tau) \in Seq(L.symbols)
      BY <1>1, <2>1, SubstIs
    <3>2. QED
      BY <1>1, <3>1 DEF After
  <2> HIDE DEF rho
  <2>5. ASSUME NEW j \in MandatoryF(s, m) PROVE <<s[j].tc>> \o rho[s[j].var] \in L.true
    <3>1. s[j].var \in M /\ s[j].tc \in Consts
      BY MandatoryHaveFloats, StatementsAre DEF M
    <3>2. Subst(<<s[j].tc>> \o sigma[s[j].var], tau) = <<s[j].tc>> \o Subst(sigma[s[j].var], tau)
      BY <1>1, <2>1, <3>1, FormedSubst
    <3>3. Subst(<<s[j].tc>> \o sigma[s[j].var], tau) \in L.true
      BY <1>5 DEF Fitting
    <3>4. QED
      BY <2>4, <3>1, <3>2, <3>3
  <2>6. ASSUME NEW j \in ActiveE(s, m) PROVE Subst(Stat(s[j]), rho) \in L.true
    <3>1. Subst(Subst(Stat(s[j]), sigma), tau) \in L.true
      BY <1>5 DEF Fitting
    <3>2. QED
      BY <2>2, <2>3, <3>1
  <2>7. ASSUME NEW pair \in MandatoryD(s, m) PROVE KeptApart(L, rho, pair)
    <3> SUFFICES ASSUME NEW x \in pair, NEW y \in pair, x # y,
                        NEW u \in TokensOf(rho[x]) \cap L.vars, NEW v \in TokensOf(rho[y]) \cap L.vars
                 PROVE  u # v /\ {u, v} \in L.apart
      BY DEF KeptApart
    <3>1. x \in M /\ y \in M
      BY DEF MandatoryD, M
    <3>2. u \in TokensOf(Subst(sigma[x], tau)) /\ v \in TokensOf(Subst(sigma[y], tau))
          /\ u \in L.vars /\ v \in L.vars
          /\ sigma[x] \in Seq(Over(V)) /\ sigma[y] \in Seq(Over(V))
      BY <1>1, <2>4, <3>1
    <3>0. /\ L.vars \cap Consts = {} /\ Consts \subseteq L.symbols /\ Consts \cap V = {}
          /\ V \subseteq Vars /\ tau \in [V -> Seq(L.symbols)]
      BY <1>1, <2>1
    <3>3. PICK z \in VarsIn(sigma[x]) : z \in V /\ u \in TokensOf(tau[z])
      BY <3>0, <3>2, VarsComeFrom
    <3>4. PICK w \in VarsIn(sigma[y]) : w \in V /\ v \in TokensOf(tau[w])
      BY <3>0, <3>2, VarsComeFrom
    <3>5. z # w /\ {z, w} \in ActiveD(s, n)
      BY <3>3, <3>4 DEF Fitting
    <3>6. KeptApart(L, tau, {z, w})
      BY <1>5, <3>3, <3>4, <3>5 DEF Goods, V
    <3>7. QED
      BY <3>2, <3>3, <3>4, <3>5, <3>6 DEF KeptApart
  <2>8. rho \in Uses(L, s, m)
    BY <2>4, <2>5, <2>6, <2>7 DEF Uses, M
  <2>9. QED
    BY <2>2, <2>3, <2>8 DEF rho
<1>6. QED
  BY <1>4, <1>5 DEF V

-----------------------------------------------------------------------------
(* Dummy variables *)

\* what the variables in W stand for: sigma says it of some, and what it does not
\* say is of the right type and apart from all else
Extension(L, s, n, sigma, W, tau) ==
    /\ tau \in [W -> Seq(L.symbols)]
    /\ DOMAIN sigma \subseteq W /\ \A v \in DOMAIN sigma : tau[v] = sigma[v]
    /\ \A j \in ActiveF(s, n) : s[j].var \in W => <<s[j].tc>> \o tau[s[j].var] \in L.true
    /\ \A x, y \in W : x # y /\ ~(x \in DOMAIN sigma /\ y \in DOMAIN sigma) =>
          \A u \in TokensOf(tau[x]) \cap L.vars, v \in TokensOf(tau[y]) \cap L.vars :
             u # v /\ {u, v} \in L.apart

LEMMA TwoIs == ASSUME NEW a, NEW b PROVE <<a>> \o <<b>> = <<a, b>>
<1> DEFINE x == <<a>> \o <<b>>
           y == <<a, b>>
<1>1. <<a>> \in Seq({a, b}) /\ <<b>> \in Seq({a, b})
  OBVIOUS
<1>2. x \in Seq({a, b}) /\ Len(x) = 2 /\ x[1] = a /\ x[2] = b
  BY <1>1
<1>3. y \in Seq({a, b}) /\ Len(y) = 2 /\ y[1] = a /\ y[2] = b
  OBVIOUS
<1> HIDE DEF x, y
<1>4. x = y
  BY <1>2, <1>3
<1>5. QED
  BY <1>4 DEF x, y

LEMMA ImageFinite ==
    ASSUME NEW S, IsFiniteSet(S), NEW g, g = [x \in S |-> g[x]]
    PROVE  IsFiniteSet({g[x] : x \in S})
<1> DEFINE T == {g[x] : x \in S}
<1>1. g \in Surjection(S, T)
  BY DEF Surjection
<1> HIDE DEF T
<1>2. IsFiniteSet(T)
  BY <1>1, FS_Surjection
<1>3. QED
  BY <1>2 DEF T

\* One more variable gets a fresh one of its type.
LEMMA OneMore ==
    ASSUME NEW s, Len(s) \in Nat, DOMAIN s = 1..Len(s), Ordinary(s),
           NEW n \in 1..Len(s), IsAssertion(s[n]), NEW L, Language(L, s), NEW sigma,
           NEW W, IsFiniteSet(W), NEW tau, Extension(L, s, n, sigma, W, tau),
           NEW k \in ActiveF(s, n), s[k].var \notin W
    PROVE  \E t : Extension(L, s, n, sigma, W \cup {s[k].var}, t)
<1> DEFINE F == (UNION {TokensOf(tau[x]) : x \in W}) \cap L.vars
           v == s[k].var
<1>1. IsFiniteSet(F)
  <2> DEFINE sets == {TokensOf(tau[x]) : x \in W}
  <2>1. \A x \in W : IsFiniteSet(TokensOf(tau[x]))
    <3> TAKE x \in W
    <3>1. tau[x] \in Seq(L.symbols)
      BY DEF Extension
    <3>2. ToSet(tau[x]) = TokensOf(tau[x])
      BY DEF ToSet, TokensOf
    <3>3. QED
      BY <3>1, <3>2, ElementsFinite
  <2>2. IsFiniteSet(sets)
    <3> DEFINE g == [x \in W |-> TokensOf(tau[x])]
    <3>1. sets = {g[x] : x \in W} /\ g = [x \in W |-> g[x]]
      OBVIOUS
    <3> HIDE DEF sets, g
    <3>2. QED
      BY <3>1, ImageFinite
  <2>3. \A e \in sets : IsFiniteSet(e)
    BY <2>1
  <2>4. IsFiniteSet(UNION sets)
    BY <2>2, <2>3, FS_UNION
  <2>5. QED
    BY <2>4, FS_Subset
<1>2. k \in {i \in DOMAIN s : s[i].op = "f"} /\ F \in SUBSET L.vars
  <2>1. k \in {i \in DOMAIN s : s[i].op = "f"}
    BY DEF ActiveF
  <2>2. F \in SUBSET L.vars
    OBVIOUS
  <2>3. QED
    BY <2>1, <2>2
<1> HIDE DEF F
<1>3. PICK w \in L.vars \ F : <<s[k].tc, w>> \in L.true /\ \A u \in F : {u, w} \in L.apart
  BY <1>1, <1>2 DEF Language
<1> DEFINE t == [x \in W \cup {v} |-> IF x = v THEN <<w>> ELSE tau[x]]
<1>4. /\ t \in [W \cup {v} -> Seq(L.symbols)] /\ t[v] = <<w>> /\ \A x \in W : t[x] = tau[x]
  <2>1. w \in L.symbols
    BY DEF Language
  <2>2. <<w>> \in Seq(L.symbols)
    <3> HIDE DEF t
    <3>1. \A Y : w \in Y => <<w>> \in Seq(Y)
      OBVIOUS
    <3>2. QED
      BY <2>1, <3>1
  <2>3. \A x \in W : tau[x] \in Seq(L.symbols)
    BY DEF Extension
  <2>4. QED
    BY <2>2, <2>3
<1> HIDE DEF t, v
<1>5. DOMAIN sigma \subseteq W \cup {v} /\ \A x \in DOMAIN sigma : t[x] = sigma[x]
  BY <1>4 DEF Extension
<1>6. ASSUME NEW j \in ActiveF(s, n), s[j].var \in W \cup {v} PROVE <<s[j].tc>> \o t[s[j].var] \in L.true
  <2>1. CASE s[j].var \in W
    BY <1>4, <2>1 DEF Extension
  <2>2. CASE s[j].var = v
    <3>1. s[j].tc = s[k].tc
      BY <2>2 DEF Ordinary, VarsDeclared, v
    <3>2. <<s[j].tc>> \o <<w>> = <<s[k].tc, w>>
      BY <3>1, TwoIs
    <3>3. QED
      BY <1>3, <1>4, <2>2, <3>2
  <2>3. QED
    BY <1>6, <2>1, <2>2
<1>7. \A u \in TokensOf(t[v]) : u = w
  BY <1>4 DEF TokensOf
<1>8. \A x \in W : TokensOf(t[x]) \cap L.vars \subseteq F
  <2> TAKE x \in W
  <2>1. TokensOf(t[x]) = TokensOf(tau[x])
    BY <1>4
  <2>2. TokensOf(tau[x]) \cap L.vars \subseteq F
    <3> DEFINE S == UNION {TokensOf(tau[z]) : z \in W}
    <3>1. TokensOf(tau[x]) \subseteq S
      OBVIOUS
    <3> HIDE DEF S
    <3>2. \A A : A \subseteq S => A \cap L.vars \subseteq S \cap L.vars
      OBVIOUS
    <3>3. QED
      BY <3>1, <3>2 DEF S, F
  <2>3. QED
    BY <2>1, <2>2
<1>9. \A u \in F : u # w /\ {u, w} \in L.apart /\ {w, u} \in L.apart
  <2> TAKE u \in F
  <2>1. {u, w} = {w, u}
    OBVIOUS
  <2>2. QED
    BY <1>3, <2>1
<1>10. ASSUME NEW x \in W \cup {v}, NEW y \in W \cup {v},
              x # y, ~(x \in DOMAIN sigma /\ y \in DOMAIN sigma),
              NEW a \in TokensOf(t[x]) \cap L.vars, NEW b \in TokensOf(t[y]) \cap L.vars
       PROVE  a # b /\ {a, b} \in L.apart
  <2>1. CASE x \in W /\ y \in W
    <3>1. a \in TokensOf(tau[x]) \cap L.vars /\ b \in TokensOf(tau[y]) \cap L.vars
      BY <1>4, <2>1
    <3>2. QED
      BY <1>10, <2>1, <3>1 DEF Extension
  <2>2. CASE x \in W /\ y = v
    <3>1. a \in F /\ b = w
      BY <1>7, <1>8, <2>2
    <3>2. QED
      BY <1>9, <3>1
  <2>3. CASE x = v /\ y \in W
    <3>1. b \in F /\ a = w
      BY <1>7, <1>8, <2>3
    <3>2. QED
      BY <1>9, <3>1
  <2>4. QED
    BY <1>10, <2>1, <2>2, <2>3
<1>11. Extension(L, s, n, sigma, W \cup {v}, t)
  BY <1>4, <1>5, <1>6, <1>10 DEF Extension
<1>12. QED
  BY <1>11 DEF v

\* A use of assertion n says what its mandatory variables stand for: there is
\* something for the others in scope to stand for as well.
LEMMA DummiesToo ==
    ASSUME NEW s, Len(s) \in Nat, DOMAIN s = 1..Len(s), Ordinary(s),
           NEW n \in 1..Len(s), IsAssertion(s[n]), NEW L, Language(L, s), NEW sigma \in Uses(L, s, n)
    PROVE  \E tau : Extension(L, s, n, sigma, VarsAt(s, n), tau)
<1> DEFINE M == MandatoryVars(s, n)
           W(k) == M \cup {s[j].var : j \in {i \in ActiveF(s, n) : i <= k}}
           T == {k \in Nat : \E tau : Extension(L, s, n, sigma, W(k), tau)}
<1>1. M \subseteq VarsAt(s, n) /\ DOMAIN sigma = M /\ ActiveF(s, n) \subseteq 1..Len(s)
  BY MandatoryHaveFloats DEF Uses, ActiveF
<1>2. W(0) = M
  BY <1>1
<1>3. Extension(L, s, n, sigma, M, sigma)
  <2>1. sigma \in [M -> Seq(L.symbols)]
    BY DEF Uses
  <2>2. ASSUME NEW j \in ActiveF(s, n), s[j].var \in M PROVE <<s[j].tc>> \o sigma[s[j].var] \in L.true
    <3> DEFINE i == FloatOf(s, s[j].var, n)
    <3>1. i \in MandatoryF(s, n) /\ i \in ActiveF(s, n) /\ s[i].var = s[j].var
      BY <2>2, MandatoryHaveFloats
    <3>2. s[i].tc = s[j].tc
      BY <3>1 DEF Ordinary, VarsDeclared
    <3>3. <<s[i].tc>> \o sigma[s[i].var] \in L.true
      BY <3>1 DEF Uses
    <3>4. QED
      BY <3>1, <3>2, <3>3
  <2>3. QED
    BY <1>1, <2>1, <2>2 DEF Extension
<1>4. 0 \in T
  BY <1>2, <1>3
<1>5. \A k \in Nat : IsFiniteSet(W(k)) /\ W(k) \subseteq VarsAt(s, n)
  <2> DEFINE I == ActiveF(s, n)
             V == {s[j].var : j \in I}
  <2>1. IsFiniteSet(I)
    <3>1. IsFiniteSet(1..Len(s)) /\ I \subseteq 1..Len(s)
      BY <1>1, FS_Interval
    <3>2. QED
      BY <3>1, FS_Subset
  <2> HIDE DEF I
  <2>2. IsFiniteSet(V)
    <3> DEFINE g == [j \in I |-> s[j].var]
    <3>1. V = {g[j] : j \in I} /\ g = [j \in I |-> g[j]]
      OBVIOUS
    <3> HIDE DEF V, g
    <3>2. QED
      BY <2>1, <3>1, ImageFinite
  <2>3. V = VarsAt(s, n)
    BY DEF I, VarsAt
  <2>4. \A k \in Nat : W(k) \subseteq VarsAt(s, n)
    BY <1>1 DEF VarsAt
  <2>5. QED
    BY <2>2, <2>3, <2>4, FS_Subset
<1>6. ASSUME NEW k \in Nat, k \in T PROVE k + 1 \in T
  <2> HIDE DEF W
  <2> SUFFICES \E t : Extension(L, s, n, sigma, W(k + 1), t)
    OBVIOUS
  <2> USE DEF W
  <2>1. PICK tau : Extension(L, s, n, sigma, W(k), tau)
    BY <1>6
  <2>2. CASE k + 1 \in ActiveF(s, n)
    <3>1. W(k + 1) = W(k) \cup {s[k + 1].var}
      <4>1. {i \in ActiveF(s, n) : i <= k + 1} = {i \in ActiveF(s, n) : i <= k} \cup {k + 1}
        BY <1>1, <2>2
      <4>2. QED
        BY <4>1
    <3>2. CASE s[k + 1].var \in W(k)
      <4>1. W(k + 1) = W(k)
        BY <3>1, <3>2
      <4>2. QED
        BY <2>1, <4>1
    <3>3. CASE s[k + 1].var \notin W(k)
      <4> DEFINE X == W(k)
      <4>1. IsFiniteSet(X) /\ Extension(L, s, n, sigma, X, tau) /\ s[k + 1].var \notin X
        BY <1>5, <2>1, <3>3
      <4> HIDE DEF X
      <4>2. \E t : Extension(L, s, n, sigma, X \cup {s[k + 1].var}, t)
        BY <2>2, <4>1, OneMore
      <4>3. QED
        BY <3>1, <4>2 DEF X
    <3>4. QED
      BY <3>2, <3>3
  <2>3. CASE k + 1 \notin ActiveF(s, n)
    <3>1. {i \in ActiveF(s, n) : i <= k + 1} = {i \in ActiveF(s, n) : i <= k}
      BY <1>1, <2>3
    <3>2. W(k + 1) = W(k)
      BY <3>1
    <3>3. QED
      BY <2>1, <3>2
  <2>4. QED
    BY <2>2, <2>3
<1> HIDE DEF T
<1>7. Nat \subseteq T
  BY <1>4, <1>6, NatInduct
<1>8. W(Len(s)) = VarsAt(s, n)
  <2>1. {i \in ActiveF(s, n) : i <= Len(s)} = ActiveF(s, n)
    BY <1>1
  <2>2. QED
    BY <1>1, <2>1 DEF VarsAt
<1>9. QED
  BY <1>7, <1>8 DEF T

\* What is true of all that is in scope at an assertion is true of its variables:
\* an extension of a use of the assertion is good.
LEMMA HoldsWhenProved ==
    ASSUME NEW s, Len(s) \in Nat, DOMAIN s = 1..Len(s), Ordinary(s),
           NEW n \in 1..Len(s), IsAssertion(s[n]), NEW L, Language(L, s),
           \A tau \in Goods(L, s, n) : Subst(Stat(s[n]), tau) \in L.true
    PROVE  HoldsIn(L, s, n)
<1> SUFFICES ASSUME NEW sigma \in Uses(L, s, n) PROVE Subst(Stat(s[n]), sigma) \in L.true
  BY DEF HoldsIn
<1> DEFINE M == MandatoryVars(s, n)
           V == VarsAt(s, n)
<1>1. PICK tau : Extension(L, s, n, sigma, V, tau)
  BY DummiesToo
<1>2. /\ tau \in [V -> Seq(L.symbols)] /\ M \subseteq V /\ DOMAIN sigma = M
      /\ sigma \in [M -> Seq(L.symbols)]
      /\ \A v \in M : tau[v] = sigma[v]
      /\ Consts \cap V = {} /\ Consts \subseteq L.symbols
  <2>1. sigma \in [M -> Seq(L.symbols)]
    BY DEF Uses
  <2>2. M \subseteq V /\ Consts \cap V = {}
    BY MandatoryHaveFloats, StatementsAre
  <2>3. tau \in [V -> Seq(L.symbols)] /\ \A v \in DOMAIN sigma : tau[v] = sigma[v]
    BY <1>1 DEF Extension
  <2>4. QED
    BY <2>1, <2>2, <2>3 DEF Language
<1> HIDE DEF M, V
<1>3. ASSUME NEW j \in ActiveE(s, n) \cup {n} PROVE Subst(Stat(s[j]), tau) = Subst(Stat(s[j]), sigma)
  <2>1. Stat(s[j]) \in Seq(Over(M))
    <3>1. Stat(s[j]) = <<s[j].tc>> \o s[j].expr /\ s[j].tc \in Consts /\ s[j].expr \in Seq(Over(M))
      BY StatFormed DEF M
    <3>2. Formed(M, <<s[j].tc>> \o s[j].expr)
      BY <3>1, FormedIs
    <3>3. QED
      BY <3>1, <3>2 DEF Formed
  <2>2. Into(tau, Over(M), L.symbols)
    BY <1>2, IntoOver
  <2>3. \A x \in Over(M) : Image(tau, x) = Image(sigma, x)
    BY <1>2 DEF Over, Image
  <2>4. QED
    BY <2>1, <2>2, <2>3, SubstAgree
<1>4. ASSUME NEW j \in ActiveF(s, n) PROVE <<s[j].tc>> \o tau[s[j].var] \in L.true
  <2>1. s[j].var \in V
    BY DEF V, VarsAt
  <2>2. QED
    BY <1>1, <2>1 DEF Extension
<1>5. ASSUME NEW j \in ActiveE(s, n) PROVE Subst(Stat(s[j]), tau) \in L.true
  <2>1. Subst(Stat(s[j]), sigma) \in L.true
    BY DEF Uses
  <2>2. QED
    BY <1>3, <2>1
<1>6. ASSUME NEW pair \in ActiveD(s, n), pair \subseteq V PROVE KeptApart(L, tau, pair)
  <2> SUFFICES ASSUME NEW x \in pair, NEW y \in pair, x # y,
                      NEW u \in TokensOf(tau[x]) \cap L.vars, NEW v \in TokensOf(tau[y]) \cap L.vars
               PROVE  u # v /\ {u, v} \in L.apart
    BY DEF KeptApart
  <2>1. CASE x \in M /\ y \in M
    <3>1. \A z \in pair : z = x \/ z = y
      <4>1. PICK q : pair \in PairsOf(q)
        BY DEF ActiveD
      <4>2. PICK a, b : pair = {a, b}
        BY <4>1 DEF PairsOf
      <4>3. QED
        BY <4>2
    <3>2. pair \in MandatoryD(s, n)
      BY <2>1, <3>1 DEF MandatoryD, M
    <3>3. KeptApart(L, sigma, pair)
      BY <3>2 DEF Uses
    <3>4. tau[x] = sigma[x] /\ tau[y] = sigma[y]
      BY <1>2, <2>1
    <3>5. QED
      BY <3>3, <3>4 DEF KeptApart
  <2>2. CASE ~(x \in M /\ y \in M)
    <3>1. x \in V /\ y \in V
      BY <1>6
    <3>2. QED
      BY <1>1, <1>2, <2>2, <3>1 DEF Extension
  <2>3. QED
    BY <2>1, <2>2
<1>7. tau \in Goods(L, s, n)
  BY <1>2, <1>4, <1>5, <1>6 DEF Goods, V
<1>8. QED
  BY <1>3, <1>7

-----------------------------------------------------------------------------
(* The verifier *)

\* what the dictionary has under l is the statement n
EntryFor(l, n) ==
    /\ IsLabelled(text[n]) /\ text[n].label = l
    /\ labels[l].class = text[n].op /\ labels[l].stat = Stat(text[n])
LabelsAre == \A l \in DOMAIN labels : \E n \in 1 .. at - 1 : EntryFor(l, n)

\* what may be on the stack while statement at is proved: expressions over the
\* variables in scope, true whatever these stand for if the axioms hold
TrueEntries(L) ==
    {x \in Seq(Over(VarsAt(text, at))) :
        /\ Formed(VarsAt(text, at), x)
        /\ AxiomsHold(L, at) => \A tau \in Goods(L, text, at) : Subst(x, tau) \in L.true}

Assumed(L) == ~strayed /\ Ordinary(text) /\ Language(L, text)
StackTrue(L) == proving /\ Assumed(L) => stack \in Seq(TrueEntries(L))

SInv(L) == IInv /\ LabelsAre /\ StackTrue(L) /\ Follows(L)

\* The labels of the text are distinct.
LEMMA LabelPosition ==
    ASSUME IInv, LabelsAre, NEW l \in DOMAIN labels
    PROVE  PositionOf(l) \in 1 .. at - 1 /\ PositionOf(l) \in 1..Len(text) /\ EntryFor(l, PositionOf(l))
<1>1. Len(text) \in Nat /\ DOMAIN text = 1..Len(text) /\ at \in 1 .. Len(text) + 1 /\ text \in Texts
  BY DEF IInv, TextOK
<1>2. PICK n \in 1 .. at - 1 : EntryFor(l, n)
  BY DEF LabelsAre
<1>3. n \in DOMAIN text
  BY <1>1
<1>4. PositionOf(l) \in DOMAIN text /\ IsLabelled(text[PositionOf(l)]) /\ text[PositionOf(l)].label = l
  <2> DEFINE P(k) == IsLabelled(text[k]) /\ text[k].label = l
  <2>1. \E k \in DOMAIN text : P(k)
    BY <1>2, <1>3 DEF EntryFor
  <2>2. PositionOf(l) = CHOOSE k \in DOMAIN text : P(k)
    BY DEF PositionOf
  <2> HIDE DEF P
  <2>3. PositionOf(l) \in DOMAIN text /\ P(PositionOf(l))
    BY <2>1, <2>2
  <2>4. QED
    BY <2>3 DEF P
<1>5. PositionOf(l) = n
  BY <1>1, <1>2, <1>3, <1>4, VerifierAssumption DEF EntryFor, LabelsDistinct
<1>6. QED
  BY <1>1, <1>2, <1>3, <1>5

\* All assertions that were read hold in a language in which the axioms do.
LEMMA EarlierHolds ==
    ASSUME NEW L, Follows(L), Assumed(L), at \in Nat, AxiomsHold(L, at),
           NEW m \in 1 .. at - 1, IsAssertion(text[m])
    PROVE  HoldsIn(L, text, m)
<1>1. CASE text[m].op = "a"
  BY <1>1 DEF AxiomsHold
<1>2. CASE text[m].op = "p"
  <2>1. AxiomsHold(L, m)
    BY DEF AxiomsHold
  <2>2. QED
    BY <1>2, <2>1 DEF Follows, Assumed
<1>3. QED
  BY <1>1, <1>2 DEF IsAssertion

\* A hypothesis in scope is true of what is in scope.
LEMMA HypTrue ==
    ASSUME IInv, LabelsAre, NEW L, Assumed(L), proving, NEW l \in DOMAIN labels,
           labels[l].class \in {"f", "e"}, InScope(text, PositionOf(l), at)
    PROVE  labels[l].stat \in TrueEntries(L)
<1> DEFINE n == PositionOf(l)
           V == VarsAt(text, at)
           x == Stat(text[n])
<1>1. /\ Len(text) \in Nat /\ DOMAIN text = 1..Len(text) /\ at \in 1..Len(text)
      /\ IsAssertion(text[at]) /\ Ordinary(text)
  BY DEF IInv, TextOK, IsAssertion, Assumed
<1>2. n \in 1..Len(text) /\ text[n].op \in {"f", "e"} /\ labels[l].stat = x
  BY LabelPosition DEF EntryFor
<1>3. InScope(text, n, at)
  OBVIOUS
<1> HIDE DEF n, V
<1>4. CASE text[n].op = "f"
  <2>1. n \in ActiveF(text, at)
    BY <1>2, <1>3, <1>4 DEF ActiveF
  <2>2. /\ x = <<text[n].tc>> \o <<text[n].var>> /\ text[n].tc \in Consts
        /\ <<text[n].var>> \in Seq(Over(V)) /\ text[n].var \in V
    BY <1>1, <2>1, StatFormed DEF V
  <2>3. Formed(V, x)
    BY <2>2, FormedIs
  <2>4. ASSUME NEW tau \in Goods(L, text, at) PROVE Subst(x, tau) \in L.true
    <3>1. /\ tau \in [V -> Seq(L.symbols)] /\ Consts \cap V = {} /\ Consts \subseteq L.symbols
          /\ <<text[n].tc>> \o tau[text[n].var] \in L.true
      BY <1>1, <2>1, StatementsAre DEF Goods, V, Assumed, Language
    <3>2. Into(tau, Over(V), L.symbols)
      BY <3>1, IntoOver
    <3>3. Subst(x, tau) = <<text[n].tc>> \o Subst(<<text[n].var>>, tau)
      <4> DEFINE e == <<text[n].var>>
      <4>1. /\ Consts \cap DOMAIN tau = {} /\ e \in Seq(Over(V)) /\ text[n].tc \in Consts
            /\ x = <<text[n].tc>> \o e
        BY <2>2, <3>1
      <4> HIDE DEF e, x
      <4>2. Subst(<<text[n].tc>> \o e, tau) = <<text[n].tc>> \o Subst(e, tau)
        BY <3>2, <4>1, FormedSubst
      <4>3. QED
        BY <4>1, <4>2 DEF e
    <3>4. Subst(<<text[n].var>>, tau) = tau[text[n].var]
      BY <2>2, <3>1, SubstOne
    <3>5. QED
      BY <3>1, <3>3, <3>4
  <2>5. QED
    BY <1>2, <2>3, <2>4 DEF TrueEntries, Formed, V
<1>5. CASE text[n].op = "e"
  <2>1. n \in ActiveE(text, at)
    BY <1>2, <1>3, <1>5 DEF ActiveE
  <2>2. /\ x = <<text[n].tc>> \o text[n].expr /\ text[n].tc \in Consts
        /\ text[n].expr \in Seq(Over(MandatoryVars(text, at)))
    BY <1>1, <2>1, StatFormed
  <2>3. text[n].expr \in Seq(Over(V))
    <3>1. Over(MandatoryVars(text, at)) \subseteq Over(V)
      BY <1>1, MandatoryHaveFloats DEF Over, V
    <3>2. QED
      BY <2>2, <3>1
  <2>4. Formed(V, x)
    BY <2>2, <2>3, FormedIs
  <2>5. \A tau \in Goods(L, text, at) : Subst(x, tau) \in L.true
    BY <2>1 DEF Goods
  <2>6. QED
    BY <1>2, <2>4, <2>5 DEF TrueEntries, Formed, V
<1>6. QED
  BY <1>2, <1>4, <1>5

\* The entries an assertion pops fit it.
LEMMA PoppedFit ==
    ASSUME IInv, verdict = "reading", at <= Len(text), Ordinary(text),
           NEW m \in 1 .. at - 1, IsAssertion(text[m]), NEW a, EntryIs(a, m), Fits(a),
           NEW S, stack \in Seq(S), \A x \in S : Formed(VarsAt(text, at), x)
    PROVE  Fitting(text, m, at, SubstOf(a), S)
<1> DEFINE M == MandatoryVars(text, m)
           V == VarsAt(text, at)
           sigma == SubstOf(a)
           F == MandatoryF(text, m)
           E == ActiveE(text, m)
<1>1. /\ text \in Seq(ToSet(text)) /\ Len(text) \in Nat /\ DOMAIN text = 1..Len(text)
      /\ m \in 1..Len(text) /\ at \in 1..Len(text)
  BY DEF IInv, TextOK
<1>2. /\ a.f = At(text, F) /\ a.e = At(text, E) /\ a.d = MandatoryD(text, m)
  BY DEF EntryIs
<1>3. /\ F \subseteq 1..Len(text) /\ E \subseteq 1..Len(text)
      /\ \A v \in M : FloatOf(text, v, m) \in F /\ text[FloatOf(text, v, m)].var = v
      /\ \A j \in F : text[j].var \in M /\ FloatOf(text, text[j].var, m) = j
  <2>1. F \subseteq ActiveF(text, m)
        /\ (\A v \in M : FloatOf(text, v, m) \in F /\ text[FloatOf(text, v, m)].var = v)
        /\ (\A j \in F : text[j].var \in M /\ FloatOf(text, text[j].var, m) = j)
    BY <1>1, MandatoryHaveFloats
  <2>2. QED
    BY <2>1 DEF ActiveF, ActiveE
<1> HIDE DEF F, E, M
<1> DEFINE ff == a.f
           ee == a.e
           N == Len(ff)
           K == Len(ee)
<1>4. ff = At(text, F) /\ ee = At(text, E)
  BY <1>2
<1>5. F \subseteq 1..Len(text) /\ E \subseteq 1..Len(text) /\ text \in Seq(ToSet(text))
  BY <1>1, <1>3
<1> HIDE DEF ff, ee
<1>6. /\ N \in Nat /\ DOMAIN ff = 1..N
      /\ \A i \in 1..N : \E j \in F : ff[i] = text[j]
      /\ \A j \in F : \E i \in 1..N : ff[i] = text[j]
  <2>1. ff \in Seq(ToSet(text)) /\ ToSet(ff) = {text[j] : j \in F \cap 1..Len(text)}
    BY <1>4, <1>5, AtElements
  <2>2. N \in Nat /\ DOMAIN ff = 1..N /\ F \cap 1..Len(text) = F
    <3>1. ff \in Seq(ToSet(text)) /\ F \subseteq 1..Len(text)
      BY <1>5, <2>1
    <3>2. N \in Nat /\ DOMAIN ff = 1..N
      BY <3>1
    <3>3. F \cap 1..Len(text) = F
      BY <3>1
    <3>4. QED
      BY <3>2, <3>3
  <2>3. {ff[i] : i \in 1..N} = {text[j] : j \in F}
    BY <2>1, <2>2 DEF ToSet
  <2>4. QED
    BY <2>2, <2>3
<1>7. K \in Nat /\ DOMAIN ee = 1..K /\ \A j \in E : \E i \in 1..K : ee[i] = text[j]
  <2>1. ee \in Seq(ToSet(text)) /\ ToSet(ee) = {text[j] : j \in E \cap 1..Len(text)}
    BY <1>4, <1>5, AtElements
  <2>2. K \in Nat /\ DOMAIN ee = 1..K /\ E \cap 1..Len(text) = E
    <3>1. ee \in Seq(ToSet(text)) /\ E \subseteq 1..Len(text)
      BY <1>5, <2>1
    <3>2. K \in Nat /\ DOMAIN ee = 1..K
      BY <3>1
    <3>3. E \cap 1..Len(text) = E
      BY <3>1
    <3>4. QED
      BY <3>2, <3>3
  <2>3. {ee[i] : i \in 1..K} = {text[j] : j \in E}
    BY <2>1, <2>2 DEF ToSet
  <2>4. QED
    BY <2>2, <2>3
<1>8. /\ sigma = [v \in {ff[i].var : i \in DOMAIN ff} |->
                       Tail(Popped(a, CHOOSE i \in DOMAIN ff : ff[i].var = v))]
       /\ \A i \in DOMAIN ff : Head(Popped(a, i)) = ff[i].tc
  BY DEF SubstOf, Fits, TypesMatch, ff
<1>9. \A i \in DOMAIN ee : Popped(a, N + i) = Subst(Stat(ee[i]), sigma)
  BY DEF Fits, HypsMatch, ff, ee
<1>10. Len(stack) >= N + K
  BY DEF Fits, Needed, ff, ee
<1>11. \A i \in 1 .. N + K : Popped(a, i) = stack[Len(stack) - (N + K) + i]
  BY DEF Popped, Needed, ff, ee
<1> HIDE DEF sigma, N, K
<1>12. \A i \in 1 .. N + K : Popped(a, i) \in S /\ Formed(V, Popped(a, i))
  <2>1. Len(stack) \in Nat /\ \A i \in 1..Len(stack) : stack[i] \in S
    OBVIOUS
  <2>2. N \in Nat /\ K \in Nat
    BY <1>6, <1>7
  <2> SUFFICES ASSUME NEW i \in 1 .. N + K PROVE Popped(a, i) \in S
    OBVIOUS
  <2>3. Len(stack) - (N + K) + i \in 1..Len(stack)
    BY <1>10, <2>1, <2>2
  <2>4. Popped(a, i) = stack[Len(stack) - (N + K) + i]
    BY <1>11
  <2>5. QED
    BY <2>1, <2>3, <2>4
<1>13. DOMAIN sigma = M
  <2>1. DOMAIN sigma = {ff[i].var : i \in 1..N}
    BY <1>6, <1>8
  <2>2. ASSUME NEW i \in 1..N PROVE ff[i].var \in M
    BY <1>3, <1>6
  <2>3. ASSUME NEW v \in M PROVE \E i \in 1..N : ff[i].var = v
    <3>1. PICK i \in 1..N : ff[i] = text[FloatOf(text, v, m)]
      BY <1>3, <1>6
    <3>2. QED
      BY <1>3, <3>1
  <2>4. QED
    BY <2>1, <2>2, <2>3
<1>14. ASSUME NEW v \in M
      PROVE  /\ sigma[v] \in Seq(Over(V))
             /\ <<text[FloatOf(text, v, m)].tc>> \o sigma[v] \in S
  <2> DEFINE i == CHOOSE k \in DOMAIN ff : ff[k].var = v
  <2>1. \E k \in DOMAIN ff : ff[k].var = v
    BY <1>13, <1>8
  <2>2. i \in DOMAIN ff /\ ff[i].var = v
    BY <2>1
  <2>3. sigma[v] = Tail(Popped(a, i))
    BY <1>13, <1>8
  <2> HIDE DEF i
  <2>4. PICK j \in F : ff[i] = text[j]
    BY <1>6, <2>2
  <2>5. j = FloatOf(text, v, m)
    BY <1>3, <2>2, <2>4
  <2> DEFINE x == Popped(a, i)
  <2>6. x \in S /\ Formed(V, x)
    BY <1>6, <1>7, <1>12, <2>2
  <2>7. Head(x) = text[j].tc
    BY <1>8, <2>2, <2>4
  <2>8. x = <<Head(x)>> \o Tail(x) /\ Tail(x) \in Seq(Over(V))
    BY <2>6, FormedSplit
  <2>9. QED
    BY <2>3, <2>5, <2>6, <2>7, <2>8
<1>15. sigma \in [M -> Seq(Over(V))]
  <2>1. sigma = [v \in M |-> sigma[v]]
    BY <1>13, <1>8
  <2>2. QED
    BY <1>14, <2>1
<1>16. ASSUME NEW j \in F PROVE <<text[j].tc>> \o sigma[text[j].var] \in S
  BY <1>3, <1>14
<1>17. ASSUME NEW j \in E PROVE Subst(Stat(text[j]), sigma) \in S
  <2>1. PICK i \in 1..K : ee[i] = text[j]
    BY <1>7
  <2>2. Popped(a, N + i) = Subst(Stat(text[j]), sigma)
    BY <1>7, <1>9, <2>1
  <2>3. N + i \in 1 .. N + K
    BY <1>6, <1>7
  <2>4. QED
    BY <1>12, <2>2, <2>3
<1>18. ASSUME NEW pair \in MandatoryD(text, m), NEW x \in pair, NEW y \in pair, x # y,
              NEW u \in VarsIn(sigma[x]), NEW v \in VarsIn(sigma[y])
       PROVE  u # v /\ {u, v} \in ActiveD(text, at)
  <2>1. Pairs = ActiveD(text, at)
    BY FloatsAndHyps DEF IInv
  <2>2. u # v /\ {u, v} \in Pairs
    BY <1>2, <1>18 DEF Fits, DisjointKept, sigma
  <2>3. QED
    BY <2>1, <2>2
<1>19. QED
  BY <1>15, <1>16, <1>17, <1>18 DEF Fitting, F, E, M, sigma

\* What an assertion makes of true entries is true.
LEMMA ApplyTrue ==
    ASSUME IInv, LabelsAre, NEW L, Assumed(L), Follows(L), verdict = "reading", proving,
           stack \in Seq(TrueEntries(L)), NEW l \in DOMAIN labels,
           labels[l].class \in {"a", "p"}, Fits(labels[l])
    PROVE  Applied(labels[l]) \in Seq(TrueEntries(L))
<1> DEFINE m == PositionOf(l)
           a == labels[l]
           sigma == SubstOf(a)
           V == VarsAt(text, at)
           S == TrueEntries(L)
           result == Subst(Stat(text[m]), sigma)
<1>1. /\ Len(text) \in Nat /\ DOMAIN text = 1..Len(text) /\ at \in 1..Len(text)
      /\ IsAssertion(text[at]) /\ Ordinary(text) /\ Language(L, text) /\ at \in Nat
  BY DEF IInv, TextOK, IsAssertion, Assumed
<1>2. /\ m \in 1 .. at - 1 /\ m \in 1..Len(text) /\ IsAssertion(text[m])
      /\ text[m].label = l /\ a.stat = Stat(text[m])
  BY LabelPosition DEF EntryFor, IsAssertion
<1>3. EntryIs(a, m)
  BY <1>2 DEF IInv, FramesAgree, EntryIs
<1> HIDE DEF m, V
<1>4. \A x \in S : Formed(V, x)
  BY DEF TrueEntries, V
<1>5. Fitting(text, m, at, sigma, S)
  BY <1>1, <1>2, <1>3, <1>4, PoppedFit DEF V
<1> HIDE DEF a, sigma, S
<1>6. /\ Formed(V, result)
      /\ \A tau : tau \in Goods(L, text, at) /\ (\A x \in S : Subst(x, tau) \in L.true) =>
            /\ After(tau, sigma) \in Uses(L, text, m)
            /\ Subst(result, tau) = Subst(Stat(text[m]), After(tau, sigma))
  BY <1>1, <1>2, <1>5, StepIsUse DEF V
<1>7. ASSUME AxiomsHold(L, at), NEW tau \in Goods(L, text, at) PROVE Subst(result, tau) \in L.true
  <2>1. \A x \in S : Subst(x, tau) \in L.true
    BY <1>7 DEF TrueEntries, S
  <2>2. After(tau, sigma) \in Uses(L, text, m) /\ Subst(result, tau) = Subst(Stat(text[m]), After(tau, sigma))
    BY <1>6, <2>1
  <2>3. HoldsIn(L, text, m)
    BY <1>1, <1>2, <1>7, EarlierHolds
  <2>4. QED
    BY <2>2, <2>3 DEF HoldsIn
<1>8. result \in S
  BY <1>6, <1>7 DEF TrueEntries, S, V, Formed
<1>9. Applied(a) = Append(SubSeq(stack, 1, Len(stack) - Needed(a)), result)
  BY <1>2 DEF Applied, sigma
<1>10. SubSeq(stack, 1, Len(stack) - Needed(a)) \in Seq(S)
  <2>1. stack \in Seq(S) /\ Len(stack) \in Nat
    BY DEF S
  <2>2. Needed(a) \in Nat /\ Len(stack) >= Needed(a)
    <3> DEFINE ff == a.f
               ee == a.e
    <3>1. ff = At(text, MandatoryF(text, m)) /\ ee = At(text, ActiveE(text, m))
      BY <1>3 DEF EntryIs
    <3> HIDE DEF ff, ee
    <3>2. text \in Seq(ToSet(text))
      BY DEF IInv, TextOK
    <3>3. ff \in Seq(ToSet(text)) /\ ee \in Seq(ToSet(text))
      BY <3>1, <3>2, AtElements
    <3>4. Len(ff) + Len(ee) \in Nat
      BY <3>3
    <3>5. QED
      BY <3>4 DEF Fits, Needed, a, ff, ee
  <2>3. \A k \in Nat : k <= Len(stack) => SubSeq(stack, 1, k) \in Seq(S)
    BY <2>1
  <2> DEFINE k == Len(stack) - Needed(a)
  <2>4. k \in Nat /\ k <= Len(stack)
    BY <2>1, <2>2
  <2> HIDE DEF k
  <2>5. SubSeq(stack, 1, k) \in Seq(S)
    BY <2>3, <2>4
  <2>6. QED
    BY <2>5 DEF k
<1>11. \A q \in Seq(S) : Append(q, result) \in Seq(S)
  BY <1>8
<1>12. QED
  BY <1>9, <1>10, <1>11 DEF a, S

-----------------------------------------------------------------------------
(* The steps *)

\* Nothing is read.
LEMMA DictStays ==
    ASSUME LabelsAre, UNCHANGED <<text, at, labels>>
    PROVE  LabelsAre'
BY DEF LabelsAre, EntryFor

\* A statement is read, and its entry tells its kind and what it says.
LEMMA DictGrows ==
    ASSUME IInv, LabelsAre, text' = text, at' = at + 1,
           \/ labels' = labels
           \/ \E entry : /\ IsLabelled(text[at]) /\ labels' = With(text[at].label, entry)
                         /\ entry.class = text[at].op /\ entry.stat = Stat(text[at])
    PROVE  LabelsAre'
<1>1. at \in Nat \ {0}
  BY DEF IInv, TextOK
<1>2. ASSUME NEW l \in DOMAIN labels', l \in DOMAIN labels, labels'[l] = labels[l]
      PROVE  \E n \in 1 .. at' - 1 : EntryFor(l, n)'
  <2>1. PICK n \in 1 .. at - 1 : EntryFor(l, n)
    BY <1>2 DEF LabelsAre
  <2>2. EntryFor(l, n)'
    BY <1>2, <2>1 DEF EntryFor
  <2>3. n \in 1 .. at' - 1
    BY <1>1
  <2>4. QED
    BY <2>2, <2>3
<1>3. CASE labels' = labels
  BY <1>2, <1>3 DEF LabelsAre
<1>4. ASSUME NEW entry, IsLabelled(text[at]), labels' = With(text[at].label, entry),
             entry.class = text[at].op, entry.stat = Stat(text[at]), NEW l \in DOMAIN labels'
      PROVE  \E n \in 1 .. at' - 1 : EntryFor(l, n)'
  <2>1. CASE l = text[at].label
    <3>1. labels'[l] = entry
      BY <1>4, <2>1 DEF With
    <3>2. PICK n \in 1 .. at' - 1 : n = at
      BY <1>1
    <3>3. EntryFor(l, n)'
      BY <1>4, <2>1, <3>1, <3>2 DEF EntryFor
    <3>4. QED
      BY <3>2, <3>3
  <2>2. CASE l # text[at].label
    <3>1. l \in DOMAIN labels /\ labels'[l] = labels[l]
      BY <1>4, <2>2 DEF With
    <3>2. QED
      BY <1>2, <3>1
  <2>3. QED
    BY <2>1, <2>2
<1>5. QED
  BY <1>3, <1>4 DEF LabelsAre

\* Nothing is read: what was accepted stays, and if the stack stays or gets true
\* entries it is true.
LEMMA NothingRead ==
    ASSUME IInv, LabelsAre, NEW L, Follows(L), UNCHANGED <<text, at, labels>>,
           strayed => strayed',
           proving' /\ Assumed(L)' /\ Assumed(L) => stack' \in Seq(TrueEntries(L))
    PROVE  LabelsAre' /\ StackTrue(L)' /\ Follows(L)'
<1>1. LabelsAre'
  BY DictStays
<1>2. Assumed(L)' => Assumed(L)
  BY DEF Assumed
<1>3. \A n : AxiomsHold(L, n)' <=> AxiomsHold(L, n)
  BY DEF AxiomsHold
<1>4. TrueEntries(L)' = TrueEntries(L)
  BY <1>3 DEF TrueEntries
<1>5. StackTrue(L)'
  BY <1>2, <1>4 DEF StackTrue
<1>6. Follows(L)'
  <2> SUFFICES ASSUME Assumed(L)', NEW n \in 1 .. at - 1, text[n].op = "p", AxiomsHold(L, n)'
               PROVE  HoldsIn(L, text, n)
    BY DEF Follows, Assumed
  <2>1. Assumed(L) /\ AxiomsHold(L, n)
    BY <1>2, <1>3
  <2>2. QED
    BY <2>1 DEF Follows, Assumed
<1>7. QED
  BY <1>1, <1>5, <1>6

\* A statement is read: if it is a $p, it was proved.
LEMMA StatementRead ==
    ASSUME IInv, LabelsAre, NEW L, Follows(L), at <= Len(text),
           text' = text, at' = at + 1, strayed' = strayed, ~proving',
           \/ ~IsLabelled(text[at]) /\ labels' = labels
           \/ \E entry : /\ IsLabelled(text[at]) /\ labels' = With(text[at].label, entry)
                         /\ entry.class = text[at].op /\ entry.stat = Stat(text[at]),
           text[at].op = "p" /\ Assumed(L) /\ AxiomsHold(L, at) => HoldsIn(L, text, at)
    PROVE  LabelsAre' /\ StackTrue(L)' /\ Follows(L)'
<1>1. LabelsAre'
  BY DictGrows
<1>2. StackTrue(L)'
  BY DEF StackTrue
<1>3. Follows(L)'
  <2> SUFFICES ASSUME Assumed(L)', NEW n \in 1 .. at' - 1, text[n].op = "p", AxiomsHold(L, n)'
               PROVE  HoldsIn(L, text, n)
    BY DEF Follows, Assumed
  <2>1. at \in Nat /\ (n \in 1 .. at - 1 \/ n = at)
    BY DEF IInv, TextOK
  <2>2. Assumed(L) /\ AxiomsHold(L, n)
    BY DEF Assumed, AxiomsHold
  <2>3. QED
    BY <2>1, <2>2 DEF Follows, Assumed
<1>4. QED
  BY <1>1, <1>2, <1>3

\* The proof of a $p ends, with the $p alone on the stack.
LEMMA ProvedHolds ==
    ASSUME IInv, NEW L, Assumed(L), StackTrue(L), proving, Proved, AxiomsHold(L, at)
    PROVE  HoldsIn(L, text, at)
<1>1. /\ Len(text) \in Nat /\ DOMAIN text = 1..Len(text) /\ at \in 1..Len(text)
      /\ IsAssertion(text[at]) /\ Ordinary(text) /\ Language(L, text)
  BY DEF IInv, TextOK, IsAssertion, Assumed
<1>2. stack \in Seq(TrueEntries(L)) /\ stack = <<Stat(text[at])>>
  BY DEF StackTrue, Proved
<1>3. Stat(text[at]) \in TrueEntries(L)
  <2>1. Len(stack) = 1 /\ stack[1] = Stat(text[at])
    BY <1>2
  <2>2. \A k \in 1..Len(stack) : stack[k] \in TrueEntries(L)
    BY <1>2
  <2>3. QED
    BY <2>1, <2>2
<1>4. \A tau \in Goods(L, text, at) : Subst(Stat(text[at]), tau) \in L.true
  BY <1>3 DEF TrueEntries
<1>5. QED
  BY <1>1, <1>4, HoldsWhenProved

LEMMA SoundInit == ASSUME Init, NEW L PROVE SInv(L)
<1>1. IInv
  BY InitInv
<1>2. LabelsAre
  BY DEF Init, LabelsAre
<1>3. StackTrue(L)
  BY DEF Init, StackTrue
<1>4. Follows(L)
  BY DEF Init, Follows
<1>5. QED
  BY <1>1, <1>2, <1>3, <1>4 DEF SInv

LEMMA SoundStep == ASSUME NEW L, SInv(L), [Next]_vars PROVE SInv(L)'
<1>1. IInv /\ LabelsAre /\ StackTrue(L) /\ Follows(L)
  BY DEF SInv
<1>2. IInv'
  BY <1>1, StepKeeps
<1>3. SUFFICES LabelsAre' /\ StackTrue(L)' /\ Follows(L)'
  BY <1>2 DEF SInv
<1>4. CASE UNCHANGED <<text, at, labels, proving, stack, strayed>>
  BY <1>1, <1>4, NothingRead DEF StackTrue, Assumed
<1>5. ASSUME Reject PROVE LabelsAre' /\ StackTrue(L)' /\ Follows(L)'
  BY <1>4, <1>5 DEF Reject
<1>6. CASE OpenBlock \/ CloseBlock \/ ReadD
  <2>1. CASE Proceed(fs', labels) /\ UNCHANGED proving
    <3>1. /\ text[at].op \in {"enter", "exit", "d"} /\ at <= Len(text) /\ ~proving
          /\ text' = text /\ at' = at + 1 /\ strayed' = strayed /\ labels' = labels
      BY <1>6, <2>1 DEF OpenBlock, CloseBlock, ReadD, Reading, Proceed
    <3>2. ~IsLabelled(text[at])
      BY <3>1 DEF IsLabelled, IsHyp, IsAssertion
    <3>3. QED
      BY <1>1, <2>1, <3>1, <3>2, StatementRead
  <2>2. CASE ~(Proceed(fs', labels) /\ UNCHANGED proving)
    <3>1. UNCHANGED <<text, at, labels, proving, stack, strayed>>
      BY <1>6, <2>2 DEF OpenBlock, CloseBlock, ReadD, Proceed
    <3>2. QED
      BY <1>4, <3>1
  <2>3. QED
    BY <2>1, <2>2
<1>7. CASE EndOfText
  <2>1. UNCHANGED <<text, at, labels, proving, stack, strayed>>
    BY <1>7 DEF EndOfText, Reject
  <2>2. QED
    BY <1>4, <2>1
<1>8. CASE ReadF
  <2>1. CASE Reject
    BY <1>5, <2>1
  <2>2. CASE ~Reject
    <3> DEFINE entry == [class |-> "f", stat |-> Stat(text[at])]
    <3>1. /\ text[at].op = "f" /\ at <= Len(text) /\ ~proving' /\ text' = text /\ at' = at + 1
          /\ strayed' = strayed /\ labels' = With(text[at].label, entry)
      BY <1>8, <2>2 DEF ReadF, Reading, Proceed
    <3>2. entry.class = text[at].op /\ entry.stat = Stat(text[at]) /\ IsLabelled(text[at])
      BY <3>1 DEF IsLabelled, IsHyp
    <3> HIDE DEF entry
    <3>3. QED
      BY <1>1, <3>1, <3>2, StatementRead
  <2>3. QED
    BY <2>1, <2>2
<1>9. CASE ReadE
  <2> DEFINE entry == [class |-> "e", stat |-> Stat(text[at])]
  <2>1. /\ text[at].op = "e" /\ at <= Len(text) /\ ~proving' /\ text' = text /\ at' = at + 1
        /\ strayed' = strayed /\ labels' = With(text[at].label, entry)
    BY <1>9 DEF ReadE, Reading, Proceed
  <2>2. entry.class = text[at].op /\ entry.stat = Stat(text[at]) /\ IsLabelled(text[at])
    BY <2>1 DEF IsLabelled, IsHyp
  <2> HIDE DEF entry
  <2>3. QED
    BY <1>1, <2>1, <2>2, StatementRead
<1>10. CASE ReadA
  <2> DEFINE entry == MakeAssertion(text[at])
  <2>1. /\ text[at].op = "a" /\ at <= Len(text) /\ ~proving' /\ text' = text /\ at' = at + 1
        /\ strayed' = strayed /\ labels' = With(text[at].label, entry)
    BY <1>10 DEF ReadA, Reading, Proceed
  <2>2. entry.class = text[at].op /\ entry.stat = Stat(text[at]) /\ IsLabelled(text[at])
    BY <2>1 DEF IsLabelled, IsAssertion, MakeAssertion
  <2> HIDE DEF entry
  <2>3. QED
    BY <1>1, <2>1, <2>2, StatementRead
<1>11. CASE ReadP
  <2>1. UNCHANGED <<text, at, labels, strayed>> /\ stack' = <<>>
    BY <1>11 DEF ReadP
  <2>2. stack' \in Seq(TrueEntries(L))
    BY <2>1
  <2>3. QED
    BY <1>1, <2>1, <2>2, NothingRead
<1>12. ASSUME NEW l \in Labels, PushHyp(l) PROVE LabelsAre' /\ StackTrue(L)' /\ Follows(L)'
  <2>1. /\ UNCHANGED <<text, at, labels, proving>> /\ proving /\ l \in DOMAIN labels
        /\ labels[l].class \in {"f", "e"} /\ stack' = Append(stack, labels[l].stat)
        /\ strayed' = (strayed \/ ~InScope(text, PositionOf(l), at))
    BY <1>12 DEF PushHyp, InProof
  <2>2. ASSUME Assumed(L)', Assumed(L) PROVE stack' \in Seq(TrueEntries(L))
    <3>1. InScope(text, PositionOf(l), at)
      BY <2>1, <2>2 DEF Assumed
    <3>2. labels[l].stat \in TrueEntries(L)
      BY <1>1, <2>1, <2>2, <3>1, HypTrue
    <3>3. stack \in Seq(TrueEntries(L))
      BY <1>1, <2>1, <2>2 DEF StackTrue
    <3>4. QED
      BY <2>1, <3>2, <3>3
  <2>3. strayed => strayed'
    BY <2>1
  <2>4. QED
    BY <1>1, <2>1, <2>2, <2>3, NothingRead
<1>13. ASSUME NEW l \in Labels, Apply(l) PROVE LabelsAre' /\ StackTrue(L)' /\ Follows(L)'
  <2>1. /\ UNCHANGED <<text, at, labels, proving, strayed>> /\ proving /\ l \in DOMAIN labels
        /\ labels[l].class \in {"a", "p"} /\ Fits(labels[l]) /\ stack' = Applied(labels[l])
        /\ verdict = "reading"
    BY <1>13 DEF Apply, InProof
  <2>2. ASSUME Assumed(L) PROVE stack' \in Seq(TrueEntries(L))
    <3>1. stack \in Seq(TrueEntries(L))
      BY <1>1, <2>1, <2>2 DEF StackTrue
    <3>2. QED
      BY <1>1, <2>1, <2>2, <3>1, ApplyTrue
  <2>3. QED
    BY <1>1, <2>1, <2>2, NothingRead
<1>14. ASSUME NEW l \in Labels, Refuse(l) PROVE LabelsAre' /\ StackTrue(L)' /\ Follows(L)'
  BY <1>5, <1>14 DEF Refuse
<1>15. CASE EndProof
  <2>1. CASE Proved
    <3> DEFINE entry == MakeAssertion(text[at])
    <3>1. /\ text[at].op = "p" /\ at <= Len(text) /\ proving /\ ~proving' /\ text' = text /\ at' = at + 1
          /\ strayed' = strayed /\ labels' = With(text[at].label, entry)
      BY <1>1, <1>15, <2>1 DEF EndProof, InProof, Proceed, IInv, TextOK
    <3>2. entry.class = text[at].op /\ entry.stat = Stat(text[at]) /\ IsLabelled(text[at])
      BY <3>1 DEF IsLabelled, IsAssertion, MakeAssertion
    <3> HIDE DEF entry
    <3>3. Assumed(L) /\ AxiomsHold(L, at) => HoldsIn(L, text, at)
      BY <1>1, <2>1, <3>1, ProvedHolds
    <3>4. QED
      BY <1>1, <3>1, <3>2, <3>3, StatementRead
  <2>2. CASE ~Proved
    BY <1>5, <1>15, <2>2 DEF EndProof
  <2>3. QED
    BY <2>1, <2>2
<1>16. CASE UNCHANGED vars
  BY <1>4, <1>16 DEF vars
<1>17. QED
  BY <1>6, <1>7, <1>8, <1>9, <1>10, <1>11, <1>12, <1>13, <1>14, <1>15, <1>16 DEF Next

\* The verifier is sound for every language, whatever its symbols mean: of a text
\* whose symbols are declared as usual, a theorem is only accepted if it holds in
\* all languages in which the axioms before it hold.  (A language has variables
\* enough for the dummy variables of the proofs.)
THEOREM AcceptedFollows == ASSUME NEW L PROVE Spec => []Follows(L)
<1>1. Init => SInv(L)
  BY SoundInit
<1>2. SInv(L) /\ [Next]_vars => SInv(L)'
  BY SoundStep
<1>3. SInv(L) => Follows(L)
  BY DEF SInv
<1>4. QED
  BY <1>1, <1>2, <1>3, PTL DEF Spec

\* A text is accepted at its end, or at a block end too many.
ReadToEnd == verdict = "accepted" /\ Balanced(text) => at = Len(text) + 1

LEMMA EndInit == Init => ReadToEnd
BY DEF Init, ReadToEnd

LEMMA EndStep == IInv /\ ReadToEnd /\ [Next]_vars => ReadToEnd'
<1> SUFFICES ASSUME IInv, ReadToEnd, [Next]_vars PROVE ReadToEnd'
  OBVIOUS
<1>1. ASSUME Reject PROVE ReadToEnd'
  BY <1>1 DEF Reject, ReadToEnd
<1>2. ASSUME NEW frames, NEW dict, Proceed(frames, dict), verdict = "reading" PROVE ReadToEnd'
  BY <1>2 DEF Proceed, ReadToEnd
<1>3. CASE OpenBlock \/ ReadF \/ ReadE \/ ReadD \/ ReadA
  BY <1>1, <1>2, <1>3 DEF OpenBlock, ReadF, ReadE, ReadD, ReadA, Reading
<1>4. CASE CloseBlock
  <2>1. verdict = "reading" /\ at <= Len(text) /\ text[at].op = "exit"
    BY <1>4 DEF CloseBlock, Reading
  <2>2. CASE Len(fs) = 1
    <3>1. text' = text /\ at \in 1..Len(text) /\ Len(text) \in Nat
      BY <1>4, <2>1, <2>2 DEF CloseBlock, IInv, TextOK
    <3>2. Depth(text, at - 1) = 0
      BY <2>1, <2>2, <3>1, DepthNow, DepthType DEF IInv
    <3>3. Depth(text, at) = -1
      BY <2>1, <3>1, <3>2, DepthNext
    <3>4. ~Balanced(text)
      BY <3>1, <3>3 DEF Balanced
    <3>5. QED
      BY <3>1, <3>4 DEF ReadToEnd
  <2>3. CASE Len(fs) # 1
    BY <1>2, <1>4, <2>1, <2>3 DEF CloseBlock
  <2>4. QED
    BY <2>2, <2>3
<1>5. CASE EndOfText
  <2>1. verdict = "reading" /\ at = Len(text) + 1
    BY <1>5 DEF EndOfText, IInv, TextOK
  <2>2. QED
    BY <1>1, <1>5, <2>1 DEF EndOfText, ReadToEnd
<1>6. CASE ReadP
  BY <1>6 DEF ReadP, Reading, ReadToEnd
<1>7. ASSUME NEW l \in Labels, PushHyp(l) \/ Apply(l) \/ Refuse(l) PROVE ReadToEnd'
  BY <1>1, <1>7 DEF PushHyp, Apply, Refuse, InProof, ReadToEnd
<1>8. CASE EndProof
  BY <1>1, <1>2, <1>8 DEF EndProof, InProof
<1>9. CASE UNCHANGED vars
  BY <1>9 DEF vars, ReadToEnd
<1>10. QED
  BY <1>3, <1>4, <1>5, <1>6, <1>7, <1>8, <1>9 DEF Next

LEMMA TextThen == ASSUME IInv, ReadToEnd, NEW L, Follows(L) PROVE TextFollows(L)
<1> SUFFICES ASSUME verdict = "accepted", Balanced(text), ~strayed, Ordinary(text), Language(L, text),
                    \A m \in DOMAIN text : text[m].op = "a" => HoldsIn(L, text, m),
                    NEW n \in DOMAIN text, text[n].op = "p"
             PROVE  HoldsIn(L, text, n)
  BY DEF TextFollows
<1>1. at = Len(text) + 1 /\ Len(text) \in Nat /\ DOMAIN text = 1..Len(text)
  BY DEF ReadToEnd, IInv, TextOK
<1>2. AxiomsHold(L, n)
  BY <1>1 DEF AxiomsHold
<1>3. QED
  BY <1>1, <1>2 DEF Follows

\* An accepted text is a theory: in every language that has all its axioms, all its
\* theorems hold.  None was skipped, for a balanced text is read to its end.
THEOREM TheoremsFollow == ASSUME NEW L PROVE Spec => []TextFollows(L)
<1> DEFINE Inv == SInv(L) /\ ReadToEnd
<1>1. Init => Inv
  BY SoundInit, EndInit
<1>2. Inv /\ [Next]_vars => Inv'
  <2> SUFFICES ASSUME Inv, [Next]_vars PROVE Inv'
    OBVIOUS
  <2>1. SInv(L)'
    BY SoundStep
  <2>2. ReadToEnd'
    BY EndStep DEF SInv
  <2>3. QED
    BY <2>1, <2>2
<1>3. Inv => TextFollows(L)
  BY TextThen DEF SInv
<1>4. QED
  BY <1>1, <1>2, <1>3, PTL DEF Spec


-----------------------------------------------------------------------------
(* What the axioms derive *)

LEMMA KnowingIs ==
    ASSUME NEW L, NEW T
    PROVE  /\ Knowing(L, T).symbols = L.symbols /\ Knowing(L, T).vars = L.vars
           /\ Knowing(L, T).apart = L.apart /\ Knowing(L, T).true = T
BY DEF Knowing

LEMMA LanguageGrows ==
    ASSUME NEW L, NEW s, Language(L, s), NEW T, L.true \subseteq T
    PROVE  Language(Knowing(L, T), s)
<1> DEFINE K == Knowing(L, T)
<1>1. K.symbols = L.symbols /\ K.vars = L.vars /\ K.apart = L.apart /\ K.true = T
  BY KnowingIs
<1> HIDE DEF K
<1>2. ASSUME NEW j \in {i \in DOMAIN s : s[i].op = "f"}, NEW F \in SUBSET L.vars, IsFiniteSet(F)
      PROVE  \E w \in L.vars \ F : <<s[j].tc, w>> \in T /\ \A u \in F : {u, w} \in L.apart
  <2>1. PICK w \in L.vars \ F : <<s[j].tc, w>> \in L.true /\ \A u \in F : {u, w} \in L.apart
    BY <1>2 DEF Language
  <2>2. QED
    BY <2>1
<1>3. Consts \subseteq L.symbols /\ L.vars \subseteq L.symbols \ Consts
  BY DEF Language
<1>4. Language(K, s)
  BY <1>1, <1>2, <1>3 DEF Language
<1>5. QED
  BY <1>4 DEF K

LEMMA UsesGrow ==
    ASSUME NEW L, NEW s, NEW n, NEW S, NEW T, S \subseteq T
    PROVE  Uses(Knowing(L, S), s, n) \subseteq Uses(Knowing(L, T), s, n)
<1> DEFINE J == Knowing(L, S)
           K == Knowing(L, T)
<1>1. /\ K.symbols = J.symbols /\ K.vars = J.vars /\ K.apart = J.apart
      /\ J.true \subseteq K.true
  BY KnowingIs
<1> HIDE DEF J, K
<1>2. \A sigma, pair : KeptApart(J, sigma, pair) => KeptApart(K, sigma, pair)
  BY <1>1 DEF KeptApart
<1>3. Uses(J, s, n) \subseteq Uses(K, s, n)
  BY <1>1, <1>2 DEF Uses
<1>4. QED
  BY <1>3 DEF J, K

\* What an assertion leads to is an expression of the language.
LEMMA UseIsExpression ==
    ASSUME NEW s, Len(s) \in Nat, DOMAIN s = 1..Len(s), Ordinary(s), NEW L, Consts \subseteq L.symbols,
           NEW n \in 1..Len(s), IsAssertion(s[n]), NEW sigma \in Uses(L, s, n)
    PROVE  Subst(Stat(s[n]), sigma) \in Seq(L.symbols)
<1> DEFINE M == MandatoryVars(s, n)
           Y == L.symbols
<1>1. Stat(s[n]) = <<s[n].tc>> \o s[n].expr /\ s[n].tc \in Consts /\ s[n].expr \in Seq(Over(M))
  BY StatFormed
<1>2. sigma \in [M -> Seq(Y)]
  BY DEF Uses
<1>3. Stat(s[n]) \in Seq(Over(M))
  <2>1. Formed(M, <<s[n].tc>> \o s[n].expr)
    BY <1>1, FormedIs
  <2>2. QED
    BY <1>1, <2>1 DEF Formed
<1> HIDE DEF M, Y
<1>4. Into(sigma, Over(M), Y)
  <2>1. Consts \subseteq Y
    BY DEF Y
  <2>2. QED
    BY <1>2, <2>1, IntoOver
<1>5. Subst(Stat(s[n]), sigma) \in Seq(Y)
  BY <1>3, <1>4, SubstIs
<1>6. QED
  BY <1>5 DEF Y

\* the verifier is sound for L and for what else may be true in it
SoundFor(L) == \A T \in SUBSET Seq(L.symbols) : SInv(Knowing(L, T))

LEMMA NothingThen ==
    ASSUME IInv, ReadToEnd, NEW L, SoundFor(L)
    PROVE  NothingAdded(L)
<1> DEFINE D == Derivable(L, text)
           Rules(T) == \A m \in DOMAIN text : text[m].op = "a" => HoldsIn(Knowing(L, T), text, m)
<1> SUFFICES ASSUME verdict = "accepted", Balanced(text), ~strayed, Ordinary(text), Language(L, text),
                    NEW n \in DOMAIN text, text[n].op = "p",
                    NEW sigma \in Uses(Knowing(L, D), text, n)
             PROVE  Subst(Stat(text[n]), sigma) \in D
  BY KnowingIs DEF NothingAdded, HoldsIn
<1>1. Len(text) \in Nat /\ DOMAIN text = 1..Len(text) /\ IsAssertion(text[n])
  BY DEF IInv, TextOK, IsAssertion
<1>2. Subst(Stat(text[n]), sigma) \in Seq(L.symbols)
  <2> DEFINE K == Knowing(L, D)
  <2>1. K.symbols = L.symbols /\ Consts \subseteq K.symbols /\ sigma \in Uses(K, text, n)
    BY KnowingIs DEF Language
  <2> HIDE DEF K
  <2>2. Subst(Stat(text[n]), sigma) \in Seq(K.symbols)
    BY <1>1, <2>1, UseIsExpression
  <2>3. QED
    BY <2>1, <2>2
<1>3. ASSUME NEW T \in SUBSET Seq(L.symbols), L.true \subseteq T, Rules(T)
      PROVE  Subst(Stat(text[n]), sigma) \in T
  <2> DEFINE K == Knowing(L, T)
  <2>1. Language(K, text)
    BY <1>3, LanguageGrows
  <2>2. Follows(K)
    BY DEF SoundFor, SInv
  <2>3. HoldsIn(K, text, n)
    <3>1. TextFollows(K)
      BY <2>2, TextThen
    <3>2. \A m \in DOMAIN text : text[m].op = "a" => HoldsIn(K, text, m)
      BY <1>3
    <3> HIDE DEF K
    <3>3. QED
      BY <2>1, <3>1, <3>2 DEF TextFollows
  <2>4. D \subseteq T
    BY <1>3 DEF Derivable
  <2>5. sigma \in Uses(K, text, n)
    BY <2>4, UsesGrow
  <2>6. QED
    BY <2>3, <2>5, KnowingIs DEF HoldsIn
<1>4. QED
  BY <1>2, <1>3 DEF Derivable

\* The theorems of an accepted text are conservative over its axioms: all that they
\* derive, with whatever is put for their variables, the axioms derive alone, from
\* the same expressions.  So a proof cited by others could be expanded into them.
THEOREM TheoremsAddNothing == ASSUME NEW L PROVE Spec => []NothingAdded(L)
<1> DEFINE Inv == IInv /\ SoundFor(L) /\ ReadToEnd
<1>1. Init => Inv
  BY InitInv, SoundInit, EndInit DEF SoundFor
<1>2. Inv /\ [Next]_vars => Inv'
  <2> SUFFICES ASSUME Inv, [Next]_vars PROVE Inv'
    OBVIOUS
  <2>1. IInv'
    BY StepKeeps
  <2>2. SoundFor(L)'
    BY SoundStep DEF SoundFor
  <2>3. ReadToEnd'
    BY EndStep
  <2>4. QED
    BY <2>1, <2>2, <2>3
<1>3. Inv => NothingAdded(L)
  BY NothingThen
<1>4. QED
  BY <1>1, <1>2, <1>3, PTL DEF Spec
=============================================================================
