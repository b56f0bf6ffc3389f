------------------------------ MODULE Theory_proof ------------------------------
(***************************************************************************)
(* Proofs that a proof once built stands in every later registry, that     *)
(* what the verifier passes follows from the axioms and rules that passed  *)
(* it, and that a report speaks of the registry it is returned with, for   *)
(* every set of theories, shards, proof bodies and substitutions.  The     *)
(* order in which lemmas are emitted, and the search for circles among     *)
(* references that comes before it, have the last sections.                *)
(***************************************************************************)
EXTENDS Theory, ReferenceCycles, PositionLemmas

Frames == [of : Decls, next : Nat \ {0}, steps : Seq(Steps)]
Emissions == [op : {"emit"}, of : Theories, next : Nat \ {0}, sequence : Seq(Decls),
              catalog : SUBSET Decls]

\* The fields of a call are those of its kind; what is being emitted was not
\* emitted before.
CallOK ==
    /\ call.op = "emit" => call \in Emissions /\ published[call.of] = <<>>
    /\ call.op = "verify" => DOMAIN call = {"op", "of", "next", "size", "entries"}

-----------------------------------------------------------------------------
(* Derivations lead from truth to truth *)

\* An assertion derived from true ones is true: under a substitution, the
\* judgments that it makes true are closed under what the derivation cites.
LEMMA DerivedIsValid ==
    ASSUME NEW d \in Decls, NEW A \in SUBSET Decls, Derives(A, d),
           NEW M \in SUBSET Judgments, \A e \in A : Valid(M, e)
    PROVE  Valid(M, d)
<1> SUFFICES ASSUME NEW s \in Allowed[Ground][d],
                    \A n \in DOMAIN Premises[d] : s[Premises[d][n]] \in M
             PROVE  s[Conclusion[d]] \in M
  BY DEF Valid, Holds
<1> DEFINE made == {j \in Judgments : s[j] \in M}
<1>1. \A e \in Decls : /\ Conclusion[e] \in Judgments
                       /\ \A n \in DOMAIN Premises[e] : Premises[e][n] \in Judgments
  <2> TAKE e \in Decls
  <2>1. Premises[e] \in Seq(Judgments) /\ Conclusion[e] \in Judgments
    BY LogicAssumption
  <2>2. QED
    BY <2>1, LenProperties, ElementOfSeq
<1>2. \A n \in DOMAIN Premises[d] : Premises[d][n] \in made
  BY <1>1
<1>3. ASSUME NEW e \in A PROVE Holds(made, d, e)
  <2> SUFFICES ASSUME NEW u \in Allowed[d][e],
                      \A n \in DOMAIN Premises[e] : u[Premises[e][n]] \in made
               PROVE  u[Conclusion[e]] \in made
    BY DEF Holds
  <2> DEFINE v == [j \in Judgments |-> s[u[j]]]
  <2>1. v \in Allowed[Ground][e]
    BY LogicAssumption DEF Contexts
  <2>2. \A n \in DOMAIN Premises[e] : v[Premises[e][n]] \in M
    BY <1>1
  <2>3. v[Conclusion[e]] \in M
    BY <2>1, <2>2 DEF Valid, Holds
  <2>4. u \in [Judgments -> Judgments]
    BY LogicAssumption DEF Contexts
  <2>5. QED
    BY <1>1, <2>3, <2>4
<1>4. Conclusion[d] \in made
  BY <1>2, <1>3 DEF Derives
<1>5. QED
  BY <1>4

\* Assertions whose theorems follow from their axioms still do after an axiom or a
\* derived theorem was added.
LEMMA FollowWithOneMore ==
    ASSUME NEW A \in SUBSET Decls, Follow(A),
           NEW d \in Decls, KindOf[d] = "theorem" => Derives(A, d)
    PROVE  Follow(A \cup {d})
<1>1. SUFFICES ASSUME NEW M \in SUBSET Judgments,
                      \A e \in A \cup {d} : KindOf[e] # "theorem" => Valid(M, e)
               PROVE  \A e \in A \cup {d} : Valid(M, e)
  BY DEF Follow
<1>2. \A e \in A : Valid(M, e)
  BY <1>1 DEF Follow
<1>3. Valid(M, d)
  <2>1. CASE KindOf[d] = "theorem"
    BY <1>2, <2>1, DerivedIsValid
  <2>2. CASE KindOf[d] # "theorem"
    BY <1>1, <2>2
  <2>3. QED
    BY <2>1, <2>2
<1>4. QED
  BY <1>2, <1>3

-----------------------------------------------------------------------------
(* Sequences *)

\* The first n elements of a sequence.
LEMMA PrefixProperties ==
    ASSUME NEW S, NEW s \in Seq(S), NEW n \in Nat, n <= Len(s)
    PROVE  /\ SubSeq(s, 1, n) \in Seq(S) /\ Len(SubSeq(s, 1, n)) = n
           /\ \A i \in 1 .. n : SubSeq(s, 1, n)[i] = s[i]
<1>1. \A i \in 1 .. n : s[i] \in S
  BY ElementOfSeq
<1>2. /\ SubSeq(s, 1, n) \in Seq(S)
      /\ Len(SubSeq(s, 1, n)) = IF 1 <= n THEN n - 1 + 1 ELSE 0
      /\ \A i \in 1 .. n - 1 + 1 : SubSeq(s, 1, n)[i] = s[1 + i - 1]
  BY <1>1, SubSeqProperties
<1>3. QED
  BY <1>2

\* Appending takes nothing away.
LEMMA ToSetOfAppend ==
    ASSUME NEW S, NEW s \in Seq(S), NEW e \in S
    PROVE  ToSet(s) \subseteq ToSet(Append(s, e))
<1> DEFINE new == Append(s, e)
<1>1. DOMAIN s = 1 .. Len(s) /\ Len(s) \in Nat
  BY LenProperties
<1>2. DOMAIN new = 1 .. Len(s) + 1 /\ \A n \in 1 .. Len(s) : new[n] = s[n]
  BY AppendProperties, LenProperties
<1> HIDE DEF new
<1>3. DOMAIN s \subseteq DOMAIN new /\ \A n \in DOMAIN s : new[n] = s[n]
  BY <1>1, <1>2
<1>4. QED
  BY <1>3 DEF ToSet, new

-----------------------------------------------------------------------------
(* The stack of running proof bodies *)

\* The innermost body that runs, and the stack with its next instruction or its
\* next step.
LEMMA TopOfStack ==
    ASSUME TypeOK, frames # <<>>
    PROVE  /\ Len(frames) \in Nat \ {0} /\ Top \in Frames
           /\ NextInstruction \in Seq(Frames) /\ Len(NextInstruction) = Len(frames)
           /\ \A n \in 1 .. Len(frames) : NextInstruction[n] =
                 IF n = Len(frames) THEN [Top EXCEPT !.next = @ + 1] ELSE frames[n]
<1>1. frames \in Seq(Frames)
  BY DEF TypeOK, Frames
<1>2. Len(frames) \in Nat \ {0}
  BY <1>1, EmptySeq
<1>3. Top \in Frames /\ Top = frames[Len(frames)]
  BY <1>1, <1>2, ElementOfSeq DEF Top, Last
<1>4. [Top EXCEPT !.next = @ + 1] \in Frames
  BY <1>3 DEF Frames
<1>5. NextInstruction = [frames EXCEPT ![Len(frames)] = [Top EXCEPT !.next = @ + 1]]
  BY <1>3 DEF NextInstruction
<1>6. QED
  BY <1>1, <1>2, <1>3, <1>4, <1>5, ExceptSeq

\* What an instruction of a body refers to is there to refer to.
LEMMA InstructionOfBody ==
    ASSUME TypeOK, frames # <<>>, Reached
    PROVE  Instruction \in Instructions
<1>1. Top \in Frames
  BY TopOfStack
<1>2. Body[Top.of] \in Seq(Instructions) /\ Top.next \in 1 .. Len(Body[Top.of])
  <2>1. Body[Top.of] \in Seq(Instructions)
    BY <1>1, TheoryAssumption DEF Frames
  <2>2. QED
    BY <1>1, <2>1, LenProperties DEF Frames, Reached
<1>3. QED
  BY <1>2, ElementOfSeq DEF Instruction

\* A statement of a shard declares or proves an assertion.
LEMMA StatementOfShard ==
    ASSUME TypeOK, NEW op, Statement(op)
    PROVE  Text[importing.shard][importing.next].of \in Decls
<1>1. importing.shard \in Shards /\ importing.next \in Nat \ {0}
  BY DEF TypeOK, Statement
<1>2. Text[importing.shard] \in Seq(Statements)
  BY <1>1, TheoryAssumption
<1>3. importing.next \in 1 .. Len(Text[importing.shard])
  BY <1>1, <1>2, LenProperties DEF Statement
<1>4. Text[importing.shard][importing.next] \in Statements
  BY <1>2, <1>3, ElementOfSeq
<1>5. QED
  BY <1>4 DEF Statements

\* A step of a proof: the premises and the substitution are the author's, the
\* result is an instance of the conclusion.
LEMMA StepTyped ==
    ASSUME TypeOK, Running, Reached, Instruction.op = "use", NEW e \in Decls
    PROVE  Step(e, Instruction) \in Steps
<1>1. Instruction \in Instructions
  BY InstructionOfBody DEF Running
<1>2. Instruction.premises \in Seq(Nat) /\ Instruction.subst \in Substs
  BY <1>1 DEF Instructions
<1>3. Instruction.subst[Conclusion[e]] \in Judgments
  BY <1>2, LogicAssumption
<1>4. IdOf[e] \in Ids
  BY DEF Ids
<1>5. QED
  BY <1>2, <1>3, <1>4 DEF Step, Steps

\* The stack after a step of the innermost proof.
LEMMA StackExtended ==
    ASSUME TypeOK, Running, NEW e, Step(e, Instruction) \in Steps
    PROVE  /\ WithStep(e) \in Seq(Frames) /\ Len(WithStep(e)) = Len(frames)
           /\ \A n \in 1 .. Len(frames) : WithStep(e)[n] =
                 IF n = Len(frames)
                 THEN [of |-> Top.of, next |-> Top.next + 1,
                       steps |-> Append(Top.steps, Step(e, Instruction))]
                 ELSE frames[n]
<1> DEFINE top == [of |-> Top.of, next |-> Top.next + 1,
                   steps |-> Append(Top.steps, Step(e, Instruction))]
<1>1. frames \in Seq(Frames) /\ Len(frames) \in Nat \ {0} /\ Top \in Frames
  BY TopOfStack DEF TypeOK, Frames, Running
<1>2. Top = frames[Len(frames)]
  BY DEF Top, Last
<1>3. Append(Top.steps, Step(e, Instruction)) \in Seq(Steps)
  BY <1>1, AppendProperties DEF Frames
<1>4. top \in Frames
  BY <1>1, <1>3 DEF Frames
<1>5. WithStep(e) = [frames EXCEPT ![Len(frames)] = top]
  BY DEF WithStep
<1>6. QED
  BY <1>1, <1>4, <1>5, ExceptSeq

\* The stack after qed() of a body inside another one.
LEMMA StackShortened ==
    ASSUME TypeOK, Running, Len(frames) # 1
    PROVE  /\ WithoutTop \in Seq(Frames) /\ Len(WithoutTop) = Len(frames) - 1
           /\ \A n \in 1 .. Len(frames) - 1 :
                 WithoutTop[n].of = frames[n].of /\ WithoutTop[n].steps = frames[n].steps
<1> DEFINE front == SubSeq(frames, 1, Len(frames) - 1)
           top == [frames[Len(frames) - 1] EXCEPT !.next = @ + 1]
<1>1. frames \in Seq(Frames) /\ Len(frames) \in Nat \ {0}
  BY TopOfStack DEF TypeOK, Frames, Running
<1>2. /\ front \in Seq(Frames) /\ Len(front) = Len(frames) - 1
      /\ \A n \in 1 .. Len(frames) - 1 : front[n] = frames[n]
  <2> DEFINE k == Len(frames) - 1
  <2>1. k \in Nat /\ k <= Len(frames)
    BY <1>1
  <2> HIDE DEF k
  <2>2. /\ SubSeq(frames, 1, k) \in Seq(Frames) /\ Len(SubSeq(frames, 1, k)) = k
        /\ \A i \in 1 .. k : SubSeq(frames, 1, k)[i] = frames[i]
    BY <1>1, <2>1, PrefixProperties
  <2>3. QED
    BY <2>2 DEF k
<1>3. frames[Len(frames) - 1] \in Frames /\ Len(frames) - 1 \in 1 .. Len(front)
  BY <1>1, <1>2, ElementOfSeq
<1>4. top \in Frames /\ top.of = frames[Len(frames) - 1].of
      /\ top.steps = frames[Len(frames) - 1].steps
  BY <1>3 DEF Frames
<1>5. WithoutTop = [front EXCEPT ![Len(frames) - 1] = top]
  BY <1>2, <1>3 DEF WithoutTop, Front
<1> HIDE DEF front, top
<1>6. QED
  BY <1>1, <1>2, <1>3, <1>4, <1>5, ExceptSeq

-----------------------------------------------------------------------------
(* Types *)

Types == TypeOK /\ CallOK

\* An exception unwinds the stack.
LEMMA RaiseTypes ==
    ASSUME Types, NEW error, Raise(error)
    PROVE  Types'
<1>1. TypeOK'
  <2>1. frames' = <<>> /\ importing' = NoImport
    BY DEF Raise
  <2>2. frames' \in Seq([of : Decls, next : Nat \ {0}, steps : Seq(Steps)])
    BY <2>1, EmptySeq
  <2>3. QED
    BY <2>1, <2>2 DEF Raise, registry, Types, TypeOK, Registered
<1>2. CallOK'
  <2>1. CASE call.op = "verify" /\ error = "AuthoringSemanticError"
    <3>1. DOMAIN call = {"op", "of", "next", "size", "entries"}
      BY <2>1 DEF Types, CallOK
    <3>2. DOMAIN call' = DOMAIN call /\ call'.op = "verify"
      BY <2>1, <3>1 DEF Raise, Counted
    <3>3. QED
      BY <3>1, <3>2 DEF CallOK
  <2>2. CASE ~(call.op = "verify" /\ error = "AuthoringSemanticError")
    BY <2>2 DEF Raise, NoCall, CallOK
  <2>3. QED
    BY <2>1, <2>2
<1>3. QED
  BY <1>1, <1>2 DEF Types

\* Asking for an implementation starts a body or fails.
LEMMA ElaborateTypes ==
    ASSUME Types, NEW d, Elaborate(d)
    PROVE  Types'
<1>1. CASE d \notin bodies \/ Len(frames) >= MaxFrames
  BY <1>1, RaiseTypes DEF Elaborate
<1>2. CASE ~(d \notin bodies \/ Len(frames) >= MaxFrames)
  <2>1. /\ frames' = Append(frames, Frame(d))
        /\ UNCHANGED <<registry, impl, importing, call, outcome, report, published, emitted, checked>>
    BY <1>2 DEF Elaborate
  <2>2. frames \in Seq(Frames) /\ d \in Decls
    BY <1>2 DEF Types, TypeOK, Frames
  <2>3. Frame(d) \in Frames
    BY <2>2, EmptySeq DEF Frame, Frames
  <2>4. frames' \in Seq(Frames)
    BY <2>1, <2>2, <2>3, AppendProperties
  <2>5. QED
    BY <2>1, <2>4 DEF Types, TypeOK, CallOK, Registered, registry, Frames
<1>3. QED
  BY <1>1, <1>2

\* A body goes on to its next instruction.
LEMMA GoOnTypes ==
    ASSUME Types, frames # <<>>, GoOn
    PROVE  Types'
<1>1. frames' \in Seq(Frames)
  BY TopOfStack DEF Types, GoOn
<1>2. QED
  BY <1>1 DEF GoOn, Types, TypeOK, CallOK, Registered, registry, Frames

\* A theory sees what is registered in it.
LEMMA OwnVisible ==
    ASSUME NEW t \in Theories
    PROVE  Registered(t) \subseteq Visible(t)
<1>1. Chain[t] \in Seq(Theories) /\ Chain[t] # <<>> /\ Chain[t][1] = t
  BY TheoryAssumption
<1> DEFINE c == Chain[t]
<1>2. c \in Seq(Theories) /\ c # <<>> /\ c[1] = t
  BY <1>1
<1> HIDE DEF c
<1>3. 1 \in DOMAIN c
  BY <1>2, EmptySeq, LenProperties
<1>4. QED
  BY <1>2, <1>3 DEF c, Visible, ToSet

\* A sequence without repetitions of the assertions of a theory stays one when
\* another of its assertions is appended.
LEMMA AppendDistinct ==
    ASSUME NEW t, NEW old \in Seq(Decls), NEW d \in Decls, Home[d] = t,
           \A m, n \in DOMAIN old : Home[old[n]] = t /\ (old[m] = old[n] => m = n),
           \A n \in DOMAIN old : old[n] # d
    PROVE  \A m, n \in DOMAIN Append(old, d) :
              /\ Home[Append(old, d)[n]] = t
              /\ Append(old, d)[m] = Append(old, d)[n] => m = n
<1> DEFINE new == Append(old, d)
<1>1. /\ DOMAIN new = 1 .. Len(old) + 1 /\ DOMAIN old = 1 .. Len(old) /\ Len(old) \in Nat
      /\ new[Len(old) + 1] = d /\ \A n \in 1 .. Len(old) : new[n] = old[n]
  BY AppendProperties, LenProperties
<1> HIDE DEF new
<1>2. SUFFICES ASSUME NEW m \in 1 .. Len(old) + 1, NEW n \in 1 .. Len(old) + 1
               PROVE  Home[new[n]] = t /\ (new[m] = new[n] => m = n)
  BY <1>1 DEF new
<1>3. CASE m = Len(old) + 1 \/ n = Len(old) + 1
  BY <1>1, <1>3
<1>4. CASE m \in 1 .. Len(old) /\ n \in 1 .. Len(old)
  BY <1>1, <1>4
<1>5. QED
  BY <1>1, <1>3, <1>4

\* What is declared was not registered before.
LEMMA DeclareTypes ==
    ASSUME Types, Declare
    PROVE  Types'
<1> DEFINE d == Text[importing.shard][importing.next].of
<1>1. d \in Decls /\ Home[d] \in Theories
  BY StatementOfShard, TheoryAssumption DEF Declare, Types
<1> HIDE DEF d
<1>2. CASE NewAssertion(d)
  <2>1. /\ handles' = [handles EXCEPT ![Home[d]] = Append(@, d)]
        /\ StatementDone /\ UNCHANGED bodies
    BY <1>2 DEF Declare, d
  <2>2. d \notin Registered(Home[d])
    BY <1>1, <1>2, OwnVisible DEF NewAssertion
  <2>3. handles \in [Theories -> Seq(Decls)] /\ handles[Home[d]] \in Seq(Decls)
    BY <1>1 DEF Types, TypeOK
  <2>4. Append(handles[Home[d]], d) \in Seq(Decls)
    BY <1>1, <2>3, AppendProperties
  <2>5. handles' \in [Theories -> Seq(Decls)]
    BY <2>1, <2>3, <2>4
  <2>6. \A t \in Theories : \A m, n \in DOMAIN handles'[t] :
           Home[handles'[t][n]] = t /\ (handles'[t][m] = handles'[t][n] => m = n)
    <3>1. TAKE t \in Theories
    <3>2. CASE t = Home[d]
      <4>1. handles'[t] = Append(handles[t], d) /\ handles[t] \in Seq(Decls)
        BY <3>2, <2>1, <2>3
      <4>2. \A m, n \in DOMAIN handles[t] :
               Home[handles[t][n]] = t /\ (handles[t][m] = handles[t][n] => m = n)
        BY DEF Types, TypeOK
      <4>3. \A n \in DOMAIN handles[t] : handles[t][n] # d
        BY <3>2, <2>2 DEF Registered, ToSet
      <4>4. QED
        BY <3>2, <1>1, <4>1, <4>2, <4>3, AppendDistinct
    <3>3. CASE t # Home[d]
      BY <3>3, <2>1, <2>3 DEF Types, TypeOK
    <3>4. QED
      BY <3>2, <3>3
  <2>7. importing' \in [shard : Shards, next : Nat \ {0}]
    <3>1. importing \in [shard : Shards, next : Nat \ {0}]
      BY DEF Types, TypeOK, Declare, Statement
    <3>2. QED
      BY <2>1, <3>1 DEF StatementDone
  <2>8. QED
    BY <2>1, <2>5, <2>6, <2>7 DEF StatementDone, Types, TypeOK, CallOK
<1>3. CASE ~NewAssertion(d)
  BY <1>3, RaiseTypes DEF Declare, d
<1>4. QED
  BY <1>2, <1>3

\* A program may import a shard of its own.
LEMMA ImportTypes ==
    ASSUME Types, NEW s \in Shards, StartImport(s), UNCHANGED call \/ call'.op = "import"
    PROVE  Types'
<1>1. importing' \in [shard : Shards, next : Nat \ {0}]
  BY DEF StartImport
<1>2. QED
  BY <1>1 DEF StartImport, Types, TypeOK, CallOK, Registered, registry

\* The other statements of a shard, and its end.
LEMMA ShardTypes ==
    ASSUME Types, Prove \/ ImportEnds
    PROVE  Types'
<1>1. CASE Prove
  <2> DEFINE d == Text[importing.shard][importing.next].of
  <2>1. d \in Decls
    BY <1>1, StatementOfShard DEF Prove, Types
  <2> HIDE DEF d
  <2>2. CASE AcceptsBody(d)
    <3>1. bodies' = bodies \cup {d} /\ StatementDone /\ UNCHANGED handles
      BY <1>1, <2>2 DEF Prove, d
    <3>2. importing \in [shard : Shards, next : Nat \ {0}]
      BY <1>1 DEF Types, TypeOK, Prove, Statement
    <3>3. importing' \in [shard : Shards, next : Nat \ {0}]
      BY <3>1, <3>2 DEF StatementDone
    <3>4. bodies' \subseteq {e \in Decls : KindOf[e] = "theorem"}
      BY <2>1, <2>2, <3>1 DEF AcceptsBody, Types, TypeOK
    <3>5. QED
      BY <3>1, <3>3, <3>4 DEF StatementDone, Types, TypeOK, CallOK, Registered
  <2>3. CASE ~AcceptsBody(d)
    BY <1>1, <2>3, RaiseTypes DEF Prove, d
  <2>4. QED
    BY <2>2, <2>3
<1>2. CASE ImportEnds
  <2>1. frames' \in Seq(Frames)
    <3>1. CASE frames = <<>>
      BY <1>2, <3>1, EmptySeq DEF ImportEnds
    <3>2. CASE frames # <<>>
      BY <1>2, <3>2, TopOfStack DEF ImportEnds, Types
    <3>3. QED
      BY <3>1, <3>2
  <2>2. CallOK'
    BY <1>2 DEF ImportEnds, Types, CallOK, Returned, NoCall
  <2>3. loaded' \subseteq Shards
    BY <1>2 DEF ImportEnds, Types, TypeOK
  <2>4. QED
    BY <1>2, <2>1, <2>2, <2>3 DEF ImportEnds, Types, TypeOK, Registered, Frames
<1>3. QED
  BY <1>1, <1>2

\* The instructions of a body.
LEMMA BodyTypes ==
    ASSUME Types, ImportLocally \/ ReadInBody \/ Use \/ Qed \/ BodyEnds
    PROVE  Types'
<1>0. Running /\ TypeOK /\ CallOK /\ frames # <<>>
  BY DEF ImportLocally, ReadInBody, Use, Qed, BodyEnds, Types, Running
<1>1. CASE ImportLocally
  <2>1. Instruction \in Instructions /\ Instruction.op = "import"
    BY <1>0, <1>1, InstructionOfBody DEF ImportLocally
  <2>2. Instruction.shard \in Shards
    BY <2>1 DEF Instructions
  <2>3. QED
    BY <1>0, <1>1, <2>2, GoOnTypes, ImportTypes DEF ImportLocally
<1>2. CASE ReadInBody
  <2>1. Instruction \in Instructions /\ Instruction.op = "read"
    BY <1>0, <1>2, InstructionOfBody DEF ReadInBody
  <2>2. Instruction.of \in Decls
    BY <2>1 DEF Instructions
  <2>3. QED
    BY <1>0, <1>2, <2>2, GoOnTypes, ElaborateTypes DEF ReadInBody
<1>3. CASE Use
  <2>1. ASSUME NEW e \in Decls, frames' = WithStep(e),
               UNCHANGED <<registry, impl, importing, call, outcome, report, published, emitted,
                           checked>>
        PROVE  Types'
    <3>1. Step(e, Instruction) \in Steps
      BY <1>0, <1>3, StepTyped DEF Use
    <3>2. frames' \in Seq(Frames)
      BY <1>0, <2>1, <3>1, StackExtended
    <3>3. QED
      BY <1>0, <2>1, <3>2 DEF Types, TypeOK, CallOK, Registered, registry, Frames
  <2>2. CASE Raise("AuthoringSemanticError")
    BY <2>2, RaiseTypes
  <2>3. QED
    BY <1>3, <2>1, <2>2 DEF Use
<1>4. CASE Qed
  <2>1. CASE Concludes(Top.of, Top.steps, Instruction.root)
    <3>1. /\ impl' = [impl EXCEPT ![Top.of] = Top.steps]
          /\ UNCHANGED <<registry, importing, report, published, emitted, checked>>
          /\ \/ Len(frames) = 1 /\ frames' = <<>>
             \/ Len(frames) # 1 /\ frames' = WithoutTop
          /\ \/ call' = NoCall
             \/ UNCHANGED call
      BY <1>4, <2>1 DEF Qed, Returned
    <3>2. frames' \in Seq(Frames)
      BY <1>0, <3>1, StackShortened, EmptySeq
    <3>3. Top \in Frames
      BY <1>0, TopOfStack
    <3>4. impl' \in [Decls -> Seq(Steps) \cup {NoProof}]
      BY <1>0, <3>1, <3>3 DEF TypeOK, Frames
    <3>5. CallOK'
      BY <1>0, <3>1 DEF CallOK, NoCall
    <3>6. QED
      BY <1>0, <3>1, <3>2, <3>4, <3>5 DEF Types, TypeOK, Registered, registry, Frames
  <2>2. CASE ~Concludes(Top.of, Top.steps, Instruction.root)
    BY <1>4, <2>2, RaiseTypes DEF Qed
  <2>3. QED
    BY <2>1, <2>2
<1>5. CASE BodyEnds
  BY <1>5, RaiseTypes DEF BodyEnds
<1>6. QED
  BY <1>1, <1>2, <1>3, <1>4, <1>5

\* The calls, and what verify_all and the emitter do between two entries.
LEMMA CallTypes ==
    ASSUME Types,
           \/ \E d \in Decls : ReadImplementation(d)
           \/ \E t \in Theories : VerifyAll(t)
           \/ DictionaryChanged \/ VerifyNext \/ VerifyReturns
    PROVE  Types'
<1>1. ASSUME NEW d \in Decls, ReadImplementation(d) PROVE Types'
  <2>1. CASE d \in bodies
    <3>1. frames' = <<Frame(d)>> /\ Frame(d) \in Frames
      BY <1>1, <2>1, EmptySeq DEF ReadImplementation, Frame, Frames
    <3>2. frames' \in Seq(Frames)
      BY <3>1
    <3>3. QED
      BY <1>1, <2>1, <3>2 DEF ReadImplementation, Types, TypeOK, CallOK, Registered, registry,
                              Frames
  <2>2. CASE d \notin bodies
    BY <1>1, <2>2 DEF ReadImplementation, Fail, Types, TypeOK, CallOK, Registered, registry
  <2>3. QED
    BY <2>1, <2>2
<1>2. ASSUME NEW t \in Theories, VerifyAll(t) PROVE Types'
  <2>1. TypeOK'
    BY <1>2 DEF VerifyAll, Fail, Types, TypeOK, Registered, registry
  <2>2. CallOK'
    BY <1>2 DEF VerifyAll, Fail, Types, CallOK
  <2>3. QED
    BY <2>1, <2>2 DEF Types
<1>3. CASE DictionaryChanged
  BY <1>3, RaiseTypes DEF DictionaryChanged
<1>4. CASE VerifyNext
  <2> DEFINE d == Listed(call.of)[call.next]
  <2>1. CASE Elaborate(d)
    BY <2>1, ElaborateTypes
  <2>2. CASE ~Elaborate(d)
    <3>1. /\ call' = [call EXCEPT !.next = @ + 1, !.entries = Append(@, Entry(d, TRUE))]
          /\ UNCHANGED <<registry, impl, importing, frames, outcome, report, published, emitted, checked>>
          /\ call.op = "verify"
      BY <1>4, <2>2 DEF VerifyNext, Between
    <3>2. DOMAIN call' = DOMAIN call /\ call'.op = "verify"
      BY <3>1 DEF Types, CallOK
    <3>3. QED
      BY <3>1, <3>2 DEF Types, TypeOK, CallOK, Registered, registry
  <2>3. QED
    BY <2>1, <2>2
<1>5. CASE VerifyReturns
  BY <1>5 DEF VerifyReturns, Returned, NoCall, Types, TypeOK, CallOK, Registered, registry
<1>6. QED
  BY <1>1, <1>2, <1>3, <1>4, <1>5

\* The emitter finds the proof of d in order and emits it.
EmitsProof(d) ==
    /\ impl[d] # NoProof /\ Replayable(d)
    /\ emitted' = [emitted EXCEPT ![d] = Lowered(impl[d])]

\* A proof that can be replayed is emitted with the labels of assertions of the
\* catalogue, which are what the replay has the identifiers for.
LEMMA LoweredTyped ==
    ASSUME TypeOK, call.catalog \in SUBSET Decls, NEW d \in Decls, impl[d] # NoProof, Replayable(d)
    PROVE  /\ Lowered(impl[d]) \in Seq(Lines) /\ Lowered(impl[d]) # NoProof
           /\ DOMAIN Lowered(impl[d]) = DOMAIN impl[d] /\ Len(Lowered(impl[d])) = Len(impl[d])
           /\ \A n \in DOMAIN impl[d] : Justifies(Lowered(impl[d])[n].cites, d, impl[d], n)
<1> DEFINE steps == impl[d]
           lines == Lowered(steps)
<1>1. steps \in Seq(Steps) /\ Len(steps) \in Nat /\ DOMAIN steps = 1 .. Len(steps)
      /\ \A n \in DOMAIN steps : steps[n] \in Steps
  BY LenProperties, ElementOfSeq DEF TypeOK
<1>2. ASSUME NEW n \in DOMAIN steps
      PROVE  /\ InCatalog(steps[n].assertion) \in Decls
             /\ Justifies(InCatalog(steps[n].assertion), d, steps, n)
  <2>1. PICK e \in call.catalog : Justifies(e, d, steps, n)
    BY DEF Replayable
  <2>2. IdOf[e] = steps[n].assertion
    BY <2>1 DEF Justifies
  <2>3. InCatalog(steps[n].assertion) \in call.catalog
        /\ IdOf[InCatalog(steps[n].assertion)] = steps[n].assertion
    BY <2>1, <2>2 DEF InCatalog
  <2>4. InCatalog(steps[n].assertion) = e
    BY <2>2, <2>3 DEF Replayable
  <2>5. QED
    BY <2>1, <2>3, <2>4
<1>3. /\ DOMAIN lines = DOMAIN steps
      /\ \A n \in DOMAIN steps : lines[n] =
            [cites |-> InCatalog(steps[n].assertion), premises |-> steps[n].premises,
             subst |-> steps[n].subst, result |-> steps[n].result]
      /\ lines = [n \in 1 .. Len(steps) |-> lines[n]]
  BY <1>1 DEF Lowered
<1> HIDE DEF lines
<1>4. \A n \in DOMAIN steps : lines[n] \in Lines /\ lines[n].cites = InCatalog(steps[n].assertion)
  <2>1. TAKE n \in DOMAIN steps
  <2>2. /\ steps[n].premises \in Seq(Nat) /\ steps[n].subst \in Substs
        /\ steps[n].result \in Judgments
    <3>1. steps[n] \in Steps
      BY <1>1
    <3>2. QED
      BY <3>1 DEF Steps
  <2>3. InCatalog(steps[n].assertion) \in Decls
    BY <1>2
  <2> HIDE DEF steps
  <2>4. lines[n] = [cites |-> InCatalog(steps[n].assertion), premises |-> steps[n].premises,
                    subst |-> steps[n].subst, result |-> steps[n].result]
    BY <1>3
  <2>5. QED
    BY <2>2, <2>3, <2>4 DEF Lines
<1>5. lines \in Seq(Lines) /\ Len(lines) = Len(steps)
  <2>1. lines \in [1 .. Len(steps) -> Lines]
    BY <1>1, <1>3, <1>4
  <2>2. lines \in Seq(Lines)
    BY <1>1, <2>1
  <2>3. Len(lines) \in Nat /\ DOMAIN lines = 1 .. Len(lines)
    BY <2>2, LenProperties
  <2>4. QED
    BY <1>1, <1>3, <2>2, <2>3
<1>6. lines # NoProof
  BY <1>5, TheoryAssumption
<1>7. QED
  BY <1>2, <1>3, <1>4, <1>5, <1>6 DEF lines

\* Emission and verification.
LEMMA EmissionTypes ==
    ASSUME Types,
           \/ \E t \in Theories : StartEmission(t) \/ Check(t)
           \/ EmitNext \/ EmissionEnds
    PROVE  Types'
<1>1. ASSUME NEW t \in Theories, StartEmission(t) PROVE Types'
  <2>1. TypeOK'
    BY <1>1 DEF StartEmission, Fail, Types, TypeOK, Registered, registry
  <2>2. CASE Listed(t) = Sequence[t] /\ ~Conflicting(t)
    <3>1. Handles(t) \subseteq Decls
      <4>1. \A u \in Theories : Registered(u) \subseteq Decls
        <5>1. TAKE u \in Theories
        <5>2. handles[u] \in Seq(Decls)
          BY DEF Types, TypeOK
        <5>3. QED
          BY <5>2, LenProperties, ElementOfSeq DEF Registered, ToSet
      <4>2. \A u \in ToSet(Chain[t]) : u \in Theories
        <5>1. Chain[t] \in Seq(Theories)
          BY TheoryAssumption
        <5>2. QED
          BY <5>1, LenProperties, ElementOfSeq DEF ToSet
      <4>3. Visible(t) \subseteq Decls
        BY <4>1, <4>2 DEF Visible
      <4>4. QED
        BY <4>1, <4>3 DEF Handles
    <3>2. Sequence[t] \in Seq(Decls)
      BY TheoryAssumption
    <3>3. /\ call' = [op |-> "emit", of |-> t, next |-> 1, sequence |-> Sequence[t],
                      catalog |-> Handles(t)]
          /\ published' = published /\ published[t] = <<>>
      BY <1>1, <2>2 DEF StartEmission, IsPublished
    <3>4. call' \in Emissions /\ call'.op = "emit" /\ call'.of = t
      BY <3>1, <3>2, <3>3 DEF Emissions
    <3>5. QED
      BY <2>1, <3>3, <3>4 DEF Types, CallOK
  <2>3. CASE ~(Listed(t) = Sequence[t] /\ ~Conflicting(t))
    BY <1>1, <2>1, <2>3 DEF StartEmission, Fail, Types, CallOK
  <2>4. QED
    BY <2>2, <2>3
<1>2. ASSUME NEW t \in Theories, Check(t) PROVE Types'
  <2>1. checked' \in [Theories -> Nat] /\ checked'[t] = checked[t] + 1
        /\ \A u \in Theories \ {t} : checked'[u] = checked[u]
    BY <1>2 DEF Check, Types, TypeOK
  <2>2. checked'[t] <= Len(published[t])
    <3>1. Len(published[t]) \in Nat /\ checked[t] \in Nat
      BY LenProperties DEF Types, TypeOK
    <3>2. QED
      BY <1>2, <2>1, <3>1 DEF Check
  <2>3. QED
    BY <1>2, <2>1, <2>2 DEF Check, Types, TypeOK, CallOK, Registered, registry
<1>3. CASE EmitNext
  <2> DEFINE d == call.sequence[call.next]
  <2>1. CASE Elaborate(d)
    BY <2>1, ElaborateTypes
  <2>2. CASE Raise("AuthoringSemanticError")
    BY <2>2, RaiseTypes
  <2>3. CASE ~Elaborate(d) /\ ~Raise("AuthoringSemanticError")
    <3>1. /\ call' = [call EXCEPT !.next = @ + 1] /\ call.op = "emit"
          /\ UNCHANGED <<registry, impl, importing, frames, outcome, report, published, checked>>
          /\ emitted' = emitted \/ EmitsProof(d)
      BY <1>3, <2>3 DEF EmitNext, Between, EmitsProof
    <3>2. call \in Emissions /\ published[call.of] = <<>>
      BY <3>1 DEF Types, CallOK
    <3>3. call' \in Emissions /\ call'.op = "emit" /\ call'.of = call.of
      BY <3>1, <3>2 DEF Emissions
    <3>4. CallOK'
      BY <3>1, <3>2, <3>3 DEF CallOK
    <3>5. emitted' \in [Decls -> Seq(Lines) \cup {NoProof}]
      <4>1. emitted \in [Decls -> Seq(Lines) \cup {NoProof}] /\ TypeOK
        BY DEF Types, TypeOK
      <4>2. CASE emitted' = emitted
        BY <4>1, <4>2
      <4>3. CASE EmitsProof(d)
        <5>1. d \in Decls /\ call.catalog \in SUBSET Decls
          <6>1. call.sequence \in Seq(Decls) /\ call.next \in 1 .. Len(call.sequence)
            BY <1>3, <3>2, LenProperties DEF Emissions, EmitNext
          <6>2. QED
            BY <3>2, <6>1, ElementOfSeq DEF Emissions
        <5>2. Lowered(impl[d]) \in Seq(Lines)
          BY <4>1, <4>3, <5>1, LoweredTyped DEF EmitsProof
        <5>3. QED
          BY <4>1, <4>3, <5>1, <5>2 DEF EmitsProof
      <4>4. QED
        BY <3>1, <4>2, <4>3
    <3>6. QED
      BY <3>1, <3>4, <3>5 DEF Types, TypeOK, Registered, registry
  <2>4. QED
    BY <2>1, <2>2, <2>3
<1>4. CASE EmissionEnds
  <2>1. call \in Emissions /\ published[call.of] = <<>>
    BY <1>4 DEF EmissionEnds, Between, Types, CallOK
  <2>2. published' = [published EXCEPT ![call.of] = call.sequence]
        /\ call.of \in Theories /\ call.sequence \in Seq(Decls)
    BY <1>4, <2>1 DEF EmissionEnds, Emissions
  <2>3. published' \in [Theories -> Seq(Decls)]
    BY <2>2 DEF Types, TypeOK
  <2>4. \A u \in Theories : checked[u] <= Len(published'[u])
    <3>1. TAKE u \in Theories
    <3>2. checked[u] \in Nat /\ checked[u] <= Len(published[u])
      BY DEF Types, TypeOK
    <3>3. CASE u = call.of
      <4>1. checked[u] = 0
        BY <2>1, <3>2, <3>3, EmptySeq
      <4>2. Len(published'[u]) \in Nat
        BY <2>3, LenProperties
      <4>3. QED
        BY <4>1, <4>2
    <3>4. CASE u # call.of
      BY <2>2, <3>2, <3>4 DEF Types, TypeOK
    <3>5. QED
      BY <3>3, <3>4
  <2>5. QED
    BY <1>4, <2>3, <2>4 DEF EmissionEnds, Returned, NoCall, Types, TypeOK, CallOK, Registered,
                            registry
<1>5. QED
  BY <1>1, <1>2, <1>3, <1>4

LEMMA InitTypes == Init => Types
<1> SUFFICES ASSUME Init PROVE Types
  OBVIOUS
<1>1. /\ \A t \in Theories : handles[t] = <<>> /\ published[t] = <<>> /\ checked[t] = 0
      /\ frames = <<>> /\ Len(<<>>) = 0 /\ DOMAIN <<>> = {}
  BY DEF Init
<1>2. handles \in [Theories -> Seq(Decls)] /\ published \in [Theories -> Seq(Decls)]
      /\ checked \in [Theories -> Nat] /\ impl \in [Decls -> Seq(Steps) \cup {NoProof}]
      /\ emitted \in [Decls -> Seq(Lines) \cup {NoProof}]
  BY EmptySeq DEF Init
<1>3. TypeOK
  BY <1>1, <1>2, EmptySeq DEF Init, TypeOK
<1>4. CallOK
  BY DEF Init, NoCall, CallOK
<1>5. QED
  BY <1>3, <1>4 DEF Types

LEMMA NextTypes == Types /\ [Next]_vars => Types'
<1> SUFFICES ASSUME Types, [Next]_vars PROVE Types'
  OBVIOUS
<1>1. CASE UNCHANGED vars
  BY <1>1 DEF vars, Types, TypeOK, CallOK, Registered
<1>2. ASSUME NEW s \in source, ImportShard(s) PROVE Types'
  <2>1. s \in Shards
    BY TheoryAssumption DEF Types, TypeOK
  <2>2. QED
    BY <1>2, <2>1, ImportTypes DEF ImportShard
<1>3. CASE Next
  BY <1>2, <1>3, DeclareTypes, ShardTypes, BodyTypes, CallTypes, EmissionTypes
  DEF Next, Work
<1>4. QED
  BY <1>1, <1>3

\* The type invariant: every variable stays in its range, and an assertion is
\* registered once, under the theory it belongs to, whatever shards declare.
THEOREM TypeCorrect == Spec => []TypeOK
<1>1. Init => Types
  BY InitTypes
<1>2. Types /\ [Next]_vars => Types'
  BY NextTypes
<1>3. Types => TypeOK
  BY DEF Types
<1>4. QED
  BY <1>1, <1>2, <1>3, PTL DEF Spec

-----------------------------------------------------------------------------
(* Nothing that was registered or proved is taken back *)

Growth ==
    /\ \A t \in Theories : Registered(t) \subseteq Registered(t)'
    /\ \A d \in Decls : impl[d] # NoProof => impl'[d] # NoProof

\* A step that leaves the registry and the cached proofs alone.
Quiet == UNCHANGED <<handles, impl>>

LEMMA QuietOrGrows ==
    ASSUME Types, [Next]_vars
    PROVE  Quiet \/ Declare \/ Qed
<1>1. CASE UNCHANGED vars
  BY <1>1 DEF vars, Quiet
<1>2. ASSUME NEW s, ImportShard(s) PROVE Quiet
  BY <1>2 DEF ImportShard, StartImport, registry, Quiet
<1>3. ASSUME NEW d, ReadImplementation(d) PROVE Quiet
  BY <1>3 DEF ReadImplementation, Fail, registry, Quiet
<1>4. ASSUME NEW t, VerifyAll(t) \/ StartEmission(t) \/ Check(t) PROVE Quiet
  BY <1>4 DEF VerifyAll, StartEmission, Check, Fail, registry, Quiet
<1>5. CASE Prove \/ ImportEnds
  BY <1>5 DEF Prove, ImportEnds, StatementDone, Raise, registry, Quiet
<1>6. CASE ImportLocally \/ ReadInBody \/ Use \/ BodyEnds
  BY <1>6 DEF ImportLocally, ReadInBody, Use, BodyEnds, GoOn, StartImport, Elaborate, Raise,
              registry, Quiet
<1>7. CASE DictionaryChanged \/ VerifyNext \/ VerifyReturns \/ EmitNext \/ EmissionEnds
  BY <1>7 DEF DictionaryChanged, VerifyNext, VerifyReturns, EmitNext, EmissionEnds, Elaborate,
              Raise, registry, Quiet
<1>8. CASE Next
  BY <1>2, <1>3, <1>4, <1>5, <1>6, <1>7, <1>8 DEF Next, Work
<1>9. QED
  BY <1>1, <1>8

LEMMA StepGrows ==
    ASSUME Types, [Next]_vars
    PROVE  Growth
<1>1. CASE Quiet
  BY <1>1 DEF Quiet, Growth, Registered
<1>2. CASE Declare
  <2> DEFINE d == Text[importing.shard][importing.next].of
  <2>1. d \in Decls /\ Home[d] \in Theories
    BY <1>2, StatementOfShard, TheoryAssumption DEF Declare, Types
  <2> HIDE DEF d
  <2>2. CASE NewAssertion(d)
    <3>1. handles' = [handles EXCEPT ![Home[d]] = Append(@, d)] /\ impl' = impl
      BY <1>2, <2>2 DEF Declare, StatementDone, d
    <3>2. handles \in [Theories -> Seq(Decls)] /\ handles[Home[d]] \in Seq(Decls)
      BY <2>1 DEF Types, TypeOK
    <3>3. \A t \in Theories : Registered(t) \subseteq Registered(t)'
      <4>1. TAKE t \in Theories
      <4>2. CASE t = Home[d]
        <5>1. handles'[t] = Append(handles[t], d) /\ handles[t] \in Seq(Decls)
          BY <4>2, <2>1, <3>1, <3>2
        <5>2. ToSet(handles[t]) \subseteq ToSet(Append(handles[t], d))
          BY <2>1, <5>1, ToSetOfAppend
        <5>3. QED
          BY <5>1, <5>2 DEF Registered
      <4>3. CASE t # Home[d]
        BY <4>3, <3>1, <3>2 DEF Registered
      <4>4. QED
        BY <4>2, <4>3
    <3>4. QED
      BY <3>1, <3>3 DEF Growth
  <2>3. CASE ~NewAssertion(d)
    BY <1>2, <2>3 DEF Declare, d, Raise, registry, Growth, Registered
  <2>4. QED
    BY <2>2, <2>3
<1>3. CASE Qed
  <2>1. \/ impl' = [impl EXCEPT ![Top.of] = Top.steps] /\ handles' = handles
        \/ impl' = impl /\ handles' = handles
    BY <1>3 DEF Qed, Raise, registry
  <2>2. Top \in Frames
    BY <1>3, TopOfStack DEF Qed, Running, Types
  <2>3. Top.steps # NoProof
    BY <2>2, TheoryAssumption DEF Frames
  <2>4. QED
    BY <2>1, <2>3 DEF Growth, Registered, Types, TypeOK
<1>4. QED
  BY <1>1, <1>2, <1>3, QuietOrGrows

-----------------------------------------------------------------------------
(* Proofs stand *)

\* Only declare() changes the registry: it appends an assertion that is new.
LEMMA RegistryStep ==
    ASSUME Types, [Next]_vars
    PROVE  \/ handles' = handles
           \/ \E d \in Decls : /\ Declare /\ Home[d] \in Theories /\ NewAssertion(d)
                               /\ handles' = [handles EXCEPT ![Home[d]] = Append(@, d)]
<1>1. CASE Quiet
  BY <1>1 DEF Quiet
<1>2. CASE Declare
  <2> DEFINE d == Text[importing.shard][importing.next].of
  <2>1. d \in Decls /\ Home[d] \in Theories
    BY <1>2, StatementOfShard, TheoryAssumption DEF Declare, Types
  <2>2. \/ NewAssertion(d) /\ handles' = [handles EXCEPT ![Home[d]] = Append(@, d)]
        \/ handles' = handles
    BY <1>2 DEF Declare, Raise, registry
  <2> HIDE DEF d
  <2>3. QED
    BY <1>2, <2>1, <2>2
<1>3. CASE Qed
  BY <1>3 DEF Qed, Raise, registry
<1>4. QED
  BY <1>1, <1>2, <1>3, QuietOrGrows

\* What a new assertion does to the registry.
LEMMA RegistryGrown ==
    ASSUME Types, NEW d \in Decls, Home[d] \in Theories,
           handles' = [handles EXCEPT ![Home[d]] = Append(@, d)]
    PROVE  /\ \A t \in Theories : t # Home[d] => handles'[t] = handles[t]
           /\ Len(handles[Home[d]]) \in Nat /\ Len(handles[Home[d]]) <= Len(handles'[Home[d]])
           /\ \A n \in 1..Len(handles[Home[d]]) : handles'[Home[d]][n] = handles[Home[d]][n]
           /\ Registered(Home[d])' = Registered(Home[d]) \cup {d}
<1>1. handles \in [Theories -> Seq(Decls)] /\ handles[Home[d]] \in Seq(Decls)
  BY DEF Types, TypeOK
<1>2. /\ handles'[Home[d]] = Append(handles[Home[d]], d)
      /\ \A t \in Theories : t # Home[d] => handles'[t] = handles[t]
  BY <1>1
<1>3. /\ Len(handles[Home[d]]) \in Nat
      /\ Len(handles'[Home[d]]) = Len(handles[Home[d]]) + 1
      /\ \A n \in 1..Len(handles[Home[d]]) : handles'[Home[d]][n] = handles[Home[d]][n]
      /\ handles'[Home[d]][Len(handles[Home[d]]) + 1] = d
  BY <1>1, <1>2, AppendProperties, LenProperties
<1>4. /\ DOMAIN handles[Home[d]] = 1..Len(handles[Home[d]])
      /\ DOMAIN handles'[Home[d]] = 1..Len(handles'[Home[d]])
  BY <1>1, <1>2, AppendProperties, LenProperties
<1>5. ToSet(handles'[Home[d]]) = ToSet(handles[Home[d]]) \cup {d}
  BY <1>3, <1>4 DEF ToSet
<1>6. QED
  BY <1>2, <1>3, <1>5 DEF Registered

\* An identifier stands for one assertion of a registry.
IdsUnique ==
    \A t \in Theories : \A e, f \in Registered(t) : IdOf[e] = IdOf[f] => e = f

\* What is in view is registered in one of the theories that are looked through.
LEMMA SeenIs ==
    ASSUME NEW t \in Theories
    PROVE  /\ \A u \in ToSet(Chain[t]) : u \in Theories
           /\ \A n \in DOMAIN Chain[t] : Chain[t][n] \in ToSet(Chain[t])
           /\ \A e : e \in Visible(t) <=> \E u \in ToSet(Chain[t]) : e \in Registered(u)
<1>1. Chain[t] \in Seq(Theories)
  BY TheoryAssumption
<1>2. QED
  BY <1>1, LenProperties, ElementOfSeq DEF ToSet, Visible

\* What a step of the system does to the registries: nothing, or one gets an assertion
\* with an identifier that is new to what it sees.
LEMMA RegistersNew ==
    ASSUME Types, [Next]_vars
    PROVE  \/ \A t \in Theories : Registered(t)' = Registered(t)
           \/ \E g \in Decls :
                 /\ Home[g] \in Theories
                 /\ \A e \in Visible(Home[g]) : IdOf[e] # IdOf[g]
                 /\ \A t \in Theories :
                       Registered(t)' = IF t = Home[g] THEN Registered(t) \cup {g}
                                        ELSE Registered(t)
<1>1. CASE handles' = handles
  BY <1>1 DEF Registered
<1>2. ASSUME NEW g \in Decls, Home[g] \in Theories, NewAssertion(g),
             handles' = [handles EXCEPT ![Home[g]] = Append(@, g)]
      PROVE  /\ \A e \in Visible(Home[g]) : IdOf[e] # IdOf[g]
             /\ \A t \in Theories :
                   Registered(t)' = IF t = Home[g] THEN Registered(t) \cup {g} ELSE Registered(t)
  <2>1. \A t \in Theories : t # Home[g] => handles'[t] = handles[t]
    BY <1>2, RegistryGrown
  <2>2. Registered(Home[g])' = Registered(Home[g]) \cup {g}
    BY <1>2, RegistryGrown
  <2>3. \A e \in Visible(Home[g]) : IdOf[e] # IdOf[g]
    BY <1>2 DEF NewAssertion
  <2>4. \A t \in Theories : t # Home[g] => Registered(t)' = Registered(t)
    BY <2>1 DEF Registered
  <2>5. \A t \in Theories :
           Registered(t)' = IF t = Home[g] THEN Registered(t) \cup {g} ELSE Registered(t)
    <3>1. TAKE t \in Theories
    <3>2. CASE t = Home[g]
      BY <2>2, <3>2
    <3>3. CASE t # Home[g]
      BY <2>4, <3>3
    <3>4. QED
      BY <3>2, <3>3
  <2>6. QED
    BY <2>3, <2>5
<1>3. QED
  BY <1>1, <1>2, RegistryStep

\* Identifiers stay unique within a registry: its own theory is among those looked at.
LEMMA IdsUniqueLater ==
    ASSUME Types, IdsUnique, [Next]_vars
    PROVE  IdsUnique'
<1>1. CASE \A t \in Theories : Registered(t)' = Registered(t)
  BY <1>1 DEF IdsUnique
<1>2. ASSUME NEW g \in Decls, Home[g] \in Theories,
             \A e \in Visible(Home[g]) : IdOf[e] # IdOf[g],
             \A t \in Theories :
                Registered(t)' = IF t = Home[g] THEN Registered(t) \cup {g} ELSE Registered(t)
      PROVE  IdsUnique'
  <2>1. \A e \in Registered(Home[g]) : IdOf[e] # IdOf[g]
    BY <1>2, OwnVisible
  <2>2. ASSUME NEW t \in Theories, NEW e \in Registered(t)', NEW f \in Registered(t)',
               IdOf[e] = IdOf[f]
        PROVE  e = f
    BY <1>2, <2>1, <2>2 DEF IdsUnique
  <2>3. QED
    BY <2>2 DEF IdsUnique
<1>3. QED
  BY <1>1, <1>2, RegistersNew

LEMMA InitIds == Init => IdsUnique
<1>1. \A t \in Theories : Init => Registered(t) = {}
  BY EmptySeq DEF Init, Registered, ToSet
<1>2. QED
  BY <1>1 DEF IdsUnique

\* Steps that stand still stand: what was in view stays in view, and an identifier
\* either stands for what it stood for or for an assertion registered by a theory that
\* does not see the one that was cited.
LEMMA StandsOn ==
    ASSUME Types, [Next]_vars, NEW d \in Decls, NEW steps, Stands(d, steps)
    PROVE  Stands(d, steps)'
<1> DEFINE t == Home[d]
<1>0. t \in Theories
  BY TheoryAssumption
<1> HIDE DEF t
<1>1. \A u \in Theories : Registered(u) \subseteq Registered(u)'
  BY StepGrows DEF Growth
<1>2. \A u \in ToSet(Chain[t]) : u \in Theories
  BY <1>0, SeenIs
<1>3. \A e : e \in Visible(t) => e \in Visible(t)'
  BY <1>1, <1>2 DEF Visible
<1>4. ASSUME NEW f, NEW id, Finds(t, id, f)'
      PROVE  Finds(t, id, f) \/ \E u \in ToSet(Chain[t]) : f \in Registered(u)' \ Registered(u)
  <2>1. PICK n \in DOMAIN Chain[t] :
           /\ f \in Registered(Chain[t][n])' /\ IdOf[f] = id
           /\ \A m \in 1 .. n - 1 : \A h \in Registered(Chain[t][m])' : IdOf[h] # id
    BY <1>4 DEF Finds
  <2>2. Chain[t][n] \in ToSet(Chain[t])
    BY <1>0, SeenIs
  <2>3. CASE f \in Registered(Chain[t][n])
    <3>1. Chain[t] \in Seq(Theories) /\ DOMAIN Chain[t] = 1 .. Len(Chain[t])
          /\ Len(Chain[t]) \in Nat
      BY <1>0, TheoryAssumption, LenProperties
    <3>2. \A m \in 1 .. n - 1 : Chain[t][m] \in Theories
      BY <1>0, <3>1, SeenIs
    <3>3. \A m \in 1 .. n - 1 : \A h \in Registered(Chain[t][m]) : IdOf[h] # id
      BY <1>1, <2>1, <3>2
    <3>4. QED
      BY <2>1, <2>3, <3>3 DEF Finds
  <2>4. QED
    BY <2>1, <2>2, <2>3
<1>5. ASSUME NEW n \in DOMAIN steps, NEW e \in Visible(t), Justifies(e, d, steps, n),
             \A f \in Decls : Finds(t, steps[n].assertion, f) =>
                f = e \/ Home[e] \notin ToSet(Chain[Home[f]]),
             NEW f \in Decls, Finds(t, steps[n].assertion, f)'
      PROVE  f = e \/ Home[e] \notin ToSet(Chain[Home[f]])
  <2>1. CASE Finds(t, steps[n].assertion, f)
    BY <1>5, <2>1
  <2>2. ASSUME NEW u \in ToSet(Chain[t]), f \in Registered(u)' \ Registered(u)
        PROVE  Home[e] \notin ToSet(Chain[Home[f]])
    <3>1. u \in Theories
      BY <1>2
    <3>2. PICK g \in Decls :
                 /\ Home[g] \in Theories
                 /\ \A h \in Visible(Home[g]) : IdOf[h] # IdOf[g]
                 /\ \A v \in Theories :
                       Registered(v)' = IF v = Home[g] THEN Registered(v) \cup {g}
                                        ELSE Registered(v)
      BY <2>2, <3>1, RegistersNew
    <3>3. f = g
      BY <2>2, <3>1, <3>2
    <3>4. IdOf[f] = steps[n].assertion /\ IdOf[e] = steps[n].assertion
      BY <1>5 DEF Finds, Justifies
    <3>5. e \notin Visible(Home[f])
      BY <3>2, <3>3, <3>4
    <3>6. e \in Registered(Home[e])
      <4>1. PICK v \in ToSet(Chain[t]) : e \in Registered(v)
        BY <1>0, <1>5, SeenIs
      <4>2. v \in Theories
        BY <1>2
      <4>3. Home[e] = v
        BY <4>1, <4>2 DEF Registered, ToSet, Types, TypeOK
      <4>4. QED
        BY <4>1, <4>3
    <3>7. QED
      BY <3>5, <3>6 DEF Visible
  <2>3. QED
    BY <1>4, <1>5, <2>1, <2>2
<1>6. ASSUME NEW n \in DOMAIN steps
      PROVE  \E e \in Visible(t)' :
                /\ Justifies(e, d, steps, n)
                /\ \A f \in Decls : Finds(t, steps[n].assertion, f)' =>
                      f = e \/ Home[e] \notin ToSet(Chain[Home[f]])
  <2>1. PICK e \in Visible(t) :
           /\ Justifies(e, d, steps, n)
           /\ \A f \in Decls : Finds(t, steps[n].assertion, f) =>
                 f = e \/ Home[e] \notin ToSet(Chain[Home[f]])
    BY DEF Stands, t
  <2>2. e \in Visible(t)'
    BY <1>3, <2>1
  <2>3. \A f \in Decls : Finds(t, steps[n].assertion, f)' =>
           f = e \/ Home[e] \notin ToSet(Chain[Home[f]])
    BY <1>5, <2>1
  <2>4. QED
    BY <2>1, <2>2, <2>3
<1>7. QED
  BY <1>6 DEF Stands, t, Justifies, Applies

\* An identifier stands for one assertion at a time.
LEMMA FoundOnce ==
    ASSUME IdsUnique, NEW t \in Theories, NEW id, NEW e, NEW f, Finds(t, id, e), Finds(t, id, f)
    PROVE  e = f
<1>1. Chain[t] \in Seq(Theories) /\ DOMAIN Chain[t] = 1 .. Len(Chain[t]) /\ Len(Chain[t]) \in Nat
  BY TheoryAssumption, LenProperties
<1>2. PICK m \in DOMAIN Chain[t] :
         /\ e \in Registered(Chain[t][m]) /\ IdOf[e] = id
         /\ \A k \in 1 .. m - 1 : \A h \in Registered(Chain[t][k]) : IdOf[h] # id
  BY DEF Finds
<1>3. PICK n \in DOMAIN Chain[t] :
         /\ f \in Registered(Chain[t][n]) /\ IdOf[f] = id
         /\ \A k \in 1 .. n - 1 : \A h \in Registered(Chain[t][k]) : IdOf[h] # id
  BY DEF Finds
<1>4. m = n
  BY <1>1, <1>2, <1>3
<1>5. Chain[t][m] \in Theories
  BY <1>1, ElementOfSeq
<1>6. QED
  BY <1>2, <1>3, <1>4, <1>5 DEF IdsUnique

\* A proof that stands still does when a step is added with what its author cites.
LEMMA StandsWithStep ==
    ASSUME IdsUnique, NEW d \in Decls, NEW steps \in Seq(Steps), NEW i, NEW e \in Decls,
           Step(e, i) \in Steps, Resolves(Home[d], i, e), Applies(d, steps, e, i),
           Stands(d, steps)
    PROVE  Stands(d, Append(steps, Step(e, i)))
<1> DEFINE new == Append(steps, Step(e, i))
<1>0. Home[d] \in Theories
  BY TheoryAssumption
<1>1. /\ new \in Seq(Steps) /\ Len(new) = Len(steps) + 1 /\ Len(steps) \in Nat
      /\ DOMAIN new = 1 .. Len(steps) + 1 /\ DOMAIN steps = 1 .. Len(steps)
      /\ new[Len(steps) + 1] = Step(e, i) /\ \A n \in 1 .. Len(steps) : new[n] = steps[n]
  BY AppendProperties, LenProperties
<1> HIDE DEF new
<1>2. \A n \in 0 .. Len(steps) : SubSeq(new, 1, n) = SubSeq(steps, 1, n)
  <2>1. TAKE n \in 0 .. Len(steps)
  <2>2. /\ SubSeq(new, 1, n) \in Seq(Steps) /\ Len(SubSeq(new, 1, n)) = n
        /\ \A k \in 1 .. n : SubSeq(new, 1, n)[k] = new[k]
    BY <1>1, PrefixProperties
  <2>3. /\ SubSeq(steps, 1, n) \in Seq(Steps) /\ Len(SubSeq(steps, 1, n)) = n
        /\ \A k \in 1 .. n : SubSeq(steps, 1, n)[k] = steps[k]
    BY <1>1, PrefixProperties
  <2>4. \A k \in 1 .. n : SubSeq(new, 1, n)[k] = SubSeq(steps, 1, n)[k]
    BY <1>1, <2>2, <2>3
  <2>5. QED
    BY <2>2, <2>3, <2>4, SeqEqual
<1>3. SubSeq(steps, 1, Len(steps)) = steps
  BY SubSeqFull
<1>4. ASSUME NEW n \in DOMAIN new
      PROVE  \E a \in Visible(Home[d]) :
                /\ Justifies(a, d, new, n)
                /\ \A f \in Decls : Finds(Home[d], new[n].assertion, f) =>
                      f = a \/ Home[a] \notin ToSet(Chain[Home[f]])
  <2>1. CASE n = Len(steps) + 1
    <3>1. SubSeq(new, 1, n - 1) = steps /\ new[n] = Step(e, i)
      BY <1>1, <1>2, <1>3, <2>1
    <3>2. Applies(d, steps, e, Step(e, i))
      BY DEF Applies, Step
    <3>3. Step(e, i).result = Step(e, i).subst[Conclusion[e]] /\ Step(e, i).assertion = IdOf[e]
      BY DEF Step
    <3>4. Justifies(e, d, new, n)
      BY <3>1, <3>2, <3>3 DEF Justifies
    <3>5. Finds(Home[d], IdOf[i.cites], e) /\ IdOf[e] = IdOf[i.cites]
      BY DEF Resolves, Finds
    <3>6. e \in Visible(Home[d])
      BY <1>0, <3>5, SeenIs DEF Finds
    <3>7. ASSUME NEW f \in Decls, Finds(Home[d], new[n].assertion, f) PROVE f = e
      <4>1. Finds(Home[d], IdOf[e], f) /\ Finds(Home[d], IdOf[e], e)
        BY <3>1, <3>3, <3>5, <3>7
      <4>2. QED
        BY <1>0, <4>1, FoundOnce
    <3>8. QED
      BY <3>4, <3>6, <3>7
  <2>2. CASE n \in 1 .. Len(steps)
    <3>1. SubSeq(new, 1, n - 1) = SubSeq(steps, 1, n - 1) /\ new[n] = steps[n]
      BY <1>1, <1>2, <2>2
    <3>2. PICK a \in Visible(Home[d]) :
             /\ Justifies(a, d, steps, n)
             /\ \A f \in Decls : Finds(Home[d], steps[n].assertion, f) =>
                   f = a \/ Home[a] \notin ToSet(Chain[Home[f]])
      BY <1>1, <2>2 DEF Stands
    <3>3. Justifies(a, d, new, n)
      BY <3>1, <3>2 DEF Justifies
    <3>4. QED
      BY <3>1, <3>2, <3>3
  <2>3. QED
    BY <1>1, <2>1, <2>2
<1>5. QED
  BY <1>4 DEF Stands, new

\* A proof without steps stands.
LEMMA StandsEmpty == \A d : Stands(d, <<>>)
BY DEF Stands

\* What a step of the system does to the running bodies: none is added but an
\* empty one, and none gets a step but one that applies.
StackStep ==
    \A n \in DOMAIN frames' :
        \/ /\ n \in DOMAIN frames
           /\ frames'[n].of = frames[n].of /\ frames'[n].steps = frames[n].steps
        \/ frames'[n].of \in Decls /\ frames'[n].steps = <<>>
        \/ \E e \in Decls :
              /\ Running /\ n = Len(frames) /\ Usable(e) /\ Step(e, Instruction) \in Steps
              /\ frames'[n].of = Top.of
              /\ frames'[n].steps = Append(Top.steps, Step(e, Instruction))

LEMMA ElaborateStack ==
    ASSUME Types, NEW d, Elaborate(d)
    PROVE  StackStep
<1>1. CASE frames' = <<>>
  BY <1>1 DEF StackStep
<1>2. CASE frames' = Append(frames, Frame(d)) /\ d \in bodies
  <2>1. d \in Decls /\ frames \in Seq(Frames)
    BY <1>2 DEF Types, TypeOK, Frames
  <2>2. Frame(d) \in Frames
    BY <2>1, EmptySeq DEF Frame, Frames
  <2>3. DOMAIN frames = 1 .. Len(frames) /\ Len(frames) \in Nat
        /\ DOMAIN frames' = 1 .. Len(frames) + 1
        /\ frames'[Len(frames) + 1] = Frame(d)
        /\ \A n \in 1 .. Len(frames) : frames'[n] = frames[n]
    BY <1>2, <2>1, <2>2, AppendProperties, LenProperties
  <2>4. QED
    BY <2>1, <2>3 DEF StackStep, Frame
<1>3. QED
  BY <1>1, <1>2 DEF Elaborate, Raise

LEMMA StackSteps ==
    ASSUME Types, [Next]_vars
    PROVE  StackStep
<1>0. CASE frames' = frames \/ frames' = <<>>
  BY <1>0 DEF StackStep
<1>1. CASE frames # <<>> /\ frames' = NextInstruction
  <2>1. DOMAIN frames = 1 .. Len(frames) /\ DOMAIN NextInstruction = 1 .. Len(frames)
    BY <1>1, TopOfStack, LenProperties DEF Types, TypeOK
  <2>2. \A n \in 1 .. Len(frames) : NextInstruction[n].of = frames[n].of
                                 /\ NextInstruction[n].steps = frames[n].steps
    <3>1. TAKE n \in 1 .. Len(frames)
    <3>2. CASE n = Len(frames)
      <4>1. NextInstruction[n] = [Top EXCEPT !.next = @ + 1] /\ Top \in Frames
            /\ Top = frames[n]
        BY <1>1, <3>2, TopOfStack DEF Types, Top, Last
      <4>2. QED
        BY <4>1 DEF Frames
    <3>3. CASE n # Len(frames)
      BY <1>1, <3>3, TopOfStack DEF Types
    <3>4. QED
      BY <3>2, <3>3
  <2>3. QED
    BY <1>1, <2>1, <2>2 DEF StackStep
<1>2. CASE Running /\ Len(frames) # 1 /\ frames' = WithoutTop
  <2>1. Len(frames) \in Nat \ {0} /\ DOMAIN frames = 1 .. Len(frames)
    BY <1>2, TopOfStack, LenProperties DEF Types, TypeOK, Running
  <2>2. /\ DOMAIN WithoutTop = 1 .. Len(frames) - 1
        /\ \A n \in 1 .. Len(frames) - 1 :
              WithoutTop[n].of = frames[n].of /\ WithoutTop[n].steps = frames[n].steps
    BY <1>2, StackShortened, LenProperties DEF Types
  <2>3. QED
    BY <1>2, <2>1, <2>2 DEF StackStep
<1>3. CASE Use
  <2>1. ASSUME NEW e \in Decls, Usable(e), frames' = WithStep(e)
        PROVE  StackStep
    <3>1. /\ Running /\ TypeOK /\ frames' = WithStep(e) /\ Step(e, Instruction) \in Steps
      BY <1>3, <2>1, StepTyped DEF Use, Types
    <3>2. WithStep(e) \in Seq(Frames) /\ Len(WithStep(e)) = Len(frames)
      BY <3>1, StackExtended
    <3>3. DOMAIN frames = 1 .. Len(frames) /\ DOMAIN WithStep(e) = 1 .. Len(frames)
      BY <3>2, LenProperties DEF Types, TypeOK
    <3>4. SUFFICES ASSUME NEW n \in 1 .. Len(frames)
                   PROVE  \/ frames'[n] = frames[n]
                          \/ /\ n = Len(frames) /\ frames'[n].of = Top.of
                             /\ frames'[n].steps = Append(Top.steps, Step(e, Instruction))
      BY <2>1, <3>1, <3>3 DEF StackStep
    <3>5. WithStep(e)[n] = IF n = Len(frames)
                           THEN [of |-> Top.of, next |-> Top.next + 1,
                                 steps |-> Append(Top.steps, Step(e, Instruction))]
                           ELSE frames[n]
      BY <3>1, StackExtended
    <3>6. QED
      BY <3>1, <3>5
  <2>2. CASE Raise("AuthoringSemanticError")
    BY <1>0, <2>2 DEF Raise
  <2>3. QED
    BY <1>3, <2>1, <2>2 DEF Use
<1>4. CASE UNCHANGED vars
  BY <1>0, <1>4 DEF vars
<1>5. ASSUME NEW s, ImportShard(s) PROVE StackStep
  BY <1>0, <1>5 DEF ImportShard, StartImport
<1>6. ASSUME NEW d \in Decls, ReadImplementation(d) PROVE StackStep
  BY <1>0, <1>6 DEF ReadImplementation, Fail, StackStep, Frame
<1>7. ASSUME NEW t, VerifyAll(t) \/ StartEmission(t) \/ Check(t) PROVE StackStep
  BY <1>0, <1>7 DEF VerifyAll, StartEmission, Check, Fail
<1>8. CASE Declare \/ Prove \/ ImportEnds
  BY <1>0, <1>1, <1>8 DEF Declare, Prove, ImportEnds, StatementDone, Raise
<1>9. CASE ImportLocally \/ ReadInBody
  <2>1. frames # <<>>
    BY <1>9 DEF ImportLocally, ReadInBody, Running
  <2>2. QED
    BY <1>0, <1>1, <1>9, <2>1, ElaborateStack
    DEF ImportLocally, ReadInBody, GoOn, StartImport
<1>10. CASE Qed \/ BodyEnds
  BY <1>0, <1>2, <1>10 DEF Qed, BodyEnds, Raise
<1>11. CASE DictionaryChanged \/ VerifyNext \/ VerifyReturns \/ EmitNext \/ EmissionEnds
  BY <1>0, <1>11, ElaborateStack
  DEF DictionaryChanged, VerifyNext, VerifyReturns, EmitNext, EmissionEnds, Raise
<1>12. CASE Next
  BY <1>3, <1>5, <1>6, <1>7, <1>8, <1>9, <1>10, <1>11, <1>12 DEF Next, Work
<1>13. QED
  BY <1>4, <1>12

\* One step of the system leaves standing what stands.
LEMMA StandsLater ==
    ASSUME Types, IdsUnique, ProofsStand, [Next]_vars
    PROVE  ProofsStand'
<1>1. StackStep
  BY StackSteps
<1>2. frames \in Seq(Frames) /\ DOMAIN frames = 1 .. Len(frames)
  BY LenProperties DEF Types, TypeOK, Frames
<1>3. ASSUME NEW n \in DOMAIN frames', NEW d, NEW steps,
             d = frames'[n].of, steps = frames'[n].steps
      PROVE  Stands(d, steps)'
  <2>1. CASE n \in DOMAIN frames /\ frames'[n].of = frames[n].of
               /\ frames'[n].steps = frames[n].steps
    <3>1. frames[n] \in Frames
      BY <1>2, <2>1, ElementOfSeq
    <3>2. d \in Decls
      BY <1>3, <2>1, <3>1 DEF Frames
    <3>3. Stands(d, steps)
      BY <1>3, <2>1 DEF ProofsStand
    <3>4. QED
      BY <3>2, <3>3, StandsOn
  <2>2. CASE frames'[n].of \in Decls /\ frames'[n].steps = <<>>
    <3>1. d \in Decls /\ Stands(d, steps)
      BY <1>3, <2>2, StandsEmpty
    <3>2. QED
      BY <3>1, StandsOn
  <2>3. ASSUME NEW e \in Decls, Running, n = Len(frames), Usable(e),
               Step(e, Instruction) \in Steps, frames'[n].of = Top.of,
               frames'[n].steps = Append(Top.steps, Step(e, Instruction))
        PROVE  Stands(d, steps)'
    <3>1. frames # <<>> /\ TypeOK
      BY <2>3 DEF Types, Running
    <3>2. Top \in Frames /\ Len(frames) \in DOMAIN frames /\ Top = frames[Len(frames)]
      BY <1>2, <3>1, TopOfStack DEF Top, Last
    <3>3. d = Top.of /\ d \in Decls /\ Top.steps \in Seq(Steps)
      BY <1>3, <2>3, <3>2 DEF Frames
    <3>4. Stands(d, Top.steps)
      BY <3>2, <3>3 DEF ProofsStand
    <3>5. Stands(d, steps)
      <4>1. Resolves(Home[d], Instruction, e) /\ Applies(d, Top.steps, e, Instruction)
        BY <2>3, <3>3 DEF Usable
      <4>2. Stands(d, Append(Top.steps, Step(e, Instruction)))
        BY <2>3, <3>3, <3>4, <4>1, StandsWithStep
      <4>3. QED
        BY <1>3, <2>3, <4>2
    <3>6. QED
      BY <3>3, <3>5, StandsOn
  <2>4. QED
    BY <1>1, <2>1, <2>2, <2>3 DEF StackStep
<1>4. ASSUME NEW d \in Decls, NEW steps, steps = impl'[d], steps # NoProof
      PROVE  Stands(d, steps)' /\ \E root \in Positions(d, steps) : Concludes(d, steps, root)
  <2>1. Stands(d, steps) /\ \E root \in Positions(d, steps) : Concludes(d, steps, root)
    <3>1. CASE impl'[d] = impl[d]
      BY <1>4, <3>1 DEF ProofsStand
    <3>2. CASE impl'[d] # impl[d]
      <4>1. Qed
        BY <3>2, QuietOrGrows DEF Quiet, Declare, StatementDone, Raise
      <4>2. /\ impl' = [impl EXCEPT ![Top.of] = Top.steps]
            /\ Running /\ Concludes(Top.of, Top.steps, Instruction.root)
        BY <3>2, <4>1 DEF Qed, Raise
      <4>3. frames # <<>> /\ TypeOK
        BY <4>2 DEF Types, Running
      <4>4. Top \in Frames /\ Len(frames) \in DOMAIN frames /\ Top = frames[Len(frames)]
        BY <1>2, <4>3, TopOfStack DEF Top, Last
      <4>5. d = Top.of /\ steps = Top.steps
        BY <1>4, <3>2, <4>2, <4>3, <4>4 DEF TypeOK, Frames
      <4>6. Stands(d, steps)
        BY <4>4, <4>5 DEF ProofsStand
      <4>7. QED
        BY <4>2, <4>5, <4>6 DEF Concludes
    <3>3. QED
      BY <3>1, <3>2
  <2>2. QED
    BY <1>4, <2>1, StandsOn
<1>5. (\A n \in DOMAIN frames : Stands(frames[n].of, frames[n].steps))'
  BY <1>3
<1>6. (\A d \in Decls : impl[d] # NoProof =>
          /\ Stands(d, impl[d])
          /\ \E root \in Positions(d, impl[d]) : Concludes(d, impl[d], root))'
  BY <1>4
<1>7. QED
  BY <1>5, <1>6 DEF ProofsStand

\* A proof that was built against the registry of its day stands in the registry
\* of any later one, whatever identifiers assertions are given and whatever shards were
\* imported in between: each of its steps is what an assertion in view makes it, and
\* its identifier stands for this assertion unless a theory that does not see the
\* assertion has taken the identifier too (theory.py).
THEOREM ProofsStandForever == Spec => []ProofsStand
<1> DEFINE Inv == Types /\ IdsUnique /\ ProofsStand
<1>1. Init => Inv
  BY InitTypes, InitIds DEF Init, ProofsStand
<1>2. Inv /\ [Next]_vars => Inv'
  BY NextTypes, IdsUniqueLater, StandsLater
<1>3. Inv => ProofsStand
  OBVIOUS
<1> HIDE DEF Inv
<1>4. QED
  BY <1>1, <1>2, <1>3, PTL DEF Spec

-----------------------------------------------------------------------------
(* What passes the verifier is true *)

\* Each line of an emitted proof applies what it cites.
Replayed(d, lines) ==
    \A n \in DOMAIN lines :
        /\ Applies(d, SubSeq(lines, 1, n - 1), lines[n].cites, lines[n])
        /\ lines[n].result = lines[n].subst[Conclusion[lines[n].cites]]

\* A proof is emitted with the results, the premises and the substitutions that its
\* steps have, so that it applies what the replay applied.
LEMMA LoweredReplayed ==
    ASSUME TypeOK, call.catalog \in SUBSET Decls, NEW d \in Decls, impl[d] # NoProof,
           Replayable(d)
    PROVE  /\ Replayed(d, Lowered(impl[d]))
           /\ Positions(d, Lowered(impl[d])) = Positions(d, impl[d])
           /\ \A root \in Positions(d, impl[d]) :
                 Concludes(d, impl[d], root) => Concludes(d, Lowered(impl[d]), root)
<1> DEFINE steps == impl[d]
           lines == Lowered(steps)
           prems == Len(Premises[d])
<1>1. /\ steps \in Seq(Steps) /\ Len(steps) \in Nat /\ DOMAIN steps = 1 .. Len(steps)
      /\ prems \in Nat
  BY LogicAssumption, LenProperties DEF TypeOK
<1>2. /\ lines \in Seq(Lines) /\ Len(lines) = Len(steps) /\ DOMAIN lines = DOMAIN steps
      /\ \A n \in DOMAIN steps : Justifies(lines[n].cites, d, steps, n)
  BY LoweredTyped
<1>3. \A n \in DOMAIN steps : /\ lines[n].premises = steps[n].premises
                              /\ lines[n].subst = steps[n].subst
                              /\ lines[n].result = steps[n].result
  BY DEF Lowered
<1>4. Positions(d, lines) = Positions(d, steps) /\ Positions(d, steps) = 1 .. prems + Len(steps)
  BY <1>2 DEF Positions
<1> HIDE DEF steps, lines, prems
<1>5. \A k \in 1 .. prems + Len(steps) : ResultAt(d, lines, k) = ResultAt(d, steps, k)
  BY <1>1, <1>3 DEF ResultAt, prems
<1>6. ASSUME NEW n \in DOMAIN steps
      PROVE  /\ Applies(d, SubSeq(lines, 1, n - 1), lines[n].cites, lines[n])
             /\ lines[n].result = lines[n].subst[Conclusion[lines[n].cites]]
  <2> DEFINE early == SubSeq(steps, 1, n - 1)
             before == SubSeq(lines, 1, n - 1)
             e == lines[n].cites
  <2>1. n - 1 \in Nat /\ n - 1 <= Len(steps)
    BY <1>1
  <2>2. Len(early) = n - 1 /\ \A m \in 1 .. n - 1 : early[m] = steps[m]
    BY <1>1, <2>1, PrefixProperties
  <2>3. Len(before) = n - 1 /\ \A m \in 1 .. n - 1 : before[m] = lines[m]
    BY <1>2, <2>1, PrefixProperties
  <2>4. /\ Applies(d, early, e, steps[n]) /\ steps[n].result = steps[n].subst[Conclusion[e]]
    BY <1>2 DEF Justifies
  <2> HIDE DEF early, before, e
  <2>5. Positions(d, before) = Positions(d, early) /\ Positions(d, early) = 1 .. prems + n - 1
    BY <1>1, <2>1, <2>2, <2>3 DEF Positions, prems
  <2>6. \A k \in 1 .. prems + n - 1 : ResultAt(d, before, k) = ResultAt(d, early, k)
    <3>1. TAKE k \in 1 .. prems + n - 1
    <3>2. CASE k <= prems
      BY <3>2 DEF ResultAt, prems
    <3>3. CASE k > prems
      <4>1. k - prems \in 1 .. n - 1 /\ k - prems \in DOMAIN steps
        BY <1>1, <2>1, <3>3
      <4>2. before[k - prems] = lines[k - prems] /\ early[k - prems] = steps[k - prems]
        BY <2>2, <2>3, <4>1
      <4>3. QED
        BY <1>1, <1>3, <3>3, <4>1, <4>2 DEF ResultAt, prems
    <3>4. QED
      BY <1>1, <3>2, <3>3
  <2>7. /\ IdOf[e] # IdOf[d] /\ steps[n].subst \in Allowed[d][e]
        /\ \A m \in DOMAIN steps[n].premises : steps[n].premises[m] \in 1 .. prems + n - 1
        /\ [m \in DOMAIN steps[n].premises |-> ResultAt(d, early, steps[n].premises[m])]
              = Instances(steps[n].subst, Premises[e])
    BY <2>4, <2>5 DEF Applies
  <2>8. [m \in DOMAIN steps[n].premises |-> ResultAt(d, before, steps[n].premises[m])]
           = [m \in DOMAIN steps[n].premises |-> ResultAt(d, early, steps[n].premises[m])]
    BY <2>6, <2>7
  <2>9. /\ lines[n].premises = steps[n].premises /\ lines[n].subst = steps[n].subst
        /\ lines[n].result = steps[n].result
    BY <1>3
  <2>10. Applies(d, before, e, lines[n])
    BY <2>5, <2>7, <2>8, <2>9 DEF Applies
  <2>11. QED
    BY <2>4, <2>9, <2>10 DEF before, e
<1>7. Replayed(d, lines)
  BY <1>2, <1>6 DEF Replayed
<1>8. ASSUME NEW root \in Positions(d, steps), Concludes(d, steps, root)
      PROVE  Concludes(d, lines, root)
  <2>1. ResultAt(d, lines, root) = Conclusion[d] /\ root \in Positions(d, lines)
    BY <1>4, <1>5, <1>8 DEF Concludes
  <2>2. ASSUME NEW n \in DOMAIN lines
        PROVE  \/ Len(Premises[d]) + n = root
               \/ \E m \in n + 1 .. Len(lines) :
                     Len(Premises[d]) + n \in ToSet(lines[m].premises)
    <3>1. \/ Len(Premises[d]) + n = root
          \/ \E m \in n + 1 .. Len(steps) : Len(Premises[d]) + n \in ToSet(steps[m].premises)
      BY <1>2, <1>8 DEF Concludes
    <3>2. \A m \in n + 1 .. Len(steps) : lines[m].premises = steps[m].premises
      BY <1>1, <1>2, <1>3
    <3>3. QED
      BY <1>2, <3>1, <3>2
  <2>3. QED
    BY <2>1, <2>2 DEF Concludes
<1>9. QED
  BY <1>4, <1>7, <1>8 DEF steps, lines

\* What was emitted applies what it cites and ends with what the theorem says.
EmittedRight ==
    \A d \in Decls : emitted[d] # NoProof =>
        /\ Replayed(d, emitted[d])
        /\ \E root \in Positions(d, emitted[d]) : Concludes(d, emitted[d], root)

\* A set of judgments that has the premises of a theorem, and is closed under what
\* its proof cites, has the judgment at each position of the proof.
LEMMA PositionsReached ==
    ASSUME NEW d \in Decls, NEW steps \in Seq(Lines), Replayed(d, steps),
           NEW M, \A n \in DOMAIN steps : Holds(M, d, steps[n].cites),
           \A n \in DOMAIN Premises[d] : Premises[d][n] \in M
    PROVE  \A k \in Positions(d, steps) : ResultAt(d, steps, k) \in M
<1> DEFINE prems == Len(Premises[d])
           missed == {k \in Positions(d, steps) : ResultAt(d, steps, k) \notin M}
<1>1. /\ Premises[d] \in Seq(Judgments) /\ prems \in Nat /\ DOMAIN Premises[d] = 1 .. prems
      /\ Len(steps) \in Nat /\ DOMAIN steps = 1 .. Len(steps)
      /\ Positions(d, steps) = 1 .. prems + Len(steps)
  BY LogicAssumption, LenProperties DEF Positions
<1> HIDE DEF prems
<1>2. SUFFICES ASSUME missed # {} PROVE FALSE
  OBVIOUS
<1>3. missed \subseteq Nat
  BY <1>1
<1>4. PICK k \in missed : \A m \in missed : k <= m
  BY <1>2, <1>3, NatLeast
<1>5. k \in 1 .. prems + Len(steps) /\ ResultAt(d, steps, k) \notin M
  BY <1>1
<1>6. k > prems
  BY <1>1, <1>5 DEF ResultAt, prems
<1> DEFINE n == k - prems
           e == steps[n].cites
           u == steps[n].subst
           before == SubSeq(steps, 1, n - 1)
<1>7. n \in 1 .. Len(steps) /\ n - 1 \in Nat /\ n - 1 <= Len(steps)
  BY <1>1, <1>5, <1>6
<1>8. ResultAt(d, steps, k) = steps[n].result
  BY <1>1, <1>5, <1>6 DEF ResultAt, prems
<1>9. Applies(d, before, e, steps[n]) /\ steps[n].result = u[Conclusion[e]]
  BY <1>1, <1>7 DEF Replayed
<1>10. /\ Len(before) = n - 1
       /\ \A i \in 1 .. n - 1 : before[i] = steps[i]
  BY <1>7, PrefixProperties
<1>11. u \in Allowed[d][e] /\ Holds(M, d, e)
  BY <1>1, <1>7, <1>9 DEF Applies
<1> HIDE DEF n, before
<1>12. ASSUME NEW m \in DOMAIN Premises[e] PROVE u[Premises[e][m]] \in M
  <2> DEFINE p == steps[n].premises[m]
  <2>1. [i \in DOMAIN steps[n].premises |-> ResultAt(d, before, steps[n].premises[i])]
           = [i \in DOMAIN Premises[e] |-> u[Premises[e][i]]]
    BY <1>9 DEF Applies, Instances
  <2>2. m \in DOMAIN steps[n].premises /\ ResultAt(d, before, p) = u[Premises[e][m]]
    BY <1>12, <2>1
  <2>3. p \in 1 .. prems + n - 1
    BY <1>1, <1>7, <1>9, <1>10, <2>2 DEF Applies, Positions, prems
  <2>4. ResultAt(d, before, p) = ResultAt(d, steps, p)
    BY <1>1, <1>7, <1>10, <2>3 DEF ResultAt, prems
  <2>5. p \in Positions(d, steps) /\ p < k
    BY <1>1, <1>5, <1>7, <2>3 DEF n
  <2>6. ResultAt(d, steps, p) \in M
    BY <1>1, <1>4, <1>5, <2>5
  <2>7. QED
    BY <2>2, <2>4, <2>6
<1>13. u[Conclusion[e]] \in M
  BY <1>11, <1>12 DEF Holds
<1>14. QED
  BY <1>5, <1>8, <1>9, <1>13

\* A proof that was emitted is a derivation from what it cites.
LEMMA ProofDerives ==
    ASSUME NEW d \in Decls, NEW steps \in Seq(Lines), Replayed(d, steps),
           NEW root \in Positions(d, steps), Concludes(d, steps, root),
           NEW A, \A n \in DOMAIN steps : steps[n].cites \in A
    PROVE  Derives(A, d)
<1> SUFFICES ASSUME NEW M \in SUBSET Judgments,
                    \A n \in DOMAIN Premises[d] : Premises[d][n] \in M,
                    \A e \in A : Holds(M, d, e)
             PROVE  Conclusion[d] \in M
  BY DEF Derives
<1>1. ResultAt(d, steps, root) \in M
  BY PositionsReached
<1>2. QED
  BY <1>1 DEF Concludes

HasProof(d) == KindOf[d] = "theorem" => emitted[d] # NoProof

\* Every theorem that was emitted, or that the emitter has passed, has a proof.
Proved ==
    /\ \A t \in Theories : \A n \in DOMAIN published[t] : HasProof(published[t][n])
    /\ call.op = "emit" =>
          \A n \in DOMAIN call.sequence : n < call.next => HasProof(call.sequence[n])

\* What a step does to the texts: it emits one that is complete, or passes one
\* more assertion, or neither.
LEMMA TextStep ==
    ASSUME [Next]_vars
    PROVE  \/ UNCHANGED <<published, checked>>
           \/ EmissionEnds
           \/ \E t \in Theories : Check(t)
<1>1. CASE Next
  <2>1. ASSUME NEW t, VerifyAll(t) \/ StartEmission(t) PROVE UNCHANGED <<published, checked>>
    BY <2>1 DEF VerifyAll, StartEmission, Fail
  <2>2. CASE Declare \/ Prove \/ ImportEnds
    BY <2>2 DEF Declare, Prove, ImportEnds, StatementDone, Raise
  <2>3. CASE ImportLocally \/ ReadInBody \/ Use \/ Qed \/ BodyEnds
    BY <2>3 DEF ImportLocally, ReadInBody, Use, Qed, BodyEnds, GoOn, StartImport, Elaborate, Raise
  <2>4. CASE DictionaryChanged \/ VerifyNext \/ VerifyReturns \/ EmitNext
    BY <2>4 DEF DictionaryChanged, VerifyNext, VerifyReturns, EmitNext, Elaborate, Raise
  <2>5. ASSUME NEW s, ImportShard(s) PROVE UNCHANGED <<published, checked>>
    BY <2>5 DEF ImportShard, StartImport
  <2>6. ASSUME NEW d, ReadImplementation(d) PROVE UNCHANGED <<published, checked>>
    BY <2>6 DEF ReadImplementation, Fail
  <2>7. QED
    BY <1>1, <2>1, <2>2, <2>3, <2>4, <2>5, <2>6 DEF Next, Work
<1>2. CASE UNCHANGED vars
  BY <1>2 DEF vars
<1>3. QED
  BY <1>1, <1>2

\* What a step does to an emission that is going on afterwards.
LEMMA EmissionStep ==
    ASSUME [Next]_vars, Types
    PROVE  \/ call' = call
           \/ call'.op # "emit"
           \/ call'.next = 1
           \/ /\ call.op = "emit" /\ call' = [call EXCEPT !.next = @ + 1]
              /\ KindOf[call.sequence[call.next]] = "theorem" =>
                    emitted'[call.sequence[call.next]] # NoProof
<1>1. CASE UNCHANGED vars
  BY <1>1 DEF vars
<1>2. ASSUME NEW error, Raise(error) PROVE call'.op # "emit"
  <2>1. CASE call.op = "verify" /\ error = "AuthoringSemanticError"
    <3>1. call' = Counted(call) /\ DOMAIN call = {"op", "of", "next", "size", "entries"}
      BY <1>2, <2>1 DEF Raise, Types, CallOK
    <3>2. QED
      BY <2>1, <3>1 DEF Counted
  <2>2. QED
    BY <1>2, <2>1 DEF Raise, NoCall
<1>3. ASSUME NEW d, Elaborate(d) PROVE call' = call \/ call'.op # "emit"
  BY <1>2, <1>3 DEF Elaborate
<1>4. ASSUME Declare \/ Prove \/ ImportEnds PROVE call' = call \/ call'.op # "emit"
  <2>1. CASE Declare
    BY <1>2, <2>1 DEF Declare, StatementDone
  <2>2. CASE Prove
    BY <1>2, <2>2 DEF Prove, StatementDone
  <2>3. CASE ImportEnds
    BY <2>3 DEF ImportEnds, Returned, NoCall
  <2>4. QED
    BY <1>4, <2>1, <2>2, <2>3
<1>5. CASE ImportLocally \/ ReadInBody \/ Use \/ Qed \/ BodyEnds
  BY <1>2, <1>3, <1>5 DEF ImportLocally, ReadInBody, Use, Qed, BodyEnds, GoOn, StartImport,
                           Returned, NoCall
<1>6. CASE DictionaryChanged \/ VerifyReturns \/ EmissionEnds
  BY <1>2, <1>6 DEF DictionaryChanged, VerifyReturns, EmissionEnds, Returned, NoCall
<1>7. CASE VerifyNext
  <2> DEFINE d == Listed(call.of)[call.next]
  <2>1. CASE Elaborate(d)
    BY <1>3, <2>1
  <2>2. CASE ~Elaborate(d)
    <3>1. /\ call' = [call EXCEPT !.next = @ + 1, !.entries = Append(@, Entry(d, TRUE))]
          /\ call.op = "verify" /\ DOMAIN call = {"op", "of", "next", "size", "entries"}
      BY <1>7, <2>2 DEF VerifyNext, Between, Types, CallOK
    <3>2. QED
      BY <3>1
  <2>3. QED
    BY <2>1, <2>2
<1>8. CASE EmitNext
  <2> DEFINE d == call.sequence[call.next]
  <2>1. CASE Elaborate(d) \/ Raise("AuthoringSemanticError")
    BY <1>2, <1>3, <2>1
  <2>2. CASE ~(Elaborate(d) \/ Raise("AuthoringSemanticError"))
    <3>1. /\ call.op = "emit" /\ call' = [call EXCEPT !.next = @ + 1]
          /\ KindOf[d] # "theorem" \/ EmitsProof(d)
          /\ call.next <= Len(call.sequence)
      BY <1>8, <2>2 DEF EmitNext, Between, EmitsProof
    <3>2. call \in Emissions
      BY <3>1 DEF Types, CallOK
    <3>3. d \in Decls
      <4>1. call.sequence \in Seq(Decls) /\ call.next \in 1 .. Len(call.sequence)
        BY <3>1, <3>2, LenProperties DEF Emissions
      <4>2. QED
        BY <4>1, ElementOfSeq
    <3>4. ASSUME KindOf[d] = "theorem" PROVE emitted'[d] # NoProof
      <4>1. Lowered(impl[d]) # NoProof
        BY <3>1, <3>2, <3>3, <3>4, LoweredTyped DEF Emissions, EmitsProof, Types
      <4>2. QED
        BY <3>1, <3>3, <3>4, <4>1 DEF EmitsProof, Types, TypeOK
    <3>5. QED
      BY <3>1, <3>4
  <2>3. QED
    BY <2>1, <2>2
<1>9. ASSUME NEW t, VerifyAll(t) \/ StartEmission(t) \/ Check(t)
      PROVE  call' = call \/ call'.op # "emit" \/ call'.next = 1
  BY <1>9 DEF VerifyAll, StartEmission, Check, Fail
<1>10. ASSUME NEW s, ImportShard(s) PROVE call'.op # "emit"
  BY <1>10 DEF ImportShard
<1>11. ASSUME NEW d, ReadImplementation(d) PROVE call' = call \/ call'.op # "emit"
  BY <1>11 DEF ReadImplementation, Fail
<1>12. CASE Next
  BY <1>4, <1>5, <1>6, <1>7, <1>8, <1>9, <1>10, <1>11, <1>12 DEF Next, Work
<1>13. QED
  BY <1>1, <1>12

\* What a step of the system does to the proofs that were emitted: it leaves them, or
\* emits one that was found in order.
LEMMA EmittedStep ==
    ASSUME Types, [Next]_vars
    PROVE  \/ emitted' = emitted
           \/ \E d \in Decls : EmitsProof(d) /\ call.catalog \in SUBSET Decls
<1>1. CASE UNCHANGED vars
  BY <1>1 DEF vars
<1>2. ASSUME NEW s, ImportShard(s) PROVE emitted' = emitted
  BY <1>2 DEF ImportShard, StartImport
<1>3. ASSUME NEW d, ReadImplementation(d) PROVE emitted' = emitted
  BY <1>3 DEF ReadImplementation, Fail
<1>4. ASSUME NEW t, VerifyAll(t) \/ StartEmission(t) \/ Check(t) PROVE emitted' = emitted
  BY <1>4 DEF VerifyAll, StartEmission, Check, Fail
<1>5. CASE Declare \/ Prove \/ ImportEnds
  BY <1>5 DEF Declare, Prove, ImportEnds, StatementDone, Raise
<1>6. CASE ImportLocally \/ ReadInBody \/ Use \/ Qed \/ BodyEnds
  BY <1>6 DEF ImportLocally, ReadInBody, Use, Qed, BodyEnds, GoOn, StartImport, Elaborate, Raise
<1>7. CASE DictionaryChanged \/ VerifyNext \/ VerifyReturns \/ EmissionEnds
  BY <1>7 DEF DictionaryChanged, VerifyNext, VerifyReturns, EmissionEnds, Elaborate, Raise
<1>8. CASE EmitNext
  <2> DEFINE d == call.sequence[call.next]
  <2>1. emitted' = emitted \/ EmitsProof(d)
    BY <1>8 DEF EmitNext, Elaborate, Raise, EmitsProof
  <2>2. call \in Emissions /\ call.next <= Len(call.sequence)
    BY <1>8 DEF EmitNext, Between, Types, CallOK
  <2>3. call.sequence \in Seq(Decls) /\ call.next \in 1 .. Len(call.sequence)
        /\ call.catalog \in SUBSET Decls
    BY <2>2, LenProperties DEF Emissions
  <2>4. d \in Decls
    BY <2>3, ElementOfSeq
  <2> HIDE DEF d
  <2>5. QED
    BY <2>1, <2>3, <2>4
<1>9. CASE Next
  BY <1>2, <1>3, <1>4, <1>5, <1>6, <1>7, <1>8, <1>9 DEF Next, Work
<1>10. QED
  BY <1>1, <1>9

\* Emitted proofs stay right.
LEMMA EmittedRightLater ==
    ASSUME Types, ProofsStand, EmittedRight, [Next]_vars
    PROVE  EmittedRight'
<1>1. CASE emitted' = emitted
  BY <1>1 DEF EmittedRight
<1>2. ASSUME NEW d \in Decls, EmitsProof(d), call.catalog \in SUBSET Decls
      PROVE  EmittedRight'
  <2>1. /\ Replayed(d, Lowered(impl[d]))
        /\ Positions(d, Lowered(impl[d])) = Positions(d, impl[d])
        /\ \A root \in Positions(d, impl[d]) :
              Concludes(d, impl[d], root) => Concludes(d, Lowered(impl[d]), root)
    BY <1>2, LoweredReplayed DEF EmitsProof, Types
  <2>2. PICK root \in Positions(d, impl[d]) : Concludes(d, impl[d], root)
    BY <1>2 DEF ProofsStand, EmitsProof
  <2>3. root \in Positions(d, Lowered(impl[d])) /\ Concludes(d, Lowered(impl[d]), root)
    BY <2>1, <2>2
  <2>4. ASSUME NEW e \in Decls, NEW lines, lines = emitted'[e], lines # NoProof
        PROVE  Replayed(e, lines) /\ \E k \in Positions(e, lines) : Concludes(e, lines, k)
    <3>1. CASE e = d
      <4>1. lines = Lowered(impl[d])
        BY <1>2, <2>4, <3>1 DEF EmitsProof, Types, TypeOK
      <4>2. QED
        BY <2>1, <2>3, <3>1, <4>1
    <3>2. CASE e # d
      <4>1. lines = emitted[e]
        BY <1>2, <2>4, <3>2 DEF EmitsProof, Types, TypeOK
      <4>2. QED
        BY <2>4, <4>1 DEF EmittedRight
    <3>3. QED
      BY <3>1, <3>2
  <2>5. QED
    BY <2>4 DEF EmittedRight
<1>3. QED
  BY <1>1, <1>2, EmittedStep

\* An emitted proof is not taken back.
LEMMA EmittedGrows ==
    ASSUME Types, [Next]_vars, NEW d \in Decls, emitted[d] # NoProof
    PROVE  emitted'[d] # NoProof
<1>1. CASE emitted' = emitted
  BY <1>1
<1>2. ASSUME NEW e \in Decls, EmitsProof(e), call.catalog \in SUBSET Decls
      PROVE  emitted'[d] # NoProof
  <2>1. Lowered(impl[e]) # NoProof
    BY <1>2, LoweredTyped DEF EmitsProof, Types
  <2>2. QED
    BY <1>2, <2>1 DEF EmitsProof, Types, TypeOK
<1>3. QED
  BY <1>1, <1>2, EmittedStep

LEMMA ProvedLater ==
    ASSUME Types, Proved, [Next]_vars
    PROVE  Proved'
<1>1. Types'
  BY NextTypes
<1>2. \A d \in Decls : HasProof(d) => HasProof(d)'
  BY EmittedGrows DEF HasProof
<1>3. ASSUME NEW t \in Theories, NEW n \in DOMAIN published'[t], NEW d, d = published'[t][n]
      PROVE  HasProof(d)'
  <2>1. d \in Decls
    <3>1. published'[t] \in Seq(Decls)
      BY <1>1 DEF Types, TypeOK
    <3>2. QED
      BY <1>3, <3>1, LenProperties, ElementOfSeq
  <2>2. HasProof(d)
    <3>1. CASE published' = published
      BY <1>3, <3>1 DEF Proved
    <3>2. CASE EmissionEnds
      <4>1. /\ call \in Emissions /\ call.op = "emit" /\ call.next > Len(call.sequence)
            /\ published' = [published EXCEPT ![call.of] = call.sequence]
        BY <3>2 DEF EmissionEnds, Between, Types, CallOK
      <4>2. CASE t = call.of
        <5>1. published'[t] = call.sequence /\ call.sequence \in Seq(Decls)
          BY <4>1, <4>2 DEF Emissions, Types, TypeOK
        <5>2. n \in DOMAIN call.sequence /\ n < call.next
          BY <4>1, <5>1, LenProperties DEF Emissions
        <5>3. QED
          BY <1>3, <4>1, <5>1, <5>2 DEF Proved
      <4>3. CASE t # call.of
        BY <1>3, <4>1, <4>3 DEF Proved, Types, TypeOK
      <4>4. QED
        BY <4>2, <4>3
    <3>3. QED
      BY <3>1, <3>2, TextStep DEF Check
  <2>3. QED
    BY <1>2, <2>1, <2>2
<1>4. ASSUME call'.op = "emit", NEW n \in DOMAIN call'.sequence, n < call'.next,
             NEW d, d = call'.sequence[n]
      PROVE  HasProof(d)'
  <2>1. call' \in Emissions
    BY <1>1, <1>4 DEF Types, CallOK
  <2>2. call'.sequence \in Seq(Decls) /\ n \in Nat \ {0} /\ n \in 1 .. Len(call'.sequence)
    BY <1>4, <2>1, LenProperties DEF Emissions
  <2>3. d \in Decls
    BY <1>4, <2>2, ElementOfSeq
  <2>4. HasProof(d)'
    <3>1. CASE call' = call
      BY <1>2, <1>4, <2>3, <3>1 DEF Proved
    <3>2. CASE call'.next = 1
      BY <1>4, <2>2, <3>2
    <3>3. CASE /\ call.op = "emit" /\ call' = [call EXCEPT !.next = @ + 1]
               /\ KindOf[call.sequence[call.next]] = "theorem" =>
                     emitted'[call.sequence[call.next]] # NoProof
      <4>1. call \in Emissions
        BY <3>3 DEF Types, CallOK
      <4>2. call'.sequence = call.sequence /\ call'.next = call.next + 1 /\ call.next \in Nat
        BY <3>3, <4>1 DEF Emissions
      <4>3. CASE n < call.next
        BY <1>2, <1>4, <2>3, <3>3, <4>2, <4>3 DEF Proved
      <4>4. CASE n = call.next
        <5>1. d = call.sequence[call.next]
          BY <1>4, <4>2, <4>4
        <5>2. QED
          BY <3>3, <5>1 DEF HasProof
      <4>5. QED
        BY <1>4, <2>2, <4>2, <4>3, <4>4
    <3>4. QED
      BY <1>4, <3>1, <3>2, <3>3, EmissionStep
  <2>5. QED
    BY <2>4
<1>5. QED
  BY <1>3, <1>4 DEF Proved, HasProof

\* Assertion d passes; if it is a theorem then what its proof cites has passed.
Passes(d) ==
    /\ Passed' = Passed \cup {d}
    /\ \E t \in Theories : d \in ToSet(published[t])
    /\ KindOf[d] = "theorem" => \A n \in DOMAIN emitted[d] : emitted[d][n].cites \in Passed

\* What passed stays passed, and one assertion more can pass at a time.
LEMMA PassedStep ==
    ASSUME Types, [Next]_vars
    PROVE  Passed' = Passed \/ \E d \in Decls : Passes(d)
<1>1. CASE UNCHANGED <<published, checked>>
  BY <1>1 DEF Passed, PassedIn
<1>2. CASE EmissionEnds
  <2>1. /\ call \in Emissions /\ published[call.of] = <<>> /\ checked' = checked
        /\ published' = [published EXCEPT ![call.of] = call.sequence]
    BY <1>2 DEF EmissionEnds, Between, Types, CallOK
  <2>2. call.of \in Theories
    BY <2>1 DEF Emissions
  <2>3. checked[call.of] = 0
    <3>1. checked[call.of] \in Nat /\ checked[call.of] <= Len(published[call.of])
      BY <2>2 DEF Types, TypeOK
    <3>2. QED
      BY <2>1, <3>1, EmptySeq
  <2>4. \A t \in Theories : PassedIn(t)' = PassedIn(t)
    <3>1. TAKE t \in Theories
    <3>2. CASE t = call.of
      BY <2>1, <2>3, <3>2 DEF PassedIn
    <3>3. CASE t # call.of
      BY <2>1, <2>2, <3>3 DEF PassedIn, Types, TypeOK
    <3>4. QED
      BY <3>2, <3>3
  <2>5. QED
    BY <2>4 DEF Passed
<1>3. ASSUME NEW t \in Theories, Check(t)
      PROVE  \E d \in Decls : Passes(d)
  <2>1. PICK k : k = checked[t] + 1
    OBVIOUS
  <2>2. PICK d : d = published[t][k]
    OBVIOUS
  <2>3. /\ published[t] \in Seq(Decls) /\ checked[t] \in Nat
        /\ checked[t] < Len(published[t]) /\ published' = published
        /\ checked' = [checked EXCEPT ![t] = k] /\ checked \in [Theories -> Nat]
    BY <1>3, <2>1 DEF Check, Types, TypeOK
  <2>4. k \in DOMAIN published[t] /\ k \in 1 .. Len(published[t])
    BY <2>1, <2>3, LenProperties
  <2>5. d \in Decls /\ d \in ToSet(published[t])
    BY <2>2, <2>3, <2>4, ElementOfSeq DEF ToSet
  <2>6. PassedIn(t)' = PassedIn(t) \cup {d}
    <3>1. 1 .. k = 1 .. checked[t] \cup {k}
      BY <2>1, <2>3
    <3>2. PassedIn(t)' = {published[t][n] : n \in 1 .. k}
      BY <2>3 DEF PassedIn
    <3>3. QED
      BY <2>2, <3>1, <3>2 DEF PassedIn
  <2>7. \A u \in Theories \ {t} : PassedIn(u)' = PassedIn(u)
    BY <2>3 DEF PassedIn
  <2>8. Passed' = Passed \cup {d}
    <3>1. \A x : x \in Passed' <=> \E u \in Theories : x \in PassedIn(u)'
      BY DEF Passed
    <3>2. \A x : x \in Passed <=> \E u \in Theories : x \in PassedIn(u)
      BY DEF Passed
    <3>3. QED
      BY <2>6, <2>7, <3>1, <3>2
  <2>9. KindOf[d] = "theorem" => \A n \in DOMAIN emitted[d] : emitted[d][n].cites \in Known(t)
    BY <1>3, <2>1, <2>2 DEF Check
  <2>10. Known(t) \subseteq Passed
    <3>1. \A u \in ToSet(Upstream(t)) : u \in Theories
      <4>1. Chain[t] \in Seq(Theories) /\ Chain[t] # <<>>
        BY TheoryAssumption
      <4>2. Tail(Chain[t]) \in Seq(Theories)
        BY <4>1, HeadTailProperties
      <4>3. QED
        BY <4>2, LenProperties, ElementOfSeq DEF Upstream, ToSet
    <3>2. QED
      BY <3>1 DEF Known, Passed
  <2>11. QED
    BY <2>5, <2>8, <2>9, <2>10 DEF Passes
<1>4. QED
  BY <1>1, <1>2, <1>3, TextStep

\* A theorem passes only after all that it cites: a step of the verifier accepts an
\* assertion that is derived from what passed, and no other step does.
LEMMA StepAccepts ==
    ASSUME Types, EmittedRight, Proved, [Next]_vars
    PROVE  [Publication!Next]_Passed
<1>1. ASSUME NEW d \in Decls, Passes(d) PROVE Publication!Accept(d)
  <2>1. ASSUME KindOf[d] = "theorem" PROVE Derives(Passed, d)
    <3>1. emitted[d] # NoProof
      BY <1>1, <2>1 DEF Proved, HasProof, ToSet, Passes
    <3>2. emitted[d] \in Seq(Lines)
      BY <3>1 DEF Types, TypeOK
    <3>3. Replayed(d, emitted[d]) /\ \E root \in Positions(d, emitted[d]) : Concludes(d, emitted[d], root)
      BY <3>1 DEF EmittedRight
    <3>4. \A n \in DOMAIN emitted[d] : emitted[d][n].cites \in Passed
      BY <1>1, <2>1 DEF Passes
    <3>5. QED
      BY <3>2, <3>3, <3>4, ProofDerives
  <2>2. QED
    BY <1>1, <2>1 DEF Passes, Publication!Accept, Publication!Derives, Publication!Holds,
                      Derives, Holds
<1>2. QED
  BY <1>1, PassedStep DEF Publication!Next

\* What the verifier passes is a derivation: every theorem follows from what passed
\* before it, in whatever order bodies ran, whatever shards they imported and
\* whatever they cite (theory.py, metamath_emission.py).
THEOREM PublicationIsDerivation == Spec => ImplementsDerivation
<1> DEFINE Inv == Types /\ IdsUnique /\ ProofsStand /\ EmittedRight /\ Proved
<1>1. Init => Inv /\ Publication!Init
  <2> SUFFICES ASSUME Init PROVE Inv /\ Publication!Init
    OBVIOUS
  <2>1. Types /\ IdsUnique /\ ProofsStand /\ EmittedRight
    BY InitTypes, InitIds DEF Init, ProofsStand, EmittedRight
  <2>2. \A t \in Theories : published[t] = <<>> /\ checked[t] = 0 /\ DOMAIN <<>> = {}
    BY DEF Init
  <2>3. Proved
    BY <2>2 DEF Init, NoCall, Proved
  <2>4. Publication!Init
    BY <2>2 DEF Publication!Init, Passed, PassedIn
  <2>5. QED
    BY <2>1, <2>3, <2>4
<1>2. Inv /\ [Next]_vars => Inv' /\ [Publication!Next]_Passed
  BY NextTypes, IdsUniqueLater, StandsLater, EmittedRightLater, ProvedLater, StepAccepts
<1> HIDE DEF Inv
<1>3. QED
  BY <1>1, <1>2, PTL DEF Spec, ImplementsDerivation, Publication!Spec

\* What passed the verifier follows from the axioms and rules that passed it: in
\* each model of these every theorem is true.
THEOREM PublishedIsSound == Spec => []Sound
<1> DEFINE Inv == Passed \in SUBSET Decls /\ Sound
<1>1. Publication!Init => Inv
  BY DEF Publication!Init, Sound, Follow
<1>2. Inv /\ [Publication!Next]_Passed => Inv'
  <2> SUFFICES ASSUME Inv, [Publication!Next]_Passed PROVE Inv'
    OBVIOUS
  <2>1. PICK A : A = Passed
    OBVIOUS
  <2>2. CASE Passed' = A
    BY <2>1, <2>2 DEF Sound
  <2>3. ASSUME NEW d \in Decls, Publication!Accept(d) PROVE Inv'
    <3>1. /\ A \in SUBSET Decls /\ Follow(A) /\ Passed' = A \cup {d}
          /\ KindOf[d] = "theorem" => Derives(A, d)
      BY <2>1, <2>3 DEF Sound, Publication!Accept, Publication!Derives, Publication!Holds,
                        Derives, Holds
    <3>2. Follow(A \cup {d})
      BY <3>1, FollowWithOneMore
    <3>3. QED
      BY <3>1, <3>2 DEF Sound
  <2>4. QED
    BY <2>1, <2>2, <2>3 DEF Publication!Next
<1>3. Inv => Sound
  OBVIOUS
<1> HIDE DEF Inv
<1>4. QED
  BY <1>1, <1>2, <1>3, PublicationIsDerivation, PTL
  DEF ImplementsDerivation, Publication!Spec

-----------------------------------------------------------------------------
(* What verify_all reports *)

\* A theory with a declaration order registers nothing else.
InOrder == \A t \in Theories : DeclOrder[t] # <<>> => Registered(t) \subseteq ToSet(DeclOrder[t])

\* Bodies run under a call, and an import under a body or as the call.
Nesting ==
    /\ call.op \in {"none", "import"} => frames = <<>>
    /\ importing # NoImport => call.op # "none" /\ (frames # <<>> \/ call.op = "import")

\* The entry of the n-th assertion of the view.
EntryRight(t, n, entry) ==
    /\ entry.of = Listed(t)[n]
    /\ IF KindOf[entry.of] = "theorem" THEN entry.ok => impl[entry.of] # NoProof ELSE entry.ok

\* While verify_all runs, it has the right entries for the assertions it went over,
\* all of them among those that were registered when it was called; and only
\* theorems run bodies.
Reporting ==
    call.op = "verify" =>
        /\ call.of \in Theories
        /\ call.size \in Nat /\ call.size <= Len(handles[call.of])
        /\ DeclOrder[call.of] # <<>> => call.size = Len(DeclOrder[call.of])
        /\ call.next \in 1 .. call.size + 1
        /\ call.entries \in Seq([of : Decls, ok : BOOLEAN]) /\ Len(call.entries) = call.next - 1
        /\ \A n \in 1 .. call.next - 1 : EntryRight(call.of, n, call.entries[n])
        /\ frames # <<>> => call.next <= call.size /\ KindOf[Listed(call.of)[call.next]] = "theorem"

\* The view of a theory that is complete lists all that is registered.
LEMMA ListedIs ==
    ASSUME TypeOK, InOrder, NEW t \in Theories,
           DeclOrder[t] # <<>> => Len(DeclOrder[t]) <= Len(handles[t])
    PROVE  /\ Listed(t) \in Seq(Decls) /\ Len(Listed(t)) = Len(handles[t])
           /\ Len(handles[t]) \in Nat
           /\ DeclOrder[t] # <<>> => /\ Registered(t) = ToSet(DeclOrder[t])
                                     /\ Len(DeclOrder[t]) = Len(handles[t])
<1>1. handles[t] \in Seq(Decls) /\ Len(handles[t]) \in Nat /\ DOMAIN handles[t] = 1..Len(handles[t])
  BY LenProperties DEF TypeOK
<1>2. CASE DeclOrder[t] = <<>>
  BY <1>1, <1>2 DEF Listed
<1>3. CASE DeclOrder[t] # <<>>
  <2> DEFINE all == DeclOrder[t]
             S == {n \in DOMAIN all : all[n] \in Registered(t)}
  <2>1. all \in Seq(Decls) /\ Len(all) \in Nat /\ DOMAIN all = 1..Len(all)
    BY TheoryAssumption, LenProperties
  <2>2. Cardinality(Registered(t)) = Len(handles[t])
    <3>1. \A m, n \in DOMAIN handles[t] : Home[handles[t][n]] = t /\ (handles[t][m] = handles[t][n] => m = n)
      BY DEF TypeOK
    <3>2. \A m, n \in 1..Len(handles[t]) : handles[t][m] = handles[t][n] => m = n
      BY <1>1, <3>1
    <3>3. QED
      BY <1>1, <3>2, ElementsFinite DEF Registered
  <2>3. IsFiniteSet(ToSet(all)) /\ Cardinality(ToSet(all)) \in Nat /\ Cardinality(ToSet(all)) <= Len(all)
    BY <2>1, ElementsFinite
  <2>4. Registered(t) \subseteq ToSet(all) /\ Len(all) <= Len(handles[t])
    BY <1>3 DEF InOrder
  <2>5. Cardinality(Registered(t)) <= Cardinality(ToSet(all))
    BY <2>3, <2>4, FS_Subset
  <2>6. Registered(t) = ToSet(all) /\ Len(all) = Len(handles[t])
    <3>1. Cardinality(Registered(t)) = Cardinality(ToSet(all)) /\ Len(all) = Len(handles[t])
      BY <1>1, <2>1, <2>2, <2>3, <2>4, <2>5
    <3>2. QED
      BY <2>3, <2>4, <3>1, FS_Subset
  <2>7. S \cap 1..Len(all) = 1..Len(all)
    BY <2>1, <2>6 DEF ToSet
  <2>8. Cardinality(1..Len(all)) = Len(all)
    <3>1. 1 \in Int /\ Len(all) \in Int
      BY <2>1
    <3>2. Cardinality(1..Len(all)) = IF 1 > Len(all) THEN 0 ELSE Len(all) - 1 + 1
      BY <3>1, FS_Interval
    <3>3. QED
      BY <2>1, <3>2
  <2>9. Listed(t) = At(all, S)
    BY <1>3 DEF Listed
  <2> HIDE DEF all, S
  <2>10. Listed(t) \in Seq(Decls) /\ Len(Listed(t)) = Len(all)
    BY <2>1, <2>7, <2>8, <2>9, AtElements, AtOrder
  <2>11. QED
    BY <1>1, <2>6, <2>10 DEF all
<1>4. QED
  BY <1>2, <1>3

\* The declaration order is kept.
LEMMA OrderKept ==
    ASSUME Types, InOrder, [Next]_vars
    PROVE  InOrder'
<1>1. CASE handles' = handles
  BY <1>1 DEF InOrder, Registered
<1>2. ASSUME NEW d \in Decls, Home[d] \in Theories, NewAssertion(d),
             handles' = [handles EXCEPT ![Home[d]] = Append(@, d)],
             NEW t \in Theories, DeclOrder[t] # <<>>
      PROVE  Registered(t)' \subseteq ToSet(DeclOrder[t])
  <2>1. Registered(t) \subseteq ToSet(DeclOrder[t])
    BY <1>2 DEF InOrder
  <2>2. CASE t = Home[d]
    <3>1. d \in ToSet(DeclOrder[t])
      BY <1>2, <2>2 DEF NewAssertion
    <3>2. Registered(t)' = Registered(t) \cup {d}
      BY <1>2, <2>2, RegistryGrown
    <3>3. QED
      BY <2>1, <3>1, <3>2
  <2>3. CASE t # Home[d]
    <3>1. handles'[t] = handles[t]
      BY <1>2, <2>3, RegistryGrown
    <3>2. QED
      BY <2>1, <3>1 DEF Registered
  <2>4. QED
    BY <2>2, <2>3
<1>3. QED
  BY <1>1, <1>2, RegistryStep DEF InOrder

\* The part of the view that verify_all goes over does not change under it: without
\* a declaration order the view grows at its end, and with one nothing is left
\* to declare.
LEMMA ViewStays ==
    ASSUME Types, InOrder, Reporting, [Next]_vars, call.op = "verify", NEW t, t = call.of
    PROVE  /\ Len(handles[t]) <= Len(handles'[t])
           /\ \A n \in 1..call.size : Listed(t)'[n] = Listed(t)[n] /\ Listed(t)[n] \in Decls
<1>1. /\ t \in Theories /\ call.size \in Nat /\ call.size <= Len(handles[t])
      /\ DeclOrder[t] # <<>> => call.size = Len(DeclOrder[t])
  BY DEF Reporting
<1>2. /\ Listed(t) \in Seq(Decls) /\ Len(Listed(t)) = Len(handles[t]) /\ Len(handles[t]) \in Nat
      /\ DeclOrder[t] # <<>> => Registered(t) = ToSet(DeclOrder[t])
  BY <1>1, ListedIs DEF Types
<1>3. \A n \in 1..call.size : n \in 1..Len(handles[t])
  BY <1>1, <1>2
<1>4. \A n \in 1..call.size : Listed(t)[n] \in Decls
  BY <1>2, <1>3, ElementOfSeq
<1>5. CASE handles'[t] = handles[t]
  <2>1. Listed(t)' = Listed(t)
    BY <1>5 DEF Listed, Registered
  <2>2. QED
    BY <1>2, <1>4, <1>5, <2>1
<1>6. ASSUME NEW d \in Decls, t = Home[d], NewAssertion(d),
             handles' = [handles EXCEPT ![Home[d]] = Append(@, d)]
      PROVE  /\ Len(handles[t]) <= Len(handles'[t])
             /\ \A n \in 1..call.size : Listed(t)'[n] = Listed(t)[n]
  <2>1. d \notin Registered(t)
    BY <1>1, <1>6, OwnVisible DEF NewAssertion
  <2>2. DeclOrder[t] = <<>>
    BY <1>2, <1>6, <2>1 DEF NewAssertion
  <2>3. Listed(t) = handles[t] /\ Listed(t)' = handles'[t]
    BY <2>2 DEF Listed
  <2>4. Len(handles[t]) <= Len(handles'[t])
        /\ \A n \in 1..Len(handles[t]) : handles'[t][n] = handles[t][n]
    BY <1>1, <1>6, RegistryGrown
  <2>5. QED
    BY <1>3, <2>3, <2>4
<1>7. QED
  BY <1>1, <1>4, <1>5, <1>6, RegistryStep, RegistryGrown

\* An entry stays right as long as the view does.
LEMMA EntriesStay ==
    ASSUME Types, InOrder, Reporting, [Next]_vars, call.op = "verify", NEW t, t = call.of,
           NEW n \in 1..call.size, NEW entry, EntryRight(t, n, entry)
    PROVE  (EntryRight(t, n, entry))'
<1>1. Listed(t)'[n] = Listed(t)[n] /\ Listed(t)[n] \in Decls
  BY ViewStays
<1>2. \A d \in Decls : impl[d] # NoProof => impl'[d] # NoProof
  BY StepGrows DEF Growth
<1>3. QED
  BY <1>1, <1>2 DEF EntryRight

\* An entry is added while no body runs any more.
LEMMA EntryAdded ==
    ASSUME Types, InOrder, Reporting, [Next]_vars, call.op = "verify", call.next <= call.size,
           NEW d, d = Listed(call.of)[call.next], NEW ok \in BOOLEAN,
           IF KindOf[d] = "theorem" THEN ok => impl[d] # NoProof ELSE ok,
           call' = [call EXCEPT !.next = @ + 1, !.entries = Append(@, Entry(d, ok))],
           frames' = <<>>
    PROVE  Reporting'
<1> DEFINE t == call.of
           Entries == [of : Decls, ok : BOOLEAN]
<1>1. /\ t \in Theories /\ call.size \in Nat /\ call.size <= Len(handles[t])
      /\ DeclOrder[t] # <<>> => call.size = Len(DeclOrder[t])
      /\ call.next \in 1 .. call.size + 1
      /\ call.entries \in Seq(Entries) /\ Len(call.entries) = call.next - 1
      /\ \A n \in 1 .. call.next - 1 : EntryRight(t, n, call.entries[n])
  BY DEF Reporting
<1>2. DOMAIN call = {"op", "of", "next", "size", "entries"}
  BY DEF Types, CallOK
<1>3. /\ call'.op = "verify" /\ call'.of = t /\ call'.size = call.size
      /\ call'.next = call.next + 1 /\ call'.entries = Append(call.entries, Entry(d, ok))
  BY <1>2
<1>4. call.next \in 1..call.size
  BY <1>1
<1>5. d \in Decls /\ Len(handles[t]) <= Len(handles'[t])
  BY <1>4, ViewStays
<1>6. Entry(d, ok) \in Entries /\ Entry(d, ok).of = d /\ Entry(d, ok).ok = ok
  BY <1>5 DEF Entry
<1> DEFINE new == Append(call.entries, Entry(d, ok))
<1>7. /\ new \in Seq(Entries) /\ Len(new) = call.next /\ new[call.next] = Entry(d, ok)
      /\ \A n \in 1 .. call.next - 1 : new[n] = call.entries[n]
  <2>1. Len(call.entries) + 1 = call.next
    BY <1>1
  <2>2. QED
    BY <1>1, <1>6, <2>1, AppendProperties
<1>8. EntryRight(t, call.next, Entry(d, ok))
  BY <1>6 DEF EntryRight
<1> HIDE DEF new
<1>9. ASSUME NEW n \in 1..call.next, NEW u, u = t, NEW entry, entry = new[n]
      PROVE  (EntryRight(u, n, entry))'
  <2>1. EntryRight(u, n, entry) /\ n \in 1..call.size
    <3>1. CASE n = call.next
      BY <1>4, <1>7, <1>8, <1>9, <3>1
    <3>2. CASE n # call.next
      <4>1. n \in 1 .. call.next - 1 /\ n \in 1..call.size
        BY <1>1, <1>4, <3>2
      <4>2. QED
        BY <1>1, <1>7, <1>9, <4>1
    <3>3. QED
      BY <3>1, <3>2
  <2>2. QED
    BY <1>9, <2>1, EntriesStay
<1>10. \A n \in 1..call.next : (EntryRight(call.of, n, call.entries[n]))'
  <2>1. SUFFICES ASSUME NEW n \in 1..call.next PROVE (EntryRight(call.of, n, call.entries[n]))'
    OBVIOUS
  <2>2. \A u, entry : u = call'.of /\ entry = call'.entries[n] => (EntryRight(u, n, entry))'
    BY <1>3, <1>9 DEF new
  <2>3. QED
    BY <2>2 DEF EntryRight, Listed, Registered
<1>11. QED
  BY SMTT(20), <1>1, <1>3, <1>4, <1>5, <1>7, <1>10 DEF Reporting, new

\* The call goes on while other things happen: at most a body starts, for a theorem
\* that is next.
LEMMA CallStays ==
    ASSUME Types, InOrder, Reporting, [Next]_vars, call' = call,
           call.op = "verify" /\ frames' # <<>> =>
              \/ frames # <<>>
              \/ call.next <= call.size /\ KindOf[Listed(call.of)[call.next]] = "theorem"
    PROVE  Reporting'
<1> SUFFICES ASSUME call.op = "verify" PROVE Reporting'
  BY DEF Reporting
<1>1. /\ call.of \in Theories /\ call.size \in Nat /\ call.size <= Len(handles[call.of])
      /\ DeclOrder[call.of] # <<>> => call.size = Len(DeclOrder[call.of])
      /\ call.next \in 1 .. call.size + 1
      /\ call.entries \in Seq([of : Decls, ok : BOOLEAN]) /\ Len(call.entries) = call.next - 1
      /\ \A n \in 1 .. call.next - 1 : EntryRight(call.of, n, call.entries[n])
      /\ frames # <<>> => call.next <= call.size /\ KindOf[Listed(call.of)[call.next]] = "theorem"
  BY DEF Reporting
<1>2. Len(handles[call.of]) \in Nat /\ Len(handles'[call.of]) \in Nat
  <2>1. handles \in [Theories -> Seq(Decls)] /\ handles' \in [Theories -> Seq(Decls)]
    BY NextTypes DEF Types, TypeOK
  <2>2. QED
    BY <1>1, <2>1, LenProperties
<1>3. ASSUME NEW t, t = call.of
      PROVE  /\ Len(handles[t]) <= Len(handles'[t])
             /\ \A n \in 1 .. call.next - 1 : (EntryRight(t, n, call.entries[n]))'
             /\ frames' # <<>> => call.next <= call.size /\ KindOf[Listed(t)'[call.next]] = "theorem"
  <2>1. /\ Len(handles[t]) <= Len(handles'[t])
        /\ \A n \in 1..call.size : Listed(t)'[n] = Listed(t)[n]
    BY <1>3, ViewStays
  <2>2. ASSUME NEW n \in 1 .. call.next - 1, NEW entry, entry = call.entries[n]
        PROVE  (EntryRight(t, n, entry))'
    <3>1. n \in 1..call.size
      BY <1>1
    <3>2. EntryRight(t, n, entry)
      BY <1>1, <1>3, <2>2
    <3>3. QED
      BY <1>3, <3>1, <3>2, EntriesStay
  <2>3. \A n \in 1 .. call.next - 1 : (EntryRight(t, n, call.entries[n]))'
    <3>1. \A n \in 1 .. call.next - 1 : \A entry : entry = call'.entries[n] => (EntryRight(t, n, entry))'
      BY <2>2
    <3>2. QED
      BY <3>1 DEF EntryRight, Listed, Registered
  <2>4. ASSUME frames' # <<>>
        PROVE  call.next <= call.size /\ KindOf[Listed(t)'[call.next]] = "theorem"
    <3>1. call.next <= call.size /\ KindOf[Listed(t)[call.next]] = "theorem"
      BY <1>1, <1>3, <2>4
    <3>2. call.next \in 1..call.size
      BY <1>1, <3>1
    <3>3. QED
      BY <2>1, <3>1, <3>2
  <2>5. QED
    BY <2>1, <2>3, <2>4
<1>4. /\ Len(handles[call.of]) <= Len(handles'[call.of])
      /\ \A n \in 1 .. call.next - 1 : (EntryRight(call.of, n, call.entries[n]))'
      /\ frames' # <<>> =>
            call.next <= call.size /\ KindOf[(Listed(call.of))'[call.next]] = "theorem"
  <2>1. \A t : t = call'.of =>
           /\ Len(handles[t]) <= Len(handles'[t])
           /\ \A n \in 1 .. call.next - 1 : (EntryRight(t, n, call.entries[n]))'
           /\ frames' # <<>> => call.next <= call.size /\ KindOf[Listed(t)'[call.next]] = "theorem"
    BY <1>3
  <2>2. QED
    BY ZenonT(40), <2>1 DEF EntryRight, Listed, Registered
<1>5. QED
  BY <1>1, <1>2, <1>4 DEF Reporting

\* An exception ends the call or is an entry of it.
LEMMA RaiseReports ==
    ASSUME Types, InOrder, Reporting, [Next]_vars, NEW error, Raise(error),
           call.op = "verify" /\ error = "AuthoringSemanticError" =>
              \/ frames # <<>>
              \/ call.next <= call.size /\ KindOf[Listed(call.of)[call.next]] = "theorem"
    PROVE  Reporting'
<1>1. CASE call.op = "verify" /\ error = "AuthoringSemanticError"
  <2> DEFINE d == Listed(call.of)[call.next]
  <2>1. call.next <= call.size /\ KindOf[d] = "theorem"
    BY <1>1 DEF Reporting
  <2>2. call' = [call EXCEPT !.next = @ + 1, !.entries = Append(@, Entry(d, FALSE))] /\ frames' = <<>>
    BY <1>1 DEF Raise, Counted
  <2> HIDE DEF d
  <2>3. d = Listed(call.of)[call.next]
    BY DEF d
  <2>4. QED
    BY <1>1, <2>1, <2>2, <2>3, EntryAdded
<1>2. CASE ~(call.op = "verify" /\ error = "AuthoringSemanticError")
  <2>1. call' = NoCall
    BY <1>2 DEF Raise
  <2>2. QED
    BY <2>1 DEF NoCall, Reporting
<1>3. QED
  BY <1>1, <1>2

\* A body is started, or its absence is an exception.
LEMMA ElaborateReports ==
    ASSUME Types, InOrder, Reporting, [Next]_vars, NEW d, Elaborate(d),
           call.op = "verify" =>
              \/ frames # <<>>
              \/ call.next <= call.size /\ KindOf[Listed(call.of)[call.next]] = "theorem"
    PROVE  Reporting'
<1>1. CASE d \notin bodies \/ Len(frames) >= MaxFrames
  BY <1>1, RaiseReports DEF Elaborate
<1>2. CASE ~(d \notin bodies \/ Len(frames) >= MaxFrames)
  BY <1>2, CallStays DEF Elaborate
<1>3. QED
  BY <1>1, <1>2

\* Imports, bodies and calls stay nested.
LEMMA NestingKept ==
    ASSUME Types, Nesting, [Next]_vars
    PROVE  Nesting'
<1>1. CASE UNCHANGED vars
  BY <1>1 DEF vars, Nesting
<1>2. ASSUME NEW error, Raise(error) PROVE Nesting'
  BY <1>2 DEF Raise, NoImport, Nesting
<1>3. ASSUME NEW d, Elaborate(d), call.op \notin {"none", "import"} PROVE Nesting'
  <2>1. CASE d \notin bodies \/ Len(frames) >= MaxFrames
    BY <1>2, <1>3, <2>1 DEF Elaborate
  <2>2. CASE ~(d \notin bodies \/ Len(frames) >= MaxFrames)
    <3>1. frames' = Append(frames, Frame(d)) /\ UNCHANGED <<importing, call>> /\ d \in Decls
          /\ frames \in Seq(Frames)
      BY <1>3, <2>2 DEF Elaborate, Types, TypeOK, Frames
    <3>2. Frame(d) \in Frames
      BY <3>1, EmptySeq DEF Frame, Frames
    <3>3. Len(frames') = Len(frames) + 1 /\ Len(frames) \in Nat
      BY <3>1, <3>2, AppendProperties, LenProperties
    <3>4. frames' # <<>>
      BY <3>3, EmptySeq
    <3>5. QED
      BY <1>3, <3>1, <3>4 DEF Nesting
  <2>3. QED
    BY <2>1, <2>2
<1>4. ASSUME NEW s, ImportShard(s) PROVE Nesting'
  BY <1>4 DEF ImportShard, StartImport, Idle, Nesting
<1>5. ASSUME NEW d, ReadImplementation(d) PROVE Nesting'
  BY <1>5 DEF ReadImplementation, Fail, Idle, Nesting
<1>6. ASSUME NEW t, VerifyAll(t) \/ StartEmission(t) \/ Check(t) PROVE Nesting'
  BY <1>6 DEF VerifyAll, StartEmission, Check, Fail, Idle, Nesting
<1>7. CASE Declare \/ Prove
  <2>1. \/ \E error : Raise(error)
        \/ StatementDone /\ importing # NoImport
    BY <1>7 DEF Declare, Prove, Statement
  <2>2. QED
    BY <1>2, <2>1 DEF StatementDone, Nesting
<1>8. ASSUME frames # <<>> PROVE NextInstruction # <<>>
  <2>1. Len(NextInstruction) = Len(frames) /\ Len(frames) \in Nat \ {0}
    BY <1>8, TopOfStack DEF Types
  <2>2. QED
    BY <2>1, EmptySeq
<1>9. CASE ImportEnds
  BY <1>8, <1>9 DEF ImportEnds, Returned, NoCall, NoImport, Nesting
<1>10. CASE ImportLocally \/ ReadInBody
  <2>1. frames # <<>> /\ call.op \notin {"none", "import"}
    BY <1>10 DEF ImportLocally, ReadInBody, Running, Nesting
  <2>2. QED
    BY <1>3, <1>8, <1>10, <2>1 DEF ImportLocally, ReadInBody, GoOn, StartImport, Nesting
<1>11. CASE Use
  <2>1. call.op \notin {"none", "import"}
    BY <1>11 DEF Use, Running, Nesting
  <2>2. QED
    BY <1>2, <1>11, <2>1 DEF Use, Running, Nesting, NoImport
<1>12. CASE Qed
  <2>1. call.op \notin {"none", "import"} /\ importing = NoImport
    BY <1>12 DEF Qed, Running, Nesting
  <2>2. \/ \E error : Raise(error)
        \/ /\ importing' = importing
           /\ call' = call \/ (call' = NoCall /\ frames' = <<>>)
    BY <1>12 DEF Qed, Returned
  <2>3. QED
    BY <1>2, <2>1, <2>2 DEF Nesting, NoCall
<1>13. CASE BodyEnds \/ DictionaryChanged
  BY <1>2, <1>13 DEF BodyEnds, DictionaryChanged
<1>14. CASE VerifyNext
  <2>1. call.op = "verify" /\ importing = NoImport
    BY <1>14 DEF VerifyNext, Between
  <2>2. \/ \E d : Elaborate(d)
        \/ /\ call' = [call EXCEPT !.next = @ + 1,
                                   !.entries = Append(@, Entry(Listed(call.of)[call.next], TRUE))]
           /\ UNCHANGED <<importing, frames>>
    BY <1>14 DEF VerifyNext
  <2>3. DOMAIN call = {"op", "of", "next", "size", "entries"}
    BY <2>1 DEF Types, CallOK
  <2>4. QED
    BY <1>3, <2>1, <2>2, <2>3 DEF Nesting
<1>15. CASE EmitNext
  <2>1. call.op = "emit" /\ importing = NoImport /\ call \in Emissions
    BY <1>15 DEF EmitNext, Between, Types, CallOK
  <2>2. \/ \E d : Elaborate(d)
        \/ \E error : Raise(error)
        \/ call' = [call EXCEPT !.next = @ + 1] /\ UNCHANGED <<importing, frames>>
    BY <1>15 DEF EmitNext
  <2>3. QED
    BY <1>2, <1>3, <2>1, <2>2 DEF Nesting, Emissions
<1>16. CASE VerifyReturns \/ EmissionEnds
  BY <1>16 DEF VerifyReturns, EmissionEnds, Between, Returned, NoCall, Nesting
<1>17. CASE Next
  BY <1>4, <1>5, <1>6, <1>7, <1>9, <1>10, <1>11, <1>12, <1>13, <1>14, <1>15, <1>16, <1>17
  DEF Next, Work
<1>18. QED
  BY <1>1, <1>17

\* What verify_all has so far stays right, whatever runs.
LEMMA ReportingKept ==
    ASSUME Types, InOrder, Nesting, Reporting, [Next]_vars
    PROVE  Reporting'
<1>1. CASE UNCHANGED <<call, frames>>
  BY <1>1, CallStays
<1>2. CASE call' = call /\ frames # <<>>
  BY <1>2, CallStays
<1>3. ASSUME NEW error, Raise(error), frames # <<>> \/ call.op # "verify" \/ error = "RuntimeError"
      PROVE  Reporting'
  BY <1>3, RaiseReports
<1>4. ASSUME NEW s, ImportShard(s) PROVE Reporting'
  BY <1>4 DEF ImportShard, Reporting
<1>5. ASSUME NEW d, ReadImplementation(d) PROVE Reporting'
  <2>1. call' = [op |-> "read"] \/ UNCHANGED <<call, frames>>
    BY <1>5 DEF ReadImplementation, Fail
  <2>2. QED
    BY <1>1, <2>1 DEF Reporting
<1>6. ASSUME NEW t \in Theories, VerifyAll(t) PROVE Reporting'
  <2>1. CASE Complete(t)
    <3>1. frames' = <<>> /\ handles' = handles
          /\ call' = [op |-> "verify", of |-> t, next |-> 1, size |-> Len(handles[t]), entries |-> <<>>]
      BY <1>6, <2>1 DEF VerifyAll, Idle, Nesting, registry
    <3>2. Len(handles[t]) \in Nat
      BY LenProperties DEF Types, TypeOK
    <3>3. /\ call'.of = t /\ call'.size = Len(handles[t]) /\ call'.next = 1 /\ call'.entries = <<>>
      BY <3>1
    <3>4. DeclOrder[t] # <<>> => Len(handles[t]) = Len(DeclOrder[t])
      BY <2>1 DEF Complete
    <3>5. <<>> \in Seq([of : Decls, ok : BOOLEAN]) /\ Len(<<>>) = 0
      BY EmptySeq
    <3>6. QED
      BY <3>1, <3>2, <3>3, <3>4, <3>5 DEF Reporting
  <2>2. CASE ~Complete(t)
    BY <1>1, <1>6, <2>2 DEF VerifyAll, Fail
  <2>3. QED
    BY <2>1, <2>2
<1>7. ASSUME NEW t, StartEmission(t) \/ Check(t) PROVE Reporting'
  <2>1. UNCHANGED <<call, frames>> \/ call'.op = "emit"
    BY <1>7 DEF StartEmission, Check, Fail
  <2>2. QED
    BY <1>1, <2>1 DEF Reporting
<1>8. CASE Declare \/ Prove
  <2>1. importing # NoImport
    BY <1>8 DEF Declare, Prove, Statement
  <2>2. frames # <<>> \/ call.op # "verify"
    BY <2>1 DEF Nesting
  <2>3. Raise("AuthoringSemanticError") \/ UNCHANGED <<call, frames>>
    BY <1>8 DEF Declare, Prove, StatementDone
  <2>4. QED
    BY <1>1, <1>3, <2>2, <2>3
<1>9. CASE ImportEnds
  BY <1>2, <1>9 DEF ImportEnds, Returned, NoCall, Reporting
<1>10. CASE ImportLocally \/ ReadInBody \/ Use \/ BodyEnds
  <2>1. frames # <<>>
    BY <1>10 DEF ImportLocally, ReadInBody, Use, BodyEnds, Running
  <2>2. call' = call \/ Raise("AuthoringSemanticError") \/ \E d : Elaborate(d)
    BY <1>10 DEF ImportLocally, ReadInBody, Use, BodyEnds, GoOn
  <2>3. QED
    BY <1>2, <1>3, <2>1, <2>2, ElaborateReports
<1>11. CASE Qed
  <2>1. frames # <<>>
    BY <1>11 DEF Qed, Running
  <2>2. call' = call \/ Raise("AuthoringSemanticError") \/ call' = NoCall
    BY <1>11 DEF Qed, Returned
  <2>3. call' = NoCall => Reporting'
    BY DEF NoCall, Reporting
  <2>4. QED
    BY <1>2, <1>3, <2>1, <2>2, <2>3
<1>12. CASE DictionaryChanged
  BY <1>3, <1>12 DEF DictionaryChanged
<1>13. CASE VerifyNext
  <2> DEFINE d == Listed(call.of)[call.next]
  <2>1. call.op = "verify" /\ call.next <= call.size /\ frames = <<>>
    BY <1>13 DEF VerifyNext, Between
  <2>2. CASE KindOf[d] = "theorem" /\ impl[d] = NoProof
    BY <1>13, <2>1, <2>2, ElaborateReports DEF VerifyNext
  <2>3. CASE ~(KindOf[d] = "theorem" /\ impl[d] = NoProof)
    <3>1. call' = [call EXCEPT !.next = @ + 1, !.entries = Append(@, Entry(d, TRUE))]
          /\ frames' = <<>>
      BY <1>13, <2>1, <2>3 DEF VerifyNext
    <3>2. d = Listed(call.of)[call.next]
      OBVIOUS
    <3> HIDE DEF d
    <3>3. IF KindOf[d] = "theorem" THEN TRUE => impl[d] # NoProof ELSE TRUE
      BY <2>3
    <3>4. QED
      BY <2>1, <3>1, <3>2, <3>3, EntryAdded
  <2>4. QED
    BY <2>2, <2>3
<1>14. CASE VerifyReturns \/ EmissionEnds
  BY <1>14 DEF VerifyReturns, EmissionEnds, Returned, NoCall, Reporting
<1>15. CASE EmitNext
  <2>1. call.op = "emit" /\ call \in Emissions
    BY <1>15 DEF EmitNext, Between, Types, CallOK
  <2>2. \/ \E d : Elaborate(d)
        \/ Raise("AuthoringSemanticError")
        \/ call' = [call EXCEPT !.next = @ + 1]
    BY <1>15 DEF EmitNext
  <2>3. QED
    BY <1>3, <2>1, <2>2, ElaborateReports DEF Emissions, Reporting
<1>16. CASE Next
  BY <1>4, <1>5, <1>6, <1>7, <1>8, <1>9, <1>10, <1>11, <1>12, <1>13, <1>14, <1>15, <1>16
  DEF Next, Work
<1>17. QED
  BY <1>1, <1>16 DEF vars

ReportRight ==
    report' # report =>
        LET entries == report'.entries
        IN  /\ [n \in DOMAIN entries |-> entries[n].of] = Listed(report'.of)
            /\ \A n \in DOMAIN entries :
                  IF KindOf[entries[n].of] = "theorem"
                  THEN entries[n].ok => impl[entries[n].of] # NoProof
                  ELSE entries[n].ok

\* Only a call that returns writes the report.
LEMMA ReportWritten ==
    ASSUME [Next]_vars, report' # report
    PROVE  VerifyReturns
<1>1. report' = report \/ VerifyReturns
  BY DEF Next, Work, vars, ImportShard, StartImport, ReadImplementation, VerifyAll, StartEmission,
         Check, Fail, Declare, Prove, StatementDone, ImportEnds, ImportLocally, ReadInBody, GoOn,
         Elaborate, Use, Qed, BodyEnds, DictionaryChanged, VerifyNext, EmitNext, EmissionEnds, Raise
<1>2. QED
  BY <1>1

LEMMA ReturnedReport ==
    ASSUME Types, InOrder, Reporting, [Next]_vars
    PROVE  ReportRight
<1> SUFFICES ASSUME report' # report PROVE ReportRight
  BY DEF ReportRight
<1>1. VerifyReturns
  BY ReportWritten
<1> DEFINE t == call.of
           entries == call.entries
<1>2. /\ call.op = "verify" /\ ~MovedUnder /\ call.next > call.size
      /\ report' = [of |-> t, entries |-> entries]
  BY <1>1 DEF VerifyReturns, Between
<1>3. /\ t \in Theories /\ call.size \in Nat /\ call.size <= Len(handles[t])
      /\ DeclOrder[t] # <<>> => call.size = Len(DeclOrder[t])
      /\ call.next \in 1 .. call.size + 1
      /\ entries \in Seq([of : Decls, ok : BOOLEAN]) /\ Len(entries) = call.next - 1
      /\ \A n \in 1 .. call.next - 1 : EntryRight(t, n, entries[n])
  BY <1>2 DEF Reporting
<1>4. /\ Listed(t) \in Seq(Decls) /\ Len(Listed(t)) = Len(handles[t])
      /\ DeclOrder[t] # <<>> => Len(DeclOrder[t]) = Len(handles[t])
  BY <1>3, ListedIs DEF Types
<1>5. Len(handles[t]) = call.size
  BY <1>2, <1>3, <1>4 DEF MovedUnder
<1>6. Len(entries) = call.size /\ DOMAIN entries = 1..call.size
  BY <1>2, <1>3, LenProperties
<1>7. \A n \in DOMAIN entries : EntryRight(t, n, entries[n])
  BY <1>3, <1>6
<1>8. DOMAIN Listed(t) = 1..call.size
  BY <1>4, <1>5, LenProperties
<1>9. Listed(t) = [n \in 1..call.size |-> Listed(t)[n]]
  <2> DEFINE view == Listed(t)
  <2>1. view \in Seq(Decls) /\ DOMAIN view = 1..call.size
    BY <1>4, <1>8
  <2> HIDE DEF view
  <2>2. view = [n \in DOMAIN view |-> view[n]]
    BY <2>1
  <2>3. view = [n \in 1..call.size |-> view[n]]
    BY <2>1, <2>2
  <2>4. QED
    BY <2>3 DEF view
<1>10. [n \in DOMAIN entries |-> entries[n].of] = Listed(t)
  BY <1>6, <1>7, <1>9 DEF EntryRight
<1>11. report'.of = t /\ report'.entries = entries
  BY <1>2
<1> HIDE DEF t, entries
<1>12. QED
  BY <1>7, <1>10, <1>11 DEF ReportRight, EntryRight

\* When verify_all returns, its report has an entry for each assertion that is
\* registered at that time, in the order of the view, although proof bodies that
\* ran for the entries may have imported shards: the iteration over a dictionary
\* that grew ends in an exception, and a theory with a declaration order that is
\* complete has nothing left to register.
THEOREM ReportsCover == Spec => ReportCovers
<1>1. Init => Types /\ InOrder /\ Nesting /\ Reporting
  <2> SUFFICES ASSUME Init PROVE Types /\ InOrder /\ Nesting /\ Reporting
    OBVIOUS
  <2>1. \A t \in Theories : Registered(t) = {}
    BY EmptySeq DEF Init, Registered, ToSet
  <2>2. QED
    BY <2>1, InitTypes DEF Init, NoCall, InOrder, Nesting, Reporting
<1>2. Types /\ InOrder /\ Nesting /\ Reporting /\ [Next]_vars
         => (Types /\ InOrder /\ Nesting /\ Reporting)'
  BY NextTypes, OrderKept, NestingKept, ReportingKept
<1>3. Types /\ InOrder /\ Reporting /\ [Next]_vars => [ReportRight]_vars
  BY ReturnedReport
<1>4. QED
  BY <1>1, <1>2, <1>3, PTL DEF Spec, ReportCovers, ReportRight

-----------------------------------------------------------------------------
(* The order in which lemmas are emitted *)

\* the function that EmissionOrder recurs over
Rounds(deps, byName, n, g) ==
    g = [k \in 0..n |-> IF k = 0 THEN <<>> ELSE Emitted(deps, byName, g[k - 1])]

LEMMA RoundsExist ==
    ASSUME NEW deps, NEW byName, NEW n \in Nat
    PROVE  \E g : Rounds(deps, byName, n, g)
<1> DEFINE T == {m \in Nat : \E g : Rounds(deps, byName, m, g)}
<1>1. Rounds(deps, byName, 0, [k \in 0..0 |-> <<>>])
  BY DEF Rounds
<1>2. ASSUME NEW m \in Nat, NEW g, Rounds(deps, byName, m, g)
      PROVE  \E h : Rounds(deps, byName, m + 1, h)
  <2> DEFINE h == [k \in 0 .. m + 1 |-> IF k # m + 1 THEN g[k] ELSE Emitted(deps, byName, g[m])]
  <2>1. \A k \in 0..m : g[k] = IF k = 0 THEN <<>> ELSE Emitted(deps, byName, g[k - 1])
    BY <1>2 DEF Rounds
  <2>2. /\ \A k \in 0..m : h[k] = g[k]
        /\ h[m + 1] = Emitted(deps, byName, g[m])
        /\ h = [k \in 0 .. m + 1 |-> h[k]]
    OBVIOUS
  <2> HIDE DEF h
  <2>3. ASSUME NEW k \in 0 .. m + 1
        PROVE  h[k] = IF k = 0 THEN <<>> ELSE Emitted(deps, byName, h[k - 1])
    <3>1. CASE k = m + 1
      <4>1. k # 0 /\ k - 1 = m /\ m \in 0..m
        BY <3>1
      <4>2. h[k - 1] = g[m] /\ h[k] = Emitted(deps, byName, g[m])
        BY <2>2, <3>1, <4>1
      <4>3. QED
        BY <4>1, <4>2
    <3>2. CASE k # m + 1
      <4>1. k \in 0..m /\ (k # 0 => k - 1 \in 0..m)
        BY <3>2
      <4>2. h[k] = g[k] /\ (k # 0 => h[k - 1] = g[k - 1])
        BY <2>2, <4>1
      <4>3. QED
        BY <2>1, <4>1, <4>2
    <3>3. QED
      BY <3>1, <3>2
  <2>4. Rounds(deps, byName, m + 1, h)
    BY <2>2, <2>3 DEF Rounds
  <2>5. QED
    BY <2>4
<1>3. Nat \subseteq T
  <2>1. 0 \in T /\ \A m \in Nat : m \in T => m + 1 \in T
    BY <1>1, <1>2
  <2> HIDE DEF T
  <2>2. QED
    BY <2>1, NatInduct
<1>4. QED
  BY <1>3

\* A list of lemmas without repetition, each after the lemmas it depends on.
OrderedBy(deps, order) ==
    /\ order \in Seq(DOMAIN deps)
    /\ \A m, n \in 1..Len(order) : order[m] = order[n] => m = n
    /\ \A n \in 1..Len(order) : \A l \in deps[order[n]] : \E m \in 1 .. n - 1 : order[m] = l

\* The least name of a set of names that are in the list.
LEMMA EarliestIn ==
    ASSUME NEW X, NEW byName \in Seq(X), NEW S \in SUBSET ToSet(byName), S # {}
    PROVE  Earliest(byName, S) \in S
<1> DEFINE at == {n \in 1..Len(byName) : byName[n] \in S}
<1>1. at \subseteq Nat /\ at # {} /\ DOMAIN byName = 1..Len(byName)
  BY DEF ToSet
<1>2. PICK n \in at : \A m \in at : n <= m
  BY <1>1, NatLeast
<1>3. n \in DOMAIN byName /\ byName[n] \in S /\ \A m \in 1 .. n - 1 : byName[m] \notin S
  BY <1>1, <1>2
<1>4. QED
  BY <1>3 DEF Earliest

\* One more lemma keeps the order.
LEMMA EmittedKeepsOrder ==
    ASSUME NEW X, NEW byName \in Seq(X), NEW deps, DOMAIN deps \subseteq ToSet(byName),
           NEW order, OrderedBy(deps, order)
    PROVE  /\ OrderedBy(deps, Emitted(deps, byName, order))
           /\ IF Ready(deps, ToSet(order)) = {} THEN Emitted(deps, byName, order) = order
              ELSE Len(Emitted(deps, byName, order)) = Len(order) + 1
<1> DEFINE ready == Ready(deps, ToSet(order))
           l == Earliest(byName, ready)
           longer == Append(order, l)
<1>1. CASE ready = {}
  BY <1>1 DEF Emitted
<1>2. CASE ready # {}
  <2>1. l \in ready
    <3>1. ready \in SUBSET ToSet(byName)
      BY DEF Ready
    <3> HIDE DEF ready
    <3>2. QED
      BY <1>2, <3>1, EarliestIn
  <2>2. l \in DOMAIN deps /\ l \notin ToSet(order) /\ deps[l] \subseteq ToSet(order)
    BY <2>1 DEF Ready
  <2>3. Emitted(deps, byName, order) = longer
    BY <1>2 DEF Emitted
  <2> HIDE DEF l
  <2>4. order \in Seq(DOMAIN deps) /\ Len(order) \in Nat /\ ToSet(order) = {order[n] : n \in 1..Len(order)}
    BY DEF OrderedBy, ToSet
  <2>5. /\ longer \in Seq(DOMAIN deps) /\ Len(longer) = Len(order) + 1 /\ longer[Len(order) + 1] = l
        /\ \A n \in 1..Len(order) : longer[n] = order[n]
    BY <2>2, <2>4
  <2> HIDE DEF longer
  <2>6. \A m, n \in 1..Len(longer) : longer[m] = longer[n] => m = n
    <3>1. \A n \in 1..Len(order) : order[n] # l
      BY <2>2, <2>4
    <3>2. QED
      BY <2>4, <2>5, <3>1 DEF OrderedBy
  <2>7. ASSUME NEW n \in 1..Len(longer), NEW k \in deps[longer[n]]
        PROVE  \E m \in 1 .. n - 1 : longer[m] = k
    <3>1. CASE n = Len(order) + 1
      <4>1. k \in ToSet(order)
        BY <2>2, <2>5, <2>7, <3>1
      <4>2. PICK m \in 1..Len(order) : order[m] = k
        BY <2>4, <4>1
      <4>3. QED
        BY <2>4, <2>5, <3>1, <4>2
    <3>2. CASE n \in 1..Len(order)
      <4>1. k \in deps[order[n]]
        BY <2>5, <3>2
      <4>2. PICK m \in 1 .. n - 1 : order[m] = k
        BY <3>2, <4>1 DEF OrderedBy
      <4>3. m \in 1..Len(order)
        BY <2>4, <3>2, <4>2
      <4>4. QED
        BY <2>5, <4>2, <4>3
    <3>3. QED
      BY <2>4, <2>5, <3>1, <3>2
  <2>8. QED
    BY <1>2, <2>3, <2>5, <2>6, <2>7 DEF OrderedBy
<1>3. QED
  BY <1>1, <1>2

\* What is emitted is in order, and nothing else is ready at the end.
LEMMA EmittedToTheEnd ==
    ASSUME NEW X, NEW byName \in Seq(X), NEW deps, DOMAIN deps \subseteq ToSet(byName),
           IsFiniteSet(DOMAIN deps)
    PROVE  /\ OrderedBy(deps, EmissionOrder(deps, byName))
           /\ Ready(deps, ToSet(EmissionOrder(deps, byName))) = {}
<1> DEFINE C == Cardinality(DOMAIN deps)
           g == CHOOSE f : Rounds(deps, byName, C, f)
<1>1. C \in Nat
  BY FS_CardinalityType
<1>2. Rounds(deps, byName, C, g)
  BY <1>1, RoundsExist
<1>3. EmissionOrder(deps, byName) = g[C]
  BY DEF EmissionOrder, Rounds
<1> HIDE DEF g
<1>4. \A k \in 0..C : g[k] = IF k = 0 THEN <<>> ELSE Emitted(deps, byName, g[k - 1])
  <2> HIDE DEF C
  <2>1. QED
    BY <1>2 DEF Rounds
<1> HIDE DEF C
<1> DEFINE Ended(k) == Len(g[k]) = k \/ Ready(deps, ToSet(g[k])) = {}
           T == {k \in Nat : k <= C => OrderedBy(deps, g[k]) /\ Ended(k)}
<1>5. 0 \in T
  <2>1. g[0] = <<>>
    BY <1>1, <1>4
  <2>2. OrderedBy(deps, <<>>) /\ Len(<<>>) = 0
    BY DEF OrderedBy
  <2>3. QED
    BY <2>1, <2>2
<1>6. ASSUME NEW k \in Nat, k \in T PROVE k + 1 \in T
  <2>1. SUFFICES ASSUME k + 1 <= C PROVE OrderedBy(deps, g[k + 1]) /\ Ended(k + 1)
    OBVIOUS
  <2>2. OrderedBy(deps, g[k]) /\ Ended(k)
    BY <1>1, <1>6, <2>1
  <2>3. g[k + 1] = Emitted(deps, byName, g[k])
    <3>1. k + 1 \in 0..C /\ k + 1 # 0 /\ (k + 1) - 1 = k
      BY <1>1, <2>1
    <3>2. QED
      BY <1>4, <3>1
  <2>4. /\ OrderedBy(deps, g[k + 1])
        /\ IF Ready(deps, ToSet(g[k])) = {} THEN g[k + 1] = g[k] ELSE Len(g[k + 1]) = Len(g[k]) + 1
    BY <2>2, <2>3, EmittedKeepsOrder
  <2>5. QED
    BY <2>2, <2>4
<1>7. Nat \subseteq T
  <2> HIDE DEF T
  <2>1. QED
    BY <1>5, <1>6, NatInduct
<1> DEFINE order == g[C]
<1>8. OrderedBy(deps, order) /\ (Len(order) = C \/ Ready(deps, ToSet(order)) = {})
  <2>1. C \in T
    <3> HIDE DEF T
    <3>1. QED
      BY <1>1, <1>7
  <2>2. QED
    BY <1>1, <2>1
<1> HIDE DEF order
<1>9. ASSUME Len(order) = C PROVE Ready(deps, ToSet(order)) = {}
  <2>1. order \in Seq(DOMAIN deps) /\ \A m, n \in 1..Len(order) : order[m] = order[n] => m = n
    BY <1>8 DEF OrderedBy
  <2>2. Cardinality(ToSet(order)) = Len(order)
    BY <2>1, ElementsFinite
  <2>3. ToSet(order) \subseteq DOMAIN deps
    BY <2>1 DEF ToSet
  <2>4. ToSet(order) = DOMAIN deps
    BY <1>9, <2>2, <2>3, FS_Subset DEF C
  <2>5. QED
    BY <2>4 DEF Ready
<1>10. QED
  BY <1>3, <1>8, <1>9 DEF order

\* Lemmas each of which depends on another of them.
Circular(deps, S) == \A l \in S : deps[l] \cap S # {}

\* The order of emission (emit_lowered_lemmas), for any lemmas: each comes once and
\* after all it depends on; what is left out is the largest set of lemmas each of
\* which needs another of them.  So a circle is reported exactly if there is one,
\* and cycle_nodes are the lemmas that it keeps from being emitted.
THEOREM OrderedUnlessCircular ==
    ASSUME NEW X, NEW byName \in Seq(X), NEW deps, DOMAIN deps \subseteq ToSet(byName),
           IsFiniteSet(DOMAIN deps), \A l \in DOMAIN deps : deps[l] \subseteq DOMAIN deps
    PROVE  LET order == EmissionOrder(deps, byName)
               left == DOMAIN deps \ ToSet(order)
           IN  /\ OrderedBy(deps, order)
               /\ Circular(deps, left)
               /\ \A S \in SUBSET DOMAIN deps : Circular(deps, S) => S \subseteq left
               /\ Len(order) = Cardinality(DOMAIN deps) <=>
                      \A S \in (SUBSET DOMAIN deps) \ {{}} : ~Circular(deps, S)
<1> DEFINE order == EmissionOrder(deps, byName)
           left == DOMAIN deps \ ToSet(order)
<1>1. OrderedBy(deps, order) /\ Ready(deps, ToSet(order)) = {}
  BY EmittedToTheEnd
<1> HIDE DEF order
<1>2. /\ order \in Seq(DOMAIN deps) /\ Len(order) \in Nat
      /\ ToSet(order) = {order[n] : n \in 1..Len(order)} /\ ToSet(order) \subseteq DOMAIN deps
  BY <1>1 DEF OrderedBy, ToSet
<1>3. Circular(deps, left)
  <2>1. SUFFICES ASSUME NEW l \in left PROVE deps[l] \cap left # {}
    BY DEF Circular
  <2>2. ~(deps[l] \subseteq ToSet(order))
    BY <1>1, <2>1 DEF Ready
  <2>3. QED
    BY <2>1, <2>2
<1>4. ASSUME NEW S \in SUBSET DOMAIN deps, Circular(deps, S) PROVE S \subseteq left
  <2> DEFINE at == {n \in 1..Len(order) : order[n] \in S}
  <2>1. SUFFICES ASSUME at # {} PROVE FALSE
    BY <1>2
  <2>2. PICK n \in at : \A m \in at : n <= m
    <3>1. at \subseteq Nat
      OBVIOUS
    <3> HIDE DEF at
    <3>2. QED
      BY <2>1, <3>1, NatLeast
  <2>3. PICK l \in deps[order[n]] : l \in S
    BY <1>4, <2>2 DEF Circular
  <2>4. PICK m \in 1 .. n - 1 : order[m] = l
    BY <1>1, <2>2, <2>3 DEF OrderedBy
  <2>5. m \in at /\ m < n
    BY <1>2, <2>2, <2>3, <2>4
  <2>6. QED
    BY <2>2, <2>5
<1>5. Len(order) = Cardinality(DOMAIN deps) <=> left = {}
  <2>1. Cardinality(ToSet(order)) = Len(order)
    BY <1>1, <1>2, ElementsFinite DEF OrderedBy
  <2>2. Cardinality(ToSet(order)) = Cardinality(DOMAIN deps) => ToSet(order) = DOMAIN deps
    BY <1>2, FS_Subset
  <2>3. QED
    BY <1>2, <2>1, <2>2
<1>6. left = {} <=> \A S \in (SUBSET DOMAIN deps) \ {{}} : ~Circular(deps, S)
  BY <1>3, <1>4
<1>7. QED
  BY <1>1, <1>3, <1>4, <1>5, <1>6 DEF order

-----------------------------------------------------------------------------
(* The search for circles *)

\* what a search has come by
Searches(D) ==
    [done : SUBSET D, path : Seq(D), walked : SUBSET (D \X D),
     issues : SUBSET ({"cycle"} \X D \X SUBSET D)]

\* The path goes along references and enters no node twice; what was walked from a
\* node leads to what is done or comes next on the path, unless there is an issue;
\* and then none of what is done is in a circle.  An issue is a circle.
Searching(graph, search) ==
    LET D == DOMAIN graph
        path == search.path
    IN  /\ search \in Searches(D)
        /\ \A m, n \in 1..Len(path) : path[m] = path[n] => m = n
        /\ \A n \in 1..Len(path) : path[n] \notin search.done
        /\ \A n \in 1 .. Len(path) - 1 : path[n + 1] \in graph[path[n]]
        /\ search.issues = {} =>
              /\ \A edge \in search.walked :
                    \/ edge[2] \in search.done
                    \/ \E n \in 1 .. Len(path) - 1 : path[n] = edge[1] /\ path[n + 1] = edge[2]
              /\ \A S \in SUBSET D : Circular(graph, S) => S \cap search.done = {}
        /\ \A issue \in search.issues : issue[2] \in issue[3] /\ Circular(graph, issue[3])

Beginning == [done |-> {}, path |-> <<>>, walked |-> {}, issues |-> {}]

\* what was entered, and a count of all that was walked, entered and left
Met(search) == search.done \cup ToSet(search.path)
Progress(search) == Cardinality(search.walked) + Cardinality(Met(search)) + Cardinality(search.done)
SearchOver(graph, search) == search.path = <<>> /\ search.done = DOMAIN graph

LEMMA BeginningIs ==
    ASSUME NEW graph
    PROVE  Searching(graph, Beginning) /\ Progress(Beginning) = 0
<1>1. /\ Beginning.done = {} /\ Beginning.path = <<>> /\ Beginning.walked = {} /\ Beginning.issues = {}
      /\ Beginning \in Searches(DOMAIN graph)
  BY DEF Beginning, Searches
<1>2. Searching(graph, Beginning)
  BY <1>1 DEF Searching
<1>3. Met(Beginning) = {}
  BY <1>1 DEF Met, ToSet
<1>4. QED
  BY <1>1, <1>2, <1>3, FS_EmptySet DEF Progress

\* A node is entered.
LEMMA EnteredSearches ==
    ASSUME NEW graph, IsFiniteSet(DOMAIN graph), NEW s, Searching(graph, s),
           NEW node \in DOMAIN graph, node \notin Met(s),
           s.path # <<>> => node \in graph[Last(s.path)]
    PROVE  /\ Entered(s, node) \in Searches(DOMAIN graph)
           /\ Met(Entered(s, node)) = Met(s) \cup {node}
           /\ Searching(graph, Entered(s, node))
<1> DEFINE D == DOMAIN graph
           t == Entered(s, node)
           p == s.path
           q == t.path
           L == Len(p)
<1>1. s \in Searches(D) /\ p \in Seq(D) /\ L \in Nat
  BY DEF Searching, Searches
<1>2. t.done = s.done /\ q = Append(p, node) /\ t.walked = s.walked /\ t.issues = s.issues
  BY <1>1 DEF Entered, Searches
<1>3. t \in Searches(D)
  BY <1>1 DEF Entered, Searches
<1> HIDE DEF t
<1>4. /\ Len(q) = L + 1 /\ q[L + 1] = node /\ \A n \in 1..L : q[n] = p[n]
  BY <1>1, <1>2
<1>5. ToSet(p) = {p[n] : n \in 1..L} /\ ToSet(q) = ToSet(p) \cup {node}
  <2>1. ToSet(q) = {q[n] : n \in 1 .. L + 1}
    BY <1>1, <1>2, <1>4 DEF ToSet
  <2>2. ToSet(p) = {p[n] : n \in 1..L}
    BY <1>1 DEF ToSet
  <2>3. QED
    BY <1>1, <1>4, <2>1, <2>2
<1>6. node \notin s.done /\ \A n \in 1..L : p[n] # node
  BY <1>5 DEF Met
<1>7. L # 0 => p[L] = Last(p) /\ node \in graph[p[L]]
  BY <1>1 DEF Last
<1>8. \A m, n \in 1..Len(q) : q[m] = q[n] => m = n
  BY <1>1, <1>4, <1>6 DEF Searching
<1>9. \A n \in 1..Len(q) : q[n] \notin t.done
  BY <1>1, <1>2, <1>4, <1>6 DEF Searching
<1>10. \A n \in 1 .. Len(q) - 1 : q[n + 1] \in graph[q[n]]
  BY <1>1, <1>4, <1>7 DEF Searching
<1>11. \A edge \in s.walked :
          (\E n \in 1 .. L - 1 : p[n] = edge[1] /\ p[n + 1] = edge[2])
             => \E n \in 1 .. Len(q) - 1 : q[n] = edge[1] /\ q[n + 1] = edge[2]
  BY <1>1, <1>4
<1>12. t.issues = {} =>
          /\ \A edge \in t.walked :
                \/ edge[2] \in t.done
                \/ \E n \in 1 .. Len(q) - 1 : q[n] = edge[1] /\ q[n + 1] = edge[2]
          /\ \A S \in SUBSET D : Circular(graph, S) => S \cap t.done = {}
  BY <1>2, <1>11 DEF Searching
<1>13. \A issue \in t.issues : issue[2] \in issue[3] /\ Circular(graph, issue[3])
  BY <1>2 DEF Searching
<1>14. Met(t) = Met(s) \cup {node}
  BY <1>2, <1>5 DEF Met
<1>15. Searching(graph, t)
  BY <1>3, <1>8, <1>9, <1>10, <1>12, <1>13 DEF Searching
<1>16. QED
  BY <1>3, <1>14, <1>15 DEF t

\* A node is left, all its references being walked.
LEMMA LeftSearches ==
    ASSUME NEW graph, IsFiniteSet(DOMAIN graph), NEW s, Searching(graph, s), s.path # <<>>,
           \A dep \in graph[Last(s.path)] : <<Last(s.path), dep>> \in s.walked
    PROVE  /\ Last(s.path) \in DOMAIN graph \ s.done
           /\ Left(s).done = s.done \cup {Last(s.path)} /\ Left(s).walked = s.walked
           /\ Met(Left(s)) = Met(s)
           /\ Searching(graph, Left(s))
<1> DEFINE D == DOMAIN graph
           t == Left(s)
           p == s.path
           q == t.path
           L == Len(p)
           node == Last(p)
<1>1. s \in Searches(D) /\ p \in Seq(D) /\ L \in Nat \ {0} /\ node = p[L] /\ node \in D
  BY DEF Searching, Searches, Last
<1>2. t.done = s.done \cup {node} /\ q = Front(p) /\ t.walked = s.walked /\ t.issues = s.issues
  BY <1>1 DEF Left, Searches
<1>3. q \in Seq(D) /\ Len(q) = L - 1 /\ \A n \in 1 .. L - 1 : q[n] = p[n]
  BY <1>1, <1>2 DEF Front
<1>4. t \in Searches(D)
  <2>1. Front(p) \in Seq(D)
    BY <1>2, <1>3
  <2>2. QED
    BY <1>1, <2>1 DEF Left, Searches
<1> HIDE DEF t, node
<1>5. \A m, n \in 1..L : p[m] = p[n] => m = n
  BY DEF Searching
<1>6. \A n \in 1..L : p[n] \notin s.done
  BY DEF Searching
<1>7. \A m, n \in 1..Len(q) : q[m] = q[n] => m = n
  BY <1>1, <1>3, <1>5
<1>8. \A n \in 1..Len(q) : q[n] \notin t.done
  BY <1>1, <1>2, <1>3, <1>5, <1>6
<1>9. \A n \in 1 .. Len(q) - 1 : q[n + 1] \in graph[q[n]]
  BY <1>1, <1>3 DEF Searching
<1>10. Met(t) = Met(s)
  <2>1. ToSet(p) = {p[n] : n \in 1..L} /\ ToSet(q) = {q[n] : n \in 1 .. L - 1}
    BY <1>1, <1>3 DEF ToSet
  <2>2. ToSet(p) = ToSet(q) \cup {node}
    BY <1>1, <1>3, <2>1
  <2>3. QED
    BY <1>2, <2>2 DEF Met
<1>11. ASSUME s.issues = {}
       PROVE  /\ \A edge \in s.walked :
                    \/ edge[2] \in s.done
                    \/ \E n \in 1 .. L - 1 : p[n] = edge[1] /\ p[n + 1] = edge[2]
              /\ \A S \in SUBSET D : Circular(graph, S) => S \cap s.done = {}
  BY <1>11 DEF Searching
<1>12. ASSUME t.issues = {}, NEW edge \in t.walked, edge[2] \notin t.done
       PROVE  \E n \in 1 .. Len(q) - 1 : q[n] = edge[1] /\ q[n + 1] = edge[2]
  <2>1. PICK n \in 1 .. L - 1 : p[n] = edge[1] /\ p[n + 1] = edge[2]
    BY <1>2, <1>11, <1>12
  <2>2. n + 1 # L
    BY <1>1, <1>2, <1>12, <2>1
  <2>3. n \in 1 .. Len(q) - 1 /\ q[n] = edge[1] /\ q[n + 1] = edge[2]
    BY <1>1, <1>3, <2>1, <2>2
  <2>4. QED
    BY <2>3
<1>13. ASSUME s.issues = {} PROVE graph[node] \subseteq s.done
  <2>1. ASSUME NEW dep \in graph[node], dep \notin s.done PROVE FALSE
    <3>1. <<node, dep>> \in s.walked
      BY DEF node
    <3>2. PICK n \in 1 .. L - 1 : p[n] = node /\ p[n + 1] = dep
      BY <1>11, <1>13, <2>1, <3>1
    <3>3. n = L
      BY <1>1, <1>5, <3>2
    <3>4. QED
      BY <1>1, <3>3
  <2>2. QED
    BY <2>1
<1>14. ASSUME t.issues = {}, NEW S \in SUBSET D, Circular(graph, S) PROVE S \cap t.done = {}
  <2>1. S \cap s.done = {}
    BY <1>2, <1>11, <1>14
  <2>2. node \notin S
    <3>1. graph[node] \cap S = {}
      BY <1>2, <1>13, <1>14, <2>1
    <3>2. QED
      BY <1>14, <3>1 DEF Circular
  <2>3. QED
    BY <1>2, <2>1, <2>2
<1>15. \A issue \in t.issues : issue[2] \in issue[3] /\ Circular(graph, issue[3])
  BY <1>2 DEF Searching
<1>16. Searching(graph, t)
  BY <1>4, <1>7, <1>8, <1>9, <1>12, <1>14, <1>15 DEF Searching
<1>17. node \in D \ s.done
  BY <1>1, <1>6
<1>18. QED
  BY <1>2, <1>10, <1>16, <1>17 DEF t, node

\* A circle is closed.
LEMMA ReportedSearches ==
    ASSUME NEW graph, NEW s, Searching(graph, s), s.path # <<>>,
           NEW dep \in graph[Last(s.path)], dep \in ToSet(s.path)
    PROVE  /\ Reported(s, dep).done = s.done /\ Reported(s, dep).path = s.path
           /\ Reported(s, dep).walked = s.walked /\ Reported(s, dep).issues # {}
           /\ Searching(graph, Reported(s, dep))
<1> DEFINE D == DOMAIN graph
           t == Reported(s, dep)
           p == s.path
           L == Len(p)
           from == CHOOSE n \in DOMAIN p : p[n] = dep
           cycle == {p[n] : n \in from..L}
<1>1. s \in Searches(D) /\ p \in Seq(D) /\ L \in Nat \ {0} /\ Last(p) = p[L] /\ DOMAIN p = 1..L
  BY DEF Searching, Searches, Last
<1>2. from \in 1..L /\ p[from] = dep
  BY <1>1 DEF ToSet
<1>3. t = [s EXCEPT !.issues = @ \cup {<<"cycle", dep, cycle>>}]
  BY DEF Reported
<1> HIDE DEF t, from
<1>4. cycle \in SUBSET D /\ dep \in D /\ dep \in cycle
  BY <1>1, <1>2
<1>5. Circular(graph, cycle)
  <2>1. SUFFICES ASSUME NEW n \in from..L PROVE graph[p[n]] \cap cycle # {}
    BY DEF Circular
  <2>2. CASE n = L
    BY <1>1, <1>4, <2>2
  <2>3. CASE n # L
    <3>1. n + 1 \in from..L /\ n \in 1 .. L - 1
      BY <1>1, <1>2, <2>3
    <3>2. p[n + 1] \in graph[p[n]] /\ p[n + 1] \in cycle
      BY <3>1 DEF Searching
    <3>3. QED
      BY <3>2
  <2>4. QED
    BY <2>2, <2>3
<1> HIDE DEF cycle
<1>6. /\ t.done = s.done /\ t.path = p /\ t.walked = s.walked
      /\ t.issues = s.issues \cup {<<"cycle", dep, cycle>>}
  BY <1>1, <1>3 DEF Searches
<1>7. t \in Searches(D)
  BY <1>1, <1>3, <1>4 DEF Searches
<1>8. \A issue \in t.issues : issue[2] \in issue[3] /\ Circular(graph, issue[3])
  BY <1>4, <1>5, <1>6 DEF Searching
<1>9. Searching(graph, t)
  BY <1>6, <1>7, <1>8 DEF Searching
<1>10. QED
  BY <1>6, <1>9 DEF t

\* One more reference is walked.
LEMMA WalkedSearches ==
    ASSUME NEW graph, NEW s, Searching(graph, s), NEW a \in DOMAIN graph, NEW b \in DOMAIN graph,
           \/ s.issues # {}
           \/ b \in s.done
           \/ \E n \in 1 .. Len(s.path) - 1 : s.path[n] = a /\ s.path[n + 1] = b
    PROVE  Searching(graph, [s EXCEPT !.walked = @ \cup {<<a, b>>}])
<1> DEFINE t == [s EXCEPT !.walked = @ \cup {<<a, b>>}]
<1>1. s \in Searches(DOMAIN graph)
  BY DEF Searching
<1>2. /\ t.done = s.done /\ t.path = s.path /\ t.walked = s.walked \cup {<<a, b>>}
      /\ t.issues = s.issues /\ t \in Searches(DOMAIN graph)
  BY <1>1 DEF Searches
<1> HIDE DEF t
<1>3. t.issues = {} =>
         \A edge \in t.walked :
            \/ edge[2] \in t.done
            \/ \E n \in 1 .. Len(t.path) - 1 : t.path[n] = edge[1] /\ t.path[n + 1] = edge[2]
  BY <1>2 DEF Searching
<1>4. Searching(graph, t)
  BY <1>2, <1>3 DEF Searching
<1>5. QED
  BY <1>4 DEF t

\* A reference is walked from the innermost node.
LEMMA VisitedSearches ==
    ASSUME NEW graph, IsFiniteSet(DOMAIN graph), NEW s, Searching(graph, s), s.path # <<>>,
           NEW dep \in graph[Last(s.path)], dep \in DOMAIN graph
    PROVE  LET edge == <<Last(s.path), dep>>
               t == Visited([s EXCEPT !.walked = @ \cup {edge}], dep)
           IN  /\ Searching(graph, t)
               /\ t.walked = s.walked \cup {edge} /\ t.done = s.done
               /\ Met(t) = Met(s) \cup {dep}
<1> DEFINE D == DOMAIN graph
           p == s.path
           node == Last(p)
           edge == <<node, dep>>
           u == [s EXCEPT !.walked = @ \cup {edge}]
           t == Visited(u, dep)
<1>1. s \in Searches(D) /\ p \in Seq(D) /\ Len(p) \in Nat \ {0} /\ node = p[Len(p)] /\ node \in D
  BY DEF Searching, Searches, Last
<1>2. /\ u.done = s.done /\ u.path = p /\ u.walked = s.walked \cup {edge} /\ u.issues = s.issues
      /\ u \in Searches(D)
  BY <1>1 DEF Searches
<1>3. Met(u) = Met(s)
  BY <1>2 DEF Met
<1>4. CASE dep \in s.done
  <2>1. t = u
    BY <1>2, <1>4 DEF Visited
  <2>2. Searching(graph, u)
    BY <1>1, <1>4, WalkedSearches
  <2>3. dep \in Met(s)
    BY <1>4 DEF Met
  <2> HIDE DEF u, t
  <2>4. QED
    BY <1>2, <1>3, <2>1, <2>2, <2>3 DEF u, t
<1>5. CASE dep \notin s.done /\ dep \in ToSet(p)
  <2> DEFINE r == Reported(s, dep)
  <2>1. t = Reported(u, dep)
    BY <1>2, <1>5 DEF Visited
  <2>2. /\ r.done = s.done /\ r.path = p /\ r.walked = s.walked /\ r.issues # {}
        /\ Searching(graph, r)
    BY <1>5, ReportedSearches
  <2>3. Searching(graph, [r EXCEPT !.walked = @ \cup {edge}])
    <3> HIDE DEF r
    <3>1. QED
      BY <1>1, <2>2, WalkedSearches
  <2>4. t = [r EXCEPT !.walked = @ \cup {edge}]
    <3> DEFINE cycle == {p[n] : n \in (CHOOSE n \in DOMAIN p : p[n] = dep) .. Len(p)}
    <3>1. r = [s EXCEPT !.issues = @ \cup {<<"cycle", dep, cycle>>}]
      BY DEF Reported
    <3>2. Reported(u, dep) = [u EXCEPT !.issues = @ \cup {<<"cycle", dep, cycle>>}]
      BY <1>2 DEF Reported
    <3> HIDE DEF cycle, r, t
    <3>3. QED
      BY <1>1, <2>1, <3>1, <3>2 DEF Searches
  <2>5. t.walked = s.walked \cup {edge} /\ t.done = s.done /\ t.path = p
    <3>1. r \in Searches(D)
      BY <2>2 DEF Searching
    <3> HIDE DEF r, t
    <3>2. QED
      BY <2>2, <2>4, <3>1 DEF Searches
  <2>6. Met(t) = Met(s) /\ dep \in Met(s)
    BY <1>5, <2>5 DEF Met
  <2> HIDE DEF r, u
  <2>7. QED
    BY <2>3, <2>4, <2>5, <2>6 DEF u
<1>6. CASE dep \notin s.done /\ dep \notin ToSet(p)
  <2> DEFINE r == Entered(s, dep)
  <2>1. t = Entered(u, dep)
    BY <1>2, <1>6 DEF Visited
  <2>2. dep \notin Met(s)
    BY <1>6 DEF Met
  <2>3. r \in Searches(D) /\ Met(r) = Met(s) \cup {dep} /\ Searching(graph, r)
    BY <2>2, EnteredSearches
  <2>4. r = [s EXCEPT !.path = Append(p, dep)]
    BY DEF Entered
  <2>5. r.path = Append(p, dep) /\ r.done = s.done /\ r.walked = s.walked
    BY <1>1, <2>4 DEF Searches
  <2>6. \E n \in 1 .. Len(r.path) - 1 : r.path[n] = node /\ r.path[n + 1] = dep
    <3>1. Len(r.path) = Len(p) + 1 /\ r.path[Len(p)] = node /\ r.path[Len(p) + 1] = dep
      BY <1>1, <2>5
    <3> HIDE DEF r
    <3>2. Len(p) \in 1 .. Len(r.path) - 1
      BY <1>1, <3>1
    <3>3. QED
      BY <3>1, <3>2
  <2>7. Searching(graph, [r EXCEPT !.walked = @ \cup {edge}])
    <3> HIDE DEF r
    <3>1. QED
      BY <1>1, <2>3, <2>6, WalkedSearches
  <2>8. t = [r EXCEPT !.walked = @ \cup {edge}]
    <3>1. Entered(u, dep) = [u EXCEPT !.path = Append(p, dep)]
      BY <1>2 DEF Entered
    <3> HIDE DEF r, t
    <3>2. QED
      BY <1>1, <2>1, <2>4, <3>1 DEF Searches
  <2>9. t.walked = s.walked \cup {edge} /\ t.done = s.done /\ t.path = r.path
    <3> HIDE DEF r, t
    <3>1. QED
      BY <2>3, <2>5, <2>8 DEF Searches
  <2>10. Met(t) = Met(s) \cup {dep}
    BY <2>3, <2>5, <2>9 DEF Met
  <2> HIDE DEF r, u
  <2>11. QED
    BY <2>7, <2>8, <2>9, <2>10 DEF u
<1>7. QED
  BY <1>4, <1>5, <1>6

\* The count goes up as long as the search is not over.
LEMMA OneStep ==
    ASSUME NEW X, NEW sorted \in Seq(X), NEW graph, DOMAIN graph \subseteq ToSet(sorted),
           IsFiniteSet(DOMAIN graph), \A l \in DOMAIN graph : graph[l] \subseteq DOMAIN graph,
           NEW s, Searching(graph, s)
    PROVE  LET t == Continued(graph, sorted, s)
           IN  /\ Searching(graph, t)
               /\ IF SearchOver(graph, s) THEN t = s
                  ELSE Progress(s) \in Nat /\ Progress(t) \in Nat /\ Progress(t) > Progress(s)
<1> DEFINE D == DOMAIN graph
           t == Continued(graph, sorted, s)
           p == s.path
<1>1. s \in Searches(D) /\ p \in Seq(D)
  BY DEF Searching, Searches
<1>2. /\ IsFiniteSet(s.walked) /\ IsFiniteSet(s.done) /\ IsFiniteSet(Met(s))
      /\ Cardinality(s.walked) \in Nat /\ Cardinality(s.done) \in Nat /\ Cardinality(Met(s)) \in Nat
  <2>1. IsFiniteSet(D \X D)
    BY FS_Product
  <2>2. ToSet(p) \subseteq D
    BY <1>1 DEF ToSet
  <2>3. s.walked \subseteq D \X D /\ s.done \subseteq D /\ Met(s) \subseteq D
    BY <1>1, <2>2 DEF Searches, Met
  <2>4. IsFiniteSet(s.walked) /\ IsFiniteSet(s.done) /\ IsFiniteSet(Met(s))
    BY <2>1, <2>3, FS_Subset
  <2>5. QED
    BY <2>4, FS_CardinalityType
<1>3. CASE p = <<>> /\ s.done = D
  <2>1. t = s
    BY <1>3 DEF Continued
  <2>2. QED
    BY <1>3, <2>1 DEF SearchOver
<1>4. CASE p = <<>> /\ s.done # D
  <2> DEFINE roots == D \ s.done
             node == Earliest(sorted, roots)
  <2>1. roots # {} /\ roots \in SUBSET ToSet(sorted)
    BY <1>1, <1>4 DEF Searches
  <2>2. node \in roots
    <3> HIDE DEF roots
    <3>1. QED
      BY <2>1, EarliestIn
  <2>3. t = Entered(s, node)
    BY <1>4, <2>1 DEF Continued
  <2> HIDE DEF node
  <2>4. node \in D /\ node \notin Met(s)
    <3>1. ToSet(p) = {}
      BY <1>4 DEF ToSet
    <3>2. QED
      BY <2>2, <3>1 DEF Met
  <2>5. Met(t) = Met(s) \cup {node} /\ Searching(graph, t)
    BY <1>4, <2>3, <2>4, EnteredSearches
  <2>6. t.done = s.done /\ t.walked = s.walked
    BY <1>1, <2>3 DEF Entered, Searches
  <2> HIDE DEF t
  <2>7. Cardinality(Met(t)) = Cardinality(Met(s)) + 1
    BY <1>2, <2>4, <2>5, FS_AddElement
  <2>8. Progress(s) \in Nat /\ Progress(t) \in Nat /\ Progress(t) > Progress(s)
    BY <1>2, <2>6, <2>7 DEF Progress
  <2>9. QED
    BY <1>4, <2>5, <2>8 DEF t, SearchOver
<1>5. CASE p # <<>>
  <2> DEFINE node == Last(p)
             ahead == {dep \in graph[node] : <<node, dep>> \notin s.walked}
             dep == Earliest(sorted, ahead)
  <2>1. node \in D
    BY <1>1, <1>5 DEF Last
  <2>2. CASE ahead = {}
    <3>1. t = Left(s)
      BY <1>5, <2>2 DEF Continued
    <3>2. /\ node \in D \ s.done /\ t.done = s.done \cup {node} /\ t.walked = s.walked
          /\ Met(t) = Met(s) /\ Searching(graph, t)
      BY <1>5, <2>2, <3>1, LeftSearches
    <3> HIDE DEF t, node
    <3>3. Cardinality(t.done) = Cardinality(s.done) + 1
      BY <1>2, <3>2, FS_AddElement
    <3>4. Progress(s) \in Nat /\ Progress(t) \in Nat /\ Progress(t) > Progress(s)
      BY <1>2, <3>2, <3>3 DEF Progress
    <3>5. QED
      BY <1>5, <3>2, <3>4 DEF t, SearchOver
  <2>3. CASE ahead # {}
    <3>1. dep \in ahead
      <4>1. ahead \in SUBSET ToSet(sorted)
        BY <2>1
      <4> HIDE DEF ahead
      <4>2. QED
        BY <2>3, <4>1, EarliestIn
    <3>2. t = Visited([s EXCEPT !.walked = @ \cup {<<node, dep>>}], dep)
      BY <1>5, <2>3 DEF Continued
    <3> HIDE DEF dep
    <3>3. dep \in graph[node] /\ <<node, dep>> \notin s.walked /\ dep \in D
      BY <2>1, <3>1
    <3>4. /\ Searching(graph, t) /\ t.walked = s.walked \cup {<<node, dep>>}
          /\ t.done = s.done /\ Met(t) = Met(s) \cup {dep}
      BY <1>5, <3>2, <3>3, VisitedSearches
    <3> HIDE DEF t, node, ahead
    <3>5. Cardinality(t.walked) = Cardinality(s.walked) + 1
      BY <1>2, <3>3, <3>4, FS_AddElement
    <3>6. Cardinality(Met(t)) \in Nat /\ Cardinality(Met(t)) >= Cardinality(Met(s))
      <4>1. dep \in Met(s) => Met(t) = Met(s)
        BY <3>4
      <4>2. dep \notin Met(s) => Cardinality(Met(t)) = Cardinality(Met(s)) + 1
        BY <1>2, <3>4, FS_AddElement
      <4>3. QED
        BY <1>2, <4>1, <4>2
    <3>7. Progress(s) \in Nat /\ Progress(t) \in Nat /\ Progress(t) > Progress(s)
      BY <1>2, <3>4, <3>5, <3>6 DEF Progress
    <3>8. QED
      BY <1>5, <3>4, <3>7 DEF t, SearchOver
  <2>4. QED
    BY <2>2, <2>3
<1>6. QED
  BY <1>3, <1>4, <1>5

\* the function that CycleIssues recurs over
Searched(graph, sorted, n, g) ==
    g = [k \in 0..n |-> IF k = 0 THEN Beginning ELSE Continued(graph, sorted, g[k - 1])]

\* The search is over within the bound.
LEMMA SearchEnds ==
    ASSUME NEW graph, IsFiniteSet(DOMAIN graph), NEW s, Searching(graph, s), Progress(s) >= MaxSteps(graph)
    PROVE  SearchOver(graph, s)
<1> DEFINE D == DOMAIN graph
           C == Cardinality(D)
           Q == Cardinality(D \X D)
           p == s.path
<1>1. s \in Searches(D) /\ p \in Seq(D)
  BY DEF Searching, Searches
<1>2. C \in Nat /\ Q \in Nat /\ IsFiniteSet(D \X D) /\ Q = C * C
  BY FS_Product, FS_CardinalityType
<1>3. MaxSteps(graph) = Q + 2 * C
  BY <1>2 DEF MaxSteps
<1>4. ToSet(p) \subseteq D /\ ToSet(p) = {p[n] : n \in 1..Len(p)}
  BY <1>1 DEF ToSet
<1>5. s.walked \subseteq D \X D /\ s.done \subseteq D /\ Met(s) \subseteq D
  BY <1>1, <1>4 DEF Searches, Met
<1>6. /\ Cardinality(s.walked) \in Nat /\ Cardinality(s.walked) <= Q
      /\ Cardinality(s.done) \in Nat /\ Cardinality(s.done) <= C
      /\ Cardinality(Met(s)) \in Nat /\ Cardinality(Met(s)) <= C
  BY <1>2, <1>5, FS_Subset, FS_CardinalityType
<1>7. Cardinality(s.done) = C
  <2> HIDE DEF C, Q
  <2>1. QED
    BY <1>2, <1>3, <1>6 DEF Progress
<1>8. s.done = D
  BY <1>5, <1>7, FS_Subset
<1>9. p = <<>>
  <2>1. \A n \in 1..Len(p) : p[n] \in D /\ p[n] \notin s.done
    BY <1>1 DEF Searching
  <2>2. Len(p) \in Nat /\ ~(1 \in 1..Len(p))
    BY <1>1, <1>8, <2>1
  <2>3. QED
    BY <1>1, <2>2
<1>10. QED
  BY <1>8, <1>9 DEF SearchOver

LEMMA SearchExists ==
    ASSUME NEW graph, NEW sorted, NEW n \in Nat
    PROVE  \E g : Searched(graph, sorted, n, g)
<1> DEFINE T == {m \in Nat : \E g : Searched(graph, sorted, m, g)}
<1>1. Searched(graph, sorted, 0, [k \in 0..0 |-> Beginning])
  BY DEF Searched
<1>2. ASSUME NEW m \in Nat, NEW g, Searched(graph, sorted, m, g)
      PROVE  \E h : Searched(graph, sorted, m + 1, h)
  <2> DEFINE h == [k \in 0 .. m + 1 |-> IF k # m + 1 THEN g[k] ELSE Continued(graph, sorted, g[m])]
  <2>1. \A k \in 0..m : g[k] = IF k = 0 THEN Beginning ELSE Continued(graph, sorted, g[k - 1])
    BY <1>2 DEF Searched
  <2>2. /\ \A k \in 0..m : h[k] = g[k]
        /\ h[m + 1] = Continued(graph, sorted, g[m])
        /\ h = [k \in 0 .. m + 1 |-> h[k]]
    OBVIOUS
  <2> HIDE DEF h
  <2>3. ASSUME NEW k \in 0 .. m + 1
        PROVE  h[k] = IF k = 0 THEN Beginning ELSE Continued(graph, sorted, h[k - 1])
    <3>1. CASE k = m + 1
      <4>1. k # 0 /\ k - 1 = m /\ m \in 0..m
        BY <3>1
      <4>2. h[k - 1] = g[m] /\ h[k] = Continued(graph, sorted, g[m])
        BY <2>2, <3>1, <4>1
      <4>3. QED
        BY <4>1, <4>2
    <3>2. CASE k # m + 1
      <4>1. k \in 0..m /\ (k # 0 => k - 1 \in 0..m)
        BY <3>2
      <4>2. h[k] = g[k] /\ (k # 0 => h[k - 1] = g[k - 1])
        BY <2>2, <4>1
      <4>3. QED
        BY <2>1, <4>1, <4>2
    <3>3. QED
      BY <3>1, <3>2
  <2>4. Searched(graph, sorted, m + 1, h)
    BY <2>2, <2>3 DEF Searched
  <2>5. QED
    BY <2>4
<1>3. Nat \subseteq T
  <2>1. 0 \in T /\ \A m \in Nat : m \in T => m + 1 \in T
    BY <1>1, <1>2
  <2> HIDE DEF T
  <2>2. QED
    BY <2>1, NatInduct
<1>4. QED
  BY <1>3

\* What the search has found when it is over.
LEMMA SearchFinds ==
    ASSUME NEW X, NEW sorted \in Seq(X), NEW graph, DOMAIN graph \subseteq ToSet(sorted),
           IsFiniteSet(DOMAIN graph), \A l \in DOMAIN graph : graph[l] \subseteq DOMAIN graph
    PROVE  \E s : /\ Searching(graph, s) /\ SearchOver(graph, s)
                  /\ CycleIssues(graph, sorted) = s.issues
<1> DEFINE N == MaxSteps(graph)
           g == CHOOSE f : Searched(graph, sorted, N, f)
<1>1. N \in Nat
  BY FS_CardinalityType DEF MaxSteps
<1> HIDE DEF N
<1>2. Searched(graph, sorted, N, g)
  BY <1>1, SearchExists
<1>3. CycleIssues(graph, sorted) = g[N].issues
  BY DEF CycleIssues, Searched, Beginning, N
<1> HIDE DEF g
<1>4. \A k \in 0..N : g[k] = IF k = 0 THEN Beginning ELSE Continued(graph, sorted, g[k - 1])
  BY <1>2 DEF Searched
<1> DEFINE Far(k) == SearchOver(graph, g[k]) \/ (Progress(g[k]) \in Nat /\ Progress(g[k]) >= k)
           T == {k \in Nat : k <= N => Searching(graph, g[k]) /\ Far(k)}
<1>5. 0 \in T
  <2>1. g[0] = Beginning
    BY <1>1, <1>4
  <2>2. QED
    BY <2>1, BeginningIs
<1>6. ASSUME NEW k \in Nat, k \in T PROVE k + 1 \in T
  <2>1. SUFFICES ASSUME k + 1 <= N PROVE Searching(graph, g[k + 1]) /\ Far(k + 1)
    OBVIOUS
  <2>2. Searching(graph, g[k]) /\ Far(k)
    BY <1>1, <1>6, <2>1
  <2>3. g[k + 1] = Continued(graph, sorted, g[k])
    <3>1. k + 1 \in 0..N /\ k + 1 # 0 /\ (k + 1) - 1 = k
      BY <1>1, <2>1
    <3>2. QED
      BY <1>4, <3>1
  <2>4. /\ Searching(graph, g[k + 1])
        /\ IF SearchOver(graph, g[k]) THEN g[k + 1] = g[k]
           ELSE Progress(g[k]) \in Nat /\ Progress(g[k + 1]) \in Nat /\ Progress(g[k + 1]) > Progress(g[k])
    BY <2>2, <2>3, OneStep
  <2>5. QED
    BY <2>2, <2>4
<1>7. Nat \subseteq T
  <2> HIDE DEF T
  <2>1. QED
    BY <1>5, <1>6, NatInduct
<1>8. Searching(graph, g[N]) /\ Far(N)
  <2>1. N \in T
    <3> HIDE DEF T
    <3>1. QED
      BY <1>1, <1>7
  <2>2. QED
    BY <1>1, <2>1
<1>9. SearchOver(graph, g[N])
  BY <1>8, SearchEnds DEF N
<1>10. QED
  BY <1>3, <1>8, <1>9

\* The search for circles before emission (_cycle_issues) finds one exactly if there
\* is one, for any proofs and references: although it leaves a node behind for good
\* once its references were walked, no circle is hidden by that; and what it reports
\* is a circle, with the lemma it names in it.
THEOREM CirclesAreFound ==
    ASSUME NEW X, NEW sorted \in Seq(X), NEW graph, DOMAIN graph \subseteq ToSet(sorted),
           IsFiniteSet(DOMAIN graph), \A l \in DOMAIN graph : graph[l] \subseteq DOMAIN graph
    PROVE  LET issues == CycleIssues(graph, sorted)
           IN  /\ issues = {} <=> \A S \in (SUBSET DOMAIN graph) \ {{}} : ~Circular(graph, S)
               /\ \A issue \in issues :
                     /\ issue[2] \in issue[3] /\ issue[3] \subseteq DOMAIN graph
                     /\ Circular(graph, issue[3])
<1>1. PICK s : Searching(graph, s) /\ SearchOver(graph, s) /\ CycleIssues(graph, sorted) = s.issues
  BY SearchFinds
<1>2. \A issue \in s.issues : issue[3] \subseteq DOMAIN graph
  <2> DEFINE D == DOMAIN graph
  <2>1. s \in Searches(D)
    BY <1>1 DEF Searching
  <2> HIDE DEF D
  <2>2. s.issues \in SUBSET ({"cycle"} \X D \X SUBSET D)
    BY <2>1 DEF Searches
  <2>3. \A issue \in s.issues : issue[3] \in SUBSET D
    BY <2>2
  <2>4. QED
    BY <2>3 DEF D
<1>3. \A issue \in s.issues : /\ issue[2] \in issue[3] /\ issue[3] \subseteq DOMAIN graph
                              /\ Circular(graph, issue[3])
  BY <1>1, <1>2 DEF Searching
<1>4. ASSUME s.issues = {}, NEW S \in (SUBSET DOMAIN graph) \ {{}} PROVE ~Circular(graph, S)
  <2>1. Circular(graph, S) => S \cap s.done = {}
    BY <1>1, <1>4 DEF Searching
  <2>2. S \cap s.done = S
    BY <1>1 DEF SearchOver
  <2>3. QED
    BY <1>4, <2>1, <2>2
<1>5. ASSUME s.issues # {} PROVE \E S \in (SUBSET DOMAIN graph) \ {{}} : Circular(graph, S)
  <2>1. PICK issue \in s.issues : TRUE
    BY <1>5
  <2>2. issue[3] \in (SUBSET DOMAIN graph) \ {{}} /\ Circular(graph, issue[3])
    BY <1>3, <2>1
  <2>3. QED
    BY <2>2
<1>6. QED
  BY <1>1, <1>3, <1>4, <1>5

\* Validation and emission agree on circles (validate.py is "intentionally
\* independent" of emit_lowered_lemmas): if the references of a registry pass, the
\* lemmas of every part of it can be put in order, also if some are emitted as
\* axioms and so depend on nothing.  And if all of them can be, they pass.
THEOREM ValidationAgrees ==
    ASSUME NEW X, NEW sorted \in Seq(X), NEW graph, DOMAIN graph \subseteq ToSet(sorted),
           IsFiniteSet(DOMAIN graph), \A l \in DOMAIN graph : graph[l] \subseteq DOMAIN graph
    PROVE  /\ CycleIssues(graph, sorted) = {} =>
                 \A part \in SUBSET DOMAIN graph : \A deps \in [part -> SUBSET part] :
                    (\A l \in part : deps[l] \subseteq graph[l]) =>
                        Len(EmissionOrder(deps, sorted)) = Cardinality(part)
           /\ Len(EmissionOrder(graph, sorted)) = Cardinality(DOMAIN graph) =>
                 CycleIssues(graph, sorted) = {}
<1>1. ASSUME CycleIssues(graph, sorted) = {},
             NEW part \in SUBSET DOMAIN graph, NEW deps \in [part -> SUBSET part],
             \A l \in part : deps[l] \subseteq graph[l]
      PROVE  Len(EmissionOrder(deps, sorted)) = Cardinality(part)
  <2>1. DOMAIN deps = part /\ part \subseteq ToSet(sorted) /\ IsFiniteSet(part)
    BY FS_Subset
  <2>2. \A l \in DOMAIN deps : deps[l] \subseteq DOMAIN deps
    BY <2>1
  <2>3. ASSUME NEW S \in (SUBSET part) \ {{}}, Circular(deps, S) PROVE FALSE
    <3>1. Circular(graph, S)
      BY <1>1, <2>3 DEF Circular
    <3>2. S \in (SUBSET DOMAIN graph) \ {{}}
      OBVIOUS
    <3>3. QED
      BY <1>1, <3>1, <3>2, CirclesAreFound
  <2>4. QED
    BY <2>1, <2>2, <2>3, OrderedUnlessCircular
<1>2. Len(EmissionOrder(graph, sorted)) = Cardinality(DOMAIN graph) => CycleIssues(graph, sorted) = {}
  BY CirclesAreFound, OrderedUnlessCircular
<1>3. QED
  BY <1>1, <1>2
=============================================================================
