--------------------------- MODULE VerifyCommand_proof ---------------------------
(***************************************************************************)
(* Proofs about skfd verify: what resolution leaves registered, what the   *)
(* plan promises the builds, and whose artifacts a command answers for --  *)
(* for all packages, worlds, verifiers and sequences of commands.          *)
(***************************************************************************)
EXTENDS VerifyCommand, PositionLemmas

Phases == {"start", "resolving", "planning", "building", "linking", "emitted", "failed", "ended"}
OpenCalls == {c \in [pkg : Packages \cup {""}, via : {"root", "source", "external"},
                     todo : Seq(Packages)] : c.via # "root" => c.pkg \in Packages}
Verdicts == [verifier : Verifiers, read : Int, end : {"accepted", "rejected", "timeout"}]

ResolutionType ==
    /\ calls \in Seq(OpenCalls)
    /\ phase = "resolving" => calls # <<>>
    /\ raising \in BOOLEAN /\ swallowed \in BOOLEAN
    /\ paths \subseteq Packages /\ externals \subseteq Packages
    /\ Metas \subseteq Packages /\ graph \in [Metas -> Seq(Packages)] /\ IsFiniteSet(Metas)

BuildType ==
    /\ plan \in Seq(Packages)
    /\ covered \subseteq Packages /\ exports \subseteq Packages /\ lirs \subseteq Packages

DriverType ==
    /\ world \in Worlds /\ goal \in Packages /\ session \in Nat \ {0}
    /\ phase \in Phases
    /\ files \in [Packages -> [Kinds -> {Truncated, Absent} \cup 1..session]]
    /\ written \in 0..6

CommandType ==
    /\ active \in Configs /\ missing \subseteq Verifiers
    /\ asked \in 0..Len(active)
    /\ verdicts \in Seq(Verdicts)
    /\ outcome \in {"none", "success", "failure", "killed"}
    /\ killed \subseteq 1..session

TypeOK == DriverType /\ ResolutionType /\ BuildType /\ CommandType

\* Some open call has still to resolve the dependency p.
Waiting(p) == \E n \in 1..Len(calls) : p \in ToSet(calls[n].todo)

\* As long as nothing was swallowed, a dependency that is not registered is one
\* that an open call will come to -- unless an exception is on its way, which
\* then ends the command.
Covered ==
    /\ raising => phase \notin {"planning", "building", "linking", "emitted"}
    /\ phase \in {"resolving", "planning", "building", "linking", "emitted"} /\ ~swallowed =>
          /\ paths \subseteq Metas
          /\ \A p \in paths : graph[p] = world.declared[p]
          /\ ~raising => \A p \in Metas : \A q \in DepsOf(p) :
                            q \in Metas \/ (phase = "resolving" /\ Waiting(q))

\* The plan is a topological order, and what was built is its beginning.
Planned ==
    /\ ToSet(plan) = Metas /\ Len(plan) = Cardinality(Metas)
    /\ \A p \in Metas : \A q \in DepsOf(p) : Precedes(plan, q, p)
    /\ \A n \in DOMAIN plan : plan[n] \in Foundations => n = 1
BuiltInOrder == lirs \subseteq exports /\ \E k \in 0..Len(plan) : lirs = {plan[n] : n \in 1..k}

PlanOK ==
    /\ phase \in {"start", "resolving", "planning"} => lirs = {} /\ exports = {}
    /\ phase \in {"building", "linking", "emitted"} => Planned /\ BuiltInOrder

\* The artifacts that are written already are of this session.
FilesOK ==
    /\ phase \in {"start", "resolving", "planning", "building"} => written = 0
    /\ phase = "linking" =>
          /\ written = 1 => files[goal]["mm"] = Truncated
          /\ written = 3 => files[goal]["map"] = Truncated
          /\ written >= 2 => files[goal]["mm"] = session
          /\ written >= 4 => files[goal]["map"] = session
          /\ written >= 6 => files[goal]["names"] = session
    /\ phase = "emitted" => \A k \in Kinds : files[goal][k] = session

\* Artifact and source map differ where a kill left them, or between the writing
\* of one and the opening of the other.
MixedOnlyByKill ==
    \A p \in Packages :
        LET mm == files[p]["mm"] IN
        mm > 0 /\ files[p]["map"] > 0 /\ mm # files[p]["map"] =>
            mm \in killed \/ (p = goal /\ mm = session /\ phase = "linking" /\ written = 2)

\* Every verifier that was dealt with, and exists, has read this session's artifact.
Asked ==
    /\ phase # "ended" => outcome = "none"
    /\ phase \in {"start", "resolving", "planning", "building", "linking", "failed"} => asked = 0
    /\ phase = "emitted" => \A n \in 1..asked : active[n] \notin missing =>
          \E m \in DOMAIN verdicts : verdicts[m].verifier = active[n] /\ verdicts[m].read = session

IInv == TypeOK /\ Covered /\ PlanOK /\ FilesOK /\ MixedOnlyByKill /\ Asked /\ SuccessIsFresh

-----------------------------------------------------------------------------
(* The open calls *)

\* The innermost call, with and without the dependency it is at.
LEMMA OpenCallsProperties ==
    ASSUME calls \in Seq(OpenCalls), calls # <<>>
    PROVE  /\ Len(calls) \in Nat \ {0} /\ Top = calls[Len(calls)] /\ Top \in OpenCalls
           /\ Front(calls) \in Seq(OpenCalls) /\ Len(Front(calls)) = Len(calls) - 1
           /\ \A n \in 1 .. Len(calls) - 1 : Front(calls)[n] = calls[n]
           /\ Top.todo # <<>> =>
                 /\ Dep \in Packages /\ Dep = Top.todo[1]
                 /\ Tail(Top.todo) \in Seq(Packages)
                 /\ AfterDep \in Seq(OpenCalls) /\ AfterDep # <<>>
<1>1. /\ Len(calls) \in Nat \ {0} /\ Top = calls[Len(calls)] /\ Top \in OpenCalls
      /\ Front(calls) \in Seq(OpenCalls) /\ Len(Front(calls)) = Len(calls) - 1
      /\ \A n \in 1 .. Len(calls) - 1 : Front(calls)[n] = calls[n]
  BY DEF Top, Last, Front
<1>2. ASSUME Top.todo # <<>>
      PROVE  /\ Dep \in Packages /\ Dep = Top.todo[1] /\ Tail(Top.todo) \in Seq(Packages)
             /\ AfterDep \in Seq(OpenCalls) /\ AfterDep # <<>>
  <2>1. Top.todo \in Seq(Packages)
    BY <1>1 DEF OpenCalls
  <2>2. Dep \in Packages /\ Dep = Top.todo[1] /\ Tail(Top.todo) \in Seq(Packages)
    BY <1>2, <2>1 DEF Dep
  <2>3. [Top EXCEPT !.todo = Tail(@)] \in OpenCalls
    BY <1>1, <2>2 DEF OpenCalls
  <2>4. AfterDep \in Seq(OpenCalls) /\ AfterDep # <<>>
    BY <1>1, <2>3 DEF AfterDep
  <2>5. QED
    BY <2>2, <2>4
<1>3. QED
  BY <1>1, <1>2

\* Registering a package adds one node to the graph.
LEMMA RegisterProperties ==
    ASSUME Metas \subseteq Packages, graph \in [Metas -> Seq(Packages)], IsFiniteSet(Metas),
           NEW p \in Packages, NEW deps \in Seq(Packages), Register(p, deps)
    PROVE  /\ Metas' = Metas \cup {p} /\ Metas' \subseteq Packages
           /\ graph' \in [Metas' -> Seq(Packages)] /\ IsFiniteSet(Metas')
           /\ graph'[p] = deps /\ \A q \in Metas : q # p => graph'[q] = graph[q]
<1>1. IsFiniteSet(Metas \cup {p})
  BY FS_AddElement
<1>2. QED
  BY <1>1 DEF Register, Metas

\* While a package is to be built, it is one of the plan.
LEMMA BuiltInRange ==
    ASSUME plan \in Seq(Packages)
    PROVE  /\ Built \in 0..Len(plan)
           /\ Built < Len(plan) => Built + 1 \in 1..Len(plan)
<1>1. Len(plan) \in Nat /\ DOMAIN plan = 1..Len(plan)
  OBVIOUS
<1>2. IsFiniteSet(1..Len(plan)) /\ Cardinality(1..Len(plan)) = Len(plan)
  BY <1>1, FS_Interval
<1>3. Built \in Nat /\ Built <= Len(plan)
  BY <1>1, <1>2, FS_Subset, FS_CardinalityType DEF Built
<1>4. QED
  BY <1>1, <1>3

-----------------------------------------------------------------------------
(* Types *)

LEMMA WorldType ==
    ASSUME NEW w \in Worlds
    PROVE  /\ w.local \in Seq(Packages) /\ w.sources \subseteq Packages /\ w.installed \subseteq Packages
           /\ w.declared \in [Packages -> Seq(Packages)] /\ w.required \in [Packages -> Seq(Packages)]
BY DriverAssumption

LEMMA ConfigType == ASSUME NEW c \in Configs PROVE c \in Seq(Verifiers) /\ Len(c) \in Nat
BY CommandAssumption

LEMMA KindsAre == Kinds = {"mm", "map", "names"}
BY DEF Kinds, FileOrder, ToSet

LEMMA FileIs ==
    ASSUME written \in 0..6
    PROVE  /\ written \in {0, 1} => File = "mm"
           /\ written \in {2, 3} => File = "map"
           /\ written \in {4, 5} => File = "names"
           /\ written % 2 = 0 /\ written < 6 => written \in {0, 2, 4}
           /\ written % 2 = 1 => written \in {1, 3, 5}
<1>1. written \in {0, 1, 2, 3, 4, 5, 6}
  OBVIOUS
<1>2. QED
  BY <1>1 DEF File, FileOrder

\* A new runner and no artifacts.
LEMMA InitType == CommandInit => TypeOK
<1> SUFFICES ASSUME CommandInit PROVE TypeOK
  OBVIOUS
<1>1. Metas = {} /\ IsFiniteSet({})
  BY FS_EmptySet DEF CommandInit, Init, NoGraph, Metas
<1>2. ResolutionType
  <2>1. graph \in [{} -> Seq(Packages)]
    BY DEF CommandInit, Init, NoGraph
  <2>2. calls = <<>> /\ calls \in Seq(OpenCalls) /\ phase = "start" /\ paths = {} /\ externals = {}
    BY DEF CommandInit, Init
  <2>3. QED
    BY <1>1, <2>1, <2>2 DEF CommandInit, Init, ResolutionType
<1>3. BuildType /\ DriverType
  BY DEF CommandInit, Init, BuildType, DriverType, Phases
<1>4. CommandType
  BY ConfigType DEF CommandInit, Init, CommandType
<1>5. QED
  BY <1>2, <1>3, <1>4 DEF TypeOK

\* The driver's part of the types, whatever the command around it does.
LEMMA DriverStepType == ASSUME TypeOK, RunDriver PROVE DriverType' /\ ResolutionType' /\ BuildType'
<1> USE DEF TypeOK, DriverType, Phases, setting
<1>1. CASE Discover
  <2>1. world \in Worlds /\ world.local \in Seq(Packages) /\ world.declared \in [Packages -> Seq(Packages)]
    BY WorldType
  <2>2. ToSet(world.local) \subseteq Packages /\ IsFiniteSet(ToSet(world.local))
    <3>1. IsFiniteSet(ToSet(world.local))
      BY <2>1, ElementsFinite
    <3>2. ToSet(world.local) \subseteq Packages
      BY <2>1 DEF ToSet
    <3>3. QED
      BY <3>1, <3>2
  <2>3. graph' \in [ToSet(world.local) -> Seq(Packages)] /\ Metas' = ToSet(world.local)
    BY <1>1, <2>1, <2>2 DEF Discover, Metas
  <2> DEFINE all == [n \in DOMAIN world.local |-> world.declared[world.local[n]]]
  <2>4. all \in Seq(Seq(Packages))
    <3> DEFINE local == world.local
    <3>1. /\ Len(local) \in Nat /\ DOMAIN local = 1..Len(local)
          /\ \A n \in 1..Len(local) : local[n] \in Packages
      BY <2>1
    <3>2. \A n \in 1..Len(local) : world.declared[local[n]] \in Seq(Packages)
      BY <2>1, <3>1
    <3>3. all = [n \in 1..Len(local) |-> world.declared[local[n]]]
      BY <3>1
    <3> HIDE DEF all, local
    <3>4. QED
      BY <3>1, <3>2, <3>3
  <2>5. FlattenSeq(all) \in Seq(Packages)
    BY <2>4, FlattenElements
  <2> HIDE DEF all
  <2>6. Call("", "root", FlattenSeq(all)) \in OpenCalls
    BY <2>5 DEF Call, OpenCalls
  <2>7. calls' \in Seq(OpenCalls) /\ calls' # <<>>
    <3>1. PICK c \in OpenCalls : calls' = <<c>>
      BY <1>1, <2>6 DEF Discover, all
    <3>2. QED
      BY <3>1
  <2>8. ResolutionType'
    BY <1>1, <2>2, <2>3, <2>7 DEF Discover, ResolutionType
  <2>9. DriverType' /\ BuildType'
    BY <1>1 DEF Discover, BuildType, builds
  <2>10. QED
    BY <2>8, <2>9
<1>2. CASE ResolveKnown
  <2>1. AfterDep \in Seq(OpenCalls) /\ AfterDep # <<>>
    BY <1>2, OpenCallsProperties DEF ResolveKnown, Resolving, ResolutionType
  <2>2. QED
    BY <1>2, <2>1 DEF ResolveKnown, BuildType, ResolutionType, builds, Metas
<1>3. CASE ResolveSource
  <2>1. Dep \in Packages /\ AfterDep \in Seq(OpenCalls) /\ AfterDep # <<>>
    BY <1>3, OpenCallsProperties DEF ResolveSource, Resolving, ResolutionType
  <2>2. world.declared[Dep] \in Seq(Packages)
    BY <2>1, WorldType
  <2>3. Metas' \subseteq Packages /\ graph' \in [Metas' -> Seq(Packages)] /\ IsFiniteSet(Metas')
    BY <1>3, <2>1, <2>2, RegisterProperties DEF ResolveSource, ResolutionType
  <2>4. SourceCall(Dep) \in OpenCalls
    BY <2>1, <2>2 DEF SourceCall, Call, OpenCalls
  <2>5. calls' \in Seq(OpenCalls) /\ calls' # <<>>
    BY <1>3, <2>1, <2>4 DEF ResolveSource
  <2>6. ResolutionType'
    BY <1>3, <2>1, <2>3, <2>5 DEF ResolveSource, ResolutionType
  <2>7. QED
    BY <1>3, <2>6 DEF ResolveSource, BuildType, builds
<1>4. CASE ResolveExternal
  <2>1. Dep \in Packages /\ AfterDep \in Seq(OpenCalls) /\ AfterDep # <<>>
    BY <1>4, OpenCallsProperties DEF ResolveExternal, Resolving, ResolutionType
  <2>2. world.required[Dep] \in Seq(Packages)
    BY <2>1, WorldType
  <2>3. Metas' \subseteq Packages /\ graph' \in [Metas' -> Seq(Packages)] /\ IsFiniteSet(Metas')
    BY <1>4, <2>1, <2>2, RegisterProperties DEF ResolveExternal, LoadExternal, ResolutionType
  <2>4. Call(Dep, "external", world.required[Dep]) \in OpenCalls
    BY <2>1, <2>2 DEF Call, OpenCalls
  <2>5. calls' \in Seq(OpenCalls) /\ calls' # <<>>
    BY <1>4, <2>1, <2>4 DEF ResolveExternal
  <2>6. ResolutionType'
    BY <1>4, <2>1, <2>3, <2>5 DEF ResolveExternal, LoadExternal, ResolutionType
  <2>7. QED
    BY <1>4, <2>6 DEF ResolveExternal, BuildType, builds
<1>5. CASE ResolveRaises
  BY <1>5 DEF ResolveRaises, BuildType, ResolutionType, builds, Metas
<1>6. CASE Unwind
  <2>1. /\ Len(calls) \in Nat \ {0} /\ Top \in OpenCalls
        /\ Front(calls) \in Seq(OpenCalls) /\ Len(Front(calls)) = Len(calls) - 1
    BY <1>6, OpenCallsProperties DEF Unwind, ResolutionType
  <2>2. ASSUME Top.via = "source", LoadExternal(Top.pkg), UNCHANGED phase, raising' = FALSE,
               calls' = Append(Front(calls), Call(Top.pkg, "external", world.required[Top.pkg]))
        PROVE  ResolutionType'
    <3>1. Top.pkg \in Packages
      BY <2>1, <2>2 DEF OpenCalls
    <3>2. world.required[Top.pkg] \in Seq(Packages)
      BY <3>1, WorldType
    <3>3. Metas' \subseteq Packages /\ graph' \in [Metas' -> Seq(Packages)] /\ IsFiniteSet(Metas')
      BY <2>2, <3>1, <3>2, RegisterProperties DEF LoadExternal, ResolutionType
    <3>4. Call(Top.pkg, "external", world.required[Top.pkg]) \in OpenCalls
      BY <3>1, <3>2 DEF Call, OpenCalls
    <3>5. calls' \in Seq(OpenCalls) /\ calls' # <<>>
      BY <2>1, <2>2, <3>4
    <3>6. QED
      BY <1>6, <2>2, <3>1, <3>3, <3>5 DEF Unwind, LoadExternal, ResolutionType
  <2>3. ASSUME calls' = Front(calls), IF Len(calls) = 1 THEN Fail ELSE UNCHANGED phase,
               UNCHANGED <<raising, externals, graph>>
        PROVE  ResolutionType'
    <3>1. phase' = "resolving" => calls' # <<>>
      BY <2>1, <2>3 DEF Fail
    <3>2. QED
      BY <1>6, <2>1, <2>3, <3>1 DEF Unwind, ResolutionType, Metas
  <2>4. ResolutionType'
    BY <1>6, <2>2, <2>3 DEF Unwind
  <2>5. DriverType' /\ BuildType'
    BY <1>6 DEF Unwind, BuildType, builds, Fail
  <2>6. QED
    BY <2>4, <2>5
<1>7. CASE Return
  <2>1. /\ Len(calls) \in Nat \ {0}
        /\ Front(calls) \in Seq(OpenCalls) /\ Len(Front(calls)) = Len(calls) - 1
    BY <1>7, OpenCallsProperties DEF Return, ResolutionType
  <2>2. phase' = "resolving" => calls' # <<>>
    BY <1>7, <2>1 DEF Return
  <2>3. QED
    BY <1>7, <2>1, <2>2 DEF Return, BuildType, ResolutionType, builds, Metas
<1>8. CASE Plan
  <2>1. plan' \in Seq(Packages)
    <3>1. CASE UNCHANGED plan
      BY <3>1 DEF BuildType
    <3>2. CASE Nodes \subseteq Metas /\ \E order \in TopologicalOrders : plan' = FoundationFirst(order)
      <4>1. PICK order \in [1 .. Cardinality(Nodes) -> Nodes] : plan' = FoundationFirst(order)
        BY <3>2 DEF TopologicalOrders
      <4>2. Nodes \subseteq Packages /\ IsFiniteSet(Nodes)
        BY <3>2, FS_Subset DEF ResolutionType
      <4>3. Cardinality(Nodes) \in Nat
        BY <4>2, FS_CardinalityType
      <4>4. order \in Seq(Packages)
        BY <4>1, <4>2, <4>3
      <4>5. \A S : At(order, S) \in Seq(Packages)
        BY <4>4, AtElements
      <4>6. QED
        BY <4>1, <4>5 DEF FoundationFirst
    <3>3. QED
      BY <1>8, <3>1, <3>2 DEF Plan
  <2>2. QED
    BY <1>8, <2>1 DEF Plan, BuildType, ResolutionType, builds, resolution, Metas, Fail
<1>9. CASE BuildRaises
  BY <1>9 DEF BuildRaises, BuildType, ResolutionType, builds, resolution, Metas, Fail
<1>10. CASE BuildPackage
  <2>1. Next1 \in Packages
    BY <1>10, BuiltInRange DEF BuildPackage, Building, BuildType, Next1
  <2>2. BuildType'
    BY <1>10, <2>1 DEF BuildPackage, BuildType
  <2>3. QED
    BY <1>10, <2>2 DEF BuildPackage, ResolutionType, resolution, Metas, Fail
<1>11. CASE StartVerify
  BY <1>11 DEF StartVerify, BuildType, ResolutionType, builds, resolution, Metas, Fail
<1>12. CASE OpenFile \/ WriteFile
  <2>1. File \in Kinds /\ written + 1 \in 0..6
    BY <1>12, FileIs, KindsAre DEF OpenFile, WriteFile
  <2>2. ASSUME NEW c \in {Truncated, session}, Write(c) PROVE DriverType'
    BY <1>12, <2>1, <2>2 DEF Write, OpenFile, WriteFile
  <2>3. DriverType'
    BY <1>12, <2>2 DEF OpenFile, WriteFile
  <2>4. QED
    BY <1>12, <2>3 DEF Write, OpenFile, WriteFile, BuildType, ResolutionType, builds, resolution, Metas
<1>13. CASE LinkFails
  BY <1>13 DEF LinkFails, BuildType, ResolutionType, builds, resolution, Metas, Fail
<1>14. CASE Emitted
  BY <1>14 DEF Emitted, BuildType, ResolutionType, builds, resolution, Metas
<1>15. CASE DiscoverFails
  <2>1. world.local \in Seq(Packages) /\ world.declared \in [Packages -> Seq(Packages)]
    BY WorldType
  <2>2. PICK n \in 0 .. Len(world.local) - 1 :
           /\ paths' = ToSet(SubSeq(world.local, 1, n))
           /\ graph' = [p \in ToSet(SubSeq(world.local, 1, n)) |-> world.declared[p]]
    BY <1>15 DEF DiscoverFails
  <2> DEFINE found == ToSet(SubSeq(world.local, 1, n))
  <2>3. IsFiniteSet(found) /\ found \subseteq Packages
    <3>1. PICK s \in Seq(Packages) : s = SubSeq(world.local, 1, n)
      <4>1. n \in Nat /\ n <= Len(world.local)
        BY <2>1, <2>2, LenProperties
      <4>2. \A i \in 1 .. n : world.local[i] \in Packages
        BY <2>1, <4>1, LenProperties, ElementOfSeq
      <4>3. SubSeq(world.local, 1, n) \in Seq(Packages)
        BY <2>1, <4>1, <4>2, SubSeqProperties
      <4>4. QED
        BY <4>3
    <3>2. found = ToSet(s)
      BY <3>1
    <3>3. IsFiniteSet(ToSet(s))
      BY ElementsFinite
    <3>4. ToSet(s) \subseteq Packages
      BY LenProperties, ElementOfSeq DEF ToSet
    <3>5. QED
      BY <3>2, <3>3, <3>4
  <2> HIDE DEF found
  <2>4. graph' \in [found -> Seq(Packages)] /\ Metas' = found
    BY <2>1, <2>2, <2>3 DEF Metas, found
  <2>5. phase' = "failed" /\ UNCHANGED <<setting, calls, raising, swallowed, externals, plan, builds,
                                        files, written>> /\ phase = "start"
    BY <1>15 DEF DiscoverFails, Fail
  <2>6. ResolutionType'
    BY <2>2, <2>3, <2>4, <2>5 DEF ResolutionType, found
  <2>7. DriverType' /\ BuildType'
    BY <2>5 DEF BuildType, builds
  <2>8. QED
    BY <2>6, <2>7
<1>16. QED
  BY <1>1, <1>2, <1>3, <1>4, <1>5, <1>6, <1>7, <1>8, <1>9, <1>10, <1>11, <1>12, <1>13, <1>14, <1>15
  DEF RunDriver

\* Every step keeps the types.
LEMMA TypeStep == ASSUME TypeOK, [Next]_allVars PROVE TypeOK'
<1> USE DEF TypeOK
<1>1. CASE DriverStep
  <2>1. DriverType' /\ ResolutionType' /\ BuildType'
    BY <1>1, DriverStepType DEF DriverStep
  <2>2. session' = session
    BY <1>1 DEF DriverStep, RunDriver, setting, Discover, DiscoverFails, ResolveKnown, ResolveSource, ResolveExternal,
       ResolveRaises, Unwind, Return, Plan, BuildRaises, BuildPackage, StartVerify, OpenFile, WriteFile,
       Write, LinkFails, Emitted
  <2>3. CommandType'
    BY <1>1, <2>2 DEF DriverStep, command, CommandType
  <2>4. QED
    BY <2>1, <2>3
<1>2. ASSUME DriverFailed \/ CoverageFails \/ SkipMissing \/ RunVerifier \/ Summarize \/ Kill
      PROVE  TypeOK'
  <2>1. UnchangedDriver /\ phase' \in {phase, "ended"}
    BY <1>2 DEF DriverFailed, CoverageFails, SkipMissing, RunVerifier, Summarize, Kill, End
  <2>2. DriverType' /\ ResolutionType' /\ BuildType'
    BY <2>1 DEF UnchangedDriver, setting, resolution, builds, DriverType, ResolutionType, BuildType,
       Phases, Metas
  <2>3. active' = active /\ missing' = missing /\ active \in Seq(Verifiers) /\ session' = session
    BY <1>2, <2>1, ConfigType DEF DriverFailed, CoverageFails, SkipMissing, RunVerifier, Summarize, Kill,
       UnchangedDriver, setting, CommandType
  <2>4. asked' \in 0..Len(active)
    BY <1>2, <2>3 DEF DriverFailed, CoverageFails, SkipMissing, RunVerifier, Summarize, Kill, CommandType, Asking
  <2>5. verdicts' \in Seq(Verdicts)
    <3>1. CASE RunVerifier
      <4>1. files[goal]["mm"] \in Int
        BY KindsAre DEF DriverType, Truncated, Absent
      <4>2. Verifier \in Verifiers
        BY <2>3, <3>1 DEF RunVerifier, Asking, Verifier, CommandType
      <4>3. ASSUME NEW end \in {"accepted", "rejected", "timeout"}
            PROVE  [n \in DOMAIN Verdict(end) |-> [verifier |-> Verifier, read |-> files[goal]["mm"], end |-> end]]
                       \in Seq(Verdicts)
        <5>1. [verifier |-> Verifier, read |-> files[goal]["mm"], end |-> end] \in Verdicts
          BY <4>1, <4>2, <4>3 DEF Verdicts
        <5>2. DOMAIN Verdict(end) = 1..1
          BY DEF Verdict
        <5> DEFINE v == [verifier |-> Verifier, read |-> files[goal]["mm"], end |-> end]
        <5> HIDE DEF v
        <5>3. [n \in 1..1 |-> v] \in Seq(Verdicts)
          BY <5>1 DEF v
        <5>4. QED
          BY <5>2, <5>3 DEF v
      <4>4. QED
        <5>1. PICK end \in {"accepted", "rejected", "timeout"} :
                 verdicts' = verdicts \o
                     [n \in DOMAIN Verdict(end) |-> [verifier |-> Verifier, read |-> files[goal]["mm"], end |-> end]]
          BY <3>1 DEF RunVerifier
        <5>2. verdicts \in Seq(Verdicts)
          BY DEF CommandType
        <5>3. QED
          BY <4>3, <5>1, <5>2, ConcatProperties
    <3>2. CASE ~RunVerifier
      BY <1>2, <3>2 DEF DriverFailed, CoverageFails, SkipMissing, Summarize, Kill, CommandType
    <3>3. QED
      BY <3>1, <3>2
  <2>6. outcome' \in {"none", "success", "failure", "killed"} /\ killed' \subseteq 1..session
    <3>1. session \in 1..session
      BY DEF DriverType
    <3>2. QED
      BY <1>2, <3>1 DEF DriverFailed, CoverageFails, SkipMissing, RunVerifier, Summarize, Kill, End, CommandType
  <2>7. QED
    BY <2>2, <2>3, <2>4, <2>5, <2>6 DEF CommandType
<1>3. CASE NextCommand
  <2>1. session' \in Nat \ {0} /\ 1..session \subseteq 1..session'
    BY <1>3 DEF NextCommand, DriverType
  <2>2. DriverType'
    BY <1>3, <2>1 DEF NextCommand, NewRunner, DriverType, Phases
  <2>3. ResolutionType'
    <3>1. Metas' = {} /\ IsFiniteSet({})
      BY <1>3, FS_EmptySet DEF NextCommand, NewRunner, NoGraph, Metas
    <3>2. graph' \in [{} -> Seq(Packages)]
      BY <1>3 DEF NextCommand, NewRunner, NoGraph
    <3>3. calls' = <<>> /\ calls' \in Seq(OpenCalls) /\ phase' = "start" /\ paths' = {} /\ externals' = {}
      BY <1>3 DEF NextCommand, NewRunner
    <3>4. QED
      BY <1>3, <3>1, <3>2, <3>3 DEF NextCommand, NewRunner, ResolutionType
  <2>4. BuildType'
    BY <1>3 DEF NextCommand, NewRunner, BuildType
  <2>5. CommandType'
    BY <1>3, <2>1, ConfigType DEF NextCommand, CommandType
  <2>6. QED
    BY <2>2, <2>3, <2>4, <2>5
<1>4. CASE UNCHANGED allVars
  BY <1>4 DEF allVars, vars, command, DriverType, ResolutionType, BuildType, CommandType, Metas
<1>5. QED
  BY <1>1, <1>2, <1>3, <1>4 DEF Next, Step

-----------------------------------------------------------------------------
(* Whose artifacts these are *)

\* The steps that are not about files, and what they leave as it is.
LEMMA QuietSteps ==
    ASSUME RunDriver, ~OpenFile, ~WriteFile
    PROVE  /\ UNCHANGED <<goal, session, files, written>>
           /\ phase' = phase \/ phase' = "failed"
                 \/ <<phase, phase'>> \in {<<"start", "resolving">>, <<"resolving", "planning">>,
                                         <<"planning", "building">>, <<"building", "linking">>,
                                         <<"linking", "emitted">>}
           /\ phase = "linking" => \/ phase' = "failed" /\ written % 2 = 1 /\ File = "mm"
                                   \/ phase' = "emitted" /\ written = 6
           /\ phase \in {"start", "resolving", "planning", "building", "linking"}
<1> USE DEF setting
<1>1. CASE \/ Discover \/ DiscoverFails
            \/ ResolveKnown \/ ResolveSource \/ ResolveExternal \/ ResolveRaises
  BY <1>1 DEF Discover, DiscoverFails, ResolveKnown, ResolveSource, ResolveExternal, ResolveRaises,
              Resolving, Fail
<1>2. CASE Unwind
  BY <1>2 DEF Unwind, Fail
<1>3. CASE Return
  BY <1>3 DEF Return
<1>4. CASE Plan
  BY <1>4 DEF Plan, Fail
<1>5. CASE BuildRaises \/ BuildPackage
  <2>1. phase = "building" /\ phase' \in {phase, "failed"}
    BY <1>5 DEF BuildRaises, BuildPackage, Building, Fail
  <2>2. UNCHANGED <<goal, session, files, written>>
    BY <1>5 DEF BuildRaises, BuildPackage
  <2>3. QED
    BY <2>1, <2>2
<1>6. CASE StartVerify
  <2>1. phase = "building" /\ phase' \in {"linking", "failed"}
    BY <1>6 DEF StartVerify, Fail
  <2>2. UNCHANGED <<goal, session, files, written>>
    BY <1>6 DEF StartVerify
  <2>3. QED
    BY <2>1, <2>2
<1>7. CASE LinkFails
  <2>1. phase = "linking" /\ phase' = "failed" /\ written % 2 = 1 /\ File = "mm"
    BY <1>7, Zenon DEF LinkFails, Fail
  <2>2. UNCHANGED <<goal, session, files, written>>
    BY <1>7, Zenon DEF LinkFails
  <2>3. QED
    BY <2>1, <2>2
<1>8. CASE Emitted
  BY <1>8 DEF Emitted
<1>9. QED
  BY <1>1, <1>2, <1>3, <1>4, <1>5, <1>6, <1>7, <1>8 DEF RunDriver

LEMMA FilesStep ==
    ASSUME TypeOK, FilesOK, MixedOnlyByKill, [Next]_allVars
    PROVE  FilesOK' /\ MixedOnlyByKill'
<1> USE DEF TypeOK, DriverType
<1>0. Kinds = {"mm", "map", "names"}
  BY KindsAre
<1>1. CASE DriverStep /\ (OpenFile \/ WriteFile)
  <2>1. /\ phase = "linking" /\ phase' = "linking" /\ written' = written + 1
        /\ goal' = goal /\ session' = session /\ killed' = killed
        /\ \/ written \in {0, 2, 4} /\ files' = [files EXCEPT ![goal][File] = Truncated]
           \/ written \in {1, 3, 5} /\ files' = [files EXCEPT ![goal][File] = session]
    BY <1>1, FileIs DEF DriverStep, OpenFile, WriteFile, Write, setting, command
  <2>2. /\ written \in {0, 1} => File = "mm"
        /\ written \in {2, 3} => File = "map"
        /\ written \in {4, 5} => File = "names"
    BY FileIs
  <2>3. FilesOK'
    BY <1>0, <2>1, <2>2 DEF FilesOK
  <2>4. ASSUME NEW p \in Packages, files'[p]["mm"] > 0, files'[p]["map"] > 0,
               files'[p]["mm"] # files'[p]["map"]
        PROVE  \/ files'[p]["mm"] \in killed
               \/ p = goal /\ files'[p]["mm"] = session /\ written' = 2
    <3>1. CASE p # goal
      BY <1>0, <2>1, <2>4, <3>1 DEF MixedOnlyByKill
    <3>2. CASE p = goal
      BY <1>0, <2>1, <2>2, <2>4, <3>2 DEF FilesOK, Truncated
    <3>3. QED
      BY <3>1, <3>2
  <2>5. QED
    BY <2>1, <2>3, <2>4 DEF MixedOnlyByKill
<1>2. CASE DriverStep /\ ~OpenFile /\ ~WriteFile
  <2>1. RunDriver /\ killed' = killed
    BY <1>2 DEF DriverStep, command
  <2>2. FilesOK'
    BY <1>0, <1>2, <2>1, QuietSteps DEF FilesOK
  <2>3. phase = "linking" => (phase' = "failed" /\ written = 1) \/ (phase' = "emitted" /\ written = 6)
    BY <1>2, <2>1, QuietSteps, FileIs
  <2>4. MixedOnlyByKill'
    BY <1>0, <1>2, <2>1, <2>3, QuietSteps DEF MixedOnlyByKill
  <2>5. QED
    BY <2>2, <2>4
<1>3. CASE DriverFailed \/ CoverageFails \/ SkipMissing \/ RunVerifier \/ Summarize
  <2>1. /\ UNCHANGED <<goal, session, files, written, killed>>
        /\ phase \in {"failed", "emitted"} /\ phase' \in {phase, "ended"}
    BY <1>3 DEF DriverFailed, CoverageFails, SkipMissing, RunVerifier, Summarize, Asking, End,
       UnchangedDriver, setting
  <2>2. QED
    BY <1>0, <2>1 DEF FilesOK, MixedOnlyByKill
<1>4. CASE Kill
  <2>1. UNCHANGED <<goal, session, files, written>> /\ phase' = "ended" /\ killed' = killed \cup {session}
    BY <1>4 DEF Kill, End, UnchangedDriver, setting
  <2>2. QED
    BY <2>1 DEF FilesOK, MixedOnlyByKill
<1>5. CASE NextCommand
  <2>1. files' = files /\ killed' = killed /\ phase = "ended" /\ phase' = "start" /\ written' = 0
    BY <1>5 DEF NextCommand, NewRunner
  <2>2. QED
    BY <2>1 DEF FilesOK, MixedOnlyByKill
<1>6. CASE UNCHANGED allVars
  BY <1>6 DEF allVars, vars, command, FilesOK, MixedOnlyByKill, Kinds
<1>7. QED
  BY <1>1, <1>2, <1>3, <1>4, <1>5, <1>6 DEF Next, Step, DriverStep, RunDriver

-----------------------------------------------------------------------------
(* What success says *)

LEMMA AskedStep ==
    ASSUME TypeOK, FilesOK, Asked, SuccessIsFresh, [Next]_allVars
    PROVE  Asked' /\ SuccessIsFresh'
<1> USE DEF TypeOK, DriverType, CommandType
<1>0. active \in Seq(Verifiers) /\ Len(active) \in Nat /\ DOMAIN active = 1..Len(active)
  BY ConfigType
<1>1. CASE DriverStep
  <2>1. UNCHANGED <<active, missing, asked, verdicts, outcome>> /\ RunDriver
    BY <1>1 DEF DriverStep, command
  <2>2. phase' # "ended" /\ phase \in {"start", "resolving", "planning", "building", "linking"}
    <3>1. CASE OpenFile \/ WriteFile
      BY <3>1 DEF OpenFile, WriteFile
    <3>2. CASE ~OpenFile /\ ~WriteFile
      BY <2>1, <3>2, QuietSteps
    <3>3. QED
      BY <3>1, <3>2
  <2>3. asked = 0 /\ outcome = "none"
    BY <2>2 DEF Asked
  <2>4. QED
    BY <2>1, <2>2, <2>3 DEF Asked, SuccessIsFresh
<1>2. CASE DriverFailed \/ CoverageFails \/ Kill
  BY <1>2 DEF DriverFailed, CoverageFails, Kill, End, Asked, SuccessIsFresh
<1>3. CASE SkipMissing
  <2>1. /\ phase = "emitted" /\ phase' = phase /\ active[asked + 1] \in missing /\ asked' = asked + 1
        /\ UNCHANGED <<active, missing, verdicts, outcome, session>>
    BY <1>3 DEF SkipMissing, Asking, Verifier, UnchangedDriver, setting
  <2>2. \A n \in 1..asked' : n \in 1..asked \/ n = asked + 1
    BY <2>1
  <2>3. QED
    BY <2>1, <2>2 DEF Asked, SuccessIsFresh
<1>4. CASE RunVerifier
  <2>1. /\ phase = "emitted" /\ phase' = phase /\ asked' = asked + 1
        /\ UNCHANGED <<active, missing, outcome, session>>
    BY <1>4 DEF RunVerifier, Asking, UnchangedDriver, setting
  <2>2. \A n \in 1..asked' : n \in 1..asked \/ n = asked + 1
    BY <2>1
  <2>3. PICK v : v.verifier = active[asked + 1] /\ v.read = session /\ verdicts' = verdicts \o <<v>>
    <3>1. files[goal]["mm"] = session
      BY <2>1, KindsAre DEF FilesOK
    <3>2. PICK end \in {"accepted", "rejected", "timeout"} :
             verdicts' = verdicts \o
                 [n \in DOMAIN Verdict(end) |-> [verifier |-> Verifier, read |-> files[goal]["mm"], end |-> end]]
      BY <1>4 DEF RunVerifier
    <3> DEFINE v == [verifier |-> Verifier, read |-> files[goal]["mm"], end |-> end]
    <3>3. DOMAIN Verdict(end) = 1..1
      BY DEF Verdict
    <3>4. v.verifier = active[asked + 1] /\ v.read = session
      BY <3>1 DEF Verifier
    <3>5. verdicts' = verdicts \o [n \in 1..1 |-> v]
      BY <3>2, <3>3
    <3> HIDE DEF v
    <3>6. [n \in 1..1 |-> v] = <<v>>
      OBVIOUS
    <3>7. QED
      BY <3>4, <3>5, <3>6
  <2>4. /\ verdicts'[Len(verdicts) + 1] = v /\ Len(verdicts) + 1 \in DOMAIN verdicts'
        /\ \A m \in DOMAIN verdicts : m \in DOMAIN verdicts' /\ verdicts'[m] = verdicts[m]
    BY <2>3
  <2>5. \A n \in 1..asked' : active[n] \notin missing =>
          \E m \in DOMAIN verdicts' : verdicts'[m].verifier = active[n] /\ verdicts'[m].read = session
    <3>1. SUFFICES ASSUME NEW n \in 1..asked', active[n] \notin missing
                   PROVE  \E m \in DOMAIN verdicts' :
                             verdicts'[m].verifier = active[n] /\ verdicts'[m].read = session
      OBVIOUS
    <3>2. CASE n \in 1..asked
      BY <2>1, <2>4, <3>1, <3>2 DEF Asked
    <3>3. CASE n = asked + 1
      BY <2>3, <2>4, <3>3
    <3>4. QED
      BY <2>2, <3>2, <3>3
  <2>6. outcome' = "none"
    BY <2>1 DEF Asked
  <2>7. QED
    BY <2>1, <2>5, <2>6 DEF Asked, SuccessIsFresh
<1>5. CASE Summarize
  <2>1. /\ phase = "emitted" /\ phase' = "ended" /\ asked = Len(active)
        /\ outcome' = IF AllPassed THEN "success" ELSE "failure"
        /\ UNCHANGED <<active, missing, asked, verdicts, files, goal, session>>
    BY <1>5 DEF Summarize, End, UnchangedDriver, setting
  <2>2. ASSUME AllPassed, NEW v \in ToSet(active) \ missing
        PROVE  \E n \in DOMAIN verdicts : verdicts[n] = [verifier |-> v, read |-> session, end |-> "accepted"]
    <3>1. PICK n \in 1..Len(active) : active[n] = v
      BY <1>0, <2>2 DEF ToSet
    <3>2. PICK m \in DOMAIN verdicts : verdicts[m].verifier = v /\ verdicts[m].read = session
      BY <2>1, <2>2, <3>1 DEF Asked
    <3>3. verdicts[m] \in Verdicts /\ verdicts[m].end = "accepted"
      BY <2>2, <3>2, ElementOfSeq DEF AllPassed
    <3>4. verdicts[m] = [verifier |-> v, read |-> session, end |-> "accepted"]
      BY <3>2, <3>3 DEF Verdicts
    <3>5. QED
      BY <3>4
  <2>3. \A k \in Kinds : files[goal][k] = session
    BY <2>1 DEF FilesOK
  <2>4. SuccessIsFresh'
    BY <2>1, <2>2, <2>3 DEF SuccessIsFresh, Kinds
  <2>5. QED
    BY <2>1, <2>4 DEF Asked
<1>6. CASE NextCommand
  BY <1>6 DEF NextCommand, NewRunner, Asked, SuccessIsFresh
<1>7. CASE UNCHANGED allVars
  BY <1>7 DEF allVars, vars, command, Asked, SuccessIsFresh, Kinds
<1>8. QED
  BY <1>1, <1>2, <1>3, <1>4, <1>5, <1>6, <1>7 DEF Next, Step

-----------------------------------------------------------------------------
(* Resolution *)

\* Going on to the next dependency leaves all others waiting, and so does
\* returning from a call that has none left.
LEMMA WaitingKept ==
    ASSUME calls \in Seq(OpenCalls), calls # <<>>, NEW p, Waiting(p)
    PROVE  /\ Top.todo # <<>> => p = Dep \/ \E n \in 1..Len(AfterDep) : p \in ToSet(AfterDep[n].todo)
           /\ Top.todo = <<>> => \E n \in 1 .. Len(calls) - 1 : p \in ToSet(calls[n].todo)
<1>1. PICK n \in 1..Len(calls) : p \in ToSet(calls[n].todo)
  BY DEF Waiting
<1>2. /\ Len(calls) \in Nat \ {0} /\ Top = calls[Len(calls)] /\ Top \in OpenCalls
      /\ Front(calls) \in Seq(OpenCalls) /\ Len(Front(calls)) = Len(calls) - 1
      /\ \A k \in 1 .. Len(calls) - 1 : Front(calls)[k] = calls[k]
  BY OpenCallsProperties
<1>3. Top.todo \in Seq(Packages)
  BY <1>2 DEF OpenCalls
<1>4. ASSUME Top.todo # <<>>
      PROVE  p = Dep \/ \E k \in 1..Len(AfterDep) : p \in ToSet(AfterDep[k].todo)
  <2> DEFINE c == [Top EXCEPT !.todo = Tail(@)]
  <2>1. c \in OpenCalls /\ c.todo = Tail(Top.todo) /\ Dep = Top.todo[1]
    BY <1>2, <1>3, <1>4, OpenCallsProperties DEF OpenCalls
  <2>2. AfterDep = Append(Front(calls), c)
    BY DEF AfterDep
  <2> HIDE DEF c
  <2>3. /\ Len(AfterDep) = Len(calls) /\ AfterDep[Len(calls)] = c
        /\ \A k \in 1 .. Len(calls) - 1 : AfterDep[k] = calls[k]
    BY <1>2, <2>1, <2>2
  <2>4. CASE n # Len(calls)
    BY <1>1, <1>2, <2>3, <2>4
  <2>5. CASE n = Len(calls)
    <3> DEFINE todo == Top.todo
    <3>1. PICK k \in DOMAIN todo : p = todo[k]
      BY <1>1, <1>2, <2>5 DEF ToSet
    <3>2. k \in 1..Len(todo) /\ Len(todo) \in Nat
      BY <1>3, <3>1
    <3>3. CASE k = 1
      BY <2>1, <3>1, <3>3
    <3>4. CASE k # 1
      <4>1. k - 1 \in 1 .. Len(todo) - 1 /\ (k - 1) + 1 = k
        BY <3>2, <3>4
      <4>2. Tail(todo)[k - 1] = todo[k] /\ k - 1 \in DOMAIN Tail(todo)
        BY <1>3, <1>4, <3>2, <4>1
      <4>3. p \in ToSet(c.todo)
        BY <2>1, <3>1, <4>2 DEF ToSet
      <4>4. QED
        BY <1>2, <2>3, <4>3
    <3>5. QED
      BY <3>3, <3>4
  <2>6. QED
    BY <2>4, <2>5
<1>5. ASSUME Top.todo = <<>> PROVE \E k \in 1 .. Len(calls) - 1 : p \in ToSet(calls[k].todo)
  <2>1. n # Len(calls)
    BY <1>1, <1>2, <1>5 DEF ToSet
  <2>2. QED
    BY <1>1, <1>2, <2>1
<1>6. QED
  BY <1>4, <1>5

\* A call that was added waits for its dependencies, beside the others.
LEMMA WaitingAdded ==
    ASSUME NEW cs \in Seq(OpenCalls), NEW c \in OpenCalls, calls' = Append(cs, c)
    PROVE  /\ \A p \in ToSet(c.todo) : Waiting(p)'
           /\ \A p : (\E n \in 1..Len(cs) : p \in ToSet(cs[n].todo)) => Waiting(p)'
<1>1. /\ Len(calls') = Len(cs) + 1 /\ calls'[Len(cs) + 1] = c /\ Len(cs) \in Nat
      /\ \A n \in 1..Len(cs) : calls'[n] = cs[n]
  OBVIOUS
<1>2. QED
  BY <1>1 DEF Waiting

\* Registering the dependency an open call is at, with its own left to a new call.
LEMMA RegisterStep ==
    ASSUME TypeOK, Covered, ~swallowed, Resolving,
           NEW deps \in Seq(Packages), NEW c \in OpenCalls, c.todo = deps,
           Register(Dep, deps), calls' = Append(AfterDep, c), phase' = phase
    PROVE  \A p \in Metas' : \A q \in DepsOf(p)' : q \in Metas' \/ Waiting(q)'
<1>1. calls \in Seq(OpenCalls) /\ calls # <<>> /\ Top.todo # <<>> /\ phase = "resolving" /\ ~raising
  BY DEF Resolving, TypeOK, ResolutionType
<1>2. Dep \in Packages /\ AfterDep \in Seq(OpenCalls)
  BY <1>1, OpenCallsProperties
<1>3. /\ Metas' = Metas \cup {Dep} /\ graph'[Dep] = deps
      /\ \A q \in Metas : q # Dep => graph'[q] = graph[q]
  BY <1>2, RegisterProperties DEF TypeOK, ResolutionType
<1>4. SUFFICES ASSUME NEW p \in Metas', NEW q \in DepsOf(p)', q \notin Metas' PROVE Waiting(q)'
  OBVIOUS
<1>5. CASE p = Dep
  <2>1. q \in ToSet(c.todo)
    BY <1>3, <1>4, <1>5 DEF DepsOf
  <2>2. QED
    BY <1>2, <2>1, WaitingAdded
<1>6. CASE p # Dep
  <2>1. p \in Metas /\ q \in DepsOf(p) /\ q \notin Metas /\ q # Dep
    BY <1>3, <1>4, <1>6 DEF DepsOf
  <2>2. Waiting(q)
    BY <1>1, <2>1 DEF Covered
  <2>3. \E n \in 1..Len(AfterDep) : q \in ToSet(AfterDep[n].todo)
    BY <1>1, <2>1, <2>2, WaitingKept
  <2>4. QED
    BY <1>2, <2>3, WaitingAdded
<1>7. QED
  BY <1>5, <1>6

LEMMA CoveredStep == ASSUME TypeOK, Covered, [Next]_allVars PROVE Covered'
<1> USE DEF TypeOK
<1>0. calls \in Seq(OpenCalls)
  BY DEF ResolutionType
<1>1. CASE Discover
  <2>1. world.local \in Seq(Packages) /\ world.declared \in [Packages -> Seq(Packages)]
    BY WorldType DEF DriverType
  <2> DEFINE local == world.local
             all == [n \in DOMAIN world.local |-> world.declared[world.local[n]]]
  <2>2. /\ Len(local) \in Nat /\ DOMAIN local = 1..Len(local)
        /\ \A n \in 1..Len(local) : local[n] \in Packages /\ world.declared[local[n]] \in Seq(Packages)
    BY <2>1
  <2>3. all = [n \in 1..Len(local) |-> world.declared[local[n]]]
    BY <2>2
  <2>4. /\ Metas' = ToSet(local) /\ paths' = ToSet(local) /\ world' = world /\ phase' = "resolving"
        /\ raising' = raising /\ swallowed' = swallowed
        /\ \A p \in ToSet(local) : graph'[p] = world.declared[p]
        /\ calls' = <<Call("", "root", FlattenSeq(all))>>
    BY <1>1 DEF Discover, Metas, setting
  <2> HIDE DEF all
  <2>5. all \in Seq(Seq(Packages)) /\ Len(all) = Len(local)
        /\ \A n \in 1..Len(local) : all[n] = world.declared[local[n]]
    <3> HIDE DEF local
    <3>1. QED
      BY <2>2, <2>3
  <2>6. ToSet(FlattenSeq(all)) = UNION {ToSet(all[n]) : n \in 1..Len(all)}
    BY <2>5, FlattenElements
  <2>7. ASSUME NEW p \in Metas', NEW q \in DepsOf(p)' PROVE Waiting(q)'
    <3>1. PICK n \in 1..Len(local) : p = local[n]
      BY <2>2, <2>4 DEF ToSet
    <3>2. q \in ToSet(all[n])
      BY <2>4, <2>5, <2>7, <3>1 DEF DepsOf
    <3>3. q \in ToSet(FlattenSeq(all))
      BY <2>5, <2>6, <3>1, <3>2
    <3>4. Len(calls') = 1 /\ calls'[1].todo = FlattenSeq(all)
      BY <2>4 DEF Call
    <3>5. QED
      BY <3>3, <3>4 DEF Waiting
  <2>8. QED
    BY <2>4, <2>7 DEF Covered
<1>2. CASE ResolveKnown
  <2>1. /\ Resolving /\ Dep \in paths /\ calls' = AfterDep /\ calls # <<>> /\ Top.todo # <<>>
        /\ UNCHANGED <<world, phase, raising, swallowed, paths, graph>> /\ phase = "resolving"
    BY <1>2 DEF ResolveKnown, setting, Resolving, ResolutionType
  <2>2. \A q : Waiting(q) => q = Dep \/ Waiting(q)'
    BY <1>0, <2>1, WaitingKept DEF Waiting
  <2>3. QED
    BY <2>1, <2>2 DEF Covered, Metas, DepsOf
<1>3. CASE ResolveSource
  <2>1. /\ Resolving /\ Dep \notin paths /\ paths' = paths \cup {Dep}
        /\ Register(Dep, world.declared[Dep]) /\ calls' = Append(AfterDep, SourceCall(Dep))
        /\ UNCHANGED <<world, phase, raising, swallowed>> /\ phase = "resolving" /\ ~raising
    BY <1>3 DEF ResolveSource, setting, Resolving
  <2>2. Dep \in Packages
    BY <1>0, <2>1, OpenCallsProperties DEF Resolving, ResolutionType
  <2>3. world.declared[Dep] \in Seq(Packages) /\ SourceCall(Dep).todo = world.declared[Dep]
        /\ SourceCall(Dep) \in OpenCalls
    BY <2>2, WorldType DEF SourceCall, Call, OpenCalls, DriverType
  <2>4. /\ Metas' = Metas \cup {Dep} /\ graph'[Dep] = world.declared[Dep]
        /\ \A q \in Metas : q # Dep => graph'[q] = graph[q]
    BY <2>1, <2>2, <2>3, RegisterProperties DEF ResolutionType
  <2>5. ~swallowed => \A p \in Metas' : \A q \in DepsOf(p)' : q \in Metas' \/ Waiting(q)'
    BY <2>1, <2>3, RegisterStep
  <2>6. QED
    BY <2>1, <2>4, <2>5 DEF Covered
<1>4. CASE ResolveExternal
  <2>1. /\ Resolving /\ Dep \notin paths /\ paths' = paths
        /\ Register(Dep, world.required[Dep])
        /\ calls' = Append(AfterDep, Call(Dep, "external", world.required[Dep]))
        /\ UNCHANGED <<world, phase, raising, swallowed>> /\ phase = "resolving" /\ ~raising
    BY <1>4 DEF ResolveExternal, LoadExternal, setting, Resolving
  <2>2. Dep \in Packages
    BY <1>0, <2>1, OpenCallsProperties DEF Resolving, ResolutionType
  <2> DEFINE c == Call(Dep, "external", world.required[Dep])
  <2>3. world.required[Dep] \in Seq(Packages) /\ c.todo = world.required[Dep] /\ c \in OpenCalls
    BY <2>2, WorldType DEF Call, OpenCalls, DriverType
  <2>4. /\ Metas' = Metas \cup {Dep}
        /\ \A q \in Metas : q # Dep => graph'[q] = graph[q]
    BY <2>1, <2>2, <2>3, RegisterProperties DEF ResolutionType
  <2>5. calls' = Append(AfterDep, c)
    BY <2>1
  <2> HIDE DEF c
  <2>6. ~swallowed => \A p \in Metas' : \A q \in DepsOf(p)' : q \in Metas' \/ Waiting(q)'
    BY <2>1, <2>3, <2>5, RegisterStep
  <2>7. QED
    BY <2>1, <2>4, <2>6 DEF Covered
<1>5. CASE ResolveRaises
  BY <1>5 DEF ResolveRaises, Resolving, setting, Covered, Metas
<1>6. CASE Unwind
  <2>1. CASE Top.via = "source"
    BY <1>6, <2>1 DEF Unwind, Covered, Fail
  <2>2. CASE Top.via # "source"
    BY <1>6, <2>2 DEF Unwind, Covered, Fail, setting, Metas
  <2>3. QED
    BY <2>1, <2>2
<1>7. CASE Return
  <2>1. /\ phase = "resolving" /\ ~raising /\ Top.todo = <<>> /\ calls' = Front(calls) /\ calls # <<>>
        /\ phase' = IF Len(calls) = 1 THEN "planning" ELSE phase
        /\ UNCHANGED <<world, raising, swallowed, paths, graph>>
    BY <1>7 DEF Return, setting, ResolutionType
  <2>2. /\ Len(calls) \in Nat \ {0} /\ Len(calls') = Len(calls) - 1
        /\ \A n \in 1 .. Len(calls) - 1 : calls'[n] = calls[n]
    BY <1>0, <2>1, OpenCallsProperties
  <2>3. ASSUME NEW q, Waiting(q) PROVE phase' = "resolving" /\ Waiting(q)'
    <3>1. PICK n \in 1 .. Len(calls) - 1 : q \in ToSet(calls[n].todo)
      BY <1>0, <2>1, <2>3, WaitingKept
    <3>2. Len(calls) # 1
      BY <2>2, <3>1
    <3>3. QED
      BY <2>1, <2>2, <3>1, <3>2 DEF Waiting
  <2>4. QED
    BY <2>1, <2>3 DEF Covered, Metas, DepsOf
<1>8. CASE Plan \/ BuildRaises \/ BuildPackage \/ StartVerify \/ OpenFile \/ WriteFile \/ LinkFails \/ Emitted
  <2>1. /\ phase \in {"planning", "building", "linking"}
        /\ phase' \in {"building", "linking", "emitted", "failed"}
        /\ UNCHANGED <<world, raising, swallowed, paths, graph>>
    <3>1. CASE Plan \/ Emitted
      BY <3>1 DEF Plan, Emitted, setting, resolution, Fail
    <3>2. CASE BuildRaises \/ BuildPackage
      BY <3>2 DEF BuildRaises, BuildPackage, Building, setting, resolution, Fail
    <3>3. CASE StartVerify \/ LinkFails
      BY <3>3 DEF StartVerify, LinkFails, setting, resolution, Fail
    <3>4. CASE OpenFile \/ WriteFile
      BY <3>4 DEF OpenFile, WriteFile, Write, setting, resolution
    <3>5. QED
      BY <1>8, <3>1, <3>2, <3>3, <3>4
  <2>2. QED
    BY <2>1 DEF Covered, Metas, DepsOf
<1>9. CASE DriverFailed \/ CoverageFails \/ SkipMissing \/ RunVerifier \/ Summarize \/ Kill
  <2>1. /\ UNCHANGED <<world, calls, raising, swallowed, paths, graph>>
        /\ phase' \in {phase, "ended"}
    BY <1>9 DEF DriverFailed, CoverageFails, SkipMissing, RunVerifier, Summarize, Kill, End,
       UnchangedDriver, setting, resolution
  <2>2. QED
    BY <2>1 DEF Covered, Metas, DepsOf, Waiting
<1>10. CASE NextCommand
  BY <1>10 DEF NextCommand, NewRunner, Covered
<1>11. CASE UNCHANGED allVars
  BY <1>11 DEF allVars, vars, Covered, Metas, DepsOf, Waiting
<1>12. CASE DiscoverFails
  BY <1>12 DEF DiscoverFails, Fail, Covered
<1>13. QED
  BY <1>1, <1>2, <1>3, <1>4, <1>5, <1>6, <1>7, <1>8, <1>9, <1>10, <1>11, <1>12
  DEF Next, Step, DriverStep, RunDriver

-----------------------------------------------------------------------------
(* The plan *)

\* Moving the foundation to the front keeps the order topological: it depends on
\* nothing, and what is not a foundation stays in order.
LEMMA FoundationFirstSound ==
    ASSUME TypeOK, FoundationsValid, Nodes \subseteq Metas, NEW order \in TopologicalOrders
    PROVE  LET s == FoundationFirst(order) IN
           /\ ToSet(s) = Metas /\ Len(s) = Cardinality(Metas)
           /\ \A p \in Metas : \A q \in DepsOf(p) : Precedes(s, q, p)
           /\ \A n \in DOMAIN s : s[n] \in Foundations => n = 1
<1> DEFINE A == {n \in DOMAIN order : order[n] \in Foundations}
           B == {n \in DOMAIN order : order[n] \notin Foundations}
           a == At(order, A)
           b == At(order, B)
           s == a \o b
<1>1. Nodes = Metas /\ IsFiniteSet(Metas) /\ Metas \subseteq Packages
  BY DEF Nodes, TypeOK, ResolutionType
<1>2. Cardinality(Metas) \in Nat
  BY <1>1, FS_CardinalityType
<1>3. /\ order \in [1 .. Cardinality(Metas) -> Metas] /\ ToSet(order) = Metas
      /\ \A p \in Metas : \A q \in DepsOf(p) : Precedes(order, q, p)
  BY <1>1 DEF TopologicalOrders
<1>4. order \in Seq(Metas) /\ Len(order) = Cardinality(Metas) /\ DOMAIN order = 1..Len(order)
  BY <1>2, <1>3
<1>5. \A m, n \in 1..Len(order) : order[m] = order[n] => m = n
  BY <1>3, <1>4, ElementsFinite
<1>6. A = A \cap 1..Len(order) /\ B = B \cap 1..Len(order)
  BY <1>4
<1>7. /\ a \in Seq(Metas) /\ ToSet(a) = {order[n] : n \in A}
      /\ b \in Seq(Metas) /\ ToSet(b) = {order[n] : n \in B}
  BY <1>4, <1>6, AtElements
<1>8. /\ Len(a) \in Nat /\ Len(a) = Cardinality(A)
      /\ Len(b) \in Nat /\ Len(b) = Cardinality(B)
      /\ \A m, n \in B : m < n =>
             \E x, y \in 1..Len(b) : x < y /\ b[x] = order[m] /\ b[y] = order[n]
  <2> HIDE DEF A, B
  <2>1. Len(a) \in Nat /\ Len(a) = Cardinality(A \cap 1..Len(order))
    BY <1>4, AtOrder
  <2>2. Len(b) \in Nat /\ Len(b) = Cardinality(B \cap 1..Len(order)) /\ KeepsOrder(order, B, b)
    BY <1>4, AtOrder
  <2> HIDE DEF a, b
  <2>3. QED
    BY <1>6, <2>1, <2>2 DEF KeepsOrder
<1>9. FoundationFirst(order) = s
  BY DEF FoundationFirst
<1>10. DOMAIN order = A \cup B /\ A \cap B = {}
  OBVIOUS
<1>11. /\ \A n \in A : n \in 1..Len(order) /\ order[n] \in Metas \cap Foundations
       /\ \A n \in B : n \in 1..Len(order) /\ order[n] \in Metas /\ order[n] \notin Foundations
       /\ \A n \in 1..Len(order) : n \in A <=> order[n] \in Foundations
       /\ \A n \in 1..Len(order) : n \in B <=> order[n] \notin Foundations
  BY <1>3, <1>4
<1> HIDE DEF A, B, a, b
<1>12. /\ s \in Seq(Metas) /\ Len(s) = Len(a) + Len(b) /\ DOMAIN s = 1 .. Len(a) + Len(b)
       /\ \A n \in 1..Len(a) : s[n] = a[n]
       /\ \A n \in 1..Len(b) : s[Len(a) + n] = b[n]
  BY <1>7
<1>13. ToSet(s) = Metas
  <2>1. ToSet(s) = ToSet(a) \cup ToSet(b)
    BY <1>7, ToSetConcat
  <2>2. {order[n] : n \in A} \cup {order[n] : n \in B} = Metas
    BY <1>3, <1>10, <1>11 DEF ToSet
  <2>3. QED
    BY <1>7, <2>1, <2>2
<1>14. IsFiniteSet(A) /\ IsFiniteSet(B)
  <2>1. IsFiniteSet(1..Len(order))
    BY <1>4, <1>2, FS_Interval
  <2>2. A \subseteq 1..Len(order) /\ B \subseteq 1..Len(order)
    BY <1>4, <1>10
  <2>3. QED
    BY <2>1, <2>2, FS_Subset
<1>15. Len(s) = Cardinality(Metas)
  <2>1. Cardinality(A \cup B) = Cardinality(A) + Cardinality(B) - Cardinality(A \cap B)
    BY <1>14, FS_Union
  <2>2. Cardinality(A \cap B) = 0
    BY <1>10, FS_EmptySet
  <2>3. Cardinality(1..Len(order)) = Len(order)
    <3> DEFINE n == Len(order)
    <3>0. 1 \in Int /\ n \in Int
      BY <1>2, <1>4
    <3> HIDE DEF n
    <3>1. Cardinality(1..n) = IF 1 > n THEN 0 ELSE n - 1 + 1
      BY <3>0, FS_Interval
    <3>2. QED
      BY <1>2, <1>4, <3>1 DEF n
  <2>4. QED
    BY <1>4, <1>8, <1>10, <1>12, <2>1, <2>2, <2>3
<1>16. Len(a) <= 1
  <2> DEFINE f == [n \in A |-> order[n]]
  <2>1. f \in Injection(A, Metas \cap Foundations)
    BY <1>5, <1>11 DEF Injection, IsInjective
  <2>2. IsFiniteSet(Metas \cap Foundations)
    BY <1>1, FS_Subset
  <2> HIDE DEF f
  <2>3. Cardinality(A) <= Cardinality(Metas \cap Foundations)
    BY <2>1, <2>2, FS_Injection
  <2>4. Cardinality(Metas \cap Foundations) \in Nat /\ Cardinality(Metas \cap Foundations) <= 1
    BY <2>2, FS_CardinalityType DEF FoundationsValid
  <2>5. QED
    BY <1>8, <2>3, <2>4
<1>17. ASSUME NEW p \in Metas, NEW q \in DepsOf(p) PROVE Precedes(s, q, p)
  <2>1. PICK m \in 1..Len(order), n \in 1..Len(order) : m < n /\ order[m] = q /\ order[n] = p
    BY <1>3, <1>4, <1>17 DEF Precedes
  <2>2. p \notin Foundations
    BY <1>17 DEF FoundationsValid, DepsOf, ToSet
  <2>3. n \in B
    BY <1>11, <2>1, <2>2
  <2>4. CASE m \in A
    <3>1. PICK x \in 1..Len(a) : a[x] = q
      <4>1. q \in ToSet(a) /\ DOMAIN a = 1..Len(a)
        BY <1>7, <2>1, <2>4
      <4>2. QED
        BY <4>1 DEF ToSet
    <3>2. PICK y \in 1..Len(b) : b[y] = p
      BY <1>7, <2>1, <2>3 DEF ToSet
    <3>3. x \in DOMAIN s /\ Len(a) + y \in DOMAIN s /\ x < Len(a) + y
      BY <1>8, <1>12, <3>1, <3>2
    <3>4. s[x] = q /\ s[Len(a) + y] = p
      BY <1>12, <3>1, <3>2
    <3>5. QED
      BY <3>3, <3>4 DEF Precedes
  <2>5. CASE m \in B
    <3>1. PICK x \in 1..Len(b), y \in 1..Len(b) : x < y /\ b[x] = q /\ b[y] = p
      BY <1>8, <2>1, <2>3, <2>5
    <3>2. Len(a) + x \in DOMAIN s /\ Len(a) + y \in DOMAIN s /\ Len(a) + x < Len(a) + y
      BY <1>8, <1>12, <3>1
    <3>3. s[Len(a) + x] = q /\ s[Len(a) + y] = p
      BY <1>12, <3>1
    <3>4. QED
      BY <3>2, <3>3 DEF Precedes
  <2>6. QED
    BY <1>4, <1>10, <2>1, <2>4, <2>5
<1>18. ASSUME NEW n \in DOMAIN s, s[n] \in Foundations PROVE n = 1
  <2>1. CASE n \in 1..Len(a)
    BY <1>8, <1>16, <2>1
  <2>2. CASE n \notin 1..Len(a)
    <3>1. n - Len(a) \in 1..Len(b) /\ n = Len(a) + (n - Len(a))
      BY <1>8, <1>12, <1>18, <2>2
    <3>2. s[n] = b[n - Len(a)]
      BY <1>12, <3>1
    <3>3. b[n - Len(a)] \in ToSet(b)
      BY <1>7, <3>1 DEF ToSet
    <3>4. QED
      BY <1>7, <1>11, <1>18, <3>2, <3>3
  <2>3. QED
    BY <2>1, <2>2
<1> HIDE DEF s
<1>19. QED
  BY <1>9, <1>13, <1>15, <1>17, <1>18

\* What was built is counted by Built: the plan repeats nothing.
LEMMA BuiltIs ==
    ASSUME TypeOK, Planned, NEW k \in 0..Len(plan), lirs = {plan[n] : n \in 1..k}
    PROVE  Built = k /\ \A m, n \in 1..Len(plan) : plan[m] = plan[n] => m = n
<1>1. plan \in Seq(Packages) /\ Len(plan) \in Nat /\ DOMAIN plan = 1..Len(plan)
  BY DEF TypeOK, BuildType
<1>2. \A m, n \in 1..Len(plan) : plan[m] = plan[n] => m = n
  BY <1>1, ElementsFinite DEF Planned
<1>3. {n \in DOMAIN plan : plan[n] \in lirs} = 1..k
  BY <1>1, <1>2
<1>4. Cardinality(1..k) = k
  <2>1. Cardinality(1..k) = IF 1 > k THEN 0 ELSE k - 1 + 1
    BY <1>1, FS_Interval
  <2>2. QED
    BY <1>1, <2>1
<1>5. QED
  BY <1>2, <1>3, <1>4 DEF Built

LEMMA PlanStep == ASSUME TypeOK, PlanOK, [Next]_allVars PROVE PlanOK'
<1> USE DEF PlanOK
<1>1. CASE \/ Discover \/ DiscoverFails
            \/ ResolveKnown \/ ResolveSource \/ ResolveExternal \/ ResolveRaises \/ Unwind \/ Return
  <2>1. /\ phase \in {"start", "resolving"} /\ phase' \in {"resolving", "planning", "failed"}
        /\ UNCHANGED builds
    <3>1. CASE Discover \/ ResolveKnown \/ ResolveSource \/ ResolveExternal
      BY <3>1 DEF Discover, ResolveKnown, ResolveSource, ResolveExternal, Resolving
    <3>2. CASE DiscoverFails \/ ResolveRaises \/ Unwind \/ Return
      BY <3>2 DEF DiscoverFails, ResolveRaises, Resolving, Unwind, Return, Fail
    <3>3. QED
      BY <1>1, <3>1, <3>2
  <2>2. QED
    BY <2>1 DEF builds
<1>2. CASE Plan
  <2>1. CASE phase' = "failed"
    BY <2>1
  <2>2. CASE phase' # "failed"
    <3>1. /\ FoundationsValid /\ Nodes \subseteq Metas /\ phase = "planning" /\ phase' = "building"
          /\ graph' = graph /\ lirs' = lirs /\ exports' = exports
      BY <1>2, <2>2 DEF Plan, Fail, resolution, builds
    <3>2. PICK order \in TopologicalOrders : plan' = FoundationFirst(order)
      BY <1>2, <2>2 DEF Plan, Fail
    <3>3. Planned'
      BY <3>1, <3>2, FoundationFirstSound DEF Planned, Metas, DepsOf, Precedes
    <3>4. lirs' = {plan'[n] : n \in 1..0} /\ 0 \in 0..Len(plan')
      <4>1. plan' \in Seq(Packages)
        BY <1>2, DriverStepType DEF RunDriver, BuildType
      <4>2. QED
        BY <3>1, <4>1
    <3>5. QED
      BY <3>1, <3>3, <3>4 DEF BuiltInOrder
  <2>3. QED
    BY <2>1, <2>2
<1>3. CASE BuildPackage
  <2>1. CASE phase' = "failed"
    BY <2>1
  <2>2. CASE phase' # "failed"
    <3>1. /\ phase = "building" /\ phase' = phase /\ Built < Len(plan) /\ plan' = plan /\ graph' = graph
          /\ exports' = exports \cup {Next1} /\ lirs' = lirs \cup {Next1}
      BY <1>3, <2>2 DEF BuildPackage, Building, Fail, resolution
    <3>2. Planned /\ lirs \subseteq exports
      BY <3>1 DEF BuiltInOrder
    <3>3. PICK k \in 0..Len(plan) : lirs = {plan[n] : n \in 1..k}
      BY <3>1 DEF BuiltInOrder
    <3>4. Built = k /\ Len(plan) \in Nat
      BY <3>2, <3>3, BuiltIs DEF TypeOK, BuildType
    <3>5. k + 1 \in 0..Len(plan) /\ 1 .. k + 1 = 1..k \cup {k + 1}
      BY <3>1, <3>4
    <3>6. lirs' = {plan[n] : n \in 1 .. k + 1}
      BY <3>1, <3>3, <3>4, <3>5 DEF Next1
    <3>7. QED
      BY <3>1, <3>2, <3>5, <3>6 DEF BuiltInOrder, Planned, Metas, DepsOf, Precedes
  <2>3. QED
    BY <2>1, <2>2
<1>4. CASE BuildRaises \/ StartVerify \/ OpenFile \/ WriteFile \/ LinkFails \/ Emitted
  <2>1. /\ phase \in {"building", "linking"} /\ phase' \in {"building", "linking", "emitted", "failed"}
        /\ UNCHANGED <<plan, graph, exports, lirs>>
    <3>1. CASE BuildRaises \/ StartVerify
      BY <3>1 DEF BuildRaises, Building, StartVerify, resolution, builds, Fail
    <3>2. CASE LinkFails \/ Emitted
      BY <3>2 DEF LinkFails, Emitted, resolution, builds, Fail
    <3>3. CASE OpenFile \/ WriteFile
      BY <3>3 DEF OpenFile, WriteFile, Write, resolution, builds
    <3>4. QED
      BY <1>4, <3>1, <3>2, <3>3
  <2>2. QED
    BY <2>1 DEF Planned, BuiltInOrder, Metas, DepsOf, Precedes
<1>5. CASE DriverFailed \/ CoverageFails \/ SkipMissing \/ RunVerifier \/ Summarize \/ Kill
  <2>1. UNCHANGED <<plan, graph, exports, lirs>> /\ phase' \in {phase, "ended"}
    BY <1>5 DEF DriverFailed, CoverageFails, SkipMissing, RunVerifier, Summarize, Kill, End,
       UnchangedDriver, resolution, builds
  <2>2. QED
    BY <2>1 DEF Planned, BuiltInOrder, Metas, DepsOf, Precedes
<1>6. CASE NextCommand
  BY <1>6 DEF NextCommand, NewRunner
<1>7. CASE UNCHANGED allVars
  BY <1>7 DEF allVars, vars, Planned, BuiltInOrder, Metas, DepsOf, Precedes
<1>8. QED
  BY <1>1, <1>2, <1>3, <1>4, <1>5, <1>6, <1>7 DEF Next, Step, DriverStep, RunDriver

-----------------------------------------------------------------------------
(* The theorems *)

LEMMA CommandInvariant == Spec => []IInv
<1>1. CommandInit => IInv
  <2>1. ASSUME CommandInit PROVE IInv
    <3>1. TypeOK
      BY <2>1, InitType
    <3>2. Covered /\ PlanOK /\ FilesOK /\ Asked /\ SuccessIsFresh
      BY <2>1 DEF CommandInit, Init, Covered, PlanOK, FilesOK, Asked, SuccessIsFresh
    <3>3. MixedOnlyByKill
      BY <2>1, KindsAre DEF CommandInit, Init, MixedOnlyByKill, Absent
    <3>4. QED
      BY <3>1, <3>2, <3>3 DEF IInv
  <2>2. QED
    BY <2>1
<1>2. IInv /\ [Next]_allVars => IInv'
  BY TypeStep, CoveredStep, PlanStep, FilesStep, AskedStep DEF IInv
<1>3. QED
  BY <1>1, <1>2, PTL DEF Spec

\* The runner's tables, the artifacts and the verdicts stay in their ranges, for
\* every set of packages, worlds and verifiers.
THEOREM TypeCorrect == Spec => []TypeOK
<1>1. IInv => TypeOK
  BY DEF IInv
<1>2. QED
  BY <1>1, CommandInvariant, PTL

\* Resolution (runner.py: _resolve_dependency) leaves no dependency unregistered,
\* unless its "except Exception: pass" swallowed a failure.
THEOREM ResolutionCloses == Spec => []ClosureResolved
<1>1. IInv => ClosureResolved
  BY DEF IInv, Covered, ClosureResolved
<1>2. QED
  BY <1>1, CommandInvariant, PTL

\* The build order (runner.py: build_all) is a topological order of the registered
\* packages with the foundation in front, and the builds follow it.
THEOREM PlanIsSound == Spec => []PlanSound
<1>1. ASSUME IInv PROVE PlanSound
  <2>1. SUFFICES ASSUME phase \in {"building", "linking", "emitted"}, Planned, BuiltInOrder
                 PROVE  Building => DepsBuilt
    BY <1>1 DEF IInv, PlanOK, Planned, PlanSound
  <2>2. SUFFICES ASSUME Built < Len(plan), NEW q \in DepsOf(Next1) PROVE q \in exports
    BY DEF Building, DepsBuilt
  <2>3. PICK k \in 0..Len(plan) : lirs = {plan[n] : n \in 1..k}
    BY <2>1 DEF BuiltInOrder
  <2>4. /\ Built = k /\ \A m, n \in 1..Len(plan) : plan[m] = plan[n] => m = n
        /\ Len(plan) \in Nat /\ DOMAIN plan = 1..Len(plan)
    BY <1>1, <2>1, <2>3, BuiltIs DEF IInv, TypeOK, BuildType
  <2>5. k + 1 \in 1..Len(plan) /\ Next1 = plan[k + 1] /\ Next1 \in Metas
    BY <2>1, <2>2, <2>3, <2>4 DEF Next1, Planned, ToSet
  <2>6. PICK m \in 1..Len(plan), n \in 1..Len(plan) : m < n /\ plan[m] = q /\ plan[n] = Next1
    BY <2>1, <2>2, <2>4, <2>5 DEF Planned, Precedes
  <2>7. n = k + 1 /\ m \in 1..k
    BY <2>3, <2>4, <2>5, <2>6
  <2>8. QED
    BY <2>1, <2>3, <2>6, <2>7 DEF BuiltInOrder
<1>2. QED
  BY <1>1, CommandInvariant, PTL

\* A successful skfd verify (cli.py: _cmd_verify) vouches for the artifact of its
\* own link, read by every installed verifier, whatever earlier commands left.
THEOREM SuccessSpeaksOfThisLink == Spec => []SuccessIsFresh
<1>1. IInv => SuccessIsFresh
  BY DEF IInv
<1>2. QED
  BY <1>1, CommandInvariant, PTL

\* A complete artifact and a complete source map (runner.py: verify_package) are of
\* one link but for a kill between the two, through any number of commands.
THEOREM MapIsOfTheArtifact == Spec => []MapFitsArtifact
<1>1. IInv => MapFitsArtifact
  BY DEF IInv, MixedOnlyByKill, MapFitsArtifact
<1>2. QED
  BY <1>1, CommandInvariant, PTL
=============================================================================
