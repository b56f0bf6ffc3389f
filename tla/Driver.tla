--------------------------------- MODULE Driver ---------------------------------
(***************************************************************************)
(* The build driver, DriverRunner (skfd/driver/runner.py): it finds the    *)
(* packages of a source tree, resolves what they depend on from path       *)
(* sources and installed distributions, plans an order, builds each        *)
(* package and links the chain of one into three files.  A DriverRunner    *)
(* lives as long as one command; the files stay (VerifyCommand).  Units    *)
(* are built and linked elsewhere (Builder, Linker): here both end well    *)
(* or not, as they like.                                                   *)
(***************************************************************************)
EXTENDS Subsequences, FiniteSets, SequencesExt

CONSTANTS
    Packages,
    Foundations,   \* the packages whose name is that of the prelude
    Worlds,        \* source trees and environments a command may find
    MaxDepth       \* the recursion limit of Python

\* A world: the packages found under the root, in order; those that a path
\* source of the project gives; those whose build module can be imported; the
\* dependencies that a pyproject declares and those of a distribution.
ASSUME DriverAssumption ==
    /\ MaxDepth \in Nat \ {0} /\ Foundations \subseteq Packages
    /\ Worlds \subseteq [local : Seq(Packages), sources : SUBSET Packages, installed : SUBSET Packages,
                         declared : [Packages -> Seq(Packages)], required : [Packages -> Seq(Packages)]]

VARIABLES
    world,
    goal,        \* the package to verify
    phase,       \* what the command is doing
    calls,       \* the open calls of _resolve_dependency, execute_all below them
    raising,     \* an exception is on its way down the calls
    swallowed,   \* history: an exception ended in "except Exception: pass"
    paths,       \* domain of build_paths
    externals,   \* domain of _external_modules
    graph,       \* deps_graph; its domain is that of metas
    plan,        \* build_order
    covered, exports, lirs,   \* domains of coverage_by_pkg, exports_by_pkg, lirs
    files,       \* of each package's artifacts, the session they were written in
    written,     \* how many opens and writes of artifacts are done
    session      \* a number for the command

vars == <<world, goal, phase, calls, raising, swallowed, paths, externals, graph, plan,
          covered, exports, lirs, files, written, session>>
resolution == <<calls, raising, swallowed, paths, externals, graph>>
builds == <<covered, exports, lirs>>
setting == <<world, goal, session>>

Absent == 0
Truncated == -1
\* (variant: the source map is written first)
FileOrder_MapFirst == <<"map", "mm", "names">>
FileOrder == <<"mm", "map", "names">>
Kinds == ToSet(FileOrder)

NoGraph == [p \in {} |-> <<>>]

Init ==
    /\ world \in Worlds /\ goal \in Packages
    /\ session = 1
    /\ files = [p \in Packages |-> [k \in Kinds |-> Absent]]
    /\ phase = "start"
    /\ calls = <<>> /\ raising = FALSE /\ swallowed = FALSE
    /\ paths = {} /\ externals = {} /\ graph = NoGraph
    /\ plan = <<>> /\ covered = {} /\ exports = {} /\ lirs = {}
    /\ written = 0

\* DriverRunner() of another command
NewRunner ==
    /\ phase' = "start"
    /\ calls' = <<>> /\ raising' = FALSE /\ swallowed' = FALSE
    /\ paths' = {} /\ externals' = {} /\ graph' = NoGraph
    /\ plan' = <<>> /\ covered' = {} /\ exports' = {} /\ lirs' = {}
    /\ written' = 0

Fail == phase' = "failed"

-----------------------------------------------------------------------------
(* Discovery and resolution *)

Register(p, deps) == graph' = [q \in DOMAIN graph \cup {p} |-> IF q = p THEN deps ELSE graph[q]]

Call(p, via, deps) == [pkg |-> p, via |-> via, todo |-> deps]
Top == Last(calls)
Dep == Head(Top.todo)
\* (variant: the loop over the dependencies does not advance)
AfterDep_Kept == calls
AfterDep == Append(Front(calls), [Top EXCEPT !.todo = Tail(@)])

Discover ==
    /\ phase = "start"
    /\ phase' = "resolving"
    /\ paths' = ToSet(world.local)
    /\ graph' = [p \in ToSet(world.local) |-> world.declared[p]]
    /\ calls' = <<Call("", "root", FlattenSeq([n \in DOMAIN world.local |-> world.declared[world.local[n]]]))>>
    /\ UNCHANGED <<setting, raising, swallowed, externals, plan, builds, files, written>>

\* a pyproject cannot be read: the packages before it are registered
DiscoverFails ==
    /\ phase = "start"
    /\ Fail
    /\ \E n \in 0 .. Len(world.local) - 1 : LET found == ToSet(SubSeq(world.local, 1, n)) IN
          /\ paths' = found
          /\ graph' = [p \in found |-> world.declared[p]]
    /\ UNCHANGED <<setting, calls, raising, swallowed, externals, plan, builds, files, written>>

Resolving == phase = "resolving" /\ ~raising /\ Top.todo # <<>>
Resolvable == Len(calls) < MaxDepth

ResolveKnown ==
    /\ Resolving /\ Resolvable
    /\ Dep \in paths
    /\ calls' = AfterDep
    /\ UNCHANGED <<setting, phase, raising, swallowed, paths, externals, graph, plan, builds, files, written>>

\* (variant: the dependencies of a path source are not resolved)
SourceCall_Shallow(p) == Call(p, "source", <<>>)
SourceCall(p) == Call(p, "source", world.declared[p])

ResolveSource ==
    /\ Resolving /\ Resolvable
    /\ Dep \notin paths /\ Dep \in world.sources
    /\ paths' = paths \cup {Dep}
    /\ Register(Dep, world.declared[Dep])
    /\ calls' = Append(AfterDep, SourceCall(Dep))
    /\ UNCHANGED <<setting, phase, raising, swallowed, externals, plan, builds, files, written>>

LoadExternal(p) ==
    /\ p \in world.installed
    /\ externals' = externals \cup {p}
    /\ Register(p, world.required[p])

ResolveExternal ==
    /\ Resolving /\ Resolvable
    /\ Dep \notin paths \cup world.sources
    /\ LoadExternal(Dep)
    /\ calls' = Append(AfterDep, Call(Dep, "external", world.required[Dep]))
    /\ UNCHANGED <<setting, phase, raising, swallowed, paths, plan, builds, files, written>>

\* not found anywhere, or RecursionError
ResolveRaises ==
    /\ Resolving
    /\ Resolvable => Dep \notin paths \cup world.sources \cup world.installed
    /\ raising' = TRUE
    /\ UNCHANGED <<setting, phase, calls, swallowed, paths, externals, graph, plan, builds, files, written>>

\* the exception reaches the innermost call: the branch for path sources
\* swallows it and goes on to the installed package of the same name
Unwind ==
    /\ phase = "resolving" /\ raising
    /\ swallowed' = (swallowed \/ Top.via = "source")
    /\ \/ /\ Top.via = "source"
          /\ LoadExternal(Top.pkg)
          /\ calls' = Append(Front(calls), Call(Top.pkg, "external", world.required[Top.pkg]))
          /\ raising' = FALSE
          /\ UNCHANGED phase
       \/ /\ Top.via # "source" \/ Top.pkg \notin world.installed
          /\ calls' = Front(calls)
          /\ IF Len(calls) = 1 THEN Fail ELSE UNCHANGED phase
          /\ UNCHANGED <<raising, externals, graph>>
    /\ UNCHANGED <<setting, paths, plan, builds, files, written>>

Return ==
    /\ phase = "resolving" /\ ~raising /\ Top.todo = <<>>
    /\ calls' = Front(calls)
    /\ IF Len(calls) = 1 THEN phase' = "planning" ELSE UNCHANGED phase
    /\ UNCHANGED <<setting, raising, swallowed, paths, externals, graph, plan, builds, files, written>>

-----------------------------------------------------------------------------
(* The plan and the builds *)

Metas == DOMAIN graph
DepsOf(p) == ToSet(graph[p])

\* (variant: a foundation may have dependencies)
FoundationsValid_Unchecked == Cardinality(Metas \cap Foundations) <= 1
FoundationsValid ==
    /\ Cardinality(Metas \cap Foundations) <= 1
    /\ \A p \in Metas \cap Foundations : graph[p] = <<>>

\* sort_packages: graphlib has a node for each key and each dependency
Nodes == Metas \cup UNION {DepsOf(p) : p \in Metas}
Precedes(order, q, p) ==
    \E m, n \in DOMAIN order : m < n /\ order[m] = q /\ order[n] = p
TopologicalOrders ==
    {order \in [1 .. Cardinality(Nodes) -> Nodes] :
        /\ ToSet(order) = Nodes
        /\ \A p \in Metas : \A q \in DepsOf(p) : Precedes(order, q, p)}

FoundationFirst(order) ==
    At(order, {n \in DOMAIN order : order[n] \in Foundations})
        \o At(order, {n \in DOMAIN order : order[n] \notin Foundations})

\* a cycle is a CycleError, a node without meta a KeyError
Plan ==
    /\ phase = "planning"
    /\ IF FoundationsValid /\ TopologicalOrders # {} /\ Nodes \subseteq Metas
       THEN /\ \E order \in TopologicalOrders : plan' = FoundationFirst(order)
            /\ phase' = "building"
       ELSE Fail /\ UNCHANGED plan
    /\ UNCHANGED <<setting, resolution, builds, files, written>>

Built == Cardinality({n \in DOMAIN plan : plan[n] \in lirs})
Next1 == plan[Built + 1]
Building == phase = "building" /\ Built < Len(plan)
DepsBuilt == DepsOf(Next1) \subseteq exports

\* a dependency is not built, there is no build(ctx), or it raises
BuildRaises ==
    /\ Building
    /\ Fail
    /\ UNCHANGED <<setting, resolution, plan, builds, files, written>>

\* build(ctx) ends: coverage, exports and unit are registered one after the
\* other, and a check after each of the first two can fail
BuildPackage ==
    /\ Building /\ DepsBuilt
    /\ covered' = covered \cup {Next1}
    /\ \/ Fail /\ UNCHANGED <<exports, lirs>>
       \/ /\ exports' = exports \cup {Next1}
          /\ \/ Fail /\ UNCHANGED lirs
             \/ lirs' = lirs \cup {Next1} /\ UNCHANGED phase
    /\ UNCHANGED <<setting, resolution, plan, files, written>>

-----------------------------------------------------------------------------
(* verify_package *)

\* visit(p) of _get_transitive_deps, with at most depth calls below it
Visited == [seen : SUBSET Packages, result : Seq(Packages)]
visit[depth \in Nat, p \in Packages, st \in Visited] ==
    IF p \in st.seen THEN st
    ELSE LET below == FoldLeft(LAMBDA s, q : visit[depth - 1, q, s],
                               [st EXCEPT !.seen = @ \cup {p}], graph[p])
         IN  IF p = goal THEN below ELSE [below EXCEPT !.result = Append(@, p)]

TransitiveDeps ==
    FoldLeft(LAMBDA s, q : visit[Cardinality(Packages), q, s],
             [seen |-> {}, result |-> <<>>], graph[goal]).result
Chain == Append(TransitiveDeps, goal)

StartVerify ==
    /\ phase = "building" /\ Built = Len(plan)
    /\ IF goal \in lirs THEN phase' = "linking" ELSE Fail
    /\ UNCHANGED <<setting, resolution, plan, builds, files, written>>

File == FileOrder[written \div 2 + 1]
Write(content) ==
    /\ files' = [files EXCEPT ![goal][File] = content]
    /\ written' = written + 1
    /\ UNCHANGED <<setting, resolution, plan, builds>>

\* open(..., "w")
OpenFile ==
    /\ phase = "linking" /\ written % 2 = 0 /\ written < 6
    /\ Write(Truncated)
    /\ UNCHANGED phase

WriteFile ==
    /\ phase = "linking" /\ written % 2 = 1
    /\ Write(session)
    /\ UNCHANGED phase

\* the link runs when the artifact is open already
LinkFails ==
    /\ phase = "linking" /\ written % 2 = 1 /\ File = "mm"
    /\ Fail
    /\ UNCHANGED <<setting, resolution, plan, builds, files, written>>

Emitted ==
    /\ phase = "linking" /\ written = 6
    /\ phase' = "emitted"
    /\ UNCHANGED <<setting, resolution, plan, builds, files, written>>

RunDriver ==
    \/ Discover \/ DiscoverFails
    \/ ResolveKnown \/ ResolveSource \/ ResolveExternal \/ ResolveRaises \/ Unwind \/ Return
    \/ Plan \/ BuildRaises \/ BuildPackage
    \/ StartVerify \/ OpenFile \/ WriteFile \/ LinkFails \/ Emitted

-----------------------------------------------------------------------------
(* Properties *)

\* When resolution is over, what every registered package depends on is
\* registered too and a package built from source has the dependencies its
\* project declares -- unless a failure was swallowed on the way, which can leave
\* a package behind whose dependencies are missing.
ClosureResolved ==
    phase \in {"planning", "building", "linking", "emitted"} /\ ~swallowed =>
        /\ \A p \in Metas : DepsOf(p) \subseteq Metas
        /\ \A p \in paths : graph[p] = world.declared[p]

\* The plan has each package once, after all it depends on, with the foundation
\* in front: moving it there breaks no dependency, and no build of the plan fails
\* for a dependency that is not built.
PlanSound ==
    phase \in {"building", "linking", "emitted"} =>
        /\ ToSet(plan) = Metas /\ Len(plan) = Cardinality(Metas)
        /\ \A p \in Metas : \A q \in DepsOf(p) : Precedes(plan, q, p)
        /\ \A n \in DOMAIN plan : plan[n] \in Foundations => n = 1
        /\ Building => DepsBuilt
=============================================================================
