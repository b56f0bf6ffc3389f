--------------------------------- MODULE Linker ---------------------------------
(***************************************************************************)
(* The linker, LinkerV1.link (skfd/linker/api.py): a list of proof units   *)
(* becomes one statement stream.  Stage 1 indexes the labels and checks    *)
(* every proof reference, stage 2 extracts contracts (once for the proof   *)
(* references, again in the final order), stage 4 orders the units, stage  *)
(* 3 adds the $d pairs to the contracts, stage 5 wraps the units and       *)
(* collects the header.  Renaming (stage 6) is module Relocation; symbols  *)
(* stand for their ids here.                                               *)
(* A unit is a record of id, kind, stmts and exports.                      *)
(***************************************************************************)
EXTENDS Lir, SequencesExt

CONSTANTS
    Consts, Labels,   \* the symbols of the other two kinds
    Catalogue,        \* the units a build may link
    MaxUnits,         \* how many of them at a time
    Level             \* conformance_level

Kinds == {"foundation", "library", "application"}

ASSUME LinkerAssumption ==
    /\ MaxUnits \in Nat
    /\ Level \in Nat
    /\ \A u \in Catalogue :
          /\ u.kind \in Kinds /\ u.exports \subseteq Consts \cup Vars \cup Labels
          /\ u.stmts \in Seq(ToSet(u.stmts))
          /\ \A st \in ToSet(u.stmts) : st.op = "p" => st.proof \in Seq(TokensOf(st.proof))
    /\ \A u, v \in Catalogue : u.id = v.id => u = v

VARIABLES
    units,       \* the input list
    pc,          \* the pass that runs
    err,         \* the error code of the diagnostic or the exception raised, "" if none
    i, k,        \* the unit and the statement a pass is at
    label_defs,  \* stage 1: defining unit and statement class of each label
    graph,       \* stage 4: unit id -> ids of the units it depends on
    nodes,       \* graphlib: ids in the order the sorter met them
    ready,       \* graphlib: ids without unsorted dependency, next to be emitted
    order,       \* graphlib: ids sorted so far
    frame,       \* stages 2, 3: active hypotheses and $d pairs
    stack,       \* stages 2, 3: the frames of the open blocks
    ambient,     \* stages 2, 3: the frame a foundation leaves for later units
    contracts,   \* stages 2, 3: label -> contract
    body         \* stage 5: the emitted statements

sort_vars == <<graph, nodes, ready, order>>
scan_vars == <<frame, stack, ambient, contracts>>
vars == <<units, pc, err, i, k, label_defs, sort_vars, scan_vars, body>>

Empty == [f |-> <<>>, e |-> <<>>, d |-> {}]

Init ==
    /\ \E n \in 1..MaxUnits :
          units \in {us \in [1..n -> Catalogue] : \A a, b \in 1..n : us[a] = us[b] => a = b}
    /\ pc = "foundations" /\ err = "" /\ i = 1 /\ k = 1
    /\ label_defs = [l \in {} |-> {}]
    /\ graph = [u \in {} |-> {}] /\ nodes = <<>> /\ ready = <<>> /\ order = <<>>
    /\ frame = Empty /\ stack = <<>> /\ ambient = Empty
    /\ contracts = [l \in {} |-> {}]
    /\ body = <<>>

Raise(code) ==
    /\ pc' = "failed" /\ err' = code
    /\ UNCHANGED <<units, i, k, label_defs, sort_vars, scan_vars, body>>

Ids == [n \in DOMAIN units |-> units[n].id]
UnitOf(id) == CHOOSE u \in ToSet(units) : u.id = id
IsFoundation(u) == u.kind = "foundation"

\* The passes go over a list of units one by one, then hand over to the next.
Advance(last, next) ==
    /\ i' = IF i = last THEN 1 ELSE i + 1
    /\ pc' = IF i = last THEN next ELSE pc
    /\ UNCHANGED <<units, err>>

-----------------------------------------------------------------------------
(* Stage 1: label index and access control *)

CheckFoundations ==
    /\ pc = "foundations"
    /\ IF Cardinality({n \in DOMAIN units : IsFoundation(units[n])}) > 1
       THEN Raise("E_MULTIPLE_FOUNDATIONS")
       ELSE /\ pc' = "index"
            /\ UNCHANGED <<units, err, i, k, label_defs, sort_vars, scan_vars, body>>

Labelled(u) == {n \in DOMAIN u.stmts : IsLabelled(u.stmts[n])}
OwnLabels(u) == {u.stmts[n].label : n \in Labelled(u)}

\* a label of u is defined by another statement, of u or of an earlier unit
Redefines(u) ==
    \/ OwnLabels(u) \cap DOMAIN label_defs # {}
    \/ \E m, n \in Labelled(u) : m # n /\ u.stmts[m].label = u.stmts[n].label

IndexUnit ==
    LET u == units[i]
        def(l) == [owner |-> u.id, kind |-> u.kind,
                   class |-> (CHOOSE st \in ToSet(u.stmts) : IsLabelled(st) /\ st.label = l).op]
    IN  /\ pc = "index"
        /\ IF Redefines(u) THEN Raise("E_DUPLICATE_LABEL_DEF")
           ELSE /\ label_defs' = [l \in DOMAIN label_defs \cup OwnLabels(u) |->
                                     IF l \in OwnLabels(u) THEN def(l) ELSE label_defs[l]]
                /\ Advance(Len(units), "check")
                /\ UNCHANGED <<k, sort_vars, scan_vars, body>>

\* _check_cross_unit_proof_token, for a label another unit defines
CrossUnit(def, exported) ==
    CASE def.class = "f" /\ def.kind # "foundation" -> "E_HYPOTHESIS_LEAKAGE"
      [] def.class = "e" -> "E_HYPOTHESIS_LEAKAGE"
      [] OTHER -> IF exported THEN "ok" ELSE "E_SYMBOL_NOT_EXPORTED"

\* the checks of one proof token
ProofToken(u, t) ==
    IF t \notin Labels THEN "E_PROOF_TOKEN_KIND"
    ELSE IF Level = 0 THEN "ok"
    ELSE IF t \notin DOMAIN label_defs THEN "E_LABEL_NOT_DEFINED"
    ELSE IF label_defs[t].owner = u.id THEN "ok"
    ELSE CrossUnit(label_defs[t], t \in UnitOf(label_defs[t].owner).exports)

WellKinded(st) ==
    /\ st.op \in {"f", "e", "a", "p"} => st.tc \in Consts
    /\ st.op = "f" => st.var \in Vars
    /\ st.op \in {"e", "a", "p"} => TokensOf(st.expr) \subseteq Consts \cup Vars

\* the results of the checks of a statement, in the order they are made
Checks(u, st) ==
    <<IF WellKinded(st) THEN "ok" ELSE "E_TOKEN_KIND">>
    \o IF st.op = "p" THEN [n \in DOMAIN st.proof |-> ProofToken(u, st.proof[n])] ELSE <<>>

CheckUnit ==
    /\ pc = "check"
    /\ \E codes \in {FlattenSeq([n \in DOMAIN units[i].stmts |-> Checks(units[i], units[i].stmts[n])])} :
          LET failed == At(codes, {n \in DOMAIN codes : codes[n] # "ok"})
          IN  IF failed # <<>> THEN Raise(Head(failed))
              ELSE /\ Advance(Len(units), "graph")
                   /\ UNCHANGED <<k, label_defs, sort_vars, scan_vars, body>>

-----------------------------------------------------------------------------
(* Stage 4: the order of the units, after a first stage 2 for the references *)

\* direct_dependencies of the theorems of u
Cited(u) == UNION {TokensOf(st.proof) : st \in {s \in ToSet(u.stmts) : s.op = "p"}}

\* the unit taken for the owner of an exported symbol: the last that exports it
Exporters(l) == {n \in DOMAIN units : l \in units[n].exports}
LabelOwner(l) == units[CHOOSE n \in Exporters(l) : \A m \in Exporters(l) : m <= n].id

\* (variant: what a unit exports is what it depends on)
DependsOn_Swapped(u) ==
    {v.id : v \in {w \in ToSet(units) : Cited(w) \cap u.exports # {}}} \ {u.id}
DependsOn(u) ==
    {LabelOwner(l) : l \in {c \in Cited(u) : Exporters(c) # {}}} \ {u.id}

BuildGraph ==
    /\ pc = "graph"
    /\ graph' = [id \in ToSet(Ids) |-> DependsOn(UnitOf(id))]
    /\ pc' = "nodes"
    /\ UNCHANGED <<units, err, i, k, label_defs, nodes, ready, order, scan_vars, body>>

\* TopologicalSorter.add(unit, *dependencies): the dependencies are a Python
\* set of strings, met in any order
AddNode ==
    LET id == units[i].id
        met == IF id \in ToSet(nodes) THEN nodes ELSE Append(nodes, id)
    IN  /\ pc = "nodes"
        /\ \E more \in SetToSeqs(graph[id] \ ToSet(met)) : nodes' = met \o more
        /\ Advance(Len(units), "prepare")
        /\ UNCHANGED <<k, label_defs, graph, ready, order, scan_vars, body>>

Prepare ==
    /\ pc = "prepare"
    /\ ready' = At(nodes, {n \in DOMAIN nodes : graph[nodes[n]] = {}})
    /\ pc' = "sort"
    /\ UNCHANGED <<units, err, i, k, label_defs, graph, nodes, order, scan_vars, body>>

\* static_order emits a group of ready units, then marks them done one by one:
\* a unit gets ready when its last dependency is done
Released(n) ==
    LET done == ToSet(order) \cup {ready[m] : m \in 1..n}
    IN  At(Ids, {a \in DOMAIN Ids : ready[n] \in graph[Ids[a]] /\ graph[Ids[a]] \subseteq done})

SortGroup ==
    /\ pc = "sort" /\ ready # <<>>
    /\ order' = order \o ready
    /\ ready' = FlattenSeq([n \in DOMAIN ready |-> Released(n)])
    /\ UNCHANGED <<units, pc, err, i, k, label_defs, graph, nodes, scan_vars, body>>

\* (variant: what could be sorted is linked)
SortEnd_NoCycleCheck ==
    /\ pc = "sort" /\ ready = <<>>
    /\ pc' = "contracts"
    /\ UNCHANGED <<units, err, i, k, label_defs, sort_vars, scan_vars, body>>
\* (variant: the units of a cycle are waited for)
SortEnd_Waits ==
    /\ pc = "sort" /\ Len(order) = Len(units)
    /\ pc' = "contracts"
    /\ UNCHANGED <<units, err, i, k, label_defs, sort_vars, scan_vars, body>>
\* (prepare() looks for the cycle before the first group; the outcome is this)
SortEnd ==
    /\ pc = "sort" /\ ready = <<>>
    /\ IF Len(order) < Len(units) THEN Raise("E_DEPENDENCY_CYCLE")
       ELSE /\ pc' = "contracts"
            /\ UNCHANGED <<units, err, i, k, label_defs, sort_vars, scan_vars, body>>

\* the foundation is moved before the ordinary units
Linked ==
    LET sorted == [n \in DOMAIN order |-> UnitOf(order[n])]
        foundations == {n \in DOMAIN sorted : IsFoundation(sorted[n])}
    IN  At(sorted, foundations) \o At(sorted, DOMAIN sorted \ foundations)

-----------------------------------------------------------------------------
(* Stages 2 and 3: contracts, one statement at a time in the final order.  *)
(* (The code finishes stage 2, which cannot fail, before stage 3 starts;   *)
(* nothing is read of a build that stage 3 ends.)                          *)

Required(st) == VarsIn(st.expr) \cup UNION {VarsIn(h.expr) : h \in ToSet(frame.e)}

\* (stage 3) the $d pairs of mandatory variables
MandatoryPairs(st) == {pair \in frame.d : pair \subseteq Required(st)}

\* the mandatory $f and $e labels, and the pairs
Contract(st) ==
    [f |-> LabelsInOrder(At(frame.f, {n \in DOMAIN frame.f : frame.f[n].var \in Required(st)})),
     e |-> LabelsInOrder(frame.e),
     d |-> MandatoryPairs(st)]

\* (variant: the $d pairs outlive their block)
Restored_KeepsD == IF stack = <<>> THEN Empty ELSE [Last(stack) EXCEPT !.d = frame.d]
Restored == IF stack = <<>> THEN Empty ELSE Last(stack)

\* (variant: stage 3 checks the ends of a pair, not that they differ)
Refused_SelfPairs(st) ==
    /\ st.op = "d"
    /\ \E a, b \in DOMAIN st.vars : a < b /\ ~({st.vars[a], st.vars[b]} \subseteq Vars)
\* stage 3 cannot use a $d
Refused(st) == st.op = "d" /\ ~Separable(st.vars)

\* normalize_dv_pairs raises, and link() lets the exception through
ScanRefuses ==
    /\ pc = "contracts" /\ k <= Len(Linked[i].stmts)
    /\ Refused(Linked[i].stmts[k])
    /\ Raise("DisjointSpecError")

ScanStatement ==
    LET st == Linked[i].stmts[k]
    IN  /\ pc = "contracts" /\ k <= Len(Linked[i].stmts)
        /\ ~Refused(st)
        /\ frame' = CASE st.op = "exit" -> Restored
                      [] st.op = "f" -> [frame EXCEPT !.f = Append(@, st)]
                      [] st.op = "e" -> [frame EXCEPT !.e = Append(@, st)]
                      [] st.op = "d" -> [frame EXCEPT !.d = @ \cup PairsOf(st.vars)]
                      [] OTHER -> frame
        /\ stack' = CASE st.op = "enter" -> Append(stack, frame)
                      [] st.op = "exit" /\ stack # <<>> -> Front(stack)
                      [] OTHER -> stack
        /\ contracts' = IF IsAssertion(st)
                        THEN [l \in DOMAIN contracts \cup {st.label} |->
                                 IF l = st.label THEN Contract(st) ELSE contracts[l]]
                        ELSE contracts
        /\ k' = k + 1
        /\ UNCHANGED <<units, pc, err, i, label_defs, sort_vars, ambient, body>>

\* (variant: the frame of every unit is ambient)
Leaves_Always(u) == TRUE
\* only a foundation leaves its frame to the units after it
Leaves(u) == IsFoundation(u)

ScanUnitEnd ==
    /\ pc = "contracts" /\ k > Len(Linked[i].stmts)
    /\ ambient' = IF Leaves(Linked[i]) THEN frame ELSE ambient
    /\ frame' = ambient'
    /\ stack' = <<>>
    /\ k' = 1
    /\ Advance(Len(Linked), "plan")
    /\ UNCHANGED <<label_defs, sort_vars, contracts, body>>

-----------------------------------------------------------------------------
(* Stage 5: the emitted statements *)

\* (variant: no unit gets an outer block)
Wrapped_Never(u) == u.stmts
\* every ordinary unit that says anything gets an outer block
Wrapped(u) ==
    IF IsFoundation(u) \/ u.stmts = <<>> THEN u.stmts ELSE <<Enter>> \o u.stmts \o <<Exit>>

Plan ==
    /\ pc = "plan"
    /\ body' = FlattenSeq([n \in DOMAIN Linked |-> Wrapped(Linked[n])])
    /\ pc' = "done"
    /\ UNCHANGED <<units, err, i, k, label_defs, sort_vars, scan_vars>>

Next ==
    \/ CheckFoundations \/ IndexUnit \/ CheckUnit
    \/ BuildGraph \/ AddNode \/ Prepare \/ SortGroup \/ SortEnd
    \/ ScanStatement \/ ScanRefuses \/ ScanUnitEnd
    \/ Plan

Spec == Init /\ [][Next]_vars

\* One call of link(), on one thread: it takes a step while it can.
FairSpec == Spec /\ WF_vars(Next)

-----------------------------------------------------------------------------
(* Properties *)

Done == pc = "done"

\* What the passes rely on and none of them checks.  The builder closes the blocks
\* it opens (Builder!BlocksAgree);
Built == \A u \in Catalogue : Balanced(u.stmts)
\* a unit exports labels of its own;
ExportsOwn == \A u \in Catalogue : u.exports \cap Labels \subseteq OwnLabels(u)
\* a foundation cites only itself (DriverRunner refuses one that has dependencies),
\* and the $f it exports are outermost.
FoundationsFirst ==
    \A u \in Catalogue : IsFoundation(u) =>
        /\ Cited(u) \subseteq OwnLabels(u)
        /\ \A n \in DOMAIN u.stmts :
              u.stmts[n].op = "f" /\ u.stmts[n].label \in u.exports => Depth(u.stmts, n) = 0

OwnerOf(n) == label_defs[body[n].label].owner
IsOf(n, u) == IsLabelled(body[n]) /\ OwnerOf(n) = u.id
OneFloatEach(n) ==
    \A a, b \in ActiveF(body, n) : body[a].var = body[b].var => a = b

\* What the linker says using an assertion requires is what the scopes of the
\* emitted text say: the two stack scans over the separate units, with the
\* foundation's frame carried over, agree with the one stream a verifier reads.
\* (For variables with one active $f: stage 2 lists all of them where a unit
\* floats a variable that has one, the verifier the innermost.)
ContractIsFrame ==
    Done => \A n \in DOMAIN body :
        IsAssertion(body[n]) /\ OneFloatEach(n) =>
            contracts[body[n].label] = FrameOf(body, n)

\* Whatever the input order and the order of the sets inside the sorter, a proof
\* that cites another unit comes after the statement cited, and a hypothesis
\* cited is in scope there: a verifier that reads on can resolve it.
ProvidersFirst ==
    Done => \A n \in {m \in DOMAIN body : body[m].op = "p"} :
        \A l \in TokensOf(body[n].proof) :
            l \in DOMAIN label_defs /\ label_defs[l].owner # OwnerOf(n) =>
                \E m \in 1 .. n - 1 : /\ IsLabelled(body[m]) /\ body[m].label = l
                                      /\ IsHyp(body[m]) => InScope(body, m, n)

\* Sorting and moving the foundation drop, repeat and tear no unit: the labelled
\* statements of each unit are in the stream, in order, and nothing else is.
NothingLost ==
    Done =>
        /\ \A u \in ToSet(units) :
              At(body, {n \in DOMAIN body : IsOf(n, u)}) = At(u.stmts, Labelled(u))
        /\ \A n \in DOMAIN body :
              IsLabelled(body[n]) => \E u \in ToSet(units) : u.id = OwnerOf(n)

\* The frames of ordinary units end with them, the one of a foundation does not:
\* its outermost $f are in scope at every statement of every other unit
\* (010-foundation-scope.md, F3 and F4).
FramesBelong ==
    Done =>
        \A u, v \in ToSet(units) : u # v =>
            \A a \in {n \in DOMAIN body : IsOf(n, u) /\ IsHyp(body[n])},
               b \in {n \in DOMAIN body : IsOf(n, v)} :
                IF IsFoundation(u) THEN Depth(body, a) = 0 => InScope(body, a, b)
                ELSE ~InScope(body, a, b)

Cyclic ==
    \E S \in SUBSET ToSet(Ids) : S # {} /\ \A id \in S : graph[id] \cap S # {}

\* A build is refused for a dependency cycle exactly when it has one.
CyclesRejected ==
    /\ err = "E_DEPENDENCY_CYCLE" => Cyclic
    /\ Done => ~Cyclic

\* When a set of units can be linked.  A proof of u may cite a label of its own
\* unit, and of another unit an exported one that is no hypothesis but a $f of the
\* foundation;
MayCite(U, u, l) ==
    /\ l \in Labels
    /\ Level # 0 =>
          \/ l \in OwnLabels(u)
          \/ \E v \in U : \E n \in Labelled(v) :
                /\ v.stmts[n].label = l /\ l \in v.exports
                /\ v.stmts[n].op # "e" /\ (v.stmts[n].op = "f" => IsFoundation(v))
\* there is one foundation at most, labels are distinct, expressions are made of the
\* right kinds of symbols and $d statements of different variables, and no units need
\* each other's exports in a circle.
Linkable(U) ==
    /\ \A u, v \in U : IsFoundation(u) /\ IsFoundation(v) => u = v
    /\ \A u, v \in U : \A m \in Labelled(u), n \in Labelled(v) :
          u.stmts[m].label = v.stmts[n].label => u = v /\ m = n
    /\ \A u \in U : \A st \in ToSet(u.stmts) :
          WellKinded(st) /\ (st.op = "p" => \A l \in TokensOf(st.proof) : MayCite(U, u, l))
    /\ \A u \in U : \A st \in ToSet(u.stmts) : st.op = "d" => Separable(st.vars)
    /\ ~ \E S \in SUBSET U :
            S # {} /\ \A u \in S : \E v \in S \ {u} : Cited(u) \cap v.exports # {}

\* Passes that stop at the first fault they meet, three over the list as it is, the
\* sorter, and the scan of the $d in the sorted order, accept a list of
\* units exactly if the set of these units can be linked: neither the order of the
\* list nor that of the sorter's sets plays a part.
LinksIfLinkable ==
    /\ Done => Linkable(ToSet(units))
    /\ pc = "failed" => ~Linkable(ToSet(units))

\* What is around the statements of u: the foundation, the only unit whose frame
\* is left to others.
Ground(u) ==
    LET fs == {v \in ToSet(units) : IsFoundation(v)}
    IN  IF IsFoundation(u) \/ fs = {} THEN <<>> ELSE (CHOOSE v \in fs : TRUE).stmts
Asserted(u) == {n \in DOMAIN u.stmts : IsAssertion(u.stmts[n])}

\* The contract of statement q in a text s (of a variable with several $f in scope
\* it lists all of them).
Floats(s, q) == {j \in ActiveF(s, q) : s[j].var \in MandatoryVars(s, q)}
ContractAt(s, q) ==
    [f |-> LabelsInOrder(At(s, Floats(s, q))), e |-> LabelsInOrder(At(s, ActiveE(s, q))),
     d |-> MandatoryD(s, q)]

\* The contract of an assertion is a matter of its unit and the foundation: whatever
\* other units are linked along, and wherever among them the sort puts this one, the
\* frames that the scan carries from unit to unit add nothing and lose nothing.
ContractsAreLocal ==
    Done =>
        /\ DOMAIN contracts =
              UNION {{u.stmts[n].label : n \in Asserted(u)} : u \in ToSet(units)}
        /\ \A u \in ToSet(units) : \A n \in Asserted(u) :
              contracts[u.stmts[n].label] =
                  ContractAt(Ground(u) \o u.stmts, Len(Ground(u)) + n)

\* Every link ends, in a stream or a diagnostic.
Terminates == <>(pc \in {"done", "failed"})
=============================================================================
