------------------------------ MODULE Linker_proof ------------------------------
(***************************************************************************)
(* Proofs about the linker, for every list of units: the order it gives    *)
(* them, which sets of units it refuses, the text it makes of them, what   *)
(* is in scope across the boundaries of units in that text, that what a    *)
(* proof cites stands before it, that the contracts of the scan over       *)
(* separate units are the frames of the one text, and that they depend on  *)
(* the foundation and the unit only.                                       *)
(***************************************************************************)
EXTENDS Linker, PositionLemmas

IdSet == ToSet(Ids)

-----------------------------------------------------------------------------
(* The input *)

\* The input is a list of distinct units, and it stays.
UnitsOK == units \in Seq(Catalogue) /\ Len(units) >= 1 /\ NoRepeat(units)

LEMMA IdsOf ==
    ASSUME UnitsOK
    PROVE  /\ Ids \in Seq(IdSet) /\ Len(Ids) = Len(units) /\ Len(units) \in Nat /\ NoRepeat(Ids)
           /\ IdSet = {u.id : u \in ToSet(units)}
           /\ \A n \in 1..Len(units) : units[n].id \in IdSet /\ Ids[n] = units[n].id
                                       /\ units[n] \in ToSet(units) /\ units[n] \in Catalogue
           /\ ToSet(units) \subseteq Catalogue
           /\ \A u \in ToSet(units) : UnitOf(u.id) = u
           /\ \A id \in IdSet : UnitOf(id) \in ToSet(units) /\ UnitOf(id).id = id
<1>1. units \in Seq(Catalogue) /\ Len(units) \in Nat /\ DOMAIN units = 1..Len(units)
  BY DEF UnitsOK
<1>2. Ids = [n \in 1..Len(units) |-> units[n].id]
  BY <1>1 DEF Ids
<1>3. DOMAIN Ids = 1..Len(units) /\ \A n \in 1..Len(units) : Ids[n] = units[n].id
  BY <1>2
<1>4. IdSet = {Ids[n] : n \in 1..Len(units)} /\ ToSet(units) = {units[n] : n \in 1..Len(units)}
  BY <1>1, <1>3 DEF IdSet, ToSet
<1>5. \A n \in 1..Len(units) : Ids[n] \in IdSet
  BY <1>4
<1>6. Ids \in Seq(IdSet) /\ Len(Ids) = Len(units)
  BY <1>1, <1>2, <1>5
<1>7. ToSet(units) \subseteq Catalogue
  BY <1>1, <1>4
<1>8. \A u, v \in ToSet(units) : u.id = v.id => u = v
  BY <1>7, LinkerAssumption
<1>9. NoRepeat(Ids)
  <2> SUFFICES ASSUME NEW a \in 1..Len(units), NEW b \in 1..Len(units), Ids[a] = Ids[b] PROVE a = b
    BY <1>6 DEF NoRepeat
  <2>1. units[a] = units[b]
    BY <1>3, <1>4, <1>8
  <2>2. QED
    BY <2>1 DEF UnitsOK, NoRepeat
<1>10. IdSet = {u.id : u \in ToSet(units)}
  BY <1>3, <1>4
<1>11. \A u \in ToSet(units) : UnitOf(u.id) = u
  BY <1>8 DEF UnitOf
<1>12. \A id \in IdSet : UnitOf(id) \in ToSet(units) /\ UnitOf(id).id = id
  BY <1>10, <1>11
<1>13. QED
  BY <1>1, <1>3, <1>4, <1>5, <1>6, <1>7, <1>9, <1>10, <1>11, <1>12

-----------------------------------------------------------------------------
(* The order of the units *)

Stages == {"nodes", "prepare", "sort", "contracts", "plan", "done"}
Sorted == {"contracts", "plan", "done"}

\* a dependency of a unit is another unit of the build
GraphOK == graph \in [IdSet -> SUBSET IdSet]

\* the sorter met every unit added so far, and none twice
NodesOK ==
    /\ nodes \in Seq(IdSet) /\ NoRepeat(nodes) /\ i \in 1..Len(units)
    /\ \A n \in 1 .. i - 1 : units[n].id \in ToSet(nodes)
    /\ order = <<>>

AllNodes == nodes \in Seq(IdSet) /\ NoRepeat(nodes) /\ ToSet(nodes) = IdSet /\ order = <<>>

\* What is sorted comes after its dependencies; what is ready has all of them
\* sorted and is not sorted itself; and no unit but these has them sorted.
OrderOK ==
    /\ order \in Seq(IdSet) /\ NoRepeat(order)
    /\ \A p \in 1..Len(order) : graph[order[p]] \subseteq {order[q] : q \in 1 .. p - 1}
ReadyOK ==
    /\ ready \in Seq(IdSet) /\ NoRepeat(ready) /\ ToSet(order) \cap ToSet(ready) = {}
    /\ \A id \in ToSet(ready) : graph[id] \subseteq ToSet(order)
    /\ \A id \in IdSet : graph[id] \subseteq ToSet(order) => id \in ToSet(order) \cup ToSet(ready)

SortInv ==
    /\ UnitsOK
    /\ pc \in {"foundations", "index", "check", "graph", "failed"} \cup Stages
    /\ pc \in {"index", "check"} => i \in 1..Len(units)
    /\ pc = "foundations" => i = 1
    /\ pc = "graph" => i = 1 /\ nodes = <<>> /\ order = <<>>
    /\ pc \in {"foundations", "index", "check"} => nodes = <<>> /\ order = <<>>
    /\ pc \in Stages => GraphOK
    /\ pc = "nodes" => NodesOK
    /\ pc = "prepare" => AllNodes
    /\ pc = "sort" => OrderOK /\ ReadyOK
    /\ pc \in Sorted => OrderOK /\ ToSet(order) = IdSet
    /\ err = "E_DEPENDENCY_CYCLE" => pc = "failed" /\ Cyclic

\* Of the units that export a symbol, one is taken.
LEMMA OwnerIs ==
    ASSUME UnitsOK, NEW l, Exporters(l) # {}
    PROVE  \E n \in Exporters(l) : LabelOwner(l) = units[n].id /\ n \in 1..Len(units)
<1>1. Exporters(l) \subseteq 0..Len(units) /\ Exporters(l) \subseteq 1..Len(units) /\ Len(units) \in Nat
  BY IdsOf DEF Exporters, UnitsOK
<1>2. \E n \in Exporters(l) : \A m \in Exporters(l) : m <= n
  BY <1>1, NatGreatest
<1>3. QED
  BY <1>1, <1>2 DEF LabelOwner

LEMMA GraphMade ==
    ASSUME SortInv, BuildGraph
    PROVE  SortInv' /\ graph' = [id \in IdSet |-> DependsOn(UnitOf(id))]
<1>1. UnitsOK /\ units' = units /\ pc = "graph" /\ pc' = "nodes"
  BY DEF SortInv, BuildGraph
<1>2. graph' = [id \in IdSet |-> DependsOn(UnitOf(id))]
  BY DEF BuildGraph, IdSet
<1>3. \A u : DependsOn(u) \subseteq IdSet
  <2> SUFFICES ASSUME NEW l, Exporters(l) # {} PROVE LabelOwner(l) \in IdSet
    BY DEF DependsOn
  <2>1. QED
    BY <1>1, OwnerIs, IdsOf
<1>4. UnitsOK' /\ IdSet' = IdSet
  BY <1>1 DEF UnitsOK, IdSet, Ids
<1>5. GraphOK'
  BY <1>2, <1>3, <1>4 DEF GraphOK
<1>6. NodesOK'
  <2>1. nodes' = <<>> /\ order' = <<>> /\ i' = 1 /\ <<>> \in Seq(IdSet) /\ Len(<<>>) = 0
    BY DEF SortInv, BuildGraph
  <2>2. 1 \in 1..Len(units)
    BY <1>1 DEF UnitsOK
  <2>3. QED
    BY <1>1, <1>4, <2>1, <2>2 DEF NodesOK, NoRepeat
<1>7. err' = err /\ err # "E_DEPENDENCY_CYCLE"
  BY <1>1 DEF SortInv, BuildGraph
<1>8. QED
  BY <1>1, <1>2, <1>4, <1>5, <1>6, <1>7 DEF SortInv, Stages, Sorted

\* A unit is added, and the dependencies that the sorter did not meet before.
LEMMA NodeAdded == ASSUME SortInv, AddNode PROVE SortInv'
<1> DEFINE id == units[i].id
           met == IF id \in ToSet(nodes) THEN nodes ELSE Append(nodes, id)
           rest == graph[id] \ ToSet(met)
<1>1. UnitsOK /\ GraphOK /\ NodesOK /\ units' = units /\ graph' = graph /\ order' = order
      /\ err' = err /\ err # "E_DEPENDENCY_CYCLE"
  BY DEF SortInv, Stages, AddNode, Advance
<1>2. /\ id \in IdSet /\ graph[id] \subseteq IdSet /\ nodes \in Seq(IdSet) /\ Len(nodes) \in Nat
      /\ Len(units) \in Nat /\ i \in 1..Len(units)
  BY <1>1, IdsOf DEF NodesOK, GraphOK
<1>3. PICK more \in SetToSeqs(rest) : nodes' = met \o more
  BY DEF AddNode
<1>4. met \in Seq(IdSet) /\ NoRepeat(met) /\ ToSet(met) = ToSet(nodes) \cup {id}
  <2>1. CASE id \in ToSet(nodes)
    BY <1>1, <1>2, <2>1 DEF NodesOK
  <2>2. CASE id \notin ToSet(nodes)
    <3>1. met = Append(nodes, id)
      BY <2>2
    <3>2. /\ met \in Seq(IdSet) /\ Len(met) = Len(nodes) + 1 /\ met[Len(nodes) + 1] = id
          /\ \A n \in 1..Len(nodes) : met[n] = nodes[n] /\ nodes[n] \in ToSet(nodes)
      BY <1>2, <3>1 DEF ToSet
    <3> HIDE DEF met
    <3>3. DOMAIN met = 1..Len(met) /\ DOMAIN nodes = 1..Len(nodes)
          /\ 1..Len(met) = 1..Len(nodes) \cup {Len(nodes) + 1}
      BY <1>2, <3>2
    <3>4. ToSet(met) = ToSet(nodes) \cup {id}
      BY <3>2, <3>3 DEF ToSet
    <3>5. NoRepeat(met)
      BY <1>1, <2>2, <3>2, <3>3 DEF NoRepeat, NodesOK
    <3>6. QED
      BY <3>2, <3>4, <3>5
  <2>3. QED
    BY <2>1, <2>2
<1> HIDE DEF met
<1>5. /\ more \in Seq(IdSet) /\ NoRepeat(more) /\ Len(more) \in Nat
      /\ \A n \in 1..Len(more) : more[n] \in IdSet /\ more[n] \notin ToSet(met)
  <2> DEFINE D == 1..Cardinality(rest)
  <2>1. more \in [D -> rest] /\ \A a, b \in D : a # b => more[a] # more[b]
    BY <1>3 DEF SetToSeqs
  <2>2. Cardinality(rest) \in Nat
    <3>1. IsFiniteSet(IdSet)
      BY <1>1, IdsOf, ElementsFinite DEF IdSet
    <3>2. IsFiniteSet(rest)
      <4>1. rest \subseteq IdSet
        BY <1>2
      <4> HIDE DEF rest
      <4>2. QED
        BY <3>1, <4>1, FS_Subset
    <3> HIDE DEF rest
    <3>3. QED
      BY <3>2, FS_CardinalityType
  <2>3. rest \subseteq IdSet /\ \A x \in rest : x \notin ToSet(met)
    BY <1>2
  <2> HIDE DEF rest
  <2>4. more \in Seq(IdSet) /\ Len(more) = Cardinality(rest) /\ DOMAIN more = D
    BY <2>1, <2>2, <2>3
  <2>5. QED
    BY <2>1, <2>2, <2>3, <2>4 DEF NoRepeat
<1>6. nodes' \in Seq(IdSet) /\ ToSet(nodes') = ToSet(met) \cup ToSet(more)
  BY <1>3, <1>4, <1>5, ToSetConcat
<1>7. NoRepeat(nodes')
  <2>1. ToSet(met) \cap ToSet(more) = {}
    BY <1>5 DEF ToSet
  <2>2. QED
    BY <1>3, <1>4, <1>5, <2>1, ConcatNoRepeat
<1>8. \A n \in 1..i : units[n].id \in ToSet(nodes')
  <2>1. \A n \in 1..i : n \in 1 .. i - 1 \/ n = i
    BY <1>2
  <2>2. QED
    BY <1>1, <1>4, <1>6, <2>1 DEF NodesOK
<1>9. UnitsOK' /\ IdSet' = IdSet /\ GraphOK'
  BY <1>1 DEF UnitsOK, IdSet, Ids, GraphOK
<1>10. CASE i = Len(units)
  <2>1. pc' = "prepare"
    BY <1>10 DEF AddNode, Advance
  <2>2. ToSet(nodes') = IdSet
    <3>1. IdSet \subseteq ToSet(nodes')
      <4>1. \A n \in 1..Len(units) : units[n].id \in ToSet(nodes')
        BY <1>8, <1>10
      <4>2. ASSUME NEW x \in IdSet PROVE x \in ToSet(nodes')
        <5>1. PICK n \in 1..Len(units) : x = units[n].id
          BY <1>1, IdsOf DEF IdSet, ToSet
        <5>2. QED
          BY <4>1, <5>1
      <4>3. QED
        BY <4>2
    <3>2. ToSet(nodes') \subseteq IdSet
      BY <1>6 DEF ToSet
    <3>3. QED
      BY <3>1, <3>2
  <2>3. AllNodes'
    BY <1>1, <1>6, <1>7, <1>9, <2>2 DEF AllNodes, NodesOK
  <2>4. QED
    BY <1>1, <1>9, <2>1, <2>3 DEF SortInv, Stages, Sorted
<1>11. CASE i # Len(units)
  <2>1. pc' = "nodes" /\ i' = i + 1
    BY <1>11 DEF AddNode, Advance
  <2>2. i' \in 1..Len(units) /\ i' - 1 = i
    BY <1>2, <1>11, <2>1
  <2>3. NodesOK'
    BY <1>1, <1>6, <1>7, <1>8, <1>9, <2>2 DEF NodesOK
  <2>4. QED
    BY <1>1, <1>9, <2>1, <2>3 DEF SortInv, Stages, Sorted
<1>12. QED
  BY <1>10, <1>11

\* The sorter starts with the units that depend on none.
LEMMA Prepared == ASSUME SortInv, Prepare PROVE SortInv'
<1> DEFINE S == {n \in DOMAIN nodes : graph[nodes[n]] = {}}
<1>1. /\ UnitsOK /\ GraphOK /\ AllNodes /\ units' = units /\ graph' = graph /\ order' = order
      /\ ready' = At(nodes, S) /\ pc' = "sort" /\ err' = err /\ err # "E_DEPENDENCY_CYCLE"
  BY DEF SortInv, Stages, Prepare
<1>2. nodes \in Seq(IdSet) /\ NoRepeat(nodes) /\ ToSet(nodes) = IdSet /\ order = <<>>
      /\ DOMAIN nodes = 1..Len(nodes)
  BY <1>1 DEF AllNodes
<1>3. S \cap 1..Len(nodes) = S
  BY <1>2
<1>4. ready' \in Seq(IdSet) /\ NoRepeat(ready') /\ ToSet(ready') = {nodes[n] : n \in S}
  <2> HIDE DEF S
  <2>1. QED
    BY <1>1, <1>2, <1>3, AtElements, AtNoRepeat
<1>5. ToSet(ready') = {id \in IdSet : graph[id] = {}}
  <2>1. \A id \in IdSet : \E n \in DOMAIN nodes : id = nodes[n]
    BY <1>2 DEF ToSet
  <2>2. \A n \in DOMAIN nodes : nodes[n] \in IdSet
    BY <1>2
  <2>3. QED
    BY <1>4, <2>1, <2>2
<1>6. UnitsOK' /\ IdSet' = IdSet /\ GraphOK'
  BY <1>1 DEF UnitsOK, IdSet, Ids, GraphOK
<1>7. order' = <<>> /\ <<>> \in Seq(IdSet) /\ Len(<<>>) = 0 /\ ToSet(<<>>) = {}
  BY <1>1, <1>2 DEF ToSet
<1>8. OrderOK'
  BY <1>6, <1>7 DEF OrderOK, NoRepeat
<1>9. ReadyOK'
  BY <1>1, <1>4, <1>5, <1>6, <1>7 DEF ReadyOK
<1>10. QED
  BY <1>1, <1>6, <1>8, <1>9 DEF SortInv, Stages, Sorted

\* The units that the n-th of the ready ones releases: it is the last of their
\* dependencies, so no two release the same.
LEMMA ReleasedAre ==
    ASSUME UnitsOK, GraphOK, OrderOK, ReadyOK, NEW n \in 1..Len(ready)
    PROVE  /\ Released(n) \in Seq(IdSet) /\ NoRepeat(Released(n))
           /\ ToSet(Released(n)) =
                {id \in IdSet : /\ ready[n] \in graph[id]
                                /\ graph[id] \subseteq ToSet(order) \cup {ready[m] : m \in 1..n}}
<1> DEFINE done == ToSet(order) \cup {ready[m] : m \in 1..n}
           S == {a \in DOMAIN Ids : ready[n] \in graph[Ids[a]] /\ graph[Ids[a]] \subseteq done}
<1>1. Ids \in Seq(IdSet) /\ NoRepeat(Ids) /\ DOMAIN Ids = 1..Len(Ids)
  BY IdsOf
<1>2. Released(n) = At(Ids, S)
  BY DEF Released
<1>3. S \cap 1..Len(Ids) = S
  BY <1>1
<1>4. At(Ids, S) \in Seq(IdSet) /\ NoRepeat(At(Ids, S)) /\ ToSet(At(Ids, S)) = {Ids[a] : a \in S}
  <2> HIDE DEF S
  <2>1. QED
    BY <1>1, <1>3, AtElements, AtNoRepeat
<1>5. {Ids[a] : a \in S} = {id \in IdSet : ready[n] \in graph[id] /\ graph[id] \subseteq done}
  <2>1. \A id \in IdSet : \E a \in DOMAIN Ids : id = Ids[a]
    BY DEF IdSet, ToSet
  <2>2. \A a \in DOMAIN Ids : Ids[a] \in IdSet
    BY DEF IdSet, ToSet
  <2> HIDE DEF done
  <2>3. QED
    BY <2>1, <2>2
<1>6. QED
  BY <1>2, <1>4, <1>5

\* A group is sorted.
LEMMA GroupSorted == ASSUME SortInv, SortGroup PROVE SortInv'
<1> DEFINE groups == [n \in DOMAIN ready |-> Released(n)]
           new == order \o ready
<1>1. /\ UnitsOK /\ GraphOK /\ OrderOK /\ ReadyOK /\ units' = units /\ graph' = graph
      /\ order' = new /\ ready' = FlattenSeq(groups)
      /\ pc = "sort" /\ pc' = "sort" /\ err' = err /\ err # "E_DEPENDENCY_CYCLE"
  BY DEF SortInv, Stages, SortGroup
<1>2. /\ order \in Seq(IdSet) /\ ready \in Seq(IdSet) /\ NoRepeat(order) /\ NoRepeat(ready)
      /\ Len(order) \in Nat /\ Len(ready) \in Nat /\ DOMAIN ready = 1..Len(ready)
      /\ ToSet(order) \cap ToSet(ready) = {}
      /\ \A n \in 1..Len(ready) : ready[n] \in ToSet(ready) /\ ready[n] \in IdSet
      /\ \A p \in 1..Len(order) : order[p] \in ToSet(order) /\ order[p] \in IdSet
      /\ DOMAIN order = 1..Len(order)
  <2>1. /\ order \in Seq(IdSet) /\ ready \in Seq(IdSet) /\ NoRepeat(order) /\ NoRepeat(ready)
        /\ ToSet(order) \cap ToSet(ready) = {}
    BY <1>1 DEF OrderOK, ReadyOK
  <2>2. /\ Len(order) \in Nat /\ Len(ready) \in Nat /\ DOMAIN ready = 1..Len(ready)
        /\ DOMAIN order = 1..Len(order)
    BY <2>1
  <2>3. QED
    BY <2>1, <2>2 DEF ToSet
<1>3. /\ groups \in Seq(Seq(IdSet)) /\ Len(groups) = Len(ready)
      /\ \A n \in 1..Len(ready) : groups[n] = Released(n)
  <2>1. \A n \in 1..Len(ready) : Released(n) \in Seq(IdSet)
    BY <1>1, ReleasedAre
  <2>2. QED
    BY <1>2, <2>1
<1>4. /\ new \in Seq(IdSet) /\ ToSet(new) = ToSet(order) \cup ToSet(ready)
      /\ Len(new) = Len(order) + Len(ready)
      /\ \A p \in 1..Len(order) : new[p] = order[p]
      /\ \A n \in 1..Len(ready) : new[Len(order) + n] = ready[n]
  BY <1>2, ToSetConcat
<1> HIDE DEF groups, new
<1>5. ready' \in Seq(IdSet) /\ ToSet(ready') = UNION {ToSet(groups[n]) : n \in 1..Len(ready)}
  BY <1>1, <1>3, FlattenElements
<1>6. ASSUME NEW n \in 1..Len(ready), NEW id \in ToSet(groups[n])
      PROVE  /\ id \in IdSet /\ ready[n] \in graph[id]
             /\ graph[id] \subseteq ToSet(order) \cup {ready[m] : m \in 1..n}
  BY <1>1, <1>3, <1>6, ReleasedAre
<1>7. ASSUME NEW m \in 1..Len(ready), NEW n \in 1..Len(ready), m < n
      PROVE  ToSet(groups[m]) \cap ToSet(groups[n]) = {}
  <2> SUFFICES ASSUME NEW id \in ToSet(groups[m]), id \in ToSet(groups[n]) PROVE FALSE
    OBVIOUS
  <2>1. ready[n] \in ToSet(order) \cup {ready[o] : o \in 1..m}
    BY <1>6
  <2>2. PICK o \in 1..m : ready[n] = ready[o]
    BY <1>2, <2>1
  <2>3. o \in 1..Len(ready) /\ o # n
    BY <1>2, <1>7
  <2>4. QED
    BY <1>2, <2>2, <2>3 DEF NoRepeat
<1>8. NoRepeat(ready')
  <2>1. \A n \in 1..Len(ready) : NoRepeat(groups[n])
    BY <1>1, <1>3, ReleasedAre
  <2>2. \A m, n \in 1..Len(ready) : m # n => ToSet(groups[m]) \cap ToSet(groups[n]) = {}
    <3> SUFFICES ASSUME NEW m \in 1..Len(ready), NEW n \in 1..Len(ready), m # n
                 PROVE  ToSet(groups[m]) \cap ToSet(groups[n]) = {}
      OBVIOUS
    <3>1. m < n \/ n < m
      BY <1>2
    <3>2. QED
      BY <1>7, <3>1
  <2>3. Apart(groups)
    BY <1>3, <2>1, <2>2 DEF Apart
  <2>4. QED
    BY <1>1, <1>3, <2>3, FlattenNoRepeat
<1>9. NoRepeat(new)
  BY <1>2, ConcatNoRepeat DEF new
<1>10. \A p \in 1..Len(new) : graph[new[p]] \subseteq {new[q] : q \in 1 .. p - 1}
  <2> SUFFICES ASSUME NEW p \in 1..Len(new) PROVE graph[new[p]] \subseteq {new[q] : q \in 1 .. p - 1}
    OBVIOUS
  <2>1. CASE p \in 1..Len(order)
    <3>1. graph[order[p]] \subseteq {order[q] : q \in 1 .. p - 1}
      BY <1>1, <2>1 DEF OrderOK
    <3>2. \A q \in 1 .. p - 1 : order[q] = new[q]
      BY <1>2, <1>4, <2>1
    <3>3. QED
      BY <1>4, <2>1, <3>1, <3>2
  <2>2. CASE p \notin 1..Len(order)
    <3>1. p - Len(order) \in 1..Len(ready) /\ p = Len(order) + (p - Len(order))
      BY <1>2, <1>4, <2>2
    <3>2. new[p] \in ToSet(ready)
      BY <1>2, <1>4, <3>1
    <3>3. graph[new[p]] \subseteq ToSet(order)
      BY <1>1, <3>2 DEF ReadyOK
    <3>4. \A x \in ToSet(order) : \E q \in 1 .. p - 1 : x = new[q]
      <4> SUFFICES ASSUME NEW x \in ToSet(order) PROVE \E q \in 1 .. p - 1 : x = new[q]
        OBVIOUS
      <4>1. PICK q \in 1..Len(order) : x = order[q]
        BY <1>2 DEF ToSet
      <4>2. q \in 1 .. p - 1 /\ new[q] = order[q]
        BY <1>2, <1>4, <3>1
      <4>3. QED
        BY <4>1, <4>2
    <3>5. QED
      BY <3>3, <3>4
  <2>3. QED
    BY <2>1, <2>2
<1>11. ToSet(new) \cap ToSet(ready') = {}
  <2> SUFFICES ASSUME NEW id \in ToSet(new), id \in ToSet(ready') PROVE FALSE
    OBVIOUS
  <2>1. PICK n \in 1..Len(ready) : id \in ToSet(groups[n])
    BY <1>5
  <2>2. ready[n] \in graph[id] /\ ready[n] \notin ToSet(order)
    BY <1>2, <1>6, <2>1
  <2>3. graph[id] \subseteq ToSet(order)
    <3>1. CASE id \in ToSet(order)
      <4>1. PICK p \in 1..Len(order) : id = order[p]
        BY <1>2, <3>1 DEF ToSet
      <4>2. graph[id] \subseteq {order[q] : q \in 1 .. p - 1}
        BY <1>1, <4>1 DEF OrderOK
      <4>3. \A q \in 1 .. p - 1 : order[q] \in ToSet(order)
        BY <1>2
      <4>4. QED
        BY <4>2, <4>3
    <3>2. CASE id \in ToSet(ready)
      BY <1>1, <3>2 DEF ReadyOK
    <3>3. QED
      BY <1>4, <3>1, <3>2
  <2>4. QED
    BY <2>2, <2>3
<1>12. \A id \in ToSet(ready') : graph[id] \subseteq ToSet(new)
  <2> SUFFICES ASSUME NEW id \in ToSet(ready') PROVE graph[id] \subseteq ToSet(new)
    OBVIOUS
  <2>1. PICK n \in 1..Len(ready) : id \in ToSet(groups[n])
    BY <1>5
  <2>2. graph[id] \subseteq ToSet(order) \cup {ready[m] : m \in 1..n}
    BY <1>6, <2>1
  <2>3. \A m \in 1..n : ready[m] \in ToSet(ready)
    BY <1>2
  <2>4. QED
    BY <1>4, <2>2, <2>3
<1>13. ASSUME NEW id \in IdSet, graph[id] \subseteq ToSet(new)
       PROVE  id \in ToSet(new) \cup ToSet(ready')
  <2> DEFINE N == {n \in 1..Len(ready) : ready[n] \in graph[id]}
  <2>1. CASE N = {}
    <3>1. \A x \in graph[id] : x \notin ToSet(ready)
      <4> SUFFICES ASSUME NEW x \in graph[id], x \in ToSet(ready) PROVE FALSE
        OBVIOUS
      <4>1. PICK n \in 1..Len(ready) : x = ready[n]
        BY <1>2 DEF ToSet
      <4>2. QED
        BY <2>1, <4>1
    <3>2. graph[id] \subseteq ToSet(order)
      BY <1>4, <1>13, <3>1
    <3>3. QED
      BY <1>1, <1>4, <3>2 DEF ReadyOK
  <2>2. CASE N # {}
    <3>1. PICK n \in N : \A m \in N : m <= n
      <4>1. N \subseteq 0..Len(ready)
        BY <1>2
      <4> HIDE DEF N
      <4>2. QED
        BY <1>2, <2>2, <4>1, NatGreatest
    <3>2. n \in 1..Len(ready) /\ ready[n] \in graph[id]
      OBVIOUS
    <3>3. ASSUME NEW x \in graph[id] PROVE x \in ToSet(order) \cup {ready[m] : m \in 1..n}
      <4>1. CASE x \in ToSet(order)
        BY <4>1
      <4>2. CASE x \in ToSet(ready)
        <5>1. PICK m \in 1..Len(ready) : x = ready[m]
          BY <1>2, <4>2 DEF ToSet
        <5>2. m <= n
          BY <3>1, <5>1
        <5>3. QED
          BY <3>2, <5>1, <5>2
      <4>3. QED
        BY <1>4, <1>13, <4>1, <4>2
    <3>4. id \in ToSet(groups[n])
      BY <1>1, <1>3, <3>2, <3>3, ReleasedAre
    <3>5. QED
      BY <1>5, <3>2, <3>4
  <2>3. QED
    BY <2>1, <2>2
<1>14. UnitsOK' /\ IdSet' = IdSet /\ GraphOK'
  BY <1>1 DEF UnitsOK, IdSet, Ids, GraphOK
<1>15. OrderOK'
  <2>1. order' = new /\ graph' = graph /\ IdSet' = IdSet
    BY <1>1, <1>14
  <2>2. QED
    BY <1>4, <1>9, <1>10, <2>1 DEF OrderOK
<1>16. ReadyOK'
  BY <1>1, <1>5, <1>8, <1>11, <1>12, <1>13, <1>14 DEF ReadyOK
<1>17. QED
  BY <1>1, <1>14, <1>15, <1>16 DEF SortInv, Stages, Sorted

\* Nothing is ready any more: either everything is sorted, or what is not sorted
\* waits for itself.
LEMMA SortEnded == ASSUME SortInv, SortEnd PROVE SortInv'
<1>1. /\ UnitsOK /\ GraphOK /\ OrderOK /\ ReadyOK /\ ready = <<>>
      /\ units' = units /\ graph' = graph /\ order' = order /\ err # "E_DEPENDENCY_CYCLE"
  BY DEF SortInv, Stages, SortEnd, Raise, sort_vars
<1>2. UnitsOK' /\ IdSet' = IdSet /\ GraphOK' /\ OrderOK'
  BY <1>1 DEF UnitsOK, IdSet, Ids, GraphOK, OrderOK
<1>3. /\ order \in Seq(IdSet) /\ Len(order) \in Nat /\ DOMAIN order = 1..Len(order)
      /\ NoRepeat(order) /\ ToSet(order) \subseteq IdSet
  <2>1. order \in Seq(IdSet) /\ NoRepeat(order)
    BY <1>1 DEF OrderOK
  <2>2. Len(order) \in Nat /\ DOMAIN order = 1..Len(order)
    BY <2>1
  <2>3. QED
    BY <2>1, <2>2 DEF ToSet
<1>4. /\ Cardinality(ToSet(order)) = Len(order)
      /\ IsFiniteSet(IdSet) /\ Cardinality(IdSet) = Len(units) /\ Len(units) \in Nat
  <2>1. Ids \in Seq(IdSet) /\ Len(Ids) = Len(units) /\ NoRepeat(Ids) /\ Len(units) \in Nat
    BY <1>1, IdsOf
  <2>2. IsFiniteSet(ToSet(Ids)) /\ Cardinality(ToSet(Ids)) = Len(Ids)
    BY <2>1, ElementsFinite DEF NoRepeat
  <2>3. Cardinality(ToSet(order)) = Len(order)
    BY <1>3, ElementsFinite DEF NoRepeat
  <2>4. QED
    BY <2>1, <2>2, <2>3 DEF IdSet
<1>5. ToSet(ready) = {}
  BY <1>1 DEF ToSet
<1>6. CASE Len(order) < Len(units)
  <2> DEFINE S == IdSet \ ToSet(order)
  <2>1. S # {}
    <3>1. S = {} => ToSet(order) = IdSet
      BY <1>3
    <3> HIDE DEF S
    <3>2. ToSet(order) # IdSet
      BY <1>3, <1>4, <1>6
    <3>3. QED
      BY <3>1, <3>2
  <2>2. ASSUME NEW id \in S PROVE graph[id] \cap S # {}
    <3>1. ~(graph[id] \subseteq ToSet(order))
      BY <1>1, <1>5 DEF ReadyOK
    <3>2. graph[id] \subseteq IdSet
      BY <1>1 DEF GraphOK
    <3>3. QED
      BY <3>1, <3>2
  <2>3. S \in SUBSET ToSet(Ids)
    BY DEF IdSet
  <2> HIDE DEF S
  <2>4. Cyclic
    BY <2>1, <2>2, <2>3 DEF Cyclic
  <2>5. Cyclic'
    BY <1>1, <2>4 DEF Cyclic, Ids
  <2>6. pc' = "failed"
    BY <1>6 DEF SortEnd, Raise
  <2>7. QED
    BY <1>2, <2>5, <2>6 DEF SortInv, Stages, Sorted
<1>7. CASE ~(Len(order) < Len(units))
  <2>1. pc' = "contracts" /\ err' = err
    BY <1>7 DEF SortEnd
  <2>2. ToSet(order) = IdSet
    <3>1. IsFiniteSet(ToSet(order)) /\ Cardinality(ToSet(order)) <= Cardinality(IdSet)
          /\ (Cardinality(ToSet(order)) = Cardinality(IdSet) => ToSet(order) = IdSet)
      BY <1>3, <1>4, FS_Subset
    <3>2. QED
      BY <1>3, <1>4, <1>7, <3>1
  <2>3. QED
    BY <1>1, <1>2, <2>1, <2>2 DEF SortInv, Stages, Sorted
<1>8. QED
  BY <1>6, <1>7

\* Where all units are sorted, none waits for itself: the first of them that is
\* sorted does not.
LEMMA SortedAcyclic == ASSUME OrderOK, ToSet(order) = IdSet PROVE ~Cyclic
<1> SUFFICES ASSUME NEW S \in SUBSET IdSet, S # {}, \A id \in S : graph[id] \cap S # {} PROVE FALSE
  BY DEF Cyclic, IdSet
<1> DEFINE P == {p \in 1..Len(order) : order[p] \in S}
<1>1. order \in Seq(IdSet) /\ DOMAIN order = 1..Len(order) /\ Len(order) \in Nat
  BY DEF OrderOK
<1>2. P # {} /\ P \subseteq Nat
  <2>1. PICK id \in S : TRUE
    OBVIOUS
  <2>2. id \in ToSet(order)
    OBVIOUS
  <2>3. PICK p \in 1..Len(order) : id = order[p]
    BY <1>1, <2>2 DEF ToSet
  <2>4. p \in P
    BY <2>3
  <2>5. QED
    BY <2>4
<1>3. PICK p \in P : \A q \in P : p <= q
  <2> HIDE DEF P
  <2>1. QED
    BY <1>2, NatLeast
<1>4. p \in 1..Len(order) /\ order[p] \in S
  OBVIOUS
<1>5. PICK x \in S : x \in graph[order[p]]
  BY <1>4
<1>6. PICK q \in 1 .. p - 1 : x = order[q]
  BY <1>4, <1>5 DEF OrderOK
<1>7. q \in 1..Len(order) /\ q < p
  BY <1>1, <1>4
<1>8. q \in P
  BY <1>5, <1>6, <1>7
<1>9. QED
  BY <1>3, <1>7, <1>8

-----------------------------------------------------------------------------
(* Access control *)

Codes ==
    {"ok", "E_TOKEN_KIND", "E_PROOF_TOKEN_KIND", "E_LABEL_NOT_DEFINED", "E_HYPOTHESIS_LEAKAGE",
     "E_SYMBOL_NOT_EXPORTED"}

CodesOf(u) == FlattenSeq([n \in DOMAIN u.stmts |-> Checks(u, u.stmts[n])])

\* a unit that passes: its expressions are of the right kinds, and each of its proof
\* tokens is in order
Clean(u) ==
    \A st \in ToSet(u.stmts) :
        WellKinded(st) /\ (st.op = "p" => \A t \in TokensOf(st.proof) : ProofToken(u, t) = "ok")

AllOk(codes) == \A c \in ToSet(codes) : c = "ok"

LEMMA ChecksAre ==
    ASSUME NEW u \in Catalogue, NEW st \in ToSet(u.stmts)
    PROVE  /\ Checks(u, st) \in Seq(Codes)
           /\ AllOk(Checks(u, st)) <=>
                 WellKinded(st) /\ (st.op = "p" => \A t \in TokensOf(st.proof) : ProofToken(u, t) = "ok")
<1> DEFINE kind == IF WellKinded(st) THEN "ok" ELSE "E_TOKEN_KIND"
           first == <<kind>>
           rest == [n \in DOMAIN st.proof |-> ProofToken(u, st.proof[n])]
<1>1. \A t : ProofToken(u, t) \in Codes
  BY DEF ProofToken, CrossUnit, Codes
<1>2. kind \in Codes /\ (kind = "ok" <=> WellKinded(st))
  BY DEF Codes
<1> HIDE DEF kind
<1>3. first \in Seq(Codes) /\ ToSet(first) = {kind}
  <2>1. DOMAIN first = {1} /\ first[1] = kind
    OBVIOUS
  <2>2. QED
    BY <1>2, <2>1 DEF ToSet
<1>4. CASE st.op # "p"
  <2>1. Checks(u, st) = first \o <<>>
    BY <1>4 DEF Checks, kind
  <2> HIDE DEF first
  <2>2. Checks(u, st) = first
    BY <1>3, <2>1
  <2>3. QED
    BY <1>2, <1>3, <1>4, <2>2 DEF AllOk
<1>5. CASE st.op = "p"
  <2>1. st.proof \in Seq(TokensOf(st.proof))
    BY <1>5, LinkerAssumption
  <2>2. DOMAIN st.proof = 1..Len(st.proof) /\ Len(st.proof) \in Nat
    BY <2>1
  <2>3. rest \in Seq(Codes) /\ DOMAIN rest = DOMAIN st.proof
    BY <1>1, <2>2
  <2>4. ToSet(rest) = {ProofToken(u, t) : t \in TokensOf(st.proof)}
    <3>1. ToSet(rest) = {rest[n] : n \in DOMAIN st.proof}
      BY <2>3 DEF ToSet
    <3>2. QED
      BY <3>1 DEF TokensOf
  <2>5. Checks(u, st) = first \o rest
    BY <1>5 DEF Checks, kind
  <2> HIDE DEF first, rest
  <2>6. ToSet(first \o rest) = ToSet(first) \cup ToSet(rest) /\ first \o rest \in Seq(Codes)
    BY <1>3, <2>3, ToSetConcat
  <2>7. QED
    BY <1>2, <1>3, <1>5, <2>4, <2>5, <2>6 DEF AllOk
<1>6. QED
  BY <1>4, <1>5

LEMMA CodesAre ==
    ASSUME NEW u \in Catalogue
    PROVE  CodesOf(u) \in Seq(Codes) /\ (AllOk(CodesOf(u)) <=> Clean(u))
<1> DEFINE ss == [n \in DOMAIN u.stmts |-> Checks(u, u.stmts[n])]
<1>1. u.stmts \in Seq(ToSet(u.stmts)) /\ DOMAIN u.stmts = 1..Len(u.stmts) /\ Len(u.stmts) \in Nat
  BY LinkerAssumption
<1>2. ToSet(u.stmts) = {u.stmts[n] : n \in 1..Len(u.stmts)}
  BY <1>1 DEF ToSet
<1>3. \A n \in 1..Len(u.stmts) : Checks(u, u.stmts[n]) \in Seq(Codes)
  BY <1>2, ChecksAre
<1>4. /\ ss \in Seq(Seq(Codes)) /\ Len(ss) = Len(u.stmts)
      /\ \A n \in 1..Len(u.stmts) : ss[n] = Checks(u, u.stmts[n])
  BY <1>1, <1>3
<1>5. CodesOf(u) = FlattenSeq(ss)
  BY DEF CodesOf
<1> HIDE DEF ss
<1>6. CodesOf(u) \in Seq(Codes) /\ ToSet(CodesOf(u)) = UNION {ToSet(ss[n]) : n \in 1..Len(ss)}
  BY <1>4, <1>5, FlattenElements
<1>7. AllOk(CodesOf(u)) <=> \A n \in 1..Len(u.stmts) : AllOk(Checks(u, u.stmts[n]))
  <2>1. ToSet(CodesOf(u)) = UNION {ToSet(Checks(u, u.stmts[n])) : n \in 1..Len(u.stmts)}
    BY <1>4, <1>6
  <2>2. QED
    BY <2>1 DEF AllOk
<1>8. (\A n \in 1..Len(u.stmts) : AllOk(Checks(u, u.stmts[n]))) <=>
         \A st \in ToSet(u.stmts) : AllOk(Checks(u, st))
  BY <1>2
<1>9. (\A st \in ToSet(u.stmts) : AllOk(Checks(u, st))) <=> Clean(u)
  BY ChecksAre DEF Clean
<1>10. QED
  BY <1>6, <1>7, <1>8, <1>9

\* A unit passes the checks when all codes are "ok"; what is raised otherwise is
\* one of the codes of the checks.
LEMMA ChecksDone ==
    ASSUME UnitsOK, i \in 1..Len(units), CheckUnit
    PROVE  \/ /\ \E code \in Codes : Raise(code)
              /\ pc = "check" /\ ~Clean(units[i])
           \/ /\ pc = "check" /\ Advance(Len(units), "graph")
              /\ UNCHANGED <<k, label_defs, sort_vars, scan_vars, body>>
              /\ Clean(units[i])
<1> DEFINE u == units[i]
           codes == CodesOf(u)
           S == {n \in DOMAIN codes : codes[n] # "ok"}
           failed == At(codes, S)
<1>1. u \in Catalogue
  BY IdsOf
<1>2. codes \in Seq(Codes) /\ DOMAIN codes = 1..Len(codes)
  BY <1>1, CodesAre
<1>3. /\ pc = "check"
      /\ IF failed # <<>> THEN Raise(Head(failed))
         ELSE /\ Advance(Len(units), "graph")
              /\ UNCHANGED <<k, label_defs, sort_vars, scan_vars, body>>
  BY DEF CheckUnit, CodesOf
<1>4. S \cap 1..Len(codes) = S
  BY <1>2
<1>5. failed \in Seq(Codes) /\ ToSet(failed) = {codes[n] : n \in S}
  <2> HIDE DEF S, codes
  <2>1. QED
    BY <1>2, <1>4, AtElements
<1>6. CASE failed # <<>>
  <2> HIDE DEF failed
  <2>1. Head(failed) \in Codes /\ Head(failed) \in ToSet(failed)
    <3>1. 1 \in DOMAIN failed /\ Head(failed) = failed[1]
      BY <1>5, <1>6
    <3>2. QED
      BY <1>5, <1>6, <3>1 DEF ToSet
  <2>2. PICK n \in S : codes[n] # "ok"
    BY <1>5, <2>1
  <2>3. ~AllOk(codes)
    BY <2>2 DEF AllOk, ToSet
  <2>4. QED
    BY <1>1, <1>3, <1>6, <2>1, <2>3, CodesAre
<1>7. CASE failed = <<>>
  <2>1. ToSet(failed) = {}
    BY <1>7 DEF ToSet
  <2>2. \A n \in DOMAIN codes : codes[n] = "ok"
    BY <1>5, <2>1
  <2>3. AllOk(codes)
    BY <2>2 DEF ToSet, AllOk
  <2>4. Clean(u)
    BY <1>1, <2>3, CodesAre
  <2>5. QED
    BY <1>3, <1>7, <2>4
<1>8. QED
  BY <1>6, <1>7

-----------------------------------------------------------------------------
(* The sort, from the input to the last pass *)

LEMMA InitSort == Init => SortInv
<1> SUFFICES ASSUME Init PROVE SortInv
  OBVIOUS
<1>1. PICK n \in 1..MaxUnits :
         units \in {us \in [1..n -> Catalogue] : \A a, b \in 1..n : us[a] = us[b] => a = b}
  BY DEF Init
<1>2. n \in Nat /\ n >= 1 /\ units \in [1..n -> Catalogue] /\ \A a, b \in 1..n : units[a] = units[b] => a = b
  BY <1>1, LinkerAssumption
<1>3. units \in Seq(Catalogue) /\ Len(units) = n
  BY <1>2
<1>4. UnitsOK
  BY <1>2, <1>3 DEF UnitsOK, NoRepeat
<1>5. QED
  BY <1>4 DEF Init, SortInv, Stages, Sorted

\* The passes before the sort and after it.
LEMMA SortElsewhere ==
    ASSUME SortInv,
           \/ CheckFoundations \/ IndexUnit \/ CheckUnit
           \/ ScanStatement \/ ScanRefuses \/ ScanUnitEnd \/ Plan \/ UNCHANGED vars
    PROVE  SortInv'
<1>1. UnitsOK /\ err' \in Codes \cup {"E_MULTIPLE_FOUNDATIONS", "E_DUPLICATE_LABEL_DEF",
                                      "DisjointSpecError", err}
      /\ units' = units /\ graph' = graph /\ nodes' = nodes /\ ready' = ready /\ order' = order
  <2>1. UnitsOK
    BY DEF SortInv
  <2>2. CASE CheckUnit
    <3>1. i \in 1..Len(units)
      BY <2>2 DEF SortInv, CheckUnit
    <3>2. QED
      BY <2>1, <2>2, <3>1, ChecksDone DEF Raise, Advance, sort_vars
  <2>3. CASE ~CheckUnit
    BY <2>1, <2>3 DEF CheckFoundations, IndexUnit, ScanStatement, ScanRefuses, ScanUnitEnd, Plan, Raise,
                      Advance, sort_vars, vars
  <2>4. QED
    BY <2>2, <2>3
<1>2. err' # "E_DEPENDENCY_CYCLE" \/ err' = err
  BY <1>1 DEF Codes
<1>3. /\ UnitsOK' /\ IdSet' = IdSet /\ GraphOK' = GraphOK /\ AllNodes' = AllNodes
      /\ OrderOK' = OrderOK /\ ReadyOK' = ReadyOK /\ Cyclic' = Cyclic
  <2>1. IdSet' = IdSet /\ UnitsOK'
    BY <1>1 DEF UnitsOK, IdSet, Ids
  <2>2. Cyclic' = Cyclic
    BY <1>1 DEF Cyclic, Ids
  <2>3. GraphOK' = GraphOK /\ AllNodes' = AllNodes
    BY <1>1, <2>1 DEF GraphOK, AllNodes
  <2>4. OrderOK' = OrderOK /\ ReadyOK' = ReadyOK
    BY <1>1, <2>1 DEF OrderOK, ReadyOK
  <2>5. QED
    BY <2>1, <2>2, <2>3, <2>4
<1>4. Len(units) \in Nat /\ Len(units) >= 1
  BY <1>1, IdsOf DEF UnitsOK
<1>5. CASE CheckFoundations
  BY <1>1, <1>2, <1>3, <1>4, <1>5 DEF CheckFoundations, Raise, SortInv, Stages, Sorted
<1>6. CASE IndexUnit
  <2>1. i \in 1..Len(units) /\ pc = "index" /\ nodes = <<>> /\ order = <<>>
        /\ err # "E_DEPENDENCY_CYCLE"
    BY <1>6 DEF IndexUnit, SortInv
  <2>2. \/ pc' = "failed"
        \/ i = Len(units) /\ pc' = "check" /\ i' = 1
        \/ i # Len(units) /\ pc' = "index" /\ i' = i + 1
    BY <1>6, <2>1 DEF IndexUnit, Raise, Advance
  <2>3. QED
    BY <1>1, <1>2, <1>3, <1>4, <2>1, <2>2 DEF SortInv, Stages, Sorted
<1>7. CASE CheckUnit
  <2>1. i \in 1..Len(units) /\ pc = "check" /\ nodes = <<>> /\ order = <<>>
        /\ err # "E_DEPENDENCY_CYCLE"
    BY <1>7 DEF CheckUnit, SortInv
  <2>2. \/ pc' = "failed"
        \/ i = Len(units) /\ pc' = "graph" /\ i' = 1
        \/ i # Len(units) /\ pc' = "check" /\ i' = i + 1
    BY <1>1, <1>7, <2>1, ChecksDone DEF Raise, Advance
  <2>3. QED
    BY <1>1, <1>2, <1>3, <1>4, <2>1, <2>2 DEF SortInv, Stages, Sorted
<1>8. CASE ScanStatement \/ ScanRefuses \/ ScanUnitEnd
  <2>1. pc = "contracts" /\ pc' \in {"contracts", "plan", "failed"}
    BY <1>8 DEF ScanStatement, ScanRefuses, ScanUnitEnd, Advance, Raise
  <2>2. QED
    BY <1>1, <1>2, <1>3, <2>1 DEF SortInv, Stages, Sorted
<1>9. CASE Plan
  <2>1. pc = "plan" /\ pc' = "done"
    BY <1>9 DEF Plan
  <2>2. QED
    BY <1>1, <1>2, <1>3, <2>1 DEF SortInv, Stages, Sorted
<1>10. CASE UNCHANGED vars
  <2>1. pc' = pc /\ i' = i /\ err' = err
    BY <1>10 DEF vars
  <2>2. NodesOK' = NodesOK
    BY <1>1, <1>3, <2>1 DEF NodesOK
  <2>3. QED
    BY <1>1, <1>3, <2>1, <2>2 DEF SortInv
<1>11. QED
  BY <1>5, <1>6, <1>7, <1>8, <1>9, <1>10

LEMMA SortStep == SortInv /\ [Next]_vars => SortInv'
BY SortElsewhere, GraphMade, NodeAdded, Prepared, GroupSorted, SortEnded DEF Next

\* stage4_plan_order lets graphlib sort the units, group by group, by what their
\* proofs cite.  Whatever the order of the input and of the sets it iterates, a
\* build is refused for a dependency cycle if there is one, and only then.
THEOREM CyclesAreRejected == Spec => []CyclesRejected
<1>1. SortInv => CyclesRejected
  <2>1. ASSUME SortInv, Done PROVE ~Cyclic
    BY <2>1, SortedAcyclic DEF SortInv, Done, Sorted
  <2>2. QED
    BY <2>1 DEF SortInv, CyclesRejected
<1>2. QED
  BY <1>1, InitSort, SortStep, PTL DEF Spec

-----------------------------------------------------------------------------
(* What the passes before the sort found out *)

OneFoundation ==
    \A a, b \in 1..Len(units) : IsFoundation(units[a]) /\ IsFoundation(units[b]) => a = b

\* the labels of the first n units are distinct, and indexed
DistinctIn(u) == \A a, b \in Labelled(u) : u.stmts[a].label = u.stmts[b].label => a = b
Indexed(n) ==
    /\ DOMAIN label_defs = UNION {OwnLabels(units[m]) : m \in 1..n}
    /\ \A m \in 1..n : DistinctIn(units[m])
    /\ \A m, o \in 1..n : m # o => OwnLabels(units[m]) \cap OwnLabels(units[o]) = {}
    /\ \A m \in 1..n : \A a \in Labelled(units[m]) :
          label_defs[units[m].stmts[a].label] =
             [owner |-> units[m].id, kind |-> units[m].kind, class |-> units[m].stmts[a].op]

\* the first n units pass the checks
Passed(n) == \A m \in 1..n : Clean(units[m])

Text == FlattenSeq([n \in DOMAIN Linked |-> Wrapped(Linked[n])])

LinkInv ==
    /\ pc \in {"index", "check", "graph"} \cup Stages => OneFoundation
    /\ pc = "foundations" => label_defs = [l \in {} |-> {}]
    /\ pc = "index" => Indexed(i - 1)
    /\ pc \in {"check", "graph"} \cup Stages => Indexed(Len(units))
    /\ pc = "check" => Passed(i - 1)
    /\ pc \in {"graph"} \cup Stages => Passed(Len(units))
    /\ pc \in Stages => graph = [id \in IdSet |-> DependsOn(UnitOf(id))]
    /\ pc = "done" => body = Text

LEMMA FoundationsChecked == ASSUME SortInv, LinkInv, CheckFoundations PROVE LinkInv'
<1> DEFINE S == {n \in DOMAIN units : IsFoundation(units[n])}
<1>1. UnitsOK /\ pc = "foundations" /\ units' = units /\ i' = i /\ i = 1 /\ label_defs' = label_defs
      /\ label_defs = [l \in {} |-> {}]
  BY DEF SortInv, LinkInv, CheckFoundations, Raise
<1>2. S \subseteq 1..Len(units) /\ IsFiniteSet(S) /\ Len(units) \in Nat /\ DOMAIN units = 1..Len(units)
  <2>1. Len(units) \in Nat /\ DOMAIN units = 1..Len(units)
    BY <1>1 DEF UnitsOK
  <2>2. S \subseteq 1..Len(units)
    BY <2>1
  <2> HIDE DEF S
  <2>3. IsFiniteSet(1..Len(units))
    BY <2>1, FS_Interval
  <2>4. QED
    BY <2>1, <2>2, <2>3, FS_Subset
<1>3. CASE Cardinality(S) > 1
  <2>1. pc' = "failed"
    BY <1>3 DEF CheckFoundations, Raise
  <2>2. QED
    BY <2>1 DEF LinkInv, Stages
<1>4. CASE ~(Cardinality(S) > 1)
  <2>1. pc' = "index"
    BY <1>4 DEF CheckFoundations
  <2>2. \A a, b \in S : a = b
    <3> HIDE DEF S
    <3>1. QED
      BY <1>2, <1>4, AtMostOne
  <2>3. OneFoundation
    BY <1>2, <2>2 DEF OneFoundation
  <2>4. Indexed(0)
    BY <1>1 DEF Indexed
  <2>5. OneFoundation' /\ Indexed(i - 1)'
    BY <1>1, <2>3, <2>4 DEF OneFoundation, Indexed
  <2>6. QED
    BY <2>1, <2>5 DEF LinkInv, Stages
<1>5. QED
  BY <1>3, <1>4

\* A unit is indexed: none of its labels was.
LEMMA UnitIndexed == ASSUME SortInv, LinkInv, IndexUnit PROVE LinkInv'
<1> DEFINE u == units[i]
<1>1. /\ UnitsOK /\ pc = "index" /\ units' = units /\ i \in 1..Len(units) /\ OneFoundation /\ Indexed(i - 1)
      /\ Len(units) \in Nat
  BY IdsOf DEF SortInv, LinkInv, IndexUnit, Raise, Advance
<1>2. CASE Redefines(u)
  <2>1. pc' = "failed"
    BY <1>2 DEF IndexUnit, Raise
  <2>2. QED
    BY <2>1 DEF LinkInv, Stages
<1>3. CASE ~Redefines(u)
  <2> DEFINE defOf(l) == (CHOOSE st \in ToSet(u.stmts) : IsLabelled(st) /\ st.label = l).op
             def(l) == [owner |-> u.id, kind |-> u.kind, class |-> defOf(l)]
  <2>1. /\ label_defs' = [l \in DOMAIN label_defs \cup OwnLabels(u) |->
                             IF l \in OwnLabels(u) THEN def(l) ELSE label_defs[l]]
        /\ Advance(Len(units), "check")
    BY <1>3 DEF IndexUnit
  <2>2. OwnLabels(u) \cap DOMAIN label_defs = {} /\ DistinctIn(u)
    BY <1>3 DEF Redefines, DistinctIn
  <2>3. \A m \in 1..i : m \in 1 .. i - 1 \/ m = i
    BY <1>1
  <2>4. DOMAIN label_defs = UNION {OwnLabels(units[m]) : m \in 1 .. i - 1}
    BY <1>1 DEF Indexed
  <2>5. DOMAIN label_defs' = UNION {OwnLabels(units[m]) : m \in 1..i}
    <3>1. DOMAIN label_defs' = DOMAIN label_defs \cup OwnLabels(u)
      BY <2>1
    <3>2. \A m \in 1 .. i - 1 : m \in 1..i
      BY <1>1
    <3>3. i \in 1..i
      BY <1>1
    <3>4. QED
      BY <2>3, <2>4, <3>1, <3>2, <3>3
  <2>6. \A m \in 1..i : DistinctIn(units[m])
    BY <1>1, <2>2, <2>3 DEF Indexed
  <2>7. ASSUME NEW m \in 1..i, NEW o \in 1..i, m # o
        PROVE  OwnLabels(units[m]) \cap OwnLabels(units[o]) = {}
    <3>1. CASE m \in 1 .. i - 1 /\ o \in 1 .. i - 1
      BY <1>1, <2>7, <3>1 DEF Indexed
    <3>2. CASE m = i
      BY <2>2, <2>3, <2>4, <2>7, <3>2
    <3>3. CASE o = i
      BY <2>2, <2>3, <2>4, <2>7, <3>3
    <3>4. QED
      BY <2>3, <3>1, <3>2, <3>3
  <2>8. ASSUME NEW m \in 1..i, NEW a \in Labelled(units[m])
        PROVE  label_defs'[units[m].stmts[a].label] =
                  [owner |-> units[m].id, kind |-> units[m].kind, class |-> units[m].stmts[a].op]
    <3> DEFINE l == units[m].stmts[a].label
    <3>1. l \in OwnLabels(units[m])
      BY DEF OwnLabels
    <3>2. CASE m = i
      <4>1. label_defs'[l] = def(l) /\ l \in OwnLabels(u)
        BY <2>1, <3>1, <3>2
      <4>2. defOf(l) = u.stmts[a].op
        <5>1. u.stmts[a] \in ToSet(u.stmts) /\ IsLabelled(u.stmts[a]) /\ u.stmts[a].label = l
          BY <3>2 DEF Labelled, ToSet
        <5>2. \A st \in ToSet(u.stmts) : IsLabelled(st) /\ st.label = l => st = u.stmts[a]
          BY <2>2, <3>2 DEF DistinctIn, Labelled, ToSet
        <5> HIDE DEF l
        <5>3. QED
          BY <5>1, <5>2
      <4>3. QED
        BY <3>2, <4>1, <4>2
    <3>3. CASE m # i
      <4>1. m \in 1 .. i - 1
        BY <2>3, <3>3
      <4>2. l \in DOMAIN label_defs /\ l \notin OwnLabels(u)
        BY <2>2, <2>4, <3>1, <4>1
      <4>3. label_defs'[l] = label_defs[l]
        BY <2>1, <4>2
      <4>4. QED
        BY <1>1, <4>1, <4>3 DEF Indexed
    <3>4. QED
      BY <3>2, <3>3
  <2>9. /\ DOMAIN label_defs' = UNION {OwnLabels(units'[m]) : m \in 1..i}
        /\ \A m \in 1..i : DistinctIn(units'[m])
        /\ \A m, o \in 1..i : m # o => OwnLabels(units'[m]) \cap OwnLabels(units'[o]) = {}
        /\ \A m \in 1..i : \A a \in Labelled(units'[m]) :
              label_defs'[units'[m].stmts[a].label] =
                 [owner |-> units'[m].id, kind |-> units'[m].kind, class |-> units'[m].stmts[a].op]
    BY <1>1, <2>5, <2>6, <2>7, <2>8
  <2>10. OneFoundation' /\ Len(units') = Len(units)
    BY <1>1 DEF OneFoundation
  <2>11. CASE i = Len(units)
    <3>1. pc' = "check" /\ i' = 1
      BY <2>1, <2>11 DEF Advance
    <3>2. Indexed(Len(units))'
      BY <2>9, <2>10, <2>11 DEF Indexed
    <3>3. Passed(i - 1)'
      BY <3>1 DEF Passed
    <3>4. QED
      BY <2>10, <3>1, <3>2, <3>3 DEF LinkInv, Stages
  <2>12. CASE i # Len(units)
    <3>1. pc' = "index" /\ i' - 1 = i
      BY <1>1, <2>1, <2>12 DEF Advance
    <3>2. Indexed(i - 1)'
      BY <2>9, <3>1 DEF Indexed
    <3>3. QED
      BY <2>10, <3>1, <3>2 DEF LinkInv, Stages
  <2>13. QED
    BY <2>11, <2>12
<1>4. QED
  BY <1>2, <1>3

\* What was found out stays while the units and the index do.
LEMMA FactsStay ==
    ASSUME units' = units, label_defs' = label_defs
    PROVE  /\ OneFoundation' = OneFoundation
           /\ Len(units') = Len(units)
           /\ \A n : Indexed(n)' = Indexed(n)
           /\ \A n : Passed(n)' = Passed(n)
           /\ \A u : Clean(u)' = Clean(u)
<1>1. OneFoundation' = OneFoundation /\ \A n : Indexed(n)' = Indexed(n)
  BY DEF OneFoundation, Indexed
<1>2. \A u, t : ProofToken(u, t)' = ProofToken(u, t)
  BY DEF ProofToken, UnitOf
<1>3. \A u : Clean(u)' = Clean(u)
  BY <1>2 DEF Clean
<1>4. \A n : Passed(n)' = Passed(n)
  BY <1>3 DEF Passed
<1>5. QED
  BY <1>1, <1>3, <1>4

LEMMA UnitChecked == ASSUME SortInv, LinkInv, CheckUnit PROVE LinkInv'
<1>1. /\ UnitsOK /\ pc = "check" /\ i \in 1..Len(units) /\ OneFoundation /\ Indexed(Len(units))
      /\ Passed(i - 1) /\ Len(units) \in Nat
  BY IdsOf DEF SortInv, LinkInv, CheckUnit
<1>2. CASE \E code \in Codes : Raise(code)
  <2>1. pc' = "failed"
    BY <1>2 DEF Raise
  <2>2. QED
    BY <2>1 DEF LinkInv, Stages
<1>3. CASE /\ Advance(Len(units), "graph")
           /\ UNCHANGED <<k, label_defs, sort_vars, scan_vars, body>>
           /\ Clean(units[i])
  <2>1. units' = units /\ label_defs' = label_defs
    BY <1>3 DEF Advance
  <2>2. ASSUME NEW n \in Nat, n = i PROVE Passed(n)'
    <3>1. \A m \in 1..n : m \in 1 .. i - 1 \/ m = i
      BY <1>1, <2>2
    <3>2. Passed(n)
      BY <1>1, <1>3, <3>1 DEF Passed
    <3>3. QED
      BY <2>1, <3>2, FactsStay
  <2>3. OneFoundation' /\ Indexed(Len(units))'
    <3>1. Indexed(Len(units))' = Indexed(Len(units))
      BY <2>1 DEF Indexed
    <3>2. QED
      BY <1>1, <2>1, <3>1, FactsStay
  <2>4. CASE i = Len(units)
    <3>1. pc' = "graph"
      BY <1>3, <2>4 DEF Advance
    <3>2. \A m \in 1..Len(units) : Clean(units[m])'
      BY <1>1, <2>2, <2>4 DEF Passed
    <3>3. Passed(Len(units))'
      BY <2>1, <3>2 DEF Passed
    <3>4. QED
      BY <2>3, <3>1, <3>3 DEF LinkInv, Stages
  <2>5. CASE i # Len(units)
    <3>1. pc' = "check" /\ i' - 1 = i
      BY <1>1, <1>3, <2>5 DEF Advance
    <3>2. \A m \in 1..i : Clean(units[m])'
      BY <1>1, <2>2 DEF Passed
    <3>3. Passed(i - 1)'
      BY <3>1, <3>2 DEF Passed
    <3>4. QED
      BY <2>3, <3>1, <3>3 DEF LinkInv, Stages
  <2>6. QED
    BY <2>4, <2>5
<1>4. QED
  BY <1>1, <1>2, <1>3, ChecksDone DEF Clean

\* The passes after the checks leave the units, the index and the graph.
LEMMA LinkElsewhere ==
    ASSUME SortInv, LinkInv,
           \/ BuildGraph \/ AddNode \/ Prepare \/ SortGroup \/ SortEnd
           \/ ScanStatement \/ ScanRefuses \/ ScanUnitEnd \/ Plan
    PROVE  LinkInv'
<1>1. /\ UnitsOK /\ OneFoundation /\ Indexed(Len(units)) /\ Passed(Len(units))
      /\ units' = units /\ label_defs' = label_defs
  BY DEF SortInv, LinkInv, Stages, BuildGraph, AddNode, Prepare, SortGroup, SortEnd, ScanStatement,
         ScanRefuses, ScanUnitEnd, Plan, Raise, Advance
<1>2. IdSet' = IdSet /\ \A u : DependsOn(u)' = DependsOn(u)
  BY <1>1 DEF IdSet, Ids, DependsOn, LabelOwner, Exporters
<1>3. \A id : UnitOf(id)' = UnitOf(id)
  BY <1>1 DEF UnitOf
<1>4. OneFoundation' /\ Indexed(Len(units))' /\ Passed(Len(units))'
  <2>1. Indexed(Len(units))' = Indexed(Len(units))
    BY <1>1 DEF Indexed
  <2>2. \A m \in 1..Len(units) : Clean(units[m])'
    BY <1>1, FactsStay DEF Passed
  <2>3. QED
    BY <1>1, <2>1, <2>2, FactsStay DEF Passed
<1>5. CASE BuildGraph
  <2>1. pc' = "nodes" /\ graph' = [id \in IdSet |-> DependsOn(UnitOf(id))]
    BY <1>5, GraphMade DEF BuildGraph
  <2>2. \A id \in IdSet : DependsOn(UnitOf(id))' = DependsOn(UnitOf(id))
    BY <1>2, <1>3
  <2>3. graph' = [id \in IdSet |-> DependsOn(UnitOf(id))]'
    BY <1>2, <2>1, <2>2
  <2>4. QED
    BY <1>4, <2>1, <2>3 DEF LinkInv, Stages
<1>6. CASE \/ AddNode \/ Prepare \/ SortGroup \/ SortEnd
           \/ ScanStatement \/ ScanRefuses \/ ScanUnitEnd \/ Plan
  <2>1. /\ pc \in Stages /\ graph' = graph
        /\ pc' \in {"failed"} \cup Stages
    BY <1>6 DEF Stages, AddNode, Prepare, SortGroup, SortEnd, ScanStatement, ScanRefuses, ScanUnitEnd,
                Plan, Raise, Advance, sort_vars
  <2>2. graph' = [id \in IdSet |-> DependsOn(UnitOf(id))]'
    <3>1. graph = [id \in IdSet |-> DependsOn(UnitOf(id))]
      BY <2>1 DEF LinkInv
    <3>2. \A id \in IdSet : DependsOn(UnitOf(id))' = DependsOn(UnitOf(id))
      BY <1>2, <1>3
    <3>3. QED
      BY <1>2, <2>1, <3>1, <3>2
  <2>3. pc' = "done" => body' = Text'
    <3> SUFFICES ASSUME pc' = "done" PROVE body' = Text'
      OBVIOUS
    <3>1. Plan
      BY <1>6 DEF AddNode, Prepare, SortGroup, SortEnd, ScanStatement, ScanRefuses, ScanUnitEnd, Raise,
                  Advance
    <3>2. order' = order /\ body' = Text
      BY <3>1 DEF Plan, sort_vars, Text
    <3>3. \A id : UnitOf(id)' = UnitOf(id)
      BY <1>3
    <3>4. Linked' = Linked
      BY <3>2, <3>3 DEF Linked
    <3>5. Text' = Text
      BY <3>4 DEF Text
    <3>6. QED
      BY <3>2, <3>5
  <2>4. QED
    BY <1>4, <2>1, <2>2, <2>3 DEF LinkInv, Stages
<1>7. QED
  BY <1>5, <1>6

LEMMA InitLink == Init => LinkInv
BY DEF Init, LinkInv, Stages

LEMMA LinkStep == SortInv /\ LinkInv /\ [Next]_vars => LinkInv'
<1> SUFFICES ASSUME SortInv, LinkInv, [Next]_vars PROVE LinkInv'
  OBVIOUS
<1>1. CASE UNCHANGED vars
  <2>1. /\ units' = units /\ label_defs' = label_defs /\ graph' = graph /\ order' = order
        /\ pc' = pc /\ i' = i /\ body' = body
    BY <1>1 DEF vars, sort_vars
  <2>2. IdSet' = IdSet /\ \A u : DependsOn(u)' = DependsOn(u)
    BY <2>1 DEF IdSet, Ids, DependsOn, LabelOwner, Exporters
  <2>3. \A id : UnitOf(id)' = UnitOf(id)
    BY <2>1 DEF UnitOf
  <2>4. Text' = Text
    <3>1. Linked' = Linked
      BY <2>1, <2>3 DEF Linked
    <3>2. QED
      BY <3>1 DEF Text
  <2>5. (pc \in Stages => graph = [id \in IdSet |-> DependsOn(UnitOf(id))])'
    <3> SUFFICES ASSUME pc' \in Stages PROVE graph' = [id \in IdSet |-> DependsOn(UnitOf(id))]'
      OBVIOUS
    <3>1. graph = [id \in IdSet |-> DependsOn(UnitOf(id))]
      BY <2>1 DEF LinkInv
    <3>2. \A id \in IdSet : DependsOn(UnitOf(id))' = DependsOn(UnitOf(id))
      BY <2>2, <2>3
    <3>3. QED
      BY <2>1, <2>2, <3>1, <3>2
  <2>6. Indexed(i - 1)' = Indexed(i - 1) /\ Indexed(Len(units))' = Indexed(Len(units))
    BY <2>1 DEF Indexed
  <2>7. Passed(i - 1)' = Passed(i - 1) /\ Passed(Len(units))' = Passed(Len(units))
    <3>1. \A u, t : ProofToken(u, t)' = ProofToken(u, t)
      BY <2>1 DEF ProofToken, UnitOf
    <3>2. \A u : Clean(u)' = Clean(u)
      BY <3>1 DEF Clean
    <3>3. QED
      BY <2>1, <3>2 DEF Passed
  <2>8. OneFoundation' = OneFoundation
    BY <2>1 DEF OneFoundation
  <2>9. QED
    BY <2>1, <2>4, <2>5, <2>6, <2>7, <2>8 DEF LinkInv
<1>2. QED
  BY <1>1, FoundationsChecked, UnitIndexed, UnitChecked, LinkElsewhere DEF Next

-----------------------------------------------------------------------------
(* The units in their final order *)

\* At most one unit is a foundation, and it comes first; of the others, each comes
\* after the units it depends on.
LEMMA LinkedIs ==
    ASSUME UnitsOK, OneFoundation, OrderOK, ToSet(order) = IdSet
    PROVE  /\ Linked \in Seq(Catalogue) /\ Len(Linked) \in Nat /\ DOMAIN Linked = 1..Len(Linked)
           /\ NoRepeat(Linked) /\ ToSet(Linked) = ToSet(units)
           /\ \A m, n \in 1..Len(Linked) : m # n /\ IsFoundation(Linked[m]) => m < n
           /\ \A m, n \in 1..Len(Linked) :
                 Linked[m].id \in graph[Linked[n].id] /\ ~IsFoundation(Linked[n]) => m < n
<1> DEFINE sorted == [n \in DOMAIN order |-> UnitOf(order[n])]
           F == {n \in DOMAIN sorted : IsFoundation(sorted[n])}
           G == DOMAIN sorted \ F
           first == At(sorted, F)
           rest == At(sorted, G)
<1>1. /\ order \in Seq(IdSet) /\ NoRepeat(order) /\ Len(order) \in Nat /\ DOMAIN order = 1..Len(order)
      /\ \A p \in 1..Len(order) : order[p] \in IdSet
      /\ \A id \in IdSet : \E p \in 1..Len(order) : id = order[p]
  <2>1. order \in Seq(IdSet) /\ NoRepeat(order)
    BY DEF OrderOK
  <2>2. Len(order) \in Nat /\ DOMAIN order = 1..Len(order)
    BY <2>1
  <2>3. QED
    BY <2>1, <2>2 DEF ToSet
<1>2. /\ \A id \in IdSet : UnitOf(id) \in ToSet(units) /\ UnitOf(id).id = id
      /\ \A u \in ToSet(units) : UnitOf(u.id) = u /\ u.id \in IdSet
      /\ ToSet(units) \subseteq Catalogue
  <2>1. IdSet = {u.id : u \in ToSet(units)}
    BY IdsOf
  <2>2. QED
    BY <2>1, IdsOf
<1>3. /\ sorted \in Seq(Catalogue) /\ Len(sorted) = Len(order) /\ DOMAIN sorted = 1..Len(order)
      /\ \A p \in 1..Len(order) : sorted[p] = UnitOf(order[p]) /\ sorted[p].id = order[p]
                                  /\ sorted[p] \in ToSet(units)
  BY <1>1, <1>2
<1>4. Linked = first \o rest
  BY DEF Linked
<1> HIDE DEF sorted
<1>5. NoRepeat(sorted)
  BY <1>1, <1>3 DEF NoRepeat
<1>6. ToSet(units) = {sorted[p] : p \in 1..Len(order)}
  <2>1. ASSUME NEW u \in ToSet(units) PROVE \E p \in 1..Len(order) : u = sorted[p]
    <3>1. PICK p \in 1..Len(order) : u.id = order[p]
      BY <1>1, <1>2
    <3>2. sorted[p] = u
      BY <1>2, <1>3, <3>1
    <3>3. QED
      BY <3>2
  <2>2. QED
    BY <1>3, <2>1
<1>7. F \subseteq 1..Len(sorted) /\ G \subseteq 1..Len(sorted) /\ F \cap 1..Len(sorted) = F
      /\ G \cap 1..Len(sorted) = G /\ F \cup G = 1..Len(order) /\ F \cap G = {}
  BY <1>3
<1>8. /\ first \in Seq(Catalogue) /\ ToSet(first) = {sorted[p] : p \in F} /\ NoRepeat(first)
      /\ rest \in Seq(Catalogue) /\ ToSet(rest) = {sorted[p] : p \in G} /\ NoRepeat(rest)
  <2> HIDE DEF F, G
  <2>1. QED
    BY <1>3, <1>5, <1>7, AtElements, AtNoRepeat
<1>9. /\ \A u \in ToSet(first) : IsFoundation(u)
      /\ \A u \in ToSet(rest) : ~IsFoundation(u)
      /\ ToSet(first) \cup ToSet(rest) = ToSet(units)
  <2>1. \A u \in ToSet(first) : IsFoundation(u)
    BY <1>8
  <2>2. \A u \in ToSet(rest) : ~IsFoundation(u)
    BY <1>7, <1>8
  <2> HIDE DEF F, G
  <2>3. ToSet(first) \cup ToSet(rest) = ToSet(units)
    BY <1>6, <1>7, <1>8
  <2>4. QED
    BY <2>1, <2>2, <2>3
<1>10. ComesInOrder(sorted, G, rest) /\ KeepsOrder(sorted, G, rest)
  <2> HIDE DEF F, G
  <2>1. QED
    BY <1>3, AtOrder
<1> HIDE DEF F, G, first, rest
<1>11. /\ Linked \in Seq(Catalogue) /\ ToSet(Linked) = ToSet(units) /\ NoRepeat(Linked)
  <2>1. ToSet(Linked) = ToSet(first) \cup ToSet(rest)
    BY <1>4, <1>8, ToSetConcat
  <2>2. ToSet(first) \cap ToSet(rest) = {}
    BY <1>9
  <2>3. Linked \in Seq(Catalogue)
    BY <1>4, <1>8
  <2>4. NoRepeat(Linked)
    BY <1>4, <1>8, <2>2, ConcatNoRepeat
  <2>5. QED
    BY <1>9, <2>1, <2>3, <2>4
<1>12. /\ Len(first) \in Nat /\ Len(rest) \in Nat /\ Len(Linked) = Len(first) + Len(rest)
       /\ \A n \in 1..Len(first) : Linked[n] = first[n] /\ first[n] \in ToSet(first)
       /\ \A n \in 1..Len(rest) : Linked[Len(first) + n] = rest[n] /\ rest[n] \in ToSet(rest)
  BY <1>4, <1>8 DEF ToSet
<1>13. ASSUME NEW n \in 1..Len(Linked), n \notin 1..Len(first)
       PROVE  n - Len(first) \in 1..Len(rest) /\ Linked[n] = rest[n - Len(first)]
  <2>1. n - Len(first) \in 1..Len(rest) /\ n = Len(first) + (n - Len(first))
    BY <1>12, <1>13
  <2>2. QED
    BY <1>12, <2>1
<1>14. ASSUME NEW m \in 1..Len(Linked)
       PROVE  IsFoundation(Linked[m]) <=> m \in 1..Len(first)
  <2>1. CASE m \in 1..Len(first)
    BY <1>9, <1>12, <2>1
  <2>2. CASE m \notin 1..Len(first)
    BY <1>9, <1>12, <1>13, <2>2
  <2>3. QED
    BY <2>1, <2>2
<1>15. ASSUME NEW m \in 1..Len(Linked), NEW n \in 1..Len(Linked), m # n, IsFoundation(Linked[m])
       PROVE  m < n
  <2>1. m \in 1..Len(first)
    BY <1>14, <1>15
  <2>2. CASE n \in 1..Len(first)
    <3>1. IsFoundation(Linked[n]) /\ Linked[m] \in ToSet(units) /\ Linked[n] \in ToSet(units)
      BY <1>9, <1>12, <2>1, <2>2
    <3>2. PICK a \in 1..Len(units) : Linked[m] = units[a]
      BY <3>1 DEF ToSet, UnitsOK
    <3>3. PICK b \in 1..Len(units) : Linked[n] = units[b]
      BY <3>1 DEF ToSet, UnitsOK
    <3>4. a = b
      BY <1>15, <3>1, <3>2, <3>3 DEF OneFoundation
    <3>5. m = n
      BY <1>11, <3>2, <3>3, <3>4 DEF NoRepeat
    <3>6. QED
      BY <1>15, <3>5
  <2>3. CASE n \notin 1..Len(first)
    BY <1>12, <2>1, <2>3
  <2>4. QED
    BY <2>2, <2>3
<1>16. ASSUME NEW m \in 1..Len(Linked), NEW n \in 1..Len(Linked),
              Linked[m].id \in graph[Linked[n].id], ~IsFoundation(Linked[n])
       PROVE  m < n
  <2>1. n \notin 1..Len(first)
    BY <1>14, <1>16
  <2>2. CASE m \in 1..Len(first)
    BY <1>12, <2>1, <2>2
  <2>3. CASE m \notin 1..Len(first)
    <3> DEFINE a == m - Len(first)
               b == n - Len(first)
    <3>1. a \in 1..Len(rest) /\ b \in 1..Len(rest) /\ Linked[m] = rest[a] /\ Linked[n] = rest[b]
      BY <1>13, <2>1, <2>3
    <3> HIDE DEF a, b
    <3>2. PICK p \in G : rest[a] = sorted[p]
      BY <1>8, <1>12, <3>1
    <3>3. PICK q \in G : rest[b] = sorted[q]
      BY <1>8, <1>12, <3>1
    <3>4. p \in 1..Len(order) /\ q \in 1..Len(order)
      BY <1>7
    <3>5. order[p] \in graph[order[q]]
      BY <1>3, <1>16, <3>1, <3>2, <3>3, <3>4
    <3>6. PICK o \in 1 .. q - 1 : order[p] = order[o]
      BY <3>4, <3>5 DEF OrderOK
    <3>7. p < q
      <4>1. o \in 1..Len(order) /\ o < q
        BY <1>1, <3>4
      <4>2. p = o
        BY <1>1, <3>4, <3>6, <4>1 DEF NoRepeat
      <4>3. QED
        BY <4>1, <4>2
    <3>8. PICK c, d \in 1..Len(rest) : c < d /\ rest[c] = sorted[p] /\ rest[d] = sorted[q]
      BY <1>3, <1>7, <1>10, <3>4, <3>7 DEF KeepsOrder
    <3>9. c = a /\ d = b
      BY <1>8, <3>1, <3>2, <3>3, <3>8 DEF NoRepeat
    <3>10. a < b
      BY <3>8, <3>9
    <3>11. QED
      BY <1>12, <3>10 DEF a, b
  <2>4. QED
    BY <2>2, <2>3
<1>17. Len(Linked) \in Nat /\ DOMAIN Linked = 1..Len(Linked)
  BY <1>11
<1>18. QED
  BY <1>11, <1>15, <1>16, <1>17

-----------------------------------------------------------------------------
(* The text *)

Stmts == {Enter, Exit} \cup UNION {ToSet(u.stmts) : u \in Catalogue}

\* the outer block of an ordinary unit comes before its statements
Outer(u) == IF IsFoundation(u) \/ u.stmts = <<>> THEN 0 ELSE 1

LEMMA WrappedIs ==
    ASSUME NEW u \in Catalogue
    PROVE  /\ u.stmts \in Seq(Stmts) /\ Len(u.stmts) \in Nat /\ DOMAIN u.stmts = 1..Len(u.stmts)
           /\ Outer(u) \in {0, 1}
           /\ Wrapped(u) \in Seq(Stmts) /\ Len(Wrapped(u)) = Outer(u) + Len(u.stmts) + Outer(u)
           /\ \A j \in 1..Len(u.stmts) : Wrapped(u)[Outer(u) + j] = u.stmts[j]
           /\ Outer(u) = 1 => /\ Wrapped(u)[1] = Enter /\ Wrapped(u)[Len(u.stmts) + 2] = Exit
                              /\ ~IsFoundation(u) /\ u.stmts # <<>>
           /\ Outer(u) = 0 => IsFoundation(u) \/ u.stmts = <<>>
<1>1. u.stmts \in Seq(ToSet(u.stmts)) /\ ToSet(u.stmts) \subseteq Stmts
  BY LinkerAssumption DEF Stmts
<1>2. u.stmts \in Seq(Stmts) /\ Len(u.stmts) \in Nat /\ DOMAIN u.stmts = 1..Len(u.stmts)
  BY <1>1
<1>3. CASE IsFoundation(u) \/ u.stmts = <<>>
  <2>1. Outer(u) = 0 /\ Wrapped(u) = u.stmts
    BY <1>3 DEF Outer, Wrapped
  <2>2. \A j \in 1..Len(u.stmts) : Wrapped(u)[Outer(u) + j] = u.stmts[j]
    BY <1>2, <2>1
  <2>3. Len(Wrapped(u)) = Outer(u) + Len(u.stmts) + Outer(u)
    BY <1>2, <2>1
  <2>4. Wrapped(u) \in Seq(Stmts) /\ Outer(u) \in {0, 1} /\ Outer(u) # 1
    BY <1>2, <2>1
  <2>5. QED
    BY <1>2, <1>3, <2>2, <2>3, <2>4
<1>4. CASE ~(IsFoundation(u) \/ u.stmts = <<>>)
  <2>1. Outer(u) = 1 /\ Wrapped(u) = <<Enter>> \o u.stmts \o <<Exit>>
    BY <1>4 DEF Outer, Wrapped
  <2> DEFINE head == <<Enter>> \o u.stmts
  <2>2. Enter \in Stmts /\ Exit \in Stmts
    BY DEF Stmts
  <2>3. /\ head \in Seq(Stmts) /\ Len(head) = Len(u.stmts) + 1 /\ head[1] = Enter
        /\ \A j \in 1..Len(u.stmts) : head[1 + j] = u.stmts[j]
    BY <1>2, <2>2
  <2>4. Wrapped(u) = head \o <<Exit>>
    BY <2>1
  <2> HIDE DEF head
  <2>5. /\ Wrapped(u) \in Seq(Stmts) /\ Len(Wrapped(u)) = Len(u.stmts) + 2
        /\ Wrapped(u)[Len(u.stmts) + 2] = Exit
        /\ \A j \in 1 .. Len(u.stmts) + 1 : Wrapped(u)[j] = head[j]
    BY <1>2, <2>2, <2>3, <2>4
  <2>6. \A j \in 1..Len(u.stmts) : Wrapped(u)[1 + j] = u.stmts[j]
    BY <1>2, <2>3, <2>5
  <2>7. Wrapped(u)[1] = Enter
    BY <1>2, <2>3, <2>5
  <2>8. /\ Len(Wrapped(u)) = Outer(u) + Len(u.stmts) + Outer(u) /\ Outer(u) \in {0, 1} /\ Outer(u) # 0
        /\ \A j \in 1..Len(u.stmts) : Wrapped(u)[Outer(u) + j] = u.stmts[j]
    <3>1. Outer(u) = 1
      BY <2>1
    <3>2. QED
      BY ONLY <1>2, <2>5, <2>6, <3>1
  <2>9. QED
    BY ONLY <1>2, <1>4, <2>5, <2>7, <2>8
<1>5. QED
  BY <1>3, <1>4

\* What is known of the units and of their order once they are sorted.
LinkedOK ==
    /\ UnitsOK /\ OneFoundation /\ OrderOK /\ ToSet(order) = IdSet
    /\ Indexed(Len(units)) /\ Passed(Len(units))
    /\ graph = [id \in IdSet |-> DependsOn(UnitOf(id))]

Blocks == [n \in 1..Len(Linked) |-> Wrapped(Linked[n])]

LEMMA TextLaid ==
    ASSUME LinkedOK
    PROVE  /\ Blocks \in Seq(Seq(Stmts)) /\ Len(Blocks) = Len(Linked) /\ Text \in Seq(Stmts)
           /\ \A m \in 1..Len(Linked) : Linked[m] \in Catalogue /\ Blocks[m] = Wrapped(Linked[m])
                                        /\ Linked[m] \in ToSet(units)
           /\ \E start : Laid(Blocks, Text, start) /\ Tiled(Blocks, Text, start)
<1>1. /\ Linked \in Seq(Catalogue) /\ Len(Linked) \in Nat /\ DOMAIN Linked = 1..Len(Linked)
      /\ ToSet(Linked) = ToSet(units)
  BY LinkedIs DEF LinkedOK
<1>2. \A m \in 1..Len(Linked) : Linked[m] \in Catalogue /\ Linked[m] \in ToSet(units)
  BY SMTT(20), <1>1 DEF ToSet
<1>3. \A m \in 1..Len(Linked) : Wrapped(Linked[m]) \in Seq(Stmts)
  BY <1>2, WrappedIs
<1>4. Blocks \in Seq(Seq(Stmts)) /\ Len(Blocks) = Len(Linked)
      /\ \A m \in 1..Len(Linked) : Blocks[m] = Wrapped(Linked[m])
  BY <1>1, <1>3 DEF Blocks
<1>5. Text = FlattenSeq(Blocks)
  BY <1>1 DEF Text, Blocks
<1>6. QED
  BY <1>2, <1>4, <1>5, LaidOut, FlattenElements

\* where statement j of the m-th unit is
Place(start, m, j) == start[m] + Outer(Linked[m]) + j

\* Every labelled statement of the text is one of a unit, and is indexed as such.
Sits(start, p, m, j) ==
    /\ m \in 1..Len(Linked) /\ j \in Labelled(Linked[m]) /\ p = Place(start, m, j)
    /\ Text[p] = Linked[m].stmts[j]
    /\ Text[p].label \in OwnLabels(Linked[m])
    /\ label_defs[Text[p].label] =
         [owner |-> Linked[m].id, kind |-> Linked[m].kind, class |-> Text[p].op]

LEMMA Placed ==
    ASSUME LinkedOK, NEW start, Laid(Blocks, Text, start),
           NEW m \in 1..Len(Linked), NEW j \in 1..Len(Linked[m].stmts)
    PROVE  /\ Place(start, m, j) \in 1..Len(Text) /\ Text[Place(start, m, j)] = Linked[m].stmts[j]
           /\ start[m] \in Nat /\ start[m] < Place(start, m, j)
           /\ Place(start, m, j) <= start[m] + Len(Blocks[m])
           /\ IsLabelled(Linked[m].stmts[j]) => Sits(start, Place(start, m, j), m, j)
<1> DEFINE u == Linked[m]
           p == Place(start, m, j)
<1>1. /\ u \in Catalogue /\ u \in ToSet(units) /\ Blocks[m] = Wrapped(u) /\ Len(Blocks) = Len(Linked)
      /\ Len(Linked) \in Nat
  BY TextLaid, LinkedIs DEF LinkedOK
<1>2. /\ Len(u.stmts) \in Nat /\ DOMAIN u.stmts = 1..Len(u.stmts) /\ Outer(u) \in {0, 1}
      /\ Len(Wrapped(u)) = Outer(u) + Len(u.stmts) + Outer(u)
      /\ Wrapped(u)[Outer(u) + j] = u.stmts[j]
  BY <1>1, WrappedIs
<1>3. Outer(u) + j \in 1..Len(Blocks[m])
  BY <1>1, <1>2
<1>4. /\ start[m] \in Nat /\ start[m] + (Outer(u) + j) \in 1..Len(Text)
      /\ Text[start[m] + (Outer(u) + j)] = Blocks[m][Outer(u) + j]
  <2>1. Blocks \in Seq(Seq(Stmts)) /\ m \in 1..Len(Blocks)
    BY <1>1, TextLaid
  <2>2. QED
    BY SMTT(20), <1>3, <2>1, LaidWithin
<1>6. /\ p = start[m] + (Outer(u) + j) /\ p \in 1..Len(Text) /\ Text[p] = u.stmts[j]
      /\ start[m] < p /\ p <= start[m] + Len(Blocks[m])
  <2>1. p = start[m] + (Outer(u) + j)
    BY <1>2, <1>4 DEF Place
  <2>2. QED
    BY <1>1, <1>2, <1>3, <1>4, <2>1
<1>7. ASSUME IsLabelled(u.stmts[j]) PROVE Sits(start, p, m, j)
  <2>1. j \in Labelled(u)
    BY <1>2, <1>7 DEF Labelled
  <2>2. u.stmts[j].label \in OwnLabels(u)
    BY <2>1 DEF OwnLabels
  <2>3. PICK n \in 1..Len(units) : u = units[n]
    BY <1>1 DEF ToSet, LinkedOK, UnitsOK
  <2>4. label_defs[u.stmts[j].label] = [owner |-> u.id, kind |-> u.kind, class |-> u.stmts[j].op]
    BY <2>1, <2>3 DEF LinkedOK, Indexed
  <2>5. QED
    BY <1>6, <2>1, <2>2, <2>4 DEF Sits
<1>8. QED
  BY <1>4, <1>6, <1>7

LEMMA PlaceOf ==
    ASSUME LinkedOK, NEW start, Laid(Blocks, Text, start), Tiled(Blocks, Text, start),
           NEW p \in 1..Len(Text), Text[p].op \notin {"enter", "exit"}
    PROVE  \E m \in 1..Len(Linked) : \E j \in 1..Len(Linked[m].stmts) :
              p = Place(start, m, j) /\ Text[p] = Linked[m].stmts[j]
<1>1. PICK m \in 1..Len(Linked) : \E x \in 1..Len(Blocks[m]) : p = start[m] + x
  BY TextLaid DEF Tiled
<1>2. PICK x \in 1..Len(Blocks[m]) : p = start[m] + x
  BY <1>1
<1> DEFINE u == Linked[m]
<1>3. u \in Catalogue /\ Blocks[m] = Wrapped(u) /\ Text[p] = Blocks[m][x] /\ start[m] \in Nat
      /\ Len(Blocks) = Len(Linked) /\ Len(Linked) \in Nat
  <2>1. u \in Catalogue /\ Blocks[m] = Wrapped(u) /\ Len(Blocks) = Len(Linked) /\ Len(Linked) \in Nat
    BY TextLaid, LinkedIs DEF LinkedOK
  <2>2. Text[p] = Blocks[m][x] /\ start[m] \in Nat
    BY <1>2, <2>1 DEF Laid
  <2>3. QED
    BY <2>1, <2>2
<1>4. /\ Len(u.stmts) \in Nat /\ Outer(u) \in {0, 1}
      /\ Len(Wrapped(u)) = Outer(u) + Len(u.stmts) + Outer(u)
      /\ Outer(u) = 1 => Wrapped(u)[1] = Enter /\ Wrapped(u)[Len(u.stmts) + 2] = Exit
  BY <1>3, WrappedIs
<1>5. x - Outer(u) \in 1..Len(u.stmts)
  <2>1. CASE Outer(u) = 0
    BY <1>3, <1>4, <2>1
  <2>2. CASE Outer(u) = 1
    <3>1. x # 1 /\ x # Len(u.stmts) + 2
      BY <1>3, <1>4, <2>2 DEF Enter, Exit
    <3>2. QED
      BY <1>3, <1>4, <2>2, <3>1
  <2>3. QED
    BY <1>4, <2>1, <2>2
<1>6. p = Place(start, m, x - Outer(u))
  BY <1>2, <1>3, <1>4 DEF Place
<1>7. Text[p] = u.stmts[x - Outer(u)]
  BY <1>5, <1>6, Placed
<1>8. QED
  BY <1>5, <1>6, <1>7

LEMMA SitsSomewhere ==
    ASSUME LinkedOK, NEW start, Laid(Blocks, Text, start), Tiled(Blocks, Text, start),
           NEW p \in 1..Len(Text), IsLabelled(Text[p])
    PROVE  \E m, j : Sits(start, p, m, j)
<1>1. Text[p].op \notin {"enter", "exit"}
  BY DEF IsLabelled, IsHyp, IsAssertion
<1>2. PICK m \in 1..Len(Linked) : \E j \in 1..Len(Linked[m].stmts) :
         p = Place(start, m, j) /\ Text[p] = Linked[m].stmts[j]
  BY <1>1, PlaceOf
<1>3. PICK j \in 1..Len(Linked[m].stmts) : p = Place(start, m, j) /\ Text[p] = Linked[m].stmts[j]
  BY <1>2
<1>4. Sits(start, p, m, j)
  BY <1>3, Placed
<1>5. QED
  BY <1>4

LEMMA DoneFacts == ASSUME SortInv, LinkInv, Done PROVE LinkedOK /\ body = Text
BY DEF SortInv, LinkInv, Done, Stages, Sorted, LinkedOK

\* Units are told apart by their ids.
LEMMA SameUnit ==
    ASSUME LinkedOK, NEW m \in 1..Len(Linked), NEW n \in 1..Len(Linked), Linked[m].id = Linked[n].id
    PROVE  m = n
<1>1. Linked[m] \in Catalogue /\ Linked[n] \in Catalogue
  BY TextLaid
<1>2. Linked[m] = Linked[n]
  BY <1>1, LinkerAssumption
<1>3. QED
  BY <1>2, LinkedIs DEF LinkedOK, NoRepeat

\* stage5_emission_plan lays the units out one after the other, in an order that
\* stage 4 made from the input and moved the foundation in.  No unit is dropped,
\* repeated or torn, and nothing else with a label is in the stream.
THEOREM NothingIsLost == Spec => []NothingLost
<1>1. ASSUME SortInv, LinkInv, Done PROVE NothingLost
  <2>1. LinkedOK /\ body = Text
    BY <1>1, DoneFacts
  <2>2. PICK start : Laid(Blocks, Text, start) /\ Tiled(Blocks, Text, start)
    BY <2>1, TextLaid
  <2>3. Text \in Seq(Stmts) /\ DOMAIN Text = 1..Len(Text)
    BY <2>1, TextLaid
  <2>4. ASSUME NEW u \in ToSet(units)
        PROVE  At(body, {n \in DOMAIN body : IsOf(n, u)}) = At(u.stmts, Labelled(u))
    <3> DEFINE T == {n \in DOMAIN body : IsOf(n, u)}
               S == Labelled(u)
    <3>1. PICK m \in 1..Len(Linked) : u = Linked[m]
      <4>1. DOMAIN Linked = 1..Len(Linked) /\ ToSet(Linked) = ToSet(units)
        BY <2>1, LinkedIs DEF LinkedOK
      <4>2. QED
        BY <4>1 DEF ToSet
    <3> DEFINE o == start[m] + Outer(u)
    <3>2. /\ u \in Catalogue /\ u.stmts \in Seq(Stmts) /\ DOMAIN u.stmts = 1..Len(u.stmts)
          /\ Outer(u) \in {0, 1}
      BY <2>1, <3>1, TextLaid, WrappedIs
    <3>3. S \subseteq 1..Len(u.stmts)
      BY <3>2 DEF Labelled
    <3>4. start[m] \in Nat
      <4>1. Len(Blocks) = Len(Linked) /\ Len(Linked) \in Nat
        BY <2>1, TextLaid, LinkedIs DEF LinkedOK
      <4>2. m \in 1 .. Len(Blocks) + 1
        BY <4>1
      <4>3. QED
        BY <2>2, <4>2 DEF Laid
    <3>5. ASSUME NEW j \in S
          PROVE  o + j \in T /\ Text[o + j] = u.stmts[j]
      <4>1. j \in 1..Len(u.stmts) /\ IsLabelled(u.stmts[j]) /\ o + j = Place(start, m, j)
        BY <3>1, <3>2, <3>3 DEF Labelled, Place
      <4>2. o + j \in 1..Len(Text) /\ Text[o + j] = u.stmts[j] /\ Sits(start, o + j, m, j)
        BY <2>1, <2>2, <3>1, <4>1, Placed
      <4>3. IsOf(o + j, u)
        BY <2>1, <3>1, <4>1, <4>2 DEF IsOf, OwnerOf, Sits
      <4>4. QED
        BY <2>1, <2>3, <4>2, <4>3
    <3>6. ASSUME NEW p \in T PROVE \E j \in S : p = o + j
      <4>1. p \in 1..Len(Text) /\ IsLabelled(Text[p]) /\ label_defs[Text[p].label].owner = u.id
        BY <2>1, <2>3 DEF IsOf, OwnerOf
      <4>2. PICK n, j : Sits(start, p, n, j)
        BY <2>1, <2>2, <4>1, SitsSomewhere
      <4>3. n \in 1..Len(Linked) /\ Linked[n].id = u.id /\ j \in Labelled(Linked[n])
            /\ p = Place(start, n, j)
        BY <4>1, <4>2 DEF Sits
      <4>4. n = m
        BY <2>1, <3>1, <4>3, SameUnit
      <4>5. QED
        BY <3>1, <4>3, <4>4 DEF Place
    <3>7. Shifted(u.stmts, S, Text, T, o)
      <4>1. T \cap 1..Len(Text) = {o + j : j \in S}
        <5>1. T \subseteq 1..Len(Text)
          BY <2>1, <2>3
        <5> HIDE DEF T, S, o
        <5>2. QED
          BY <3>5, <3>6, <5>1
      <4>2. S \cap 1..Len(u.stmts) = S
        BY <3>3
      <4> HIDE DEF T, S, o
      <4>3. QED
        BY <3>5, <4>1, <4>2 DEF Shifted
    <3>8. o \in Nat
      BY <3>2, <3>4
    <3> HIDE DEF T, S, o
    <3>9. At(Text, T) = At(u.stmts, S)
      BY <2>3, <3>2, <3>7, <3>8, AtShift
    <3>10. QED
      BY <2>1, <3>9 DEF T, S
  <2>5. ASSUME NEW p \in DOMAIN body, IsLabelled(body[p])
        PROVE  \E u \in ToSet(units) : u.id = OwnerOf(p)
    <3>1. PICK m, j : Sits(start, p, m, j)
      BY <2>1, <2>2, <2>3, <2>5, SitsSomewhere
    <3>2. Linked[m] \in ToSet(units) /\ OwnerOf(p) = Linked[m].id
      BY <2>1, <3>1, TextLaid DEF Sits, OwnerOf
    <3>3. QED
      BY <3>2
  <2>6. QED
    BY <2>4, <2>5 DEF NothingLost
<1>2. SortInv /\ LinkInv => NothingLost
  BY <1>1 DEF NothingLost
<1>3. QED
  BY <1>2, InitSort, SortStep, InitLink, LinkStep, PTL DEF Spec

-----------------------------------------------------------------------------
(* The blocks of the text *)

\* An outer block adds one to the depth of the statements it is around.
LEMMA WrappedDepth ==
    ASSUME Built, NEW u \in Catalogue
    PROVE  /\ \A j \in 0..Len(u.stmts) :
                 /\ Depth(Wrapped(u), Outer(u) + j) = Outer(u) + Depth(u.stmts, j)
                 /\ Depth(u.stmts, j) \in Nat
           /\ Depth(Wrapped(u), Len(Wrapped(u))) = 0
           /\ \A x \in 0..Len(Wrapped(u)) : Depth(Wrapped(u), x) \in Nat
<1> DEFINE w == Wrapped(u)
           n == Len(u.stmts)
<1>1. /\ n \in Nat /\ Outer(u) \in {0, 1} /\ Len(w) = Outer(u) + n + Outer(u)
      /\ \A j \in 1..n : w[Outer(u) + j] = u.stmts[j]
      /\ Outer(u) = 1 => w[1] = Enter /\ w[n + 2] = Exit
  BY WrappedIs
<1>2. Depth(w, 0) = 0 /\ Depth(u.stmts, 0) = 0
  BY DepthStart
<1>3. Depth(w, Outer(u)) = Outer(u)
  <2>1. CASE Outer(u) = 0
    BY <1>2, <2>1
  <2>2. CASE Outer(u) = 1
    <3>1. w[1].op = "enter"
      BY <1>1, <2>2 DEF Enter
    <3>2. Depth(w, 1) = Depth(w, 0) + 1
      <4>1. 1 \in Nat \ {0} /\ 1 - 1 = 0
        OBVIOUS
      <4> HIDE DEF w
      <4>2. QED
        BY <3>1, <4>1, DepthNext
    <3>3. QED
      BY <1>2, <2>2, <3>2
  <2>3. QED
    BY <1>1, <2>1, <2>2
<1>4. \A j \in 0..n : Depth(w, Outer(u) + j) = Outer(u) + Depth(u.stmts, j)
  <2>1. Repeats(w, Outer(u), u.stmts, n) /\ Outer(u) \in Nat
    BY <1>1 DEF Repeats
  <2> HIDE DEF w, n
  <2>2. QED
    BY <1>1, <1>3, <2>1, DepthShift
<1>5. \A j \in 0..n : Depth(u.stmts, j) \in Nat
  <2> SUFFICES ASSUME NEW j \in 0..n PROVE Depth(u.stmts, j) \in Nat
    OBVIOUS
  <2>1. Depth(u.stmts, j) \in Int /\ j \in Nat
    BY DepthType
  <2>2. CASE j = 0
    BY <1>2, <2>2
  <2>3. CASE j # 0
    BY <1>1, <2>1, <2>3 DEF Built, Balanced
  <2>4. QED
    BY <2>2, <2>3
<1>6. Depth(u.stmts, n) = 0
  BY DEF Built, Balanced
<1> HIDE DEF w, n
<1>7. Depth(w, Outer(u) + n) = Outer(u)
  <2>1. n \in 0..n
    BY <1>1
  <2>2. QED
    BY <1>1, <1>4, <1>6, <2>1
<1>8. Depth(w, Len(w)) = 0
  <2>1. CASE Outer(u) = 0
    <3>1. Len(w) = Outer(u) + n
      BY <1>1, <2>1
    <3>2. QED
      BY <1>7, <2>1, <3>1
  <2>2. CASE Outer(u) = 1
    <3>1. Len(w) = n + 2 /\ w[n + 2].op = "exit" /\ n + 2 \in Nat \ {0} /\ (n + 2) - 1 = Outer(u) + n
      BY <1>1, <2>2 DEF Exit
    <3>2. Depth(w, n + 2) = Depth(w, Outer(u) + n) - 1
      BY <3>1, DepthNext
    <3>3. QED
      BY <1>7, <2>2, <3>1, <3>2
  <2>3. QED
    BY <1>1, <2>1, <2>2
<1>9. ASSUME NEW x \in 0..Len(w) PROVE Depth(w, x) \in Nat
  <2>1. CASE x = 0
    BY <1>2, <2>1
  <2>2. CASE x = Len(w)
    BY <1>8, <2>2
  <2>3. CASE x # 0 /\ x # Len(w)
    <3>1. x - Outer(u) \in 0..n /\ x = Outer(u) + (x - Outer(u))
      BY <1>1, <2>3
    <3>2. QED
      BY <1>1, <1>4, <1>5, <3>1
  <2>4. QED
    BY <2>1, <2>2, <2>3
<1>10. QED
  BY <1>4, <1>5, <1>8, <1>9 DEF w, n

\* Between two units no block is open.
LEMMA TextDepth ==
    ASSUME Built, LinkedOK, NEW start, Laid(Blocks, Text, start)
    PROVE  /\ \A m \in 1 .. Len(Linked) + 1 : Depth(Text, start[m]) = 0
           /\ \A m \in 1..Len(Linked) : \A x \in 0..Len(Blocks[m]) :
                 Depth(Text, start[m] + x) = Depth(Blocks[m], x)
<1> DEFINE L == Len(Linked)
           T == {m \in Nat : m + 1 <= L + 1 => Depth(Text, start[m + 1]) = 0}
<1>1. /\ L \in Nat /\ Len(Blocks) = L /\ Blocks \in Seq(Seq(Stmts))
      /\ \A m \in 1..L : Linked[m] \in Catalogue /\ Blocks[m] = Wrapped(Linked[m])
  BY TextLaid, LinkedIs DEF LinkedOK
<1> HIDE DEF L
<1>2. ASSUME NEW m \in 1..L, Depth(Text, start[m]) = 0
      PROVE  /\ \A x \in 0..Len(Blocks[m]) : Depth(Text, start[m] + x) = Depth(Blocks[m], x)
             /\ Depth(Text, start[m + 1]) = 0
  <2>1. /\ start[m] \in Nat /\ Len(Blocks[m]) \in Nat /\ start[m + 1] = start[m] + Len(Blocks[m])
        /\ \A x \in 1..Len(Blocks[m]) : Text[start[m] + x] = Blocks[m][x]
    BY <1>1, LaidWithin
  <2>2. Repeats(Text, start[m], Blocks[m], Len(Blocks[m]))
    BY <2>1 DEF Repeats
  <2>3. ASSUME NEW x \in 0..Len(Blocks[m]) PROVE Depth(Text, start[m] + x) = Depth(Blocks[m], x)
    <3>1. Depth(Text, start[m] + x) = Depth(Text, start[m]) + Depth(Blocks[m], x)
      BY <2>1, <2>2, DepthShift
    <3>2. Depth(Blocks[m], x) \in Int
      <4>1. x \in Nat
        BY <2>1
      <4>2. QED
        BY <4>1, DepthType
    <3>3. QED
      BY <1>2, <3>1, <3>2
  <2>4. Depth(Blocks[m], Len(Blocks[m])) = 0
    BY <1>1, WrappedDepth
  <2>5. Len(Blocks[m]) \in 0..Len(Blocks[m])
    BY <2>1
  <2>6. QED
    BY <2>1, <2>3, <2>4, <2>5
<1>3. 0 \in T
  <2>1. start[0 + 1] = 0
    BY DEF Laid
  <2>2. QED
    BY <2>1, DepthStart
<1>4. ASSUME NEW m \in Nat, m \in T PROVE m + 1 \in T
  <2> SUFFICES ASSUME (m + 1) + 1 <= L + 1 PROVE Depth(Text, start[(m + 1) + 1]) = 0
    OBVIOUS
  <2>1. m + 1 \in 1..L
    BY <1>1
  <2>2. Depth(Text, start[m + 1]) = 0
    BY <1>1, <1>4
  <2>3. QED
    BY <1>2, <2>1, <2>2
<1>5. Nat \subseteq T
  <2> HIDE DEF T
  <2>1. QED
    BY <1>3, <1>4, NatInduct
<1>6. \A m \in 1 .. L + 1 : Depth(Text, start[m]) = 0
  <2> SUFFICES ASSUME NEW m \in 1 .. L + 1 PROVE Depth(Text, start[m]) = 0
    OBVIOUS
  <2>1. m - 1 \in Nat /\ (m - 1) + 1 = m /\ m <= L + 1
    BY <1>1
  <2>2. m - 1 \in T
    <3> HIDE DEF T
    <3>1. QED
      BY <1>5, <2>1
  <2>3. (m - 1) + 1 <= L + 1 => Depth(Text, start[(m - 1) + 1]) = 0
    BY <2>2
  <2>4. QED
    BY <2>1, <2>3
<1>7. QED
  BY SMTT(20), <1>1, <1>2, <1>6 DEF L

\* The depth of a statement of a unit; no point of the text is below the top level.
LEMMA PlaceDepth ==
    ASSUME Built, LinkedOK, NEW start, Laid(Blocks, Text, start), Tiled(Blocks, Text, start)
    PROVE  /\ \A m \in 1..Len(Linked) : \A j \in 1..Len(Linked[m].stmts) :
                 /\ Depth(Text, Place(start, m, j)) = Outer(Linked[m]) + Depth(Linked[m].stmts, j)
                 /\ Depth(Linked[m].stmts, j) \in Nat
           /\ \A p \in 0..Len(Text) : Depth(Text, p) \in Nat
<1>1. ASSUME NEW m \in 1..Len(Linked), NEW j \in 1..Len(Linked[m].stmts)
      PROVE  /\ Depth(Text, Place(start, m, j)) = Outer(Linked[m]) + Depth(Linked[m].stmts, j)
             /\ Depth(Linked[m].stmts, j) \in Nat
  <2> DEFINE u == Linked[m]
  <2>1. /\ u \in Catalogue /\ Blocks[m] = Wrapped(u) /\ Len(u.stmts) \in Nat /\ Outer(u) \in {0, 1}
        /\ Len(Wrapped(u)) = Outer(u) + Len(u.stmts) + Outer(u)
    BY TextLaid, WrappedIs
  <2>2. j \in 0..Len(u.stmts) /\ Outer(u) + j \in 0..Len(Blocks[m])
    BY <2>1
  <2>3. Depth(Text, start[m] + (Outer(u) + j)) = Depth(Wrapped(u), Outer(u) + j)
    BY <2>1, <2>2, TextDepth
  <2>4. start[m] + (Outer(u) + j) = Place(start, m, j)
    <3>1. start[m] \in Nat
      BY Placed
    <3>2. QED
      BY <2>1, <3>1 DEF Place
  <2>5. /\ Depth(Wrapped(u), Outer(u) + j) = Outer(u) + Depth(u.stmts, j)
        /\ Depth(u.stmts, j) \in Nat
    BY <2>1, <2>2, WrappedDepth
  <2>6. QED
    BY <2>3, <2>4, <2>5
<1>2. ASSUME NEW p \in 0..Len(Text) PROVE Depth(Text, p) \in Nat
  <2>1. CASE p = 0
    BY <2>1, DepthStart
  <2>2. CASE p # 0
    <3>1. p \in 1..Len(Text)
      BY <2>2
    <3>2. PICK m \in 1..Len(Blocks) : \E x \in 1..Len(Blocks[m]) : p = start[m] + x
      BY <3>1 DEF Tiled
    <3>3. PICK x \in 1..Len(Blocks[m]) : p = start[m] + x
      BY <3>2
    <3>4. m \in 1..Len(Linked) /\ Linked[m] \in Catalogue /\ Blocks[m] = Wrapped(Linked[m])
      BY TextLaid
    <3>5. x \in 0..Len(Blocks[m])
      OBVIOUS
    <3>6. Depth(Text, p) = Depth(Blocks[m], x)
      BY <3>3, <3>4, <3>5, TextDepth
    <3>7. QED
      BY <3>4, <3>5, <3>6, WrappedDepth
  <2>3. QED
    BY <2>1, <2>2
<1>3. QED
  BY <1>1, <1>2

\* Statements of different units lie as the units do.
LEMMA PlacesApart ==
    ASSUME LinkedOK, NEW start, Laid(Blocks, Text, start),
           NEW m \in 1..Len(Linked), NEW n \in 1..Len(Linked), m < n,
           NEW a \in 1..Len(Linked[m].stmts), NEW b \in 1..Len(Linked[n].stmts)
    PROVE  /\ Place(start, m, a) <= start[m + 1] /\ start[m + 1] < Place(start, n, b)
           /\ start[m + 1] \in 1..Len(Text)
<1>1. /\ Blocks \in Seq(Seq(Stmts)) /\ Len(Blocks) = Len(Linked) /\ Len(Linked) \in Nat
  BY TextLaid, LinkedIs DEF LinkedOK
<1>2. /\ start[m + 1] = start[m] + Len(Blocks[m]) /\ start[m] \in Nat /\ Len(Blocks[m]) \in Nat
      /\ start[m] + Len(Blocks[m]) <= Len(Text) /\ Len(Text) \in Nat
  BY <1>1, LaidWithin
<1>3. start[m] + Len(Blocks[m]) <= start[n]
  BY <1>1 DEF Laid
<1>4. /\ start[m] < Place(start, m, a) /\ Place(start, m, a) <= start[m] + Len(Blocks[m])
      /\ start[n] < Place(start, n, b) /\ start[n] \in Nat
      /\ Place(start, m, a) \in 1..Len(Text) /\ Place(start, n, b) \in 1..Len(Text)
  BY Placed
<1>5. QED
  BY SMTT(20), <1>2, <1>3, <1>4

\* An outermost $f of the foundation is in scope in all other units.
LEMMA FoundationStays ==
    ASSUME Built, LinkedOK, NEW start, Laid(Blocks, Text, start), Tiled(Blocks, Text, start),
           NEW a \in 1..Len(Text), NEW b \in 1..Len(Text), a < b, Depth(Text, a) = 0
    PROVE  InScope(Text, a, b)
<1>1. ASSUME NEW x \in a .. b - 1 PROVE Depth(Text, x) >= Depth(Text, a)
  <2>1. x \in 0..Len(Text)
    OBVIOUS
  <2>2. QED
    BY <2>1, PlaceDepth
<1>2. QED
  BY <1>1 DEF InScope

\* stage5_emission_plan puts an outer block around each ordinary unit.  For units
\* whose blocks balance, as the builder leaves them, that keeps every hypothesis
\* of a unit from the others, and the foundation's outermost $f in scope in all.
THEOREM FramesStayHome == ASSUME Built PROVE Spec => []FramesBelong
<1>1. ASSUME SortInv, LinkInv, Done,
             NEW u \in ToSet(units), NEW v \in ToSet(units), u # v,
             NEW a \in DOMAIN body, IsOf(a, u), IsHyp(body[a]),
             NEW b \in DOMAIN body, IsOf(b, v)
      PROVE  IF IsFoundation(u) THEN Depth(body, a) = 0 => InScope(body, a, b)
             ELSE ~InScope(body, a, b)
  <2>1. LinkedOK /\ body = Text
    BY <1>1, DoneFacts
  <2>2. PICK start : Laid(Blocks, Text, start) /\ Tiled(Blocks, Text, start)
    BY <2>1, TextLaid
  <2>3. Text \in Seq(Stmts) /\ DOMAIN Text = 1..Len(Text) /\ a \in 1..Len(Text) /\ b \in 1..Len(Text)
    BY <2>1, TextLaid
  <2>4. PICK m, j : Sits(start, a, m, j)
    BY <1>1, <2>1, <2>2, <2>3, SitsSomewhere DEF IsOf
  <2>5. PICK n, k0 : Sits(start, b, n, k0)
    BY <1>1, <2>1, <2>2, <2>3, SitsSomewhere DEF IsOf
  <2>6. /\ m \in 1..Len(Linked) /\ n \in 1..Len(Linked) /\ Linked[m] = u /\ Linked[n] = v /\ m # n
        /\ j \in 1..Len(u.stmts) /\ k0 \in 1..Len(v.stmts)
        /\ a = Place(start, m, j) /\ b = Place(start, n, k0)
    <3>1. /\ m \in 1..Len(Linked) /\ n \in 1..Len(Linked)
          /\ Linked[m].id = u.id /\ Linked[n].id = v.id
          /\ j \in Labelled(Linked[m]) /\ k0 \in Labelled(Linked[n])
          /\ a = Place(start, m, j) /\ b = Place(start, n, k0)
      BY <1>1, <2>1, <2>4, <2>5 DEF Sits, IsOf, OwnerOf
    <3>2. Linked[m] \in Catalogue /\ Linked[n] \in Catalogue /\ u \in Catalogue /\ v \in Catalogue
      BY <2>1, <3>1, TextLaid, IdsOf DEF LinkedOK
    <3>3. Linked[m] = u /\ Linked[n] = v
      BY <3>1, <3>2, LinkerAssumption
    <3>4. DOMAIN u.stmts = 1..Len(u.stmts) /\ DOMAIN v.stmts = 1..Len(v.stmts)
      BY <3>2, WrappedIs
    <3>5. QED
      BY <1>1, <3>1, <3>3, <3>4 DEF Labelled
  <2>7. m \in Nat /\ n \in Nat
    BY <2>6
  <2>8. CASE IsFoundation(u)
    <3>1. m < n
      BY <2>1, <2>6, <2>8, LinkedIs DEF LinkedOK
    <3>2. a < b
      <4>1. a <= start[m + 1] /\ start[m + 1] < b /\ start[m + 1] \in Nat
        BY <2>1, <2>2, <2>6, <3>1, PlacesApart
      <4>2. QED
        BY <2>3, <4>1
    <3>3. QED
      BY <1>1, <2>1, <2>2, <2>3, <2>8, <3>2, FoundationStays
  <2>9. CASE ~IsFoundation(u)
    <3> SUFFICES ASSUME InScope(Text, a, b) PROVE FALSE
      BY <2>1, <2>9
    <3>1. a < b
      BY DEF InScope
    <3>2. m < n
      <4>1. CASE n < m
        <5>1. b <= start[n + 1] /\ start[n + 1] < a /\ start[n + 1] \in Nat
          BY <2>1, <2>2, <2>6, <4>1, PlacesApart
        <5>2. QED
          BY <2>3, <3>1, <5>1
      <4>2. QED
        BY <2>6, <2>7, <4>1
    <3>3. a <= start[m + 1] /\ start[m + 1] < b /\ start[m + 1] \in 1..Len(Text)
      BY <2>1, <2>2, <2>6, <3>2, PlacesApart
    <3>4. start[m + 1] \in a .. b - 1
      BY <2>3, <3>3
    <3>5. Depth(Text, start[m + 1]) >= Depth(Text, a)
      BY <3>4 DEF InScope
    <3>6. Depth(Text, start[m + 1]) = 0
      <4>1. m + 1 \in 1 .. Len(Linked) + 1
        BY <2>6
      <4>2. QED
        BY <1>1, <2>1, <2>2, <4>1, TextDepth
    <3>7. Depth(Text, a) = Outer(u) + Depth(u.stmts, j) /\ Depth(u.stmts, j) \in Nat
      BY <1>1, <2>1, <2>2, <2>6, PlaceDepth
    <3>8. Outer(u) = 1
      <4>1. u \in Catalogue
        BY <2>1, <2>6, TextLaid
      <4>2. Len(u.stmts) # 0
        BY <2>6, <4>1, WrappedIs
      <4>3. QED
        BY <2>9, <4>1, <4>2, WrappedIs
    <3>9. QED
      BY <3>5, <3>6, <3>7, <3>8
  <2>10. QED
    BY <2>8, <2>9
<1>2. SortInv /\ LinkInv => FramesBelong
  BY <1>1 DEF FramesBelong
<1>3. QED
  BY <1>2, InitSort, SortStep, InitLink, LinkStep, PTL DEF Spec

-----------------------------------------------------------------------------
(* What a proof cites *)

\* stage1_resolve lets a proof cite a label of another unit if that unit exports
\* it, and a hypothesis only of the foundation; the graph of stage 4 has an edge
\* for it, so that unit is before.
LEMMA CitedBefore ==
    ASSUME Level # 0, ExportsOwn, FoundationsFirst, LinkedOK,
           NEW n \in 1..Len(Linked), NEW st \in ToSet(Linked[n].stmts), st.op = "p",
           NEW l \in TokensOf(st.proof), l \in DOMAIN label_defs,
           label_defs[l].owner # Linked[n].id
    PROVE  \E m \in 1..Len(Linked) : \E j \in 1..Len(Linked[m].stmts) :
              /\ m < n
              /\ IsLabelled(Linked[m].stmts[j]) /\ Linked[m].stmts[j].label = l
              /\ IsHyp(Linked[m].stmts[j]) =>
                    IsFoundation(Linked[m]) /\ Depth(Linked[m].stmts, j) = 0
<1> DEFINE u == Linked[n]
           N == Len(units)
<1>1. /\ u \in Catalogue /\ u \in ToSet(units)
      /\ UnitsOK /\ Indexed(N) /\ Passed(N)
      /\ graph = [id \in IdSet |-> DependsOn(UnitOf(id))]
  BY TextLaid DEF LinkedOK
<1>2. N \in Nat /\ DOMAIN units = 1..N /\ ToSet(units) = {units[x] : x \in 1..N}
  BY <1>1 DEF UnitsOK, ToSet
<1>3. PICK y \in 1..N : u = units[y]
  BY <1>1, <1>2
<1>4. PICK x \in 1..N : l \in OwnLabels(units[x])
  BY <1>1 DEF Indexed
<1> DEFINE v == units[x]
<1>5. PICK j \in Labelled(v) : v.stmts[j].label = l
  BY <1>4 DEF OwnLabels
<1>6. label_defs[l] = [owner |-> v.id, kind |-> v.kind, class |-> v.stmts[j].op]
  BY <1>1, <1>5 DEF Indexed
<1>7. v.id # u.id /\ x # y
  BY <1>3, <1>6
<1>8. v \in ToSet(units) /\ v \in Catalogue /\ UnitOf(v.id) = v /\ UnitOf(u.id) = u
      /\ u.id \in IdSet /\ Len(v.stmts) \in Nat /\ DOMAIN v.stmts = 1..Len(v.stmts)
  BY <1>1, <1>2, <1>3, IdsOf, WrappedIs
<1>9. ProofToken(u, l) = "ok"
  BY <1>1, <1>3 DEF Passed, Clean
<1> HIDE DEF u, v, N
<1>10. l \in Labels /\ CrossUnit(label_defs[l], l \in v.exports) = "ok"
  BY <1>6, <1>7, <1>8, <1>9 DEF ProofToken
<1>11. /\ l \in v.exports
       /\ v.stmts[j].op # "e" /\ (v.stmts[j].op = "f" => IsFoundation(v))
  BY <1>6, <1>10 DEF CrossUnit, IsFoundation
<1>12. \A z \in 1..N : l \in units[z].exports => z = x
  <2> SUFFICES ASSUME NEW z \in 1..N, l \in units[z].exports PROVE z = x
    OBVIOUS
  <2>1. units[z] \in Catalogue
    BY <1>1, IdsOf DEF N
  <2>2. l \in OwnLabels(units[z])
    BY <1>10, <2>1 DEF ExportsOwn
  <2>3. QED
    BY <1>1, <1>4, <2>2 DEF Indexed
<1>13. v.id \in graph[u.id]
  <2>1. x \in Exporters(l) /\ \A z \in Exporters(l) : z = x
    BY <1>2, <1>11, <1>12 DEF Exporters, v
  <2>2. LabelOwner(l) = v.id
    BY <1>1, <2>1, OwnerIs DEF v
  <2>3. l \in Cited(u)
    BY DEF Cited, u
  <2>4. v.id \in DependsOn(u)
    BY <1>7, <2>1, <2>2, <2>3 DEF DependsOn
  <2>5. QED
    BY <1>1, <1>8, <2>4
<1>14. ~IsFoundation(u)
  <2>1. SUFFICES ASSUME l \in OwnLabels(u) PROVE FALSE
    BY <1>1 DEF FoundationsFirst, Cited, u
  <2>2. QED
    BY <1>1, <1>3, <1>4, <1>7, <2>1 DEF Indexed
<1>15. PICK m \in 1..Len(Linked) : Linked[m] = v
  <2>1. v \in ToSet(Linked) /\ DOMAIN Linked = 1..Len(Linked)
    BY <1>1, <1>8, LinkedIs DEF LinkedOK
  <2>2. QED
    BY <2>1 DEF ToSet
<1>16. m < n
  BY <1>13, <1>14, <1>15, LinkedIs DEF LinkedOK, u
<1>17. j \in 1..Len(Linked[m].stmts) /\ IsLabelled(Linked[m].stmts[j]) /\ Linked[m].stmts[j].label = l
  BY <1>5, <1>8, <1>15 DEF Labelled
<1>18. IsHyp(Linked[m].stmts[j]) => IsFoundation(Linked[m]) /\ Depth(Linked[m].stmts, j) = 0
  <2> SUFFICES ASSUME IsHyp(v.stmts[j]) PROVE IsFoundation(v) /\ Depth(v.stmts, j) = 0
    BY <1>15
  <2>1. v.stmts[j].op = "f" /\ IsFoundation(v)
    BY <1>11 DEF IsHyp
  <2>2. v.stmts[j].label \in v.exports /\ j \in DOMAIN v.stmts
    BY <1>5, <1>8, <1>11, <1>15, <1>17
  <2>3. QED
    BY <1>8, <2>1, <2>2 DEF FoundationsFirst
<1>19. QED
  BY <1>16, <1>17, <1>18

\* From conformance level 1 on, what a proof cites of another unit has been read
\* when a verifier gets to the proof, and a cited hypothesis is still in scope:
\* stage 1 refuses the other references, stage 4 orders the units, and the
\* foundation has no outer block.  It rests on what the passes do not check: units
\* are built in balance, export labels of their own, and a foundation cites itself
\* only and exports no $f of an inner block.
THEOREM ProvidersComeFirst ==
    ASSUME Level # 0, Built, ExportsOwn, FoundationsFirst
    PROVE  Spec => []ProvidersFirst
<1>1. ASSUME SortInv, LinkInv, Done,
             NEW b \in DOMAIN body, body[b].op = "p", NEW l \in TokensOf(body[b].proof),
             l \in DOMAIN label_defs, label_defs[l].owner # OwnerOf(b)
      PROVE  \E a \in 1 .. b - 1 : /\ IsLabelled(body[a]) /\ body[a].label = l
                                   /\ IsHyp(body[a]) => InScope(body, a, b)
  <2>1. LinkedOK /\ body = Text
    BY <1>1, DoneFacts
  <2>2. PICK start : Laid(Blocks, Text, start) /\ Tiled(Blocks, Text, start)
    BY <2>1, TextLaid
  <2>3. DOMAIN Text = 1..Len(Text) /\ b \in 1..Len(Text) /\ Len(Text) \in Nat
    BY <1>1, <2>1, TextLaid
  <2>4. IsLabelled(Text[b])
    BY <1>1, <2>1 DEF IsLabelled, IsAssertion
  <2>5. PICK n, j0 : Sits(start, b, n, j0)
    BY <2>1, <2>2, <2>3, <2>4, SitsSomewhere
  <2>6. /\ n \in 1..Len(Linked) /\ j0 \in Labelled(Linked[n]) /\ b = Place(start, n, j0)
        /\ Text[b] = Linked[n].stmts[j0] /\ OwnerOf(b) = Linked[n].id
    BY <2>1, <2>5 DEF Sits, OwnerOf
  <2>7. j0 \in 1..Len(Linked[n].stmts) /\ Linked[n].stmts[j0] \in ToSet(Linked[n].stmts)
    <3>1. j0 \in DOMAIN Linked[n].stmts /\ DOMAIN Linked[n].stmts = 1..Len(Linked[n].stmts)
      BY <2>1, <2>6, TextLaid, WrappedIs DEF Labelled
    <3>2. QED
      BY <3>1 DEF ToSet
  <2>8. PICK m \in 1..Len(Linked) : \E j \in 1..Len(Linked[m].stmts) :
              /\ m < n
              /\ IsLabelled(Linked[m].stmts[j]) /\ Linked[m].stmts[j].label = l
              /\ IsHyp(Linked[m].stmts[j]) =>
                    IsFoundation(Linked[m]) /\ Depth(Linked[m].stmts, j) = 0
    BY <1>1, <2>1, <2>6, <2>7, CitedBefore
  <2>9. PICK j \in 1..Len(Linked[m].stmts) :
              /\ m < n
              /\ IsLabelled(Linked[m].stmts[j]) /\ Linked[m].stmts[j].label = l
              /\ IsHyp(Linked[m].stmts[j]) =>
                    IsFoundation(Linked[m]) /\ Depth(Linked[m].stmts, j) = 0
    BY <2>8
  <2> DEFINE a == Place(start, m, j)
  <2>10. a \in 1..Len(Text) /\ Text[a] = Linked[m].stmts[j]
    BY <2>1, <2>2, Placed
  <2>11. a < b
    <3>1. a <= start[m + 1] /\ start[m + 1] < b /\ start[m + 1] \in 1..Len(Text)
      BY <2>1, <2>2, <2>6, <2>7, <2>9, PlacesApart
    <3>2. QED
      BY <2>3, <2>10, <3>1
  <2>12. IsHyp(Text[a]) => InScope(Text, a, b)
    <3> SUFFICES ASSUME IsHyp(Text[a]) PROVE InScope(Text, a, b)
      OBVIOUS
    <3>1. IsFoundation(Linked[m]) /\ Depth(Linked[m].stmts, j) = 0
      BY <2>9, <2>10
    <3>2. Outer(Linked[m]) = 0
      BY <3>1 DEF Outer
    <3>3. Depth(Text, a) = 0
      BY <1>1, <2>1, <2>2, <3>1, <3>2, PlaceDepth
    <3> HIDE DEF a
    <3>4. QED
      BY <2>1, <2>2, <2>3, <2>10, <2>11, <3>3, FoundationStays
  <2> HIDE DEF a
  <2>13. a \in 1 .. b - 1
    BY <2>3, <2>10, <2>11
  <2>14. QED
    BY <2>1, <2>9, <2>10, <2>12, <2>13
<1>2. SortInv /\ LinkInv => ProvidersFirst
  BY <1>1 DEF ProvidersFirst
<1>3. QED
  BY <1>2, InitSort, SortStep, InitLink, LinkStep, PTL DEF Spec

-----------------------------------------------------------------------------
(* The verdict *)

U == ToSet(units)

\* Different units of the list share no label, and no unit has one twice.
LEMMA LabelsDiffer ==
    ASSUME UnitsOK, Indexed(Len(units)), NEW u \in U, NEW v \in U,
           NEW m \in Labelled(u), NEW n \in Labelled(v), u.stmts[m].label = v.stmts[n].label
    PROVE  u = v /\ m = n
<1>1. DOMAIN units = 1..Len(units)
  BY DEF UnitsOK
<1>2. PICK a \in 1..Len(units), b \in 1..Len(units) : u = units[a] /\ v = units[b]
  BY <1>1 DEF U, ToSet
<1>3. u.stmts[m].label \in OwnLabels(u) /\ u.stmts[m].label \in OwnLabels(v)
  BY DEF OwnLabels
<1>4. a = b
  BY <1>2, <1>3 DEF Indexed
<1>5. DistinctIn(u)
  BY <1>2 DEF Indexed
<1>6. QED
  BY <1>2, <1>4, <1>5 DEF DistinctIn

\* The checks of a proof token, made with the index, let it cite what it may cite.
LEMMA TokenIsCited ==
    ASSUME UnitsOK, Indexed(Len(units)), NEW u \in U, NEW t
    PROVE  ProofToken(u, t) = "ok" <=> MayCite(U, u, t)
<1> SUFFICES ASSUME t \in Labels, Level # 0
             PROVE  ProofToken(u, t) = "ok" <=> MayCite(U, u, t)
  BY DEF ProofToken, MayCite
<1>1. DOMAIN units = 1..Len(units) /\ \A w \in U : \E a \in 1..Len(units) : w = units[a]
  BY DEF UnitsOK, U, ToSet
<1>2. CASE t \notin DOMAIN label_defs
  <2>1. \A w \in U : t \notin OwnLabels(w)
    BY <1>1, <1>2 DEF Indexed
  <2>2. ~MayCite(U, u, t)
    BY <2>1 DEF MayCite, OwnLabels
  <2>3. ProofToken(u, t) # "ok"
    BY <1>2 DEF ProofToken
  <2>4. QED
    BY <2>2, <2>3
<1>3. CASE t \in DOMAIN label_defs
  <2>1. PICK x \in 1..Len(units) : t \in OwnLabels(units[x])
    BY <1>3 DEF Indexed
  <2>2. PICK v \in U : v = units[x]
    BY <1>1, <2>1 DEF U, ToSet
  <2>3. PICK j \in Labelled(v) : v.stmts[j].label = t
    BY <2>1, <2>2 DEF OwnLabels
  <2>4. label_defs[t] = [owner |-> v.id, kind |-> v.kind, class |-> v.stmts[j].op]
    BY <2>2, <2>3 DEF Indexed
  <2>5. UnitOf(v.id) = v /\ (v.id = u.id <=> v = u)
    BY IdsOf DEF U
  <2>6. ASSUME NEW w \in U, NEW n \in Labelled(w), w.stmts[n].label = t PROVE w = v /\ n = j
    BY <2>3, <2>6, LabelsDiffer
  <2>7. CASE v = u
    <3>1. MayCite(U, u, t)
      BY <2>3, <2>7 DEF MayCite, OwnLabels
    <3>2. ProofToken(u, t) = "ok"
      BY <1>3, <2>4, <2>7 DEF ProofToken
    <3>3. QED
      BY <3>1, <3>2
  <2>8. CASE v # u
    <3> DEFINE Lent == t \in v.exports /\ v.stmts[j].op # "e" /\ (v.stmts[j].op = "f" => IsFoundation(v))
    <3>1. ProofToken(u, t) = CrossUnit(label_defs[t], t \in v.exports)
      BY <1>3, <2>4, <2>5, <2>8 DEF ProofToken
    <3>2. CrossUnit(label_defs[t], t \in v.exports) = "ok" <=> Lent
      BY <2>4 DEF CrossUnit, IsFoundation
    <3>3. t \notin OwnLabels(u)
      BY <2>6, <2>8 DEF OwnLabels
    <3>4. MayCite(U, u, t) <=> Lent
      BY <2>3, <2>6, <3>3 DEF MayCite
    <3>5. QED
      BY <3>1, <3>2, <3>4
  <2>9. QED
    BY <2>7, <2>8
<1>4. QED
  BY <1>2, <1>3

LEMMA CleanIs ==
    ASSUME UnitsOK, Indexed(Len(units)), NEW u \in U
    PROVE  Clean(u) <=> \A st \in ToSet(u.stmts) :
              WellKinded(st) /\ (st.op = "p" => \A l \in TokensOf(st.proof) : MayCite(U, u, l))
BY TokenIsCited DEF Clean

\* An edge of the graph is an export that is cited, and what is cited of an export is
\* an edge: no two units export the same label.
LEMMA EdgeIsCited ==
    ASSUME UnitsOK, NEW u \in U, NEW id \in DependsOn(u)
    PROVE  \E v \in U \ {u} : v.id = id /\ Cited(u) \cap v.exports # {}
<1>1. PICK l \in Cited(u) : Exporters(l) # {} /\ id = LabelOwner(l)
  BY DEF DependsOn
<1>2. PICK n \in Exporters(l) : LabelOwner(l) = units[n].id /\ n \in 1..Len(units)
  BY <1>1, OwnerIs
<1>3. units[n] \in U /\ l \in units[n].exports
  BY <1>2, IdsOf DEF U, Exporters
<1>4. id # u.id
  BY DEF DependsOn
<1>5. QED
  BY <1>1, <1>2, <1>3, <1>4

LEMMA CitedIsEdge ==
    ASSUME ExportsOwn, UnitsOK, Indexed(Len(units)), NEW u \in U, Clean(u),
           NEW v \in U, v # u, NEW l \in Cited(u), l \in v.exports
    PROVE  v.id \in DependsOn(u)
<1>1. l \in Labels
  <2>1. PICK st \in ToSet(u.stmts) : st.op = "p" /\ l \in TokensOf(st.proof)
    BY DEF Cited
  <2>2. MayCite(U, u, l)
    BY <2>1, CleanIs
  <2>3. QED
    BY <2>2 DEF MayCite
<1>2. DOMAIN units = 1..Len(units) /\ \E x \in 1..Len(units) : v = units[x]
  BY DEF UnitsOK, U, ToSet
<1>3. Exporters(l) # {}
  BY <1>2 DEF Exporters
<1>4. PICK n \in Exporters(l) : LabelOwner(l) = units[n].id /\ n \in 1..Len(units)
  BY <1>3, OwnerIs
<1>5. units[n] \in U /\ units[n] \in Catalogue /\ v \in Catalogue /\ l \in units[n].exports
  BY <1>4, IdsOf DEF U, Exporters
<1>6. l \in OwnLabels(units[n]) /\ l \in OwnLabels(v)
  BY <1>1, <1>5 DEF ExportsOwn
<1>7. units[n] = v
  BY <1>5, <1>6, LabelsDiffer DEF OwnLabels
<1>8. v.id # u.id
  BY IdsOf DEF U
<1>9. QED
  BY <1>3, <1>4, <1>7, <1>8 DEF DependsOn

\* A circle among the ids of the graph is one among the units, and the converse.
LEMMA CycleOfUnits ==
    ASSUME UnitsOK, graph = [id \in IdSet |-> DependsOn(UnitOf(id))], Cyclic
    PROVE  ~Linkable(U)
<1>1. PICK S \in SUBSET IdSet : S # {} /\ \A id \in S : graph[id] \cap S # {}
  BY DEF Cyclic, IdSet
<1> DEFINE T == {UnitOf(id) : id \in S}
<1>2. \A id \in S : UnitOf(id) \in U /\ UnitOf(id).id = id
  BY <1>1, IdsOf DEF U
<1>3. T \in SUBSET U /\ T # {}
  BY <1>1, <1>2
<1>4. ASSUME NEW u \in T PROVE \E v \in T \ {u} : Cited(u) \cap v.exports # {}
  <2>1. PICK id \in S : u = UnitOf(id)
    OBVIOUS
  <2>2. PICK d \in S : d \in DependsOn(u)
    BY <1>1, <2>1
  <2>3. PICK v \in U \ {u} : v.id = d /\ Cited(u) \cap v.exports # {}
    BY <1>3, <2>2, EdgeIsCited
  <2>4. v = UnitOf(d)
    BY <2>3, IdsOf DEF U
  <2>5. QED
    BY <2>3, <2>4
<1> HIDE DEF T
<1>5. QED
  BY <1>3, <1>4 DEF Linkable

LEMMA UnitsOfCycle ==
    ASSUME ExportsOwn, LinkedOK, NEW S \in SUBSET U, S # {},
           \A u \in S : \E v \in S \ {u} : Cited(u) \cap v.exports # {}
    PROVE  Cyclic
<1> DEFINE T == {u.id : u \in S}
<1>1. UnitsOK /\ Indexed(Len(units)) /\ graph = [id \in IdSet |-> DependsOn(UnitOf(id))]
  BY DEF LinkedOK
<1>2. \A u \in U : u.id \in IdSet /\ UnitOf(u.id) = u
  BY <1>1, IdsOf DEF U
<1>3. T \in SUBSET ToSet(Ids) /\ T # {}
  BY <1>2 DEF IdSet
<1>4. \A u \in U : Clean(u)
  BY <1>1 DEF LinkedOK, Passed, U, ToSet, UnitsOK
<1>5. ASSUME NEW id \in T PROVE graph[id] \cap T # {}
  <2>1. PICK u \in S : id = u.id
    OBVIOUS
  <2>2. PICK v \in S \ {u} : Cited(u) \cap v.exports # {}
    OBVIOUS
  <2>3. v.id \in DependsOn(u)
    BY <1>1, <1>4, <2>2, CitedIsEdge
  <2>4. graph[id] = DependsOn(u)
    BY <1>1, <1>2, <2>1
  <2>5. QED
    BY <2>2, <2>3, <2>4
<1> HIDE DEF T
<1>6. QED
  BY <1>3, <1>5 DEF Cyclic

\* What is refused could not be linked: one lemma for each pass that raises.
VerdictInv == pc = "failed" => ~Linkable(U)

LEMMA FoundationsRefused == ASSUME SortInv, LinkInv, CheckFoundations PROVE VerdictInv'
<1> DEFINE S == {n \in DOMAIN units : IsFoundation(units[n])}
<1>1. UnitsOK /\ U' = U /\ DOMAIN units = 1..Len(units) /\ Len(units) \in Nat
  BY DEF SortInv, CheckFoundations, Raise, U, UnitsOK
<1>2. CASE Cardinality(S) > 1
  <2>1. PICK a \in S, b \in S : a # b
    <3>1. S \subseteq 1..Len(units) /\ IsFiniteSet(1..Len(units))
      BY <1>1, FS_Interval
    <3> HIDE DEF S
    <3>2. IsFiniteSet(S)
      BY <3>1, FS_Subset
    <3>3. S = {} => Cardinality(S) = 0
      BY FS_EmptySet
    <3>4. ASSUME NEW a \in S, S = {a} PROVE Cardinality(S) = 1
      BY <3>4, FS_Singleton
    <3>5. QED
      BY <1>2, <3>3, <3>4
  <2>2. units[a] \in U /\ units[b] \in U /\ units[a] # units[b]
    BY <1>1, <2>1 DEF U, ToSet, UnitsOK, NoRepeat
  <2>3. ~Linkable(U)
    BY <2>1, <2>2 DEF Linkable
  <2>4. QED
    BY <1>1, <2>3 DEF VerdictInv
<1>3. CASE ~(Cardinality(S) > 1)
  BY <1>3 DEF CheckFoundations, VerdictInv
<1>4. QED
  BY <1>2, <1>3

LEMMA UnitRefused == ASSUME SortInv, LinkInv, IndexUnit PROVE VerdictInv'
<1> DEFINE u == units[i]
<1>1. UnitsOK /\ U' = U /\ DOMAIN units = 1..Len(units) /\ Len(units) \in Nat
      /\ i \in 1..Len(units) /\ Indexed(i - 1) /\ u \in U
  BY IdsOf DEF SortInv, LinkInv, IndexUnit, Raise, Advance, U, UnitsOK
<1>2. CASE Redefines(u)
  <2>1. \E v \in U : \E m \in Labelled(u), n \in Labelled(v) :
           u.stmts[m].label = v.stmts[n].label /\ ~(u = v /\ m = n)
    <3>1. CASE OwnLabels(u) \cap DOMAIN label_defs # {}
      <4>1. PICK l \in OwnLabels(u) : l \in DOMAIN label_defs
        BY <3>1
      <4>2. PICK a \in 1 .. i - 1 : l \in OwnLabels(units[a])
        BY <1>1, <4>1 DEF Indexed
      <4>3. units[a] \in U /\ units[a] # u
        BY <1>1, <4>2 DEF U, ToSet, UnitsOK, NoRepeat
      <4>4. PICK m \in Labelled(u) : l = u.stmts[m].label
        BY <4>1 DEF OwnLabels
      <4>5. PICK n \in Labelled(units[a]) : l = units[a].stmts[n].label
        BY <4>2 DEF OwnLabels
      <4>6. QED
        BY <4>3, <4>4, <4>5
    <3>2. CASE \E m, n \in Labelled(u) : m # n /\ u.stmts[m].label = u.stmts[n].label
      BY <1>1, <3>2
    <3>3. QED
      BY <1>2, <3>1, <3>2 DEF Redefines
  <2>2. ~Linkable(U)
    BY <1>1, <2>1 DEF Linkable
  <2>3. QED
    BY <1>1, <2>2 DEF VerdictInv
<1>3. CASE ~Redefines(u)
  BY <1>3 DEF IndexUnit, Advance, VerdictInv
<1>4. QED
  BY <1>2, <1>3

LEMMA CheckRefused == ASSUME SortInv, LinkInv, CheckUnit PROVE VerdictInv'
<1>1. UnitsOK /\ U' = U /\ pc = "check" /\ i \in 1..Len(units) /\ Indexed(Len(units)) /\ units[i] \in U
  <2>1. UnitsOK /\ pc = "check" /\ i \in 1..Len(units) /\ Indexed(Len(units))
    BY DEF SortInv, LinkInv, CheckUnit
  <2>2. units' = units
    BY <2>1, ChecksDone DEF Raise, Advance
  <2>3. QED
    BY <2>1, <2>2, IdsOf DEF U
<1>2. CASE Clean(units[i])
  <2>1. pc' # "failed"
    BY <1>1, <1>2, ChecksDone DEF Advance
  <2>2. QED
    BY <2>1 DEF VerdictInv
<1>3. CASE ~Clean(units[i])
  <2>1. ~Linkable(U)
    BY <1>1, <1>3, CleanIs DEF Linkable
  <2>2. QED
    BY <1>1, <2>1 DEF VerdictInv
<1>4. QED
  BY <1>2, <1>3

LEMMA SortRefused == ASSUME SortInv, LinkInv, SortEnd PROVE VerdictInv'
<1>1. UnitsOK /\ U' = U /\ graph = [id \in IdSet |-> DependsOn(UnitOf(id))]
  BY DEF SortInv, LinkInv, Stages, SortEnd, Raise, U
<1>2. CASE Len(order) < Len(units)
  <2>1. err' = "E_DEPENDENCY_CYCLE" /\ graph' = graph /\ units' = units
    BY <1>2 DEF SortEnd, Raise, sort_vars
  <2>2. Cyclic'
    BY <2>1, SortEnded DEF SortInv
  <2>3. Cyclic
    BY <2>1, <2>2 DEF Cyclic, Ids
  <2>4. QED
    BY <1>1, <2>3, CycleOfUnits DEF VerdictInv
<1>3. CASE ~(Len(order) < Len(units))
  BY <1>3 DEF SortEnd, VerdictInv
<1>4. QED
  BY <1>2, <1>3

\* Stage 3 has accepted the $d before the statement that the scan is at.
SeparatesIn(m, j) == ~Refused(Linked[m].stmts[j])
Separated ==
    /\ pc \notin Sorted \cup {"failed"} => k = 1
    /\ pc \in {"prepare", "sort"} => i = 1
    /\ pc = "contracts" =>
          /\ i \in 1..Len(Linked) /\ k \in 1 .. Len(Linked[i].stmts) + 1
          /\ \A m \in 1..Len(Linked) : \A j \in 1..Len(Linked[m].stmts) :
                m < i \/ (m = i /\ j < k) => SeparatesIn(m, j)
    /\ pc \in {"plan", "done"} =>
          \A m \in 1..Len(Linked) : \A j \in 1..Len(Linked[m].stmts) : SeparatesIn(m, j)

LEMMA ScanRefused == ASSUME SortInv, LinkInv, Separated, ScanRefuses PROVE VerdictInv'
<1>1. pc = "contracts" /\ LinkedOK /\ U' = U
  BY DEF ScanRefuses, Raise, SortInv, LinkInv, Stages, Sorted, LinkedOK, U
<1>2. i \in 1..Len(Linked) /\ k \in 1 .. Len(Linked[i].stmts) + 1 /\ k <= Len(Linked[i].stmts)
  BY <1>1 DEF Separated, ScanRefuses
<1>3. PICK u : u = Linked[i]
  OBVIOUS
<1>4. u \in U /\ u \in Catalogue /\ Len(u.stmts) \in Nat /\ DOMAIN u.stmts = 1..Len(u.stmts)
  BY <1>1, <1>2, <1>3, TextLaid, WrappedIs DEF U
<1>5. k \in DOMAIN u.stmts
  BY <1>2, <1>3, <1>4
<1>6. u.stmts[k] \in ToSet(u.stmts) /\ u.stmts[k].op = "d" /\ ~Separable(u.stmts[k].vars)
  BY <1>3, <1>5 DEF ScanRefuses, Refused, ToSet
<1>7. ~Linkable(U)
  BY <1>4, <1>6 DEF Linkable
<1>8. QED
  BY <1>1, <1>7 DEF VerdictInv

LEMMA VerdictStep == SortInv /\ LinkInv /\ Separated /\ VerdictInv /\ [Next]_vars => VerdictInv'
<1> SUFFICES ASSUME SortInv, LinkInv, Separated, VerdictInv, [Next]_vars PROVE VerdictInv'
  OBVIOUS
<1>1. CASE BuildGraph \/ AddNode \/ Prepare \/ SortGroup \/ ScanStatement \/ ScanUnitEnd \/ Plan
  <2>1. pc' # "failed"
    BY <1>1 DEF BuildGraph, AddNode, Prepare, SortGroup, ScanStatement, ScanUnitEnd, Plan, Advance
  <2>2. QED
    BY <2>1 DEF VerdictInv
<1>2. CASE UNCHANGED vars
  BY <1>2 DEF vars, VerdictInv, U
<1>3. QED
  BY <1>1, <1>2, FoundationsRefused, UnitRefused, CheckRefused, SortRefused, ScanRefused DEF Next

LEMMA SeparatedScan ==
    ASSUME SortInv, LinkInv, Separated, ScanStatement \/ ScanUnitEnd
    PROVE  Separated'
<1>1. pc = "contracts" /\ LinkedOK /\ units' = units /\ order' = order
  BY DEF ScanStatement, ScanUnitEnd, Advance, sort_vars, SortInv, LinkInv, Stages, Sorted, LinkedOK
<1>2. /\ i \in 1..Len(Linked) /\ k \in 1 .. Len(Linked[i].stmts) + 1 /\ Len(Linked) \in Nat
      /\ \A m \in 1..Len(Linked) : \A j \in 1..Len(Linked[m].stmts) :
            m < i \/ (m = i /\ j < k) => SeparatesIn(m, j)
  BY <1>1, LinkedIs DEF Separated, LinkedOK
<1>3. Linked' = Linked
  <2>1. \A id : UnitOf(id)' = UnitOf(id)
    BY <1>1 DEF UnitOf
  <2>2. QED
    BY <1>1, <2>1 DEF Linked
<1>4. \A m, j : SeparatesIn(m, j)' = SeparatesIn(m, j)
  BY <1>3 DEF SeparatesIn
<1>5. \A m \in 1..Len(Linked) : Len(Linked[m].stmts) \in Nat
  BY <1>1, TextLaid, WrappedIs
<1>6. CASE ScanStatement
  <2>1. pc' = "contracts" /\ i' = i /\ k' = k + 1 /\ k <= Len(Linked[i].stmts) /\ SeparatesIn(i, k)
    BY <1>1, <1>6 DEF ScanStatement, SeparatesIn
  <2>2. i' \in 1..Len(Linked') /\ k' \in 1 .. Len((Linked[i]).stmts)' + 1
    BY <1>2, <1>3, <1>5, <2>1
  <2>3. ASSUME NEW m \in 1..Len(Linked), NEW j \in 1..Len(Linked[m].stmts), m < i \/ (m = i /\ j < k + 1)
        PROVE  SeparatesIn(m, j)
    <3>1. j \in Int /\ k \in Int
      BY <1>2, <1>5
    <3>2. (m < i \/ (m = i /\ j < k)) \/ (m = i /\ j = k)
      BY <2>3, <3>1
    <3>3. QED
      BY <1>2, <2>1, <3>2
  <2>4. QED
    BY <1>3, <1>4, <2>1, <2>2, <2>3 DEF Separated, Sorted
<1>7. CASE ScanUnitEnd
  <2>1. /\ k' = 1 /\ k > Len(Linked[i].stmts)
        /\ i' = IF i = Len(Linked) THEN 1 ELSE i + 1
        /\ pc' = IF i = Len(Linked) THEN "plan" ELSE pc
    BY <1>7 DEF ScanUnitEnd, Advance
  <2>2. ASSUME NEW m \in 1..Len(Linked), NEW j \in 1..Len(Linked[m].stmts), m <= i
        PROVE  SeparatesIn(m, j)
    <3>1. m < i \/ (m = i /\ j < k)
      BY <1>2, <1>5, <2>1, <2>2
    <3>2. QED
      BY <1>2, <3>1
  <2>3. CASE i = Len(Linked)
    <3>1. pc' = "plan" /\ \A m \in 1..Len(Linked) : m <= i
      BY <1>2, <2>1, <2>3
    <3>2. QED
      BY <1>3, <1>4, <2>2, <3>1 DEF Separated, Sorted
  <2>4. CASE i # Len(Linked)
    <3>1. pc' = "contracts" /\ i' = i + 1 /\ i' \in 1..Len(Linked)
      BY <1>1, <1>2, <2>1, <2>4
    <3>2. k' \in 1 .. Len(Linked[i'].stmts) + 1
      BY <1>5, <2>1, <3>1
    <3>3. ASSUME NEW m \in 1..Len(Linked), NEW j \in 1..Len(Linked[m].stmts), m < i' \/ (m = i' /\ j < k')
          PROVE  SeparatesIn(m, j)
      <4>1. m <= i
        BY <1>2, <1>5, <2>1, <3>1, <3>3
      <4>2. QED
        BY <2>2, <4>1
    <3>4. QED
      BY <1>3, <1>4, <3>1, <3>2, <3>3 DEF Separated, Sorted
  <2>5. QED
    BY <2>3, <2>4
<1>8. QED
  BY <1>6, <1>7

LEMMA SeparatedStep == SortInv /\ LinkInv /\ Separated /\ [Next]_vars => Separated'
<1> SUFFICES ASSUME SortInv, LinkInv, Separated, [Next]_vars PROVE Separated'
  OBVIOUS
<1>1. CASE ScanStatement \/ ScanUnitEnd
  BY <1>1, SeparatedScan
<1>2. CASE ScanRefuses
  BY <1>2 DEF ScanRefuses, Raise, Separated, Sorted
<1>3. CASE CheckFoundations \/ IndexUnit \/ CheckUnit \/ BuildGraph
  <2>1. /\ pc \in {"foundations", "index", "check", "graph"} /\ k' = k
        /\ pc' \in {"foundations", "index", "check", "graph", "nodes", "failed"}
    <3>1. CASE CheckUnit
      <4>1. i \in 1..Len(units) /\ UnitsOK
        BY <3>1 DEF SortInv, CheckUnit
      <4>2. QED
        BY <3>1, <4>1, ChecksDone DEF Raise, Advance
    <3>2. CASE ~CheckUnit
      BY <1>3, <3>2 DEF CheckFoundations, IndexUnit, BuildGraph, Raise, Advance
    <3>3. QED
      BY <3>1, <3>2
  <2>2. QED
    BY <2>1 DEF Separated, Sorted
<1>4. CASE AddNode \/ Prepare \/ SortGroup
  <2>1. /\ pc \in {"nodes", "prepare", "sort"} /\ pc' \in {"nodes", "prepare", "sort"} /\ k' = k
        /\ pc' \in {"prepare", "sort"} => i' = 1
    BY <1>4 DEF AddNode, Prepare, SortGroup, Advance, Separated
  <2>2. QED
    BY <2>1 DEF Separated, Sorted
<1>5. CASE SortEnd
  <2>1. pc = "sort" /\ pc' \in {"failed", "contracts"} /\ i' = 1 /\ k' = 1
    BY <1>5 DEF SortEnd, Raise, Separated, Sorted
  <2>2. CASE pc' = "failed"
    BY <2>2 DEF Separated, Sorted
  <2>3. CASE pc' = "contracts"
    <3>1. LinkedOK'
      <4>1. SortInv' /\ LinkInv'
        BY <1>5, SortEnded, LinkElsewhere
      <4>2. QED
        BY <2>3, <4>1 DEF SortInv, LinkInv, Stages, Sorted, LinkedOK
    <3>2. Linked' = Linked /\ LinkedOK
      <4>1. units' = units /\ order' = order /\ label_defs' = label_defs /\ graph' = graph
        BY <1>5 DEF SortEnd, Raise, sort_vars
      <4>2. \A id : UnitOf(id)' = UnitOf(id)
        BY <4>1 DEF UnitOf
      <4>3. Linked' = Linked
        BY <4>1, <4>2 DEF Linked
      <4>4. /\ UnitsOK /\ OneFoundation /\ Indexed(Len(units)) /\ Passed(Len(units))
            /\ graph = [id \in IdSet |-> DependsOn(UnitOf(id))] /\ OrderOK
        BY <2>1 DEF SortInv, LinkInv, Stages
      <4>5. IdSet' = IdSet
        BY <4>1 DEF IdSet, Ids
      <4>6. ToSet(order) = IdSet
        BY <3>1, <4>1, <4>5 DEF LinkedOK
      <4>7. QED
        BY <4>3, <4>4, <4>6 DEF LinkedOK
    <3>3. 1 \in 1..Len(Linked)
      <4>1. ToSet(Linked) = ToSet(units) /\ Len(Linked) \in Nat /\ DOMAIN Linked = 1..Len(Linked)
            /\ UnitsOK
        BY <3>2, LinkedIs DEF LinkedOK
      <4>2. 1 \in DOMAIN units
        BY <4>1 DEF UnitsOK
      <4>3. units[1] \in ToSet(units)
        BY <4>2 DEF ToSet
      <4>4. QED
        BY <4>1, <4>3 DEF ToSet
    <3>4. Len(Linked[1].stmts) \in Nat /\ \A m \in 1..Len(Linked) : Len(Linked[m].stmts) \in Nat
      BY <3>2, <3>3, TextLaid, WrappedIs
    <3>5. i' \in 1..Len(Linked)' /\ k' \in 1 .. Len((Linked[i]).stmts)' + 1
      BY <2>1, <3>2, <3>3, <3>4
    <3>6. ~ \E m \in 1..Len(Linked) : \E j \in 1..Len(Linked[m].stmts) : m < 1 \/ (m = 1 /\ j < 1)
      BY <3>4
    <3>7. QED
      BY <2>1, <2>3, <3>2, <3>5, <3>6 DEF Separated, Sorted
  <2>4. QED
    BY <2>1, <2>2, <2>3
<1>6. CASE Plan \/ UNCHANGED vars
  <2>1. /\ units' = units /\ order' = order /\ k' = k
        /\ (Plan => pc = "plan" /\ pc' = "done") /\ (UNCHANGED vars => pc' = pc /\ i' = i)
    BY <1>6 DEF Plan, sort_vars, scan_vars, vars
  <2>2. Linked' = Linked
    <3>1. \A id : UnitOf(id)' = UnitOf(id)
      BY <2>1 DEF UnitOf
    <3>2. QED
      BY <2>1, <3>1 DEF Linked
  <2>3. \A m, j : SeparatesIn(m, j)' = SeparatesIn(m, j)
    BY <2>2 DEF SeparatesIn
  <2>4. CASE Plan
    BY <2>1, <2>2, <2>3, <2>4 DEF Separated, Sorted
  <2>5. CASE UNCHANGED vars
    BY <2>1, <2>2, <2>3, <2>5 DEF Separated
  <2>6. QED
    BY <1>6, <2>4, <2>5
<1>7. QED
  BY <1>1, <1>2, <1>3, <1>4, <1>5, <1>6 DEF Next

LEMMA AllSeparated ==
    ASSUME LinkedOK, Separated, Done, NEW u \in U, NEW st \in ToSet(u.stmts), st.op = "d"
    PROVE  Separable(st.vars)
<1>1. u \in ToSet(Linked) /\ DOMAIN Linked = 1..Len(Linked)
  BY LinkedIs DEF LinkedOK, U
<1>2. PICK m \in 1..Len(Linked) : u = Linked[m]
  BY <1>1 DEF ToSet
<1>3. DOMAIN u.stmts = 1..Len(u.stmts)
  BY <1>2, TextLaid, WrappedIs
<1>4. PICK j \in 1..Len(u.stmts) : st = u.stmts[j]
  BY <1>3 DEF ToSet
<1>5. ~Refused(u.stmts[j])
  BY <1>2, <1>4 DEF Separated, SeparatesIn, Done
<1>6. QED
  BY <1>4, <1>5 DEF Refused

\* What is linked can be linked.
LEMMA LinkedIsLinkable == ASSUME ExportsOwn, LinkedOK, Separated, Done PROVE Linkable(U)
<1>1. /\ UnitsOK /\ OneFoundation /\ OrderOK /\ ToSet(order) = IdSet
      /\ Indexed(Len(units)) /\ Passed(Len(units)) /\ DOMAIN units = 1..Len(units)
  BY DEF LinkedOK, UnitsOK
<1>2. \A u \in U : \E a \in 1..Len(units) : u = units[a]
  BY <1>1 DEF U, ToSet
<1>3. \A u, v \in U : IsFoundation(u) /\ IsFoundation(v) => u = v
  BY <1>1, <1>2 DEF OneFoundation
<1>4. \A u, v \in U : \A m \in Labelled(u), n \in Labelled(v) :
         u.stmts[m].label = v.stmts[n].label => u = v /\ m = n
  BY <1>1, LabelsDiffer
<1>5. \A u \in U : \A st \in ToSet(u.stmts) :
         WellKinded(st) /\ (st.op = "p" => \A l \in TokensOf(st.proof) : MayCite(U, u, l))
  <2>1. \A u \in U : Clean(u)
    BY <1>1, <1>2 DEF Passed
  <2>2. QED
    BY <1>1, <2>1, CleanIs
<1>6. ~ \E S \in SUBSET U :
         S # {} /\ \A u \in S : \E v \in S \ {u} : Cited(u) \cap v.exports # {}
  BY <1>1, SortedAcyclic, UnitsOfCycle
<1>7. \A u \in U : \A st \in ToSet(u.stmts) : st.op = "d" => Separable(st.vars)
  BY AllSeparated
<1>8. QED
  BY <1>3, <1>4, <1>5, <1>6, <1>7 DEF Linkable

\* Stage 1 checks foundations, labels and references in three sweeps over the list,
\* stage 4 sorts what is left, stage 3 raises at the first $d of the sorted units that
\* is not of different variables, and the first fault met stops the build.  Whether a
\* build succeeds is nevertheless a matter of the set of units alone, for units
\* that export labels of their own.
THEOREM VerdictIsOfTheSet == ASSUME ExportsOwn PROVE Spec => []LinksIfLinkable
<1>1. SortInv /\ LinkInv /\ Separated /\ VerdictInv => LinksIfLinkable
  <2>1. ASSUME SortInv, LinkInv, Separated, Done PROVE Linkable(U)
    BY <2>1, DoneFacts, LinkedIsLinkable
  <2>2. QED
    BY <2>1 DEF LinksIfLinkable, VerdictInv, U
<1>2. Init => VerdictInv /\ Separated
  BY DEF Init, VerdictInv, Separated, Sorted
<1>3. QED
  BY <1>1, <1>2, InitSort, SortStep, InitLink, LinkStep, VerdictStep, SeparatedStep, PTL DEF Spec

-----------------------------------------------------------------------------
(* The frames of a text, for the scans of stages 2 and 3 *)

\* the statements of kind op in scope before statement q, in blocks less than d deep
Live(s, q, op, d) == {j \in 1..Len(s) : s[j].op = op /\ InScope(s, j, q) /\ Depth(s, j) < d}
LiveD(s, q, d) == UNION {PairsOf(s[j].vars) : j \in Live(s, q, "d", d)}
FrameAt(s, q, d) == [f |-> At(s, Live(s, q, "f", d)), e |-> At(s, Live(s, q, "e", d)), d |-> LiveD(s, q, d)]

\* all that is in scope before statement q
NowAt(s, q) == FrameAt(s, q, Depth(s, q - 1) + 1)

\* Once statement q was read, it is in scope; the rest is what was, in the blocks
\* that are still open.
LEMMA LiveNext ==
    ASSUME NEW s, Len(s) \in Nat, NEW q \in 1..Len(s), NEW d \in Int, d <= Depth(s, q) + 1, NEW op
    PROVE  /\ Live(s, q + 1, op, d) = IF s[q].op = op /\ d = Depth(s, q) + 1
                                      THEN Live(s, q, op, d) \cup {q} ELSE Live(s, q, op, d)
           /\ Live(s, q, op, d) \subseteq 1 .. q - 1
<1>1. q \in Nat \ {0} /\ Depth(s, q) \in Int
  BY DepthType
<1>2. \A j \in 1 .. q - 1 : Depth(s, j) \in Int
  BY DepthType
<1>3. Live(s, q, op, d) \subseteq 1 .. q - 1 /\ Live(s, q + 1, op, d) \subseteq 1..q
  BY DEF Live, InScope
<1>4. ASSUME NEW j \in 1 .. q - 1 PROVE j \in Live(s, q + 1, op, d) <=> j \in Live(s, q, op, d)
  <2>1. InScope(s, j, q + 1) <=> InScope(s, j, q) /\ Depth(s, q) >= Depth(s, j)
    BY <1>1, InScopeNext
  <2>2. Depth(s, j) < d => Depth(s, q) >= Depth(s, j)
    BY <1>1, <1>2
  <2>3. QED
    BY <2>1, <2>2 DEF Live
<1>5. q \in Live(s, q + 1, op, d) <=> s[q].op = op /\ d = Depth(s, q) + 1
  <2>1. InScope(s, q, q + 1)
    BY <1>1, InScopeNext
  <2>2. Depth(s, q) < d <=> d = Depth(s, q) + 1
    BY <1>1
  <2>3. QED
    BY <2>1, <2>2 DEF Live
<1>6. 1..q = 1 .. q - 1 \cup {q}
  OBVIOUS
<1>7. QED
  <2> DEFINE new == Live(s, q + 1, op, d)
             old == Live(s, q, op, d)
  <2>1. new \subseteq 1..q /\ old \subseteq 1 .. q - 1 /\ q \notin old
    BY <1>3
  <2>2. \A j \in 1 .. q - 1 : j \in new <=> j \in old
    BY <1>4
  <2>3. q \in new <=> s[q].op = op /\ d = Depth(s, q) + 1
    BY <1>5
  <2> HIDE DEF new, old
  <2>4. new = IF q \in new THEN old \cup {q} ELSE old
    <3>1. ASSUME NEW x PROVE x \in new <=> x \in old \/ (x = q /\ q \in new)
      BY <1>6, <2>1, <2>2
    <3>2. QED
      BY <3>1
  <2>5. QED
    BY <2>1, <2>3, <2>4 DEF new, old

\* Nothing in scope is deeper than the block that is open.
LEMMA LiveAll ==
    ASSUME NEW s, NEW q \in Nat \ {0}, NEW d \in Int, d >= Depth(s, q - 1) + 1, NEW op
    PROVE  Live(s, q, op, d) = {j \in 1..Len(s) : s[j].op = op /\ InScope(s, j, q)}
<1>1. ASSUME NEW j \in 1..Len(s), InScope(s, j, q) PROVE Depth(s, j) < d
  <2>1. j \in 1 .. q - 1
    BY <1>1 DEF InScope
  <2>2. Depth(s, j) <= Depth(s, q - 1) /\ Depth(s, j) \in Int
    BY <1>1, <2>1, InScopeOrder, DepthType
  <2>3. Depth(s, q - 1) \in Int
    <3>1. q - 1 \in Nat
      OBVIOUS
    <3>2. QED
      BY <3>1, DepthType
  <2>4. QED
    BY <2>2, <2>3
<1>2. QED
  BY <1>1 DEF Live

\* The statements of outer blocks are left alone.
LEMMA FrameStays ==
    ASSUME NEW s, Len(s) \in Nat, NEW q \in 1..Len(s), NEW d \in Int, d <= Depth(s, q) + 1,
           s[q].op \notin {"f", "e", "d"} \/ d <= Depth(s, q)
    PROVE  FrameAt(s, q + 1, d) = FrameAt(s, q, d)
<1>1. Depth(s, q) \in Int
  BY DepthType
<1>2. ASSUME NEW op \in {"f", "e", "d"} PROVE Live(s, q + 1, op, d) = Live(s, q, op, d)
  <2>1. ~(s[q].op = op /\ d = Depth(s, q) + 1)
    BY <1>1
  <2>2. QED
    BY <2>1, LiveNext
<1>3. QED
  BY <1>2 DEF FrameAt, LiveD

\* What a statement does to the frame, said by position.
LEMMA NowNext ==
    ASSUME NEW X, NEW s \in Seq(X), NEW q \in 1..Len(s)
    PROVE  LET st == s[q]
               now == NowAt(s, q)
           IN  NowAt(s, q + 1) = CASE st.op = "exit" -> FrameAt(s, q, Depth(s, q - 1))
                                   [] st.op = "f" -> [now EXCEPT !.f = Append(@, st)]
                                   [] st.op = "e" -> [now EXCEPT !.e = Append(@, st)]
                                   [] st.op = "d" -> [now EXCEPT !.d = @ \cup PairsOf(st.vars)]
                                   [] OTHER -> now
<1> DEFINE st == s[q]
           now == NowAt(s, q)
           D == Depth(s, q)
           C == Depth(s, q - 1)
<1>1. Len(s) \in Nat /\ q \in Nat \ {0} /\ (q + 1) - 1 = q /\ q - 1 \in Nat
  OBVIOUS
<1>2. D \in Int /\ C \in Int
  BY <1>1, DepthType
<1>3. D = CASE st.op = "enter" -> C + 1 [] st.op = "exit" -> C - 1 [] OTHER -> C
  BY <1>1, DepthNext
<1>4. NowAt(s, q + 1) = FrameAt(s, q + 1, D + 1) /\ now = FrameAt(s, q, C + 1)
  BY <1>1 DEF NowAt
<1>5. CASE st.op \notin {"f", "e", "d"}
  <2>1. NowAt(s, q + 1) = FrameAt(s, q, D + 1)
    BY <1>1, <1>2, <1>4, <1>5, FrameStays
  <2>2. CASE st.op = "exit"
    <3>1. D + 1 = C
      BY <1>2, <1>3, <2>2
    <3>2. QED
      BY <2>1, <2>2, <3>1
  <2>3. CASE st.op = "enter"
    <3>1. D + 1 >= C + 1 /\ D + 1 \in Int
      BY <1>2, <1>3, <2>3
    <3>2. \A op : Live(s, q, op, D + 1) = {j \in 1..Len(s) : s[j].op = op /\ InScope(s, j, q)}
      BY <1>1, <3>1, LiveAll
    <3>3. \A op : Live(s, q, op, C + 1) = {j \in 1..Len(s) : s[j].op = op /\ InScope(s, j, q)}
      BY <1>1, <1>2, LiveAll
    <3>4. FrameAt(s, q, D + 1) = FrameAt(s, q, C + 1)
      BY <3>2, <3>3 DEF FrameAt, LiveD
    <3>5. QED
      BY <1>4, <2>1, <2>3, <3>4
  <2>4. CASE st.op \notin {"enter", "exit"}
    BY <1>3, <1>4, <1>5, <2>1, <2>4
  <2>5. QED
    BY <2>2, <2>3, <2>4
<1>6. CASE st.op \in {"f", "e", "d"}
  <2>1. D = C
    BY <1>3, <1>6
  <2>2. ASSUME NEW op
        PROVE  /\ Live(s, q + 1, op, C + 1) = IF st.op = op THEN Live(s, q, op, C + 1) \cup {q}
                                               ELSE Live(s, q, op, C + 1)
               /\ Live(s, q, op, C + 1) \subseteq 1 .. q - 1
    <3> DEFINE c == C + 1
    <3>1. c \in Int /\ c = Depth(s, q) + 1 /\ c <= Depth(s, q) + 1
      BY <1>2, <2>1
    <3> HIDE DEF c
    <3>2. /\ Live(s, q + 1, op, c) = IF st.op = op /\ c = Depth(s, q) + 1
                                     THEN Live(s, q, op, c) \cup {q} ELSE Live(s, q, op, c)
          /\ Live(s, q, op, c) \subseteq 1 .. q - 1
      BY <1>1, <3>1, LiveNext
    <3>3. QED
      BY <3>1, <3>2 DEF c
  <2>3. \A op : Live(s, q, op, C + 1) \subseteq 1 .. q - 1
    BY <2>2
  <2>4. \A op : At(s, Live(s, q, op, C + 1) \cup {q}) = Append(At(s, Live(s, q, op, C + 1)), st)
    BY <2>3, AtAdd
  <2>5. LiveD(s, q + 1, C + 1) = IF st.op = "d" THEN LiveD(s, q, C + 1) \cup PairsOf(st.vars)
                                 ELSE LiveD(s, q, C + 1)
    <3>1. Live(s, q + 1, "d", C + 1) = IF st.op = "d" THEN Live(s, q, "d", C + 1) \cup {q}
                                       ELSE Live(s, q, "d", C + 1)
      BY <2>2
    <3>2. CASE st.op = "d"
      <4>1. UNION {PairsOf(s[j].vars) : j \in Live(s, q, "d", C + 1) \cup {q}}
              = (UNION {PairsOf(s[j].vars) : j \in Live(s, q, "d", C + 1)}) \cup PairsOf(st.vars)
        OBVIOUS
      <4>2. QED
        BY <3>1, <3>2, <4>1 DEF LiveD
    <3>3. QED
      BY <3>1, <3>2 DEF LiveD
  <2> DEFINE f(n) == At(s, Live(s, n, "f", C + 1))
             e(n) == At(s, Live(s, n, "e", C + 1))
             d(n) == LiveD(s, n, C + 1)
  <2>6. /\ now = [f |-> f(q), e |-> e(q), d |-> d(q)]
        /\ NowAt(s, q + 1) = [f |-> f(q + 1), e |-> e(q + 1), d |-> d(q + 1)]
    BY <1>4, <2>1 DEF FrameAt
  <2>7. /\ f(q + 1) = IF st.op = "f" THEN Append(f(q), st) ELSE f(q)
        /\ e(q + 1) = IF st.op = "e" THEN Append(e(q), st) ELSE e(q)
        /\ d(q + 1) = IF st.op = "d" THEN d(q) \cup PairsOf(st.vars) ELSE d(q)
    BY <2>2, <2>4, <2>5
  <2> HIDE DEF f, e, d, now
  <2>8. CASE st.op = "f"
    <3>1. [now EXCEPT !.f = Append(@, st)] = [f |-> Append(f(q), st), e |-> e(q), d |-> d(q)]
      BY <2>6
    <3>2. NowAt(s, q + 1) = [f |-> Append(f(q), st), e |-> e(q), d |-> d(q)]
      BY <2>6, <2>7, <2>8
    <3>3. QED
      BY <2>8, <3>1, <3>2 DEF now
  <2>9. CASE st.op = "e"
    <3>1. [now EXCEPT !.e = Append(@, st)] = [f |-> f(q), e |-> Append(e(q), st), d |-> d(q)]
      BY SMTT(20), <2>6
    <3>2. NowAt(s, q + 1) = [f |-> f(q), e |-> Append(e(q), st), d |-> d(q)]
      BY <2>6, <2>7, <2>9
    <3>3. QED
      BY <2>9, <3>1, <3>2 DEF now
  <2>10. CASE st.op = "d"
    <3>1. [now EXCEPT !.d = @ \cup PairsOf(st.vars)]
              = [f |-> f(q), e |-> e(q), d |-> d(q) \cup PairsOf(st.vars)]
      <4> DEFINE more == d(q) \cup PairsOf(st.vars)
      <4>1. now.d \cup PairsOf(st.vars) = more
        BY <2>6
      <4> HIDE DEF more
      <4>2. [now EXCEPT !.d = more] = [f |-> f(q), e |-> e(q), d |-> more]
        BY <2>6
      <4>3. QED
        BY <4>1, <4>2 DEF more
    <3>2. NowAt(s, q + 1) = [f |-> f(q), e |-> e(q), d |-> d(q) \cup PairsOf(st.vars)]
      BY <2>6, <2>7, <2>10
    <3>3. QED
      BY <2>10, <3>1, <3>2 DEF now
  <2>11. QED
    BY <1>6, <2>8, <2>9, <2>10
<1>7. QED
  BY <1>5, <1>6

\* From a frame that holds what is in scope, stages 2 and 3 make that contract.
LEMMA ContractMade ==
    ASSUME NEW X, NEW s \in Seq(X), NEW q \in 1..Len(s), frame = NowAt(s, q)
    PROVE  Contract(s[q]) = ContractAt(s, q)
<1> DEFINE act == ActiveF(s, q)
           hyps == ActiveE(s, q)
           floats == At(s, act)
           req == MandatoryVars(s, q)
           K == {n \in DOMAIN floats : floats[n].var \in req}
           ps == Ascending(Len(s), act)
<1>1. Len(s) \in Nat /\ q \in Nat \ {0} /\ Depth(s, q - 1) + 1 \in Int
  <2>1. q - 1 \in Nat
    OBVIOUS
  <2>2. QED
    BY <2>1, DepthType
<1>2. frame = [f |-> At(s, act), e |-> At(s, hyps), d |-> ActiveD(s, q)]
  <2>1. ASSUME NEW op
        PROVE  Live(s, q, op, Depth(s, q - 1) + 1) = {j \in 1..Len(s) : s[j].op = op /\ InScope(s, j, q)}
    <3> DEFINE d == Depth(s, q - 1) + 1
    <3>1. d \in Int /\ d >= Depth(s, q - 1) + 1
      BY <1>1
    <3> HIDE DEF d
    <3>2. Live(s, q, op, d) = {j \in 1..Len(s) : s[j].op = op /\ InScope(s, j, q)}
      BY <1>1, <3>1, LiveAll
    <3>3. QED
      BY <3>2 DEF d
  <2>2. QED
    BY <2>1 DEF NowAt, FrameAt, LiveD, ActiveF, ActiveE, ActiveD
<1>3. act \subseteq 1..Len(s) /\ hyps \subseteq 1..Len(s)
  BY DEF ActiveF, ActiveE
<1>4. Required(s[q]) = req
  <2>1. hyps \cap 1..Len(s) = hyps
    BY <1>3
  <2>2. ToSet(frame.e) = {s[n] : n \in hyps}
    BY <1>2, <2>1, AtElements
  <2>3. UNION {VarsIn(h.expr) : h \in ToSet(frame.e)} = UNION {VarsIn(s[j].expr) : j \in hyps}
    <3> DEFINE E == ToSet(frame.e)
    <3>1. E = {s[n] : n \in hyps}
      BY <2>2
    <3> HIDE DEF E, hyps
    <3>2. UNION {VarsIn(h.expr) : h \in E} = UNION {VarsIn(s[j].expr) : j \in hyps}
      BY <3>1
    <3>3. QED
      BY <3>2 DEF E
  <2>4. QED
    BY <2>3 DEF Required, MandatoryVars
<1>5. Lists(ps, act \cap 1..Len(s)) /\ act \cap 1..Len(s) = act
  BY <1>1, <1>3, AscendingLists
<1> HIDE DEF ps, act
<1>6. Picks(floats, s, ps)
  BY <1>5, AtIs
<1>7. At(floats, K) = At(s, Chosen(ps, K))
  <2> HIDE DEF K
  <2>1. QED
    BY <1>5, AtAt
<1>8. Chosen(ps, K) = Floats(s, q)
  <2>1. floats = [n \in 1..Len(ps) |-> s[ps[n]]]
    BY <1>6 DEF Picks
  <2> HIDE DEF floats, req
  <2>2. DOMAIN floats = 1..Len(ps) /\ \A n \in 1..Len(ps) : floats[n] = s[ps[n]]
    BY <2>1
  <2>3. act = {ps[n] : n \in 1..Len(ps)}
    BY <1>5 DEF Lists
  <2>4. Floats(s, q) = {j \in act : s[j].var \in req}
    BY DEF Floats, act, req
  <2>5. K \cap 1..Len(ps) = {n \in 1..Len(ps) : s[ps[n]].var \in req}
    BY <2>2
  <2>6. QED
    BY <2>3, <2>4, <2>5 DEF Chosen
<1>9. frame.f = floats /\ frame.e = At(s, hyps) /\ frame.d = ActiveD(s, q)
  BY <1>2
<1>10. MandatoryPairs(s[q]) = MandatoryD(s, q)
  BY <1>4, <1>9 DEF MandatoryPairs, MandatoryD
<1>11. Contract(s[q]) = [f |-> LabelsInOrder(At(floats, K)), e |-> LabelsInOrder(At(s, hyps)),
                         d |-> MandatoryD(s, q)]
  BY <1>4, <1>9, <1>10 DEF Contract
<1>12. QED
  BY <1>7, <1>8, <1>11 DEF ContractAt

\* It is the frame of the assertion if no variable has two $f in scope.
LEMMA ContractIs ==
    ASSUME NEW s, NEW q \in Nat, Len(s) \in Nat,
           \A a, b \in ActiveF(s, q) : s[a].var = s[b].var => a = b
    PROVE  ContractAt(s, q) = FrameOf(s, q)
<1> DEFINE act == ActiveF(s, q)
           of(v) == {j \in act : s[j].var = v}
<1>1. act \subseteq 1..Len(s)
  BY DEF ActiveF
<1>2. ASSUME NEW j \in act PROVE FloatOf(s, s[j].var, q) = j
  <2>1. of(s[j].var) = {j}
    OBVIOUS
  <2>2. FloatOf(s, s[j].var, q) = IF {j} = {} THEN 0 ELSE CHOOSE a \in {j} : \A b \in {j} : b <= a
    <3> DEFINE F == of(s[j].var)
    <3>1. FloatOf(s, s[j].var, q) = IF F = {} THEN 0 ELSE CHOOSE a \in F : \A b \in F : b <= a
      BY DEF FloatOf
    <3>2. F = {j}
      BY <2>1
    <3> HIDE DEF F
    <3>3. QED
      BY <3>1, <3>2
  <2>3. j \in Nat /\ j <= j
    BY <1>1
  <2>4. QED
    BY <2>2, <2>3
<1>3. ASSUME NEW v, FloatOf(s, v, q) # 0 PROVE \E j \in act : v = s[j].var /\ FloatOf(s, v, q) = j
  <2>1. of(v) # {}
    BY <1>3 DEF FloatOf
  <2>2. PICK j \in act : s[j].var = v
    BY <2>1
  <2>3. QED
    BY <1>2, <2>2
<1>4. MandatoryF(s, q) = Floats(s, q)
  <2>1. ASSUME NEW j \in Floats(s, q) PROVE j \in MandatoryF(s, q)
    <3>1. j \in act /\ s[j].var \in MandatoryVars(s, q) /\ j # 0
      BY <1>1 DEF Floats
    <3>2. QED
      BY <1>2, <3>1 DEF MandatoryF
  <2>2. ASSUME NEW j \in MandatoryF(s, q) PROVE j \in Floats(s, q)
    <3>1. PICK v \in MandatoryVars(s, q) : j = FloatOf(s, v, q) /\ j # 0
      BY DEF MandatoryF
    <3>2. PICK a \in act : v = s[a].var /\ j = a
      BY <1>3, <3>1
    <3>3. QED
      BY <3>1, <3>2 DEF Floats
  <2>3. QED
    BY <2>1, <2>2
<1>5. QED
  BY <1>4 DEF ContractAt, FrameOf

-----------------------------------------------------------------------------
(* The scan of the contracts *)

\* where the units begin in the text
Start == CHOOSE start : Laid(Blocks, Text, start) /\ Tiled(Blocks, Text, start)

LEMMA StartIs == ASSUME LinkedOK PROVE Laid(Blocks, Text, Start) /\ Tiled(Blocks, Text, Start)
BY TextLaid DEF Start

\* A statement of a unit, in the text and in its unit.
LEMMA AtStatement ==
    ASSUME Built, LinkedOK, NEW m \in 1..Len(Linked), NEW j \in 1..Len(Linked[m].stmts)
    PROVE  LET p == Place(Start, m, j)
               u == Linked[m]
           IN  /\ p \in 1..Len(Text) /\ Text[p] = u.stmts[j] /\ Place(Start, m, j + 1) = p + 1
               /\ Depth(Text, p) = Outer(u) + Depth(u.stmts, j)
               /\ Depth(Text, p - 1) = Outer(u) + Depth(u.stmts, j - 1)
               /\ Depth(u.stmts, j) \in Nat /\ Depth(u.stmts, j - 1) \in Nat
               /\ Depth(u.stmts, j) = CASE u.stmts[j].op = "enter" -> Depth(u.stmts, j - 1) + 1
                                        [] u.stmts[j].op = "exit" -> Depth(u.stmts, j - 1) - 1
                                        [] OTHER -> Depth(u.stmts, j - 1)
<1> DEFINE p == Place(Start, m, j)
           u == Linked[m]
           t == u.stmts
<1>1. u \in Catalogue /\ Len(t) \in Nat /\ Outer(u) \in {0, 1} /\ j \in Nat \ {0} /\ j - 1 \in Nat
  BY TextLaid, WrappedIs
<1>2. p \in 1..Len(Text) /\ Text[p] = t[j] /\ Start[m] \in Nat
  BY StartIs, Placed
<1>3. p \in Nat \ {0} /\ p - 1 \in Nat
  BY <1>2
<1>4. Place(Start, m, j + 1) = p + 1
  BY <1>1, <1>2 DEF Place
<1>5. Depth(Text, p) = Outer(u) + Depth(t, j) /\ Depth(t, j) \in Nat
  BY StartIs, PlaceDepth
<1>6. Depth(t, j - 1) \in Nat
  <2>1. CASE j - 1 = 0
    <3>1. Depth(t, 0) = 0
      BY DepthStart
    <3>2. QED
      BY <2>1, <3>1
  <2>2. CASE j - 1 # 0
    <3>1. j - 1 \in 1..Len(t)
      BY <1>1, <2>2
    <3>2. QED
      BY <3>1, StartIs, PlaceDepth
  <2>3. QED
    BY <2>1, <2>2
<1> HIDE DEF p, u
<1>7. Depth(t, j) = CASE t[j].op = "enter" -> Depth(t, j - 1) + 1
                      [] t[j].op = "exit" -> Depth(t, j - 1) - 1
                      [] OTHER -> Depth(t, j - 1)
  <2> HIDE DEF t
  <2>1. QED
    BY <1>1, DepthNext
<1>8. Depth(Text, p) = CASE t[j].op = "enter" -> Depth(Text, p - 1) + 1
                         [] t[j].op = "exit" -> Depth(Text, p - 1) - 1
                         [] OTHER -> Depth(Text, p - 1)
  <2> HIDE DEF t
  <2>1. QED
    BY <1>2, <1>3, DepthNext
<1>9. Depth(Text, p - 1) \in Int
  BY <1>3, DepthType
<1>10. Depth(Text, p - 1) = Outer(u) + Depth(t, j - 1)
  <2> DEFINE a == Depth(Text, p)
             b == Depth(Text, p - 1)
             c == Depth(t, j)
             d == Depth(t, j - 1)
             o == t[j].op
  <2> HIDE DEF a, b, c, d, o
  <2>1. /\ a = CASE o = "enter" -> b + 1 [] o = "exit" -> b - 1 [] OTHER -> b
        /\ c = CASE o = "enter" -> d + 1 [] o = "exit" -> d - 1 [] OTHER -> d
        /\ a = Outer(u) + c /\ c \in Nat /\ d \in Nat /\ b \in Int
    BY <1>5, <1>6, <1>7, <1>8, <1>9 DEF a, b, c, d, o
  <2>2. b = Outer(u) + d
    BY <1>1, <2>1
  <2>3. QED
    BY <2>2 DEF b, d
<1>11. QED
  BY <1>2, <1>4, <1>5, <1>6, <1>7, <1>10 DEF p, u

\* Where a unit begins, its outer block hides nothing.
LEMMA UnitBegins ==
    ASSUME Built, LinkedOK, NEW m \in 1..Len(Linked)
    PROVE  LET p == Place(Start, m, 1)
           IN  /\ FrameAt(Text, p, 1) = FrameAt(Text, Start[m] + 1, 1)
               /\ NowAt(Text, p) = FrameAt(Text, Start[m] + 1, 1)
<1> DEFINE p == Place(Start, m, 1)
           u == Linked[m]
           q == Start[m] + 1
<1>1. /\ u \in Catalogue /\ Blocks[m] = Wrapped(u) /\ Text \in Seq(Stmts) /\ Len(Text) \in Nat
      /\ Blocks \in Seq(Seq(Stmts)) /\ m \in 1..Len(Blocks) /\ m \in 1 .. Len(Linked) + 1
  <2>1. Len(Linked) \in Nat
    BY LinkedIs DEF LinkedOK
  <2>2. QED
    BY <2>1, TextLaid
<1>2. Start[m] \in Nat /\ \A x \in 1..Len(Blocks[m]) :
         Start[m] + x \in 1..Len(Text) /\ Text[Start[m] + x] = Blocks[m][x]
  BY SMTT(20), <1>1, StartIs, LaidWithin
<1>3. Depth(Text, Start[m]) = 0
  BY <1>1, StartIs, TextDepth
<1>4. q \in Nat /\ q - 1 = Start[m] /\ NowAt(Text, q) = FrameAt(Text, q, 1)
  <2>1. q - 1 = Start[m] /\ q \in Nat
    BY <1>2
  <2>2. Depth(Text, q - 1) + 1 = 1
    BY <1>3, <2>1
  <2>3. QED
    BY <2>1, <2>2 DEF NowAt
<1>5. CASE Outer(u) = 0
  <2>1. p = q
    BY <1>2, <1>5 DEF Place
  <2>2. QED
    BY <1>4, <2>1
<1>6. CASE Outer(u) = 1
  <2>1. p = q + 1
    BY <1>2, <1>6 DEF Place
  <2>2. Len(Blocks[m]) = 1 + Len(u.stmts) + 1 /\ Len(u.stmts) \in Nat /\ Blocks[m][1] = Enter
    BY <1>1, <1>6, WrappedIs
  <2>3. q \in 1..Len(Text) /\ Text[q] = Enter
    <3>1. 1 \in 1..Len(Blocks[m])
      BY <2>2
    <3>2. QED
      BY <1>2, <2>2, <3>1
  <2> HIDE DEF p, q
  <2>4. Text[q].op = "enter" /\ Depth(Text, q) = 1
    <3>1. Text[q].op = "enter" /\ q \in Nat \ {0}
      BY <2>3 DEF Enter
    <3>2. Depth(Text, q) = Depth(Text, q - 1) + 1
      BY <3>1, DepthNext
    <3>3. QED
      BY <1>3, <1>4, <3>1, <3>2
  <2>5. FrameAt(Text, q + 1, 1) = FrameAt(Text, q, 1)
    BY <1>1, <2>3, <2>4, FrameStays
  <2>6. NowAt(Text, q + 1) = NowAt(Text, q)
    BY <1>1, <2>3, <2>4, NowNext
  <2>7. QED
    BY <1>4, <2>1, <2>5, <2>6 DEF p, q
<1>7. QED
  BY <1>1, <1>5, <1>6, WrappedIs

\* Where a unit ends, the frame of a foundation is what stays in scope; after any
\* other unit it is what was before it.
LEMMA UnitEnds ==
    ASSUME Built, LinkedOK, NEW m \in 1..Len(Linked)
    PROVE  LET p == Place(Start, m, Len(Linked[m].stmts) + 1)
           IN  IF IsFoundation(Linked[m]) THEN NowAt(Text, p) = FrameAt(Text, Start[m + 1] + 1, 1)
               ELSE FrameAt(Text, p, 1) = FrameAt(Text, Start[m + 1] + 1, 1)
<1> DEFINE u == Linked[m]
           L == Len(u.stmts)
           p == Place(Start, m, L + 1)
<1>1. /\ u \in Catalogue /\ Blocks[m] = Wrapped(u) /\ Text \in Seq(Stmts) /\ Len(Text) \in Nat
      /\ Blocks \in Seq(Seq(Stmts)) /\ m \in 1..Len(Blocks) /\ m + 1 \in 1 .. Len(Linked) + 1
      /\ Len(Blocks) = Len(Linked)
  <2>1. Len(Linked) \in Nat
    BY LinkedIs DEF LinkedOK
  <2>2. QED
    BY <2>1, TextLaid
<1>2. /\ Start[m] \in Nat /\ Start[m + 1] = Start[m] + Len(Blocks[m])
      /\ \A x \in 1..Len(Blocks[m]) :
            Start[m] + x \in 1..Len(Text) /\ Text[Start[m] + x] = Blocks[m][x]
  <2>1. Start[m + 1] = Start[m] + Len(Blocks[m])
    BY <1>1, StartIs DEF Laid
  <2>2. QED
    BY SMTT(20), <1>1, <2>1, StartIs, LaidWithin
<1>3. Depth(Text, Start[m + 1]) = 0
  BY <1>1, StartIs, TextDepth
<1>4. L \in Nat /\ Len(Blocks[m]) = Outer(u) + L + Outer(u) /\ Outer(u) \in {0, 1}
  BY <1>1, WrappedIs
<1>5. CASE Outer(u) = 0
  <2>1. p = Start[m + 1] + 1 /\ p - 1 = Start[m + 1]
    BY <1>2, <1>4, <1>5 DEF Place
  <2>2. Depth(Text, p - 1) + 1 = 1
    BY <1>3, <2>1
  <2>3. NowAt(Text, p) = FrameAt(Text, p, 1)
    BY <2>2 DEF NowAt
  <2>4. QED
    BY <2>1, <2>3
<1>6. CASE Outer(u) = 1
  <2>1. p = Start[m + 1] /\ p = Start[m] + (L + 2) /\ L + 2 \in 1..Len(Blocks[m])
    <3>1. p = Start[m] + 1 + (L + 1)
      BY <1>6 DEF Place
    <3> HIDE DEF p, L
    <3>2. Len(Blocks[m]) = L + 2 /\ L + 2 \in 1..Len(Blocks[m])
      BY <1>4, <1>6
    <3> DEFINE here == Start[m]
               next == Start[m + 1]
    <3>3. here \in Nat /\ next = here + (L + 2)
      BY <1>2, <3>2
    <3> HIDE DEF here, next
    <3>4. p = here + (L + 2)
      <4>1. p = here + 1 + (L + 1)
        BY <3>1 DEF here
      <4>2. QED
        BY <1>4, <3>3, <4>1
    <3>5. QED
      BY <3>2, <3>3, <3>4 DEF here, next
  <2>2. p \in 1..Len(Text) /\ Text[p] = Exit /\ ~IsFoundation(u)
    BY <1>1, <1>2, <1>6, <2>1, WrappedIs
  <2> HIDE DEF p
  <2>3. Text[p].op = "exit" /\ Depth(Text, p) = 0
    BY <1>3, <2>1, <2>2 DEF Exit
  <2>4. FrameAt(Text, p + 1, 1) = FrameAt(Text, p, 1)
    <3>1. 1 <= Depth(Text, p) + 1 /\ 1 \in Int /\ Text[p].op \notin {"f", "e", "d"}
      BY <2>3
    <3>2. QED
      BY <1>1, <2>2, <3>1, FrameStays
  <2>5. QED
    BY <2>1, <2>2, <2>4 DEF p
<1>7. QED
  BY <1>4, <1>5, <1>6

\* No two statements of the units have the same label.
LEMMA LabelsApart ==
    ASSUME LinkedOK, NEW m \in 1..Len(Linked), NEW n \in 1..Len(Linked),
           NEW a \in 1..Len(Linked[m].stmts), NEW b \in 1..Len(Linked[n].stmts),
           IsLabelled(Linked[m].stmts[a]), IsLabelled(Linked[n].stmts[b]),
           Linked[m].stmts[a].label = Linked[n].stmts[b].label
    PROVE  m = n /\ a = b
<1>1. Sits(Start, Place(Start, m, a), m, a) /\ Sits(Start, Place(Start, n, b), n, b)
  BY StartIs, Placed
<1>2. Linked[m].id = Linked[n].id
  BY <1>1 DEF Sits
<1>3. m = n
  BY <1>2, SameUnit
<1>4. PICK x \in 1..Len(units) : Linked[m] = units[x]
  <2>1. Linked[m] \in ToSet(units) /\ DOMAIN units = 1..Len(units)
    BY TextLaid DEF LinkedOK, UnitsOK
  <2>2. QED
    BY <2>1 DEF ToSet
<1>5. DistinctIn(Linked[m])
  BY <1>4 DEF LinkedOK, Indexed
<1>6. QED
  BY <1>1, <1>3, <1>5 DEF Sits, DistinctIn

\* statement j of the m-th unit has its contract
Contracted(m, j) ==
    LET st == Linked[m].stmts[j]
    IN  IsAssertion(st) => /\ st.label \in DOMAIN contracts
                           /\ contracts[st.label] = ContractAt(Text, Place(Start, m, j))

\* The scan is at statement k of the i-th unit.  The frame is what is in scope
\* there in the text; the frames of the stack are what will be when its blocks
\* close; and the ambient frame what will be when an ordinary unit ends.
AtFrames(u, p) ==
    /\ frame = NowAt(Text, p)
    /\ stack = [x \in 1..Depth(u.stmts, k - 1) |-> FrameAt(Text, p, Outer(u) + x)]
    /\ ~IsFoundation(u) => ambient = FrameAt(Text, p, 1)
Scanning ==
    /\ i \in 1..Len(Linked) /\ k \in 1 .. Len(Linked[i].stmts) + 1
    /\ AtFrames(Linked[i], Place(Start, i, k))
    /\ \A m \in 1..Len(Linked) : \A j \in 1..Len(Linked[m].stmts) :
          m < i \/ (m = i /\ j < k) => Contracted(m, j)
AllScanned == \A m \in 1..Len(Linked) : \A j \in 1..Len(Linked[m].stmts) : Contracted(m, j)

Unscanned == k = 1 /\ frame = Empty /\ ambient = Empty /\ stack = <<>>

ScanInv ==
    /\ pc \notin Sorted \cup {"failed"} => Unscanned
    /\ pc \in {"prepare", "sort"} => i = 1
    /\ pc = "contracts" => Scanning
    /\ pc \in {"plan", "done"} => AllScanned

LEMMA SameText ==
    ASSUME units' = units, order' = order
    PROVE  Linked' = Linked /\ Text' = Text /\ Start' = Start
<1>1. \A id : UnitOf(id)' = UnitOf(id)
  BY DEF UnitOf
<1>2. Linked' = Linked
  BY <1>1 DEF Linked
<1>3. Text' = Text /\ Blocks' = Blocks
  BY <1>2 DEF Text, Blocks
<1>4. QED
  BY <1>2, <1>3 DEF Start

LEMMA SortedFacts == ASSUME SortInv, LinkInv, pc \in Sorted PROVE LinkedOK
BY DEF SortInv, LinkInv, Stages, Sorted, LinkedOK

\* A unit is begun with the ambient frame, which holds what is in scope there.
LEMMA ScanBegins ==
    ASSUME Built, LinkedOK, units' = units, order' = order,
           NEW m \in 1..Len(Linked), i' = m, k' = 1, frame' = ambient', stack' = <<>>,
           ambient' = FrameAt(Text, Start[m] + 1, 1),
           \A n \in 1..Len(Linked) : \A j \in 1..Len(Linked[n].stmts) : n < m => Contracted(n, j)'
    PROVE  Scanning'
<1>1. Linked' = Linked /\ Text' = Text /\ Start' = Start
  BY SameText
<1>2. PICK u : u = Linked[m]
  OBVIOUS
<1>3. PICK p : p = Place(Start, m, 1)
  OBVIOUS
<1>4. u \in Catalogue /\ Len(u.stmts) \in Nat /\ Len(Linked) \in Nat
  BY <1>2, TextLaid, WrappedIs, LinkedIs DEF LinkedOK
<1>5. FrameAt(Text, p, 1) = ambient' /\ NowAt(Text, p) = ambient'
  BY <1>3, UnitBegins
<1>6. Depth(u.stmts, 1 - 1) = 0
  BY DepthStart
<1>7. stack' = [x \in 1..Depth(u.stmts, 1 - 1) |-> FrameAt(Text, p, Outer(u) + x)]
  <2>1. stack' = [x \in 1..0 |-> FrameAt(Text, p, Outer(u) + x)]
    OBVIOUS
  <2>2. QED
    BY <1>6, <2>1
<1>8. Place(Start, i, k)' = p /\ (Linked[i])' = u
  BY <1>1, <1>2, <1>3 DEF Place
<1>9. AtFrames(u, p)'
  BY <1>1, <1>5, <1>7 DEF AtFrames
<1>10. AtFrames(Linked[i], Place(Start, i, k))'
  BY <1>8, <1>9 DEF AtFrames
<1>11. i' \in 1..Len(Linked') /\ k' \in 1 .. Len((Linked[i]).stmts)' + 1
  BY <1>1, <1>4, <1>8
<1>12. ASSUME NEW n \in 1..Len(Linked), NEW j \in 1..Len(Linked[n].stmts), n < m \/ (n = m /\ j < 1)
       PROVE  Contracted(n, j)'
  BY <1>12
<1>13. QED
  BY <1>1, <1>10, <1>11, <1>12 DEF Scanning

LEMMA NothingYet == ASSUME NEW s \in Seq(Stmts), NEW d PROVE FrameAt(s, 1, d) = Empty
<1>1. \A op : Live(s, 1, op, d) = {}
  BY DEF Live, InScope
<1>2. At(s, {}) = <<>>
  BY AtNothing
<1>3. LiveD(s, 1, d) = {}
  BY <1>1 DEF LiveD
<1>4. QED
  BY <1>1, <1>2, <1>3 DEF FrameAt, Empty

LEMMA ScanReached == ASSUME Built, SortInv, LinkInv, ScanInv, SortEnd PROVE ScanInv'
<1>1. pc = "sort" /\ units' = units /\ order' = order /\ i' = i /\ k' = k /\ frame' = frame
      /\ stack' = stack /\ ambient' = ambient /\ contracts' = contracts
      /\ pc' \in {"failed", "contracts"}
  BY DEF SortEnd, Raise, sort_vars, scan_vars
<1>2. i = 1 /\ Unscanned
  BY <1>1 DEF ScanInv, Sorted
<1>3. CASE pc' = "failed"
  BY <1>3 DEF ScanInv, Sorted
<1>4. CASE pc' = "contracts"
  <2>1. SortInv' /\ LinkInv'
    BY SortEnded, LinkElsewhere
  <2>2. LinkedOK
    <3>1. /\ UnitsOK /\ OneFoundation /\ Indexed(Len(units)) /\ Passed(Len(units))
          /\ graph = [id \in IdSet |-> DependsOn(UnitOf(id))] /\ OrderOK
      BY <1>1 DEF SortInv, LinkInv, Stages
    <3>2. (OrderOK /\ ToSet(order) = IdSet)'
      BY <1>4, <2>1 DEF SortInv, Sorted
    <3>3. IdSet' = IdSet
      BY <1>1 DEF IdSet, Ids
    <3>4. QED
      BY <1>1, <3>1, <3>2, <3>3 DEF LinkedOK
  <2>3. 1 \in 1..Len(Linked) /\ Text \in Seq(Stmts)
    <3>1. ToSet(Linked) = ToSet(units) /\ Len(Linked) \in Nat /\ DOMAIN Linked = 1..Len(Linked)
          /\ UnitsOK
      BY <2>2, LinkedIs DEF LinkedOK
    <3>2. units[1] \in ToSet(units)
      <4>1. 1 \in DOMAIN units
        BY <3>1 DEF UnitsOK
      <4>2. QED
        BY <4>1 DEF ToSet
    <3>3. Len(Linked) # 0
      BY <3>1, <3>2 DEF ToSet
    <3>4. QED
      BY <2>2, <3>1, <3>3, TextLaid
  <2>4. Start[1] = 0
    BY <2>2, StartIs DEF Laid
  <2>5. ambient' = FrameAt(Text, Start[1] + 1, 1)
    <3>1. FrameAt(Text, 1, 1) = Empty
      BY <2>3, NothingYet
    <3>2. QED
      BY <1>1, <1>2, <2>4, <3>1 DEF Unscanned
  <2>6. ~\E n \in 1..Len(Linked) : n < 1
    OBVIOUS
  <2>7. Scanning'
    BY <1>1, <1>2, <2>2, <2>3, <2>5, <2>6, ScanBegins DEF Unscanned
  <2>8. QED
    BY <1>4, <2>7 DEF ScanInv, Sorted
<1>5. QED
  BY <1>1, <1>3, <1>4

\* At its end a foundation leaves its frame; an ordinary unit leaves the ambient
\* frame as it was.
LEMMA UnitScanned == ASSUME Built, SortInv, LinkInv, ScanInv, ScanUnitEnd PROVE ScanInv'
<1>1. /\ pc = "contracts" /\ LinkedOK /\ Scanning
      /\ units' = units /\ order' = order /\ contracts' = contracts /\ k' = 1 /\ stack' = <<>>
      /\ frame' = ambient' /\ ambient' = IF IsFoundation(Linked[i]) THEN frame ELSE ambient
      /\ k > Len(Linked[i].stmts)
      /\ i' = IF i = Len(Linked) THEN 1 ELSE i + 1
      /\ pc' = IF i = Len(Linked) THEN "plan" ELSE pc
  <2>1. pc = "contracts"
    BY DEF ScanUnitEnd
  <2>2. LinkedOK /\ Scanning
    BY <2>1, SortedFacts DEF Sorted, ScanInv
  <2>3. QED
    BY <2>1, <2>2 DEF ScanUnitEnd, Advance, Leaves, sort_vars
<1>2. Linked' = Linked /\ Text' = Text /\ Start' = Start
  BY <1>1, SameText
<1>3. Len(Linked) \in Nat /\ i \in 1..Len(Linked) /\ Linked[i] \in Catalogue
  BY <1>1, LinkedIs, TextLaid DEF LinkedOK, Scanning
<1>4. k = Len(Linked[i].stmts) + 1 /\ Len(Linked[i].stmts) \in Nat
  <2>1. Len(Linked[i].stmts) \in Nat
    BY <1>3, WrappedIs
  <2>2. QED
    BY <1>1, <2>1 DEF Scanning
<1>5. ambient' = FrameAt(Text, Start[i + 1] + 1, 1)
  <2> DEFINE p == Place(Start, i, Len(Linked[i].stmts) + 1)
  <2>1. IF IsFoundation(Linked[i]) THEN NowAt(Text, p) = FrameAt(Text, Start[i + 1] + 1, 1)
        ELSE FrameAt(Text, p, 1) = FrameAt(Text, Start[i + 1] + 1, 1)
    BY <1>1, <1>3, UnitEnds
  <2>2. frame = NowAt(Text, p) /\ (~IsFoundation(Linked[i]) => ambient = FrameAt(Text, p, 1))
    BY <1>1, <1>4 DEF Scanning, AtFrames
  <2>3. QED
    BY <1>1, <2>1, <2>2
<1>6. ASSUME NEW n \in 1..Len(Linked), NEW j \in 1..Len(Linked[n].stmts), n <= i
      PROVE  Contracted(n, j)'
  <2>1. Contracted(n, j)
    <3>1. n < i \/ (n = i /\ j < k)
      BY <1>3, <1>4, <1>6
    <3>2. QED
      BY <1>1, <3>1 DEF Scanning
  <2>2. QED
    BY <1>1, <1>2, <2>1 DEF Contracted, Place
<1>7. CASE i = Len(Linked)
  <2>1. AllScanned'
    BY <1>2, <1>3, <1>6, <1>7 DEF AllScanned
  <2>2. QED
    BY <1>1, <1>7, <2>1 DEF ScanInv, Sorted
<1>8. CASE i # Len(Linked)
  <2>1. PICK m : m = i + 1
    OBVIOUS
  <2>2. m \in 1..Len(Linked) /\ i' = m /\ \A n \in 1..Len(Linked) : n < m => n <= i
    BY <1>1, <1>3, <1>8, <2>1
  <2>3. ambient' = FrameAt(Text, Start[m] + 1, 1)
    BY <1>5, <2>1
  <2>4. Scanning'
    BY <1>1, <1>6, <2>2, <2>3, ScanBegins
  <2>5. QED
    BY <1>1, <1>8, <2>4 DEF ScanInv, Sorted
<1>9. QED
  BY <1>7, <1>8

\* One statement of a unit, read into the frames.
LEMMA FramesMove ==
    ASSUME Built, LinkedOK, Scanning, ScanStatement, k <= Len(Linked[i].stmts),
           NEW u, u = Linked[i], NEW p, p = Place(Start, i, k)
    PROVE  AtFrames(u, p + 1)'
<1>1. /\ units' = units /\ order' = order /\ ambient' = ambient /\ k' = k + 1
  BY DEF ScanStatement, sort_vars
<1>2. Text' = Text
  BY <1>1, SameText
<1> DEFINE st == u.stmts[k]
           D == Depth(u.stmts, k)
           C == Depth(u.stmts, k - 1)
           base == Outer(u)
<1>3. /\ u \in Catalogue /\ k \in 1..Len(u.stmts) /\ i \in 1..Len(Linked) /\ base \in {0, 1}
      /\ Text \in Seq(Stmts) /\ Len(Text) \in Nat /\ Len(u.stmts) \in Nat
  <2>1. u \in Catalogue /\ i \in 1..Len(Linked) /\ Text \in Seq(Stmts)
    BY TextLaid DEF Scanning
  <2>2. Len(u.stmts) \in Nat /\ base \in {0, 1}
    BY <2>1, WrappedIs
  <2>3. k \in 1..Len(u.stmts)
    BY <2>2 DEF Scanning
  <2>4. QED
    BY <2>1, <2>2, <2>3
<1>4. /\ p \in 1..Len(Text) /\ Text[p] = st
      /\ Depth(Text, p) = base + D /\ Depth(Text, p - 1) = base + C /\ D \in Nat /\ C \in Nat
      /\ D = CASE st.op = "enter" -> C + 1 [] st.op = "exit" -> C - 1 [] OTHER -> C
  BY <1>3, AtStatement
<1>5. /\ frame = NowAt(Text, p) /\ stack = [x \in 1..C |-> FrameAt(Text, p, base + x)]
      /\ ~IsFoundation(u) => ambient = FrameAt(Text, p, 1)
  BY DEF Scanning, AtFrames
<1>6. /\ frame' = CASE st.op = "exit" -> Restored
                    [] st.op = "f" -> [frame EXCEPT !.f = Append(@, st)]
                    [] st.op = "e" -> [frame EXCEPT !.e = Append(@, st)]
                    [] st.op = "d" -> [frame EXCEPT !.d = @ \cup PairsOf(st.vars)]
                    [] OTHER -> frame
      /\ stack' = CASE st.op = "enter" -> Append(stack, frame)
                    [] st.op = "exit" /\ stack # <<>> -> Front(stack)
                    [] OTHER -> stack
  BY DEF ScanStatement
<1> DEFINE fr(x) == FrameAt(Text, p, base + x)
           next(x) == FrameAt(Text, p + 1, base + x)
<1>7. ASSUME NEW x \in Int, x <= D, x <= C + 1 PROVE next(x) = fr(x)
  <2> DEFINE d == base + x
  <2>1. d \in Int /\ d <= Depth(Text, p) + 1 /\ d <= Depth(Text, p)
    BY SMTT(20), <1>3, <1>4, <1>7
  <2> HIDE DEF d
  <2>2. FrameAt(Text, p + 1, d) = FrameAt(Text, p, d)
    BY <1>3, <1>4, <2>1, FrameStays
  <2>3. QED
    BY <2>2 DEF d
<1>8. stack \in Seq({fr(x) : x \in 1..C}) /\ Len(stack) = C /\ \A x \in 1..C : stack[x] = fr(x)
  <2> HIDE DEF C, D, fr, base
  <2>1. stack = [x \in 1..C |-> fr(x)]
    BY <1>5 DEF fr
  <2>2. C \in Nat
    BY <1>4
  <2>3. QED
    BY <2>1, <2>2
<1>9. frame' = NowAt(Text, p + 1)
  <2>1. CASE st.op = "exit"
    <3>1. C \in Nat \ {0} /\ C \in 1..C
      BY <1>4, <2>1
    <3>2. stack # <<>> /\ Last(stack) = stack[C]
      <4> HIDE DEF C
      <4>1. QED
        BY <1>8, <3>1 DEF Last
    <3>3. frame' = fr(C)
      BY <1>6, <1>8, <2>1, <3>1, <3>2 DEF Restored
    <3>4. NowAt(Text, p + 1) = FrameAt(Text, p, Depth(Text, p - 1))
      BY <1>3, <1>4, <2>1, NowNext
    <3>5. QED
      BY <1>4, <3>3, <3>4
  <2>2. CASE st.op # "exit"
    <3>1. NowAt(Text, p + 1) = CASE st.op = "exit" -> FrameAt(Text, p, Depth(Text, p - 1))
                    [] st.op = "f" -> [frame EXCEPT !.f = Append(@, st)]
                    [] st.op = "e" -> [frame EXCEPT !.e = Append(@, st)]
                    [] st.op = "d" -> [frame EXCEPT !.d = @ \cup PairsOf(st.vars)]
                    [] OTHER -> frame
      BY <1>3, <1>4, <1>5, NowNext
    <3> HIDE DEF st
    <3>2. QED
      BY <1>6, <2>2, <3>1
  <2>3. QED
    BY <2>1, <2>2
<1>10. stack' = [x \in 1..D |-> next(x)]
  <2>1. CASE st.op = "enter"
    <3>1. stack' = Append(stack, frame) /\ D = C + 1
      BY <1>4, <1>6, <2>1
    <3>2. frame = fr(C + 1)
      <4>1. Depth(Text, p - 1) + 1 = base + (C + 1)
        BY <1>3, <1>4
      <4>2. QED
        BY <1>5, <4>1 DEF NowAt
    <3>3. \A x \in 1..D : next(x) = fr(x)
      BY <1>4, <1>7, <3>1
    <3> HIDE DEF fr, next, C, D
    <3>4. C \in Nat
      BY <1>4
    <3>5. Append(stack, frame) = [x \in 1 .. C + 1 |-> fr(x)]
      <4> DEFINE more == Append(stack, frame)
                 all == {fr(x) : x \in 1 .. C + 1}
      <4>1. stack \in Seq(all) /\ frame \in all
        <5>1. \A x \in 1..C : x \in 1 .. C + 1
          BY <3>4
        <5>2. C + 1 \in 1 .. C + 1
          BY <3>4
        <5>3. \A x \in 1..C : stack[x] \in all
          BY <1>8, <5>1
        <5>4. QED
          BY <1>8, <3>2, <3>4, <5>2, <5>3
      <4> HIDE DEF all
      <4>2. /\ more \in Seq(all) /\ Len(more) = C + 1 /\ more[C + 1] = frame
            /\ \A x \in 1..C : more[x] = stack[x]
        BY <1>8, <4>1
      <4> HIDE DEF more
      <4>3. more = [x \in 1 .. C + 1 |-> more[x]]
        BY <4>2
      <4>4. \A x \in 1 .. C + 1 : more[x] = fr(x)
        <5>1. \A x \in 1 .. C + 1 : x \in 1..C \/ x = C + 1
          BY <3>4
        <5>2. QED
          BY <1>8, <3>2, <4>2, <5>1
      <4>5. QED
        BY <4>3, <4>4 DEF more
    <3>6. QED
      BY <3>1, <3>3, <3>5
  <2>2. CASE st.op = "exit"
    <3>1. D = C - 1 /\ C \in Nat \ {0} /\ D \in Nat
      BY <1>4, <2>2
    <3>2. \A x \in 1..D : next(x) = fr(x)
      BY <1>7, <3>1
    <3> HIDE DEF fr, next, C, D
    <3>3. stack # <<>>
      BY <1>8, <3>1
    <3>4. stack' = Front(stack)
      BY <1>6, <2>2, <3>3
    <3>5. Front(stack) = [x \in 1..D |-> stack[x]]
      <4>1. Front(stack) = SubSeq(stack, 1, Len(stack) - 1)
        BY DEF Front
      <4>2. QED
        BY <1>8, <3>1, <4>1
    <3>6. \A x \in 1..D : stack[x] = next(x)
      BY <1>8, <3>1, <3>2
    <3>7. QED
      BY <3>4, <3>5, <3>6
  <2>3. CASE st.op \notin {"enter", "exit"}
    <3>1. stack' = stack /\ D = C
      BY <1>4, <1>6, <2>3
    <3>2. \A x \in 1..D : next(x) = fr(x)
      BY <1>4, <1>7, <3>1
    <3>3. stack = [x \in 1..C |-> fr(x)]
      BY <1>5
    <3> HIDE DEF fr, next, C, D
    <3>4. QED
      BY <3>1, <3>2, <3>3
  <2>4. QED
    BY <2>1, <2>2, <2>3
<1>11. ~IsFoundation(u) => ambient' = FrameAt(Text, p + 1, 1)
  <2> SUFFICES ASSUME ~IsFoundation(u) PROVE FrameAt(Text, p + 1, 1) = FrameAt(Text, p, 1)
    BY <1>1, <1>5
  <2>1. base = 1
    BY <1>3, WrappedIs
  <2>2. 1 <= Depth(Text, p) /\ 1 <= Depth(Text, p) + 1 /\ 1 \in Int
    BY <1>4, <2>1
  <2>3. QED
    BY <1>3, <1>4, <2>2, FrameStays
<1>12. k' - 1 = k
  BY <1>1, <1>3
<1>13. QED
  BY <1>2, <1>9, <1>10, <1>11, <1>12 DEF AtFrames

LEMMA StatementScanned == ASSUME Built, SortInv, LinkInv, ScanInv, ScanStatement PROVE ScanInv'
<1>1. /\ pc = "contracts" /\ pc' = pc /\ LinkedOK /\ Scanning
      /\ units' = units /\ order' = order /\ i' = i /\ k' = k + 1 /\ k <= Len(Linked[i].stmts)
      /\ contracts' = IF IsAssertion(Linked[i].stmts[k])
                      THEN [l \in DOMAIN contracts \cup {Linked[i].stmts[k].label} |->
                               IF l = Linked[i].stmts[k].label THEN Contract(Linked[i].stmts[k])
                               ELSE contracts[l]]
                      ELSE contracts
  <2>1. pc = "contracts"
    BY DEF ScanStatement
  <2>2. LinkedOK /\ Scanning
    BY <2>1, SortedFacts DEF Sorted, ScanInv
  <2>3. QED
    BY <2>1, <2>2 DEF ScanStatement, sort_vars
<1>2. Linked' = Linked /\ Text' = Text /\ Start' = Start
  BY <1>1, SameText
<1>3. /\ Len(Linked) \in Nat /\ i \in 1..Len(Linked) /\ Linked[i] \in Catalogue
      /\ Len(Linked[i].stmts) \in Nat /\ k \in 1..Len(Linked[i].stmts) /\ Text \in Seq(Stmts)
  <2>1. Len(Linked) \in Nat /\ i \in 1..Len(Linked) /\ Linked[i] \in Catalogue /\ Text \in Seq(Stmts)
    BY <1>1, LinkedIs, TextLaid DEF LinkedOK, Scanning
  <2>2. Len(Linked[i].stmts) \in Nat
    BY <2>1, WrappedIs
  <2>3. QED
    BY <1>1, <2>1, <2>2 DEF Scanning
<1>4. PICK u : u = Linked[i]
  OBVIOUS
<1>5. PICK p : p = Place(Start, i, k)
  OBVIOUS
<1>6. p \in 1..Len(Text) /\ Text[p] = u.stmts[k] /\ Place(Start, i, k + 1) = p + 1
  BY <1>1, <1>3, <1>4, <1>5, AtStatement
<1>7. AtFrames(u, p + 1)'
  BY <1>1, <1>4, <1>5, FramesMove
<1>8. AtFrames(Linked[i], Place(Start, i, k))'
  <2>1. (Linked[i])' = u /\ Place(Start, i, k)' = p + 1
    BY <1>1, <1>2, <1>4, <1>6 DEF Place
  <2>2. QED
    BY <1>7, <2>1 DEF AtFrames
<1>9. ASSUME NEW m \in 1..Len(Linked), NEW j \in 1..Len(Linked[m].stmts), m < i \/ (m = i /\ j < k)
      PROVE  Contracted(m, j)'
  <2>1. Contracted(m, j)
    BY <1>1, <1>9 DEF Scanning
  <2> SUFFICES ASSUME IsAssertion(Linked[m].stmts[j])
               PROVE  /\ Linked[m].stmts[j].label \in DOMAIN contracts'
                      /\ contracts'[Linked[m].stmts[j].label] = contracts[Linked[m].stmts[j].label]
    BY <1>2, <2>1 DEF Contracted, Place
  <2>2. Linked[m].stmts[j].label \in DOMAIN contracts
    BY <2>1 DEF Contracted
  <2>3. CASE IsAssertion(Linked[i].stmts[k])
    <3>1. ~(m = i /\ j = k)
      BY <1>3, <1>9
    <3>2. Linked[m].stmts[j].label # Linked[i].stmts[k].label
      BY <1>1, <1>3, <2>3, <3>1, LabelsApart DEF IsLabelled
    <3>3. QED
      BY <1>1, <2>2, <2>3, <3>2
  <2>4. QED
    BY <1>1, <2>2, <2>3
<1>10. ASSUME NEW m \in 1..Len(Linked), NEW j \in 1..Len(Linked[m].stmts), m = i, j = k
       PROVE  Contracted(m, j)'
  <2> SUFFICES ASSUME IsAssertion(u.stmts[k])
               PROVE  /\ u.stmts[k].label \in DOMAIN contracts'
                      /\ contracts'[u.stmts[k].label] = ContractAt(Text, p)
    BY <1>2, <1>4, <1>5, <1>10 DEF Contracted, Place
  <2>1. frame = NowAt(Text, p)
    BY <1>1, <1>5 DEF Scanning, AtFrames
  <2>2. Contract(u.stmts[k]) = ContractAt(Text, p)
    BY <1>3, <1>6, <2>1, ContractMade
  <2>3. QED
    BY <1>1, <1>4, <2>2
<1>11. i' \in 1..Len(Linked') /\ k' \in 1 .. Len((Linked[i]).stmts)' + 1
  BY <1>1, <1>2, <1>3
<1>12. ASSUME NEW m \in 1..Len(Linked), NEW j \in 1..Len(Linked[m].stmts), m < i \/ (m = i /\ j < k + 1)
       PROVE  Contracted(m, j)'
  <2>1. (m < i \/ (m = i /\ j < k)) \/ (m = i /\ j = k)
    <3>1. j \in Int /\ k \in Int
      BY <1>3
    <3>2. QED
      BY <1>12, <3>1
  <2>2. QED
    BY <1>9, <1>10, <2>1
<1>13. Scanning'
  BY <1>1, <1>2, <1>8, <1>11, <1>12 DEF Scanning
<1>14. QED
  BY <1>1, <1>13 DEF ScanInv, Sorted

LEMMA ScanElsewhere ==
    ASSUME SortInv, ScanInv,
           \/ CheckFoundations \/ IndexUnit \/ CheckUnit
           \/ BuildGraph \/ AddNode \/ Prepare \/ SortGroup \/ ScanRefuses \/ Plan \/ UNCHANGED vars
    PROVE  ScanInv'
<1>1. k' = k /\ frame' = frame /\ ambient' = ambient /\ stack' = stack /\ contracts' = contracts
      /\ units' = units
  <2>1. CASE CheckUnit
    <3>1. i \in 1..Len(units) /\ UnitsOK
      BY <2>1 DEF SortInv, CheckUnit
    <3>2. QED
      BY <2>1, <3>1, ChecksDone DEF Raise, Advance, scan_vars
  <2>2. CASE ~CheckUnit
    BY <2>2 DEF CheckFoundations, IndexUnit, BuildGraph, AddNode, Prepare, SortGroup, ScanRefuses, Plan,
                Raise, Advance, scan_vars, vars
  <2>3. QED
    BY <2>1, <2>2
<1>2. Unscanned' = Unscanned
  BY <1>1 DEF Unscanned
<1>3. CASE CheckFoundations \/ IndexUnit \/ CheckUnit \/ BuildGraph
  <2>1. pc \in {"foundations", "index", "check", "graph"}
        /\ pc' \in {"foundations", "index", "check", "graph", "nodes", "failed"}
    <3>1. CASE CheckUnit
      <4>1. i \in 1..Len(units) /\ UnitsOK
        BY <3>1 DEF SortInv, CheckUnit
      <4>2. QED
        BY <3>1, <4>1, ChecksDone DEF Raise, Advance
    <3>2. CASE ~CheckUnit
      BY <1>3, <3>2 DEF CheckFoundations, IndexUnit, BuildGraph, Raise, Advance
    <3>3. QED
      BY <3>1, <3>2
  <2>2. QED
    BY <1>2, <2>1 DEF ScanInv, Sorted
<1>4. CASE AddNode \/ Prepare \/ SortGroup
  <2>1. /\ pc \in {"nodes", "prepare", "sort"} /\ pc' \in {"nodes", "prepare", "sort"}
        /\ pc' \in {"prepare", "sort"} => i' = 1
    BY <1>4 DEF AddNode, Prepare, SortGroup, Advance, ScanInv
  <2>2. QED
    BY <1>2, <2>1 DEF ScanInv, Sorted
<1>5. CASE Plan \/ UNCHANGED vars
  <2>1. order' = order /\ (Plan => pc = "plan" /\ pc' = "done") /\ (UNCHANGED vars => pc' = pc /\ i' = i)
    BY <1>5 DEF Plan, sort_vars, vars
  <2>2. Linked' = Linked /\ Text' = Text /\ Start' = Start
    BY <1>1, <2>1, SameText
  <2>3. \A m, j : Contracted(m, j)' = Contracted(m, j)
    BY <1>1, <2>2 DEF Contracted, Place
  <2>4. AllScanned' = AllScanned
    BY <2>2, <2>3 DEF AllScanned
  <2>5. CASE Plan
    BY <2>1, <2>4, <2>5 DEF ScanInv, Sorted
  <2>6. CASE UNCHANGED vars
    <3>1. AtFrames(Linked[i], Place(Start, i, k))' = AtFrames(Linked[i], Place(Start, i, k))
      BY <1>1, <2>1, <2>2, <2>6 DEF AtFrames, Place
    <3>2. Scanning' = Scanning
      BY <1>1, <2>1, <2>2, <2>3, <2>6, <3>1 DEF Scanning
    <3>3. QED
      BY <1>2, <2>1, <2>4, <2>6, <3>2 DEF ScanInv
  <2>7. QED
    BY <1>5, <2>5, <2>6
<1>6. CASE ScanRefuses
  BY <1>6 DEF ScanRefuses, Raise, ScanInv, Sorted
<1>7. QED
  BY <1>3, <1>4, <1>5, <1>6

LEMMA InitScan == Init => ScanInv
BY DEF Init, ScanInv, Unscanned, Sorted

LEMMA ScanStep == ASSUME Built PROVE SortInv /\ LinkInv /\ ScanInv /\ [Next]_vars => ScanInv'
BY ScanReached, StatementScanned, UnitScanned, ScanElsewhere DEF Next

\* The contracts of stages 2 and 3, made unit by unit with a stack of frames and
\* the foundation's frame carried over, are the frames of the one emitted text, for
\* units whose blocks balance.
THEOREM ContractsAreFrames == ASSUME Built PROVE Spec => []ContractIsFrame
<1>1. ASSUME SortInv, LinkInv, ScanInv, Done, NEW n \in DOMAIN body,
             IsAssertion(body[n]), OneFloatEach(n)
      PROVE  contracts[body[n].label] = FrameOf(body, n)
  <2>1. LinkedOK /\ body = Text
    BY <1>1, DoneFacts
  <2>2. n \in 1..Len(Text) /\ Len(Text) \in Nat /\ n \in Nat /\ IsLabelled(Text[n])
    BY <1>1, <2>1, TextLaid DEF IsLabelled
  <2>3. PICK m, j : Sits(Start, n, m, j)
    BY <2>1, <2>2, StartIs, SitsSomewhere
  <2>4. /\ m \in 1..Len(Linked) /\ j \in Labelled(Linked[m]) /\ n = Place(Start, m, j)
        /\ Text[n] = Linked[m].stmts[j]
    BY <2>3 DEF Sits
  <2>5. j \in 1..Len(Linked[m].stmts)
    BY <2>1, <2>4, TextLaid, WrappedIs DEF Labelled
  <2>6. Contracted(m, j)
    BY <1>1, <2>4, <2>5 DEF ScanInv, AllScanned, Done
  <2>7. contracts[Text[n].label] = ContractAt(Text, n)
    BY <1>1, <2>1, <2>4, <2>6 DEF Contracted
  <2>8. \A a, b \in ActiveF(Text, n) : Text[a].var = Text[b].var => a = b
    BY <1>1, <2>1 DEF OneFloatEach
  <2>9. ContractAt(Text, n) = FrameOf(Text, n)
    BY <2>2, <2>8, ContractIs
  <2>10. QED
    BY <2>1, <2>7, <2>9
<1>2. SortInv /\ LinkInv /\ ScanInv => ContractIsFrame
  BY <1>1 DEF ContractIsFrame
<1>3. QED
  BY <1>2, InitSort, SortStep, InitLink, LinkStep, InitScan, ScanStep, PTL DEF Spec

-----------------------------------------------------------------------------
(* What a contract is about *)

\* A text t that has the statements of s: the first l of them in place, the others
\* moved by e.
Moved(l, e, x) == IF x <= l THEN x ELSE x + e
Spread(s, t, l, e) ==
    \A x \in 1..Len(s) : Moved(l, e, x) \in 1..Len(t) /\ t[Moved(l, e, x)] = s[x]

LEMMA AtMoved ==
    ASSUME NEW X, NEW s \in Seq(X), NEW t \in Seq(X), NEW l \in Nat, NEW e \in Nat,
           Spread(s, t, l, e), NEW S, S \subseteq 1..Len(s)
    PROVE  At(t, {Moved(l, e, x) : x \in S}) = At(s, S)
<1> DEFINE S1 == {x \in S : x <= l}
           S2 == {x \in S : ~(x <= l)}
           T2 == {e + x : x \in S2}
<1>1. S = S1 \cup S2 /\ \A x \in S : x \in Nat /\ x \in 1..Len(s)
  OBVIOUS
<1>2. {Moved(l, e, x) : x \in S} = S1 \cup T2
  <2>1. \A x \in S1 : Moved(l, e, x) = x
    BY DEF Moved
  <2>2. \A x \in S2 : Moved(l, e, x) = e + x
    BY <1>1 DEF Moved
  <2> HIDE DEF S1, S2
  <2>3. QED
    BY <1>1, <2>1, <2>2
<1>3. Shifted(s, S1, t, S1, 0)
  <2>1. \A x \in S1 : x \in 1..Len(t) /\ x \in 1..Len(s) /\ t[x] = s[x] /\ 0 + x = x
    BY <1>1 DEF Spread, Moved
  <2> HIDE DEF S1
  <2>2. QED
    BY <2>1 DEF Shifted
<1>4. Shifted(s, S2, t, T2, e)
  <2>1. \A x \in S2 : x \in 1..Len(s) /\ e + x \in 1..Len(t) /\ t[e + x] = s[x]
    BY <1>1 DEF Spread, Moved
  <2>2. S2 \cap 1..Len(s) = S2 /\ T2 \cap 1..Len(t) = T2
    BY <2>1
  <2> HIDE DEF S2
  <2>3. QED
    BY <2>1, <2>2 DEF Shifted
<1>5. Before(S1, S2) /\ Before(S1, T2)
  BY <1>1 DEF Before
<1> HIDE DEF S1, S2, T2
<1>6. At(t, S1) = At(s, S1) /\ At(t, T2) = At(s, S2)
  BY <1>3, <1>4, AtShift
<1>7. At(s, S1 \cup S2) = At(s, S1) \o At(s, S2)
  BY <1>5, AtJoin
<1>8. At(t, S1 \cup T2) = At(t, S1) \o At(t, T2)
  BY <1>5, AtJoin
<1>9. QED
  BY <1>1, <1>2, <1>6, <1>7, <1>8

\* If what is in scope at statement q of t is what is in scope at statement c of s,
\* moved, then the two have the same contract.
InScopeOf(s, q, op) == {x \in 1..Len(s) : s[x].op = op /\ InScope(s, x, q)}

LEMMA SameMandatory ==
    ASSUME NEW X, NEW s \in Seq(X), NEW t \in Seq(X), NEW l \in Nat, NEW e \in Nat,
           Spread(s, t, l, e), NEW c \in 1..Len(s), NEW q, q = Moved(l, e, c),
           InScopeOf(t, q, "e") = {Moved(l, e, x) : x \in InScopeOf(s, c, "e")}
    PROVE  MandatoryVars(t, q) = MandatoryVars(s, c)
<1> DEFINE mv(x) == Moved(l, e, x)
           E == ActiveE(s, c)
<1>1. t[q] = s[c] /\ E \subseteq 1..Len(s) /\ ActiveE(t, q) = {mv(x) : x \in E}
  BY DEF Spread, ActiveE, InScopeOf
<1>2. \A x \in E : t[mv(x)] = s[x]
  BY <1>1 DEF Spread
<1> HIDE DEF E, mv
<1>3. {VarsIn(t[j].expr) : j \in {mv(x) : x \in E}} = {VarsIn(s[j].expr) : j \in E}
  BY <1>2
<1>4. MandatoryVars(t, q) = VarsIn(s[c].expr) \cup UNION {VarsIn(t[j].expr) : j \in {mv(x) : x \in E}}
  BY <1>1 DEF MandatoryVars
<1>5. MandatoryVars(s, c) = VarsIn(s[c].expr) \cup UNION {VarsIn(s[j].expr) : j \in E}
  BY DEF MandatoryVars, E
<1>6. QED
  BY <1>3, <1>4, <1>5

LEMMA SameContract ==
    ASSUME NEW X, NEW s \in Seq(X), NEW t \in Seq(X), NEW l \in Nat, NEW e \in Nat,
           Spread(s, t, l, e), NEW c \in 1..Len(s), NEW q, q = Moved(l, e, c),
           \A op \in {"f", "e", "d"} :
              InScopeOf(t, q, op) = {Moved(l, e, x) : x \in InScopeOf(s, c, op)}
    PROVE  ContractAt(t, q) = ContractAt(s, c)
<1> DEFINE mv(x) == Moved(l, e, x)
<1>1. t[q] = s[c] /\ \A x \in 1..Len(s) : t[mv(x)] = s[x]
  BY DEF Spread
<1>2. /\ ActiveE(s, c) = InScopeOf(s, c, "e") /\ ActiveE(t, q) = InScopeOf(t, q, "e")
      /\ ActiveF(s, c) = InScopeOf(s, c, "f") /\ ActiveF(t, q) = InScopeOf(t, q, "f")
      /\ ActiveD(s, c) = UNION {PairsOf(s[j].vars) : j \in InScopeOf(s, c, "d")}
      /\ ActiveD(t, q) = UNION {PairsOf(t[j].vars) : j \in InScopeOf(t, q, "d")}
  BY DEF ActiveE, ActiveF, ActiveD, InScopeOf
<1>3. \A op : InScopeOf(s, c, op) \subseteq 1..Len(s)
  BY DEF InScopeOf
<1>4. /\ ActiveE(t, q) = {mv(x) : x \in ActiveE(s, c)} /\ ActiveE(s, c) \subseteq 1..Len(s)
      /\ ActiveF(t, q) = {mv(x) : x \in ActiveF(s, c)} /\ ActiveF(s, c) \subseteq 1..Len(s)
  BY <1>2, <1>3
<1>5. ActiveD(t, q) = ActiveD(s, c)
  <2> DEFINE D == InScopeOf(s, c, "d")
  <2>1. D \subseteq 1..Len(s) /\ InScopeOf(t, q, "d") = {mv(x) : x \in D}
    BY <1>3
  <2> HIDE DEF D, mv
  <2>2. \A x \in D : t[mv(x)] = s[x]
    BY <1>1, <2>1
  <2>3. {PairsOf(t[j].vars) : j \in {mv(x) : x \in D}} = {PairsOf(s[j].vars) : j \in D}
    BY <2>2
  <2>4. ActiveD(t, q) = UNION {PairsOf(t[j].vars) : j \in {mv(x) : x \in D}}
    BY <1>2, <2>1
  <2>5. ActiveD(s, c) = UNION {PairsOf(s[j].vars) : j \in D}
    BY <1>2 DEF D
  <2>6. QED
    BY <2>3, <2>4, <2>5
<1>6. MandatoryVars(t, q) = MandatoryVars(s, c)
  <2>1. InScopeOf(t, q, "e") = {Moved(l, e, x) : x \in InScopeOf(s, c, "e")}
    OBVIOUS
  <2>2. QED
    BY <2>1, SameMandatory
<1>7. Floats(t, q) = {mv(x) : x \in Floats(s, c)} /\ Floats(s, c) \subseteq 1..Len(s)
  <2> HIDE DEF mv
  <2>1. \A x \in ActiveF(s, c) : t[mv(x)] = s[x]
    BY <1>1, <1>4
  <2>2. QED
    BY <1>4, <1>6, <2>1 DEF Floats
<1>8. At(t, Floats(t, q)) = At(s, Floats(s, c))
  BY <1>7, AtMoved
<1>9. At(t, ActiveE(t, q)) = At(s, ActiveE(s, c))
  BY <1>4, AtMoved
<1>10. MandatoryD(t, q) = MandatoryD(s, c)
  BY <1>5, <1>6 DEF MandatoryD
<1>11. QED
  BY <1>8, <1>9, <1>10 DEF ContractAt

LEMMA InScopeShift ==
    ASSUME NEW s, NEW t, NEW o \in Nat, NEW n \in Nat, Repeats(t, o, s, n),
           NEW y \in 1..n, NEW j \in 1..n
    PROVE  InScope(t, o + y, o + j) <=> InScope(s, y, j)
<1>1. Depth(t, o) \in Int /\ \A z \in 0..n : Depth(t, o + z) = Depth(t, o) + Depth(s, z) /\ Depth(s, z) \in Int
  BY DepthShift, DepthType
<1>2. ASSUME InScope(s, y, j), NEW x \in o + y .. (o + j) - 1
      PROVE  Depth(t, x) >= Depth(t, o + y)
  <2>1. PICK z \in y .. j - 1 : x = o + z
    <3>1. x - o \in y .. j - 1 /\ x = o + (x - o)
      OBVIOUS
    <3>2. QED
      BY <3>1
  <2>2. Depth(s, z) >= Depth(s, y) /\ z \in 0..n /\ y \in 0..n
    BY <1>2 DEF InScope
  <2>3. QED
    BY <1>1, <2>1, <2>2
<1>3. ASSUME InScope(t, o + y, o + j), NEW z \in y .. j - 1
      PROVE  Depth(s, z) >= Depth(s, y)
  <2>1. o + z \in o + y .. (o + j) - 1 /\ z \in 0..n /\ y \in 0..n
    OBVIOUS
  <2>2. Depth(t, o + z) >= Depth(t, o + y)
    BY <1>3, <2>1 DEF InScope
  <2>3. QED
    BY <1>1, <2>1, <2>2
<1>4. o + y < o + j <=> y < j
  OBVIOUS
<1>5. QED
  BY <1>2, <1>3, <1>4 DEF InScope

\* The text a contract is about: the foundation if there is one before, and the unit.
Context(m) == Ground(Linked[m]) \o Linked[m].stmts
Base(m) == Len(Ground(Linked[m]))
Gap(m) == Place(Start, m, 0) - Base(m)

LEMMA GroundIs ==
    ASSUME LinkedOK, NEW m \in 1..Len(Linked)
    PROVE  \/ /\ Ground(Linked[m]) = <<>>
              /\ \A n \in 1..Len(Linked) : n < m => ~IsFoundation(Linked[n])
           \/ /\ 1 \in 1..Len(Linked) /\ 1 < m /\ IsFoundation(Linked[1]) /\ ~IsFoundation(Linked[m])
              /\ Ground(Linked[m]) = Linked[1].stmts
              /\ \A n \in 1..Len(Linked) : IsFoundation(Linked[n]) => n = 1
<1> DEFINE u == Linked[m]
           fs == {v \in ToSet(units) : IsFoundation(v)}
<1>1. /\ ToSet(Linked) = ToSet(units) /\ Len(Linked) \in Nat /\ DOMAIN Linked = 1..Len(Linked)
      /\ \A a, b \in 1..Len(Linked) : a # b /\ IsFoundation(Linked[a]) => a < b
  BY LinkedIs DEF LinkedOK
<1>2. ToSet(units) = {Linked[n] : n \in 1..Len(Linked)}
  BY <1>1 DEF ToSet
<1>3. CASE IsFoundation(u)
  <2>1. Ground(u) = <<>>
    BY <1>3 DEF Ground
  <2>2. \A n \in 1..Len(Linked) : n < m => ~IsFoundation(Linked[n])
    <3> SUFFICES ASSUME NEW n \in 1..Len(Linked), n < m, IsFoundation(Linked[n]) PROVE FALSE
      OBVIOUS
    <3>1. m < n
      BY <1>1, <1>3
    <3>2. QED
      BY <3>1
  <2>3. QED
    BY <2>1, <2>2
<1>4. CASE ~IsFoundation(u) /\ fs = {}
  <2>1. Ground(u) = <<>>
    BY <1>4 DEF Ground
  <2>2. QED
    BY <1>2, <1>4, <2>1
<1>5. CASE ~IsFoundation(u) /\ fs # {}
  <2>1. PICK n \in 1..Len(Linked) : IsFoundation(Linked[n])
    BY <1>2, <1>5
  <2>2. n = 1
    BY <1>1, <2>1
  <2>3. \A a \in 1..Len(Linked) : IsFoundation(Linked[a]) => a = 1
    <3> SUFFICES ASSUME NEW a \in 1..Len(Linked), IsFoundation(Linked[a]), a # 1 PROVE FALSE
      OBVIOUS
    <3>1. a < 1
      BY <1>1, <2>2
    <3>2. QED
      BY <3>1
  <2>4. fs = {Linked[1]}
    BY <1>2, <2>1, <2>2, <2>3
  <2>5. Ground(u) = Linked[1].stmts
    <3>1. (CHOOSE v \in fs : TRUE) = Linked[1]
      BY <2>4
    <3>2. QED
      BY <1>5, <3>1 DEF Ground
  <2>6. 1 < m
    BY <1>1, <1>5, <2>1, <2>2
  <2>7. QED
    BY <1>5, <2>1, <2>2, <2>3, <2>5, <2>6
<1>6. QED
  BY <1>3, <1>4, <1>5

LEMMA ContextIs ==
    ASSUME Built, LinkedOK, NEW m \in 1..Len(Linked)
    PROVE  LET u == Linked[m]
           IN  /\ Base(m) \in Nat /\ Gap(m) \in Nat /\ Context(m) \in Seq(Stmts)
               /\ Len(u.stmts) \in Nat /\ Len(Context(m)) = Base(m) + Len(u.stmts)
               /\ Repeats(Context(m), Base(m), u.stmts, Len(u.stmts))
               /\ Repeats(Text, Base(m) + Gap(m), u.stmts, Len(u.stmts))
               /\ Spread(Context(m), Text, Base(m), Gap(m))
               /\ \A x \in 0..Base(m) : Depth(Context(m), x) = Depth(Text, x)
               /\ Depth(Text, Base(m)) = 0 /\ Base(m) <= Len(Text)
               /\ \A j \in 1..Len(u.stmts) : /\ Place(Start, m, j) = Base(m) + Gap(m) + j
                                             /\ Place(Start, m, j) \in 1..Len(Text)
<1> DEFINE u == Linked[m]
           B == Ground(u)
           L == Base(m)
           s == Context(m)
           e == Gap(m)
           o == Place(Start, m, 0)
<1>1. /\ u \in Catalogue /\ u.stmts \in Seq(Stmts) /\ Len(u.stmts) \in Nat /\ Outer(u) \in {0, 1}
      /\ DOMAIN u.stmts = 1..Len(u.stmts)
  BY TextLaid, WrappedIs
<1>2. /\ Laid(Blocks, Text, Start) /\ Tiled(Blocks, Text, Start)
      /\ Blocks \in Seq(Seq(Stmts)) /\ Len(Blocks) = Len(Linked) /\ Text \in Seq(Stmts)
      /\ Len(Text) \in Nat /\ Len(Linked) \in Nat
  BY StartIs, TextLaid, LinkedIs DEF LinkedOK
<1>3. Start[m] \in Nat /\ o = Start[m] + Outer(u) /\ o \in Nat
  BY <1>1, <1>2, LaidWithin DEF Place
<1>4. \A j \in 1..Len(u.stmts) : /\ Place(Start, m, j) = o + j /\ Place(Start, m, j) \in 1..Len(Text)
                                 /\ Text[o + j] = u.stmts[j]
  <2> SUFFICES ASSUME NEW j \in 1..Len(u.stmts)
               PROVE  /\ Place(Start, m, j) = o + j /\ Place(Start, m, j) \in 1..Len(Text)
                      /\ Text[o + j] = u.stmts[j]
    OBVIOUS
  <2>1. Place(Start, m, j) = o + j
    BY <1>1, <1>3 DEF Place
  <2>2. Place(Start, m, j) \in 1..Len(Text) /\ Text[Place(Start, m, j)] = u.stmts[j]
    BY <1>2, Placed
  <2>3. QED
    BY <2>1, <2>2
<1>5. /\ B \in Seq(Stmts) /\ Len(B) \in Nat /\ Len(B) <= Start[m] /\ Len(B) <= Len(Text)
      /\ \A x \in 1..Len(B) : Text[x] = B[x]
      /\ \A x \in 0..Len(B) : Depth(Text, x) = Depth(B, x)
      /\ Depth(Text, Len(B)) = 0
  <2>1. CASE B = <<>>
    <3>1. Len(B) = 0 /\ B \in Seq(Stmts)
      BY <2>1
    <3>2. Depth(Text, 0) = 0 /\ Depth(B, 0) = 0
      BY DepthStart
    <3> HIDE DEF B
    <3>3. \A x \in 0..Len(B) : x = 0
      BY <3>1
    <3>4. QED
      BY <1>2, <1>3, <3>1, <3>2, <3>3
  <2>2. CASE /\ 1 \in 1..Len(Linked) /\ 1 < m /\ IsFoundation(Linked[1])
             /\ B = Linked[1].stmts
    <3> DEFINE v == Linked[1]
    <3>1. v \in Catalogue /\ Blocks[1] = Wrapped(v) /\ Outer(v) = 0 /\ Wrapped(v) = B /\ v.stmts \in Seq(Stmts)
      BY <2>2, TextLaid, WrappedIs DEF Outer, Wrapped
    <3>2. Start[1] = 0 /\ Start[1] + Len(Blocks[1]) <= Start[m]
      BY <1>2, <2>2 DEF Laid
    <3>3. /\ Len(Blocks[1]) \in Nat /\ Start[1] + Len(Blocks[1]) <= Len(Text)
          /\ \A x \in 1..Len(Blocks[1]) : Text[Start[1] + x] = Blocks[1][x]
      BY <1>2, <2>2, LaidWithin
    <3>4. \A x \in 0..Len(Blocks[1]) : Depth(Text, Start[1] + x) = Depth(Blocks[1], x)
      BY <1>2, <2>2, TextDepth
    <3>5. Balanced(v.stmts)
      BY <3>1 DEF Built
    <3>6. B \in Seq(Stmts) /\ Depth(B, Len(B)) = 0 /\ Blocks[1] = B
      BY <2>2, <3>1, <3>5 DEF Balanced
    <3> HIDE DEF B
    <3>7. Len(B) \in Nat /\ Len(B) \in 0..Len(B) /\ \A x \in 0..Len(B) : Start[1] + x = x
      BY <3>2, <3>3, <3>6
    <3>8. \A x \in 0..Len(B) : Depth(Text, x) = Depth(B, x)
      BY <3>4, <3>6, <3>7
    <3>9. \A x \in 1..Len(B) : Text[x] = B[x]
      BY <3>3, <3>6, <3>7
    <3>10. Len(B) <= Start[m] /\ Len(B) <= Len(Text)
      BY <3>2, <3>3, <3>6
    <3>11. QED
      BY <3>6, <3>7, <3>8, <3>9, <3>10
  <2>3. QED
    BY <2>1, <2>2, GroundIs
<1>6. L = Len(B) /\ s = B \o u.stmts /\ e = o - L
  BY DEF Base, Context, Gap
<1>7. L \in Nat /\ e \in Nat /\ L + e = o
  <2> HIDE DEF B, L, e, o, u
  <2>1. QED
    BY <1>1, <1>3, <1>5, <1>6
<1>8. /\ s \in Seq(Stmts) /\ Len(s) = L + Len(u.stmts)
      /\ \A x \in 1..L : s[x] = B[x]
      /\ \A y \in 1..Len(u.stmts) : s[L + y] = u.stmts[y]
  <2> HIDE DEF B, L, s
  <2>1. QED
    BY <1>1, <1>5, <1>6
<1> HIDE DEF B, L, s, e, o, u
<1>9. Repeats(s, L, u.stmts, Len(u.stmts)) /\ Repeats(Text, L + e, u.stmts, Len(u.stmts))
  BY <1>4, <1>7, <1>8 DEF Repeats
<1>10. Spread(s, Text, L, e)
  <2> SUFFICES ASSUME NEW x \in 1..Len(s)
               PROVE  Moved(L, e, x) \in 1..Len(Text) /\ Text[Moved(L, e, x)] = s[x]
    BY DEF Spread
  <2>1. CASE x <= L
    <3>1. x \in 1..L /\ x \in 1..Len(Text) /\ Moved(L, e, x) = x
      BY <1>2, <1>5, <1>6, <1>7, <2>1 DEF Moved
    <3>2. QED
      BY <1>5, <1>6, <1>8, <3>1
  <2>2. CASE ~(x <= L)
    <3>1. PICK y \in 1..Len(u.stmts) : x = L + y
      <4>1. x - L \in 1..Len(u.stmts) /\ x = L + (x - L)
        BY <1>1, <1>7, <1>8, <2>2
      <4>2. QED
        BY <4>1
    <3>2. Moved(L, e, x) = o + y
      BY <1>7, <2>2, <3>1 DEF Moved
    <3>3. QED
      BY <1>4, <1>8, <3>1, <3>2
  <2>3. QED
    BY <2>1, <2>2
<1>11. \A x \in 0..L : Depth(s, x) = Depth(Text, x)
  <2> SUFFICES ASSUME NEW x \in 0..L PROVE Depth(s, x) = Depth(Text, x)
    OBVIOUS
  <2>1. Repeats(s, 0, B, L)
    BY <1>7, <1>8 DEF Repeats
  <2>2. Depth(s, 0 + x) = Depth(s, 0) + Depth(B, x)
    BY <1>7, <2>1, DepthShift
  <2>3. Depth(s, 0) = 0 /\ Depth(B, x) \in Int /\ 0 + x = x
    BY <1>7, DepthStart, DepthType
  <2>4. QED
    BY <1>5, <1>6, <2>2, <2>3
<1>12. QED
  BY <1>1, <1>4, <1>5, <1>6, <1>7, <1>8, <1>9, <1>10, <1>11 DEF u, L, s, e, o

\* Of the text before a statement, only the foundation and the unit itself are in
\* scope there; and they are just as they are in the shorter text.
LEMMA ScopeMoved ==
    ASSUME Built, LinkedOK, NEW m \in 1..Len(Linked), NEW j \in 1..Len(Linked[m].stmts),
           NEW op \in {"f", "e", "d"}
    PROVE  InScopeOf(Text, Place(Start, m, j), op) =
              {Moved(Base(m), Gap(m), x) : x \in InScopeOf(Context(m), Base(m) + j, op)}
<1> DEFINE u == Linked[m]
           N == Len(u.stmts)
           L == Base(m)
           s == Context(m)
           e == Gap(m)
           p == Place(Start, m, j)
<1>1. /\ L \in Nat /\ e \in Nat /\ N \in Nat /\ Len(s) = L + N
      /\ Repeats(s, L, u.stmts, N) /\ Repeats(Text, L + e, u.stmts, N) /\ Spread(s, Text, L, e)
      /\ \A x \in 0..L : Depth(s, x) = Depth(Text, x)
      /\ Depth(Text, L) = 0 /\ L <= Len(Text)
      /\ \A y \in 1..N : Place(Start, m, y) = L + e + y /\ Place(Start, m, y) \in 1..Len(Text)
  BY ContextIs
<1>2. /\ Laid(Blocks, Text, Start) /\ Tiled(Blocks, Text, Start) /\ Len(Text) \in Nat
      /\ Len(Linked) \in Nat /\ u \in Catalogue
  BY StartIs, TextLaid, LinkedIs DEF LinkedOK
<1>3. p = L + e + j /\ p \in 1..Len(Text) /\ j \in 1..N /\ j \in Nat /\ L < p
  BY <1>1
<1>4. \A x \in 0..Len(Text) : Depth(Text, x) \in Nat
  BY <1>2, PlaceDepth
<1>5. \A y \in 0..N : Depth(u.stmts, y) \in Nat
  <2>1. Balanced(u.stmts)
    BY <1>2 DEF Built
  <2>2. \A y \in 1..N : Depth(u.stmts, y) >= 0 /\ Depth(u.stmts, y) \in Int
    BY <2>1, DepthType DEF Balanced
  <2>3. Depth(u.stmts, 0) = 0
    BY DepthStart
  <2>4. \A y \in 0..N : y = 0 \/ y \in 1..N
    BY <1>1
  <2>5. QED
    BY <2>2, <2>3, <2>4
<1>6. \A x \in 0..L + N : Depth(s, x) \in Nat
  <2> SUFFICES ASSUME NEW x \in 0..L + N PROVE Depth(s, x) \in Nat
    OBVIOUS
  <2>1. CASE x <= L
    <3>1. x \in 0..L /\ x \in 0..Len(Text)
      BY <1>1, <1>2, <2>1
    <3>2. QED
      BY <1>1, <1>4, <3>1
  <2>2. CASE ~(x <= L)
    <3>1. x - L \in 0..N /\ L + (x - L) = x /\ L \in 0..L
      <4>1. L \in Nat /\ N \in Nat
        BY <1>1
      <4> HIDE DEF L, N
      <4>2. QED
        BY <2>2, <4>1
    <3>2. Depth(s, L + (x - L)) = Depth(s, L) + Depth(u.stmts, x - L)
      BY <1>1, <3>1, DepthShift
    <3>3. Depth(s, L) = 0
      BY <1>1, <3>1
    <3>4. QED
      BY <1>5, <3>1, <3>2, <3>3
  <2>3. QED
    BY <2>1, <2>2
<1> HIDE DEF u, N, L, s, e, p
<1>7. ASSUME NEW x \in 1..L
      PROVE  InScope(s, x, L + j) <=> InScope(Text, x, p)
  <2>1. x \in 0..L /\ L \in 0..L /\ x \in 1..Len(Text) /\ x \in Nat /\ x < p /\ x < L + j
        /\ L \in x .. p - 1 /\ L \in x .. (L + j) - 1
    BY <1>1, <1>2, <1>3
  <2>2. Depth(s, x) = Depth(Text, x) /\ Depth(Text, x) \in Nat /\ Depth(s, L) = 0
    BY <1>1, <1>4, <2>1
  <2>3. InScope(Text, x, p) <=> Depth(Text, x) = 0
    <3>1. InScope(Text, x, p) => Depth(Text, L) >= Depth(Text, x)
      BY <2>1 DEF InScope
    <3>2. Depth(Text, x) = 0 => InScope(Text, x, p)
      BY <1>2, <1>3, <2>1, FoundationStays
    <3>3. QED
      BY <1>1, <2>2, <3>1, <3>2
  <2>4. InScope(s, x, L + j) <=> Depth(s, x) = 0
    <3>1. InScope(s, x, L + j) => Depth(s, L) >= Depth(s, x)
      BY <2>1 DEF InScope
    <3>2. ASSUME Depth(s, x) = 0, NEW z \in x .. (L + j) - 1 PROVE Depth(s, z) >= Depth(s, x)
      <4>1. z \in 0..L + N
        BY <1>1, <1>3, <2>1
      <4>2. QED
        BY <1>6, <3>2, <4>1
    <3>3. QED
      BY <2>1, <2>2, <3>1, <3>2 DEF InScope
  <2>5. QED
    BY <2>2, <2>3, <2>4
<1>8. ASSUME NEW y \in 1..N
      PROVE  InScope(s, L + y, L + j) <=> InScope(Text, L + e + y, p)
  <2>1. InScope(s, L + y, L + j) <=> InScope(u.stmts, y, j)
    BY <1>1, <1>3, InScopeShift
  <2>2. InScope(Text, (L + e) + y, (L + e) + j) <=> InScope(u.stmts, y, j)
    <3>1. L + e \in Nat
      BY <1>1
    <3>2. QED
      BY <1>1, <1>3, <3>1, InScopeShift
  <2>3. QED
    BY <1>3, <2>1, <2>2
<1>9. ASSUME NEW x \in 1..Len(s)
      PROVE  /\ InScope(s, x, L + j) <=> InScope(Text, Moved(L, e, x), p)
             /\ Moved(L, e, x) \in 1..Len(Text) /\ Text[Moved(L, e, x)] = s[x]
  <2>1. Moved(L, e, x) \in 1..Len(Text) /\ Text[Moved(L, e, x)] = s[x]
    BY <1>1 DEF Spread
  <2>2. CASE x <= L
    <3>1. x \in 1..L /\ Moved(L, e, x) = x
      BY <1>1, <2>2 DEF Moved
    <3>2. QED
      BY <1>7, <2>1, <3>1
  <2>3. CASE ~(x <= L)
    <3>1. x - L \in 1..N /\ x = L + (x - L)
      BY <1>1, <2>3
    <3>2. Moved(L, e, x) = L + e + (x - L)
      BY <1>1, <2>3 DEF Moved
    <3>3. InScope(s, L + (x - L), L + j) <=> InScope(Text, L + e + (x - L), p)
      BY <1>8, <3>1
    <3>4. QED
      BY <2>1, <3>1, <3>2, <3>3
  <2>4. QED
    BY <2>2, <2>3
<1>10. ASSUME NEW q \in InScopeOf(Text, p, op)
       PROVE  \E x \in 1..Len(s) : q = Moved(L, e, x)
  <2>1. q \in 1..Len(Text) /\ Text[q].op = op /\ InScope(Text, q, p) /\ q < p
    BY DEF InScopeOf, InScope
  <2>2. PICK n \in 1..Len(Linked) : \E y \in 1..Len(Linked[n].stmts) : q = Place(Start, n, y)
    BY <1>2, <2>1, PlaceOf
  <2>3. PICK y \in 1..Len(Linked[n].stmts) : q = Place(Start, n, y)
    BY <2>2
  <2>4. CASE n = m
    <3>1. y \in 1..N /\ q = L + e + y
      BY <1>1, <2>3, <2>4 DEF N, u
    <3>2. L + y \in 1..Len(s) /\ Moved(L, e, L + y) = q
      BY <1>1, <3>1 DEF Moved
    <3>3. QED
      BY <3>2
  <2>5. CASE m < n
    <3>1. p <= Start[m + 1] /\ Start[m + 1] < q /\ Start[m + 1] \in 1..Len(Text)
      BY <1>2, <2>3, <2>5, PlacesApart DEF p
    <3>2. QED
      BY <1>2, <1>3, <2>1, <3>1
  <2>6. CASE n < m /\ ~IsFoundation(Linked[n])
    <3>1. q <= Start[n + 1] /\ Start[n + 1] < p /\ Start[n + 1] \in 1..Len(Text)
      BY <1>2, <2>3, <2>6, PlacesApart DEF p
    <3>2. Start[n + 1] \in q .. p - 1
      BY <1>2, <1>3, <2>1, <3>1
    <3>3. Depth(Text, Start[n + 1]) >= Depth(Text, q)
      BY <2>1, <3>2 DEF InScope
    <3>4. Depth(Text, Start[n + 1]) = 0
      <4>1. n + 1 \in 1 .. Len(Linked) + 1
        BY <1>2
      <4>2. QED
        BY <1>2, <4>1, TextDepth
    <3>5. Depth(Text, q) = Outer(Linked[n]) + Depth(Linked[n].stmts, y) /\ Depth(Linked[n].stmts, y) \in Nat
      BY <1>2, <2>3, PlaceDepth
    <3>6. Outer(Linked[n]) = 1
      <4>1. Linked[n] \in Catalogue
        BY TextLaid
      <4>2. Len(Linked[n].stmts) # 0
        BY <4>1, WrappedIs
      <4>3. QED
        BY <2>6, <4>1, <4>2, WrappedIs
    <3>7. QED
      BY <3>3, <3>4, <3>5, <3>6
  <2>7. CASE n < m /\ IsFoundation(Linked[n])
    <3>1. n = 1 /\ Ground(Linked[m]) = Linked[1].stmts
      BY <2>7, GroundIs
    <3>2. Linked[1] \in Catalogue /\ Outer(Linked[1]) = 0 /\ Start[1] = 0
      BY <1>2, <2>7, <3>1, TextLaid DEF Outer, Laid
    <3>3. L = Len(Linked[1].stmts) /\ y \in 1..L /\ y \in Nat
      BY <2>3, <3>1 DEF L, Base
    <3>4. q = y
      BY <2>3, <3>1, <3>2, <3>3 DEF Place
    <3>5. q \in 1..Len(s) /\ Moved(L, e, q) = q
      BY <1>1, <3>3, <3>4 DEF Moved
    <3>6. QED
      BY <3>5
  <2>8. QED
    BY <1>2, <2>4, <2>5, <2>6, <2>7
<1>11. InScopeOf(Text, p, op) = {Moved(L, e, x) : x \in InScopeOf(s, L + j, op)}
  <2>1. ASSUME NEW q \in InScopeOf(Text, p, op)
        PROVE  \E x \in InScopeOf(s, L + j, op) : q = Moved(L, e, x)
    <3>1. PICK x \in 1..Len(s) : q = Moved(L, e, x)
      BY <1>10
    <3>2. x \in InScopeOf(s, L + j, op)
      BY <1>9, <3>1 DEF InScopeOf
    <3>3. QED
      BY <3>1, <3>2
  <2>2. ASSUME NEW x \in InScopeOf(s, L + j, op)
        PROVE  Moved(L, e, x) \in InScopeOf(Text, p, op)
    BY <1>9 DEF InScopeOf
  <2>3. QED
    BY <2>1, <2>2
<1>12. QED
  BY <1>11 DEF p, L, e, s

\* Only assertions of the units get a contract.
KeysInv ==
    DOMAIN contracts \subseteq UNION {{u.stmts[n].label : n \in Asserted(u)} : u \in ToSet(units)}

LEMMA KeysStep == ASSUME Built PROVE SortInv /\ LinkInv /\ ScanInv /\ KeysInv /\ [Next]_vars => KeysInv'
<1> SUFFICES ASSUME SortInv, LinkInv, ScanInv, KeysInv, [Next]_vars PROVE KeysInv'
  OBVIOUS
<1>1. CASE ScanStatement
  <2> DEFINE u == Linked[i]
  <2>1. pc = "contracts" /\ units' = units /\ k <= Len(u.stmts)
        /\ contracts' = IF IsAssertion(u.stmts[k])
                        THEN [l \in DOMAIN contracts \cup {u.stmts[k].label} |->
                                 IF l = u.stmts[k].label THEN Contract(u.stmts[k]) ELSE contracts[l]]
                        ELSE contracts
    BY <1>1 DEF ScanStatement
  <2>2. LinkedOK /\ Scanning
    BY <2>1, SortedFacts DEF Sorted, ScanInv
  <2>3. u \in ToSet(units) /\ u \in Catalogue /\ i \in 1..Len(Linked)
    BY <2>2, TextLaid DEF Scanning
  <2>4. k \in DOMAIN u.stmts
    <3>1. Len(u.stmts) \in Nat /\ DOMAIN u.stmts = 1..Len(u.stmts)
      BY <2>3, WrappedIs
    <3>2. QED
      BY <2>1, <2>2, <3>1 DEF Scanning
  <2> HIDE DEF u
  <2>5. CASE IsAssertion(u.stmts[k])
    <3>1. DOMAIN contracts' = DOMAIN contracts \cup {u.stmts[k].label}
      BY <2>1, <2>5
    <3>2. k \in Asserted(u)
      BY <2>4, <2>5 DEF Asserted
    <3>3. QED
      BY <2>1, <2>3, <3>1, <3>2 DEF KeysInv
  <2>6. CASE ~IsAssertion(u.stmts[k])
    BY <2>1, <2>6 DEF KeysInv
  <2>7. QED
    BY <2>5, <2>6
<1>2. CASE ~ScanStatement
  <2>1. contracts' = contracts /\ units' = units
    <3>1. CASE CheckUnit
      <4>1. i \in 1..Len(units) /\ UnitsOK
        BY <3>1 DEF SortInv, CheckUnit
      <4>2. QED
        BY <3>1, <4>1, ChecksDone DEF Raise, Advance, scan_vars
    <3>2. CASE ~CheckUnit
      BY <1>2, <3>2 DEF Next, CheckFoundations, IndexUnit, BuildGraph, AddNode, Prepare, SortGroup,
                        SortEnd, ScanRefuses, ScanUnitEnd, Plan, Raise, Advance, scan_vars, vars
    <3>3. QED
      BY <3>1, <3>2
  <2>2. QED
    BY <2>1 DEF KeysInv
<1>3. QED
  BY <1>1, <1>2

\* Stages 2 and 3 scan all units in one pass, with one frame and one stack, and let
\* only a foundation's frame pass from one to the next.  For units whose blocks
\* balance the contract of an assertion is the one it has in its own unit under the
\* foundation: it does not change when units are added to the build or reordered.
THEOREM ContractsStayLocal == ASSUME Built PROVE Spec => []ContractsAreLocal
<1>1. ASSUME SortInv, LinkInv, ScanInv, Done, NEW u \in ToSet(units), NEW j \in Asserted(u)
      PROVE  /\ u.stmts[j].label \in DOMAIN contracts
             /\ contracts[u.stmts[j].label] = ContractAt(Ground(u) \o u.stmts, Len(Ground(u)) + j)
  <2>1. LinkedOK
    BY <1>1, DoneFacts
  <2>2. PICK m \in 1..Len(Linked) : Linked[m] = u
    <3>1. u \in ToSet(Linked) /\ DOMAIN Linked = 1..Len(Linked)
      BY <2>1, LinkedIs DEF LinkedOK
    <3>2. QED
      BY <3>1 DEF ToSet
  <2>3. j \in 1..Len(u.stmts) /\ IsAssertion(u.stmts[j])
    <3>1. u \in Catalogue
      BY <2>1, <2>2, TextLaid
    <3>2. QED
      BY <3>1, WrappedIs DEF Asserted
  <2>4. Contracted(m, j)
    BY <1>1, <2>2, <2>3 DEF ScanInv, AllScanned, Done
  <2>5. /\ u.stmts[j].label \in DOMAIN contracts
        /\ contracts[u.stmts[j].label] = ContractAt(Text, Place(Start, m, j))
    BY <2>2, <2>3, <2>4 DEF Contracted
  <2>6. /\ Base(m) \in Nat /\ Gap(m) \in Nat /\ Context(m) \in Seq(Stmts) /\ Text \in Seq(Stmts)
        /\ Spread(Context(m), Text, Base(m), Gap(m))
        /\ Base(m) + j \in 1..Len(Context(m))
        /\ Place(Start, m, j) = Moved(Base(m), Gap(m), Base(m) + j)
    <3>1. /\ Base(m) \in Nat /\ Gap(m) \in Nat /\ Context(m) \in Seq(Stmts) /\ Text \in Seq(Stmts)
          /\ Spread(Context(m), Text, Base(m), Gap(m))
          /\ Len(u.stmts) \in Nat /\ Len(Context(m)) = Base(m) + Len(u.stmts)
          /\ Place(Start, m, j) = Base(m) + Gap(m) + j
      BY <1>1, <2>1, <2>2, <2>3, ContextIs, TextLaid
    <3>2. QED
      BY <2>3, <3>1 DEF Moved
  <2>7. \A op \in {"f", "e", "d"} :
           InScopeOf(Text, Place(Start, m, j), op) =
              {Moved(Base(m), Gap(m), x) : x \in InScopeOf(Context(m), Base(m) + j, op)}
    BY <1>1, <2>1, <2>2, <2>3, ScopeMoved
  <2>8. ContractAt(Text, Place(Start, m, j)) = ContractAt(Context(m), Base(m) + j)
    BY <2>6, <2>7, SameContract
  <2>9. QED
    BY <2>2, <2>5, <2>8 DEF Context, Base
<1>2. SortInv /\ LinkInv /\ ScanInv /\ KeysInv => ContractsAreLocal
  <2> SUFFICES ASSUME SortInv, LinkInv, ScanInv, KeysInv, Done PROVE ContractsAreLocal
    BY DEF ContractsAreLocal
  <2> DEFINE keys == UNION {{u.stmts[n].label : n \in Asserted(u)} : u \in ToSet(units)}
  <2>1. keys \subseteq DOMAIN contracts
    BY <1>1
  <2>2. DOMAIN contracts = keys
    BY <2>1 DEF KeysInv
  <2>3. QED
    BY <1>1, <2>2 DEF ContractsAreLocal
<1>3. Init => KeysInv
  BY DEF Init, KeysInv
<1>4. QED
  BY <1>2, <1>3, InitSort, SortStep, InitLink, LinkStep, InitScan, ScanStep, KeysStep, PTL DEF Spec


-----------------------------------------------------------------------------
(* What a verifier takes for granted *)

\* assertion j of u is declared, in its own unit and the foundation
DeclaredAt(u, j) == VarsDeclared(Ground(u) \o u.stmts, Len(Ground(u)) + j)

\* The emitted text is one that a verifier can take: its blocks balance, its labels
\* are distinct, its symbols are of the right kinds; and its assertions are declared
\* if, and only if, they are in their units.
VerifierReady ==
    Done =>
        /\ body \in Seq(ToSet(body)) /\ Balanced(body) /\ LabelsDistinct(body)
        /\ \A st \in ToSet(body) : WellKinded(st)
        /\ (\A n \in DOMAIN body : IsAssertion(body[n]) => VarsDeclared(body, n))
              <=> \A u \in ToSet(units) : \A j \in Asserted(u) : DeclaredAt(u, j)

LEMMA HasFloat ==
    ASSUME NEW s, Len(s) \in Nat, NEW v, NEW n
    PROVE  FloatOf(s, v, n) # 0 <=> \E j \in ActiveF(s, n) : s[j].var = v
<1> DEFINE F == {j \in ActiveF(s, n) : s[j].var = v}
<1>1. FloatOf(s, v, n) = IF F = {} THEN 0 ELSE CHOOSE j \in F : \A x \in F : x <= j
  BY DEF FloatOf
<1>2. F \subseteq 0..Len(s) /\ 0 \notin F
  BY DEF ActiveF
<1>3. F # {} <=> \E j \in ActiveF(s, n) : s[j].var = v
  OBVIOUS
<1> HIDE DEF F
<1>4. ASSUME F # {} PROVE FloatOf(s, v, n) \in F
  <2>1. PICK x \in F : \A y \in F : y <= x
    BY <1>2, <1>4, NatGreatest
  <2>2. (CHOOSE j \in F : \A y \in F : y <= j) \in F
    BY <2>1
  <2>3. QED
    BY <1>1, <1>4, <2>2
<1>5. QED
  BY <1>1, <1>2, <1>3, <1>4

\* Being declared is a matter of what is in scope.
LEMMA SameDeclared ==
    ASSUME NEW X, NEW s \in Seq(X), NEW t \in Seq(X), NEW l \in Nat, NEW e \in Nat,
           Spread(s, t, l, e), NEW c \in 1..Len(s), NEW q, q = Moved(l, e, c),
           \A op \in {"f", "e", "d"} :
              InScopeOf(t, q, op) = {Moved(l, e, x) : x \in InScopeOf(s, c, op)}
    PROVE  VarsDeclared(t, q) <=> VarsDeclared(s, c)
<1> DEFINE mv(x) == Moved(l, e, x)
           A == ActiveF(s, c)
           B == ActiveF(t, q)
           M == MandatoryVars(s, c)
<1>1. M = MandatoryVars(t, q)
  <2>1. InScopeOf(t, q, "e") = {Moved(l, e, x) : x \in InScopeOf(s, c, "e")}
    OBVIOUS
  <2>2. QED
    BY <2>1, SameMandatory
<1>2. B = {mv(x) : x \in A} /\ \A x \in A : t[mv(x)] = s[x]
  <2>1. A = InScopeOf(s, c, "f") /\ B = InScopeOf(t, q, "f") /\ A \subseteq 1..Len(s)
    BY DEF ActiveF, InScopeOf
  <2>2. QED
    BY <2>1 DEF Spread
<1>3. Len(s) \in Nat /\ Len(t) \in Nat
  OBVIOUS
<1> HIDE DEF A, B, M, mv
<1>4. \A v : (\E j \in B : t[j].var = v) <=> (\E j \in A : s[j].var = v)
  BY <1>2
<1>5. \A v : FloatOf(t, v, q) # 0 <=> FloatOf(s, v, c) # 0
  <2> TAKE v
  <2>1. FloatOf(t, v, q) # 0 <=> \E j \in B : t[j].var = v
    BY <1>3, HasFloat DEF B
  <2>2. FloatOf(s, v, c) # 0 <=> \E j \in A : s[j].var = v
    BY <1>3, HasFloat DEF A
  <2>3. QED
    BY <1>4, <2>1, <2>2
<1>6. (\A a, b \in B : t[a].var = t[b].var => t[a].tc = t[b].tc)
      <=> \A a, b \in A : s[a].var = s[b].var => s[a].tc = s[b].tc
  <2> DEFINE SameIn(x, y) == s[x].var = s[y].var => s[x].tc = s[y].tc
             Same(x, y) == t[x].var = t[y].var => t[x].tc = t[y].tc
  <2>1. \A x, y \in A : Same(mv(x), mv(y)) <=> SameIn(x, y)
    BY <1>2
  <2> HIDE DEF SameIn, Same
  <2>2. (\A a, b \in B : Same(a, b)) <=> \A x, y \in A : Same(mv(x), mv(y))
    BY <1>2
  <2>3. (\A a, b \in B : Same(a, b)) <=> \A x, y \in A : SameIn(x, y)
    BY <2>1, <2>2
  <2>4. QED
    BY <2>3 DEF SameIn, Same
<1>7. VarsDeclared(t, q) <=>
        /\ \A v \in M : FloatOf(t, v, q) # 0
        /\ \A a, b \in B : t[a].var = t[b].var => t[a].tc = t[b].tc
  BY <1>1 DEF VarsDeclared, B
<1>8. VarsDeclared(s, c) <=>
        /\ \A v \in M : FloatOf(s, v, c) # 0
        /\ \A a, b \in A : s[a].var = s[b].var => s[a].tc = s[b].tc
  BY DEF VarsDeclared, A, M
<1>9. QED
  BY <1>5, <1>6, <1>7, <1>8

LEMMA DeclaredMoved ==
    ASSUME Built, LinkedOK, NEW m \in 1..Len(Linked), NEW j \in 1..Len(Linked[m].stmts)
    PROVE  VarsDeclared(Text, Place(Start, m, j)) <=> DeclaredAt(Linked[m], j)
<1>1. /\ Base(m) \in Nat /\ Gap(m) \in Nat /\ Context(m) \in Seq(Stmts) /\ Text \in Seq(Stmts)
      /\ Spread(Context(m), Text, Base(m), Gap(m))
      /\ Base(m) + j \in 1..Len(Context(m))
      /\ Place(Start, m, j) = Moved(Base(m), Gap(m), Base(m) + j)
  <2>1. /\ Base(m) \in Nat /\ Gap(m) \in Nat /\ Context(m) \in Seq(Stmts) /\ Text \in Seq(Stmts)
        /\ Spread(Context(m), Text, Base(m), Gap(m))
        /\ Len(Linked[m].stmts) \in Nat /\ Len(Context(m)) = Base(m) + Len(Linked[m].stmts)
        /\ Place(Start, m, j) = Base(m) + Gap(m) + j
    BY ContextIs, TextLaid
  <2>2. QED
    BY <2>1 DEF Moved
<1>2. \A op \in {"f", "e", "d"} :
         InScopeOf(Text, Place(Start, m, j), op) =
            {Moved(Base(m), Gap(m), x) : x \in InScopeOf(Context(m), Base(m) + j, op)}
  BY ScopeMoved
<1>3. VarsDeclared(Text, Place(Start, m, j)) <=> VarsDeclared(Context(m), Base(m) + j)
  BY <1>1, <1>2, SameDeclared
<1>4. QED
  BY <1>3 DEF DeclaredAt, Context, Base


LEMMA TextBalanced == ASSUME Built, LinkedOK PROVE Balanced(Text)
<1>1. /\ Laid(Blocks, Text, Start) /\ Tiled(Blocks, Text, Start)
      /\ Len(Blocks) = Len(Linked) /\ Len(Linked) \in Nat /\ Len(Text) \in Nat
  BY StartIs, TextLaid, LinkedIs DEF LinkedOK
<1>2. Len(Text) = Start[Len(Linked) + 1] /\ Len(Linked) + 1 \in 1 .. Len(Linked) + 1
  BY <1>1 DEF Laid
<1>3. Depth(Text, Len(Text)) = 0
  BY <1>1, <1>2, TextDepth
<1>4. \A p \in 1..Len(Text) : Depth(Text, p) \in Nat
  <2>1. \A p \in 0..Len(Text) : Depth(Text, p) \in Nat
    BY <1>1, PlaceDepth
  <2>2. 1..Len(Text) \subseteq 0..Len(Text)
    OBVIOUS
  <2>3. QED
    BY <2>1, <2>2
<1>5. QED
  BY <1>3, <1>4 DEF Balanced

LEMMA TextLabels == ASSUME LinkedOK PROVE LabelsDistinct(Text)
<1> SUFFICES ASSUME NEW p \in 1..Len(Text), NEW q \in 1..Len(Text), IsLabelled(Text[p]),
                    IsLabelled(Text[q]), Text[p].label = Text[q].label
             PROVE  p = q
  <2>1. DOMAIN Text = 1..Len(Text)
    BY TextLaid
  <2>2. QED
    BY <2>1 DEF LabelsDistinct
<1>1. Laid(Blocks, Text, Start) /\ Tiled(Blocks, Text, Start)
  BY StartIs
<1>2. Text[p].op \notin {"enter", "exit"} /\ Text[q].op \notin {"enter", "exit"}
  BY DEF IsLabelled, IsHyp, IsAssertion
<1>3. PICK m \in 1..Len(Linked) : \E j \in 1..Len(Linked[m].stmts) :
         p = Place(Start, m, j) /\ Text[p] = Linked[m].stmts[j]
  BY <1>1, <1>2, PlaceOf
<1>4. PICK a \in 1..Len(Linked[m].stmts) : p = Place(Start, m, a) /\ Text[p] = Linked[m].stmts[a]
  BY <1>3
<1>5. PICK n \in 1..Len(Linked) : \E j \in 1..Len(Linked[n].stmts) :
         q = Place(Start, n, j) /\ Text[q] = Linked[n].stmts[j]
  BY <1>1, <1>2, PlaceOf
<1>6. PICK b \in 1..Len(Linked[n].stmts) : q = Place(Start, n, b) /\ Text[q] = Linked[n].stmts[b]
  BY <1>5
<1>7. m = n /\ a = b
  BY <1>4, <1>6, LabelsApart
<1>8. QED
  BY <1>4, <1>6, <1>7

LEMMA TextKinds == ASSUME LinkedOK, NEW p \in 1..Len(Text) PROVE WellKinded(Text[p])
<1>1. CASE Text[p].op \in {"enter", "exit"}
  BY <1>1 DEF WellKinded
<1>2. CASE Text[p].op \notin {"enter", "exit"}
  <2>1. PICK m \in 1..Len(Linked) : \E j \in 1..Len(Linked[m].stmts) :
           p = Place(Start, m, j) /\ Text[p] = Linked[m].stmts[j]
    BY <1>2, StartIs, PlaceOf
  <2>2. PICK j \in 1..Len(Linked[m].stmts) : Text[p] = Linked[m].stmts[j]
    BY <2>1
  <2>3. Linked[m] \in ToSet(units) /\ Linked[m] \in Catalogue
    BY TextLaid
  <2>4. Linked[m].stmts[j] \in ToSet(Linked[m].stmts)
    <3>1. DOMAIN Linked[m].stmts = 1..Len(Linked[m].stmts)
      BY <2>3, WrappedIs
    <3>2. QED
      BY <3>1 DEF ToSet
  <2>5. PICK n \in 1..Len(units) : Linked[m] = units[n]
    <3>1. DOMAIN units = 1..Len(units)
      BY DEF LinkedOK, UnitsOK
    <3>2. QED
      BY <2>3, <3>1 DEF ToSet
  <2>6. Clean(Linked[m])
    BY <2>5 DEF LinkedOK, Passed
  <2>7. QED
    BY <2>2, <2>4, <2>6 DEF Clean
<1>3. QED
  BY <1>1, <1>2

LEMMA TextDeclared ==
    ASSUME Built, LinkedOK
    PROVE  (\A n \in 1..Len(Text) : IsAssertion(Text[n]) => VarsDeclared(Text, n))
              <=> \A u \in ToSet(units) : \A j \in Asserted(u) : DeclaredAt(u, j)
<1>1. /\ ToSet(Linked) = ToSet(units) /\ DOMAIN Linked = 1..Len(Linked)
      /\ Laid(Blocks, Text, Start) /\ Tiled(Blocks, Text, Start)
      /\ \A m \in 1..Len(Linked) : Linked[m] \in ToSet(units)
                                   /\ DOMAIN Linked[m].stmts = 1..Len(Linked[m].stmts)
  <2>1. \A m \in 1..Len(Linked) : Linked[m] \in ToSet(units) /\ Linked[m] \in Catalogue
    BY TextLaid
  <2>2. \A m \in 1..Len(Linked) : DOMAIN Linked[m].stmts = 1..Len(Linked[m].stmts)
    BY <2>1, WrappedIs
  <2>3. QED
    BY <2>1, <2>2, StartIs, LinkedIs DEF LinkedOK
<1>2. ASSUME \A n \in 1..Len(Text) : IsAssertion(Text[n]) => VarsDeclared(Text, n),
             NEW u \in ToSet(units), NEW j \in Asserted(u)
      PROVE  DeclaredAt(u, j)
  <2>1. PICK m \in 1..Len(Linked) : Linked[m] = u
    BY <1>1 DEF ToSet
  <2>2. j \in 1..Len(Linked[m].stmts) /\ IsAssertion(Linked[m].stmts[j])
    BY <1>1, <2>1 DEF Asserted
  <2>3. Place(Start, m, j) \in 1..Len(Text) /\ Text[Place(Start, m, j)] = Linked[m].stmts[j]
    BY <1>1, <2>2, Placed
  <2>4. VarsDeclared(Text, Place(Start, m, j))
    BY <1>2, <2>2, <2>3
  <2>5. QED
    BY <2>1, <2>2, <2>4, DeclaredMoved
<1>3. ASSUME \A u \in ToSet(units) : \A j \in Asserted(u) : DeclaredAt(u, j),
             NEW n \in 1..Len(Text), IsAssertion(Text[n])
      PROVE  VarsDeclared(Text, n)
  <2>1. Text[n].op \notin {"enter", "exit"}
    BY <1>3 DEF IsAssertion
  <2>2. PICK m \in 1..Len(Linked) : \E j \in 1..Len(Linked[m].stmts) :
           n = Place(Start, m, j) /\ Text[n] = Linked[m].stmts[j]
    BY <2>1, StartIs, PlaceOf
  <2>3. PICK j \in 1..Len(Linked[m].stmts) : n = Place(Start, m, j) /\ Text[n] = Linked[m].stmts[j]
    BY <2>2
  <2>4. j \in Asserted(Linked[m]) /\ Linked[m] \in ToSet(units)
    BY <1>1, <1>3, <2>3 DEF Asserted
  <2>5. DeclaredAt(Linked[m], j)
    BY <1>3, <2>4
  <2>6. QED
    BY <2>3, <2>5, DeclaredMoved
<1>4. QED
  BY <1>2, <1>3

\* A text that was linked is one that the verifier can take (VerifierAssumption of
\* MMVerify), and its soundness applies to it (Ordinary of Consequence) as soon as
\* each unit declares the variables of its assertions, over the foundation: linking
\* neither makes up for a missing $f nor hides one, nor sets two of different types
\* against each other.  The units must have balanced blocks, as the builder's have.
THEOREM LinkedIsReady == ASSUME Built PROVE Spec => []VerifierReady
<1>1. ASSUME SortInv, LinkInv, Done PROVE VerifierReady
  <2>1. LinkedOK /\ body = Text
    BY <1>1, DoneFacts
  <2>2. Text \in Seq(Stmts) /\ DOMAIN Text = 1..Len(Text)
    BY <2>1, TextLaid
  <2>3. Text \in Seq(ToSet(Text))
    BY <2>2 DEF ToSet
  <2>4. \A st \in ToSet(Text) : WellKinded(st)
    BY <2>1, <2>2, TextKinds DEF ToSet
  <2>5. Balanced(Text) /\ LabelsDistinct(Text)
    BY <2>1, TextBalanced, TextLabels
  <2>6. (\A n \in DOMAIN Text : IsAssertion(Text[n]) => VarsDeclared(Text, n))
           <=> \A u \in ToSet(units) : \A j \in Asserted(u) : DeclaredAt(u, j)
    BY <2>1, <2>2, TextDeclared
  <2>7. QED
    BY <2>1, <2>3, <2>4, <2>5, <2>6 DEF VerifierReady
<1>2. SortInv /\ LinkInv => VerifierReady
  BY <1>1 DEF VerifierReady
<1>3. QED
  BY <1>2, InitSort, SortStep, InitLink, LinkStep, PTL DEF Spec
=============================================================================
