---------------------------- MODULE DependencyOrder ----------------------------
(***************************************************************************)
(* The order in which lemmas are emitted (authoring/emit.py): deps gives    *)
(* the lemmas each lemma depends on, byName is all their names, sorted.     *)
(***************************************************************************)
EXTENDS Integers, FiniteSets, SequencesExt

\* (variant: a lemma is ready with its first dependency)
Ready_First(deps, done) == {l \in DOMAIN deps \ done : deps[l] \cap done # {} \/ deps[l] = {}}
Ready(deps, done) == {l \in DOMAIN deps \ done : deps[l] \subseteq done}

\* ready.sort(), ready.pop(0)
Earliest(byName, S) ==
    byName[CHOOSE n \in DOMAIN byName : byName[n] \in S /\ \A m \in 1 .. n - 1 : byName[m] \notin S]
Emitted(deps, byName, order) ==
    LET ready == Ready(deps, ToSet(order))
    IN  IF ready = {} THEN order ELSE Append(order, Earliest(byName, ready))

\* the order of emission: always the first ready lemma by name; shorter than
\* deps if there is a cycle
EmissionOrder(deps, byName) ==
    LET order[n \in 0 .. Cardinality(DOMAIN deps)] ==
            IF n = 0 THEN <<>> ELSE Emitted(deps, byName, order[n - 1])
    IN  order[Cardinality(DOMAIN deps)]
=============================================================================
