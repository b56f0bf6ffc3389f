---------------------------- MODULE ReferenceCycles ----------------------------
(***************************************************************************)
(* The depth-first search for circles among the references of proofs       *)
(* (proof/validate.py).  Python's call stack is path, its nodes are the    *)
(* temporary ones; walked are the references that the loops over sorted    *)
(* dependencies have come by, so that each knows what is next.  The limit  *)
(* that Python sets to the depth of calls, about a thousand, is left out:  *)
(* a longer chain of references would end the validation with an error.    *)
(***************************************************************************)
EXTENDS DependencyOrder

\* visit() begins
\* (variant: a node is done as soon as it is entered)
Entered_Done(search, node) ==
    [search EXCEPT !.path = Append(@, node), !.done = @ \cup {node}]
Entered(search, node) == [search EXCEPT !.path = Append(@, node)]

\* visit() ends
Left(search) ==
    [search EXCEPT !.done = @ \cup {Last(search.path)}, !.path = Front(@)]

\* a temporary node is met again: an issue.  (No circle is met twice, seen_cycles
\* is always without effect.)
Reported(search, node) ==
    LET from == CHOOSE n \in DOMAIN search.path : search.path[n] = node
        cycle == {search.path[n] : n \in from .. Len(search.path)}
    IN  [search EXCEPT !.issues = @ \cup {<<"cycle", node, cycle>>}]

\* visit(dep)
Visited(search, dep) ==
    CASE dep \in search.done -> search
      [] dep \notin search.done /\ dep \in ToSet(search.path) -> Reported(search, dep)
      [] OTHER -> Entered(search, dep)

\* what the innermost loop does next
Continued(graph, sorted, search) ==
    IF search.path = <<>>
    THEN LET roots == DOMAIN graph \ search.done
         IN  IF roots = {} THEN search ELSE Entered(search, Earliest(sorted, roots))
    ELSE LET node == Last(search.path)
             ahead == {dep \in graph[node] : <<node, dep>> \notin search.walked}
             dep == Earliest(sorted, ahead)
         IN  IF ahead = {} THEN Left(search)
             ELSE Visited([search EXCEPT !.walked = @ \cup {<<node, dep>>}], dep)

\* each node is entered and left, each reference walked, at most once
MaxSteps(graph) == LET n == Cardinality(DOMAIN graph) IN n * n + 2 * n

CycleIssues(graph, sorted) ==
    LET search[n \in 0 .. MaxSteps(graph)] ==
            IF n = 0 THEN [done |-> {}, path |-> <<>>, walked |-> {}, issues |-> {}]
            ELSE Continued(graph, sorted, search[n - 1])
    IN  search[MaxSteps(graph)].issues
=============================================================================
