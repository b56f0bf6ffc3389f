-------------------------------- MODULE Assertion --------------------------------
(***************************************************************************)
(* Terms and the application of an assertion in a proof                    *)
(* (skfd/authoring/term.py, language.py, assertion.py).  A term is <<v>>   *)
(* for a variable v, or <<c, t1, ..., tn>> for a constructor c.  The only  *)
(* judgment is "provable", so a judgment is its term.  An operation of the *)
(* code that can fail is a set here: empty if it raises an error.          *)
(***************************************************************************)
EXTENDS Naturals, Sequences, FiniteSets, SequencesExt

CONSTANTS
    Variables,     \* the variables of all assertions (a variable has an owner)
    SortOf,        \* the sort of a variable (by its kind)
    Inputs,        \* the sorts of the arguments of a constructor
    Output,        \* its own sort
    BinderArgs     \* the arguments of a constructor that must be variables

IsVar(t) == t[1] \in Variables
Args(t) == Tail(t)
Sort(t) == IF IsVar(t) THEN SortOf[t[1]] ELSE Output[t[1]]

RECURSIVE variables(_)
variables(t) ==
    IF IsVar(t) THEN {t[1]} ELSE UNION {variables(arg) : arg \in ToSet(Args(t))}

RECURSIVE WellFormed(_)
\* LanguageInterface.apply, all the way down
WellFormed(t) ==
    \/ IsVar(t)
    \/ /\ t[1] \in DOMAIN Inputs
       /\ Len(Args(t)) = Len(Inputs[t[1]])
       /\ \A n \in DOMAIN Args(t) : WellFormed(Args(t)[n]) /\ Sort(Args(t)[n]) = Inputs[t[1]][n]
       /\ \A n \in BinderArgs[t[1]] : IsVar(Args(t)[n])

RECURSIVE Matches(_, _, _)
\* _unify_term: the shapes agree, up to the variables vs of the pattern
Matches(pattern, actual, vs) ==
    IF IsVar(pattern) /\ pattern[1] \in vs THEN Sort(pattern) = Sort(actual)
    ELSE IF IsVar(pattern) \/ IsVar(actual) THEN pattern = actual
    ELSE /\ pattern[1] = actual[1] /\ Len(pattern) = Len(actual)
         /\ \A n \in DOMAIN Args(pattern) : Matches(Args(pattern)[n], Args(actual)[n], vs)

RECURSIVE Demands(_, _, _)
\* what each of them must stand for then
Demands(pattern, actual, vs) ==
    IF IsVar(pattern)
    THEN IF pattern[1] \in vs THEN {<<pattern[1], actual>>} ELSE {}
    ELSE UNION {Demands(Args(pattern)[n], Args(actual)[n], vs) : n \in DOMAIN Args(pattern)}

RECURSIVE Instantiate(_, _)
Instantiate(t, subst) ==
    IF IsVar(t) THEN IF t[1] \in DOMAIN subst THEN subst[t[1]] ELSE t
    ELSE <<t[1]>> \o [n \in DOMAIN Args(t) |-> Instantiate(Args(t)[n], subst)]

-----------------------------------------------------------------------------
(* Signatures, proofs and steps *)

JudgmentsOf(a) == ToSet(a.premises) \cup {a.conclusion}
VariablesIn(terms) == UNION {variables(t) : t \in terms}

\* AssertionSignature: exactly the variables of its judgments are declared
ValidSignature(a) ==
    /\ IsInjective(a.vars)
    /\ ToSet(a.vars) = VariablesIn(JudgmentsOf(a))
    /\ UNION a.distinct \subseteq ToSet(a.vars)
    /\ \A t \in JudgmentsOf(a) : WellFormed(t)

\* a proof of the theorem a under the distinct-variable conditions active
Prefix(a, active) == [of |-> a, steps |-> <<>>, active |-> active]

\* CheckedProofPrefix: on the variables of the theorem they are its own
ValidPrefix(p) == p.of.distinct = {pair \in p.active : pair \subseteq ToSet(p.of.vars)}

\* positions: hypotheses first, then steps
Known(p) == 1 .. Len(p.of.premises) + Len(p.steps)
ResultAt(p, n) ==
    IF n <= Len(p.of.premises) THEN p.of.premises[n]
    ELSE p.steps[n - Len(p.of.premises)].result

\* The substitution of a that an explicit one and the terms it must match leave
\* (none if they conflict, or if a variable is not determined)
Substitutions(a, asked, explicit) ==
    LET vs == ToSet(a.vars)
        demands == {<<v, explicit[v]>> : v \in DOMAIN explicit}
                      \cup UNION {Demands(pair[1], pair[2], vs) : pair \in asked}
    IN  IF /\ DOMAIN explicit \subseteq vs
           /\ \A v \in DOMAIN explicit : Sort(explicit[v]) = SortOf[v]
           /\ \A pair \in asked : Matches(pair[1], pair[2], vs)
           /\ \A one, other \in demands : one[1] = other[1] => one = other
           /\ vs \subseteq {pair[1] : pair \in demands}
        THEN {[v \in vs |-> (CHOOSE pair \in demands : pair[1] = v)[2]]}
        ELSE {}

\* (variant: the substituted terms must differ, their pairs need not be declared)
DistinctKept_OverlapOnly(p, a, subst) ==
    \A pair \in a.distinct : \A x, y \in pair :
        x # y => variables(subst[x]) \cap variables(subst[y]) = {}
\* For each pair of a, no variable is in both terms and each two are declared
\* distinct in the proof.  (A variable paired with itself cannot be satisfied.)
DistinctKept(p, a, subst) ==
    \A pair \in a.distinct : \A x, y \in pair :
        x # y \/ pair = {x} =>
            \A u \in variables(subst[x]), v \in variables(subst[y]) : u # v /\ {u, v} \in p.active

\* the pairs of the proof that a step needs
Satisfied(p, a, subst) ==
    {needed \in p.active : \E pair \in a.distinct : \E x, y \in pair :
        \E u \in variables(subst[x]), v \in variables(subst[y]) : x # y /\ needed = {u, v}}

\* _apply_assertion_step; target is empty or holds the judgment to reach
ApplyAssertion(p, a, premises, target, explicit) ==
    LET asked == {<<a.premises[n], ResultAt(p, premises[n])>> : n \in DOMAIN premises}
                     \cup {<<a.conclusion, t>> : t \in target}
    IN  IF Len(premises) # Len(a.premises) \/ a.label = p.of.label
           \/ ~(ToSet(premises) \subseteq Known(p))
        THEN {}
        ELSE {[cites |-> a.label, premises |-> premises, subst |-> subst,
               result |-> Instantiate(a.conclusion, subst), satisfied |-> Satisfied(p, a, subst)] :
                 subst \in {s \in Substitutions(a, asked, explicit) :
                               /\ WellFormed(Instantiate(a.conclusion, s))
                               /\ DistinctKept(p, a, s)}}

\* the positions that the root needs
Reachable(p, root) ==
    LET offset == Len(p.of.premises)
        back[n \in 0 .. Len(p.steps)] ==
            IF n = 0 THEN {root}
            ELSE LET at == offset + Len(p.steps) + 1 - n
                 IN  back[n - 1] \cup (IF at \in back[n - 1]
                                       THEN ToSet(p.steps[at - offset].premises) ELSE {})
    IN  back[Len(p.steps)]

\* _validate_complete_proof: the root proves the conclusion, no step is idle
Completes(p, root) ==
    /\ root \in Known(p)
    /\ ResultAt(p, root) = p.of.conclusion
    /\ \A n \in DOMAIN p.steps : Len(p.of.premises) + n \in Reachable(p, root)

\* replay_proof: every step again, by signatures sig, with its result as target
Replayable(p, sig) ==
    LET done(n) == [p EXCEPT !.steps = SubSeq(@, 1, n - 1)]
    IN  \A n \in DOMAIN p.steps :
            LET st == p.steps[n]
            IN  /\ st.cites \in DOMAIN sig
                /\ st \in ApplyAssertion(done(n), sig[st.cites], st.premises,
                                         {st.result}, st.subst)
=============================================================================
