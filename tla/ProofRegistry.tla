----------------------------- MODULE ProofRegistry -----------------------------
(***************************************************************************)
(* The validation of a registry of proof constructors before anything is   *)
(* emitted (proof/validate.py).  constructors is a sequence of             *)
(* [key, lemma], lemma being <<>> if the constructor raises; an issue is   *)
(* <<kind, lemma, detail>>.  The code says it is independent of emission:  *)
(* whether the two agree is a property of ProofScript.                     *)
(***************************************************************************)
EXTENDS ReferenceCycles

LOCAL RefsOf(lemma) == {st.ref : st \in {s \in ToSet(lemma.steps) : s.op = "ref"}}

\* the proofs by name, the first of each, and what is wrong with the others
Registered(constructors) ==
    FoldLeft(LAMBDA acc, c :
        IF c.lemma = <<>>
        THEN [acc EXCEPT !.issues = @ \cup {<<"constructor_error", c.key, {}>>}]
        ELSE LET name == c.lemma.name
                 misnamed == IF name = c.key THEN {} ELSE {<<"name_mismatch", c.key, {name}>>}
             IN  IF name \in DOMAIN acc.proofs
                 THEN [acc EXCEPT !.issues = @ \cup misnamed \cup {<<"duplicate_proof", name, {}>>}]
                 ELSE [proofs |-> [l \in DOMAIN acc.proofs \cup {name} |->
                                      IF l = name THEN c.lemma ELSE acc.proofs[l]],
                       issues |-> acc.issues \cup misnamed],
        [proofs |-> [l \in {} |-> {}], issues |-> {}], constructors)

\* the references among the proofs
RefGraph(proofs) == [l \in DOMAIN proofs |-> RefsOf(proofs[l]) \cap DOMAIN proofs]
RefIssues(proofs, known) ==
    UNION {{<<IF ref = l THEN "self_reference" ELSE "unknown_ref", l, {ref}>> :
              ref \in {r \in RefsOf(proofs[l]) : r = l \/ r \notin DOMAIN proofs \cup known}} :
             l \in DOMAIN proofs}

\* validate_proof_registry: known are the axioms, the reserved labels and other
\* known references; sorted is the order of names
RegistryIssues(constructors, known, sorted) ==
    LET registry == Registered(constructors)
    IN  registry.issues \cup RefIssues(registry.proofs, known)
          \cup CycleIssues(RefGraph(registry.proofs), sorted)
=============================================================================
