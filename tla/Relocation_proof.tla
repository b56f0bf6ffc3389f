--------------------------- MODULE Relocation_proof ---------------------------
(***************************************************************************)
(* Proofs that the relocation table is one to one and that the search for  *)
(* a free suffix is bounded, for tables of every size and all names.       *)
(***************************************************************************)
EXTENDS Relocation, FiniteSetTheorems, TLAPS

\* The table and the search stay in their ranges.
THEOREM TypeCorrect == Spec => []TypeOK
<1>1. Init => TypeOK
  <2> SUFFICES ASSUME Init PROVE TypeOK
    OBVIOUS
  <2>1. local_name[1] \in Names /\ 1 \in 1 .. N + 1
    BY RelocationAssumption DEF Init, Ids
  <2>2. <<>> \in Seq(Names) /\ Len(<<>>) = 0
    OBVIOUS
  <2>3. QED
    BY <2>1, <2>2, RelocationAssumption DEF Init, TypeOK
<1>2. TypeOK /\ [Next]_vars => TypeOK'
  <2> SUFFICES ASSUME TypeOK, [Next]_vars PROVE TypeOK'
    OBVIOUS
  <2>1. CASE Retry
    BY <2>1, RelocationAssumption DEF Retry, NextCounter, TypeOK, Ids
  <2>2. CASE Assign
    <3>1. candidate' \in Names
      BY <2>2, RelocationAssumption DEF Assign, FirstCandidate, TypeOK, Ids
    <3>2. QED
      BY <2>2, <3>1, RelocationAssumption DEF Assign, NowUsed, Relocated, TypeOK, Ids
  <2>3. CASE UNCHANGED vars
    BY <2>3 DEF vars, TypeOK
  <2>4. QED
    BY <2>1, <2>2, <2>3 DEF Next
<1>3. QED
  BY <1>1, <1>2, PTL DEF Spec

\* The k-th name tried for symbol i.
Tried(i, k) == IF k = 0 THEN local_name[i] ELSE Suffixed[<<local_name[i], k - 1>>]

\* What makes injectivity and the bound inductive: used_names are exactly the
\* names of the table, and all names tried for the current symbol but the
\* candidate are among them.
IInv ==
    /\ Injective
    /\ used_names = {reloc_table[i] : i \in 1 .. sid - 1}
    /\ sid \in Ids => /\ candidate = Tried(sid, counter)
                      /\ \A k \in 0 .. counter - 1 : Tried(sid, k) \in used_names

LEMMA IInvStep == TypeOK /\ IInv /\ [Next]_vars => IInv'
<1> SUFFICES ASSUME TypeOK, IInv, [Next]_vars PROVE IInv'
  OBVIOUS
<1>1. CASE Retry
  <2>1. candidate' = Tried(sid, counter + 1) /\ Tried(sid, counter) \in used_names
    BY <1>1 DEF Retry, IInv, Tried, TypeOK
  <2>2. \A k \in 0 .. counter' - 1 : Tried(sid, k) \in used_names
    BY <1>1, <2>1 DEF Retry, NextCounter, IInv, TypeOK
  <2>3. QED
    BY <1>1, <2>1, <2>2 DEF Retry, NextCounter, IInv, Injective, Tried
<1>2. CASE Assign
  <2>1. /\ sid \in Nat \ {0} /\ Len(reloc_table) = sid - 1
        /\ reloc_table \in Seq(Names) /\ candidate \in Names
    BY <1>2 DEF Assign, TypeOK, Ids
  <2>2. /\ Len(reloc_table') = sid /\ DOMAIN reloc_table' = 1..sid
        /\ reloc_table'[sid] = candidate
        /\ \A i \in 1 .. sid - 1 : reloc_table'[i] = reloc_table[i]
    BY <1>2, <2>1 DEF Assign, Relocated
  <2>3. \A i \in 1 .. sid - 1 : reloc_table[i] # candidate
    BY <1>2 DEF Assign, IInv
  <2>4. Injective'
    BY <2>1, <2>2, <2>3 DEF IInv, Injective
  <2>5. used_names' = {reloc_table'[i] : i \in 1..sid}
    BY <1>2, <2>1, <2>2 DEF Assign, NowUsed, IInv
  <2>6. sid' = sid + 1 /\ counter' = 0 /\ sid' - 1 = sid
    BY <1>2, <2>1 DEF Assign
  <2>7. sid' \in Ids => candidate' = local_name'[sid']
    BY <1>2, <2>1, <2>6, RelocationAssumption DEF Assign, FirstCandidate, Ids
  <2>8. used_names' = {reloc_table'[i] : i \in 1 .. sid' - 1}
    BY <2>5, <2>6
  <2>9. sid' \in Ids =>
           /\ candidate' = IF counter' = 0 THEN local_name'[sid']
                           ELSE Suffixed[<<local_name'[sid'], counter' - 1>>]
           /\ \A k \in 0 .. counter' - 1 :
                 (IF k = 0 THEN local_name'[sid']
                  ELSE Suffixed[<<local_name'[sid'], k - 1>>]) \in used_names'
    BY <2>6, <2>7
  <2>10. QED
    BY <2>4, <2>8, <2>9 DEF IInv, Tried
<1>3. CASE UNCHANGED vars
  BY <1>3 DEF vars, IInv, Injective, Tried
<1>4. QED
  BY <1>1, <1>2, <1>3 DEF Next

LEMMA Inductive == Spec => []IInv
<1>1. Init => IInv
  BY DEF Init, IInv, Injective, Tried
<1>2. QED
  BY <1>1, IInvStep, TypeCorrect, PTL DEF Spec

\* Distinct symbols get distinct names in the emitted file, although labels,
\* constants and variables of all modules share its namespace (stage 6).
THEOREM RelocationInjective == Spec => []Injective
<1>1. IInv => Injective
  BY DEF IInv
<1>2. QED
  BY <1>1, Inductive, PTL

\* The names tried for one symbol are all different.
LEMMA TriedDiffer ==
    ASSUME TypeOK, NEW i \in Ids, NEW k \in 0..N, NEW m \in 0..N, Tried(i, k) = Tried(i, m)
    PROVE  k = m
<1>1. local_name[i] \in LocalNames
  BY DEF TypeOK
<1>2. CASE k = 0 \/ m = 0
  BY <1>1, <1>2, RelocationAssumption DEF Tried
<1>3. CASE k # 0 /\ m # 0
  <2>1. k - 1 \in 0..N /\ m - 1 \in 0..N
    BY <1>3, RelocationAssumption
  <2>2. k - 1 = m - 1
    BY <1>1, <1>3, <2>1, RelocationAssumption DEF Tried
  <2>3. QED
    BY <2>2, RelocationAssumption
<1>4. QED
  BY <1>2, <1>3

\* A symbol after k others is named after at most k failed tries, by counting:
\* each try met a different used name.  So the loop of the pass, which has no
\* bound of its own, ends, and the bound N on the suffix excludes nothing.
THEOREM SearchIsShort == Spec => []SuffixBound
<1>1. TypeOK /\ IInv => SuffixBound
  <2> SUFFICES ASSUME TypeOK, IInv, sid \in Ids PROVE counter <= sid - 1
    BY DEF SuffixBound
  <2> DEFINE tries == 0 .. counter - 1
             names == {Tried(sid, k) : k \in tries}
             named == 1 .. sid - 1
  <2>1. counter \in 0 .. N + 1 /\ sid \in Nat \ {0} /\ N \in Nat
    BY RelocationAssumption DEF TypeOK, Ids
  <2>2. IsFiniteSet(tries) /\ Cardinality(tries) = counter
    BY <2>1, FS_Interval
  <2>3. IsFiniteSet(named) /\ Cardinality(named) = sid - 1
    BY <2>1, FS_Interval
  <2>4. \A k, m \in tries : Tried(sid, k) = Tried(sid, m) => k = m
    <3>1. tries \subseteq 0..N
      BY <2>1
    <3>2. QED
      BY <3>1, TriedDiffer
  <2>5. Cardinality(names) = counter
    <3> DEFINE f == [k \in tries |-> Tried(sid, k)]
    <3>0. f \in [tries -> names] /\ \A k \in tries : f[k] = Tried(sid, k)
      OBVIOUS
    <3>1. f \in Bijection(tries, names)
      <4>1. \A k, m \in tries : f[k] = f[m] => k = m
        BY <2>4, <3>0
      <4>2. \A t \in names : \E k \in tries : f[k] = t
        BY <3>0
      <4>3. QED
        BY <3>0, <4>1, <4>2 DEF Bijection, Injection, Surjection, IsInjective
    <3>2. ExistsBijection(tries, names)
      BY <3>1 DEF ExistsBijection
    <3>3. QED
      BY <2>2, <3>2, FS_Bijection
  <2>6. IsFiniteSet(used_names) /\ Cardinality(used_names) <= sid - 1
    <3> DEFINE g == [i \in named |-> reloc_table[i]]
    <3>1. g \in Surjection(named, used_names)
      BY DEF IInv, Surjection
    <3>2. IsFiniteSet(used_names) /\ Cardinality(used_names) <= Cardinality(named)
      BY <2>3, <3>1, FS_Surjection
    <3>3. QED
      BY <2>3, <3>2
  <2>7. names \in SUBSET used_names
    BY DEF IInv
  <2>8. Cardinality(names) <= Cardinality(used_names)
    BY <2>6, <2>7, FS_Subset
  <2>9. Cardinality(used_names) \in Nat
    BY <2>6, FS_CardinalityType
  <2>10. QED
    BY <2>1, <2>5, <2>6, <2>8, <2>9
<1>2. QED
  BY <1>1, TypeCorrect, Inductive, PTL
=============================================================================
