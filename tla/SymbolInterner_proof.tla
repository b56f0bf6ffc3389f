------------------------- MODULE SymbolInterner_proof -------------------------
(***************************************************************************)
(* Proofs that the interner keeps its two dictionaries inverse to each     *)
(* other, isolates the units and never changes a definition, for every     *)
(* set of units, modules and names.                                        *)
(***************************************************************************)
EXTENDS SymbolInterner, TLAPS

\* What a step may do: reject, return a known id, or add one definition.
Step ==
    \/ UNCHANGED <<next_id, defs, key_to_id, held>> /\ result' \in Errors
    \/ \E u \in Units, name \in LocalNames, kind \in Kinds :
          LET key == [module |-> ModuleOf[u], name |-> name, kind |-> kind]
          IN  InternExisting(u, key) \/ \E o \in Origins : InternNew(u, key, o)

\* Every action of Next is a rejection, a lookup or an addition.
LEMMA NextIsStep == Next => Step
<1> SUFFICES ASSUME Next PROVE Step
  OBVIOUS
<1>1. ASSUME NEW u \in Units, NEW kind \in Kinds, NEW name \in LocalNames,
             NEW o \in Origins, Intern(u, kind, name, o)
      PROVE  Step
  BY <1>1 DEF Intern, RejectReserved, Step, Errors
<1>2. ASSUME NEW u \in Units, NEW kind \in Kinds, NEW name \in Names,
             NEW o \in Origins, Named(u, kind, name, o)
      PROVE  Step
  <2>1. Canon[<<kind, name>>] \in LocalNames
    BY <1>2, InternerAssumption DEF Named
  <2>2. QED
    BY <1>1, <1>2, <2>1 DEF Named
<1>3. ASSUME NEW kind \in Kinds, NEW name \in Names, NameError(kind, name)
      PROVE  Step
  BY <1>3 DEF NameError, Step, Errors
<1>4. QED
  BY <1>1, <1>2, <1>3 DEF Next, Exact

\* The variables stay in their ranges (SymbolInterner.intern, symbols.py).
THEOREM TypeCorrect == Spec => []TypeOK
<1>1. Init => TypeOK
  BY DEF Init, TypeOK, Ids
<1>2. TypeOK /\ [Next]_vars => TypeOK'
  <2> SUFFICES ASSUME TypeOK, [Next]_vars PROVE TypeOK'
    OBVIOUS
  <2>1. CASE UNCHANGED vars
    BY <2>1 DEF vars, TypeOK, Ids
  <2>2. CASE UNCHANGED <<next_id, defs, key_to_id, held>> /\ result' \in Errors
    BY <2>2 DEF TypeOK, Ids
  <2>3. ASSUME NEW u \in Units, NEW name \in LocalNames, NEW kind \in Kinds,
               NEW key, key = [module |-> ModuleOf[u], name |-> name, kind |-> kind],
               InternExisting(u, key)
        PROVE  TypeOK'
    BY <2>3 DEF InternExisting, TypeOK, Ids
  <2>4. ASSUME NEW u \in Units, NEW name \in LocalNames, NEW kind \in Kinds,
               NEW o \in Origins, NEW key,
               key = [module |-> ModuleOf[u], name |-> name, kind |-> kind],
               InternNew(u, key, o)
        PROVE  TypeOK'
    <3>1. key \in Keys
      BY <2>4, InternerAssumption DEF Keys
    <3>2. Ids' = Ids \cup {next_id} /\ next_id \in Nat /\ next_id \notin Ids
      BY <2>4 DEF InternNew, DefineSymbol, Ids, TypeOK
    <3>3. defs' \in [Ids' -> Defs]
      <4>1. [module |-> key.module, name |-> key.name,
             kind |-> key.kind, origin |-> o] \in Defs
        BY <3>1 DEF Keys, Defs
      <4>2. QED
        BY <2>4, <3>2, <4>1 DEF InternNew, DefineSymbol, TypeOK
    <3>4. /\ DOMAIN key_to_id' \subseteq Keys
          /\ \A k \in DOMAIN key_to_id' : key_to_id'[k] \in Ids'
      BY <2>4, <3>1, <3>2 DEF InternNew, DefineSymbol, TypeOK
    <3>5. held' \in [Units -> SUBSET Ids']
      BY <2>4, <3>2 DEF InternNew, DefineSymbol, TypeOK
    <3>6. next_id' \in Nat /\ result' = "ok"
      BY <2>4 DEF InternNew, DefineSymbol, TypeOK
    <3>7. QED
      BY <3>3, <3>4, <3>5, <3>6 DEF TypeOK
  <2>5. QED
    BY <2>1, <2>2, <2>3, <2>4, NextIsStep DEF Step
<1>3. QED
  BY <1>1, <1>2, PTL DEF Spec

\* The inductive invariant: the dictionaries are inverse, a unit holds only
\* ids of its own module, and no defined name is reserved.
HeldAreOwn == \A u \in Units : \A i \in held[u] : defs[i].module = ModuleOf[u]
IInv == Bijective /\ HeldAreOwn /\ NoReservedSymbol

\* One step keeps the inductive invariant.
LEMMA IInvStep == TypeOK /\ TypeOK' /\ IInv /\ [Next]_vars => IInv'
<1> SUFFICES ASSUME TypeOK, TypeOK', IInv, [Next]_vars PROVE IInv'
  OBVIOUS
<1>1. CASE UNCHANGED <<next_id, defs, key_to_id, held>>
  BY <1>1 DEF IInv, Bijective, HeldAreOwn, NoReservedSymbol, Ids
<1>2. ASSUME NEW u \in Units, NEW name \in LocalNames, NEW kind \in Kinds,
             NEW key, key = [module |-> ModuleOf[u], name |-> name, kind |-> kind],
             InternExisting(u, key)
      PROVE  IInv'
  <2>1. /\ UNCHANGED <<next_id, defs, key_to_id>>
        /\ key \in DOMAIN key_to_id
        /\ held' = [held EXCEPT ![u] = @ \cup {key_to_id[key]}]
    BY <1>2 DEF InternExisting
  <2>2. defs[key_to_id[key]].module = ModuleOf[u]
    BY <1>2, <2>1 DEF IInv, Bijective, KeyOf
  <2>3. HeldAreOwn'
    BY <2>1, <2>2 DEF HeldAreOwn, IInv, TypeOK
  <2>4. QED
    BY <2>1, <2>3 DEF IInv, Bijective, NoReservedSymbol, Ids
<1>3. ASSUME NEW u \in Units, NEW name \in LocalNames, NEW kind \in Kinds,
             NEW o \in Origins, NEW key,
             key = [module |-> ModuleOf[u], name |-> name, kind |-> kind],
             InternNew(u, key, o)
      PROVE  IInv'
  <2> DEFINE new == [module |-> key.module, name |-> key.name,
                     kind |-> key.kind, origin |-> o]
  <2>1. Ids' = Ids \cup {next_id} /\ next_id \notin Ids /\ next_id \in Nat
    BY <1>3 DEF InternNew, DefineSymbol, Ids, TypeOK
  <2>2. /\ \A i \in Ids : defs'[i] = defs[i]
        /\ defs'[next_id] = new
        /\ KeyOf(new) = key
    BY <1>3, <2>1 DEF InternNew, DefineSymbol, KeyOf
  <2>3. /\ key \notin DOMAIN key_to_id
        /\ DOMAIN key_to_id' = DOMAIN key_to_id \cup {key}
        /\ key_to_id'[key] = next_id
        /\ \A k \in DOMAIN key_to_id : key_to_id'[k] = key_to_id[k]
    BY <1>3 DEF InternNew, DefineSymbol
  <2>4. Bijective'
    <3>1. \A k \in DOMAIN key_to_id' : KeyOf(defs'[key_to_id'[k]]) = k
      BY <2>2, <2>3 DEF IInv, Bijective, TypeOK
    <3>2. \A i \in Ids' : /\ KeyOf(defs'[i]) \in DOMAIN key_to_id'
                          /\ key_to_id'[KeyOf(defs'[i])] = i
      BY <2>1, <2>2, <2>3 DEF IInv, Bijective
    <3>3. QED
      BY <3>1, <3>2 DEF Bijective
  <2>5. HeldAreOwn'
    <3>1. held' = [held EXCEPT ![u] = @ \cup {next_id}] /\ new.module = ModuleOf[u]
      BY <1>3 DEF InternNew, DefineSymbol
    <3>2. QED
      BY <2>2, <3>1 DEF HeldAreOwn, IInv, TypeOK
  <2>6. NoReservedSymbol'
    BY <1>3, <2>1, <2>2 DEF InternNew, DefineSymbol, NoReservedSymbol, IInv
  <2>7. QED
    BY <2>4, <2>5, <2>6 DEF IInv
<1>4. QED
  BY <1>1, <1>2, <1>3, NextIsStep DEF Step, vars

\* The inductive invariant holds in every reachable state.
LEMMA Inductive == Spec => []IInv
<1>1. Init => IInv
  BY DEF Init, IInv, Bijective, HeldAreOwn, NoReservedSymbol, Ids
<1>2. QED
  BY <1>1, IInvStep, TypeCorrect, PTL DEF Spec

\* Keys and ids correspond one to one, whatever the units intern and in
\* whichever order (SymbolInterner.intern).
THEOREM DictionariesBijective == Spec => []Bijective
<1>1. IInv => Bijective
  BY DEF IInv
<1>2. QED
  BY <1>1, Inductive, PTL

\* Units of different origin modules are never handed the same symbol id.
THEOREM UnitIsolation == Spec => []UnitsIsolated
<1>1. IInv => UnitsIsolated
  BY DEF IInv, HeldAreOwn, UnitsIsolated
<1>2. QED
  BY <1>1, Inductive, PTL

\* No symbol of the table starts with "$" (E_RESERVED_TOKEN_NAME).
THEOREM NoReserved == Spec => []NoReservedSymbol
<1>1. IInv => NoReservedSymbol
  BY DEF IInv
<1>2. QED
  BY <1>1, Inductive, PTL

\* A symbol definition is immutable once its id was handed out.
THEOREM Stability == Spec => DefinitionsStable
<1> DEFINE Keep == \A i \in Ids : i \in Ids' /\ defs'[i] = defs[i]
<1>1. TypeOK /\ [Next]_vars => [Keep]_vars
  <2> SUFFICES ASSUME TypeOK, Next PROVE Keep
    OBVIOUS
  <2>1. CASE UNCHANGED <<next_id, defs>>
    BY <2>1 DEF Ids
  <2>2. ASSUME NEW u \in Units, NEW key, NEW o \in Origins, InternNew(u, key, o)
        PROVE  Keep
    <3>1. Ids \subseteq Ids' /\ next_id \notin Ids
      BY <2>2 DEF InternNew, DefineSymbol, Ids, TypeOK
    <3>2. QED
      BY <2>2, <3>1 DEF InternNew, DefineSymbol
  <2>3. QED
    BY <2>1, <2>2, NextIsStep DEF Step, InternExisting
<1>2. QED
  BY <1>1, TypeCorrect, PTL DEF Spec, DefinitionsStable
=============================================================================
