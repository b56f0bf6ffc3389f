---------------------------- MODULE SymbolInterner ----------------------------
(***************************************************************************)
(* The global symbol table of a build: skfd/core/symbols.py, reached by    *)
(* the builders through SymFacade (builder_v2/builder.py) and its          *)
(* NameResolver (names/resolver.py).  One interner is shared by all units  *)
(* of a build; a unit interns names of its own origin module only.         *)
(***************************************************************************)
EXTENDS Naturals

CONSTANTS
    Units,          \* builders that share the interner
    ModuleIds,      \* origin module ids
    ModuleOf,       \* [Units -> ModuleIds], the origin_module_id of a builder
    Names,          \* source spellings
    LocalNames,     \* canonical spellings
    ReservedNames,  \* the canonical spellings that start with "$"
    Origins,        \* origin_ref values
    Canon,          \* [Kinds \X Names -> LocalNames \cup {Unmapped}]
    Unmapped,       \* canonicalize raises: no canonical spelling
    MaxSymbols      \* bound of the model: symbols ever defined

Kinds == {"Const", "Var", "Label"}

ASSUME InternerAssumption ==
    /\ ModuleOf \in [Units -> ModuleIds]
    /\ ReservedNames \subseteq LocalNames
    /\ Unmapped \notin LocalNames
    /\ MaxSymbols \in Nat
    /\ Canon \in [Kinds \X Names -> LocalNames \cup {Unmapped}]

VARIABLES
    next_id,     \* len(_defs)
    defs,        \* _defs: SymbolId -> SymbolDef
    key_to_id,   \* _key_to_id: SymbolKey -> SymbolId
    held,        \* the ids each unit was handed by its SymFacade
    result       \* what the last call returned or raised

vars == <<next_id, defs, key_to_id, held, result>>

Keys == [module : ModuleIds, name : LocalNames, kind : Kinds]
Defs == [module : ModuleIds, name : LocalNames, kind : Kinds, origin : Origins]
KeyOf(d) == [module |-> d.module, name |-> d.name, kind |-> d.kind]
Ids == 0 .. next_id - 1
Errors == {"E_RESERVED_TOKEN_NAME", "E_BAD_SYMBOL_NAME"}

Init ==
    /\ next_id = 0
    /\ defs = [i \in {} |-> 0]
    /\ key_to_id = [k \in {} |-> 0]
    /\ held = [u \in Units |-> {}]
    /\ result = "none"

\* intern refuses a name that starts with "$" before it looks anything up
RejectReserved(name) ==
    /\ name \in ReservedNames
    /\ result' = "E_RESERVED_TOKEN_NAME"
    /\ UNCHANGED <<next_id, defs, key_to_id, held>>

InternExisting(u, key) ==
    /\ key.name \notin ReservedNames
    /\ key \in DOMAIN key_to_id
    /\ held' = [held EXCEPT ![u] = @ \cup {key_to_id[key]}]
    /\ result' = "ok"
    /\ UNCHANGED <<next_id, defs, key_to_id>>

DefineSymbol(u, key, origin, id) ==
    /\ next_id < MaxSymbols
    /\ next_id' = next_id + 1
    /\ key_to_id' = [k \in DOMAIN key_to_id \cup {key} |->
                        IF k = key THEN id ELSE key_to_id[k]]
    /\ defs' = [i \in Ids \cup {next_id} |->
                   IF i = next_id
                   THEN [module |-> key.module, name |-> key.name,
                         kind |-> key.kind, origin |-> origin]
                   ELSE defs[i]]
    /\ held' = [held EXCEPT ![u] = @ \cup {id}]
    /\ result' = "ok"

\* (variant: the lookup is forgotten)
InternNew_NoLookup(u, key, origin) ==
    /\ key.name \notin ReservedNames
    /\ DefineSymbol(u, key, origin, next_id)
InternNew(u, key, origin) ==
    /\ key.name \notin ReservedNames
    /\ key \notin DOMAIN key_to_id
    /\ DefineSymbol(u, key, origin, next_id)

\* (variant: symbols are keyed by their spelling alone)
Intern_NoModule(u, kind, name, origin) ==
    LET key == [module |-> CHOOSE m \in ModuleIds : TRUE, name |-> name, kind |-> kind]
    IN  InternExisting(u, key) \/ InternNew(u, key, origin)

Intern(u, kind, name, origin) ==
    LET key == [module |-> ModuleOf[u], name |-> name, kind |-> kind]
    IN  \/ RejectReserved(name)
        \/ InternExisting(u, key)
        \/ InternNew(u, key, origin)

\* SymFacade.const/var/label(name): the resolver maps the spelling first
Named(u, kind, name, origin) ==
    /\ Canon[<<kind, name>>] # Unmapped
    /\ Intern(u, kind, Canon[<<kind, name>>], origin)

\* SymFacade.const/var/label(name, exact=True): the spelling is taken as it is
Exact(u, kind, name, origin) ==
    Intern(u, kind, name, origin)

\* canonicalize raises for a spelling it cannot map (whitespace, or unicode the
\* lexicon does not know: one code here stands for both)
NameError(kind, name) ==
    /\ Canon[<<kind, name>>] = Unmapped
    /\ result' = "E_BAD_SYMBOL_NAME"
    /\ UNCHANGED <<next_id, defs, key_to_id, held>>

Next ==
    \/ \E u \in Units, kind \in Kinds, name \in Names, origin \in Origins :
          Named(u, kind, name, origin)
    \/ \E u \in Units, kind \in Kinds, name \in LocalNames, origin \in Origins :
          Exact(u, kind, name, origin)
    \/ \E kind \in Kinds, name \in Names : NameError(kind, name)

Spec == Init /\ [][Next]_vars

-----------------------------------------------------------------------------
(* Properties *)

\* Every variable stays in its range; the domain of defs is dense.
TypeOK ==
    /\ next_id \in Nat
    /\ defs \in [Ids -> Defs]
    /\ DOMAIN key_to_id \subseteq Keys
    /\ \A k \in DOMAIN key_to_id : key_to_id[k] \in Ids
    /\ held \in [Units -> SUBSET Ids]
    /\ result \in {"none", "ok"} \cup Errors

\* The two dictionaries of SymbolInterner are inverse to each other: no two
\* keys share an id, no id lacks its key, whichever units interned in which
\* order.  Every later pass compares symbols by id only.
Bijective ==
    /\ \A k \in DOMAIN key_to_id : KeyOf(defs[key_to_id[k]]) = k
    /\ \A i \in Ids : /\ KeyOf(defs[i]) \in DOMAIN key_to_id
                      /\ key_to_id[KeyOf(defs[i])] = i

\* Units of different origin modules never come to hold the same id, so a
\* label, variable or constant of one cannot be taken for the other's.
UnitsIsolated ==
    \A u, v \in Units :
        ModuleOf[u] # ModuleOf[v] => held[u] \cap held[v] = {}

\* No symbol of the table is spelled like a Metamath keyword, not even through
\* an alias of the lexicon or an exact name.
NoReservedSymbol ==
    \A i \in Ids : defs[i].name \notin ReservedNames

\* A definition, once handed out, never changes: in particular a second unit
\* that interns the same key does not move the first one's origin.
DefinitionsStable ==
    [][\A i \in Ids : i \in Ids' /\ defs'[i] = defs[i]]_vars
=============================================================================
