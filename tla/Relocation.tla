------------------------------ MODULE Relocation ------------------------------
(***************************************************************************)
(* Stage 6 of the linker (skfd/linker/passes/stage6_relocation.py): every  *)
(* symbol of the table, in id order, is given a name of the emitted file.  *)
(* Ids differ by origin module and by kind, names in the file may not, so  *)
(* a name that is taken is retried with the suffixes 0, 1, ...             *)
(* A symbol whose own name looks like another's suffixed name (x0 beside x *)
(* and x) is the case that makes the search more than a lookup.            *)
(***************************************************************************)
EXTENDS Integers, Sequences, FiniteSets

CONSTANTS
    N,           \* the ids of the symbol table are 1..N (SymbolInterner)
    Names,       \* names of the emitted file
    LocalNames,  \* the local names symbols may have
    Suffixed     \* [LocalNames \X (0 .. N) -> Names]: the text of name and counter

Ids == 1..N

\* Distinct counters give distinct texts after one and the same name, none of
\* them the name itself.  (An empty table is not modelled: the loop does not run.)
ASSUME RelocationAssumption ==
    /\ N \in Nat \ {0}
    /\ LocalNames \subseteq Names
    /\ Suffixed \in [LocalNames \X (0..N) -> Names]
    /\ \A name \in LocalNames, m, n \in 0..N :
          /\ Suffixed[<<name, m>>] = Suffixed[<<name, n>>] => m = n
          /\ Suffixed[<<name, m>>] # name

VARIABLES
    local_name,   \* [Ids -> LocalNames], the symbol table; never changes
    sid,          \* the symbol being named, N + 1 after the last
    candidate,    \* the name to try next
    counter,      \* the suffix of the candidate after that
    used_names,   \* names given so far
    reloc_table   \* the result, a name for each id done

vars == <<local_name, sid, candidate, counter, used_names, reloc_table>>

Init ==
    /\ local_name \in [Ids -> LocalNames]
    /\ sid = 1
    /\ candidate = local_name[1]
    /\ counter = 0
    /\ used_names = {}
    /\ reloc_table = <<>>

\* (variant: the counter is not advanced)
NextCounter_Stuck == counter
\* (variant: every other suffix is skipped)
NextCounter_Twice == counter + 2
NextCounter == counter + 1

\* candidate in used_names: the next suffix is tried
Retry ==
    /\ sid \in Ids
    /\ candidate \in used_names
    /\ counter <= N
    /\ candidate' = Suffixed[<<local_name[sid], counter>>]
    /\ counter' = NextCounter
    /\ UNCHANGED <<local_name, sid, used_names, reloc_table>>

\* (variant: the name without its suffix is remembered)
NowUsed_BaseName == used_names \cup {local_name[sid]}
NowUsed == used_names \cup {candidate}

FirstCandidate(i) == local_name[i]

Relocated == Append(reloc_table, candidate)

\* the candidate is free: the symbol gets it
Assign ==
    /\ sid \in Ids
    /\ candidate \notin used_names
    /\ used_names' = NowUsed
    /\ reloc_table' = Relocated
    /\ sid' = sid + 1
    /\ candidate' = IF sid < N THEN FirstCandidate(sid + 1) ELSE candidate
    /\ counter' = 0
    /\ UNCHANGED local_name

Next == Retry \/ Assign

Spec == Init /\ [][Next]_vars

\* The pass is one loop of one thread: it takes a step while it can.
FairSpec == Spec /\ WF_vars(Next)

-----------------------------------------------------------------------------
(* Properties *)

Done == sid = N + 1

\* Every variable stays in its range; the table covers the ids before sid.
TypeOK ==
    /\ local_name \in [Ids -> LocalNames]
    /\ sid \in 1 .. N + 1
    /\ candidate \in Names
    /\ counter \in 0 .. N + 1
    /\ used_names \subseteq Names
    /\ reloc_table \in Seq(Names) /\ Len(reloc_table) = sid - 1

\* No two symbols share an emitted name, whatever their modules, kinds and local
\* names are: labels, constants and variables live in one namespace of the file.
Injective ==
    \A i, j \in DOMAIN reloc_table : reloc_table[i] = reloc_table[j] => i = j

\* The search is short: a symbol after k others is named by the k-th suffix.
\* (The while loop of the source has no bound of its own.)
SuffixBound == sid \in Ids => counter <= sid - 1

\* Every symbol of every table is named: the pass terminates.
Terminates == <>Done
=============================================================================
