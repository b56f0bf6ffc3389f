------------------------------ MODULE Consequence ------------------------------
(***************************************************************************)
(* What it means for an assertion of a text to hold in a formal language,  *)
(* and for the verifier to be sound: in every language that has the axioms *)
(* of a text, all the theorems hold that were accepted.                    *)
(*   A language L is a record of its symbols, its variables among them,    *)
(* the pairs of variables that are apart in it, and a set true of          *)
(* expressions, which is anything: the expressions derivable from some     *)
(* axioms, say.                                                            *)
(***************************************************************************)
EXTENDS MMVerify

\* what sigma puts for two variables of a $d pair has no variable in common, and
\* any two of its variables are apart
KeptApart(L, sigma, pair) ==
    \A x, y \in pair : x # y =>
        \A u \in TokensOf(sigma[x]) \cap L.vars, v \in TokensOf(sigma[y]) \cap L.vars :
            u # v /\ {u, v} \in L.apart

\* the ways to use assertion n of a text s in L: substitutions for its variables
\* with expressions of the right type, under which its hypotheses are true and its
\* $d conditions kept
Uses(L, s, n) ==
    {sigma \in [MandatoryVars(s, n) -> Seq(L.symbols)] :
        /\ \A j \in MandatoryF(s, n) : <<s[j].tc>> \o sigma[s[j].var] \in L.true
        /\ \A j \in ActiveE(s, n) : Subst(Stat(s[j]), sigma) \in L.true
        /\ \A pair \in MandatoryD(s, n) : KeptApart(L, sigma, pair)}

\* assertion n holds in L: however it is used, it leads to what is true
HoldsIn(L, s, n) == \A sigma \in Uses(L, s, n) : Subst(Stat(s[n]), sigma) \in L.true

\* A language never runs out of variables of the types that s declares.
Language(L, s) ==
    /\ Consts \subseteq L.symbols
    /\ L.vars \subseteq L.symbols \ Consts
    /\ \A j \in {i \in DOMAIN s : s[i].op = "f"}, F \in SUBSET L.vars :
          IsFiniteSet(F) =>
              \E w \in L.vars \ F : <<s[j].tc, w>> \in L.true /\ \A u \in F : {u, w} \in L.apart

\* What verify() takes for granted of a text and does not check: symbols are of one
\* kind, and the variables of assertions are declared.
Ordinary(s) ==
    /\ Consts \cap Vars = {}
    /\ \A st \in ToSet(s) : IsLabelled(st) =>
          /\ st.tc \in Consts
          /\ IF st.op = "f" THEN st.var \in Vars ELSE st.expr \in Seq(Tokens)
    /\ \A n \in DOMAIN s : IsAssertion(s[n]) => VarsDeclared(s, n)

AxiomsHold(L, n) == \A m \in 1 .. n - 1 : text[m].op = "a" => HoldsIn(L, text, m)

\* In a language in which the axioms before it hold, an accepted theorem holds: if
\* no proof so far has cited a hypothesis of a closed block, all that is accepted
\* follows, through blocks, hidden $f, $d conditions and dummy variables.
Follows(L) ==
    ~strayed /\ Ordinary(text) /\ Language(L, text) =>
        \A n \in 1 .. at - 1 :
            text[n].op = "p" /\ AxiomsHold(L, n) => HoldsIn(L, text, n)

\* In a language that has all the axioms of an accepted text, all its theorems hold.
TextFollows(L) ==
    /\ verdict = "accepted" /\ Balanced(text) /\ ~strayed
    /\ Ordinary(text) /\ Language(L, text)
    /\ \A m \in DOMAIN text : text[m].op = "a" => HoldsIn(L, text, m)
    => \A n \in DOMAIN text : text[n].op = "p" => HoldsIn(L, text, n)

\* language L if just the expressions of T are true
Knowing(L, T) == [symbols |-> L.symbols, vars |-> L.vars, apart |-> L.apart, true |-> T]

\* the expressions that the axioms of s derive from those that are true in L: the
\* least set that has these and is closed under the axioms
Derivable(L, s) ==
    {x \in Seq(L.symbols) :
        \A T \in SUBSET Seq(L.symbols) :
            /\ L.true \subseteq T
            /\ \A m \in DOMAIN s : s[m].op = "a" => HoldsIn(Knowing(L, T), s, m)
            => x \in T}

\* What the theorems of an accepted text derive, its axioms derive without them.
NothingAdded(L) ==
    /\ verdict = "accepted" /\ Balanced(text) /\ ~strayed
    /\ Ordinary(text) /\ Language(L, text)
    => \A n \in DOMAIN text :
          text[n].op = "p" => HoldsIn(Knowing(L, Derivable(L, text)), text, n)
=============================================================================
