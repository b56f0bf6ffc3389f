----------------------------- MODULE MCProofScript -----------------------------
(* Scripts and packages over a Hilbert calculus and some more connectives. *)
EXTENDS ProofScript

MCIdOrder == <<"ph", "ps", "ch", "th", "ta", "x", "y", "__ph", "__ps", "__ch", "__x">>
MCVars == ToSet(MCIdOrder)
Pair(op, label) == [op |-> op, label |-> label]
MCBinops == <<Pair("->", "wi"), Pair("/\\", "wa"), Pair("<->", "wb"), Pair("\\/", "wo")>>
MCTernaries == <<Pair("/\\", "w3a"), Pair("\\/", "w3o")>>
MCBare == <<Pair("=", "weq")>>
MCPrefix2 == <<Pair("A.", "wal")>>
MCPrefix3 == <<Pair("if-", "wif")>>
MCDelims == <<"[", "/", "]">>
MCNameOrder ==
    <<"a1i", "bad", "dvth", "early", "id", "idd", "nohyp", "one", "other", "raw", "rawh",
      "self", "syl", "three", "two", "use">>

p == <<"ph">>
q == <<"ps">>
r == <<"ch">>
t == <<"th">>
u == <<"ta">>
Bin(a, op, b) == <<"(">> \o a \o <<op>> \o b \o <<")">>
Imp(a, b) == Bin(a, "->", b)
And3(a, b, c) == <<"(">> \o a \o <<"/\\">> \o b \o <<"/\\">> \o c \o <<")">>
Or3(a, b, c) == <<"(">> \o a \o <<"\\/">> \o b \o <<"\\/">> \o c \o <<")">>
If(a, b, c) == <<"if-">> \o a \o b \o c
All(v, a) == <<"A.", v>> \o a
Sb(a, b, c) == <<"[">> \o a \o <<"/">> \o b \o <<"]">> \o c
Eq(a, b) == a \o <<"=">> \o b
Not(a) == <<"-.">> \o a

Hyp(label, expr) == [op |-> "hyp", label |-> label, expr |-> expr]
Raw(label, expr) == [op |-> "raw", label |-> label, expr |-> expr]
Ref(label, expr, ref, args) == [op |-> "ref", label |-> label, expr |-> expr, ref |-> ref, args |-> args]
Mp(label, major, minor) == [op |-> "apply", label |-> label, args |-> <<major, minor>>]
Apart(v, w) == [op |-> "disjoint", pair |-> {v, w}]
Fn(name, statement, calls) == [name |-> name, statement |-> statement, calls |-> calls]
Catalog(fns) == [l \in {fn.name : fn \in fns} |-> CHOOSE fn \in fns : fn.name = l]

Ax(label, expr) == [label |-> label, expr |-> expr]
A1(a, b) == Imp(a, Imp(b, a))
A2(a, b, c) == Imp(Imp(a, Imp(b, c)), Imp(Imp(a, b), Imp(a, c)))
Hilbert == <<Ax("A1", A1(p, q)), Ax("A2", A2(p, q, r)), Ax("A3", Imp(Imp(Not(p), Not(q)), Imp(q, p)))>>
More == Hilbert \o
    <<Ax("wa", Bin(p, "/\\", q)), Ax("wb", Bin(p, "<->", q)), Ax("wo", Bin(p, "\\/", q)), Ax("w3a", And3(p, q, r)),
      Ax("w3o", Or3(p, q, r)), Ax("wif", If(p, q, r)), Ax("wal", All("x", p)),
      Ax("weq", Eq(<<"x">>, <<"y">>)), Ax("wsb", Sb(q, r, p))>>
\* ch and ps have their $f before ph
Reversed == <<Ax("A0", Imp(r, r)), Ax("A4", Imp(q, q))>> \o Hilbert

\* the script flow: formulas, no $f of its own, no conditions
Script(axioms, functions, catalog) ==
    [axioms |-> axioms, functions |-> functions, catalog |-> catalog, floats |-> <<>>,
     given |-> FALSE, typecode |-> "wff", axiomDv |-> NoLemmas, lemmaDv |-> NoLemmas,
     forbidRaw |-> FALSE]
\* a package: assertions, $f in an order of its own
Package(floats, given, axioms, functions, catalog) ==
    [Script(axioms, functions, catalog) EXCEPT
        !.floats = floats, !.given = given, !.typecode = "|-"]

A1i == Fn("a1i", Imp(q, p), <<Hyp("h", p), Ref("s", A1(p, q), "A1", <<>>), Mp("res", "h", "s")>>)
Id(name, a) ==
    Fn(name, Imp(a, a),
       <<Ref("s1", A1(a, Imp(a, a)), "A1", <<>>), Ref("s2", A2(a, Imp(a, a), a), "A2", <<>>),
         Mp("s3", "s1", "s2"), Ref("s4", A1(a, a), "A1", <<>>), Mp("s5", "s4", "s3")>>)
Syl == Fn("syl", Imp(p, r),
          <<Hyp("1", Imp(p, q)), Hyp("2", Imp(q, r)),
            Ref("s1", A1(Imp(q, r), p), "A1", <<>>), Mp("s2", "2", "s1"),
            Ref("s3", A2(p, q, r), "A2", <<>>), Mp("s4", "s2", "s3"), Mp("res", "1", "s4")>>)
Three(a) ==
    Fn("three", Imp(p, a),
       <<Hyp("1", Imp(p, q)), Hyp("2", Imp(q, r)), Hyp("3", Imp(r, a)),
         Ref("s1", Imp(p, r), "syl", <<"1", "2">>), Ref("res", Imp(p, a), "syl", <<"s1", "3">>)>>)
\* cites l with what its conclusion is to be; arguments are looked for
Use(l, hyps, expr) ==
    Fn("use", expr, [n \in DOMAIN hyps |-> Hyp("h" \o ToString(n), hyps[n])] \o <<Ref("res", expr, l, <<>>)>>)
\* nothing but a citation
Cite(name, expr, ref) == Fn(name, expr, <<Ref("res", expr, ref, <<>>)>>)
Fails == Fn("two", q, <<Hyp("h", q), Mp("res", "h", "h")>>)
RawHyp == Fn("rawh", q, <<Hyp("h", p), Raw("r", q)>>)

Right ==
    {Script(Hilbert, <<A1i, Id("id", p)>>, NoLemmas),
     Script(Reversed, <<Id("id", Imp(p, q)), Three(t)>>, Catalog({Syl})),
     Script(Hilbert, <<Three(r), A1i>>, Catalog({Syl, Id("id", q)})),
     Script(More, <<Id("id", If(p, And3(q, p, r), Bin(q, "<->", r)))>>, NoLemmas),
     Script(More, <<Id("id", Sb(All("x", p), Not(q), Or3(r, q, p)))>>, NoLemmas),
     Script(More, <<Id("id", Eq(<<"x">>, <<"ch">>)), Cite("one", Imp(p, If(q, r, Eq(<<"x">>, <<"y">>))), "id")>>, NoLemmas),
     Script(Reversed, <<Cite("one", A1(Bin(p, "/\\", q), Imp(r, p)), "A1")>>, NoLemmas),
     Script(Hilbert, <<Cite("one", Imp(r, q), "wi"), Cite("two", Not(r), "wn")>>, NoLemmas),
     Package(<<"ps", "ph", "ch">>, FALSE, Hilbert, <<A1i, Id("id", Imp(p, q))>>, NoLemmas),
     Package(<<"ch", "ps", "ph">>, TRUE, Hilbert, <<Three(r)>>, Catalog({Syl})),
     Package(<<"ph", "ps", "ch">>, FALSE, Hilbert, <<Cite("one", A1(t, u), "A1"), Cite("two", A1(t, u), "one")>>, NoLemmas)}
Arguments ==
    {Script(Hilbert, <<Use("a1i", hyps, expr)>>, Catalog({A1i})) :
        hyps \in {<<r>>, <<q, Imp(q, r)>>, <<>>}, expr \in {Imp(q, r), Imp(p, Imp(q, r)), r}}
    \cup {Script(More, <<Use(l, <<Imp(r, q)>>, Imp(p, r))>>, Catalog({Fn("nohyp", Imp(p, q), <<Hyp("h", All("x", p)), Raw("r", q)>>), A1i})) :
            l \in {"a1i", "nohyp"}}
Wrong ==
    {Script(Hilbert, <<Fn("bad", Imp(p, q), <<Ref("s", A1(p, q), "A1", <<>>)>>)>>, NoLemmas),
     Script(Hilbert, <<Fn("early", A1(p, q), <<Ref("res", A1(p, q), "A1", <<>>), Ref("s", A1(q, p), "A1", <<>>)>>)>>, NoLemmas),
     Script(Hilbert, <<Fn("early", A1(q, p), <<Ref("res", A1(p, q), "A1", <<>>), Ref("s", A1(q, p), "A1", <<>>)>>)>>, NoLemmas),
     Script(Hilbert, <<Cite("bad", Imp(p, p), "A1")>>, NoLemmas),
     Script(Hilbert, <<Cite("bad", p, "mp")>>, NoLemmas),
     Script(Hilbert, <<Fn("bad", q, <<>>)>>, NoLemmas),
     Script(Hilbert, <<Fn("bad", q, <<Hyp("h", q), Mp("res", "h", "h")>>)>>, NoLemmas),
     \* a label used twice is a step that needs itself
     Script(Hilbert, <<Fn("bad", Imp(q, p), <<Hyp("h", p), Ref("s", A1(p, q), "A1", <<>>), Mp("s", "h", "s")>>)>>, NoLemmas),
     \* the second lemma of a name is dropped
     Script(Hilbert, <<Id("id", p), Fn("id", q, <<Hyp("h", q)>>)>>, NoLemmas),
     Script(Hilbert, <<Fn("raw", q, <<Raw("r", q)>>), Cite("use", Imp(p, p), "raw")>>, NoLemmas),
     Script(Hilbert, <<RawHyp, Fn("use", q, <<Hyp("h", p), Ref("res", q, "rawh", <<"h">>)>>)>>, NoLemmas),
     [Script(Hilbert, <<RawHyp>>, NoLemmas) EXCEPT !.forbidRaw = TRUE]}
NameClashes ==
    {Script(Hilbert, <<Cite("self", A1(p, q), "self")>>, NoLemmas),
     Script(Hilbert, <<Cite("one", A1(p, q), "two"), Cite("two", A1(p, q), "one")>>, NoLemmas),
     Script(Hilbert, <<Cite("one", A1(p, q), "two")>>, Catalog({Cite("two", A1(p, q), "id"), Cite("id", A1(p, q), "two")})),
     Script(Hilbert, <<Cite("one", A1(p, q), "two"), Cite("two", A1(p, q), "A1")>>, Catalog({Cite("two", A1(p, q), "three")})),
     \* the catalogue's two raises; the script has one too, later or before it is cited
     Script(Hilbert, <<Cite("one", A1(p, q), "two"), Cite("two", A1(p, q), "A1")>>, Catalog({Fails})),
     Script(Hilbert, <<Cite("two", A1(p, q), "A1"), Cite("one", A1(p, q), "two")>>, Catalog({Fails})),
     Script(Hilbert, <<Cite("one", A1(p, q), "two")>>, Catalog({Cite("two", A1(p, q), "three")})),
     Script(Hilbert, <<Cite("one", A1(p, q), "two")>>, Catalog({Cite("two", A1(p, q), "three"), Cite("three", A1(p, q), "A1")})),
     Script(Hilbert, <<Fn("raw", A1(p, q), <<Raw("r", p), Ref("res", A1(p, q), "one", <<>>)>>), Cite("one", A1(p, q), "raw")>>, NoLemmas),
     Script(Hilbert, <<Cite("one", A1(p, q), "two"), Fn("two", A1(p, q), <<Ref("r", A1(p, q), "A1", <<>>), Ref("res", A1(p, q), "one", <<>>)>>)>>, NoLemmas),
     Script(Hilbert, <<Cite("one", A1(p, q), "two"), Cite("three", A1(p, q), "A1"), Fn("two", A1(p, q), <<Ref("r", A1(p, q), "three", <<>>), Ref("res", A1(p, q), "one", <<>>)>>)>>, NoLemmas)}
\* D holds of different variables
Apartness ==
    LET D == Hilbert \o <<Ax("D", Imp(p, q))>>
        dv(pairs) == "D" :> pairs
        package(fns) == [Package(<<"ph", "ps", "ch">>, FALSE, D, fns, NoLemmas) EXCEPT !.axiomDv = dv({{"ph", "ps"}})]
        th(expr, calls) == Fn("dvth", expr, calls \o <<Ref("res", expr, "D", <<>>)>>)
    IN  {package(<<th(Imp(q, r), <<Apart("ps", "ch")>>)>>), package(<<th(Imp(q, r), <<>>)>>),
         package(<<th(Imp(q, q), <<Apart("ps", "ch")>>)>>), package(<<th(Imp(q, q), <<Apart("ps", "ps")>>)>>),
         package(<<th(Imp(q, r), <<Apart("ps", "->")>>)>>),
         package(<<th(Imp(Imp(p, r), q), <<Apart("ps", "ch"), Apart("ph", "ps")>>)>>),
         package(<<th(Imp(Imp(p, r), q), <<Apart("ps", "ch")>>)>>),
         package(<<th(Imp(q, r), <<Apart("ps", "ch")>>), Cite("use", Imp(p, r), "dvth")>>),
         [package(<<th(Imp(q, r), <<>>)>>) EXCEPT !.lemmaDv = "dvth" :> {{"ps", "ch"}}],
         [package(<<th(Imp(q, r), <<Apart("ps", "ph")>>)>>) EXCEPT !.lemmaDv = "dvth" :> {{"ps", "ch"}}],
         [package(<<th(Imp(q, r), <<Apart("ps", "ch")>>)>>) EXCEPT !.lemmaDv = "other" :> {{"ps", "ch"}}],
         [package(<<th(Imp(q, r), <<Apart("ps", "ch")>>)>>) EXCEPT !.axiomDv = "other" :> {{"ps", "ch"}}]}
\* variables that have their $f in the blocks of the lemmas
Local ==
    {Script(Hilbert, <<Cite("one", A1(t, u), "A1"), Cite("two", A1(a, u), "one")>>, NoLemmas) : a \in {p, u, t}}
    \cup {Package(<<"ph", "ps", "ch">>, FALSE, Hilbert, <<Cite("one", A1(t, u), "A1"), Cite("two", A1(p, a), "one")>>, NoLemmas) : a \in {q, t, u}}

MCScripts == Right \cup Arguments \cup Wrong \cup NameClashes \cup Apartness \cup Local
=============================================================================
