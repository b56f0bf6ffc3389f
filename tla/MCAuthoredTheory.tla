---------------------------- MODULE MCAuthoredTheory ----------------------------
(* Implication and quantification: a few assertions, several theories of them. *)
EXTENDS AuthoredTheory

\* schema variables (the first letter tells their assertion) and dummies
MCSortOf ==
    [mp |-> "wff", mq |-> "wff", gp |-> "wff", gz |-> "setvar", ap |-> "wff", az |-> "setvar",
     sp |-> "wff", sz |-> "setvar", tp |-> "wff", tq |-> "wff", ty |-> "setvar", tz |-> "setvar",
     dz |-> "setvar", dy |-> "setvar", dx |-> "setvar"]
MCVariables == DOMAIN MCSortOf
MCNameOf ==
    [mp |-> "x", mq |-> "y", gp |-> "x", gz |-> "z", ap |-> "y", az |-> "z",
     sp |-> "x", sz |-> "w", tp |-> "x", tq |-> "y", ty |-> "w", tz |-> "z",
     dz |-> "v", dy |-> "w", dx |-> "x"]
MCNames == {"x", "y", "z", "w", "v"}
MCKeyOrder == <<"dx", "dy", "dz", "ap", "az", "gp", "gz", "mp", "mq", "sp", "sz", "tp", "tq", "ty", "tz">>

MCInputs == [imp |-> <<"wff", "wff">>, all |-> <<"setvar", "wff">>]
MCOutput == [imp |-> "wff", all |-> "wff"]
MCBinderArgs == [imp |-> {}, all |-> {1}]
MCTypecode == [wff |-> "wff", setvar |-> "setvar"]
MCTemplate == [imp |-> <<Lit("i"), Arg(1), Arg(2)>>, all |-> <<Lit("A"), Arg(1), Arg(2)>>]
Float(sort, name) == [sort |-> sort, variable |-> name]
MCFormation ==
    [imp |-> [label |-> "wi", typecode |-> "wff", expression |-> <<"i", "x", "y">>,
              floating |-> <<Float("wff", "x"), Float("wff", "y")>>],
     all |-> [label |-> "wal", typecode |-> "wff", expression |-> <<"A", "z", "x">>,
              floating |-> <<Float("setvar", "z"), Float("wff", "x")>>]]

Var(v) == <<v>>
Imp(s, t) == <<"imp", s, t>>
All(v, t) == <<"all", Var(v), t>>

Sig(label, kind, vs, premises, conclusion, distinct) ==
    [label |-> label, kind |-> kind, vars |-> vs, premises |-> premises,
     conclusion |-> conclusion, distinct |-> distinct]
Th(label, vs, premises, conclusion, distinct) ==
    Sig(label, "theorem", vs, premises, conclusion, distinct)

p == Var("tp")
MCSignature ==
    ("mp" :> Sig("mp", "primitive_rule", <<"mp", "mq">>,
                 <<Var("mp"), Imp(Var("mp"), Var("mq"))>>, Var("mq"), {})) @@
    ("gen" :> Sig("gen", "primitive_rule", <<"gz", "gp">>, <<Var("gp")>>, All("gz", Var("gp")), {})) @@
    ("ax5" :> Sig("ax5", "axiom", <<"az", "ap">>, <<>>,
                  Imp(Var("ap"), All("az", Var("ap"))), {{"az", "ap"}})) @@
    ("spec" :> Sig("spec", "axiom", <<"sp", "sz">>, <<>>, Imp(All("sz", Var("sp")), Var("sp")), {})) @@
    \* by dummies, one of them with the name of tp; by a dummy under conditions;
    \* under a condition between dummies that no step needs
    ("th" :> Th("th", <<"tp">>, <<p>>, p, {})) @@
    ("back" :> Th("back", <<"tp">>, <<p>>, p, {})) @@
    ("idle" :> Th("idle", <<"tp">>, <<p>>, p, {})) @@
    \* under its own condition
    ("vac" :> Th("vac", <<"tz", "tp">>, <<>>, Imp(p, All("tz", p)), {{"tz", "tp"}})) @@
    \* does not follow: ax5 without its condition
    ("free" :> Th("free", <<"tz", "tp">>, <<>>, Imp(p, All("tz", p)), {})) @@
    \* two theorems that may cite each other; one has the label of a hypothesis
    ("twice" :> Th("twice", <<"ty", "tz", "tp">>, <<p>>, All("ty", All("tz", p)), {})) @@
    ("mmtranspiler.h1" :> Th("mmtranspiler.h1", <<"tp", "tq">>, <<p, Imp(p, Var("tq"))>>, Var("tq"), {})) @@
    ("syl" :> Th("syl", <<"tp", "tq">>, <<p, Imp(p, Var("tq"))>>, Var("tq"), {}))

\* the binding of mp and gen lists their variables in another order
MCRuleFloating == [mp |-> <<"y", "x">>, gen |-> <<"x", "z">>]

Syntax == <<"imp", "all">>
MCSequences ==
    {Syntax \o <<"mp", "gen", "spec", "th">>,
     Syntax \o <<"mp", "ax5", "spec", "back">>,
     Syntax \o <<"ax5", "vac">>,
     Syntax \o <<"gen", "idle">>,
     Syntax \o <<"ax5", "gen", "free">>,
     Syntax \o <<"gen", "twice">>,
     Syntax \o <<"mmtranspiler.h1", "mp", "syl">>,
     <<"imp", "mp", "gen", "spec", "th", "all">>}

MCProofDistinct ==
    [l \in DOMAIN MCSignature |->
        CASE l = "back" -> {{"dz", "tp"}} [] l = "idle" -> {{"dz", "dy"}} [] OTHER -> {}]
MCTermsFor ==
    [l \in DOMAIN MCSignature |->
        CASE l = "th" -> {p, Var("dx"), Var("dy"), Var("dz")}
          [] l = "back" -> {p, Var("dz"), Var("dy")}
          [] OTHER -> {p, All("tz", p), Var("ty"), Var("tz"), Var("dy")}]
=============================================================================
