-------------------------------- MODULE MCLinker --------------------------------
(* Catalogues of units for the linker's runs.  The ids are strings, as they *)
(* are in the code.                                                         *)
EXTENDS Linker

MCConsts == {"wff", "|-", "c"}
MCVars == {"x", "y"}
MCLabels == {"fx", "fy", "by", "gx", "gy", "h1", "h2", "t0", "t1", "t2", "t3", "t4", "t5", "t6", "t7"}

Unit(id, kind, stmts, exports) ==
    [id |-> id, kind |-> kind, stmts |-> stmts, exports |-> exports]
Library(id, stmts, exports) == Unit(id, "library", stmts, exports)
Ax(l) == Axiom(l, "|-", <<"x">>)
Th(l, proof) == Theorem(l, "|-", <<"x">>, proof)

Foundation ==
    Unit("F", "foundation",
         <<FloatingHyp("fx", "wff", "x"), Enter, DisjointVar(<<"x", "y">>),
           Axiom("t0", "|-", <<"x", "y">>), Exit>>,
         {"fx", "x", "wff"})
UnitA == Library("A", <<Ax("t1")>>, {"t1"})
UnitB ==
    Library("B",
            <<FloatingHyp("by", "wff", "y"), Theorem("t2", "|-", <<"x", "y">>, <<"fx", "by", "t1">>)>>,
            {"t2"})
\* hypotheses and $d at two depths
UnitC ==
    Library("C",
            <<FloatingHyp("gy", "wff", "y"), Enter, EssentialHyp("h1", "|-", <<"y">>), Enter,
              DisjointVar(<<"x", "y">>), EssentialHyp("h2", "|-", <<"x">>),
              Theorem("t3", "|-", <<"c">>, <<"t2", "t1">>), Exit,
              Theorem("t4", "|-", <<"x">>, <<"t3">>), Exit>>,
            {"t3"})
\* a $d of one symbol, which says nothing
UnitD ==
    Library("D",
            <<FloatingHyp("fy", "wff", "y"), DisjointVar(<<"c">>), Th("t5", <<"t1", "fy">>)>>,
            {"fy"})
UnitEmpty == Library("Z", <<>>, {"c"})

\* builds that must fail: a second foundation (with an ambient $d of its own), an
\* unexported reference, a foreign hypothesis, a cycle (or, beside A, a label defined
\* twice), a proof token that is no label; a reference is unknown where the unit it
\* means is not linked
Foundation2 ==
    Unit("F2", "foundation", <<FloatingHyp("gx", "wff", "x"), DisjointVar(<<"y", "x">>)>>, {})
UnitPrivate == Library("Priv", <<Th("t6", <<"t4">>)>>, {"t6"})
UnitLeak == Library("Leak", <<Th("t6", <<"fy">>)>>, {})
UnitCycle == Library("Cyc", <<Th("t1", <<"t3">>)>>, {"t1"})
UnitBad == Library("Bad", <<Th("t6", <<"c">>)>>, {})
\* what stage 3 refuses, which stage 1 does not look at: a variable apart from itself,
\* in a unit that is sorted behind another, and a constant in a pair
UnitSelf ==
    Library("Self", <<Th("t6", <<"t1">>), Enter, DisjointVar(<<"y", "x", "y">>), Exit>>, {})
UnitApart == Library("Apart", <<DisjointVar(<<"x", "c">>), Ax("t7")>>, {"t7"})

MCCatalogue ==
    {Foundation, UnitA, UnitB, UnitC, UnitD, UnitEmpty, Foundation2, UnitPrivate,
     UnitLeak, UnitCycle, UnitBad, UnitSelf, UnitApart}

\* the catalogue is one the theorems of Linker_proof speak of
ASSUME Built /\ ExportsOwn /\ FoundationsFirst
=============================================================================
