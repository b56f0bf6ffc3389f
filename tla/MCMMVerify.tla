------------------------------- MODULE MCMMVerify -------------------------------
(* Texts of a small logic, with theorems that follow and others that do not. *)
EXTENDS MMSound

MCConsts == {"wff", "setvar", "|-", "i", "A"}
MCVars == {"x", "y", "z", "w"}
MCLabels == {"fx", "fy", "fz", "fw", "gy", "wi", "wal", "min", "maj", "mp", "ax1", "ax5", "gen",
             "hyp", "imp", "th1", "th2", "th3"}

F(label, tc, var) == FloatingHyp(label, tc, var)
E(label, expr) == EssentialHyp(label, "|-", expr)
A(label, expr) == Axiom(label, "|-", expr)
P(label, expr) == Theorem(label, "|-", expr, <<>>)

\* implication: th1 follows under its hypothesis, th2 does not without it
Implication ==
    <<F("fx", "wff", "x"), F("fy", "wff", "y"), Axiom("wi", "wff", <<"i", "x", "y">>),
      Enter, E("min", <<"x">>), E("maj", <<"i", "x", "y">>), A("mp", <<"y">>), Exit,
      A("ax1", <<"i", "x", "i", "y", "x">>),
      Enter, E("imp", <<"i", "x", "y">>), E("hyp", <<"x">>), P("th1", <<"y">>), Exit,
      P("th2", <<"i", "x", "y">>)>>

\* $d: th1 and th2 follow (the second through two pairs), th3 does not
Distinct ==
    <<F("fx", "wff", "x"), F("fz", "setvar", "z"), F("fw", "setvar", "w"),
      Axiom("wal", "wff", <<"A", "z", "x">>),
      Enter, DisjointVar(<<"z", "x">>), Axiom("ax5", "|-", <<"i", "x", "A", "z", "x">>), Exit,
      Enter, DisjointVar(<<"x", "w">>), P("th1", <<"i", "x", "A", "w", "x">>),
      DisjointVar(<<"w", "z">>), Enter, DisjointVar(<<"z", "x">>),
      P("th2", <<"i", "A", "w", "x", "A", "z", "A", "w", "x">>), Exit, Exit,
      P("th3", <<"i", "A", "w", "x", "A", "z", "A", "w", "x">>)>>

\* a rule with a hypothesis, and blocks that hide and repeat $f statements
Nested ==
    <<F("fx", "wff", "x"), F("fz", "setvar", "z"),
      Enter, E("min", <<"x">>), A("gen", <<"A", "z", "x">>),
      F("fy", "wff", "y"), Enter, F("gy", "wff", "y"), DisjointVar(<<"y", "z">>),
      A("ax1", <<"i", "y", "y">>), E("hyp", <<"y">>), P("th1", <<"A", "z", "y">>), Exit,
      P("th2", <<"A", "z", "x">>), Exit,
      P("th3", <<"A", "z", "x">>)>>

\* texts that no builder writes
FloatTwice == <<F("fx", "wff", "x"), Enter, F("fy", "wff", "x"), F("gy", "wff", "x")>>
Unfloated ==
    <<F("fz", "setvar", "z"), Enter, DisjointVar(<<"x", "z">>),
      A("ax1", <<"i", "x", "A", "z", "x">>), Exit, P("th1", <<"i", "x", "A", "z", "x">>)>>
OpenAtEnd == <<Enter, F("fx", "wff", "x")>>
StrayExit == <<F("fx", "wff", "x"), Exit, P("th1", <<"x">>)>>

MCTexts == {Implication, Distinct, Nested, FloatTwice, Unfloated, OpenAtEnd, StrayExit}

\* a hypothesis of a block that is closed
MCStrayTexts ==
    {<<F("fx", "wff", "x"), Enter, E("hyp", <<"x">>), A("ax1", <<"x">>), Exit, P("th1", <<"x">>)>>}
=============================================================================
