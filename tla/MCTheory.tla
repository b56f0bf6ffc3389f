-------------------------------- MODULE MCTheory --------------------------------
(* An upstream theory "up" and three that extend it: "loc", whose proofs       *)
(* import shards, "ord" with a declared order and two theorems that cite each  *)
(* other, and "rec", whose proofs ask for each other's implementation.  Three  *)
(* more have a second upstream, "alt" or "alu", which comes before "up" and    *)
(* has an assertion with the identifier of one of "up".                        *)
EXTENDS Theory

MCTheories == {"up", "loc", "ord", "rec", "alt", "alu", "two", "tri", "qua"}
MCUpstreams == [t \in MCTheories |->
    CASE t \in {"up", "alt", "alu"} -> <<>> [] t \in {"loc", "ord", "rec"} -> <<"up">>
      [] t = "two" -> <<"alt", "up">> [] t \in {"tri", "qua"} -> <<"alu", "up">>]
MCChain == [t \in MCTheories |-> <<t>> \o MCUpstreams[t]]
MCMerge == [t \in MCTheories |-> MCUpstreams[t] \o <<t>>]
MCDeclOrder == [t \in MCTheories |-> IF t = "ord" THEN <<"o1", "o2">> ELSE <<>>]
MCSequence == [t \in MCTheories |->
    CASE t = "up" -> <<"ax", "ru", "ru2">> [] t = "loc" -> <<"lem", "mid", "th">>
      [] t = "ord" -> <<"o1", "o2">> [] t = "rec" -> <<"r1", "r2", "bad", "no">>
      [] t = "alt" -> <<"twin">> [] t = "alu" -> <<"one">>
      [] t = "two" -> <<"w">> [] t = "tri" -> <<"v">> [] t = "qua" -> <<"x">>]

MCJudgments == {"a1", "a2", "b1", "b2", "c1", "c2", "d1"}
Same == [j \in MCJudgments |-> j]
Second == [j \in MCJudgments |->
    CASE j \in {"a1", "a2"} -> "a2" [] j \in {"b1", "b2"} -> "b2" [] j \in {"c1", "c2"} -> "c2"
      [] OTHER -> j]
MCSubsts == {Same, Second}

D(home, kind, prems, conc) == [home |-> home, kind |-> kind, prems |-> prems, conc |-> conc]
Table ==
    [ax |-> D("up", "axiom", <<>>, "a1"),
     ru |-> D("up", "primitive_rule", <<"a1">>, "b1"),
     ru2 |-> D("up", "primitive_rule", <<"b1">>, "c1"),
     late |-> D("up", "axiom", <<>>, "a2"),
     lem |-> D("loc", "theorem", <<>>, "b1"),
     mid |-> D("loc", "theorem", <<>>, "b2"),
     th |-> D("loc", "theorem", <<>>, "c2"),
     aux |-> D("loc", "axiom", <<>>, "a1"), clash |-> D("loc", "axiom", <<>>, "d1"),
     o1 |-> D("ord", "theorem", <<>>, "d1"), o2 |-> D("ord", "theorem", <<>>, "d1"),
     r1 |-> D("rec", "theorem", <<>>, "a1"), r2 |-> D("rec", "theorem", <<>>, "a1"),
     bad |-> D("rec", "theorem", <<"b2">>, "c2"), no |-> D("rec", "theorem", <<>>, "a1"),
     twin |-> D("alt", "axiom", <<>>, "d1"),
     one |-> D("alu", "axiom", <<>>, "a1"), copy |-> D("alu", "axiom", <<>>, "d1"),
     w |-> D("two", "theorem", <<>>, "a1"), v |-> D("tri", "theorem", <<>>, "a2"),
     x |-> D("qua", "theorem", <<>>, "d1")]

MCDecls == DOMAIN Table
MCHome == [d \in MCDecls |-> Table[d].home]
MCKindOf == [d \in MCDecls |-> Table[d].kind]
MCPremises == [d \in MCDecls |-> Table[d].prems]
MCConclusion == [d \in MCDecls |-> Table[d].conc]
\* late and twin have the label of lem, aux its identifier; clash, twin and copy have
\* the identifier of ax, and copy its label too
MCLabelOf == [d \in MCDecls |->
    IF d \in {"late", "twin"} THEN "lem" ELSE IF d = "copy" THEN "ax" ELSE d]
MCIdOf == [d \in MCDecls |->
    IF d = "aux" THEN "lem" ELSE IF d \in {"clash", "twin", "copy"} THEN "ax" ELSE d]

\* the rules need distinct variables that the proof of bad does not declare
MCAllowed == [c \in MCDecls \cup {"ground"} |-> [d \in MCDecls |->
    IF c # "ground" /\ MCKindOf[c] # "theorem" THEN {}
    ELSE IF c # "bad" THEN MCSubsts
    ELSE IF MCKindOf[d] = "theorem" THEN {} ELSE {Same}]]

Declares(d) == [op |-> "declare", of |-> d]
Proves(d) == [op |-> "prove", of |-> d]
Both(d) == <<Declares(d), Proves(d)>>
MCText ==
    [U |-> <<Declares("ax"), Declares("ru"), Declares("ru2")>>, U2 |-> <<Declares("late")>>,
     L |-> Both("lem"), M |-> Both("mid"), T |-> Both("th"), X |-> Both("aux"),
     C |-> <<Declares("clash")>>, A |-> <<Declares("twin")>>, N |-> <<Declares("one")>>,
     B |-> <<Declares("copy")>>, W |-> Both("w"), V |-> Both("v"), XX |-> Both("x"),
     O1 |-> Both("o1"), O2 |-> Both("o2"), R |-> Both("r1") \o Both("r2") \o Both("bad") \o Both("no")]

MCPrograms == {{"U", "L", "M", "T"}, {"U", "U2", "L", "X", "C"}, {"U", "O1", "O2"}, {"U", "R"},
               {"U", "U2", "A", "W"}, {"U", "N", "B", "V"}, {"U", "N", "B", "XX"}}

Imports(s) == [op |-> "import", shard |-> s]
Reads(d) == [op |-> "read", of |-> d]
Uses(d, prems, s) ==
    [op |-> "use", by |-> "handle", cites |-> d, premises |-> prems, subst |-> s]
UsesId(d, prems, s) == [Uses(d, prems, s) EXCEPT !.by = "id"]
Ends(n) == [op |-> "qed", root |-> n]
MCBody == [d \in MCDecls |->
    CASE d = "lem" -> <<Uses("ax", <<>>, Same), Uses("ru", <<1>>, Same), Ends(2)>>
      [] d = "mid" -> <<Uses("lem", <<>>, Second), Ends(1)>>
      [] d = "th" -> <<Imports("M"), Reads("mid"), Uses("mid", <<>>, Same),
                       Uses("ru2", <<1>>, Second), Ends(2)>>
      [] d = "o1" -> <<Uses("o2", <<>>, Same), Ends(1)>>
      [] d = "o2" -> <<Uses("o1", <<>>, Same), Ends(1)>>
      [] d = "r1" -> <<Reads("r2"), Uses("ax", <<>>, Same), Ends(1)>>
      [] d = "r2" -> <<Reads("r1"), Uses("ax", <<>>, Same), Ends(1)>>
      [] d = "bad" -> <<Uses("ru2", <<1>>, Second), Ends(2)>>
      [] d = "no" -> <<Uses("ax", <<>>, Same)>>
      [] d = "w" -> <<Uses("ax", <<>>, Same), Ends(1)>>
      [] d = "v" -> <<UsesId("ax", <<>>, Second), Ends(1)>>
      [] d = "x" -> <<UsesId("ax", <<>>, Same), Ends(1)>>
      [] OTHER -> <<>>]
=============================================================================
