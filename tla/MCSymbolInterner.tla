--------------------------- MODULE MCSymbolInterner ---------------------------
(* Two units of one module and one of another; one spelling has an alias,  *)
(* one has no canonical form and one canonical name starts with "$".       *)
EXTENDS SymbolInterner

CONSTANTS u1, u2, u3, m1, m2, ph, phAlias, bad, dollar, o1, o2

MCModuleOf == [u \in Units |-> IF u = u3 THEN m2 ELSE m1]

MCCanon ==
    [p \in Kinds \X Names |->
        CASE p[2] = bad    -> Unmapped
          [] p[2] = dollar -> dollar
          [] OTHER         -> IF p[1] = "Label" THEN p[2] ELSE ph]
=============================================================================
