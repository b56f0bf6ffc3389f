------------------------------- MODULE MCBuilder -------------------------------
(* Two variables.  The automatic labels of x are wx and wx0, which authors  *)
(* may also use by hand; q is spelled with a character no label may have,   *)
(* so that each of its automatic labels is hashed.                          *)
EXTENDS Builder

CONSTANTS x, q, l1, wx, wx0, raw, hashed, fwx, turnstile

MCRank == [v \in Vars |-> IF v = x THEN 1 ELSE 2]

MCCanonLabel == [s \in Spellings |-> IF s = raw THEN hashed ELSE s]

MCAutoName ==
    [p \in Vars \X (0..MaxSuffix) |->
        CASE p[1] = q -> raw
          [] p = <<x, 0>> -> wx
          [] OTHER -> wx0]

MCExprs == {<<q, x>>}
MCProofs == {<<fwx>>}
=============================================================================
