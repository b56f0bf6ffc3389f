---------------------------------- MODULE Unify ----------------------------------
(***************************************************************************)
(* Formulas as tokens and as trees (skfd/proof/unify.py): split, parse,    *)
(* serialize, substitute and match, and the matching of hypotheses of      *)
(* proof/signature.py.  A tree is <<kind, operator, children>>.  A context *)
(* names the connectives a caller knows.  What can fail is a set of at     *)
(* most one result.                                                        *)
(***************************************************************************)
EXTENDS Lir, Integers, SequencesExt

\* connectives by their shape: sequences for those that are tried in order,
\* delims is <<>> or the three delimiters of a substitution
Ctx(binops, bare, prefix2, prefix3, delims) ==
    [binops |-> binops, bare |-> bare, prefix2 |-> prefix2, prefix3 |-> prefix3,
     delims |-> delims]

Node(kind, op, kids) == <<kind, op, kids>>
Atom(tok) == Node("atom", tok, <<>>)
IsVarAtom(t) == t[1] = "atom" /\ t[2] \in Vars

\* sequences of sets of at most one result: all results, or the first set that has one
AllOf(sets) ==
    IF \E n \in DOMAIN sets : sets[n] = {} THEN {}
    ELSE {[n \in DOMAIN sets |-> CHOOSE x \in sets[n] : TRUE]}
FirstOf(sets) ==
    UNION {sets[n] : n \in {m \in DOMAIN sets : \A k \in 1 .. m - 1 : sets[k] = {}}}

Slice(toks, from, upto) == SubSeq(toks, from, upto - 1)
Least(S) == CHOOSE n \in S : \A m \in S : n <= m
Greatest(S) == CHOOSE n \in S : \A m \in S : m <= n

\* brackets open after the tokens from .. upto
Nesting(toks, from, upto, open, close) ==
    Cardinality({n \in from .. upto : toks[n] = open})
      - Cardinality({n \in from .. upto : toks[n] = close})
InParens(toks) == Len(toks) >= 2 /\ Head(toks) = "(" /\ Last(toks) = ")"

\* operators op of the parenthesized tokens that no inner bracket encloses
Outermost(toks, op) ==
    {n \in 2 .. Len(toks) - 1 :
        /\ toks[n] = op /\ Nesting(toks, 2, n - 1, "(", ")") = 0
        /\ \A m \in 2 .. n - 1 : Nesting(toks, 2, m, "(", ")") >= 0}

NonEmpty(parts) == {seq \in {parts} : \A n \in DOMAIN seq : seq[n] # <<>>}

\* ( left OP right ), at the first operator
SplitBinary(toks, op) ==
    IF ~InParens(toks) \/ Outermost(toks, op) = {} THEN {}
    ELSE LET at == Least(Outermost(toks, op))
         IN  NonEmpty(<<Slice(toks, 2, at), Slice(toks, at + 1, Len(toks))>>)

\* ( first OP second OP third )
SplitTernary(toks, op) ==
    LET ats == Outermost(toks, op)
    IN  IF ~InParens(toks) \/ Cardinality(ats) # 2
           \/ Nesting(toks, 1, Len(toks), "(", ")") # 0
           \/ \E m \in 2 .. Len(toks) - 1 : Nesting(toks, 2, m, "(", ")") < 0
        THEN {}
        ELSE NonEmpty(<<Slice(toks, 2, Least(ats)), Slice(toks, Least(ats) + 1, Greatest(ats)),
                        Slice(toks, Greatest(ats) + 1, Len(toks))>>)

\* where the substitution that starts at from has its slash and its end
Delimiters(ctx, toks, from) ==
    LET depth(n) == Nesting(toks, from, n, ctx.delims[1], ctx.delims[3])
        ends == {n \in from .. Len(toks) : toks[n] = ctx.delims[3] /\ depth(n) = 0}
        slashes == {n \in from .. Least(ends) : toks[n] = ctx.delims[2] /\ depth(n) = 1}
    IN  IF ends = {} THEN {}
        ELSE IF slashes = {} THEN {} ELSE {<<Greatest(slashes), Least(ends)>>}

IsDelim(ctx, tok) == ctx.delims # <<>> /\ tok = ctx.delims[1]

RECURSIVE TakeWff(_, _, _)
\* the position after the formula that starts at from
TakeWff(ctx, toks, from) ==
    LET then(ends) == UNION {TakeWff(ctx, toks, n) : n \in ends}
        first == toks[from]
        closes == {n \in from .. Len(toks) : toks[n] = ")" /\ Nesting(toks, from, n, "(", ")") = 0}
    IN  IF from > Len(toks) THEN {}
        ELSE IF IsDelim(ctx, first)
        THEN then({at[2] + 1 : at \in {pair \in Delimiters(ctx, toks, from) :
                                          pair[1] # from + 1 /\ pair[2] # pair[1] + 1}})
        ELSE IF first = "-." THEN then({from + 1})
        ELSE IF first \in ToSet(ctx.prefix2) THEN then(then({from + 1}))
        ELSE IF first \in ToSet(ctx.prefix3) THEN then(then(then({from + 1})))
        ELSE IF first = "(" THEN IF closes = {} THEN {} ELSE {Least(closes) + 1}
        ELSE IF from < Len(toks) /\ toks[from + 1] \in ToSet(ctx.bare) THEN then({from + 2})
        ELSE {from + 1}

\* [ term / variable ] body
SplitSubstitution(ctx, toks) ==
    IF ~IsDelim(ctx, Head(toks)) THEN {}
    ELSE UNION {IF TakeWff(ctx, toks, at[2] + 1) # {Len(toks) + 1} THEN {}
                ELSE NonEmpty(<<Slice(toks, 2, at[1]), Slice(toks, at[1] + 1, at[2]),
                                Slice(toks, at[2] + 1, Len(toks) + 1)>>) :
                   at \in Delimiters(ctx, toks, 1)}

\* OP first second, OP first second third
SplitPrefix(ctx, toks, op, count) ==
    LET taken[n \in 0 .. count] ==
            IF n = 0 THEN {[parts |-> <<>>, at |-> 2]}
            ELSE UNION {{[parts |-> Append(t.parts, Slice(toks, t.at, end)), at |-> end] :
                            end \in TakeWff(ctx, toks, t.at)} : t \in taken[n - 1]}
    IN  IF Head(toks) # op THEN {}
        ELSE {t.parts : t \in {whole \in taken[count] : whole.at = Len(toks) + 1}}

\* left OP right, without parentheses
SplitBare(toks, op) ==
    LET ats == {n \in DOMAIN toks : toks[n] = op /\ Nesting(toks, 1, n - 1, "(", ")") = 0}
    IN  IF ats = {} THEN {}
        ELSE NonEmpty(<<Slice(toks, 1, Least(ats)), Slice(toks, Least(ats) + 1, Len(toks) + 1)>>)

-----------------------------------------------------------------------------
(* Trees *)

Shape(kind, op, splits) == {[kind |-> kind, op |-> op, parts |-> parts] : parts \in splits}

\* the outermost connective, with its parts; a prefix that does not fit is no formula
ShapeOf(ctx, toks) ==
    LET first == Head(toks)
        shapes(kind, ops, Split(_)) ==
            FirstOf([n \in DOMAIN ops |-> Shape(kind, ops[n], Split(ops[n]))])
        infix == FirstOf(<<shapes("bare", ctx.bare, LAMBDA op : SplitBare(toks, op)),
                           shapes("ter", ctx.binops, LAMBDA op : SplitTernary(toks, op)),
                           shapes("bin", ctx.binops, LAMBDA op : SplitBinary(toks, op))>>)
        prefix == IF first \in ToSet(ctx.prefix2)
                  THEN Shape("pre2", first, SplitPrefix(ctx, toks, first, 2))
                  ELSE IF first \in ToSet(ctx.prefix3)
                  THEN Shape("pre3", first, SplitPrefix(ctx, toks, first, 3))
                  ELSE IF first = "-." THEN Shape("not", first, {<<Tail(toks)>>}) ELSE infix
    IN  FirstOf(<<Shape("sub", "[", SplitSubstitution(ctx, toks)), prefix>>)

RECURSIVE Parse(_, _)
Parse(ctx, toks) ==
    IF toks = <<>> THEN {}
    ELSE IF Len(toks) = 1 THEN {Atom(Head(toks))}
    ELSE UNION {{Node(shape.kind, shape.op, kids) :
                    kids \in AllOf([n \in DOMAIN shape.parts |-> Parse(ctx, shape.parts[n])])} :
                   shape \in ShapeOf(ctx, toks)}

RECURSIVE ToTokens(_, _)
ToTokens(ctx, t) ==
    LET kid(n) == ToTokens(ctx, t[3][n])
        kids == FlattenSeq([n \in DOMAIN t[3] |-> kid(n)])
    IN  CASE t[1] = "atom" -> <<t[2]>>
          [] t[1] \in {"not", "pre2", "pre3"} -> <<t[2]>> \o kids
          [] t[1] = "bare" -> kid(1) \o <<t[2]>> \o kid(2)
          [] t[1] = "bin" -> <<"(">> \o kid(1) \o <<t[2]>> \o kid(2) \o <<")">>
          [] t[1] = "ter" ->
                <<"(">> \o kid(1) \o <<t[2]>> \o kid(2) \o <<t[2]>> \o kid(3) \o <<")">>
          [] t[1] = "sub" ->
                <<ctx.delims[1]>> \o kid(1) \o <<ctx.delims[2]>> \o kid(2)
                  \o <<ctx.delims[3]>> \o kid(3)

RECURSIVE ApplySubst(_, _)
ApplySubst(t, subst) ==
    IF IsVarAtom(t) THEN IF t[2] \in DOMAIN subst THEN subst[t[2]] ELSE t
    ELSE Node(t[1], t[2], [n \in DOMAIN t[3] |-> ApplySubst(t[3][n], subst)])

RECURSIVE SameShape(_, _)
SameShape(template, target) ==
    \/ IsVarAtom(template)
    \/ /\ template[1] = target[1] /\ template[2] = target[2]
       /\ \A n \in DOMAIN template[3] : SameShape(template[3][n], target[3][n])

RECURSIVE Bindings(_, _)
Bindings(template, target) ==
    IF IsVarAtom(template) THEN {<<template[2], target>>}
    ELSE UNION {Bindings(template[3][n], target[3][n]) : n \in DOMAIN template[3]}

\* (variant: a variable keeps what it was bound to first)
Consistent_First(bound) == TRUE
\* a variable is bound to one tree
Consistent(bound) == \A one, other \in bound : one[1] = other[1] => one = other

\* unify, for pairs of a template and a target, one after the other
UnifyAll(pairs) ==
    LET bound == UNION {Bindings(pair[1], pair[2]) : pair \in pairs}
    IN  IF (\A pair \in pairs : SameShape(pair[1], pair[2])) /\ Consistent(bound)
        THEN {[v \in {b[1] : b \in bound} |-> (CHOOSE b \in bound : b[1] = v)[2]]}
        ELSE {}

UnifyTokens(ctx, template, target) ==
    UNION {UnifyAll({<<one, other>>}) : one \in Parse(ctx, template), other \in Parse(ctx, target)}

-----------------------------------------------------------------------------
(* Hypotheses of a lemma among the steps of a proof (signature.py) *)

\* (variant: the hypotheses as the lemma has them)
Expected_Unsubstituted(ctx, hyps, subst) ==
    [n \in DOMAIN hyps |-> {ToTokens(ctx, t) : t \in Parse(ctx, hyps[n])}]
\* what the hypotheses of a signature must be: {} for one that is no formula
Expected(ctx, hyps, subst) ==
    [n \in DOMAIN hyps |-> {ToTokens(ctx, ApplySubst(t, subst)) : t \in Parse(ctx, hyps[n])}]

\* the first steps that are as expected, if there is one for each; the hypotheses
\* are gone through in order, and one that is no formula raises
Found(expected, steps) ==
    LET found(n) == {m \in DOMAIN steps : steps[m].expr \in expected[n]}
        missing == {n \in DOMAIN expected : found(n) = {}}
    IN  IF missing # {} THEN [raised |-> expected[Least(missing)] = {}, labels |-> {}]
        ELSE [raised |-> FALSE,
              labels |-> {[n \in DOMAIN expected |-> steps[Least(found(n))].label]}]

\* under the substitution that the conclusion fixes, if it does
MatchHyps(ctx, sig, target, steps) ==
    {Found(Expected(ctx, sig.hyps, subst), steps) : subst \in UnifyTokens(ctx, sig.conclusion, target)}
=============================================================================
