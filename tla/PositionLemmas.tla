----------------------------- MODULE PositionLemmas -----------------------------
(***************************************************************************)
(* Lemmas about natural numbers, positions and sequences that the proofs   *)
(* of several components cite.  They are stated with sets, never with      *)
(* operators as parameters, so that they can be used as facts; induction   *)
(* is the choice of a least counterexample.                                *)
(***************************************************************************)
EXTENDS Subsequences, Scopes, SequencesExt, FiniteSetTheorems, SequenceTheorems,
        WellFoundedInduction, TLAPS

-----------------------------------------------------------------------------
(* The least element of a set of natural numbers *)

\* The order of the natural numbers is well founded, as a set of pairs.
LEMMA NatWellFounded ==
    \E R : IsWellFoundedOn(R, Nat) /\ \A x, y \in Nat : y < x => <<y, x>> \in R
<1>1. \A x, y \in Nat : y < x => <<y, x>> \in OpToRel(<, Nat)
  BY DEF OpToRel
<1>2. QED
  BY <1>1, NatLessThanWellFounded, Zenon

\* A set of natural numbers that is not empty has a least element.  It is what a
\* search for the first free suffix or spelling finds, and applied to the set of
\* counterexamples it is induction.
LEMMA NatLeast ==
    ASSUME NEW T, T \subseteq Nat, T # {}
    PROVE  \E x \in T : \A y \in T : x <= y
<1>1. PICK R : IsWellFoundedOn(R, Nat) /\ \A x, y \in Nat : y < x => <<y, x>> \in R
  BY NatWellFounded
<1>2. PICK x \in T : \A y \in T : ~ (<<y, x>> \in R)
  BY <1>1, WFMin, Zenon
<1>3. ASSUME NEW y \in T PROVE x <= y
  <2>1. x \in Nat /\ y \in Nat
    OBVIOUS
  <2>2. ~ (y < x)
    BY <1>1, <1>2, <2>1
  <2>3. QED
    BY <2>1, <2>2
<1>4. QED
  BY <1>3

\* A bounded one has a greatest.
LEMMA NatGreatest ==
    ASSUME NEW n \in Nat, NEW T, T \subseteq 0..n, T # {}
    PROVE  \E x \in T : \A y \in T : y <= x
<1> DEFINE U == {n - x : x \in T}
<1>1. U \subseteq Nat /\ U # {}
  OBVIOUS
<1>2. PICK u \in U : \A w \in U : u <= w
  BY <1>1, NatLeast
<1>3. PICK x \in T : u = n - x
  OBVIOUS
<1>4. ASSUME NEW y \in T PROVE y <= x
  <2>1. n - x <= n - y
    BY <1>2, <1>3
  <2>2. QED
    BY <2>1
<1>5. QED
  BY <1>4

\* The greatest element is one, so a CHOOSE of it finds it.
LEMMA GreatestIs ==
    ASSUME NEW T, T \subseteq Nat, NEW x \in T, \A y \in T : y <= x
    PROVE  (CHOOSE j \in T : \A k \in T : k <= j) = x
<1> DEFINE c == CHOOSE j \in T : \A k \in T : k <= j
<1>1. c \in T /\ \A k \in T : k <= c
  OBVIOUS
<1>2. c <= x /\ x <= c /\ c \in Nat /\ x \in Nat
  BY <1>1
<1> HIDE DEF c
<1>3. QED
  BY <1>2 DEF c

\* Induction over the members of a set.
LEMMA NatInduct ==
    ASSUME NEW T, 0 \in T, \A n \in Nat : n \in T => n + 1 \in T
    PROVE  Nat \subseteq T
<1> DEFINE Bad == {n \in Nat : n \notin T}
<1>1. SUFFICES ASSUME Bad # {} PROVE FALSE
  OBVIOUS
<1>2. PICK n \in Bad : \A m \in Bad : n <= m
  BY <1>1, NatLeast
<1>3. n # 0 /\ n - 1 \in Nat
  BY <1>2
<1>4. n - 1 \in T
  BY <1>2, <1>3
<1>5. QED
  BY <1>2, <1>3, <1>4

\* Induction over sequences, from the left.
LEMMA SeqInduct ==
    ASSUME NEW X, NEW T, <<>> \in T, \A s \in Seq(X), x \in X : s \in T => Append(s, x) \in T
    PROVE  Seq(X) \subseteq T
<1> DEFINE N == {n \in Nat : \A s \in Seq(X) : Len(s) = n => s \in T}
<1>1. 0 \in N
  <2>1. \A s \in Seq(X) : Len(s) = 0 => s = <<>>
    OBVIOUS
  <2>2. QED
    BY <2>1
<1>2. ASSUME NEW n \in Nat, n \in N PROVE n + 1 \in N
  <2>1. SUFFICES ASSUME NEW s \in Seq(X), Len(s) = n + 1 PROVE s \in T
    OBVIOUS
  <2> DEFINE t == SubSeq(s, 1, n)
  <2>2. t \in Seq(X) /\ Len(t) = n /\ s[n + 1] \in X /\ s = Append(t, s[n + 1])
    BY <2>1
  <2>3. t \in T
    BY <1>2, <2>2
  <2> HIDE DEF t
  <2>4. QED
    BY <2>2, <2>3
<1>3. Nat \subseteq N
  <2> HIDE DEF N
  <2>1. QED
    BY <1>1, <1>2, NatInduct
<1>4. QED
  BY <1>3

-----------------------------------------------------------------------------
(* Positions in ascending order *)

\* the function that Ascending recurs over
UpTo(n, S, g) ==
    g = [k \in 0..n |-> IF k = 0 THEN <<>>
                        ELSE IF k \in S THEN Append(g[k - 1], k) ELSE g[k - 1]]

LEMMA UpToExists == ASSUME NEW S, NEW n \in Nat PROVE \E g : UpTo(n, S, g)
<1> DEFINE T == {m \in Nat : \E g : UpTo(m, S, g)}
<1>1. UpTo(0, S, [k \in 0..0 |-> <<>>])
  BY DEF UpTo
<1>2. ASSUME NEW m \in Nat, NEW g, UpTo(m, S, g) PROVE \E h : UpTo(m + 1, S, h)
  <2> DEFINE h == [k \in 0 .. m + 1 |-> IF k # m + 1 THEN g[k]
                      ELSE IF m + 1 \in S THEN Append(g[m], m + 1) ELSE g[m]]
  <2>1. \A k \in 0..m : g[k] = IF k = 0 THEN <<>>
                                ELSE IF k \in S THEN Append(g[k - 1], k) ELSE g[k - 1]
    BY <1>2 DEF UpTo
  <2>2. /\ \A k \in 0..m : h[k] = g[k]
        /\ h[m + 1] = IF m + 1 \in S THEN Append(g[m], m + 1) ELSE g[m]
        /\ h = [k \in 0 .. m + 1 |-> h[k]]
    OBVIOUS
  <2> HIDE DEF h
  <2>3. ASSUME NEW k \in 0 .. m + 1
        PROVE  h[k] = IF k = 0 THEN <<>>
                      ELSE IF k \in S THEN Append(h[k - 1], k) ELSE h[k - 1]
    <3>1. CASE k = m + 1
      <4>1. k # 0 /\ k - 1 = m
        BY <3>1
      <4>2. QED
        BY <2>2, <3>1, <4>1
    <3>2. CASE k # m + 1
      <4>1. k \in 0..m /\ (k # 0 => k - 1 \in 0..m)
        BY <3>2
      <4>2. QED
        BY <2>1, <2>2, <4>1
    <3>3. QED
      BY <3>1, <3>2
  <2>4. UpTo(m + 1, S, h)
    BY <2>2, <2>3 DEF UpTo
  <2>5. QED
    BY <2>4
<1>3. Nat \subseteq T
  <2>1. 0 \in T /\ \A m \in Nat : m \in T => m + 1 \in T
    BY <1>1, <1>2
  <2> HIDE DEF T
  <2>2. QED
    BY <2>1, NatInduct
<1>4. QED
  BY <1>3

LEMMA UpToUnique ==
    ASSUME NEW S, NEW n \in Nat, NEW m \in Nat, n <= m,
           NEW g, UpTo(n, S, g), NEW h, UpTo(m, S, h)
    PROVE  \A k \in 0..n : g[k] = h[k]
<1> DEFINE T == {k \in Nat : k <= n => g[k] = h[k]}
<1>1. /\ \A k \in 0..n : g[k] = IF k = 0 THEN <<>>
                                 ELSE IF k \in S THEN Append(g[k - 1], k) ELSE g[k - 1]
      /\ \A k \in 0..m : h[k] = IF k = 0 THEN <<>>
                                 ELSE IF k \in S THEN Append(h[k - 1], k) ELSE h[k - 1]
  BY DEF UpTo
<1>2. 0 \in T
  BY <1>1
<1>3. ASSUME NEW k \in Nat, k \in T PROVE k + 1 \in T
  <2>1. SUFFICES ASSUME k + 1 <= n PROVE g[k + 1] = h[k + 1]
    OBVIOUS
  <2>2. g[k] = h[k] /\ k + 1 \in 0..n /\ k + 1 \in 0..m /\ (k + 1) - 1 = k /\ k + 1 # 0
    BY <1>3, <2>1
  <2>3. QED
    BY <1>1, <2>2
<1>4. Nat \subseteq T
  <2> HIDE DEF T
  <2>1. QED
    BY <1>2, <1>3, NatInduct
<1>5. QED
  BY <1>4

\* What Ascending computes, one number at a time.
LEMMA AscendingStep ==
    ASSUME NEW S
    PROVE  /\ Ascending(0, S) = <<>>
           /\ \A n \in Nat : Ascending(n + 1, S) =
                  IF n + 1 \in S THEN Append(Ascending(n, S), n + 1) ELSE Ascending(n, S)
<1> DEFINE f(n) == CHOOSE g : UpTo(n, S, g)
<1>1. \A n \in Nat : UpTo(n, S, f(n))
  BY UpToExists
<1>2. \A n \in Nat : Ascending(n, S) = f(n)[n]
  BY DEF Ascending, UpTo
<1>3. f(0)[0] = <<>>
  <2>1. UpTo(0, S, f(0))
    BY <1>1
  <2> HIDE DEF f
  <2>2. QED
    BY <2>1 DEF UpTo
<1>4. ASSUME NEW n \in Nat
      PROVE  f(n + 1)[n + 1] = IF n + 1 \in S THEN Append(f(n)[n], n + 1) ELSE f(n)[n]
  <2>1. UpTo(n + 1, S, f(n + 1)) /\ UpTo(n, S, f(n))
    BY <1>1
  <2> HIDE DEF f
  <2>2. f(n)[n] = f(n + 1)[n]
    BY <2>1, UpToUnique
  <2>3. f(n + 1)[n + 1] = IF n + 1 \in S THEN Append(f(n + 1)[n], n + 1) ELSE f(n + 1)[n]
    <3>1. \A k \in 0 .. n + 1 : f(n + 1)[k] =
             IF k = 0 THEN <<>>
             ELSE IF k \in S THEN Append(f(n + 1)[k - 1], k) ELSE f(n + 1)[k - 1]
      BY <2>1 DEF UpTo
    <3>2. n + 1 \in 0 .. n + 1 /\ n + 1 # 0 /\ (n + 1) - 1 = n
      OBVIOUS
    <3>3. QED
      BY <3>1, <3>2
  <2>4. QED
    BY <2>2, <2>3
<1> HIDE DEF f
<1>5. QED
  BY SMTT(20), <1>2, <1>3, <1>4

\* The list of the members of S, in ascending order.
Lists(ps, S) ==
    /\ ps \in Seq(Nat)
    /\ \A m, n \in 1..Len(ps) : m < n => ps[m] < ps[n]
    /\ S = {ps[n] : n \in 1..Len(ps)}

LEMMA AppendLists ==
    ASSUME NEW S, NEW ps, Lists(ps, S), NEW x \in Nat, \A y \in S : y < x
    PROVE  Lists(Append(ps, x), S \cup {x})
<1> DEFINE qs == Append(ps, x)
<1>1. ps \in Seq(Nat) /\ \A n \in 1..Len(ps) : ps[n] \in S
  BY DEF Lists
<1>2. /\ qs \in Seq(Nat) /\ Len(qs) = Len(ps) + 1 /\ qs[Len(ps) + 1] = x
      /\ \A n \in 1..Len(ps) : qs[n] = ps[n]
  BY <1>1
<1> HIDE DEF qs
<1>3. ASSUME NEW m \in 1..Len(qs), NEW n \in 1..Len(qs), m < n PROVE qs[m] < qs[n]
  <2>1. m \in 1..Len(ps) /\ qs[m] = ps[m]
    BY <1>1, <1>2, <1>3
  <2>2. CASE n \in 1..Len(ps)
    BY <1>2, <1>3, <2>1, <2>2 DEF Lists
  <2>3. CASE n = Len(ps) + 1
    BY <1>1, <1>2, <2>1, <2>3
  <2>4. QED
    BY <1>1, <1>2, <2>2, <2>3
<1>4. S \cup {x} = {qs[n] : n \in 1..Len(qs)}
  BY SMTT(20), <1>1, <1>2 DEF Lists
<1>5. QED
  BY <1>2, <1>3, <1>4 DEF Lists, qs

LEMMA AscendingLists ==
    ASSUME NEW S, NEW n \in Nat
    PROVE  Lists(Ascending(n, S), S \cap 1..n)
<1> DEFINE T == {m \in Nat : Lists(Ascending(m, S), S \cap 1..m)}
<1>1. 0 \in T
  <2>1. S \cap 1..0 = {} /\ Lists(<<>>, {})
    BY DEF Lists
  <2>2. QED
    BY <2>1, AscendingStep
<1>2. ASSUME NEW m \in Nat, m \in T PROVE m + 1 \in T
  <2>0. SUFFICES Lists(Ascending(m + 1, S), S \cap 1 .. m + 1)
    OBVIOUS
  <2>1. CASE m + 1 \in S
    <3>1. Lists(Append(Ascending(m, S), m + 1), (S \cap 1..m) \cup {m + 1})
      BY <1>2, AppendLists
    <3>2. S \cap 1 .. m + 1 = (S \cap 1..m) \cup {m + 1}
      BY <2>1
    <3>3. Ascending(m + 1, S) = Append(Ascending(m, S), m + 1)
      BY <2>1, AscendingStep
    <3>4. QED
      BY <3>1, <3>2, <3>3
  <2>2. CASE m + 1 \notin S
    <3>1. S \cap 1 .. m + 1 = S \cap 1..m
      BY <2>2
    <3>2. Ascending(m + 1, S) = Ascending(m, S)
      BY <2>2, AscendingStep
    <3>3. QED
      BY <1>2, <3>1, <3>2
  <2>3. QED
    BY <2>1, <2>2
<1>3. Nat \subseteq T
  <2> HIDE DEF T
  <2>1. QED
    BY <1>1, <1>2, NatInduct
<1>4. QED
  BY <1>3

\* There is one such list.
LEMMA ListUnique ==
    ASSUME NEW S, NEW ps, Lists(ps, S), NEW qs, Lists(qs, S)
    PROVE  ps = qs
<1> DEFINE P == 1..Len(ps)
           Q == 1..Len(qs)
           Bad == {k \in P \cup Q : k \notin P \/ k \notin Q \/ ps[k] # qs[k]}
<1>0. ps \in Seq(Nat) /\ qs \in Seq(Nat) /\ Len(ps) \in Nat /\ Len(qs) \in Nat
  BY DEF Lists
<1>1. CASE Bad = {}
  <2>1. P = Q /\ \A k \in P : ps[k] = qs[k]
    BY <1>1
  <2>2. Len(ps) = Len(qs)
    BY <1>0, <2>1
  <2>3. QED
    BY <1>0, <2>1, <2>2
<1>2. ASSUME Bad # {} PROVE FALSE
  <2>1. PICK k \in Bad : \A j \in Bad : k <= j
    <3>1. Bad \subseteq Nat
      BY <1>0
    <3>2. QED
      BY <1>2, <3>1, NatLeast
  <2>2. \A j \in 1 .. k - 1 : j \in P /\ j \in Q /\ ps[j] = qs[j]
    BY <2>1, <1>0
  <2>3. CASE k \in P /\ (k \in Q => ps[k] < qs[k])
    <3>1. PICK j \in Q : qs[j] = ps[k]
      BY <2>3 DEF Lists
    <3>2. CASE j < k
      <4>1. j \in P /\ ps[j] = ps[k]
        BY <2>2, <3>1, <3>2
      <4>2. ps[j] < ps[k] /\ ps[j] \in Nat
        BY <1>0, <2>3, <3>2, <4>1 DEF Lists
      <4>3. QED
        BY <4>1, <4>2
    <3>3. CASE j >= k
      <4>1. k \in Q /\ ps[k] < qs[k]
        BY <1>0, <2>3, <3>3
      <4>2. qs[k] <= qs[j]
        BY <1>0, <3>3, <4>1 DEF Lists
      <4>3. ps[k] \in Nat /\ qs[k] \in Nat /\ qs[j] \in Nat
        BY <1>0, <2>3, <4>1
      <4>4. QED
        BY <3>1, <4>1, <4>2, <4>3
    <3>4. QED
      BY <1>0, <2>3, <3>2, <3>3
  <2>4. CASE k \in Q /\ (k \in P => qs[k] < ps[k])
    <3>1. PICK j \in P : ps[j] = qs[k]
      BY <2>4 DEF Lists
    <3>2. CASE j < k
      <4>1. j \in Q /\ qs[j] = qs[k]
        BY <2>2, <3>1, <3>2
      <4>2. qs[j] < qs[k] /\ qs[j] \in Nat
        BY <1>0, <2>4, <3>2, <4>1 DEF Lists
      <4>3. QED
        BY <4>1, <4>2
    <3>3. CASE j >= k
      <4>1. k \in P /\ qs[k] < ps[k]
        BY <1>0, <2>4, <3>3
      <4>2. ps[k] <= ps[j]
        BY <1>0, <3>3, <4>1 DEF Lists
      <4>3. ps[k] \in Nat /\ qs[k] \in Nat /\ ps[j] \in Nat
        BY <1>0, <2>4, <4>1
      <4>4. QED
        BY <3>1, <4>1, <4>2, <4>3
    <3>4. QED
      BY <1>0, <2>4, <3>2, <3>3
  <2>5. k \in P /\ k \in Q => ps[k] < qs[k] \/ qs[k] < ps[k]
    BY <1>0, <2>1
  <2>6. QED
    BY <2>1, <2>3, <2>4, <2>5
<1>3. QED
  BY <1>1, <1>2

LEMMA AscendingIs ==
    ASSUME NEW S, NEW n \in Nat, NEW ps, Lists(ps, S \cap 1..n)
    PROVE  Ascending(n, S) = ps
BY AscendingLists, ListUnique

\* The elements of a sequence are finitely many: as many as its length if and only
\* if none is repeated.
LEMMA ElementsFinite ==
    ASSUME NEW X, NEW s \in Seq(X)
    PROVE  /\ IsFiniteSet(ToSet(s)) /\ Cardinality(ToSet(s)) \in Nat
           /\ Cardinality(ToSet(s)) <= Len(s)
           /\ Cardinality(ToSet(s)) = Len(s) <=> \A m, n \in 1..Len(s) : s[m] = s[n] => m = n
<1> DEFINE T == ToSet(s)
<1>1. Len(s) \in Nat /\ DOMAIN s = 1..Len(s) /\ s = [n \in 1..Len(s) |-> s[n]]
  OBVIOUS
<1>2. s \in Surjection(1..Len(s), T)
  BY <1>1 DEF Surjection, ToSet
<1>3. s \in Injection(1..Len(s), T) <=> \A m, n \in 1..Len(s) : s[m] = s[n] => m = n
  BY <1>1, <1>2 DEF Surjection, Injection, IsInjective
<1>4. IsFiniteSet(1..Len(s)) /\ Cardinality(1..Len(s)) = Len(s)
  <2>1. 1 \in Int /\ Len(s) \in Int
    BY <1>1
  <2>2. /\ IsFiniteSet(1..Len(s))
        /\ Cardinality(1..Len(s)) = IF 1 > Len(s) THEN 0 ELSE Len(s) - 1 + 1
    BY <2>1, FS_Interval
  <2>3. QED
    BY <1>1, <2>2
<1> HIDE DEF T
<1>5. /\ IsFiniteSet(T) /\ Cardinality(T) <= Len(s)
      /\ Cardinality(T) = Len(s) <=> s \in Injection(1..Len(s), T)
  BY <1>2, <1>4, FS_Surjection
<1>6. QED
  BY <1>3, <1>5, FS_CardinalityType DEF T

-----------------------------------------------------------------------------
(* Sequences filtered by position *)

\* The elements kept are those at the positions, and each position is kept.
LEMMA AtElements ==
    ASSUME NEW X, NEW s \in Seq(X), NEW S
    PROVE  /\ At(s, S) \in Seq(X)
           /\ ToSet(At(s, S)) = {s[n] : n \in S \cap 1..Len(s)}
<1> DEFINE ps == Ascending(Len(s), S)
<1>1. Lists(ps, S \cap 1..Len(s))
  BY AscendingLists
<1>2. /\ ps \in Seq(Nat) /\ DOMAIN ps = 1..Len(ps)
      /\ S \cap 1..Len(s) = {ps[n] : n \in 1..Len(ps)}
  BY <1>1 DEF Lists
<1>3. At(s, S) = [n \in 1..Len(ps) |-> s[ps[n]]]
  BY <1>2 DEF At
<1> HIDE DEF ps
<1>4. \A n \in 1..Len(ps) : ps[n] \in 1..Len(s) /\ s[ps[n]] \in X
  BY <1>2
<1>5. Len(ps) \in Nat
  BY <1>2
<1>6. At(s, S) \in Seq(X) /\ DOMAIN At(s, S) = 1..Len(ps)
  BY <1>3, <1>4, <1>5
<1>7. ToSet(At(s, S)) = {s[n] : n \in S \cap 1..Len(s)}
  BY <1>2, <1>3, <1>6 DEF ToSet
<1>8. QED
  BY <1>6, <1>7

\* What is kept stays in order, and there is one element for each position.
KeepsOrder(s, S, t) ==
    \A m, n \in S \cap 1..Len(s) :
        m < n => \E a, b \in 1..Len(t) : a < b /\ t[a] = s[m] /\ t[b] = s[n]
ComesInOrder(s, S, t) ==
    \A a, b \in 1..Len(t) :
        a < b => \E m, n \in S \cap 1..Len(s) : m < n /\ t[a] = s[m] /\ t[b] = s[n]

LEMMA AtOrder ==
    ASSUME NEW X, NEW s \in Seq(X), NEW S
    PROVE  /\ Len(At(s, S)) \in Nat /\ Len(At(s, S)) = Cardinality(S \cap 1..Len(s))
           /\ KeepsOrder(s, S, At(s, S)) /\ ComesInOrder(s, S, At(s, S))
<1> DEFINE ps == Ascending(Len(s), S)
           P == S \cap 1..Len(s)
<1>1. Lists(ps, P)
  BY AscendingLists
<1>2. /\ ps \in Seq(Nat) /\ DOMAIN ps = 1..Len(ps) /\ Len(ps) \in Nat
      /\ \A m, n \in 1..Len(ps) : m < n => ps[m] < ps[n]
      /\ P = {ps[n] : n \in 1..Len(ps)}
  BY <1>1 DEF Lists
<1>3. At(s, S) = [n \in 1..Len(ps) |-> s[ps[n]]]
  BY <1>2 DEF At
<1>4. Len(At(s, S)) = Len(ps)
  <2> HIDE DEF ps
  <2>1. At(s, S) \in Seq(X)
    BY AtElements
  <2> DEFINE kept == At(s, S)
  <2>2. kept \in Seq(X) /\ DOMAIN kept = 1..Len(ps)
    BY <1>3, <2>1
  <2> HIDE DEF kept
  <2>3. DOMAIN kept = 1..Len(kept) /\ Len(kept) \in Nat
    BY <2>2
  <2>4. Len(kept) = Len(ps)
    BY <1>2, <2>2, <2>3
  <2>5. QED
    BY <2>4 DEF kept
<1> HIDE DEF ps, P
<1>5. \A m, n \in 1..Len(ps) : ps[m] = ps[n] => m = n
  <2> SUFFICES ASSUME NEW m \in 1..Len(ps), NEW n \in 1..Len(ps), m # n PROVE ps[m] # ps[n]
    OBVIOUS
  <2>1. m < n \/ n < m
    BY <1>2
  <2>2. ps[m] \in Nat /\ ps[n] \in Nat
    BY <1>2
  <2>3. QED
    BY <1>2, <2>1, <2>2
<1>6. Len(ps) = Cardinality(P)
  <2>1. ToSet(ps) = P
    BY <1>2 DEF ToSet
  <2>2. QED
    BY <1>2, <1>5, <2>1, ElementsFinite
<1>7. ASSUME NEW m \in P, NEW n \in P, m < n
      PROVE  \E a, b \in 1..Len(ps) : a < b /\ At(s, S)[a] = s[m] /\ At(s, S)[b] = s[n]
  <2>1. PICK a \in 1..Len(ps), b \in 1..Len(ps) : ps[a] = m /\ ps[b] = n
    BY <1>2
  <2>2. a < b
    <3>1. m \in Nat /\ n \in Nat /\ a \in Nat /\ b \in Nat
      BY <1>2, <2>1
    <3>2. b < a => ps[b] < ps[a]
      BY <1>2
    <3>3. a # b
      BY <1>7, <2>1, <3>1
    <3>4. QED
      BY <1>7, <2>1, <3>1, <3>2, <3>3
  <2>3. QED
    BY <1>3, <2>1, <2>2
<1>8. ASSUME NEW a \in 1..Len(ps), NEW b \in 1..Len(ps), a < b
      PROVE  \E m, n \in P : m < n /\ At(s, S)[a] = s[m] /\ At(s, S)[b] = s[n]
  <2>1. ps[a] \in P /\ ps[b] \in P
    BY <1>2
  <2>2. ps[a] < ps[b]
    BY <1>2, <1>8
  <2>3. At(s, S)[a] = s[ps[a]] /\ At(s, S)[b] = s[ps[b]]
    BY <1>3
  <2>4. QED
    BY <2>1, <2>2, <2>3
<1>9. Len(At(s, S)) \in Nat /\ Len(At(s, S)) = Cardinality(P)
  BY <1>2, <1>4, <1>6
<1>10. KeepsOrder(s, S, At(s, S))
  BY <1>4, <1>7 DEF KeepsOrder, P
<1>11. ComesInOrder(s, S, At(s, S))
  BY <1>4, <1>8 DEF ComesInOrder, P
<1>12. QED
  BY <1>9, <1>10, <1>11 DEF P

\* The filter by any listing of its positions.
Picks(r, s, ps) ==
    ps \in Seq(1..Len(s)) /\ r = [n \in 1..Len(ps) |-> s[ps[n]]] /\ Len(r) = Len(ps)

LEMMA AtIs ==
    ASSUME NEW X, NEW s \in Seq(X), NEW S, NEW ps, Lists(ps, S \cap 1..Len(s))
    PROVE  Picks(At(s, S), s, ps)
<1>1. Ascending(Len(s), S) = ps
  BY AscendingIs
<1>2. ps \in Seq(Nat) /\ DOMAIN ps = 1..Len(ps) /\ Len(ps) \in Nat
  BY DEF Lists
<1>3. At(s, S) = [n \in 1..Len(ps) |-> s[ps[n]]]
  BY <1>1, <1>2 DEF At
<1>4. \A n \in 1..Len(ps) : ps[n] \in 1..Len(s)
  BY DEF Lists
<1>5. ps \in Seq(1..Len(s))
  BY <1>2, <1>4
<1>6. Len(At(s, S)) = Len(ps)
  <2> DEFINE kept == At(s, S)
  <2>1. kept \in Seq(X) /\ DOMAIN kept = 1..Len(ps)
    BY <1>3, AtElements
  <2> HIDE DEF kept
  <2>2. DOMAIN kept = 1..Len(kept) /\ Len(kept) \in Nat
    BY <2>1
  <2>3. Len(kept) = Len(ps)
    BY <1>2, <2>1, <2>2
  <2>4. QED
    BY <2>3 DEF kept
<1>7. QED
  BY <1>3, <1>5, <1>6 DEF Picks

LEMMA AtNothing == ASSUME NEW X, NEW s \in Seq(X) PROVE At(s, {}) = <<>>
<1>1. Lists(<<>>, {} \cap 1..Len(s))
  BY DEF Lists
<1>2. At(s, {}) \in Seq(X)
  BY AtElements
<1>3. Len(At(s, {})) = Len(<<>>)
  BY <1>1, AtIs DEF Picks
<1>4. QED
  BY <1>2, <1>3

\* One more position, after the others.
LEMMA AtAdd ==
    ASSUME NEW X, NEW s \in Seq(X), NEW x \in 1..Len(s), NEW S, S \subseteq 1 .. x - 1
    PROVE  At(s, S \cup {x}) = Append(At(s, S), s[x])
<1> DEFINE ps == Ascending(Len(s), S)
<1>1. Lists(ps, S \cap 1..Len(s))
  BY AscendingLists
<1>2. S \cap 1..Len(s) = S /\ (S \cup {x}) \cap 1..Len(s) = S \cup {x} /\ \A y \in S : y < x
  <2>1. \A y \in S : y \in 1..Len(s) /\ y < x
    OBVIOUS
  <2>2. QED
    BY <2>1
<1> HIDE DEF ps
<1>3. Lists(Append(ps, x), (S \cup {x}) \cap 1..Len(s))
  BY <1>1, <1>2, AppendLists
<1>4. ps \in Seq(Nat)
  BY <1>1 DEF Lists
<1>5. At(s, S) = [n \in 1..Len(ps) |-> s[ps[n]]] /\ Len(At(s, S)) = Len(ps) /\ At(s, S) \in Seq(X)
  <2>1. Picks(At(s, S), s, ps)
    BY <1>1, AtIs
  <2>2. At(s, S) \in Seq(X)
    BY AtElements
  <2>3. QED
    BY <2>1, <2>2 DEF Picks
<1> DEFINE qs == Append(ps, x)
<1>6. qs \in Seq(Nat) /\ Len(qs) = Len(ps) + 1 /\ qs[Len(ps) + 1] = x
      /\ \A n \in 1..Len(ps) : qs[n] = ps[n]
  BY <1>4
<1> HIDE DEF qs
<1>7. At(s, S \cup {x}) = [n \in 1..Len(qs) |-> s[qs[n]]] /\ Len(At(s, S \cup {x})) = Len(qs)
      /\ At(s, S \cup {x}) \in Seq(X)
  <2>1. Lists(qs, (S \cup {x}) \cap 1..Len(s))
    BY <1>3 DEF qs
  <2>2. Picks(At(s, S \cup {x}), s, qs)
    BY <2>1, AtIs
  <2>3. At(s, S \cup {x}) \in Seq(X)
    BY AtElements
  <2>4. QED
    BY <2>2, <2>3 DEF Picks
<1>8. Len(ps) \in Nat
  BY <1>4
<1>9. QED
  <2> DEFINE a == At(s, S)
             b == At(s, S \cup {x})
  <2> HIDE DEF a, b
  <2>1. a \in Seq(X) /\ b \in Seq(X) /\ Len(a) = Len(ps) /\ Len(b) = Len(ps) + 1
        /\ (\A n \in 1..Len(ps) : a[n] = s[ps[n]]) /\ \A n \in 1 .. Len(ps) + 1 : b[n] = s[qs[n]]
    BY <1>5, <1>6, <1>7 DEF a, b
  <2>2. \A n \in 1..Len(ps) : b[n] = a[n]
    BY <1>6, <1>8, <2>1
  <2>3. b[Len(ps) + 1] = s[x]
    BY <1>6, <1>8, <2>1
  <2>4. b = Append(a, s[x])
    BY <1>8, <2>1, <2>2, <2>3
  <2>5. QED
    BY <2>4 DEF a, b

\* The same elements at positions that are moved by an offset.
Shifted(s, S, t, T, o) ==
    /\ T \cap 1..Len(t) = {o + j : j \in S \cap 1..Len(s)}
    /\ \A j \in S \cap 1..Len(s) : t[o + j] = s[j]

LEMMA AtShift ==
    ASSUME NEW X, NEW s \in Seq(X), NEW t \in Seq(X), NEW o \in Nat, NEW S, NEW T,
           Shifted(s, S, t, T, o)
    PROVE  At(t, T) = At(s, S)
<1> DEFINE ps == Ascending(Len(s), S)
           qs == [n \in 1..Len(ps) |-> o + ps[n]]
<1>1. Lists(ps, S \cap 1..Len(s))
  BY AscendingLists
<1> HIDE DEF ps
<1>2. ps \in Seq(Nat) /\ Len(ps) \in Nat /\ \A n \in 1..Len(ps) : ps[n] \in S \cap 1..Len(s)
  BY <1>1 DEF Lists
<1>3. qs \in Seq(Nat) /\ Len(qs) = Len(ps) /\ \A n \in 1..Len(ps) : qs[n] = o + ps[n]
  BY <1>2
<1> HIDE DEF qs
<1>4. Lists(qs, T \cap 1..Len(t))
  <2>1. \A m, n \in 1..Len(qs) : m < n => qs[m] < qs[n]
    <3> SUFFICES ASSUME NEW m \in 1..Len(qs), NEW n \in 1..Len(qs), m < n PROVE qs[m] < qs[n]
      OBVIOUS
    <3>1. m \in 1..Len(ps) /\ n \in 1..Len(ps)
      BY <1>3
    <3>2. ps[m] < ps[n]
      BY <1>1, <3>1 DEF Lists
    <3>3. ps[m] \in Nat /\ ps[n] \in Nat /\ qs[m] = o + ps[m] /\ qs[n] = o + ps[n]
      BY SMTT(20), <1>2, <1>3, <3>1
    <3>4. QED
      BY <3>2, <3>3
  <2>2. T \cap 1..Len(t) = {qs[n] : n \in 1..Len(qs)}
    <3>1. \A j \in S \cap 1..Len(s) : \E n \in 1..Len(ps) : j = ps[n]
      BY <1>1 DEF Lists
    <3>2. \A x \in T \cap 1..Len(t) : \E n \in 1..Len(qs) : x = qs[n]
      BY <1>3, <3>1 DEF Shifted
    <3>3. \A n \in 1..Len(qs) : qs[n] \in T \cap 1..Len(t)
      BY <1>2, <1>3 DEF Shifted
    <3>4. QED
      BY <3>2, <3>3
  <2>3. QED
    BY <1>3, <2>1, <2>2 DEF Lists
<1>5. Picks(At(s, S), s, ps) /\ Picks(At(t, T), t, qs)
  BY <1>1, <1>4, AtIs
<1>6. At(s, S) = [n \in 1..Len(ps) |-> s[ps[n]]] /\ At(t, T) = [n \in 1..Len(qs) |-> t[qs[n]]]
  BY <1>5 DEF Picks
<1>7. \A n \in 1..Len(ps) : t[qs[n]] = s[ps[n]]
  BY <1>2, <1>3 DEF Shifted
<1>8. QED
  BY <1>3, <1>6, <1>7

\* The positions of a first filter and those of a second, all after them.
Before(S, T) == \A x \in S, y \in T : x < y

LEMMA AtJoin ==
    ASSUME NEW X, NEW s \in Seq(X), NEW S, NEW T, Before(S, T)
    PROVE  At(s, S \cup T) = At(s, S) \o At(s, T)
<1> DEFINE ps == Ascending(Len(s), S)
           qs == Ascending(Len(s), T)
           rs == ps \o qs
<1>1. Lists(ps, S \cap 1..Len(s)) /\ Lists(qs, T \cap 1..Len(s))
  BY AscendingLists
<1> HIDE DEF ps, qs
<1>2. /\ ps \in Seq(Nat) /\ Len(ps) \in Nat /\ \A n \in 1..Len(ps) : ps[n] \in S
      /\ qs \in Seq(Nat) /\ Len(qs) \in Nat /\ \A n \in 1..Len(qs) : qs[n] \in T
  BY <1>1 DEF Lists
<1>3. /\ rs \in Seq(Nat) /\ Len(rs) = Len(ps) + Len(qs)
      /\ \A n \in 1..Len(ps) : rs[n] = ps[n]
      /\ \A n \in 1..Len(qs) : rs[Len(ps) + n] = qs[n]
  BY <1>2
<1> HIDE DEF rs
<1>4. \A n \in 1..Len(rs) : n \in 1..Len(ps) \/ (n - Len(ps) \in 1..Len(qs) /\ n = Len(ps) + (n - Len(ps)))
  BY <1>2, <1>3
<1>5. ASSUME NEW m \in 1..Len(rs), NEW n \in 1..Len(rs), m < n PROVE rs[m] < rs[n]
  <2>1. CASE n \in 1..Len(ps)
    <3>1. m \in 1..Len(ps)
      BY <1>2, <1>5, <2>1
    <3>2. QED
      BY <1>1, <1>3, <1>5, <2>1, <3>1 DEF Lists
  <2>2. CASE m \in 1..Len(ps) /\ n - Len(ps) \in 1..Len(qs)
    <3>1. rs[m] = ps[m] /\ rs[n] = qs[n - Len(ps)]
      <4>1. n = Len(ps) + (n - Len(ps))
        BY <1>2
      <4>2. QED
        BY <1>3, <2>2, <4>1
    <3>2. rs[m] \in S /\ rs[n] \in T
      BY <1>2, <2>2, <3>1
    <3>3. QED
      BY <3>2 DEF Before
  <2>3. CASE m - Len(ps) \in 1..Len(qs) /\ n - Len(ps) \in 1..Len(qs)
    <3>1. m - Len(ps) < n - Len(ps)
      BY <1>2, <1>5
    <3>2. qs[m - Len(ps)] < qs[n - Len(ps)]
      BY <1>1, <2>3, <3>1 DEF Lists
    <3>3. rs[m] = qs[m - Len(ps)] /\ rs[n] = qs[n - Len(ps)]
      <4>1. Len(ps) + (m - Len(ps)) = m /\ Len(ps) + (n - Len(ps)) = n
        BY <1>2
      <4>2. QED
        BY <1>3, <2>3, <4>1
    <3>4. QED
      BY <3>2, <3>3
  <2>4. QED
    BY <1>4, <2>1, <2>2, <2>3
<1>6. (S \cup T) \cap 1..Len(s) = {rs[n] : n \in 1..Len(rs)}
  <2>1. ASSUME NEW x \in (S \cup T) \cap 1..Len(s) PROVE \E n \in 1..Len(rs) : x = rs[n]
    <3>1. CASE x \in S
      <4>1. PICK n \in 1..Len(ps) : x = ps[n]
        BY <1>1, <3>1 DEF Lists
      <4>2. QED
        BY <1>2, <1>3, <4>1
    <3>2. CASE x \in T
      <4>1. PICK n \in 1..Len(qs) : x = qs[n]
        BY <1>1, <3>2 DEF Lists
      <4>2. Len(ps) + n \in 1..Len(rs)
        BY <1>2, <1>3
      <4>3. QED
        BY <1>3, <4>1, <4>2
    <3>3. QED
      BY <3>1, <3>2
  <2>2. ASSUME NEW n \in 1..Len(rs) PROVE rs[n] \in (S \cup T) \cap 1..Len(s)
    <3>1. CASE n \in 1..Len(ps)
      <4>1. rs[n] = ps[n] /\ ps[n] \in S \cap 1..Len(s)
        BY <1>1, <1>3, <3>1 DEF Lists
      <4>2. QED
        BY <4>1
    <3>2. CASE n - Len(ps) \in 1..Len(qs) /\ n = Len(ps) + (n - Len(ps))
      <4>1. rs[n] = qs[n - Len(ps)] /\ qs[n - Len(ps)] \in T \cap 1..Len(s)
        BY <1>1, <1>3, <3>2 DEF Lists
      <4>2. QED
        BY <4>1
    <3>3. QED
      BY <1>4, <3>1, <3>2
  <2>3. QED
    BY <2>1, <2>2
<1>7. Lists(rs, (S \cup T) \cap 1..Len(s))
  BY <1>3, <1>5, <1>6 DEF Lists
<1> DEFINE a == At(s, S)
           b == At(s, T)
           c == At(s, S \cup T)
<1>8. /\ a \in Seq(X) /\ Len(a) = Len(ps) /\ \A n \in 1..Len(ps) : a[n] = s[ps[n]]
      /\ b \in Seq(X) /\ Len(b) = Len(qs) /\ \A n \in 1..Len(qs) : b[n] = s[qs[n]]
      /\ c \in Seq(X) /\ Len(c) = Len(rs) /\ \A n \in 1..Len(rs) : c[n] = s[rs[n]]
  <2>1. a = [n \in 1..Len(ps) |-> s[ps[n]]] /\ Len(a) = Len(ps)
    BY <1>1, AtIs DEF Picks
  <2>2. b = [n \in 1..Len(qs) |-> s[qs[n]]] /\ Len(b) = Len(qs)
    BY <1>1, AtIs DEF Picks
  <2>3. c = [n \in 1..Len(rs) |-> s[rs[n]]] /\ Len(c) = Len(rs)
    <3>1. Picks(c, s, rs)
      BY <1>7, AtIs
    <3>2. QED
      BY <3>1 DEF Picks
  <2>4. a \in Seq(X) /\ b \in Seq(X) /\ c \in Seq(X)
    BY AtElements
  <2> HIDE DEF a, b, c
  <2>5. QED
    BY <2>1, <2>2, <2>3, <2>4
<1> HIDE DEF a, b, c
<1>9. ASSUME NEW n \in 1..Len(rs) PROVE c[n] = (a \o b)[n]
  <2>1. CASE n \in 1..Len(ps)
    BY <1>2, <1>3, <1>8, <2>1
  <2>2. CASE n - Len(ps) \in 1..Len(qs) /\ n = Len(ps) + (n - Len(ps))
    <3>1. n \notin 1..Len(ps) /\ (a \o b)[n] = b[n - Len(ps)]
      BY <1>2, <1>8, <2>2
    <3>2. rs[n] = qs[n - Len(ps)]
      BY <1>3, <2>2
    <3>3. QED
      BY <1>8, <2>2, <3>1, <3>2
  <2>3. QED
    BY <1>4, <2>1, <2>2
<1>10. (a \o b) \in Seq(X) /\ Len(a \o b) = Len(rs)
  <2>1. a \in Seq(X) /\ b \in Seq(X) /\ Len(a) + Len(b) = Len(rs)
    BY <1>3, <1>8
  <2>2. QED
    BY <2>1
<1> DEFINE d == a \o b
<1>11. d \in Seq(X) /\ Len(d) = Len(rs) /\ \A n \in 1..Len(rs) : c[n] = d[n]
  BY <1>9, <1>10
<1> HIDE DEF d
<1>12. c = d
  BY SMTT(20), <1>8, <1>11
<1>13. QED
  BY <1>12 DEF a, b, c, d

\* Filtering twice.
Chosen(ps, K) == {ps[k] : k \in K \cap 1..Len(ps)}

LEMMA AtAt ==
    ASSUME NEW X, NEW s \in Seq(X), NEW S, NEW ps, Lists(ps, S \cap 1..Len(s)), NEW K
    PROVE  At(At(s, S), K) = At(s, Chosen(ps, K))
<1> DEFINE t == At(s, S)
           ks == Ascending(Len(t), K)
           T == Chosen(ps, K)
           qs == [n \in 1..Len(ks) |-> ps[ks[n]]]
<1>1. /\ t = [n \in 1..Len(ps) |-> s[ps[n]]] /\ Len(t) = Len(ps) /\ t \in Seq(X)
      /\ ps \in Seq(1..Len(s)) /\ Len(ps) \in Nat
  BY AtIs, AtElements DEF Lists, Picks
<1> HIDE DEF t
<1>2. Lists(ks, K \cap 1..Len(ps))
  BY <1>1, AscendingLists
<1> HIDE DEF ks
<1>3. /\ ks \in Seq(Nat) /\ Len(ks) \in Nat /\ \A n \in 1..Len(ks) : ks[n] \in K \cap 1..Len(ps)
      /\ \A m, n \in 1..Len(ks) : m < n => ks[m] < ks[n]
      /\ K \cap 1..Len(ps) = {ks[n] : n \in 1..Len(ks)}
  BY <1>2 DEF Lists
<1>4. \A n \in 1..Len(ks) : ps[ks[n]] \in 1..Len(s)
  BY <1>1, <1>3
<1>5. qs \in Seq(Nat) /\ Len(qs) = Len(ks) /\ \A n \in 1..Len(ks) : qs[n] = ps[ks[n]]
  BY <1>3, <1>4
<1> HIDE DEF qs
<1>6. ASSUME NEW m \in 1..Len(qs), NEW n \in 1..Len(qs), m < n PROVE qs[m] < qs[n]
  <2>1. ks[m] < ks[n] /\ ks[m] \in 1..Len(ps) /\ ks[n] \in 1..Len(ps)
    BY <1>3, <1>5, <1>6
  <2>2. QED
    BY <1>5, <2>1 DEF Lists
<1>7. T = {qs[n] : n \in 1..Len(qs)}
  <2>1. \A k \in K \cap 1..Len(ps) : \E n \in 1..Len(ks) : k = ks[n]
    BY <1>3
  <2>2. \A x \in T : \E n \in 1..Len(qs) : x = qs[n]
    BY <1>5, <2>1 DEF Chosen
  <2>3. \A n \in 1..Len(qs) : qs[n] \in T
    BY <1>3, <1>5 DEF Chosen
  <2>4. QED
    BY <2>2, <2>3
<1>8. T \cap 1..Len(s) = T
  BY <1>4, <1>5, <1>7
<1>9. Lists(qs, T \cap 1..Len(s))
  BY <1>5, <1>6, <1>7, <1>8 DEF Lists
<1> HIDE DEF T
<1>10. At(s, T) = [n \in 1..Len(qs) |-> s[qs[n]]]
  BY <1>9, AtIs DEF Picks
<1>11. At(t, K) = [n \in 1..Len(ks) |-> t[ks[n]]]
  <2>1. t \in Seq(X) /\ Lists(ks, K \cap 1..Len(t))
    BY <1>1, <1>2
  <2>2. Picks(At(t, K), t, ks)
    BY <2>1, AtIs
  <2>3. QED
    BY <2>2 DEF Picks
<1>12. \A n \in 1..Len(ks) : t[ks[n]] = s[qs[n]]
  BY <1>1, <1>3, <1>5
<1>13. At(t, K) = At(s, T)
  BY <1>5, <1>10, <1>11, <1>12
<1>14. QED
  BY <1>13 DEF t, T

-----------------------------------------------------------------------------
(* Sequences put end to end *)

\* the function that FlattenSeq recurs over
Flattened(ss, n, g) ==
    g = [k \in 1..n |-> IF k = 1 THEN ss[k] ELSE g[k - 1] \o ss[k]]

LEMMA FlattenedExists ==
    ASSUME NEW ss, NEW n \in Nat PROVE \E g : Flattened(ss, n, g)
<1> DEFINE T == {m \in Nat : \E g : Flattened(ss, m, g)}
<1>1. Flattened(ss, 0, <<>>)
  BY DEF Flattened
<1>2. ASSUME NEW m \in Nat, NEW g, Flattened(ss, m, g) PROVE \E h : Flattened(ss, m + 1, h)
  <2> DEFINE h == [k \in 1 .. m + 1 |-> IF k # m + 1 THEN g[k]
                      ELSE IF m = 0 THEN ss[m + 1] ELSE g[m] \o ss[m + 1]]
  <2>1. \A k \in 1..m : g[k] = IF k = 1 THEN ss[k] ELSE g[k - 1] \o ss[k]
    BY <1>2 DEF Flattened
  <2>2. /\ \A k \in 1..m : h[k] = g[k]
        /\ h[m + 1] = IF m = 0 THEN ss[m + 1] ELSE g[m] \o ss[m + 1]
        /\ h = [k \in 1 .. m + 1 |-> h[k]]
    <3>1. m + 1 \in 1 .. m + 1 /\ \A k \in 1..m : k \in 1 .. m + 1 /\ k # m + 1
      OBVIOUS
    <3>2. \A k \in 1..m : h[k] = g[k]
      BY <3>1
    <3>3. h[m + 1] = IF m = 0 THEN ss[m + 1] ELSE g[m] \o ss[m + 1]
      BY <3>1
    <3>4. h = [k \in 1 .. m + 1 |-> h[k]]
      BY Zenon
    <3>5. QED
      BY <3>2, <3>3, <3>4
  <2> HIDE DEF h
  <2>3. ASSUME NEW k \in 1 .. m + 1
        PROVE  h[k] = IF k = 1 THEN ss[k] ELSE h[k - 1] \o ss[k]
    <3>1. CASE k = m + 1
      <4>1. k - 1 = m /\ (k = 1 <=> m = 0) /\ (m # 0 => m \in 1..m)
        BY <3>1
      <4>2. QED
        BY <2>2, <3>1, <4>1
    <3>2. CASE k # m + 1
      <4>1. k \in 1..m /\ (k # 1 => k - 1 \in 1..m)
        BY <3>2
      <4>2. QED
        BY <2>1, <2>2, <4>1
    <3>3. QED
      BY <3>1, <3>2
  <2>4. Flattened(ss, m + 1, h)
    BY <2>2, <2>3 DEF Flattened
  <2>5. QED
    BY <2>4
<1>3. Nat \subseteq T
  <2>1. 0 \in T /\ \A m \in Nat : m \in T => m + 1 \in T
    BY <1>1, <1>2
  <2> HIDE DEF T
  <2>2. QED
    BY <2>1, NatInduct
<1>4. QED
  BY <1>3

Joins(ss, n, g) == \A k \in 1..n : g[k] = IF k = 1 THEN ss[k] ELSE g[k - 1] \o ss[k]

LEMMA JoinsUnique ==
    ASSUME NEW ss, NEW n \in Nat, NEW g, Joins(ss, n, g), NEW h, Joins(ss, n, h)
    PROVE  \A k \in 1..n : g[k] = h[k]
<1> DEFINE T == {k \in Nat : k + 1 <= n => g[k + 1] = h[k + 1]}
<1>1. 0 \in T
  BY DEF Joins
<1>2. ASSUME NEW k \in Nat, k \in T PROVE k + 1 \in T
  <2>1. SUFFICES ASSUME k + 2 <= n PROVE g[k + 2] = h[k + 2]
    OBVIOUS
  <2>2. /\ g[k + 1] = h[k + 1] /\ k + 2 \in 1..n /\ (k + 2) - 1 = k + 1 /\ k + 2 # 1
    BY <1>2, <2>1
  <2>3. QED
    BY <2>2 DEF Joins
<1>3. Nat \subseteq T
  <2> HIDE DEF T
  <2>1. QED
    BY <1>1, <1>2, NatInduct
<1>4. \A k \in 1..n : k - 1 \in T /\ (k - 1) + 1 = k
  BY <1>3
<1>5. QED
  BY <1>4

LEMMA FlattenEmpty == FlattenSeq(<<>>) = <<>>
BY DEF FlattenSeq

\* FlattenSeq, one sequence at a time.
LEMMA FlattenAppend ==
    ASSUME NEW X, NEW ss \in Seq(Seq(X)), NEW s \in Seq(X)
    PROVE  FlattenSeq(Append(ss, s)) = FlattenSeq(ss) \o s
<1> DEFINE f(uu) == CHOOSE g : Flattened(uu, Len(uu), g)
           tt == Append(ss, s)
           n == Len(ss)
<1>1. /\ n \in Nat /\ Len(tt) = n + 1 /\ tt[n + 1] = s
      /\ \A k \in 1..n : tt[k] = ss[k]
  OBVIOUS
<1>2. /\ Flattened(ss, n, f(ss)) /\ Flattened(tt, n + 1, f(tt))
  <2>1. ASSUME NEW uu, Len(uu) \in Nat PROVE Flattened(uu, Len(uu), f(uu))
    <3>1. \E g : Flattened(uu, Len(uu), g)
      BY <2>1, FlattenedExists
    <3>2. QED
      BY <3>1
  <2> HIDE DEF f, tt
  <2>2. Len(tt) \in Nat
    BY <1>1
  <2>3. QED
    BY <1>1, <2>1, <2>2
<1>3. /\ FlattenSeq(ss) = IF n = 0 THEN ss ELSE f(ss)[n]
      /\ FlattenSeq(tt) = f(tt)[n + 1]
  <2>1. \A uu : FlattenSeq(uu) = IF Len(uu) = 0 THEN uu ELSE f(uu)[Len(uu)]
    BY DEF FlattenSeq, Flattened
  <2> HIDE DEF f, tt
  <2>2. QED
    BY <1>1, <2>1
<1> HIDE DEF f, tt
<1>4. CASE n = 0
  <2>1. ss = <<>>
    BY <1>4
  <2>2. f(tt)[1] = s
    BY <1>1, <1>2, <1>4 DEF Flattened
  <2>3. <<>> \o s = s
    OBVIOUS
  <2>4. QED
    BY <1>3, <1>4, <2>1, <2>2, <2>3 DEF tt
<1>5. CASE n # 0
  <2>1. f(ss)[n] = f(tt)[n]
    <3>1. Joins(ss, n, f(ss))
      BY <1>2 DEF Flattened, Joins
    <3>2. Joins(tt, n + 1, f(tt))
      BY <1>2 DEF Flattened, Joins
    <3>3. Joins(ss, n, f(tt))
      BY <1>1, <3>2 DEF Joins
    <3>4. QED
      BY <1>1, <1>5, <3>1, <3>3, JoinsUnique
  <2>2. \A k \in 1 .. n + 1 : f(tt)[k] = IF k = 1 THEN tt[k] ELSE f(tt)[k - 1] \o tt[k]
    BY <1>2 DEF Flattened
  <2>3. n + 1 \in 1 .. n + 1 /\ n + 1 # 1 /\ (n + 1) - 1 = n
    BY <1>1, <1>5
  <2>4. f(tt)[n + 1] = f(tt)[n] \o tt[n + 1]
    BY <2>2, <2>3
  <2>5. QED
    BY <1>1, <1>3, <1>5, <2>1, <2>4 DEF tt
<1>6. QED
  BY <1>4, <1>5

LEMMA ToSetConcat ==
    ASSUME NEW X, NEW p \in Seq(X), NEW s \in Seq(X)
    PROVE  ToSet(p \o s) = ToSet(p) \cup ToSet(s)
<1>1. /\ Len(p) \in Nat /\ Len(s) \in Nat /\ Len(p \o s) = Len(p) + Len(s)
      /\ \A n \in 1..Len(p) : (p \o s)[n] = p[n]
      /\ \A n \in 1..Len(s) : (p \o s)[Len(p) + n] = s[n]
      /\ DOMAIN (p \o s) = 1 .. Len(p) + Len(s)
      /\ DOMAIN p = 1..Len(p) /\ DOMAIN s = 1..Len(s)
  OBVIOUS
<1> DEFINE q == p \o s
<1>2. ToSet(q) \subseteq ToSet(p) \cup ToSet(s)
  <2>1. SUFFICES ASSUME NEW n \in 1 .. Len(p) + Len(s) PROVE q[n] \in ToSet(p) \cup ToSet(s)
    BY <1>1 DEF ToSet
  <2>2. CASE n \in 1..Len(p)
    BY <1>1, <2>2 DEF ToSet
  <2>3. CASE n \notin 1..Len(p)
    <3>1. n - Len(p) \in 1..Len(s) /\ n = Len(p) + (n - Len(p))
      BY <1>1, <2>1, <2>3
    <3>2. q[n] = s[n - Len(p)]
      BY <1>1, <3>1
    <3>3. QED
      BY <1>1, <3>1, <3>2 DEF ToSet
  <2>4. QED
    BY <2>2, <2>3
<1>3. ToSet(p) \cup ToSet(s) \subseteq ToSet(q)
  <2>1. \A n \in 1..Len(p) : n \in 1 .. Len(p) + Len(s)
    BY <1>1
  <2>2. \A n \in 1..Len(s) : Len(p) + n \in 1 .. Len(p) + Len(s)
    BY <1>1
  <2>3. ToSet(p) \subseteq ToSet(q)
    BY <1>1, <2>1 DEF ToSet
  <2>4. ToSet(s) \subseteq ToSet(q)
    <3>1. SUFFICES ASSUME NEW n \in 1..Len(s) PROVE s[n] \in ToSet(q)
      BY <1>1 DEF ToSet
    <3>2. q[Len(p) + n] = s[n] /\ Len(p) + n \in DOMAIN q
      BY <1>1, <2>2
    <3> HIDE DEF q
    <3>3. QED
      BY <3>2 DEF ToSet
  <2>5. QED
    BY <2>3, <2>4
<1>4. QED
  BY <1>2, <1>3

LEMMA FlattenElements ==
    ASSUME NEW X, NEW ss \in Seq(Seq(X))
    PROVE  /\ FlattenSeq(ss) \in Seq(X)
           /\ ToSet(FlattenSeq(ss)) = UNION {ToSet(ss[n]) : n \in 1..Len(ss)}
<1> DEFINE T == {tt \in Seq(Seq(X)) :
                    /\ FlattenSeq(tt) \in Seq(X)
                    /\ ToSet(FlattenSeq(tt)) = UNION {ToSet(tt[n]) : n \in 1..Len(tt)}}
<1>1. <<>> \in T
  <2>1. /\ <<>> \in Seq(Seq(X)) /\ FlattenSeq(<<>>) = <<>> /\ <<>> \in Seq(X)
        /\ Len(<<>>) = 0 /\ DOMAIN <<>> = {}
    BY FlattenEmpty
  <2>2. ToSet(<<>>) = {} /\ UNION {ToSet(<<>>[n]) : n \in 1..Len(<<>>)} = {}
    BY <2>1 DEF ToSet
  <2>3. QED
    BY <2>1, <2>2
<1>2. ASSUME NEW tt \in Seq(Seq(X)), NEW s \in Seq(X), tt \in T PROVE Append(tt, s) \in T
  <2> DEFINE uu == Append(tt, s)
  <2>1. FlattenSeq(uu) = FlattenSeq(tt) \o s /\ FlattenSeq(tt) \in Seq(X)
    BY <1>2, FlattenAppend
  <2>2. ToSet(FlattenSeq(uu)) = ToSet(FlattenSeq(tt)) \cup ToSet(s)
    BY <2>1, ToSetConcat
  <2>3. /\ uu \in Seq(Seq(X)) /\ Len(uu) = Len(tt) + 1 /\ uu[Len(tt) + 1] = s
        /\ \A n \in 1..Len(tt) : uu[n] = tt[n]
    OBVIOUS
  <2>6. FlattenSeq(uu) \in Seq(X)
    BY <2>1
  <2> HIDE DEF uu
  <2>4. (UNION {ToSet(uu[n]) : n \in 1..Len(uu)}) = (UNION {ToSet(tt[n]) : n \in 1..Len(tt)}) \cup ToSet(s)
    <3>1. Len(tt) \in Nat
      BY <1>2
    <3>2. 1 .. Len(uu) = 1 .. Len(tt) \cup {Len(tt) + 1}
      BY <3>1, <2>3
    <3>3. QED
      BY <3>2, <2>3
  <2>5. uu \in T
    BY <1>2, <2>2, <2>3, <2>4, <2>6
  <2>7. QED
    BY <2>5 DEF uu
<1>3. Seq(Seq(X)) \subseteq T
  <2> HIDE DEF T
  <2>1. QED
    BY <1>1, <1>2, SeqInduct
<1>4. QED
  BY <1>3

\* Filters by sets that lie one after the other, put end to end.
Consecutive(P, n) == \A m, k \in 1..n : m < k => Before(P[m], P[k])
Together(P, n) == UNION {P[m] : m \in 1..n}
Filters(s, P, ss) == Consecutive(P, Len(ss)) /\ \A m \in 1..Len(ss) : ss[m] = At(s, P[m])

LEMMA AtFlatten ==
    ASSUME NEW X, NEW s \in Seq(X), NEW ss \in Seq(Seq(X)), NEW P, Filters(s, P, ss)
    PROVE  FlattenSeq(ss) = At(s, Together(P, Len(ss)))
<1> DEFINE n == Len(ss)
           U(k) == UNION {P[m] : m \in 1..k}
           T == {k \in Nat : k <= n => FlattenSeq(SubSeq(ss, 1, k)) = At(s, U(k))}
<1>1. 0 \in T
  <2>1. SubSeq(ss, 1, 0) = <<>> /\ U(0) = {}
    OBVIOUS
  <2>2. FlattenSeq(SubSeq(ss, 1, 0)) = <<>>
    BY <2>1, FlattenEmpty
  <2>3. At(s, U(0)) = <<>>
    BY <2>1, AtNothing
  <2>4. QED
    BY <2>2, <2>3
<1>2. ASSUME NEW k \in Nat, k \in T PROVE k + 1 \in T
  <2> SUFFICES ASSUME k + 1 <= n
               PROVE  FlattenSeq(SubSeq(ss, 1, k + 1)) = At(s, U(k + 1))
    OBVIOUS
  <2> DEFINE tt == SubSeq(ss, 1, k)
  <2>1. FlattenSeq(tt) = At(s, U(k)) /\ n \in Nat /\ k + 1 \in 1..n
    BY <1>2
  <2>2. tt \in Seq(Seq(X)) /\ ss[k + 1] \in Seq(X) /\ SubSeq(ss, 1, k + 1) = Append(tt, ss[k + 1])
    BY <2>1
  <2>3. FlattenSeq(Append(tt, ss[k + 1])) = FlattenSeq(tt) \o ss[k + 1]
    <3> HIDE DEF tt
    <3>1. QED
      BY <2>2, FlattenAppend
  <2>4. Before(U(k), P[k + 1])
    <3> SUFFICES ASSUME NEW m \in 1..k, NEW x \in P[m], NEW y \in P[k + 1] PROVE x < y
      BY DEF Before
    <3>1. m \in 1..n /\ m < k + 1
      BY <2>1
    <3>2. QED
      BY <2>1, <3>1 DEF Filters, Consecutive, Before
  <2>5. U(k + 1) = U(k) \cup P[k + 1]
    <3>1. 1 .. k + 1 = 1..k \cup {k + 1}
      OBVIOUS
    <3>2. QED
      BY <3>1
  <2> HIDE DEF U, tt, n
  <2>6. At(s, U(k) \cup P[k + 1]) = At(s, U(k)) \o At(s, P[k + 1])
    <3> DEFINE A == U(k)
               B == P[k + 1]
    <3>1. Before(A, B)
      BY <2>4
    <3> HIDE DEF A, B
    <3>2. At(s, A \cup B) = At(s, A) \o At(s, B)
      BY ONLY <3>1, AtJoin, s \in Seq(X), Zenon
    <3>3. QED
      BY <3>2 DEF A, B
  <2>7. ss[k + 1] = At(s, P[k + 1])
    BY <2>1 DEF n, Filters
  <2>8. QED
    BY <2>1, <2>2, <2>3, <2>5, <2>6, <2>7
<1>3. Nat \subseteq T
  <2> HIDE DEF T
  <2>1. QED
    BY <1>1, <1>2, NatInduct
<1>4. n \in Nat /\ SubSeq(ss, 1, n) = ss
  OBVIOUS
<1>5. n \in T
  BY <1>3, <1>4
<1>6. FlattenSeq(SubSeq(ss, 1, n)) = At(s, U(n))
  BY <1>4, <1>5
<1>7. QED
  BY <1>4, <1>6 DEF Together

-----------------------------------------------------------------------------
(* Depth and scope in a sequence that grows *)

\* Counting the statements of a kind, one more statement at the end.
LEMMA CountFinite ==
    ASSUME NEW s, NEW op, NEW i \in Nat
    PROVE  Count(s, i, op) \in Nat /\ IsFiniteSet({k \in 1..i : s[k].op = op})
<1>1. IsFiniteSet(1..i)
  BY FS_Interval
<1>2. IsFiniteSet({k \in 1..i : s[k].op = op})
  BY <1>1, FS_Subset
<1>3. QED
  BY <1>2, FS_CardinalityType DEF Count

LEMMA CountAppend ==
    ASSUME NEW X, NEW s \in Seq(X), NEW st \in X, NEW op
    PROVE  /\ \A i \in 0..Len(s) : Count(Append(s, st), i, op) = Count(s, i, op)
           /\ Count(Append(s, st), Len(s) + 1, op)
                = IF st.op = op THEN Count(s, Len(s), op) + 1 ELSE Count(s, Len(s), op)
<1> DEFINE t == Append(s, st)
           ks == {k \in 1..Len(s) : s[k].op = op}
<1>1. /\ Len(s) \in Nat /\ t[Len(s) + 1] = st
      /\ \A k \in 1..Len(s) : t[k] = s[k]
  OBVIOUS
<1> HIDE DEF t
<1>2. \A i \in 0..Len(s) : {k \in 1..i : t[k].op = op} = {k \in 1..i : s[k].op = op}
  BY <1>1
<1>3. {k \in 1 .. Len(s) + 1 : t[k].op = op}
        = IF st.op = op THEN ks \cup {Len(s) + 1} ELSE ks
  BY <1>1
<1>4. IsFiniteSet(ks) /\ Len(s) + 1 \notin ks
  <2>0. 1 \in Int /\ Len(s) \in Int
    BY <1>1
  <2>1. IsFiniteSet(1..Len(s)) /\ ks \in SUBSET (1..Len(s))
    BY <2>0, FS_Interval
  <2>2. QED
    BY <1>1, <2>1, FS_Subset
<1>5. Cardinality(ks \cup {Len(s) + 1}) = Cardinality(ks) + 1
  BY <1>4, FS_AddElement
<1>6. QED
  BY <1>2, <1>3, <1>5 DEF Count, t

\* The depth after one more statement.
LEMMA DepthAppend ==
    ASSUME NEW X, NEW s \in Seq(X), NEW st \in X
    PROVE  /\ \A i \in 0..Len(s) : Depth(Append(s, st), i) = Depth(s, i)
           /\ Depth(Append(s, st), Len(s) + 1)
                = CASE st.op = "enter" -> Depth(s, Len(s)) + 1
                    [] st.op = "exit" -> Depth(s, Len(s)) - 1
                    [] OTHER -> Depth(s, Len(s))
<1>1. Len(s) \in Nat
  OBVIOUS
<1>2. Count(s, Len(s), "enter") \in Nat /\ Count(s, Len(s), "exit") \in Nat
  BY <1>1, CountFinite
<1>3. QED
  BY <1>2, CountAppend DEF Depth

\* What was in scope at an earlier statement stays so; what is in scope after one
\* more statement was in scope before it and is not deeper than it.
LEMMA InScopeAppend ==
    ASSUME NEW X, NEW s \in Seq(X), NEW st \in X
    PROVE  /\ \A j, i \in 1 .. Len(s) + 1 : InScope(Append(s, st), j, i) <=> InScope(s, j, i)
           /\ \A j \in 1..Len(s) :
                 /\ InScope(Append(s, st), j, Len(s) + 2) <=>
                       InScope(s, j, Len(s) + 1) /\ Depth(Append(s, st), Len(s) + 1) >= Depth(s, j)
                 /\ InScope(s, j, Len(s) + 1) => Depth(s, j) <= Depth(s, Len(s))
           /\ InScope(Append(s, st), Len(s) + 1, Len(s) + 2)
<1> DEFINE t == Append(s, st)
           n == Len(s)
<1>1. n \in Nat
  OBVIOUS
<1>2. \A i \in 0..n : Depth(t, i) = Depth(s, i)
  BY DepthAppend
<1> HIDE DEF t, n
<1>3. ASSUME NEW i \in Nat PROVE Depth(s, i) \in Int /\ Depth(t, i) \in Int
  <2>1. \A op : Count(s, i, op) \in Nat /\ Count(t, i, op) \in Nat
    BY CountFinite
  <2>2. QED
    BY <2>1 DEF Depth
<1>4. ASSUME NEW j \in 1 .. n + 1, NEW i \in 1 .. n + 1 PROVE InScope(t, j, i) <=> InScope(s, j, i)
  <2>1. \A k \in j .. i - 1 : k \in 0..n
    BY <1>1
  <2>2. j < i => j \in 0..n
    BY <1>1
  <2>3. QED
    BY <1>2, <2>1, <2>2 DEF InScope
<1>5. ASSUME NEW j \in 1..n
      PROVE  /\ InScope(t, j, n + 2) <=> InScope(s, j, n + 1) /\ Depth(t, n + 1) >= Depth(s, j)
             /\ InScope(s, j, n + 1) => Depth(s, j) <= Depth(s, n)
  <2>1. (n + 2) - 1 = n + 1 /\ (n + 1) - 1 = n /\ j < n + 2 /\ j < n + 1
    BY <1>1
  <2>2. j .. n + 1 = j..n \cup {n + 1}
    BY <1>1
  <2>3. \A k \in j..n : Depth(t, k) = Depth(s, k)
    BY <1>1, <1>2
  <2>4. Depth(t, j) = Depth(s, j)
    BY <1>1, <2>3
  <2>5. InScope(t, j, n + 2) <=> \A k \in j .. n + 1 : Depth(t, k) >= Depth(t, j)
    BY <2>1 DEF InScope
  <2>6. InScope(s, j, n + 1) <=> \A k \in j .. n : Depth(s, k) >= Depth(s, j)
    BY <2>1 DEF InScope
  <2>7. n \in j..n /\ Depth(s, n) \in Int /\ Depth(s, j) \in Int
    BY <1>1, <1>3
  <2>8. QED
    BY <2>2, <2>3, <2>4, <2>5, <2>6, <2>7
<1>6. InScope(t, n + 1, n + 2)
  <2>1. (n + 2) - 1 = n + 1 /\ n + 1 < n + 2 /\ Depth(t, n + 1) \in Int
    BY <1>1, <1>3
  <2>2. \A k \in n + 1 .. (n + 2) - 1 : Depth(t, k) >= Depth(t, n + 1)
    <3>1. \A k \in n + 1 .. (n + 2) - 1 : k = n + 1
      BY <1>1
    <3>2. QED
      BY <2>1, <3>1
  <2>3. QED
    BY <2>1, <2>2 DEF InScope
<1>7. QED
  BY <1>4, <1>5, <1>6 DEF t, n

LEMMA DepthType == ASSUME NEW s, NEW i \in Nat PROVE Depth(s, i) \in Int
<1>1. Count(s, i, "enter") \in Nat /\ Count(s, i, "exit") \in Nat
  BY CountFinite
<1>2. QED
  BY <1>1 DEF Depth

LEMMA CountNext ==
    ASSUME NEW s, NEW i \in Nat \ {0}, NEW op
    PROVE  Count(s, i, op) = IF s[i].op = op THEN Count(s, i - 1, op) + 1 ELSE Count(s, i - 1, op)
<1> DEFINE ks == {k \in 1 .. i - 1 : s[k].op = op}
<1>0. i - 1 \in Nat
  OBVIOUS
<1>1. IsFiniteSet(ks) /\ Count(s, i - 1, op) = Cardinality(ks) /\ Cardinality(ks) \in Nat
  BY <1>0, CountFinite DEF Count
<1>2. i \notin ks
  OBVIOUS
<1>3. {k \in 1..i : s[k].op = op} = IF s[i].op = op THEN ks \cup {i} ELSE ks
  OBVIOUS
<1>4. Cardinality(ks \cup {i}) = Cardinality(ks) + 1
  BY <1>1, <1>2, FS_AddElement
<1>5. QED
  BY <1>1, <1>3, <1>4 DEF Count

\* The depth changes where a block opens or closes.
LEMMA DepthNext ==
    ASSUME NEW s, NEW i \in Nat \ {0}
    PROVE  Depth(s, i) = CASE s[i].op = "enter" -> Depth(s, i - 1) + 1
                           [] s[i].op = "exit" -> Depth(s, i - 1) - 1
                           [] OTHER -> Depth(s, i - 1)
<1>0. i - 1 \in Nat
  OBVIOUS
<1>1. Count(s, i - 1, "enter") \in Nat /\ Count(s, i - 1, "exit") \in Nat
  BY <1>0, CountFinite
<1>2. QED
  BY <1>1, CountNext DEF Depth

LEMMA DepthStart == ASSUME NEW s PROVE Depth(s, 0) = 0
<1>1. {k \in 1..0 : s[k].op = "enter"} = {} /\ {k \in 1..0 : s[k].op = "exit"} = {}
  OBVIOUS
<1>2. Count(s, 0, "enter") = 0 /\ Count(s, 0, "exit") = 0
  BY <1>1, FS_EmptySet DEF Count
<1>3. QED
  BY <1>2 DEF Depth

\* What is in scope after statement i was in scope before it and is not deeper.
LEMMA InScopeNext ==
    ASSUME NEW s, NEW i \in Nat \ {0}
    PROVE  /\ \A j \in 1 .. i - 1 :
                 InScope(s, j, i + 1) <=> InScope(s, j, i) /\ Depth(s, i) >= Depth(s, j)
           /\ InScope(s, i, i + 1)
<1>1. ASSUME NEW j \in 1 .. i - 1
      PROVE  InScope(s, j, i + 1) <=> InScope(s, j, i) /\ Depth(s, i) >= Depth(s, j)
  <2>1. (i + 1) - 1 = i /\ j < i /\ j < i + 1 /\ j..i = (j .. i - 1) \cup {i}
    OBVIOUS
  <2>2. QED
    BY <2>1 DEF InScope
<1>2. InScope(s, i, i + 1)
  <2>1. (i + 1) - 1 = i /\ i < i + 1 /\ i..i = {i} /\ Depth(s, i) \in Int
    BY DepthType
  <2>2. QED
    BY <2>1 DEF InScope
<1>3. QED
  BY <1>1, <1>2

\* Of two statements in scope, the one that is less deep comes first.
LEMMA InScopeOrder ==
    ASSUME NEW s, NEW i \in Nat \ {0}, NEW j \in 1 .. i - 1, InScope(s, j, i)
    PROVE  /\ Depth(s, j) <= Depth(s, i - 1)
           /\ \A k \in 1 .. i - 1 : InScope(s, k, i) /\ Depth(s, j) < Depth(s, k) => j < k
<1>1. i - 1 \in j .. i - 1
  OBVIOUS
<1>2. Depth(s, i - 1) \in Int /\ Depth(s, j) \in Int
  BY DepthType
<1>3. Depth(s, j) <= Depth(s, i - 1)
  BY <1>1, <1>2 DEF InScope
<1>4. ASSUME NEW k \in 1 .. i - 1, InScope(s, k, i), Depth(s, j) < Depth(s, k), ~(j < k) PROVE FALSE
  <2>1. j \in k .. i - 1
    BY <1>4
  <2>2. Depth(s, j) >= Depth(s, k) /\ Depth(s, k) \in Int
    BY <1>4, <2>1, DepthType DEF InScope
  <2>3. QED
    BY <1>2, <1>4, <2>2
<1>5. QED
  BY <1>3, <1>4
-----------------------------------------------------------------------------
(* Sequences put end to end *)

NoRepeat(s) == \A a, b \in 1..Len(s) : s[a] = s[b] => a = b

\* The n-th of the sequences ss lies in out right after position start[n].
Laid(ss, out, start) ==
    /\ start \in [1 .. Len(ss) + 1 -> Nat] /\ start[1] = 0 /\ Len(out) = start[Len(ss) + 1]
    /\ \A n \in 1..Len(ss) :
          /\ start[n + 1] = start[n] + Len(ss[n])
          /\ \A j \in 1..Len(ss[n]) : out[start[n] + j] = ss[n][j]
    /\ \A m, n \in 1..Len(ss) : m < n => start[m] + Len(ss[m]) <= start[n]
Tiled(ss, out, start) ==
    \A p \in 1..Len(out) : \E n \in 1..Len(ss) : \E j \in 1..Len(ss[n]) : p = start[n] + j

LEMMA LaidOut ==
    ASSUME NEW X, NEW ss \in Seq(Seq(X))
    PROVE  \E start : Laid(ss, FlattenSeq(ss), start) /\ Tiled(ss, FlattenSeq(ss), start)
<1> DEFINE T == {tt \in Seq(Seq(X)) :
                    \E start : Laid(tt, FlattenSeq(tt), start) /\ Tiled(tt, FlattenSeq(tt), start)}
<1>1. <<>> \in T
  <2>1. FlattenSeq(<<>>) = <<>> /\ Len(<<>>) = 0 /\ <<>> \in Seq(Seq(X))
    BY FlattenEmpty
  <2> DEFINE start == [n \in 1..1 |-> 0]
  <2>2. start \in [1..1 -> Nat] /\ start[1] = 0
    OBVIOUS
  <2> HIDE DEF start
  <2>3. Laid(<<>>, <<>>, start) /\ Tiled(<<>>, <<>>, start)
    BY <2>1, <2>2 DEF Laid, Tiled
  <2>4. QED
    BY <2>1, <2>3
<1>2. ASSUME NEW tt \in Seq(Seq(X)), NEW s \in Seq(X), tt \in T PROVE Append(tt, s) \in T
  <2> DEFINE uu == Append(tt, s)
             out == FlattenSeq(tt)
             L == Len(tt)
  <2>1. PICK start : Laid(tt, out, start) /\ Tiled(tt, out, start)
    BY <1>2
  <2>2. out \in Seq(X) /\ FlattenSeq(uu) = out \o s /\ L \in Nat /\ Len(s) \in Nat /\ Len(out) \in Nat
    BY FlattenElements, FlattenAppend
  <2>3. /\ uu \in Seq(Seq(X)) /\ Len(uu) = L + 1 /\ uu[L + 1] = s
        /\ \A n \in 1..L : uu[n] = tt[n] /\ Len(tt[n]) \in Nat
    BY <2>2
  <2> DEFINE next == [n \in 1 .. L + 2 |-> IF n = L + 2 THEN start[L + 1] + Len(s) ELSE start[n]]
             new == out \o s
  <2>4. /\ start \in [1 .. L + 1 -> Nat] /\ start[1] = 0 /\ Len(out) = start[L + 1]
        /\ \A n \in 1..L : start[n + 1] = start[n] + Len(tt[n]) /\ start[n] \in Nat
        /\ \A n \in 1..L : \A j \in 1..Len(tt[n]) : out[start[n] + j] = tt[n][j]
        /\ \A m, n \in 1..L : m < n => start[m] + Len(tt[m]) <= start[n]
    <3>1. /\ start \in [1 .. L + 1 -> Nat] /\ start[1] = 0 /\ Len(out) = start[L + 1]
          /\ \A n \in 1..L : start[n + 1] = start[n] + Len(tt[n])
                              /\ \A j \in 1..Len(tt[n]) : out[start[n] + j] = tt[n][j]
          /\ \A m, n \in 1..L : m < n => start[m] + Len(tt[m]) <= start[n]
      BY <2>1 DEF Laid
    <3>2. \A n \in 1..L : n \in 1 .. L + 1
      BY <2>2
    <3> HIDE DEF out, L
    <3>3. \A n \in 1..L : start[n] \in Nat
      BY <3>1, <3>2
    <3>4. QED
      BY <3>1, <3>3
  <2>5. /\ next \in [1 .. L + 2 -> Nat] /\ next[L + 2] = start[L + 1] + Len(s)
        /\ \A n \in 1 .. L + 1 : next[n] = start[n]
    BY <2>2, <2>4
  <2>6. /\ Len(new) = Len(out) + Len(s) /\ \A p \in 1..Len(out) : new[p] = out[p]
        /\ \A j \in 1..Len(s) : new[Len(out) + j] = s[j]
    BY <2>2
  <2> HIDE DEF next, new, out, uu, L
  <2>7. ASSUME NEW n \in 1..L PROVE start[n] + Len(tt[n]) <= Len(out) /\ start[n] \in Nat
    <3>1. CASE n = L
      BY <2>2, <2>4, <3>1
    <3>2. CASE n < L
      <4>1. start[n] + Len(tt[n]) <= start[L] /\ start[L] + Len(tt[L]) = Len(out) /\ L \in 1..L
        BY <2>2, <2>4, <3>2
      <4>2. start[n] \in Nat /\ start[L] \in Nat /\ Len(tt[n]) \in Nat /\ Len(tt[L]) \in Nat
        BY <2>3, <2>4, <4>1
      <4>3. QED
        BY SMTT(20), <4>1, <4>2
    <3>3. QED
      BY <2>2, <3>1, <3>2
  <2>8. ASSUME NEW n \in 1 .. L + 1
        PROVE  next[n + 1] = next[n] + Len(uu[n]) /\ \A j \in 1..Len(uu[n]) : new[next[n] + j] = uu[n][j]
    <3>1. CASE n = L + 1
      <4>1. n + 1 = L + 2 /\ next[n] = Len(out) /\ uu[n] = s
        BY <2>2, <2>3, <2>4, <2>5, <3>1
      <4>2. QED
        BY <2>2, <2>4, <2>5, <2>6, <4>1
    <3>2. CASE n \in 1..L
      <4>1. next[n] = start[n] /\ next[n + 1] = start[n + 1] /\ uu[n] = tt[n] /\ n + 1 \in 1 .. L + 1
        <5>1. n + 1 \in 1 .. L + 1
          BY <2>2, <3>2
        <5>2. next[n] = start[n] /\ next[n + 1] = start[n + 1]
          BY <2>5, <5>1
        <5>3. uu[n] = tt[n]
          BY <2>3, <3>2
        <5>4. QED
          BY <5>1, <5>2, <5>3
      <4>2. ASSUME NEW j \in 1..Len(tt[n]) PROVE new[start[n] + j] = tt[n][j]
        <5>1. start[n] + j \in 1..Len(out)
          BY SMTT(20), <2>2, <2>3, <2>7, <3>2
        <5>2. QED
          BY <2>4, <2>6, <3>2, <5>1
      <4>3. QED
        BY <2>4, <3>2, <4>1, <4>2
    <3>3. QED
      BY <2>2, <3>1, <3>2
  <2>9. ASSUME NEW m \in 1 .. L + 1, NEW n \in 1 .. L + 1, m < n
        PROVE  next[m] + Len(uu[m]) <= next[n]
    <3>1. m \in 1..L
      BY <2>2, <2>9
    <3>2. next[m] = start[m] /\ uu[m] = tt[m] /\ next[n] = start[n]
      BY <2>3, <2>5, <3>1
    <3>3. CASE n = L + 1
      BY <2>4, <2>7, <3>1, <3>2, <3>3
    <3>4. CASE n \in 1..L
      BY <2>4, <2>9, <3>1, <3>2, <3>4
    <3>5. QED
      BY <2>2, <3>3, <3>4
  <2>10. ASSUME NEW p \in 1..Len(new)
         PROVE  \E n \in 1 .. L + 1 : \E j \in 1..Len(uu[n]) : p = next[n] + j
    <3>1. CASE p \in 1..Len(out)
      <4>1. PICK n \in 1..L : \E j \in 1..Len(tt[n]) : p = start[n] + j
        BY <2>1, <3>1 DEF Tiled, L
      <4>2. n \in 1 .. L + 1 /\ next[n] = start[n] /\ uu[n] = tt[n]
        BY <2>2, <2>3, <2>5
      <4>3. QED
        BY <4>1, <4>2
    <3>2. CASE p \notin 1..Len(out)
      <4>1. p - Len(out) \in 1..Len(s) /\ p = Len(out) + (p - Len(out))
        BY <2>2, <2>6, <3>2
      <4>2. L + 1 \in 1 .. L + 1 /\ next[L + 1] = Len(out) /\ uu[L + 1] = s
        BY <2>2, <2>3, <2>4, <2>5
      <4>3. QED
        BY <4>1, <4>2
    <3>3. QED
      BY <3>1, <3>2
  <2>11. next[1] = 0 /\ Len(new) = next[L + 2] /\ Len(uu) + 1 = L + 2
    BY <2>2, <2>3, <2>4, <2>5, <2>6
  <2>12. Laid(uu, new, next)
    BY <2>3, <2>5, <2>8, <2>9, <2>11 DEF Laid
  <2>13. Tiled(uu, new, next)
    BY <2>3, <2>10 DEF Tiled
  <2>14. FlattenSeq(uu) = new /\ uu \in Seq(Seq(X))
    BY <2>2, <2>3 DEF new
  <2>15. uu \in T
    BY <2>12, <2>13, <2>14
  <2>16. QED
    BY <2>15 DEF uu
<1>3. Seq(Seq(X)) \subseteq T
  <2> HIDE DEF T
  <2>1. QED
    BY <1>1, <1>2, SeqInduct
<1>4. QED
  BY <1>3

\* Each of the sequences lies within out.
LEMMA LaidWithin ==
    ASSUME NEW X, NEW ss \in Seq(Seq(X)), NEW out, NEW start, Laid(ss, out, start),
           NEW m \in 1..Len(ss)
    PROVE  /\ start[m] \in Nat /\ Len(ss[m]) \in Nat /\ Len(out) \in Nat
           /\ start[m] + Len(ss[m]) <= Len(out)
           /\ start[m + 1] = start[m] + Len(ss[m])
           /\ \A x \in 1..Len(ss[m]) :
                 start[m] + x \in 1..Len(out) /\ out[start[m] + x] = ss[m][x]
<1> DEFINE L == Len(ss)
<1>1. L \in Nat /\ \A n \in 1..L : Len(ss[n]) \in Nat
  <2>1. L \in Nat /\ \A n \in 1..L : ss[n] \in Seq(X)
    OBVIOUS
  <2>2. QED
    BY <2>1
<1> HIDE DEF L
<1>2. /\ start \in [1 .. L + 1 -> Nat] /\ Len(out) = start[L + 1]
      /\ \A n \in 1..L : start[n + 1] = start[n] + Len(ss[n])
                          /\ \A j \in 1..Len(ss[n]) : out[start[n] + j] = ss[n][j]
      /\ \A k, n \in 1..L : k < n => start[k] + Len(ss[k]) <= start[n]
  BY DEF Laid, L
<1>3. m \in 1..L /\ m \in 1 .. L + 1 /\ L \in 1..L /\ L \in 1 .. L + 1 /\ L + 1 \in 1 .. L + 1
  <2>1. m \in 1..L
    BY DEF L
  <2>2. QED
    BY <1>1, <2>1
<1>4. start[m] \in Nat /\ start[L] \in Nat /\ start[L + 1] \in Nat
  BY <1>2, <1>3
<1>5. Len(ss[m]) \in Nat /\ Len(ss[L]) \in Nat
  BY <1>1, <1>3
<1>6. start[m] + Len(ss[m]) <= Len(out)
  <2>1. start[L + 1] = start[L] + Len(ss[L])
    BY <1>2, <1>3
  <2>2. CASE m = L
    BY <1>2, <1>4, <1>5, <2>1, <2>2
  <2>3. CASE m < L
    <3>1. start[m] + Len(ss[m]) <= start[L]
      BY <1>2, <1>3, <2>3
    <3>2. QED
      BY SMTT(20), <1>2, <1>4, <1>5, <2>1, <3>1
  <2>4. QED
    BY <1>1, <1>3, <2>2, <2>3
<1>7. ASSUME NEW x \in 1..Len(ss[m])
      PROVE  start[m] + x \in 1..Len(out) /\ out[start[m] + x] = ss[m][x]
  <2>1. start[m] + x \in 1..Len(out)
    BY <1>2, <1>4, <1>5, <1>6
  <2>2. QED
    BY <1>2, <1>3, <2>1
<1>8. QED
  BY <1>2, <1>3, <1>4, <1>5, <1>6, <1>7

LEMMA AtNoRepeat ==
    ASSUME NEW X, NEW s \in Seq(X), NEW S, NoRepeat(s)
    PROVE  NoRepeat(At(s, S))
<1> DEFINE ps == Ascending(Len(s), S)
<1>1. Lists(ps, S \cap 1..Len(s))
  BY AscendingLists
<1>2. Picks(At(s, S), s, ps)
  BY <1>1, AtIs
<1> HIDE DEF ps
<1>3. /\ ps \in Seq(Nat) /\ Len(ps) \in Nat
      /\ \A n \in 1..Len(ps) : ps[n] \in 1..Len(s)
      /\ \A m, n \in 1..Len(ps) : m < n => ps[m] < ps[n]
  BY <1>1 DEF Lists
<1>4. At(s, S) = [n \in 1..Len(ps) |-> s[ps[n]]] /\ Len(At(s, S)) = Len(ps)
  BY <1>2, AtElements DEF Picks
<1>5. ASSUME NEW a \in 1..Len(ps), NEW b \in 1..Len(ps), s[ps[a]] = s[ps[b]] PROVE a = b
  <2>1. ps[a] = ps[b] /\ ps[a] \in Nat
    BY <1>3, <1>5 DEF NoRepeat
  <2>2. ~(a < b) /\ ~(b < a)
    BY <1>3, <2>1
  <2>3. QED
    BY <1>3, <2>2
<1>6. QED
  BY <1>4, <1>5 DEF NoRepeat

\* Of two sequences without a common element too.
LEMMA ConcatNoRepeat ==
    ASSUME NEW X, NEW p \in Seq(X), NEW s \in Seq(X), NoRepeat(p), NoRepeat(s),
           ToSet(p) \cap ToSet(s) = {}
    PROVE  NoRepeat(p \o s)
<1> DEFINE t == p \o s
<1>1. /\ Len(p) \in Nat /\ Len(s) \in Nat /\ Len(t) = Len(p) + Len(s)
      /\ \A n \in 1..Len(p) : t[n] = p[n] /\ p[n] \in ToSet(p)
      /\ \A n \in 1..Len(s) : t[Len(p) + n] = s[n] /\ s[n] \in ToSet(s)
  BY DEF ToSet
<1> HIDE DEF t
<1>2. ASSUME NEW n \in 1..Len(t), n \notin 1..Len(p)
      PROVE  n - Len(p) \in 1..Len(s) /\ t[n] = s[n - Len(p)]
  <2>1. n - Len(p) \in 1..Len(s) /\ n = Len(p) + (n - Len(p))
    BY <1>1, <1>2
  <2>2. QED
    BY <1>1, <2>1
<1>3. ASSUME NEW a \in 1..Len(t), NEW b \in 1..Len(t), t[a] = t[b] PROVE a = b
  <2>1. CASE a \in 1..Len(p) /\ b \in 1..Len(p)
    BY <1>1, <1>3, <2>1 DEF NoRepeat
  <2>2. CASE a \notin 1..Len(p) /\ b \notin 1..Len(p)
    <3>1. a - Len(p) = b - Len(p)
      BY <1>2, <1>3, <2>2 DEF NoRepeat
    <3>2. QED
      BY <1>1, <3>1
  <2>3. CASE a \in 1..Len(p) /\ b \notin 1..Len(p)
    BY <1>1, <1>2, <1>3, <2>3
  <2>4. CASE a \notin 1..Len(p) /\ b \in 1..Len(p)
    BY <1>1, <1>2, <1>3, <2>4
  <2>5. QED
    BY <2>1, <2>2, <2>3, <2>4
<1>4. QED
  BY <1>3 DEF NoRepeat, t

LEMMA AtMostOne ==
    ASSUME NEW S, IsFiniteSet(S), ~(Cardinality(S) > 1), NEW a \in S, NEW b \in S
    PROVE  a = b
<1> SUFFICES ASSUME a # b PROVE FALSE
  OBVIOUS
<1>1. IsFiniteSet({a}) /\ Cardinality({a}) = 1
  BY FS_Singleton
<1>2. IsFiniteSet({a} \cup {b}) /\ Cardinality({a} \cup {b}) = 2
  <2>1. b \notin {a}
    OBVIOUS
  <2>2. /\ IsFiniteSet({a} \cup {b})
        /\ Cardinality({a} \cup {b}) = IF b \in {a} THEN Cardinality({a}) ELSE Cardinality({a}) + 1
    BY <1>1, FS_AddElement, Zenon
  <2>3. QED
    BY <1>1, <2>1, <2>2
<1>3. Cardinality({a} \cup {b}) <= Cardinality(S) /\ Cardinality(S) \in Nat
  <2>1. {a} \cup {b} \in SUBSET S
    OBVIOUS
  <2>2. QED
    BY <2>1, FS_Subset, FS_CardinalityType
<1>4. QED
  BY <1>2, <1>3

Apart(ss) ==
    /\ \A n \in 1..Len(ss) : NoRepeat(ss[n])
    /\ \A m, n \in 1..Len(ss) : m # n => ToSet(ss[m]) \cap ToSet(ss[n]) = {}

\* Sequences without repetition and without a common element, put end to end.
LEMMA FlattenNoRepeat ==
    ASSUME NEW X, NEW ss \in Seq(Seq(X)), Apart(ss)
    PROVE  NoRepeat(FlattenSeq(ss))
<1> DEFINE out == FlattenSeq(ss)
<1>1. PICK start : Laid(ss, out, start) /\ Tiled(ss, out, start)
  BY LaidOut
<1> HIDE DEF out
<1>2. SUFFICES ASSUME NEW p \in 1..Len(out), NEW q \in 1..Len(out), out[p] = out[q] PROVE p = q
  BY DEF NoRepeat, out
<1>3a. PICK m \in 1..Len(ss) : \E j \in 1..Len(ss[m]) : p = start[m] + j
  BY <1>1 DEF Tiled
<1>4a. PICK n \in 1..Len(ss) : \E k \in 1..Len(ss[n]) : q = start[n] + k
  BY <1>1 DEF Tiled
<1>3. PICK j \in 1..Len(ss[m]) : p = start[m] + j
  BY <1>3a
<1>4. PICK k \in 1..Len(ss[n]) : q = start[n] + k
  BY <1>4a
<1>5. ss[m][j] = ss[n][k]
  BY <1>1, <1>2, <1>3, <1>4 DEF Laid
<1>6. ss[m][j] \in ToSet(ss[m]) /\ ss[n][k] \in ToSet(ss[n])
  BY DEF ToSet
<1>7. m = n
  BY <1>5, <1>6 DEF Apart
<1>8. j = k
  BY <1>5, <1>7 DEF Apart, NoRepeat
<1>9. QED
  BY <1>3, <1>4, <1>7, <1>8

\* The first n statements of s, read again after position o of t, change the depth
\* as they do in s.
Repeats(t, o, s, n) == \A j \in 1..n : t[o + j] = s[j]

LEMMA DepthShift ==
    ASSUME NEW s, NEW t, NEW o \in Nat, NEW n \in Nat, Repeats(t, o, s, n)
    PROVE  \A j \in 0..n : Depth(t, o + j) = Depth(t, o) + Depth(s, j)
<1> DEFINE T == {j \in Nat : j <= n => Depth(t, o + j) = Depth(t, o) + Depth(s, j)}
<1>1. 0 \in T
  <2>1. Depth(s, 0) = 0 /\ Depth(t, o) \in Int /\ o + 0 = o
    BY DepthStart, DepthType
  <2>2. QED
    BY <2>1
<1>2. ASSUME NEW j \in Nat, j \in T PROVE j + 1 \in T
  <2> SUFFICES ASSUME j + 1 <= n PROVE Depth(t, o + (j + 1)) = Depth(t, o) + Depth(s, j + 1)
    OBVIOUS
  <2>1. Depth(t, o + j) = Depth(t, o) + Depth(s, j)
    BY <1>2
  <2>2. t[o + (j + 1)] = s[j + 1]
    BY DEF Repeats
  <2>3. j + 1 \in Nat \ {0} /\ o + (j + 1) \in Nat \ {0}
        /\ (j + 1) - 1 = j /\ (o + (j + 1)) - 1 = o + j /\ o + j \in Nat
    OBVIOUS
  <2>4. Depth(s, j) \in Int /\ Depth(t, o) \in Int /\ Depth(t, o + j) \in Int
    BY <2>3, DepthType
  <2>5. Depth(s, j + 1) = CASE s[j + 1].op = "enter" -> Depth(s, j) + 1
                            [] s[j + 1].op = "exit" -> Depth(s, j) - 1
                            [] OTHER -> Depth(s, j)
    BY <2>3, DepthNext
  <2>6. Depth(t, o + (j + 1)) = CASE s[j + 1].op = "enter" -> Depth(t, o + j) + 1
                                  [] s[j + 1].op = "exit" -> Depth(t, o + j) - 1
                                  [] OTHER -> Depth(t, o + j)
    BY <2>2, <2>3, DepthNext
  <2>7. QED
    BY <2>1, <2>4, <2>5, <2>6
<1>3. Nat \subseteq T
  <2> HIDE DEF T
  <2>1. QED
    BY <1>1, <1>2, NatInduct
<1>4. QED
  BY <1>3
=============================================================================
