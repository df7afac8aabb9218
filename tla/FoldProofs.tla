----------------------------- MODULE FoldProofs -----------------------------
(***************************************************************************)
(* The loops of the source over a list are folds of the model; here is     *)
(* what one wants to know of a fold.  A module that uses this instantiates *)
(* it with the body Op of its loop and with what the loop maintains: I     *)
(* relates the number of items done, the state and a context.  Op takes    *)
(* the state, the item and what else the body reads.                       *)
(*                                                                         *)
(* Least and Greatest are also in SubsequencesProofs: this module extends  *)
(* little, since every instance repeats what it extends.                   *)
(***************************************************************************)
EXTENDS Folds, Sequences, WellFoundedInduction

CONSTANTS Op(_, _, _, _, _, _), I(_, _, _)

Fold(w, s, p, q, r, t) ==
    MapThenFoldSet(LAMBDA e, a : Op(a, e, p, q, r, t), w, LAMBDA i : s[i],
                   LAMBDA S : CHOOSE x \in S : \A y \in S : x >= y, DOMAIN s)

-----------------------------------------------------------------------------
(* Least and greatest numbers *)

\* A set of natural numbers that has an element has a least one.
LEMMA Least ==
    ASSUME NEW T, T \subseteq Nat, T # {}
    PROVE  \E x \in T : \A y \in T : x <= y
<1>1. \E x \in T : \A y \in T : ~(<<y, x>> \in OpToRel(<, Nat))
  BY NatLessThanWellFounded, WFMin
<1>2. PICK x \in T : \A y \in T : ~(<<y, x>> \in OpToRel(<, Nat))
  BY <1>1
<1>3. \A m, n \in Nat : n < m => <<n, m>> \in OpToRel(<, Nat)
  BY DEF OpToRel
<1>4. \A y \in T : ~(y < x)
  BY <1>2, <1>3
<1> QED
  BY <1>4

\* A bounded one has a greatest.
LEMMA Greatest ==
    ASSUME NEW b \in Nat, NEW T, T \subseteq 0..b, T # {}
    PROVE  \E x \in T : \A y \in T : y <= x
<1> DEFINE U == {n \in Nat : \A y \in T : y <= n}
<1>1. U \subseteq Nat /\ b \in U
  OBVIOUS
<1>2. PICK m \in U : \A n \in U : m <= n
  <2> HIDE DEF U
  <2> QED BY <1>1, Least
<1>3. CASE m \in T
  BY <1>3
<1>4. CASE m \notin T
  <2>1. \A y \in T : y <= m /\ y \in Nat /\ y # m
    BY <1>4
  <2>2. m # 0
    <3>1. PICK y \in T : TRUE
      OBVIOUS
    <3> QED BY <2>1, <3>1
  <2>3. m - 1 \in U
    BY <2>1, <2>2
  <2> QED
    BY <2>3, <1>2
<1> QED
  BY <1>3, <1>4

-----------------------------------------------------------------------------
(* The recursion of FoldLeft is well founded *)

\* The last of a set of positions.
Latest(S) == CHOOSE x \in S : \A y \in S : x >= y

\* g is what the recursion computes for the sets of positions up to n.
IsFold(g, w, s, p, q, r, t, n) ==
    g = [S \in SUBSET (1..n) |-> IF S = {} THEN w ELSE Op(g[S \ {Latest(S)}], s[Latest(S)], p, q, r, t)]

\* The last of some positions is one of them, and the greatest.
LEMMA LatestProperties ==
    ASSUME NEW n \in Nat, NEW S \in SUBSET (1..n), S # {}
    PROVE  Latest(S) \in S /\ \A y \in S : y <= Latest(S)
<1>1. S \subseteq 0..n
  OBVIOUS
<1>2. \E x \in S : \A y \in S : y <= x
  BY <1>1, Greatest
<1>3. \E x \in S : \A y \in S : x >= y
  <2>1. PICK x \in S : \A y \in S : y <= x
    BY <1>2
  <2>2. \A y \in S : x >= y
    BY <2>1
  <2> QED BY <2>2
<1>4. Latest(S) \in S /\ \A y \in S : Latest(S) >= y
  BY <1>3 DEF Latest
<1> QED
  BY <1>4

\* The last of the positions 1 to n is n.
LEMMA LatestOfAll ==
    ASSUME NEW n \in Nat, n > 0
    PROVE  Latest(1..n) = n /\ (1..n) \ {n} = 1..(n - 1)
<1>1. Latest(1..n) \in 1..n /\ \A y \in 1..n : y <= Latest(1..n)
  <2>1. n \in 1..n /\ 1..n \in SUBSET (1..n)
    OBVIOUS
  <2> QED BY <2>1, LatestProperties
<1> QED
  BY <1>1

\* There is such a function.
LEMMA FoldExists ==
    ASSUME NEW w, NEW s, NEW p, NEW q, NEW r, NEW t, NEW n \in Nat
    PROVE  \E g : IsFold(g, w, s, p, q, r, t, n)
<1> DEFINE Is(g, k) == IsFold(g, w, s, p, q, r, t, k)
           Bad == {m \in Nat : ~\E g : Is(g, m)}
           Value(g, S) == IF S = {} THEN w ELSE Op(g[S \ {Latest(S)}], s[Latest(S)], p, q, r, t)
<1>1. SUFFICES Bad = {}
  BY <1>1
<1>2. SUFFICES ASSUME Bad # {}
               PROVE  FALSE
  OBVIOUS
<1>3. PICK m \in Bad : \A k \in Bad : m <= k
  <2>1. Bad \subseteq Nat
    OBVIOUS
  <2> HIDE DEF Bad
  <2> QED BY <1>2, <2>1, Least
<1>4. m # 0
  <2>1. 1..0 = {}
    OBVIOUS
  <2>2. Is([S \in SUBSET (1..0) |-> w], 0)
    BY <2>1 DEF IsFold
  <2> QED BY <2>2
<1>5. m - 1 \in Nat /\ m - 1 \notin Bad
  BY <1>3, <1>4
<1>6. PICK g : Is(g, m - 1)
  BY <1>5
<1> DEFINE h == [S \in SUBSET (1..m) |-> Value(g, S)]
<1>7. g = [S \in SUBSET (1..(m - 1)) |-> Value(g, S)]
  BY <1>6 DEF IsFold
<1>8. \A S \in SUBSET (1..(m - 1)) : S \in SUBSET (1..m) /\ g[S] = Value(g, S)
  <2>1. 1..(m - 1) \subseteq 1..m
    BY <1>5
  <2> HIDE DEF Value
  <2> QED BY <2>1, <1>7
<1>9. \A S \in SUBSET (1..(m - 1)) : h[S] = g[S]
  BY <1>8
<1>10. \A S \in SUBSET (1..m) : S # {} => S \ {Latest(S)} \in SUBSET (1..(m - 1))
  <2>1. SUFFICES ASSUME NEW S \in SUBSET (1..m), S # {}
                 PROVE  S \ {Latest(S)} \in SUBSET (1..(m - 1))
    OBVIOUS
  <2>2. Latest(S) \in S /\ \A y \in S : y <= Latest(S)
    BY <2>1, LatestProperties
  <2>3. ASSUME NEW x \in S, x # Latest(S)
        PROVE  x \in 1..(m - 1)
    <3>1. x \in 1..m /\ Latest(S) \in 1..m /\ x <= Latest(S)
      BY <2>2, <2>3
    <3> QED BY <3>1, <2>3, <1>5
  <2> QED BY <2>3
<1>11. \A S \in SUBSET (1..m) : h[S] = Value(h, S)
  <2>1. SUFFICES ASSUME NEW S \in SUBSET (1..m)
                 PROVE  Value(h, S) = Value(g, S)
    BY <2>1
  <2>2. S # {} => h[S \ {Latest(S)}] = g[S \ {Latest(S)}]
    <3> HIDE DEF h
    <3> QED BY <1>9, <1>10
  <2> HIDE DEF h
  <2> QED BY <2>2
<1>12. h = [S \in SUBSET (1..m) |-> Value(h, S)]
  <2>1. h = [S \in SUBSET (1..m) |-> h[S]]
    OBVIOUS
  <2> HIDE DEF h, Value
  <2> QED BY <2>1, <1>11
<1>13. Is(h, m)
  <2> HIDE DEF h
  <2> QED BY <1>12 DEF IsFold
<1> QED
  BY <1>13, <1>3

\* A fold over a list of length n is this function at all its positions.
LEMMA FoldIs ==
    ASSUME NEW w, NEW s, NEW p, NEW q, NEW r, NEW t, NEW n \in Nat, DOMAIN s = 1..n
    PROVE  \E g : IsFold(g, w, s, p, q, r, t, n) /\ Fold(w, s, p, q, r, t) = g[1..n]
<1> DEFINE c == CHOOSE g : IsFold(g, w, s, p, q, r, t, n)
<1>1. IsFold(c, w, s, p, q, r, t, n)
  BY FoldExists
<1>2. Fold(w, s, p, q, r, t) = c[1..n]
  BY DEF Fold, MapThenFoldSet, IsFold, Latest
<1> QED
  BY <1>1, <1>2

-----------------------------------------------------------------------------
(* The laws *)

\* f is the state after each item: the loop as it runs.
Runs(f, w, s, p, q, r, t, n) ==
    /\ f[0] = w
    /\ \A k \in 1..n : f[k] = Op(f[k - 1], s[k], p, q, r, t)
    /\ Fold(w, s, p, q, r, t) = f[n]

\* Every fold runs.
LEMMA FoldRuns ==
    ASSUME NEW w, NEW s, NEW p, NEW q, NEW r, NEW t, NEW n \in Nat, DOMAIN s = 1..n
    PROVE  \E f : Runs(f, w, s, p, q, r, t, n)
<1>1. PICK g : IsFold(g, w, s, p, q, r, t, n) /\ Fold(w, s, p, q, r, t) = g[1..n]
  BY FoldIs
<1> DEFINE f == [k \in 0..n |-> g[1..k]]
<1>2. \A S \in SUBSET (1..n) : g[S] = IF S = {} THEN w ELSE Op(g[S \ {Latest(S)}], s[Latest(S)], p, q, r, t)
  BY <1>1 DEF IsFold
<1>3. f[0] = w
  <2>1. 1..0 = {} /\ 1..0 \in SUBSET (1..n) /\ 0 \in 0..n
    OBVIOUS
  <2> QED BY <1>2, <2>1
<1>4. ASSUME NEW k \in 1..n
      PROVE  f[k] = Op(f[k - 1], s[k], p, q, r, t)
  <2>1. k \in Nat /\ k > 0 /\ k - 1 \in 0..n /\ k \in 0..n /\ 1..k \in SUBSET (1..n) /\ 1..k # {}
    OBVIOUS
  <2>2. Latest(1..k) = k /\ (1..k) \ {k} = 1..(k - 1)
    BY <2>1, LatestOfAll
  <2>3. g[1..k] = Op(g[1..(k - 1)], s[k], p, q, r, t)
    BY <1>2, <2>1, <2>2
  <2> QED BY <2>1, <2>3
<1>5. Fold(w, s, p, q, r, t) = f[n]
  BY <1>1
<1>6. \A k \in 1..n : f[k] = Op(f[k - 1], s[k], p, q, r, t)
  BY <1>4
<1> HIDE DEF f
<1>7. Runs(f, w, s, p, q, r, t, n)
  BY <1>3, <1>5, <1>6 DEF Runs
<1> QED
  BY <1>7

\* What holds at the beginning and is maintained by the body holds at the end.
THEOREM FoldMaintains ==
    ASSUME NEW w, NEW s, NEW p, NEW q, NEW r, NEW t, NEW c, NEW n \in Nat, DOMAIN s = 1..n,
           I(0, w, c),
           \A k \in 1..n : \A a : I(k - 1, a, c) => I(k, Op(a, s[k], p, q, r, t), c)
    PROVE  I(n, Fold(w, s, p, q, r, t), c)
<1>0. PICK f : Runs(f, w, s, p, q, r, t, n)
  BY FoldRuns
<1>1. /\ f[0] = w
      /\ \A k \in 1..n : f[k] = Op(f[k - 1], s[k], p, q, r, t)
      /\ Fold(w, s, p, q, r, t) = f[n]
  BY <1>0 DEF Runs
<1> DEFINE Bad == {m \in 0..n : ~I(m, f[m], c)}
<1>2. SUFFICES Bad = {}
  BY <1>1, <1>2
<1>3. SUFFICES ASSUME Bad # {}
               PROVE  FALSE
  OBVIOUS
<1>4. PICK m \in Bad : \A k \in Bad : m <= k
  <2>1. Bad \subseteq Nat
    OBVIOUS
  <2> HIDE DEF Bad
  <2> QED BY <1>3, <2>1, Least
<1>5. m # 0
  BY <1>1
<1>6. m - 1 \in 0..n /\ m \in 1..n /\ m - 1 \notin Bad
  BY <1>4, <1>5
<1>7. I(m - 1, f[m - 1], c)
  BY <1>6
<1>8. I(m, f[m], c)
  BY <1>1, <1>6, <1>7
<1> QED
  BY <1>8

\* A loop over two items.
THEOREM FoldOfTwo ==
    ASSUME NEW w, NEW x, NEW y, NEW p, NEW q, NEW r, NEW t
    PROVE  Fold(w, <<x, y>>, p, q, r, t) = Op(Op(w, x, p, q, r, t), y, p, q, r, t)
<1> DEFINE s == <<x, y>>
<1>0. PICK f : Runs(f, w, s, p, q, r, t, 2)
  <2>1. DOMAIN s = 1..2 /\ 2 \in Nat
    OBVIOUS
  <2> HIDE DEF s
  <2> QED BY <2>1, FoldRuns
<1>1. /\ f[0] = w
      /\ \A k \in 1..2 : f[k] = Op(f[k - 1], s[k], p, q, r, t)
      /\ Fold(w, s, p, q, r, t) = f[2]
  BY <1>0 DEF Runs
<1>2. f[1] = Op(f[0], x, p, q, r, t)
  BY <1>1
<1>3. f[2] = Op(f[1], y, p, q, r, t)
  BY <1>1
<1> QED
  BY <1>1, <1>2, <1>3
=============================================================================
