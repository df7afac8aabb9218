------------------------- MODULE SubsequencesProofs -------------------------
(***************************************************************************)
(* What Subsequence returns, for every list and every set of positions.    *)
(* The provers cannot use the induction theorems of the library, which     *)
(* take a predicate as a parameter; every induction here goes through the  *)
(* least counterexample instead, which a set of numbers has (Least).       *)
(***************************************************************************)
EXTENDS Subsequences, SequenceTheorems, WellFoundedInduction, TLAPS

-----------------------------------------------------------------------------
(* Least and greatest numbers *)

\* A set of natural numbers that has an element has a least one.
LEMMA Least ==
    ASSUME NEW T, T \subseteq Nat, T # {}
    PROVE  \E x \in T : \A y \in T : x <= y
<1>1. \E x \in T : \A y \in T : ~(<<y, x>> \in OpToRel(<, Nat))
  BY NatLessThanWellFounded, WFMin, Zenon
<1>2. PICK x \in T : \A y \in T : ~(<<y, x>> \in OpToRel(<, Nat))
  BY <1>1, Zenon
<1>3. \A m, n \in Nat : n < m => <<n, m>> \in OpToRel(<, Nat)
  BY DEF OpToRel
<1>4. \A y \in T : ~(y < x)
  BY <1>2, <1>3, Zenon
<1> QED
  BY <1>4, SMT

\* A bounded one has a greatest.
LEMMA Greatest ==
    ASSUME NEW b \in Nat, NEW T, T \subseteq 0..b, T # {}
    PROVE  \E x \in T : \A y \in T : y <= x
<1> DEFINE U == {n \in Nat : \A y \in T : y <= n}
<1>1. U \subseteq Nat /\ b \in U
  OBVIOUS
<1>2. PICK m \in U : \A n \in U : m <= n
  <2> HIDE DEF U
  <2> QED BY <1>1, Least, Zenon
<1>3. CASE m \in T
  BY <1>3
<1>4. CASE m \notin T
  <2>1. \A y \in T : y <= m /\ y \in Nat /\ y # m
    BY <1>4
  <2>2. m # 0
    <3>1. PICK y \in T : TRUE
      OBVIOUS
    <3> QED BY <2>1, <3>1
  <2>3. m - 1 \in U
    BY <2>1, <2>2
  <2> QED
    BY <2>3, <1>2
<1> QED
  BY <1>3, <1>4

-----------------------------------------------------------------------------
(* The recursion of Subsequence is well founded *)

\* u is the function the recursion computes, for the first n items of s.
IsUpto(u, s, I, n) ==
    u = [i \in 0..n |-> IF i = 0 THEN << >>
                        ELSE IF i \in I THEN Append(u[i - 1], s[i]) ELSE u[i - 1]]

\* There is such a function.
LEMMA UptoExists ==
    ASSUME NEW s, NEW I, NEW n \in Nat
    PROVE  \E u : IsUpto(u, s, I, n)
<1> DEFINE Bad == {m \in Nat : ~\E u : IsUpto(u, s, I, m)}
<1>1. SUFFICES Bad = {}
  BY <1>1
<1>2. SUFFICES ASSUME Bad # {}
               PROVE  FALSE
  OBVIOUS
<1>3. PICK m \in Bad : \A k \in Bad : m <= k
  <2>1. Bad \subseteq Nat
    OBVIOUS
  <2> HIDE DEF Bad
  <2> QED BY <1>2, <2>1, Least, Zenon
<1>4. m # 0
  <2>1. IsUpto([i \in 0..0 |-> << >>], s, I, 0)
    BY DEF IsUpto
  <2> QED BY <2>1
<1>5. m - 1 \in Nat /\ m - 1 \notin Bad
  BY <1>3, <1>4
<1>6. PICK u : IsUpto(u, s, I, m - 1)
  BY <1>5
<1> DEFINE v == [i \in 0..m |-> IF i < m THEN u[i]
                                ELSE IF m \in I THEN Append(u[m - 1], s[m]) ELSE u[m - 1]]
<1>7. \A i \in 0..m : i < m => v[i] = IF i = 0 THEN << >>
                                      ELSE IF i \in I THEN Append(v[i - 1], s[i]) ELSE v[i - 1]
  <2>1. SUFFICES ASSUME NEW i \in 0..m, i < m
                 PROVE  v[i] = IF i = 0 THEN << >>
                               ELSE IF i \in I THEN Append(v[i - 1], s[i]) ELSE v[i - 1]
    BY <2>1
  <2>2. i \in 0..(m - 1) /\ (i # 0 => i - 1 \in 0..m /\ i - 1 < m)
    BY <1>5, <2>1
  <2>3. u[i] = IF i = 0 THEN << >> ELSE IF i \in I THEN Append(u[i - 1], s[i]) ELSE u[i - 1]
    BY <1>6, <2>2, Zenon DEF IsUpto
  <2>4. v[i] = u[i] /\ (i # 0 => v[i - 1] = u[i - 1])
    BY <2>1, <2>2
  <2> HIDE DEF v
  <2> QED BY <2>3, <2>4
<1>8. v[m] = IF m \in I THEN Append(v[m - 1], s[m]) ELSE v[m - 1]
  BY <1>5
<1>9. IsUpto(v, s, I, m)
  <2>1. v = [i \in 0..m |-> v[i]]
    OBVIOUS
  <2>2. \A i \in 0..m : v[i] = IF i = 0 THEN << >>
                                ELSE IF i \in I THEN Append(v[i - 1], s[i]) ELSE v[i - 1]
    <3> HIDE DEF v
    <3> QED BY <1>3, <1>4, <1>7, <1>8
  <2> HIDE DEF v
  <2> QED BY <2>1, <2>2 DEF IsUpto
<1> QED
  BY <1>9, <1>3

\* Subsequence is its value at the end of the list.
LEMMA SubsequenceIsUpto ==
    ASSUME NEW s, NEW I, Len(s) \in Nat
    PROVE  \E u : IsUpto(u, s, I, Len(s)) /\ Subsequence(s, I) = u[Len(s)]
<1> DEFINE c == CHOOSE u : IsUpto(u, s, I, Len(s))
<1>1. IsUpto(c, s, I, Len(s))
  BY UptoExists
<1>2. Subsequence(s, I) = c[Len(s)]
  BY DEF Subsequence, IsUpto
<1> QED
  BY <1>1, <1>2

\* The loop, item by item.
Unfolds(u, s, I) ==
    /\ u[0] = << >>
    /\ \A n \in 1..Len(s) : u[n] = IF n \in I THEN Append(u[n - 1], s[n]) ELSE u[n - 1]

\* Subsequence is where it ends.
LEMMA SubsequenceUnfolds ==
    ASSUME NEW s, NEW I, Len(s) \in Nat
    PROVE  \E u : Unfolds(u, s, I) /\ Subsequence(s, I) = u[Len(s)]
<1>1. PICK u : IsUpto(u, s, I, Len(s)) /\ Subsequence(s, I) = u[Len(s)]
  BY SubsequenceIsUpto
<1>2. u = [i \in 0..Len(s) |-> IF i = 0 THEN << >>
                               ELSE IF i \in I THEN Append(u[i - 1], s[i]) ELSE u[i - 1]]
  BY <1>1 DEF IsUpto
<1>3. \A i \in 0..Len(s) : u[i] = IF i = 0 THEN << >>
                                  ELSE IF i \in I THEN Append(u[i - 1], s[i]) ELSE u[i - 1]
  BY <1>2, Zenon
<1>4. /\ u[0] = << >>
      /\ \A n \in 1..Len(s) : u[n] = IF n \in I THEN Append(u[n - 1], s[n]) ELSE u[n - 1]
  BY <1>3
<1> QED
  BY <1>1, <1>4 DEF Unfolds

-----------------------------------------------------------------------------
(* What Subsequence returns *)

\* g tells which of the first n items of s each item of r is: those at the
\* positions in I, all of them, in their order.
Embedding(g, r, s, I, n) ==
    /\ g \in [1..Len(r) -> 1..n]
    /\ \A i \in 1..Len(r) : g[i] \in I /\ r[i] = s[g[i]]
    /\ \A i, j \in 1..Len(r) : i < j => g[i] < g[j]
    /\ \A m \in 1..n : m \in I => \E i \in 1..Len(r) : g[i] = m

\* One more item, which is kept.
LEMMA EmbeddingKeep ==
    ASSUME NEW S, NEW s \in Seq(S), NEW I, NEW n \in 1..Len(s), n \in I,
           NEW r \in Seq(S), NEW g, Embedding(g, r, s, I, n - 1)
    PROVE  \E h : Embedding(h, Append(r, s[n]), s, I, n)
<1> DEFINE a == Append(r, s[n])
           h == [i \in 1..Len(a) |-> IF i <= Len(r) THEN g[i] ELSE n]
<1>1. s[n] \in S /\ Len(r) \in Nat /\ n \in Nat /\ n > 0
  BY ElementOfSeq, LenProperties
<1>2. /\ Len(a) = Len(r) + 1 /\ a[Len(r) + 1] = s[n]
      /\ \A i \in 1..Len(r) : a[i] = r[i]
  BY <1>1, AppendProperties
<1> HIDE DEF a
<1>3. \A i \in 1..Len(r) : g[i] \in 1..(n - 1)
  BY DEF Embedding
<1>4. /\ \A i \in 1..Len(r) : h[i] = g[i]
      /\ h[Len(r) + 1] = n
      /\ \A i \in 1..Len(a) : i \in 1..Len(r) \/ i = Len(r) + 1
  BY <1>1, <1>2
<1>5. h \in [1..Len(a) -> 1..n]
  BY <1>1, <1>3, <1>4
<1> HIDE DEF h
<1>6. \A i \in 1..Len(a) : h[i] \in I /\ a[i] = s[h[i]]
  BY <1>1, <1>2, <1>4 DEF Embedding
<1>7. \A i, j \in 1..Len(a) : i < j => h[i] < h[j]
  BY <1>1, <1>2, <1>3, <1>4 DEF Embedding
<1>8. \A m \in 1..n : m \in I => \E i \in 1..Len(a) : h[i] = m
  <2>1. SUFFICES ASSUME NEW m \in 1..n, m \in I
                 PROVE  \E i \in 1..Len(a) : h[i] = m
    BY <2>1
  <2>2. CASE m = n
    BY <2>2, <1>1, <1>2, <1>4
  <2>3. CASE m # n
    <3>1. m \in 1..(n - 1)
      BY <2>3, <1>1
    <3>2. PICK i \in 1..Len(r) : g[i] = m
      BY <3>1, <2>1 DEF Embedding
    <3> QED BY <3>2, <1>1, <1>2, <1>4
  <2> QED BY <2>2, <2>3
<1> QED
  BY <1>5, <1>6, <1>7, <1>8 DEF Embedding, a

\* One more item, which is passed over.
LEMMA EmbeddingSkip ==
    ASSUME NEW S, NEW s \in Seq(S), NEW I, NEW n \in 1..Len(s), n \notin I,
           NEW r \in Seq(S), NEW g, Embedding(g, r, s, I, n - 1)
    PROVE  Embedding(g, r, s, I, n)
<1>1. Len(r) \in Nat /\ n \in Nat /\ n > 0
  BY LenProperties
<1>2. \A m \in 1..n : m \in I => m \in 1..(n - 1)
  BY <1>1
<1>3. g \in [1..Len(r) -> 1..n]
  BY <1>1 DEF Embedding
<1> QED
  BY <1>2, <1>3 DEF Embedding

\* Subsequence keeps the items at the positions in I, and only those, in order.
LEMMA SubsequenceEmbeds ==
    ASSUME NEW S, NEW s \in Seq(S), NEW I
    PROVE  /\ Subsequence(s, I) \in Seq(S)
           /\ \E g : Embedding(g, Subsequence(s, I), s, I, Len(s))
<1>1. Len(s) \in Nat
  BY LenProperties
<1>2. PICK u : Unfolds(u, s, I) /\ Subsequence(s, I) = u[Len(s)]
  BY <1>1, SubsequenceUnfolds
<1>3. /\ u[0] = << >>
      /\ \A n \in 1..Len(s) : u[n] = IF n \in I THEN Append(u[n - 1], s[n]) ELSE u[n - 1]
  BY <1>2 DEF Unfolds
<1> DEFINE Good(n) == u[n] \in Seq(S) /\ \E g : Embedding(g, u[n], s, I, n)
           Bad == {n \in 0..Len(s) : ~Good(n)}
<1>4. SUFFICES Bad = {}
  BY <1>1, <1>2, <1>4
<1>5. SUFFICES ASSUME Bad # {}
               PROVE  FALSE
  OBVIOUS
<1>6. PICK n \in Bad : \A k \in Bad : n <= k
  <2>1. Bad \subseteq Nat
    BY <1>1
  <2> HIDE DEF Bad
  <2> QED BY <1>5, <2>1, Least, Zenon
<1>7. n # 0
  <2>1. u[0] \in Seq(S) /\ Len(u[0]) = 0
    BY <1>3, EmptySeq
  <2>2. Embedding([i \in 1..0 |-> 0], u[0], s, I, 0)
    BY <2>1 DEF Embedding
  <2> QED BY <2>1, <2>2
<1>8. n \in 1..Len(s) /\ n - 1 \in 0..Len(s) /\ Good(n - 1)
  BY <1>1, <1>6, <1>7
<1>9. PICK g : Embedding(g, u[n - 1], s, I, n - 1)
  BY <1>8
<1>10. CASE n \in I
  <2>1. u[n] = Append(u[n - 1], s[n]) /\ s[n] \in S
    BY <1>3, <1>8, <1>10, ElementOfSeq
  <2>2. u[n] \in Seq(S)
    BY <1>8, <2>1, AppendProperties
  <2>3. \E h : Embedding(h, u[n], s, I, n)
    BY <1>8, <1>9, <1>10, <2>1, EmbeddingKeep
  <2> QED BY <2>2, <2>3
<1>11. CASE n \notin I
  <2>1. u[n] = u[n - 1]
    BY <1>3, <1>8, <1>11
  <2>2. Embedding(g, u[n - 1], s, I, n)
    BY <1>8, <1>9, <1>11, EmbeddingSkip
  <2> QED BY <1>8, <2>1, <2>2
<1> QED
  BY <1>10, <1>11

\* What Subsequence returns, without the embedding.
LEMMA SubsequenceItems ==
    ASSUME NEW S, NEW s \in Seq(S), NEW I \in SUBSET (1..Len(s))
    PROVE  /\ Subsequence(s, I) \in Seq(S)
           /\ \A i \in 1..Len(Subsequence(s, I)) : \E m \in I : Subsequence(s, I)[i] = s[m]
           /\ \A m \in I : \E i \in 1..Len(Subsequence(s, I)) : Subsequence(s, I)[i] = s[m]
<1> DEFINE r == Subsequence(s, I)
<1>1. r \in Seq(S) /\ \E g : Embedding(g, r, s, I, Len(s))
  BY SubsequenceEmbeds
<1> HIDE DEF r
<1>2. PICK g : Embedding(g, r, s, I, Len(s))
  BY <1>1
<1>3. \A i \in 1..Len(r) : g[i] \in I /\ r[i] = s[g[i]]
  BY <1>2 DEF Embedding
<1>4. \A m \in I : \E i \in 1..Len(r) : g[i] = m
  BY <1>2 DEF Embedding
<1>5. \A i \in 1..Len(r) : \E m \in I : r[i] = s[m]
  BY <1>3
<1>6. \A m \in I : \E i \in 1..Len(r) : r[i] = s[m]
  BY <1>3, <1>4
<1> QED
  BY <1>1, <1>5, <1>6, Zenon DEF r

\* Different items stay different.
LEMMA SubsequenceDistinct ==
    ASSUME NEW S, NEW s \in Seq(S), NEW I \in SUBSET (1..Len(s)),
           \A i, j \in 1..Len(s) : s[i] = s[j] => i = j
    PROVE  \A i, j \in 1..Len(Subsequence(s, I)) :
              Subsequence(s, I)[i] = Subsequence(s, I)[j] => i = j
<1> DEFINE r == Subsequence(s, I)
<1>1. r \in Seq(S) /\ \E g : Embedding(g, r, s, I, Len(s))
  BY SubsequenceEmbeds
<1> HIDE DEF r
<1>2. PICK g : Embedding(g, r, s, I, Len(s))
  BY <1>1
<1>3. SUFFICES ASSUME NEW i \in 1..Len(r), NEW j \in 1..Len(r), r[i] = r[j]
               PROVE  i = j
  BY <1>3 DEF r
<1>4. g[i] \in 1..Len(s) /\ g[j] \in 1..Len(s) /\ r[i] = s[g[i]] /\ r[j] = s[g[j]]
  BY <1>2 DEF Embedding
<1>5. g[i] = g[j]
  BY <1>3, <1>4
<1>6. Len(s) \in Nat /\ Len(r) \in Nat
  BY <1>1, LenProperties
<1>7. (i < j => g[i] < g[j]) /\ (j < i => g[j] < g[i])
  BY <1>2 DEF Embedding
<1> QED
  BY <1>4, <1>5, <1>6, <1>7

\* When no item is taken out the list stays what it is.
LEMMA SubsequenceAll ==
    ASSUME NEW S, NEW s \in Seq(S), NEW I, \A n \in 1..Len(s) : n \in I
    PROVE  Subsequence(s, I) = s
<1>1. Len(s) \in Nat
  BY LenProperties
<1>2. PICK u : Unfolds(u, s, I) /\ Subsequence(s, I) = u[Len(s)]
  BY <1>1, SubsequenceUnfolds
<1>3. u[0] = << >> /\ \A n \in 1..Len(s) : u[n] = Append(u[n - 1], s[n])
  BY <1>2 DEF Unfolds
<1> DEFINE Good(n) == u[n] \in Seq(S) /\ Len(u[n]) = n /\ \A i \in 1..n : u[n][i] = s[i]
           Bad == {n \in 0..Len(s) : ~Good(n)}
<1>4. Bad = {}
  <2>1. SUFFICES ASSUME Bad # {}
                 PROVE  FALSE
    OBVIOUS
  <2>2. PICK n \in Bad : \A k \in Bad : n <= k
    <3>1. Bad \subseteq Nat
      BY <1>1
    <3> HIDE DEF Bad
    <3> QED BY <2>1, <3>1, Least, Zenon
  <2>3. n # 0
    <3>1. u[0] \in Seq(S) /\ Len(u[0]) = 0
      BY <1>3, EmptySeq
    <3>2. Good(0)
      BY <3>1
    <3> QED BY <3>2
  <2>4. n \in 1..Len(s) /\ n - 1 \in 0..Len(s) /\ Good(n - 1)
    BY <1>1, <2>2, <2>3
  <2>5. u[n] = Append(u[n - 1], s[n]) /\ s[n] \in S
    BY <1>3, <2>4, ElementOfSeq
  <2>6. /\ Append(u[n - 1], s[n]) \in Seq(S) /\ Len(Append(u[n - 1], s[n])) = n - 1 + 1
        /\ \A i \in 1..(n - 1) : Append(u[n - 1], s[n])[i] = s[i]
        /\ Append(u[n - 1], s[n])[n - 1 + 1] = s[n]
    BY <2>4, <2>5, AppendProperties
  <2>7. u[n] \in Seq(S) /\ Len(u[n]) = n /\ \A i \in 1..n : u[n][i] = s[i]
    <3>1. n - 1 + 1 = n /\ \A i \in 1..n : i = n \/ i \in 1..(n - 1)
      BY <1>1, <2>4
    <3> QED BY <2>5, <2>6, <3>1
  <2> QED BY <2>7
<1>5. Good(Len(s))
  BY <1>1, <1>4
<1> HIDE DEF Bad
<1>6. u[Len(s)] = s
  BY <1>5, SeqEqual
<1> QED
  BY <1>2, <1>6
=============================================================================
