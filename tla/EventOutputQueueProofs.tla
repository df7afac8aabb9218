----------------------- MODULE EventOutputQueueProofs -----------------------
(***************************************************************************)
(* The invariants of the output queue, for every set of keys, modifiers,   *)
(* buttons and macros, every DropKeyAfterRemap item, all delays and queues *)
(* of any length.                                                          *)
(*                                                                         *)
(* First what the Fire* classes do to the queue, for every queue, every    *)
(* set of flags and every request: each keeps the types, only appends to   *)
(* queue_, and keeps the queue in step with lastFlags_, PressDownKeys and  *)
(* lastButtons_. Then the inductive invariants.                            *)
(***************************************************************************)
EXTENDS EventOutputQueue, SubsequencesProofs

FlagSet  == Flags \cup {NUMPAD}
OutType  == [queue : Seq(EventType), last : SUBSET FlagSet, ignore : BOOLEAN,
             pressed : Seq(Keys), buttons : SUBSET Buttons]
RecvType == [flags : SUBSET Flags, keys : SUBSET Keys, buttons : SUBSET Buttons]

-----------------------------------------------------------------------------
(* Sequences *)

\* A function on 1..n is a sequence of that length.
LEMMA FunctionIsSeq ==
    ASSUME NEW n \in Nat, NEW S, NEW f \in [1..n -> S]
    PROVE  f \in Seq(S) /\ Len(f) = n /\ DOMAIN f = 1..n
<1>1. f \in Seq(S)
  BY SeqDef
<1>2. DOMAIN f = 1..Len(f) /\ Len(f) \in Nat
  BY <1>1, LenProperties
<1>3. 1..Len(f) = 1..n
  BY <1>2
<1>4. Len(f) = n
  <2>1. CASE Len(f) < n
    <3>1. n \in 1..n /\ n \notin 1..Len(f)
      BY <2>1, <1>2
    <3> QED BY <3>1, <1>3
  <2>2. CASE n < Len(f)
    <3>1. Len(f) \in 1..Len(f) /\ Len(f) \notin 1..n
      BY <2>2, <1>2
    <3> QED BY <3>1, <1>3
  <2> QED BY <2>1, <2>2, <1>2
<1> QED
  BY <1>1, <1>4

\* A sequence of one item.
LEMMA OneItem ==
    ASSUME NEW S, NEW x \in S
    PROVE  <<x>> \in Seq(S) /\ Len(<<x>>) = 1 /\ <<x>>[1] = x
OBVIOUS

\* Sequences of events are joined in any order.
LEMMA JoinEvents ==
    \A a, b, c \in Seq(EventType) : (a \o b) \o c = a \o (b \o c)
BY ConcatAssociative

-----------------------------------------------------------------------------
(* The last event of a kind: what FlagsBefore, KeyAfter and ButtonsLater   *)
(* look for.                                                               *)

\* The position of the last event of K before position i of q; 0 if there is none.
LastIn(q, K, i) ==
    LET S == {j \in 1..(i - 1) : q[j] \in K}
    IN  IF S = {} THEN 0 ELSE LastOf(S)

\* The greatest element is LastOf.
LEMMA LastOfIs ==
    ASSUME NEW S \in SUBSET Int, NEW m \in S, \A j \in S : j <= m
    PROVE  LastOf(S) = m
<1>1. LastOf(S) \in S /\ \A j \in S : j <= LastOf(S)
  BY DEF LastOf
<1>2. m <= LastOf(S) /\ LastOf(S) <= m /\ m \in Int /\ LastOf(S) \in Int
  BY <1>1
<1> QED
  BY <1>2

\* LastOf of a bounded set that is not empty is its greatest element.
LEMMA LastOfMax ==
    ASSUME NEW b \in Nat, NEW S \in SUBSET (0..b), S # {}
    PROVE  LastOf(S) \in S /\ \A j \in S : j <= LastOf(S)
<1>1. \E m \in S : \A j \in S : j <= m
  BY Greatest
<1> QED
  BY <1>1 DEF LastOf

\* LastIn finds the last one.
LEMMA LastInChar ==
    ASSUME NEW q, NEW K, NEW i \in Nat \ {0}
    PROVE  /\ LastIn(q, K, i) \in 0..(i - 1)
           /\ LastIn(q, K, i) = 0 => \A j \in 1..(i - 1) : q[j] \notin K
           /\ LastIn(q, K, i) # 0 => /\ q[LastIn(q, K, i)] \in K
                                     /\ \A j \in 1..(i - 1) : LastIn(q, K, i) < j => q[j] \notin K
<1> DEFINE S == {j \in 1..(i - 1) : q[j] \in K}
<1>1. CASE S = {}
  BY <1>1 DEF LastIn
<1>2. CASE S # {}
  <2>1. S \in SUBSET (0..(i - 1)) /\ i - 1 \in Nat
    OBVIOUS
  <2>2. LastOf(S) \in S /\ \A j \in S : j <= LastOf(S)
    <3> HIDE DEF S
    <3> QED BY <1>2, <2>1, LastOfMax
  <2>3. LastIn(q, K, i) = LastOf(S)
    BY <1>2 DEF LastIn
  <2> QED BY <2>2, <2>3
<1> QED
  BY <1>1, <1>2

\* A position that is the last one is LastIn.
LEMMA LastInIs ==
    ASSUME NEW q, NEW K, NEW i \in Nat \ {0}, NEW m \in 0..(i - 1),
           m # 0 => q[m] \in K,
           \A j \in 1..(i - 1) : m < j => q[j] \notin K
    PROVE  LastIn(q, K, i) = m
<1>1. LastIn(q, K, i) \in 0..(i - 1)
  BY LastInChar
<1>2. CASE LastIn(q, K, i) = 0
  BY <1>2, LastInChar
<1>3. CASE LastIn(q, K, i) # 0
  <2>1. q[LastIn(q, K, i)] \in K /\ \A j \in 1..(i - 1) : LastIn(q, K, i) < j => q[j] \notin K
    BY <1>3, LastInChar
  <2> QED BY <1>1, <1>3, <2>1
<1> QED
  BY <1>2, <1>3

\* It looks only at what is before i: appending does not change it.
LEMMA LastInPrefix ==
    ASSUME NEW S, NEW q \in Seq(S), NEW t \in Seq(S), NEW K, NEW i \in 1..(Len(q) + 1)
    PROVE  LastIn(q \o t, K, i) = LastIn(q, K, i)
<1>1. Len(q) \in Nat /\ Len(t) \in Nat /\ i \in Nat \ {0}
  BY LenProperties
<1>2. \A j \in 1..(i - 1) : (q \o t)[j] = q[j]
  BY <1>1, ConcatProperties
<1> DEFINE m == LastIn(q, K, i)
<1>3. /\ m \in 0..(i - 1)
      /\ m = 0 => \A j \in 1..(i - 1) : q[j] \notin K
      /\ m # 0 => q[m] \in K /\ \A j \in 1..(i - 1) : m < j => q[j] \notin K
  BY <1>1, LastInChar
<1> HIDE DEF m
<1>4. m # 0 => (q \o t)[m] \in K
  BY <1>1, <1>2, <1>3
<1>5. \A j \in 1..(i - 1) : m < j => (q \o t)[j] \notin K
  BY <1>1, <1>2, <1>3
<1>6. LastIn(q \o t, K, i) = m
  BY <1>1, <1>3, <1>4, <1>5, LastInIs
<1> QED
  BY <1>6 DEF m

\* Within what was appended it is the last one there, or else the last one before.
LEMMA LastInConcat ==
    ASSUME NEW S, NEW q \in Seq(S), NEW t \in Seq(S), NEW K, NEW i \in 1..(Len(t) + 1)
    PROVE  LastIn(q \o t, K, Len(q) + i) =
              IF LastIn(t, K, i) # 0 THEN Len(q) + LastIn(t, K, i) ELSE LastIn(q, K, Len(q) + 1)
<1>1. Len(q) \in Nat /\ Len(t) \in Nat /\ i \in Nat \ {0} /\ Len(q) + i \in Nat \ {0}
      /\ Len(q) + 1 \in Nat \ {0}
  BY LenProperties
<1>2. \A j \in 1..(Len(q) + i - 1) : (q \o t)[j] = IF j <= Len(q) THEN q[j] ELSE t[j - Len(q)]
  BY <1>1, ConcatProperties
<1> DEFINE m == LastIn(t, K, i)
           n == LastIn(q, K, Len(q) + 1)
           c == q \o t
<1>3. /\ m \in 0..(i - 1)
      /\ m = 0 => \A j \in 1..(i - 1) : t[j] \notin K
      /\ m # 0 => t[m] \in K /\ \A j \in 1..(i - 1) : m < j => t[j] \notin K
  BY <1>1, LastInChar
<1>4. /\ n \in 0..Len(q)
      /\ n = 0 => \A j \in 1..Len(q) : q[j] \notin K
      /\ n # 0 => q[n] \in K /\ \A j \in 1..Len(q) : n < j => q[j] \notin K
  BY <1>1, LastInChar, Len(q) + 1 - 1 = Len(q)
<1> HIDE DEF m, n, c
<1>5. \A j \in 1..(Len(q) + i - 1) : c[j] = IF j <= Len(q) THEN q[j] ELSE t[j - Len(q)]
  BY <1>2 DEF c
<1>6. CASE m # 0
  <2>1. c[Len(q) + m] \in K /\ Len(q) + m \in 0..(Len(q) + i - 1)
    BY <1>1, <1>3, <1>5, <1>6
  <2>2. \A j \in 1..(Len(q) + i - 1) : Len(q) + m < j => c[j] \notin K
    <3>1. SUFFICES ASSUME NEW j \in 1..(Len(q) + i - 1), Len(q) + m < j
                   PROVE  c[j] \notin K
      BY <3>1
    <3>2. j - Len(q) \in 1..(i - 1) /\ m < j - Len(q) /\ ~(j <= Len(q))
      BY <1>1, <1>3, <3>1
    <3>3. c[j] = t[j - Len(q)]
      BY <1>5, <3>1, <3>2
    <3>4. t[j - Len(q)] \notin K
      <4> DEFINE k == j - Len(q)
      <4>1. k \in 1..(i - 1) /\ m < k
        BY <3>2
      <4> HIDE DEF k
      <4>2. t[k] \notin K
        BY <1>3, <1>6, <4>1
      <4> QED BY <4>2 DEF k
    <3> QED BY <3>3, <3>4
  <2>3. LastIn(c, K, Len(q) + i) = Len(q) + m
    BY <1>1, <2>1, <2>2, LastInIs
  <2> QED BY <1>6, <2>3 DEF c, m
<1>7. CASE m = 0
  <2>1. (n # 0 => c[n] \in K) /\ n \in 0..(Len(q) + i - 1)
    BY <1>1, <1>4, <1>5
  <2>2. \A j \in 1..(Len(q) + i - 1) : n < j => c[j] \notin K
    <3>1. SUFFICES ASSUME NEW j \in 1..(Len(q) + i - 1), n < j
                   PROVE  c[j] \notin K
      BY <3>1
    <3>2. CASE j <= Len(q)
      BY <1>1, <1>4, <1>5, <3>1, <3>2
    <3>3. CASE ~(j <= Len(q))
      <4>1. c[j] = t[j - Len(q)] /\ j - Len(q) \in 1..(i - 1)
        BY <1>1, <1>5, <3>3
      <4> QED BY <1>3, <1>7, <4>1
    <3> QED BY <3>2, <3>3
  <2>3. LastIn(c, K, Len(q) + i) = n
    BY <1>1, <2>1, <2>2, LastInIs
  <2> QED BY <1>7, <2>3 DEF c, m, n
<1> QED
  BY <1>6, <1>7

\* When the first event leaves the queue the positions move by one.
LEMMA LastInTail ==
    ASSUME NEW S, NEW q \in Seq(S), q # << >>, NEW K, NEW i \in 1..Len(q)
    PROVE  LastIn(Tail(q), K, i) = IF LastIn(q, K, i + 1) > 1 THEN LastIn(q, K, i + 1) - 1 ELSE 0
<1>1. /\ Len(q) \in Nat /\ i \in Nat \ {0} /\ i + 1 \in Nat \ {0}
      /\ \A j \in 1..(i - 1) : Tail(q)[j] = q[j + 1]
  BY LenProperties, HeadTailProperties
<1> DEFINE m == LastIn(q, K, i + 1)
           n == IF m > 1 THEN m - 1 ELSE 0
<1>2. /\ m \in 0..i
      /\ m = 0 => \A j \in 1..i : q[j] \notin K
      /\ m # 0 => q[m] \in K /\ \A j \in 1..i : m < j => q[j] \notin K
  BY <1>1, LastInChar, i + 1 - 1 = i
<1> HIDE DEF m
<1>3. n \in 0..(i - 1) /\ (n # 0 => Tail(q)[n] \in K)
  BY <1>1, <1>2
<1>4. \A j \in 1..(i - 1) : n < j => Tail(q)[j] \notin K
  <2>1. SUFFICES ASSUME NEW j \in 1..(i - 1), n < j
                 PROVE  Tail(q)[j] \notin K
    BY <2>1
  <2>2. j + 1 \in 1..i /\ m < j + 1 /\ Tail(q)[j] = q[j + 1]
    BY <1>1, <1>2, <2>1
  <2> QED BY <1>2, <2>2
<1> HIDE DEF n
<1>5. LastIn(Tail(q), K, i) = n
  BY <1>1, <1>3, <1>4, LastInIs
<1> QED
  BY <1>5 DEF m, n

\* No event of K is taken out when only the positions in I stay.
AllKept(q, K, I) == \A j \in 1..Len(q) : q[j] \in K => j \in I

\* Before an event of r, and at its end, the last event of K is the one it is in q.
SameLast(g, r, q, K) ==
    \A i \in 1..(Len(r) + 1), n \in 1..(Len(q) + 1) :
       (i # Len(r) + 1 => n = g[i]) /\ (i = Len(r) + 1 => n = Len(q) + 1)
       => /\ LastIn(r, K, i) = 0 => LastIn(q, K, n) = 0
          /\ LastIn(r, K, i) # 0 => /\ LastIn(q, K, n) # 0
                                    /\ r[LastIn(r, K, i)] = q[LastIn(q, K, n)]

\* When events that are not in K are taken out, the last one of K stays it.
LEMMA LastInSub ==
    ASSUME NEW S, NEW q \in Seq(S), NEW r \in Seq(S), NEW I, NEW K,
           NEW g, Embedding(g, r, q, I, Len(q)), AllKept(q, K, I)
    PROVE  SameLast(g, r, q, K)
<1>0. SUFFICES ASSUME NEW i \in 1..(Len(r) + 1), NEW n \in 1..(Len(q) + 1),
                      i # Len(r) + 1 => n = g[i], i = Len(r) + 1 => n = Len(q) + 1
               PROVE  /\ LastIn(r, K, i) = 0 => LastIn(q, K, n) = 0
                      /\ LastIn(r, K, i) # 0 => /\ LastIn(q, K, n) # 0
                                                /\ r[LastIn(r, K, i)] = q[LastIn(q, K, n)]
  BY <1>0 DEF SameLast
<1>1. Len(q) \in Nat /\ Len(r) \in Nat /\ i \in Nat \ {0} /\ n \in Nat \ {0}
  BY LenProperties
<1> DEFINE m == LastIn(r, K, i)
<1>2. /\ m \in 0..(i - 1)
      /\ m = 0 => \A j \in 1..(i - 1) : r[j] \notin K
      /\ m # 0 => r[m] \in K /\ \A j \in 1..(i - 1) : m < j => r[j] \notin K
  BY <1>1, LastInChar
<1> HIDE DEF m
<1>3. /\ \A j \in 1..Len(r) : g[j] \in 1..Len(q) /\ r[j] = q[g[j]]
      /\ \A j, k \in 1..Len(r) : j < k => g[j] < g[k]
  BY DEF Embedding
<1>4. \A j \in 1..Len(q) : q[j] \in K => \E k \in 1..Len(r) : g[k] = j
  BY DEF Embedding, AllKept
<1>5. \A j \in 1..(n - 1) : q[j] \in K => \E k \in 1..(i - 1) : g[k] = j /\ r[k] = q[j]
  <2>1. SUFFICES ASSUME NEW j \in 1..(n - 1), q[j] \in K
                 PROVE  \E k \in 1..(i - 1) : g[k] = j /\ r[k] = q[j]
    BY <2>1
  <2>2. PICK k \in 1..Len(r) : g[k] = j
    <3>1. j \in 1..Len(q)
      BY <1>1
    <3> QED BY <1>4, <2>1, <3>1
  <2>3. k \in 1..(i - 1)
    <3>1. CASE i = Len(r) + 1
      BY <1>1, <3>1
    <3>2. CASE i # Len(r) + 1
      <4>0. i \in 1..Len(r) /\ n = g[i] /\ g[k] = j /\ j < n /\ j \in Int /\ n \in Int
        BY <1>0, <1>1, <2>1, <2>2, <3>2
      <4>1. i \in 1..Len(r) /\ g[k] < g[i] /\ g[k] \in Int /\ g[i] \in Int
        BY <4>0
      <4>2. ~(i < k) /\ i # k
        <5>1. i < k => g[i] < g[k]
          BY <1>3, <4>1
        <5> QED BY <4>1, <5>1
      <4> QED BY <1>1, <4>1, <4>2
    <3> QED BY <3>1, <3>2
  <2> QED BY <1>3, <2>2, <2>3
<1>6. \A k \in 1..(i - 1) : g[k] \in 1..(n - 1)
  <2>1. SUFFICES ASSUME NEW k \in 1..(i - 1)
                 PROVE  g[k] \in 1..(n - 1)
    BY <2>1
  <2>2. k \in 1..Len(r) /\ g[k] \in 1..Len(q)
    BY <1>1, <1>3
  <2>3. CASE i = Len(r) + 1
    BY <1>0, <1>1, <2>2, <2>3
  <2>4. CASE i # Len(r) + 1
    <3>1. i \in 1..Len(r) /\ n = g[i] /\ k < i
      BY <1>0, <1>1, <2>4
    <3>2. g[k] < n
      BY <1>3, <2>2, <3>1
    <3> QED BY <1>1, <2>2, <3>2
  <2> QED BY <2>3, <2>4
<1>7. CASE m = 0
  <2>1. \A j \in 1..(n - 1) : q[j] \notin K
    BY <1>2, <1>5, <1>7
  <2>2. LastIn(q, K, n) = 0
    BY <1>1, <2>1, LastInIs
  <2> QED BY <1>7, <2>2 DEF m
<1>8. CASE m # 0
  <2>1. m \in 1..(i - 1) /\ m \in 1..Len(r) /\ g[m] \in 0..(n - 1) /\ q[g[m]] \in K /\ r[m] = q[g[m]]
    BY <1>1, <1>2, <1>3, <1>6, <1>8
  <2>2. \A j \in 1..(n - 1) : g[m] < j => q[j] \notin K
    <3>1. SUFFICES ASSUME NEW j \in 1..(n - 1), g[m] < j, q[j] \in K
                   PROVE  FALSE
      BY <3>1
    <3>2. PICK k \in 1..(i - 1) : g[k] = j /\ r[k] = q[j]
      BY <1>5, <3>1
    <3>3. k \in 1..Len(r) /\ g[k] \in Int /\ g[m] \in Int /\ m \in Int /\ k \in Int
      BY <1>1, <1>3, <2>1, <3>2
    <3>4. m < k
      <4>1. k < m => g[k] < g[m]
        BY <1>3, <2>1, <3>3
      <4> QED BY <3>1, <3>2, <3>3, <4>1
    <3> QED BY <1>2, <1>8, <3>1, <3>2, <3>4
  <2>3. LastIn(q, K, n) = g[m] /\ g[m] # 0
    BY <1>1, <1>3, <2>1, <2>2, LastInIs
  <2> QED BY <1>8, <2>1, <2>3 DEF m
<1> QED
  BY <1>7, <1>8

-----------------------------------------------------------------------------
(* Flags, keys and buttons along a queue                                   *)

Modifies   == {x \in EventType : x.class = "modify"}
KeysOf(k)  == {x \in EventType : x.class = "key" /\ x.key = k}
Points     == {x \in EventType : x.class = "pointer"}

\* The flags before position i of q, when they are r before the queue.
FlagsAt(q, r, i) == IF LastIn(q, Modifies, i) = 0 THEN r ELSE q[LastIn(q, Modifies, i)].flags \ {NUMPAD}

\* Whether k is down after q, when the keys R are before it; the buttons after it.
KeyAt(q, R, k) == LET m == LastIn(q, KeysOf(k), Len(q) + 1) IN IF m = 0 THEN k \in R ELSE q[m].down
ButtonsAt(q, b) == LET m == LastIn(q, Points, Len(q) + 1) IN IF m = 0 THEN b ELSE q[m].buttons

\* An event that may come when the flags are before.
EventFits(x, before) ==
    /\ x.class = "modify" => x.flags \ {NUMPAD} = IF x.key \in before THEN before \ {x.key}
                                                                      ELSE before \cup {x.key}
    /\ x.class = "key" /\ x.down => x.flags \ {NUMPAD} = before

\* The flags after it.
FlagsPast(x, before) == IF x.class = "modify" THEN x.flags \ {NUMPAD} ELSE before

\* Every event of q fits, and q leads from the flags r to the flags e.
FlagsLead(q, r, e) ==
    /\ \A i \in 1..Len(q) : EventFits(q[i], FlagsAt(q, r, i))
    /\ FlagsAt(q, r, Len(q) + 1) = e

\* An empty queue changes nothing.
LEMMA FlagsLeadEmpty ==
    ASSUME NEW r
    PROVE  FlagsLead(<< >>, r, r)
<1>1. Len(<< >>) = 0
  OBVIOUS
<1>2. LastIn(<< >>, Modifies, 1) = 0
  BY LastInChar
<1> QED
  BY <1>1, <1>2 DEF FlagsLead, FlagsAt

\* Queues that lead on from each other can be joined.
LEMMA FlagsLeadConcat ==
    ASSUME NEW q \in Seq(EventType), NEW t \in Seq(EventType), NEW r, NEW d, NEW e,
           FlagsLead(q, r, d), FlagsLead(t, d, e)
    PROVE  FlagsLead(q \o t, r, e)
<1> DEFINE c == q \o t
<1>1. /\ Len(q) \in Nat /\ Len(t) \in Nat /\ Len(c) = Len(q) + Len(t)
      /\ \A i \in 1..(Len(q) + Len(t)) : c[i] = IF i <= Len(q) THEN q[i] ELSE t[i - Len(q)]
  BY LenProperties, ConcatProperties
<1>2. \A i \in 1..(Len(q) + 1) : LastIn(c, Modifies, i) = LastIn(q, Modifies, i)
  BY LastInPrefix
<1>3. \A i \in 1..(Len(t) + 1) :
         LastIn(c, Modifies, Len(q) + i) = IF LastIn(t, Modifies, i) # 0 THEN Len(q) + LastIn(t, Modifies, i)
                                           ELSE LastIn(q, Modifies, Len(q) + 1)
  BY LastInConcat
<1> HIDE DEF c
<1>4. \A i \in 1..(Len(q) + 1) : FlagsAt(c, r, i) = FlagsAt(q, r, i)
  <2>1. SUFFICES ASSUME NEW i \in 1..(Len(q) + 1)
                 PROVE  FlagsAt(c, r, i) = FlagsAt(q, r, i)
    BY <2>1
  <2>2. LastIn(q, Modifies, i) \in 0..Len(q)
    BY <1>1, LastInChar
  <2>3. LastIn(q, Modifies, i) # 0 => c[LastIn(q, Modifies, i)] = q[LastIn(q, Modifies, i)]
    BY <1>1, <2>2
  <2> QED BY <1>2, <2>3 DEF FlagsAt
<1>5. \A i \in 1..(Len(t) + 1) : FlagsAt(c, r, Len(q) + i) = FlagsAt(t, d, i)
  <2>1. SUFFICES ASSUME NEW i \in 1..(Len(t) + 1)
                 PROVE  FlagsAt(c, r, Len(q) + i) = FlagsAt(t, d, i)
    BY <2>1
  <2>2. LastIn(t, Modifies, i) \in 0..Len(t)
    BY <1>1, LastInChar
  <2>3. CASE LastIn(t, Modifies, i) # 0
    <3>1. c[Len(q) + LastIn(t, Modifies, i)] = t[LastIn(t, Modifies, i)]
      BY <1>1, <2>2, <2>3
    <3>2. LastIn(c, Modifies, Len(q) + i) = Len(q) + LastIn(t, Modifies, i) /\ Len(q) + LastIn(t, Modifies, i) # 0
      BY <1>1, <1>3, <2>2, <2>3
    <3> QED BY <2>3, <3>1, <3>2 DEF FlagsAt
  <2>4. CASE LastIn(t, Modifies, i) = 0
    <3>1. LastIn(c, Modifies, Len(q) + i) = LastIn(c, Modifies, Len(q) + 1)
      BY <1>1, <1>2, <1>3, <2>4
    <3>2. FlagsAt(c, r, Len(q) + i) = FlagsAt(c, r, Len(q) + 1)
      BY <3>1 DEF FlagsAt
    <3>3. FlagsAt(c, r, Len(q) + 1) = d
      BY <1>1, <1>4 DEF FlagsLead
    <3> QED BY <2>4, <3>2, <3>3 DEF FlagsAt
  <2> QED BY <2>3, <2>4
<1>6. \A i \in 1..Len(c) : EventFits(c[i], FlagsAt(c, r, i))
  <2>1. SUFFICES ASSUME NEW i \in 1..Len(c)
                 PROVE  EventFits(c[i], FlagsAt(c, r, i))
    BY <2>1
  <2>2. CASE i <= Len(q)
    <3>1. i \in 1..Len(q) /\ i \in 1..(Len(q) + 1) /\ c[i] = q[i]
      BY <1>1, <2>2
    <3> QED BY <1>4, <3>1 DEF FlagsLead
  <2>3. CASE ~(i <= Len(q))
    <3>1. /\ i - Len(q) \in 1..Len(t) /\ i - Len(q) \in 1..(Len(t) + 1)
          /\ c[i] = t[i - Len(q)] /\ Len(q) + (i - Len(q)) = i
      BY <1>1, <2>3
    <3>2. FlagsAt(c, r, i) = FlagsAt(t, d, i - Len(q))
      BY <1>5, <3>1
    <3> QED BY <3>1, <3>2 DEF FlagsLead
  <2> QED BY <2>2, <2>3
<1>7. FlagsAt(c, r, Len(c) + 1) = e
  <2>1. Len(t) + 1 \in 1..(Len(t) + 1) /\ Len(c) + 1 = Len(q) + (Len(t) + 1)
    BY <1>1
  <2> QED BY <1>5, <2>1 DEF FlagsLead
<1> QED
  BY <1>6, <1>7 DEF FlagsLead, c

\* One event that fits.
LEMMA FlagsLeadOne ==
    ASSUME NEW x \in EventType, NEW before, EventFits(x, before)
    PROVE  FlagsLead(<<x>>, before, FlagsPast(x, before))
<1>1. Len(<<x>>) = 1 /\ <<x>>[1] = x
  OBVIOUS
<1>2. LastIn(<<x>>, Modifies, 1) = 0
  BY LastInChar
<1>3. LastIn(<<x>>, Modifies, 2) = IF x \in Modifies THEN 1 ELSE 0
  <2>1. CASE x \in Modifies
    BY <1>1, <2>1, LastInIs
  <2>2. CASE x \notin Modifies
    BY <1>1, <2>2, LastInIs
  <2> QED BY <2>1, <2>2
<1>4. FlagsAt(<<x>>, before, 1) = before
  BY <1>2 DEF FlagsAt
<1>5. FlagsAt(<<x>>, before, 2) = FlagsPast(x, before)
  BY <1>1, <1>3 DEF FlagsAt, FlagsPast, Modifies
<1> QED
  BY <1>1, <1>4, <1>5 DEF FlagsLead

\* A delivered event takes its step.
LEMMA FlagsLeadTail ==
    ASSUME NEW q \in Seq(EventType), q # << >>, NEW r, NEW e, FlagsLead(q, r, e)
    PROVE  FlagsLead(Tail(q), FlagsPast(Head(q), r), e)
<1> DEFINE t == Tail(q)
           d == FlagsPast(Head(q), r)
<1>1. /\ Len(q) \in Nat \ {0} /\ Len(t) = Len(q) - 1 /\ Head(q) = q[1] /\ q[1] \in EventType
      /\ \A i \in 1..Len(t) : t[i] = q[i + 1]
  BY LenProperties, HeadTailProperties, EmptySeq, ElementOfSeq
<1>2. \A i \in 1..Len(q) : LastIn(t, Modifies, i) = IF LastIn(q, Modifies, i + 1) > 1
                                                     THEN LastIn(q, Modifies, i + 1) - 1 ELSE 0
  BY LastInTail
<1> HIDE DEF t
<1>3. \A i \in 1..Len(q) : FlagsAt(t, d, i) = FlagsAt(q, r, i + 1)
  <2>1. SUFFICES ASSUME NEW i \in 1..Len(q)
                 PROVE  FlagsAt(t, d, i) = FlagsAt(q, r, i + 1)
    BY <2>1
  <2> DEFINE m == LastIn(q, Modifies, i + 1)
  <2>2. /\ m \in 0..i
        /\ m = 0 => \A j \in 1..i : q[j] \notin Modifies
        /\ m # 0 => q[m] \in Modifies /\ \A j \in 1..i : m < j => q[j] \notin Modifies
    BY <1>1, LastInChar, i + 1 - 1 = i
  <2>3. LastIn(t, Modifies, i) = IF m > 1 THEN m - 1 ELSE 0
    BY <1>2
  <2>4. FlagsAt(q, r, i + 1) = IF m = 0 THEN r ELSE q[m].flags \ {NUMPAD}
    BY DEF FlagsAt
  <2> HIDE DEF m
  <2>5. CASE m > 1
    <3>1. t[m - 1] = q[m] /\ m - 1 # 0
      BY <1>1, <2>2, <2>5
    <3> QED BY <2>2, <2>3, <2>4, <2>5, <3>1 DEF FlagsAt
  <2>6. CASE m = 1
    <3>1. q[1].class = "modify"
      BY <2>2, <2>6 DEF Modifies
    <3>2. LastIn(t, Modifies, i) = 0
      BY <2>3, <2>6
    <3>3. d = q[1].flags \ {NUMPAD}
      BY <1>1, <3>1 DEF FlagsPast
    <3> HIDE DEF d
    <3> QED BY <2>4, <2>6, <3>2, <3>3 DEF FlagsAt
  <2>7. CASE m = 0
    <3>1. q[1].class # "modify"
      BY <1>1, <2>2, <2>7 DEF Modifies
    <3>2. LastIn(t, Modifies, i) = 0
      BY <2>3, <2>7
    <3>3. d = r
      BY <1>1, <3>1 DEF FlagsPast
    <3> HIDE DEF d
    <3> QED BY <2>4, <2>7, <3>2, <3>3 DEF FlagsAt
  <2> QED BY <2>2, <2>5, <2>6, <2>7
<1> HIDE DEF d
<1>4. \A i \in 1..Len(t) : EventFits(t[i], FlagsAt(t, d, i))
  <2>1. SUFFICES ASSUME NEW i \in 1..Len(t)
                 PROVE  EventFits(t[i], FlagsAt(t, d, i))
    BY <2>1
  <2>2. i \in 1..Len(q) /\ i + 1 \in 1..Len(q) /\ t[i] = q[i + 1]
    BY <1>1
  <2> QED BY <1>3, <2>2 DEF FlagsLead
<1>5. FlagsAt(t, d, Len(t) + 1) = e
  <2>1. Len(t) + 1 \in 1..Len(q) /\ Len(t) + 1 + 1 = Len(q) + 1
    BY <1>1
  <2> QED BY <1>3, <2>1 DEF FlagsLead
<1> QED
  BY <1>4, <1>5 DEF FlagsLead, t, d

\* Taking out events that are not modifier events leaves the others in step.
LEMMA FlagsLeadSub ==
    ASSUME NEW q \in Seq(EventType), NEW I \in SUBSET (1..Len(q)), NEW r, NEW e, FlagsLead(q, r, e),
           \A j \in 1..Len(q) : q[j].class = "modify" => j \in I
    PROVE  FlagsLead(Subsequence(q, I), r, e)
<1> DEFINE p == Subsequence(q, I)
<1>1. p \in Seq(EventType) /\ \E g : Embedding(g, p, q, I, Len(q))
  BY SubsequenceEmbeds
<1> HIDE DEF p
<1>2. PICK g : Embedding(g, p, q, I, Len(q))
  BY <1>1
<1>3. /\ Len(q) \in Nat /\ Len(p) \in Nat
      /\ \A i \in 1..Len(p) : g[i] \in 1..Len(q) /\ p[i] = q[g[i]]
  BY <1>1, <1>2, LenProperties DEF Embedding
<1>4. SameLast(g, p, q, Modifies)
  <2>1. AllKept(q, Modifies, I)
    BY DEF Modifies, AllKept
  <2> QED BY <1>1, <1>2, <2>1, LastInSub
<1>5. ASSUME NEW i \in 1..(Len(p) + 1), NEW n \in 1..(Len(q) + 1),
             i # Len(p) + 1 => n = g[i], i = Len(p) + 1 => n = Len(q) + 1
      PROVE  FlagsAt(p, r, i) = FlagsAt(q, r, n)
  <2>1. /\ LastIn(p, Modifies, i) = 0 => LastIn(q, Modifies, n) = 0
        /\ LastIn(p, Modifies, i) # 0 => /\ LastIn(q, Modifies, n) # 0
                                         /\ p[LastIn(p, Modifies, i)] = q[LastIn(q, Modifies, n)]
    BY <1>4, <1>5 DEF SameLast
  <2> QED BY <2>1 DEF FlagsAt
<1>6. \A i \in 1..Len(p) : EventFits(p[i], FlagsAt(p, r, i))
  <2>1. SUFFICES ASSUME NEW i \in 1..Len(p)
                 PROVE  EventFits(p[i], FlagsAt(p, r, i))
    BY <2>1
  <2>2. i \in 1..(Len(p) + 1) /\ g[i] \in 1..(Len(q) + 1) /\ i # Len(p) + 1
    BY <1>3
  <2>3. FlagsAt(p, r, i) = FlagsAt(q, r, g[i])
    BY <1>5, <2>2
  <2> QED BY <1>3, <2>3 DEF FlagsLead
<1>7. FlagsAt(p, r, Len(p) + 1) = e
  <2>1. Len(p) + 1 \in 1..(Len(p) + 1) /\ Len(q) + 1 \in 1..(Len(q) + 1)
    BY <1>3
  <2> QED BY <1>5, <2>1 DEF FlagsLead
<1> QED
  BY <1>6, <1>7 DEF FlagsLead, p

\* What is appended and not in K leaves the last event of K where it is.
LEMMA EndPast ==
    ASSUME NEW S, NEW q \in Seq(S), NEW t \in Seq(S), NEW K, \A i \in 1..Len(t) : t[i] \notin K
    PROVE  /\ LastIn(q \o t, K, Len(q \o t) + 1) = LastIn(q, K, Len(q) + 1)
           /\ LastIn(q, K, Len(q) + 1) # 0 =>
                 (q \o t)[LastIn(q, K, Len(q) + 1)] = q[LastIn(q, K, Len(q) + 1)]
<1>1. /\ Len(q) \in Nat /\ Len(t) \in Nat /\ Len(q \o t) = Len(q) + Len(t)
      /\ \A i \in 1..Len(q) : (q \o t)[i] = q[i]
  BY LenProperties, ConcatProperties
<1>2. Len(t) + 1 \in 1..(Len(t) + 1) /\ Len(q \o t) + 1 = Len(q) + (Len(t) + 1)
  BY <1>1
<1>3. LastIn(t, K, Len(t) + 1) = 0
  BY <1>1, LastInIs, Len(t) + 1 - 1 = Len(t)
<1>4. LastIn(q \o t, K, Len(q \o t) + 1) = LastIn(q, K, Len(q) + 1)
  BY <1>2, <1>3, LastInConcat
<1>5. LastIn(q, K, Len(q) + 1) \in 0..Len(q)
  BY <1>1, LastInChar, Len(q) + 1 - 1 = Len(q)
<1> QED
  BY <1>1, <1>4, <1>5

\* When one of K is appended, the last of K is one of the appended ones.
LEMMA EndSome ==
    ASSUME NEW S, NEW q \in Seq(S), NEW t \in Seq(S), NEW K, \E i \in 1..Len(t) : t[i] \in K
    PROVE  \E n \in 1..Len(t) : /\ t[n] \in K /\ LastIn(q \o t, K, Len(q \o t) + 1) # 0
                                /\ (q \o t)[LastIn(q \o t, K, Len(q \o t) + 1)] = t[n]
<1>1. /\ Len(q) \in Nat /\ Len(t) \in Nat /\ Len(q \o t) = Len(q) + Len(t)
      /\ \A i \in 1..(Len(q) + Len(t)) : (q \o t)[i] = IF i <= Len(q) THEN q[i] ELSE t[i - Len(q)]
  BY LenProperties, ConcatProperties
<1> DEFINE n == LastIn(t, K, Len(t) + 1)
<1>2. /\ n \in 0..Len(t)
      /\ n = 0 => \A j \in 1..Len(t) : t[j] \notin K
      /\ n # 0 => t[n] \in K
  BY <1>1, LastInChar, Len(t) + 1 - 1 = Len(t)
<1>3. Len(t) + 1 \in 1..(Len(t) + 1) /\ Len(q \o t) + 1 = Len(q) + (Len(t) + 1)
  BY <1>1
<1>4. n # 0
  BY <1>2
<1>5. LastIn(q \o t, K, Len(q \o t) + 1) = Len(q) + n
  BY <1>3, <1>4, LastInConcat
<1> HIDE DEF n
<1>6. n \in 1..Len(t) /\ Len(q) + n # 0 /\ (q \o t)[Len(q) + n] = t[n]
  BY <1>1, <1>2, <1>4
<1> QED
  BY <1>2, <1>4, <1>5, <1>6

\* The keys and the buttons after a queue: what is appended and is not about them.
LEMMA KeyAtPast ==
    ASSUME NEW q \in Seq(EventType), NEW t \in Seq(EventType), NEW R, NEW k,
           \A i \in 1..Len(t) : t[i] \notin KeysOf(k)
    PROVE  KeyAt(q \o t, R, k) = KeyAt(q, R, k)
BY EndPast DEF KeyAt

\* Events that are no pointer events leave the buttons alone.
LEMMA ButtonsAtPast ==
    ASSUME NEW q \in Seq(EventType), NEW t \in Seq(EventType), NEW b,
           \A i \in 1..Len(t) : t[i] \notin Points
    PROVE  ButtonsAt(q \o t, b) = ButtonsAt(q, b)
BY EndPast DEF ButtonsAt

\* And what is.
LEMMA KeyAtSome ==
    ASSUME NEW q \in Seq(EventType), NEW t \in Seq(EventType), NEW R, NEW k,
           \E i \in 1..Len(t) : t[i] \in KeysOf(k)
    PROVE  \E n \in 1..Len(t) : t[n] \in KeysOf(k) /\ KeyAt(q \o t, R, k) = t[n].down
<1>1. PICK n \in 1..Len(t) : /\ t[n] \in KeysOf(k) /\ LastIn(q \o t, KeysOf(k), Len(q \o t) + 1) # 0
                             /\ (q \o t)[LastIn(q \o t, KeysOf(k), Len(q \o t) + 1)] = t[n]
  BY EndSome
<1> QED
  BY <1>1 DEF KeyAt

\* Pushed pointer events decide the buttons.
LEMMA ButtonsAtSome ==
    ASSUME NEW q \in Seq(EventType), NEW t \in Seq(EventType), NEW b,
           \E i \in 1..Len(t) : t[i] \in Points
    PROVE  \E n \in 1..Len(t) : t[n] \in Points /\ ButtonsAt(q \o t, b) = t[n].buttons
<1>1. PICK n \in 1..Len(t) : /\ t[n] \in Points /\ LastIn(q \o t, Points, Len(q \o t) + 1) # 0
                             /\ (q \o t)[LastIn(q \o t, Points, Len(q \o t) + 1)] = t[n]
  BY EndSome
<1> QED
  BY <1>1 DEF ButtonsAt

\* Nothing is queued.
LEMMA KeyAtEmpty ==
    ASSUME NEW R, NEW k
    PROVE  KeyAt(<< >>, R, k) = (k \in R)
<1>1. Len(<< >>) = 0
  OBVIOUS
<1>2. LastIn(<< >>, KeysOf(k), 1) = 0
  BY LastInChar
<1> QED
  BY <1>1, <1>2 DEF KeyAt

\* Nor the buttons.
LEMMA ButtonsAtEmpty ==
    ASSUME NEW b
    PROVE  ButtonsAt(<< >>, b) = b
<1>1. Len(<< >>) = 0
  OBVIOUS
<1>2. LastIn(<< >>, Points, 1) = 0
  BY LastInChar
<1> QED
  BY <1>1, <1>2 DEF ButtonsAt

\* The last of K when the first event leaves: it is that one, or it stays.
LEMMA EndTail ==
    ASSUME NEW S, NEW q \in Seq(S), q # << >>, NEW K
    PROVE  /\ LastIn(Tail(q), K, Len(Tail(q)) + 1) = 0 =>
                 IF q[1] \in K THEN LastIn(q, K, Len(q) + 1) = 1 ELSE LastIn(q, K, Len(q) + 1) = 0
           /\ LastIn(Tail(q), K, Len(Tail(q)) + 1) # 0 =>
                 /\ LastIn(q, K, Len(q) + 1) # 0
                 /\ Tail(q)[LastIn(Tail(q), K, Len(Tail(q)) + 1)] = q[LastIn(q, K, Len(q) + 1)]
<1>1. /\ Len(q) \in Nat \ {0} /\ Len(Tail(q)) = Len(q) - 1
      /\ \A i \in 1..(Len(q) - 1) : Tail(q)[i] = q[i + 1]
  BY LenProperties, HeadTailProperties, EmptySeq
<1> DEFINE m == LastIn(q, K, Len(q) + 1)
           n == LastIn(Tail(q), K, Len(q))
<1>2. n = IF m > 1 THEN m - 1 ELSE 0
  BY <1>1, LastInTail
<1>3. /\ m \in 0..Len(q)
      /\ m = 0 => \A j \in 1..Len(q) : q[j] \notin K
      /\ m # 0 => q[m] \in K /\ \A j \in 1..Len(q) : m < j => q[j] \notin K
  BY <1>1, LastInChar, Len(q) + 1 - 1 = Len(q)
<1>4. LastIn(Tail(q), K, Len(Tail(q)) + 1) = n
  BY <1>1, Len(q) - 1 + 1 = Len(q)
<1> HIDE DEF m, n
<1>5. n = 0 => IF q[1] \in K THEN m = 1 ELSE m = 0
  BY <1>1, <1>2, <1>3
<1>6. n # 0 => m # 0 /\ Tail(q)[n] = q[m]
  BY <1>1, <1>2, <1>3
<1> QED
  BY <1>4, <1>5, <1>6 DEF m

\* Delivering the first event changes the keys at the receiver, and not where the queue leads.
LEMMA KeyAtTail ==
    ASSUME NEW q \in Seq(EventType), q # << >>, NEW R, NEW k
    PROVE  KeyAt(q, R, k) =
              KeyAt(Tail(q), IF q[1].class # "key" THEN R
                             ELSE IF q[1].down THEN R \cup {q[1].key} ELSE R \ {q[1].key}, k)
<1> DEFINE R1 == IF q[1].class # "key" THEN R
                 ELSE IF q[1].down THEN R \cup {q[1].key} ELSE R \ {q[1].key}
           n == LastIn(Tail(q), KeysOf(k), Len(Tail(q)) + 1)
           m == LastIn(q, KeysOf(k), Len(q) + 1)
<1>1. q[1] \in EventType /\ q[1].down \in BOOLEAN
  <2>1. 1 \in 1..Len(q)
    BY EmptySeq, LenProperties
  <2>2. q[1] \in EventType
    BY <2>1, ElementOfSeq
  <2> QED BY <2>2 DEF EventType
<1>2. /\ n = 0 => IF q[1] \in KeysOf(k) THEN m = 1 ELSE m = 0
      /\ n # 0 => m # 0 /\ Tail(q)[n] = q[m]
  BY EndTail
<1>3. KeyAt(q, R, k) = IF m = 0 THEN k \in R ELSE q[m].down
  BY DEF KeyAt
<1>4. KeyAt(Tail(q), R1, k) = IF n = 0 THEN k \in R1 ELSE Tail(q)[n].down
  BY DEF KeyAt
<1> HIDE DEF n, m
<1>5. CASE n # 0
  <2> HIDE DEF R1
  <2>1. KeyAt(q, R, k) = KeyAt(Tail(q), R1, k)
    BY <1>2, <1>3, <1>4, <1>5
  <2> QED BY <2>1 DEF R1
<1>6. CASE n = 0 /\ q[1] \in KeysOf(k)
  <2>1. q[1].class = "key" /\ q[1].key = k
    BY <1>6 DEF KeysOf
  <2>2. (k \in R1) = q[1].down
    BY <1>1, <2>1
  <2>3. KeyAt(q, R, k) = q[1].down
    BY <1>2, <1>3, <1>6
  <2>4. KeyAt(Tail(q), R1, k) = (k \in R1)
    BY <1>4, <1>6
  <2> QED BY <2>2, <2>3, <2>4
<1>7. CASE n = 0 /\ q[1] \notin KeysOf(k)
  <2>1. ~(q[1].class = "key" /\ q[1].key = k)
    BY <1>1, <1>7 DEF KeysOf
  <2>2. (k \in R1) = (k \in R)
    BY <1>1, <2>1
  <2>3. KeyAt(q, R, k) = (k \in R)
    BY <1>2, <1>3, <1>7
  <2>4. KeyAt(Tail(q), R1, k) = (k \in R1)
    BY <1>4, <1>7
  <2> QED BY <2>2, <2>3, <2>4
<1> QED
  BY <1>5, <1>6, <1>7

\* The same for the buttons.
LEMMA ButtonsAtTail ==
    ASSUME NEW q \in Seq(EventType), q # << >>, NEW b
    PROVE  ButtonsAt(q, b) = ButtonsAt(Tail(q), IF q[1].class = "pointer" THEN q[1].buttons ELSE b)
<1> DEFINE b1 == IF q[1].class = "pointer" THEN q[1].buttons ELSE b
           n == LastIn(Tail(q), Points, Len(Tail(q)) + 1)
           m == LastIn(q, Points, Len(q) + 1)
<1>1. q[1] \in EventType
  <2>1. 1 \in 1..Len(q)
    BY EmptySeq, LenProperties
  <2> QED BY <2>1, ElementOfSeq
<1>2. /\ n = 0 => IF q[1] \in Points THEN m = 1 ELSE m = 0
      /\ n # 0 => m # 0 /\ Tail(q)[n] = q[m]
  BY EndTail
<1>3. ButtonsAt(q, b) = IF m = 0 THEN b ELSE q[m].buttons
  BY DEF ButtonsAt
<1>4. ButtonsAt(Tail(q), b1) = IF n = 0 THEN b1 ELSE Tail(q)[n].buttons
  BY DEF ButtonsAt
<1>5. q[1] \in Points <=> q[1].class = "pointer"
  BY <1>1 DEF Points
<1> HIDE DEF n, m
<1>6. CASE n # 0
  <2> HIDE DEF b1
  <2>1. ButtonsAt(q, b) = ButtonsAt(Tail(q), b1)
    BY <1>2, <1>3, <1>4, <1>6
  <2> QED BY <2>1 DEF b1
<1>7. CASE n = 0
  BY <1>2, <1>3, <1>4, <1>5, <1>7
<1> QED
  BY <1>6, <1>7

\* Taking out other events.
LEMMA EndSub ==
    ASSUME NEW S, NEW q \in Seq(S), NEW K, NEW I, AllKept(q, K, I)
    PROVE  /\ LastIn(Subsequence(q, I), K, Len(Subsequence(q, I)) + 1) = 0 =>
                 LastIn(q, K, Len(q) + 1) = 0
           /\ LastIn(Subsequence(q, I), K, Len(Subsequence(q, I)) + 1) # 0 =>
                 /\ LastIn(q, K, Len(q) + 1) # 0
                 /\ Subsequence(q, I)[LastIn(Subsequence(q, I), K, Len(Subsequence(q, I)) + 1)]
                    = q[LastIn(q, K, Len(q) + 1)]
<1> DEFINE p == Subsequence(q, I)
<1>1. p \in Seq(S) /\ \E g : Embedding(g, p, q, I, Len(q))
  BY SubsequenceEmbeds
<1> HIDE DEF p
<1>2. PICK g : SameLast(g, p, q, K)
  BY <1>1, LastInSub
<1>3. Len(p) + 1 \in 1..(Len(p) + 1) /\ Len(q) + 1 \in 1..(Len(q) + 1)
  BY <1>1, LenProperties
<1> QED
  BY <1>2, <1>3 DEF SameLast, p

\* Taking out events of other keys does not change where the queue leads key k.
LEMMA KeyAtSub ==
    ASSUME NEW q \in Seq(EventType), NEW I, NEW R, NEW k,
           \A j \in 1..Len(q) : q[j] \in KeysOf(k) => j \in I
    PROVE  KeyAt(Subsequence(q, I), R, k) = KeyAt(q, R, k)
<1>1. AllKept(q, KeysOf(k), I)
  BY DEF AllKept
<1> QED
  BY <1>1, EndSub DEF KeyAt

\* Taking out events that are no pointer events does not change the buttons.
LEMMA ButtonsAtSub ==
    ASSUME NEW q \in Seq(EventType), NEW I, NEW b,
           \A j \in 1..Len(q) : q[j] \in Points => j \in I
    PROVE  ButtonsAt(Subsequence(q, I), b) = ButtonsAt(q, b)
<1>1. AllKept(q, Points, I)
  BY DEF AllKept
<1> QED
  BY <1>1, EndSub DEF ButtonsAt

-----------------------------------------------------------------------------
(* The events of FireModifiers                                             *)

\* The events the Fire* classes push are events.
LEMMA EventsTyped ==
    /\ \A f \in Flags, fl \in SUBSET FlagSet : ModifyEvent(f, fl) \in EventType
    /\ \A k \in Keys, isdown \in BOOLEAN, fl \in SUBSET FlagSet : KeyEvent(k, isdown, fl) \in EventType
    /\ \A B \in SUBSET Buttons : PointerEvent(B) \in EventType
    /\ \A c \in Consumers, isdown \in BOOLEAN : ConsumerEvent(c, isdown) \in EventType
    /\ OtherEvent("scroll") \in EventType /\ OtherEvent("wait") \in EventType
<1> USE DEF Event, EventType, Classes, FlagSet
<1>1. \A f \in Flags, fl \in SUBSET FlagSet : ModifyEvent(f, fl) \in EventType
  BY DEF ModifyEvent
<1>2. \A k \in Keys, isdown \in BOOLEAN, fl \in SUBSET FlagSet : KeyEvent(k, isdown, fl) \in EventType
  BY DEF KeyEvent
<1>3. \A B \in SUBSET Buttons : PointerEvent(B) \in EventType
  BY DEF PointerEvent
<1>4. \A c \in Consumers, isdown \in BOOLEAN : ConsumerEvent(c, isdown) \in EventType
  BY DEF ConsumerEvent
<1>5. OtherEvent("scroll") \in EventType /\ OtherEvent("wait") \in EventType
  BY DEF OtherEvent
<1> QED
  BY <1>1, <1>2, <1>3, <1>4, <1>5

\* m lists the flags of F, each once.
Lists(m, F) ==
    /\ m \in Seq(Flags)
    /\ \A i, j \in 1..Len(m) : m[i] = m[j] => i = j
    /\ \A f : f \in F \cap Flags <=> \E i \in 1..Len(m) : m[i] = f

\* ModifiersIn does.
LEMMA ModifiersInItems ==
    ASSUME NEW F
    PROVE  Lists(ModifiersIn(F), F)
<1> DEFINE I == {i \in DOMAIN Modifiers : Modifiers[i] \in F}
           m == ModifiersIn(F)
<1>1. /\ Modifiers \in Seq(Flags) /\ DOMAIN Modifiers = 1..Len(Modifiers)
      /\ \A i, j \in 1..Len(Modifiers) : Modifiers[i] = Modifiers[j] => i = j
  BY OutputAssumption, LenProperties
<1>2. m = Subsequence(Modifiers, I) /\ I \in SUBSET (1..Len(Modifiers))
  BY <1>1 DEF ModifiersIn
<1>3. \A f : f \in F \cap Flags <=> \E i \in I : f = Modifiers[i]
  BY DEF Flags
<1> HIDE DEF I, m
<1>4. /\ m \in Seq(Flags)
      /\ \A i \in 1..Len(m) : \E n \in I : m[i] = Modifiers[n]
      /\ \A n \in I : \E i \in 1..Len(m) : m[i] = Modifiers[n]
  BY <1>1, <1>2, SubsequenceItems
<1>5. \A i, j \in 1..Len(m) : m[i] = m[j] => i = j
  BY <1>1, <1>2, SubsequenceDistinct
<1>6. \A f : f \in F \cap Flags <=> \E i \in 1..Len(m) : m[i] = f
  <2>1. ASSUME NEW f, f \in F \cap Flags PROVE \E i \in 1..Len(m) : m[i] = f
    <3>1. PICK n \in I : f = Modifiers[n]
      BY <1>3, <2>1
    <3> QED BY <1>4, <3>1
  <2>2. ASSUME NEW i \in 1..Len(m) PROVE m[i] \in F \cap Flags
    <3>1. PICK n \in I : m[i] = Modifiers[n]
      BY <1>4
    <3> QED BY <1>3, <3>1
  <2> QED BY <2>1, <2>2
<1>7. Lists(m, F)
  BY <1>4, <1>5, <1>6 DEF Lists
<1> QED
  BY <1>7 DEF m

\* In a queue of modifier events the flags before an event are those of the one before it.
LEMMA AllModify ==
    ASSUME NEW q \in Seq(EventType), \A i \in 1..Len(q) : q[i].class = "modify",
           NEW r, NEW i \in 1..(Len(q) + 1)
    PROVE  FlagsAt(q, r, i) = IF i = 1 THEN r ELSE q[i - 1].flags \ {NUMPAD}
<1>1. Len(q) \in Nat /\ i \in Nat \ {0} /\ \A j \in 1..Len(q) : q[j] \in Modifies
  BY LenProperties, ElementOfSeq DEF Modifies
<1>2. i - 1 \in 0..(i - 1) /\ (i - 1 # 0 => i - 1 \in 1..Len(q))
  BY <1>1
<1>3. LastIn(q, Modifies, i) = i - 1
  BY <1>1, <1>2, LastInIs
<1> QED
  BY <1>1, <1>3 DEF FlagsAt

\* The events of the modifiers m that go up, and of those that go down.
UpEvents(m, base)   == [i \in DOMAIN m |-> ModifyEvent(m[i], base \ {m[j] : j \in 1..i})]
DownEvents(m, kept) == [i \in DOMAIN m |-> ModifyEvent(m[i], kept \cup {m[j] : j \in 1..i})]

\* Modifiers that go up lead from the flags base to base without them.
LEMMA UpEventsLead ==
    ASSUME NEW m \in Seq(Flags), \A i, j \in 1..Len(m) : m[i] = m[j] => i = j,
           NEW base \in SUBSET FlagSet, \A i \in 1..Len(m) : m[i] \in base
    PROVE  /\ UpEvents(m, base) \in Seq(EventType)
           /\ \A i \in 1..Len(UpEvents(m, base)) : UpEvents(m, base)[i].class = "modify"
           /\ FlagsLead(UpEvents(m, base), base \ {NUMPAD}, (base \ {m[j] : j \in 1..Len(m)}) \ {NUMPAD})
<1> DEFINE q == UpEvents(m, base)
           r == base \ {NUMPAD}
           T(i) == {m[j] : j \in 1..i}
<1>1. Len(m) \in Nat /\ DOMAIN m = 1..Len(m) /\ \A i \in 1..Len(m) : m[i] \in Flags /\ m[i] # NUMPAD
  BY LenProperties, ElementOfSeq, OutputAssumption
<1>2. q = [i \in 1..Len(m) |-> ModifyEvent(m[i], base \ T(i))]
  BY <1>1 DEF UpEvents
<1>3. \A i \in 1..Len(m) : ModifyEvent(m[i], base \ T(i)) \in EventType
  BY <1>1, EventsTyped
<1>4. q \in [1..Len(m) -> EventType]
  <2> HIDE DEF T, q
  <2> QED BY <1>2, <1>3
<1>5. q \in Seq(EventType) /\ Len(q) = Len(m)
  <2> HIDE DEF q
  <2> QED BY <1>1, <1>4, FunctionIsSeq
<1>6. \A i \in 1..Len(m) : q[i].class = "modify" /\ q[i].key = m[i] /\ q[i].flags = base \ T(i)
  BY <1>2 DEF ModifyEvent, Event
<1> HIDE DEF q
<1>7. \A i \in 1..(Len(m) + 1) : FlagsAt(q, r, i) = IF i = 1 THEN r ELSE q[i - 1].flags \ {NUMPAD}
  <2> HIDE DEF r, T
  <2>1. \A i \in 1..Len(q) : q[i].class = "modify"
    BY <1>5, <1>6
  <2>2. \A i \in 1..(Len(q) + 1) : FlagsAt(q, r, i) = IF i = 1 THEN r ELSE q[i - 1].flags \ {NUMPAD}
    BY <1>5, <2>1, AllModify
  <2> QED BY <1>5, <2>2
<1>8. \A i \in 1..(Len(m) + 1) : FlagsAt(q, r, i) = (base \ T(i - 1)) \ {NUMPAD}
  <2>1. SUFFICES ASSUME NEW i \in 1..(Len(m) + 1)
                 PROVE  FlagsAt(q, r, i) = (base \ T(i - 1)) \ {NUMPAD}
    BY <2>1
  <2>2. CASE i = 1
    <3>1. T(i - 1) = {}
      BY <2>2
    <3>2. FlagsAt(q, r, i) = base \ {NUMPAD}
      BY <1>1, <1>7, <2>2
    <3> QED BY <3>1, <3>2
  <2>3. CASE i # 1
    <3>1. i - 1 \in 1..Len(m)
      BY <1>1, <2>3
    <3>2. FlagsAt(q, r, i) = q[i - 1].flags \ {NUMPAD}
      BY <1>7, <2>3
    <3> HIDE DEF T
    <3> QED BY <1>6, <3>1, <3>2
  <2> QED BY <2>2, <2>3
<1>9. \A i \in 1..Len(m) : EventFits(q[i], FlagsAt(q, r, i))
  <2>1. SUFFICES ASSUME NEW i \in 1..Len(m)
                 PROVE  EventFits(q[i], FlagsAt(q, r, i))
    BY <2>1
  <2>2. i \in 1..(Len(m) + 1)
    BY <1>1
  <2>3. FlagsAt(q, r, i) = (base \ T(i - 1)) \ {NUMPAD}
    BY <1>8, <2>2
  <2>4. \A f : f \in T(i) <=> f \in T(i - 1) \/ f = m[i]
    BY <1>1
  <2>5. m[i] \notin T(i - 1) /\ m[i] \in base /\ m[i] # NUMPAD
    BY <1>1
  <2> HIDE DEF T
  <2>6. m[i] \in FlagsAt(q, r, i)
    BY <2>3, <2>5
  <2>7. (base \ T(i)) \ {NUMPAD} = FlagsAt(q, r, i) \ {m[i]}
    BY <2>3, <2>4
  <2> QED BY <1>6, <2>6, <2>7 DEF EventFits
<1>10. FlagsAt(q, r, Len(m) + 1) = (base \ T(Len(m))) \ {NUMPAD}
  <2> DEFINE e == Len(m) + 1
  <2>1. e \in 1..(Len(m) + 1) /\ e - 1 = Len(m)
    BY <1>1
  <2> HIDE DEF e, T
  <2>2. FlagsAt(q, r, e) = (base \ T(e - 1)) \ {NUMPAD}
    BY <1>8, <2>1
  <2>3. T(e - 1) = T(Len(m))
    BY <2>1 DEF T
  <2>4. FlagsAt(q, r, e) = (base \ T(Len(m))) \ {NUMPAD}
    BY <2>2, <2>3
  <2> QED BY <2>4 DEF e
<1> QED
  BY <1>5, <1>6, <1>9, <1>10 DEF FlagsLead, q

\* Modifiers that go down lead from the flags base to base with them.
LEMMA DownEventsLead ==
    ASSUME NEW m \in Seq(Flags), \A i, j \in 1..Len(m) : m[i] = m[j] => i = j,
           NEW base \in SUBSET FlagSet, \A i \in 1..Len(m) : m[i] \notin base
    PROVE  /\ DownEvents(m, base) \in Seq(EventType)
           /\ \A i \in 1..Len(DownEvents(m, base)) : DownEvents(m, base)[i].class = "modify"
           /\ FlagsLead(DownEvents(m, base), base \ {NUMPAD}, (base \cup {m[j] : j \in 1..Len(m)}) \ {NUMPAD})
<1> DEFINE q == DownEvents(m, base)
           r == base \ {NUMPAD}
           T(i) == {m[j] : j \in 1..i}
<1>1. Len(m) \in Nat /\ DOMAIN m = 1..Len(m) /\ \A i \in 1..Len(m) : m[i] \in Flags /\ m[i] # NUMPAD
  BY LenProperties, ElementOfSeq, OutputAssumption
<1>2. q = [i \in 1..Len(m) |-> ModifyEvent(m[i], base \cup T(i))]
  BY <1>1 DEF DownEvents
<1>3. \A i \in 1..Len(m) : ModifyEvent(m[i], base \cup T(i)) \in EventType
  <2>1. \A i \in 1..Len(m) : base \cup T(i) \in SUBSET FlagSet
    BY <1>1 DEF FlagSet
  <2> HIDE DEF T
  <2> QED BY <1>1, <2>1, EventsTyped
<1>4. q \in [1..Len(m) -> EventType]
  <2> HIDE DEF T, q
  <2> QED BY <1>2, <1>3
<1>5. q \in Seq(EventType) /\ Len(q) = Len(m)
  <2> HIDE DEF q
  <2> QED BY <1>1, <1>4, FunctionIsSeq
<1>6. \A i \in 1..Len(m) : q[i].class = "modify" /\ q[i].key = m[i] /\ q[i].flags = base \cup T(i)
  BY <1>2 DEF ModifyEvent, Event
<1> HIDE DEF q
<1>7. \A i \in 1..(Len(m) + 1) : FlagsAt(q, r, i) = IF i = 1 THEN r ELSE q[i - 1].flags \ {NUMPAD}
  <2> HIDE DEF r, T
  <2>1. \A i \in 1..Len(q) : q[i].class = "modify"
    BY <1>5, <1>6
  <2>2. \A i \in 1..(Len(q) + 1) : FlagsAt(q, r, i) = IF i = 1 THEN r ELSE q[i - 1].flags \ {NUMPAD}
    BY <1>5, <2>1, AllModify
  <2> QED BY <1>5, <2>2
<1>8. \A i \in 1..(Len(m) + 1) : FlagsAt(q, r, i) = (base \cup T(i - 1)) \ {NUMPAD}
  <2>1. SUFFICES ASSUME NEW i \in 1..(Len(m) + 1)
                 PROVE  FlagsAt(q, r, i) = (base \cup T(i - 1)) \ {NUMPAD}
    BY <2>1
  <2>2. CASE i = 1
    <3>1. T(i - 1) = {}
      BY <2>2
    <3>2. FlagsAt(q, r, i) = base \ {NUMPAD}
      BY <1>1, <1>7, <2>2
    <3> QED BY <3>1, <3>2
  <2>3. CASE i # 1
    <3>1. i - 1 \in 1..Len(m)
      BY <1>1, <2>3
    <3>2. FlagsAt(q, r, i) = q[i - 1].flags \ {NUMPAD}
      BY <1>7, <2>3
    <3> HIDE DEF T
    <3> QED BY <1>6, <3>1, <3>2
  <2> QED BY <2>2, <2>3
<1>9. \A i \in 1..Len(m) : EventFits(q[i], FlagsAt(q, r, i))
  <2>1. SUFFICES ASSUME NEW i \in 1..Len(m)
                 PROVE  EventFits(q[i], FlagsAt(q, r, i))
    BY <2>1
  <2>2. i \in 1..(Len(m) + 1)
    BY <1>1
  <2>3. FlagsAt(q, r, i) = (base \cup T(i - 1)) \ {NUMPAD}
    BY <1>8, <2>2
  <2>4. \A f : f \in T(i) <=> f \in T(i - 1) \/ f = m[i]
    BY <1>1
  <2>5. m[i] \notin T(i - 1) /\ m[i] \notin base /\ m[i] # NUMPAD
    BY <1>1
  <2> HIDE DEF T
  <2>6. m[i] \notin FlagsAt(q, r, i)
    BY <2>3, <2>5
  <2>7. (base \cup T(i)) \ {NUMPAD} = FlagsAt(q, r, i) \cup {m[i]}
    BY <2>3, <2>4, <2>5
  <2> QED BY <1>6, <2>6, <2>7 DEF EventFits
<1>10. FlagsAt(q, r, Len(m) + 1) = (base \cup T(Len(m))) \ {NUMPAD}
  <2> DEFINE e == Len(m) + 1
  <2>1. e \in 1..(Len(m) + 1) /\ e - 1 = Len(m)
    BY <1>1
  <2> HIDE DEF e, T
  <2>2. FlagsAt(q, r, e) = (base \cup T(e - 1)) \ {NUMPAD}
    BY <1>8, <2>1
  <2>3. T(e - 1) = T(Len(m))
    BY <2>1 DEF T
  <2>4. FlagsAt(q, r, e) = (base \cup T(Len(m))) \ {NUMPAD}
    BY <2>2, <2>3
  <2> QED BY <2>4 DEF e
<1> QED
  BY <1>5, <1>6, <1>9, <1>10 DEF FlagsLead, q

-----------------------------------------------------------------------------
(* The state of the output before and after a request                      *)

Listed(o, k) == \E i \in 1..Len(o.pressed) : o.pressed[i] = k

\* Of the queue, the receiver being rc and the keys D being held: its modifiers
\* lead to lastFlags_, its keys to PressDownKeys, its buttons to lastButtons_.
FlagsOK(o, rc)   == FlagsLead(o.queue, rc.flags, o.last \ {NUMPAD})
KeyOK(o, rc, D, k) ==
    /\ Listed(o, k) => KeyAt(o.queue, rc.keys, k)
    /\ KeyAt(o.queue, rc.keys, k) => Listed(o, k) \/ k \in D
KeysOK(o, rc, D) == \A k \in Keys \ {Drop.key} : KeyOK(o, rc, D, k)
ButtonsOK(o, rc) == ButtonsAt(o.queue, rc.buttons) = o.buttons

InStep(o, rc, D) == FlagsOK(o, rc) /\ KeysOK(o, rc, D) /\ ButtonsOK(o, rc)

\* A request only appends to the queue.
Grown(o, p) == \E t \in Seq(EventType) : p.queue = o.queue \o t

\* A request takes o to p: it keeps the type, only appends, and what is in step
\* while D are held is in step afterwards, when E are.
Leads(o, p, D, E) ==
    /\ p \in OutType /\ Grown(o, p)
    /\ \A rc : InStep(o, rc, D) => InStep(p, rc, E)

\* The fields of the output.
LEMMA OutFields ==
    ASSUME NEW o \in OutType
    PROVE  /\ o.queue \in Seq(EventType) /\ o.last \in SUBSET FlagSet /\ o.ignore \in BOOLEAN
           /\ o.pressed \in Seq(Keys) /\ o.buttons \in SUBSET Buttons
BY DEF OutType

\* Requests follow each other.
LEMMA LeadsOn ==
    ASSUME NEW o \in OutType, NEW p, NEW r, NEW D, NEW E, NEW G,
           Leads(o, p, D, E), Leads(p, r, E, G)
    PROVE  Leads(o, r, D, G)
<1>1. PICK t \in Seq(EventType) : p.queue = o.queue \o t
  BY DEF Leads, Grown
<1>2. PICK u \in Seq(EventType) : r.queue = p.queue \o u
  BY DEF Leads, Grown
<1>3. r.queue = o.queue \o (t \o u) /\ t \o u \in Seq(EventType)
  <2>1. o.queue \in Seq(EventType)
    BY OutFields
  <2>2. (o.queue \o t) \o u = o.queue \o (t \o u)
    BY <2>1, JoinEvents
  <2>3. t \o u \in Seq(EventType)
    BY ConcatProperties
  <2> QED BY <1>1, <1>2, <2>2, <2>3
<1>4. Grown(o, r)
  BY <1>3 DEF Grown
<1> QED
  BY <1>4 DEF Leads

\* Nothing is requested.
LEMMA LeadsNowhere ==
    ASSUME NEW o \in OutType, NEW p \in OutType, NEW D, p.queue = o.queue, p.last = o.last,
           p.pressed = o.pressed, p.buttons = o.buttons
    PROVE  Leads(o, p, D, D)
<1>1. p.queue = o.queue \o << >> /\ << >> \in Seq(EventType)
  BY OutFields, ConcatEmptySeq
<1>2. Grown(o, p)
  BY <1>1 DEF Grown
<1>3. ASSUME NEW rc, InStep(o, rc, D)
      PROVE  InStep(p, rc, D)
  BY <1>3 DEF InStep, FlagsOK, KeysOK, KeyOK, ButtonsOK, Listed
<1> QED
  BY <1>2, <1>3 DEF Leads

\* More keys are held.
LEMMA LeadsWider ==
    ASSUME NEW o, NEW p, NEW D, NEW E, NEW G, Leads(o, p, D, E), E \subseteq G
    PROVE  Leads(o, p, D, G)
<1>1. ASSUME NEW rc, InStep(p, rc, E)
      PROVE  InStep(p, rc, G)
  BY <1>1 DEF InStep, KeysOK, KeyOK
<1> QED
  BY <1>1 DEF Leads

\* Events are pushed that are no keys and no pointer events.
LEMMA LeadsPast ==
    ASSUME NEW o \in OutType, NEW p \in OutType, NEW D, NEW t \in Seq(EventType),
           p.queue = o.queue \o t, p.pressed = o.pressed, p.buttons = o.buttons,
           FlagsLead(t, o.last \ {NUMPAD}, p.last \ {NUMPAD}),
           \A i \in 1..Len(t) : t[i].class \notin {"key", "pointer"}
    PROVE  Leads(o, p, D, D)
<1>0. o.queue \in Seq(EventType)
  BY OutFields
<1>1. Grown(o, p)
  BY DEF Grown
<1>2. ASSUME NEW rc, InStep(o, rc, D)
      PROVE  InStep(p, rc, D)
  <2>1. FlagsOK(p, rc)
    BY <1>0, <1>2, FlagsLeadConcat DEF InStep, FlagsOK
  <2>2. ASSUME NEW k
        PROVE  KeyAt(p.queue, rc.keys, k) = KeyAt(o.queue, rc.keys, k)
    <3>1. \A i \in 1..Len(t) : t[i] \notin KeysOf(k)
      BY DEF KeysOf
    <3> QED BY <1>0, <3>1, KeyAtPast
  <2>3. KeysOK(p, rc, D)
    BY <1>2, <2>2 DEF InStep, KeysOK, KeyOK, Listed
  <2>4. \A i \in 1..Len(t) : t[i] \notin Points
    BY DEF Points
  <2>5. ButtonsOK(p, rc)
    BY <1>0, <1>2, <2>4, ButtonsAtPast DEF InStep, ButtonsOK
  <2> QED BY <2>1, <2>3, <2>5 DEF InStep
<1> QED
  BY <1>1, <1>2 DEF Leads

\* FireModifiers leads to the flags asked for, unless an ignored release leaves
\* lastFlags_ as they are.
LEMMA FireModifiersLeads ==
    ASSUME NEW o \in OutType, NEW to \in SUBSET FlagSet, NEW phys, NEW D
    PROVE  /\ Leads(o, FireModifiers(o, phys, to), D, D)
           /\ FireModifiers(o, phys, to).pressed = o.pressed
           /\ FireModifiers(o, phys, to).buttons = o.buttons
           /\ ~o.ignore => FireModifiers(o, phys, to).last = to
<1> DEFINE base  == IF NUMPAD \in to THEN o.last ELSE o.last \ {NUMPAD}
           ups   == ModifiersIn(base \ to)
           downs == ModifiersIn(to \ base)
           kept  == base \ {ups[j] : j \in 1..Len(ups)}
           p     == FireModifiers(o, phys, to)
<1>0. /\ o.queue \in Seq(EventType) /\ o.last \in SUBSET FlagSet /\ base \in SUBSET FlagSet
      /\ o.ignore \in BOOLEAN /\ NUMPAD \notin Flags
  BY OutFields, OutputAssumption
<1>1. CASE o.last = to \/ (phys = "up" /\ o.ignore)
  <2>1. p = o
    BY <1>1 DEF FireModifiers
  <2> HIDE DEF p
  <2>2. Leads(o, p, D, D)
    BY <2>1, LeadsNowhere
  <2> QED BY <1>1, <2>1, <2>2 DEF p
<1>2. CASE ~(o.last = to \/ (phys = "up" /\ o.ignore))
  <2> DEFINE t == UpEvents(ups, base) \o DownEvents(downs, kept)
  <2>1. /\ ups \in Seq(Flags) /\ \A i, j \in 1..Len(ups) : ups[i] = ups[j] => i = j
        /\ {ups[i] : i \in 1..Len(ups)} = (base \ to) \cap Flags
    <3>1. Lists(ups, base \ to)
      BY ModifiersInItems
    <3> HIDE DEF ups
    <3> QED BY <3>1 DEF Lists
  <2>2. /\ downs \in Seq(Flags) /\ \A i, j \in 1..Len(downs) : downs[i] = downs[j] => i = j
        /\ {downs[i] : i \in 1..Len(downs)} = (to \ base) \cap Flags
    <3>1. Lists(downs, to \ base)
      BY ModifiersInItems
    <3> HIDE DEF downs
    <3> QED BY <3>1 DEF Lists
  <2>3. p = [o EXCEPT !.last = to, !.ignore = @ /\ phys = "up",
                      !.queue = (@ \o UpEvents(ups, base)) \o DownEvents(downs, kept)]
    BY <1>2 DEF FireModifiers, UpEvents, DownEvents
  <2> HIDE DEF ups, downs, base, p
  <2>4. kept \in SUBSET FlagSet /\ kept = base \ ((base \ to) \cap Flags)
    BY <1>0, <2>1
  <2>5. (\A i \in 1..Len(ups) : ups[i] \in base) /\ (\A i \in 1..Len(downs) : downs[i] \notin kept)
    BY <2>1, <2>2, <2>4
  <2>6. /\ UpEvents(ups, base) \in Seq(EventType)
        /\ \A i \in 1..Len(UpEvents(ups, base)) : UpEvents(ups, base)[i].class = "modify"
        /\ FlagsLead(UpEvents(ups, base), base \ {NUMPAD}, kept \ {NUMPAD})
    BY <1>0, <2>1, <2>5, UpEventsLead
  <2> HIDE DEF kept
  <2>7. /\ DownEvents(downs, kept) \in Seq(EventType)
        /\ \A i \in 1..Len(DownEvents(downs, kept)) : DownEvents(downs, kept)[i].class = "modify"
        /\ FlagsLead(DownEvents(downs, kept), kept \ {NUMPAD},
                     (kept \cup {downs[j] : j \in 1..Len(downs)}) \ {NUMPAD})
    BY <2>2, <2>4, <2>5, DownEventsLead
  <2>8. (kept \cup {downs[j] : j \in 1..Len(downs)}) \ {NUMPAD} = to \ {NUMPAD}
    BY <1>0, <2>2, <2>4 DEF FlagSet
  <2>9. base \ {NUMPAD} = o.last \ {NUMPAD}
    BY DEF base
  <2>10. /\ t \in Seq(EventType) /\ FlagsLead(t, o.last \ {NUMPAD}, to \ {NUMPAD})
         /\ \A i \in 1..Len(t) : t[i].class = "modify"
    <3>1. FlagsLead(DownEvents(downs, kept), kept \ {NUMPAD}, to \ {NUMPAD})
      BY <2>7, <2>8
    <3>2. FlagsLead(UpEvents(ups, base), o.last \ {NUMPAD}, kept \ {NUMPAD})
      BY <2>6, <2>9
    <3>3. t \in Seq(EventType) /\ FlagsLead(t, o.last \ {NUMPAD}, to \ {NUMPAD})
      BY <2>6, <2>7, <3>1, <3>2, FlagsLeadConcat, ConcatProperties
    <3>4. \A i \in 1..Len(t) : t[i].class = "modify"
      <4>1. /\ Len(t) = Len(UpEvents(ups, base)) + Len(DownEvents(downs, kept))
            /\ \A i \in 1..Len(t) : t[i] = IF i <= Len(UpEvents(ups, base)) THEN UpEvents(ups, base)[i]
                                           ELSE DownEvents(downs, kept)[i - Len(UpEvents(ups, base))]
        BY <2>6, <2>7, ConcatProperties
      <4>2. Len(UpEvents(ups, base)) \in Nat /\ Len(DownEvents(downs, kept)) \in Nat
        BY <2>6, <2>7, LenProperties
      <4> HIDE DEF t
      <4> QED BY <2>6, <2>7, <4>1, <4>2
    <3> QED BY <3>3, <3>4
  <2>11. (o.queue \o UpEvents(ups, base)) \o DownEvents(downs, kept) = o.queue \o t
    BY <1>0, <2>6, <2>7, JoinEvents
  <2> HIDE DEF t
  <2>12. o.queue \o t \in Seq(EventType)
    BY <1>0, <2>10, ConcatProperties
  <2>13. /\ p \in OutType /\ p.queue = o.queue \o t /\ p.last = to
         /\ p.pressed = o.pressed /\ p.buttons = o.buttons
    BY <1>0, <2>3, <2>11, <2>12 DEF OutType
  <2>14. Leads(o, p, D, D)
    BY <2>10, <2>13, LeadsPast
  <2> QED BY <2>13, <2>14 DEF p
<1> QED
  BY <1>1, <1>2

\* An event is pushed that is no key, modifier or pointer event.
LEMMA PushLeads ==
    ASSUME NEW o \in OutType, NEW x \in EventType, x.class \notin {"key", "modify", "pointer"}, NEW D
    PROVE  Leads(o, Push(o, x), D, D)
<1> DEFINE p == Push(o, x)
<1>1. o.queue \in Seq(EventType) /\ <<x>> \in Seq(EventType)
  BY OutFields
<1>2. Append(o.queue, x) = o.queue \o <<x>> /\ Append(o.queue, x) \in Seq(EventType)
  BY <1>1, AppendIsConcat, AppendProperties
<1>3. /\ p \in OutType /\ p.queue = o.queue \o <<x>> /\ p.last = o.last
      /\ p.pressed = o.pressed /\ p.buttons = o.buttons
  BY <1>2 DEF Push, OutType
<1>4. FlagsLead(<<x>>, o.last \ {NUMPAD}, o.last \ {NUMPAD})
  <2>1. EventFits(x, o.last \ {NUMPAD}) /\ FlagsPast(x, o.last \ {NUMPAD}) = o.last \ {NUMPAD}
    BY DEF EventFits, FlagsPast
  <2> QED BY <2>1, FlagsLeadOne
<1>5. \A i \in 1..Len(<<x>>) : <<x>>[i].class \notin {"key", "pointer"}
  BY OneItem
<1> HIDE DEF p
<1>6. Leads(o, p, D, D)
  BY <1>1, <1>3, <1>4, <1>5, LeadsPast
<1> QED
  BY <1>6 DEF p

\* setIgnorePhysicalUpEvent changes nothing else.
LEMMA IgnoreLeads ==
    ASSUME NEW o \in OutType, NEW b \in BOOLEAN, NEW D
    PROVE  /\ Leads(o, [o EXCEPT !.ignore = b], D, D)
           /\ [o EXCEPT !.ignore = b] \in OutType
           /\ [o EXCEPT !.ignore = b].ignore = b
           /\ [o EXCEPT !.ignore = b].last = o.last
           /\ [o EXCEPT !.ignore = b].pressed = o.pressed
           /\ [o EXCEPT !.ignore = b].buttons = o.buttons
<1> DEFINE p == [o EXCEPT !.ignore = b]
<1>1. /\ p \in OutType /\ p.queue = o.queue /\ p.last = o.last
      /\ p.pressed = o.pressed /\ p.buttons = o.buttons /\ p.ignore = b
  BY DEF OutType
<1> HIDE DEF p
<1>2. Leads(o, p, D, D)
  BY <1>1, LeadsNowhere
<1> QED
  BY <1>1, <1>2 DEF p

\* An event of key k is pushed and PressDownKeys brought up to date with it.
LEMMA LeadsKey ==
    ASSUME NEW o \in OutType, NEW p \in OutType, NEW D, NEW E, NEW k \in Keys, NEW isdown \in BOOLEAN,
           p.queue = o.queue \o <<KeyEvent(k, isdown, o.last)>>,
           p.last = o.last, p.buttons = o.buttons,
           \A n \in Keys \ {k} : (Listed(p, n) <=> Listed(o, n)) /\ (n \in D => n \in E),
           Listed(p, k) => isdown, isdown => Listed(p, k) \/ k \in E
    PROVE  Leads(o, p, D, E)
<1> DEFINE x == KeyEvent(k, isdown, o.last)
           t == <<x>>
<1>0. o.queue \in Seq(EventType) /\ o.last \in SUBSET FlagSet
  BY OutFields
<1>1. x \in EventType
  BY <1>0, EventsTyped
<1>2. x.class = "key" /\ x.key = k /\ x.down = isdown /\ x.flags = o.last
  BY DEF KeyEvent, Event
<1> HIDE DEF x
<1>3. t \in Seq(EventType) /\ Len(t) = 1 /\ t[1] = x
  BY <1>1, OneItem
<1>4. p.queue = o.queue \o t
  BY DEF x
<1>5. FlagsLead(t, o.last \ {NUMPAD}, p.last \ {NUMPAD})
  <2>1. EventFits(x, o.last \ {NUMPAD}) /\ FlagsPast(x, o.last \ {NUMPAD}) = p.last \ {NUMPAD}
    BY <1>2 DEF EventFits, FlagsPast
  <2> QED BY <1>1, <2>1, FlagsLeadOne
<1> HIDE DEF t
<1>6. Grown(o, p)
  BY <1>3, <1>4 DEF Grown
<1>7. ASSUME NEW rc, InStep(o, rc, D)
      PROVE  InStep(p, rc, E)
  <2>1. FlagsOK(p, rc)
    BY <1>0, <1>3, <1>4, <1>5, <1>7, FlagsLeadConcat DEF InStep, FlagsOK
  <2>2. ASSUME NEW n \in Keys \ {Drop.key}, n # k
        PROVE  KeyOK(p, rc, E, n)
    <3>1. \A i \in 1..Len(t) : t[i] \notin KeysOf(n)
      BY <1>2, <1>3, <2>2 DEF KeysOf
    <3>2. KeyAt(p.queue, rc.keys, n) = KeyAt(o.queue, rc.keys, n)
      BY <1>0, <1>3, <1>4, <3>1, KeyAtPast
    <3>3. KeyOK(o, rc, D, n)
      BY <1>7 DEF InStep, KeysOK
    <3> QED BY <2>2, <3>2, <3>3 DEF KeyOK
  <2>3. KeyOK(p, rc, E, k)
    <3>1. \E i \in 1..Len(t) : t[i] \in KeysOf(k)
      BY <1>1, <1>2, <1>3 DEF KeysOf
    <3>2. PICK n \in 1..Len(t) : t[n] \in KeysOf(k) /\ KeyAt(p.queue, rc.keys, k) = t[n].down
      BY <1>0, <1>3, <1>4, <3>1, KeyAtSome
    <3>3. KeyAt(p.queue, rc.keys, k) = isdown
      BY <1>2, <1>3, <3>2
    <3> QED BY <3>3 DEF KeyOK
  <2>4. KeysOK(p, rc, E)
    BY <2>2, <2>3 DEF KeysOK
  <2>5. ButtonsOK(p, rc)
    <3>1. \A i \in 1..Len(t) : t[i] \notin Points
      BY <1>2, <1>3 DEF Points
    <3> QED BY <1>0, <1>3, <1>4, <1>7, <3>1, ButtonsAtPast DEF InStep, ButtonsOK
  <2> QED BY <2>1, <2>4, <2>5 DEF InStep
<1> QED
  BY <1>6, <1>7 DEF Leads

\* FireKey::fire of a press: the key is listed afterwards, or it repeats and is held.
LEMMA FireKeyDownLeads ==
    ASSUME NEW o \in OutType, NEW k \in Keys, NEW F \in SUBSET Flags, NEW phys, NEW repeat \in BOOLEAN,
           NEW D, repeat => k \in D
    PROVE  Leads(o, FireKeyDown(o, k, F, phys, repeat), D, D)
<1> DEFINE to == ReverseNormalizeKey(k, F)
           o0 == [o EXCEPT !.ignore = FALSE]
           o1 == FireModifiers(o0, phys, to)
           o2 == Push(o1, KeyEvent(k, TRUE, to))
           p  == FireKeyDown(o, k, F, phys, repeat)
<1>1. to \in SUBSET FlagSet
  BY DEF ReverseNormalizeKey, FlagSet
<1>2. Leads(o, o0, D, D) /\ o0 \in OutType /\ ~o0.ignore
  BY IgnoreLeads
<1>3. p = IF repeat THEN o2 ELSE PressDownKeysAdd(o2, k)
  BY DEF FireKeyDown
<1> HIDE DEF p, to, o0
<1>4. Leads(o0, o1, D, D) /\ o1.last = to
  BY <1>1, <1>2, FireModifiersLeads
<1> HIDE DEF o1
<1>5. o1 \in OutType
  BY <1>4 DEF Leads
<1>6. KeyEvent(k, TRUE, to) \in EventType /\ o1.queue \in Seq(EventType) /\ o1.pressed \in Seq(Keys)
  BY <1>1, <1>5, EventsTyped, OutFields
<1>7. /\ Append(o1.queue, KeyEvent(k, TRUE, to)) = o1.queue \o <<KeyEvent(k, TRUE, o1.last)>>
      /\ Append(o1.queue, KeyEvent(k, TRUE, to)) \in Seq(EventType)
  BY <1>4, <1>6, AppendIsConcat, AppendProperties
<1>8. Append(o1.pressed, k) \in Seq(Keys)
  BY <1>6, AppendProperties
<1>9. /\ p \in OutType /\ p.queue = o1.queue \o <<KeyEvent(k, TRUE, o1.last)>>
      /\ p.last = o1.last /\ p.buttons = o1.buttons
      /\ p.pressed = IF repeat THEN o1.pressed ELSE Append(o1.pressed, k)
  BY <1>3, <1>5, <1>7, <1>8 DEF Push, PressDownKeysAdd, OutType
<1>10. \A n \in Keys : Listed(p, n) <=> Listed(o1, n) \/ (~repeat /\ n = k)
  <2>1. CASE repeat
    BY <1>9, <2>1 DEF Listed
  <2>2. CASE ~repeat
    <3> DEFINE a == Append(o1.pressed, k)
    <3>1. /\ Len(o1.pressed) \in Nat /\ Len(a) = Len(o1.pressed) + 1
          /\ \A i \in 1..Len(o1.pressed) : a[i] = o1.pressed[i]
          /\ a[Len(o1.pressed) + 1] = k
      BY <1>6, AppendProperties, LenProperties
    <3>2. p.pressed = a
      BY <1>9, <2>2
    <3> HIDE DEF a
    <3>3. ASSUME NEW n \in Keys, Listed(p, n) PROVE Listed(o1, n) \/ n = k
      <4>1. PICK i \in 1..Len(a) : a[i] = n
        BY <3>2, <3>3 DEF Listed
      <4>2. CASE i = Len(o1.pressed) + 1
        BY <3>1, <4>1, <4>2
      <4>3. CASE i # Len(o1.pressed) + 1
        <5>1. i \in 1..Len(o1.pressed)
          BY <3>1, <4>3
        <5> QED BY <3>1, <4>1, <5>1 DEF Listed
      <4> QED BY <4>2, <4>3
    <3>4. ASSUME NEW n \in Keys, Listed(o1, n) PROVE Listed(p, n)
      <4>1. PICK i \in 1..Len(o1.pressed) : o1.pressed[i] = n
        BY <3>4 DEF Listed
      <4>2. i \in 1..Len(a) /\ a[i] = n
        BY <3>1, <4>1
      <4> QED BY <3>2, <4>2 DEF Listed
    <3>5. Listed(p, k)
      <4>1. Len(o1.pressed) + 1 \in 1..Len(a)
        BY <3>1
      <4> QED BY <3>1, <3>2, <4>1 DEF Listed
    <3> QED BY <2>2, <3>3, <3>4, <3>5
  <2> QED BY <2>1, <2>2
<1>11. Leads(o1, p, D, D)
  <2>1. CASE repeat
    <3>1. \A n \in Keys \ {k} : (Listed(p, n) <=> Listed(o1, n)) /\ (n \in D => n \in D)
      BY <1>10
    <3> QED BY <1>5, <1>9, <2>1, <3>1, LeadsKey
  <2>2. CASE ~repeat
    <3>1. \A n \in Keys \ {k} : (Listed(p, n) <=> Listed(o1, n)) /\ (n \in D => n \in D)
      BY <1>10
    <3>2. Listed(p, k)
      BY <1>10, <2>2
    <3> QED BY <1>5, <1>9, <3>1, <3>2, LeadsKey
  <2> QED BY <2>1, <2>2
<1>12. Leads(o, o1, D, D)
  BY <1>2, <1>4, LeadsOn
<1>13. Leads(o, p, D, D)
  BY <1>11, <1>12, LeadsOn
<1> QED
  BY <1>13 DEF p

\* FireKey::fire of a release: the key is not listed any more.
LEMMA FireKeyUpLeads ==
    ASSUME NEW o \in OutType, NEW k \in Keys, NEW D
    PROVE  Leads(o, FireKeyUp(o, k), D, D \ {k})
<1> DEFINE p == FireKeyUp(o, k)
           I == {i \in DOMAIN o.pressed : o.pressed[i] # k}
<1>1. /\ o.queue \in Seq(EventType) /\ o.last \in SUBSET FlagSet /\ o.pressed \in Seq(Keys)
      /\ KeyEvent(k, FALSE, o.last) \in EventType
  BY OutFields, EventsTyped
<1>2. /\ Append(o.queue, KeyEvent(k, FALSE, o.last)) = o.queue \o <<KeyEvent(k, FALSE, o.last)>>
      /\ Append(o.queue, KeyEvent(k, FALSE, o.last)) \in Seq(EventType)
  BY <1>1, AppendIsConcat, AppendProperties
<1>3. DOMAIN o.pressed = 1..Len(o.pressed) /\ I \in SUBSET (1..Len(o.pressed))
  BY <1>1, LenProperties
<1> DEFINE s == Subsequence(o.pressed, I)
<1>4. p = [o EXCEPT !.queue = Append(@, KeyEvent(k, FALSE, o.last)), !.pressed = s]
  BY DEF FireKeyUp, PressDownKeysRemove, Push, OutType
<1>5. \A i \in 1..Len(o.pressed) : i \in I <=> o.pressed[i] # k
  BY <1>3
<1> HIDE DEF p, I
<1>6. /\ s \in Seq(Keys)
      /\ \A i \in 1..Len(s) : \E m \in I : s[i] = o.pressed[m]
      /\ \A m \in I : \E i \in 1..Len(s) : s[i] = o.pressed[m]
  BY <1>1, <1>3, SubsequenceItems
<1> HIDE DEF s
<1>7. /\ p \in OutType /\ p.queue = o.queue \o <<KeyEvent(k, FALSE, o.last)>>
      /\ p.last = o.last /\ p.buttons = o.buttons /\ p.pressed = s
  BY <1>2, <1>4, <1>6 DEF OutType
<1>8. ~Listed(p, k)
  <2>1. SUFFICES ASSUME NEW i \in 1..Len(s), s[i] = k PROVE FALSE
    BY <1>7 DEF Listed
  <2>2. PICK m \in I : s[i] = o.pressed[m]
    BY <1>6
  <2> QED BY <1>3, <1>5, <2>1, <2>2
<1>9. \A n \in Keys \ {k} : Listed(p, n) <=> Listed(o, n)
  <2>1. ASSUME NEW n \in Keys \ {k}, Listed(p, n) PROVE Listed(o, n)
    <3>1. PICK i \in 1..Len(s) : s[i] = n
      BY <1>7, <2>1 DEF Listed
    <3>2. PICK m \in I : s[i] = o.pressed[m]
      BY <1>6
    <3> QED BY <1>3, <3>1, <3>2 DEF Listed
  <2>2. ASSUME NEW n \in Keys \ {k}, Listed(o, n) PROVE Listed(p, n)
    <3>1. PICK m \in 1..Len(o.pressed) : o.pressed[m] = n
      BY <2>2 DEF Listed
    <3>2. m \in I
      BY <1>5, <3>1
    <3>3. PICK i \in 1..Len(s) : s[i] = o.pressed[m]
      BY <1>6, <3>2
    <3> QED BY <1>7, <3>1, <3>3 DEF Listed
  <2> QED BY <2>1, <2>2
<1>10. \A n \in Keys \ {k} : (Listed(p, n) <=> Listed(o, n)) /\ (n \in D => n \in D \ {k})
  BY <1>9
<1>11. Leads(o, p, D, D \ {k})
  <2> DEFINE E == D \ {k}
  <2>1. \A n \in Keys \ {k} : (Listed(p, n) <=> Listed(o, n)) /\ (n \in D => n \in E)
    BY <1>10
  <2> HIDE DEF E
  <2>2. Leads(o, p, D, E)
    BY <1>7, <1>8, <2>1, LeadsKey
  <2> QED BY <2>2 DEF E
<1> QED
  BY <1>11 DEF p

\* ToEvent::fire_downup
LEMMA FireDownUpLeads ==
    ASSUME NEW o \in OutType, NEW k \in Keys, NEW F \in SUBSET Flags, NEW phys, NEW D
    PROVE  Leads(o, FireDownUp(o, k, F, phys), D, D)
<1> DEFINE o1 == FireKeyDown(o, k, F, phys, FALSE)
           p  == FireKeyUp(o1, k)
           E  == D \ {k}
<1>1. Leads(o, o1, D, D)
  BY FireKeyDownLeads
<1> HIDE DEF o1
<1>2. o1 \in OutType
  BY <1>1 DEF Leads
<1>3. Leads(o1, p, D, E)
  BY <1>2, FireKeyUpLeads
<1>4. E \subseteq D
  OBVIOUS
<1> HIDE DEF p, E
<1>5. Leads(o1, p, D, D)
  BY <1>3, <1>4, LeadsWider
<1>6. Leads(o, p, D, D)
  BY <1>1, <1>5, LeadsOn
<1> QED
  BY <1>6 DEF p, o1, FireDownUp

\* FireKey::fire of a modifier key.
LEMMA FireKeyModifyLeads ==
    ASSUME NEW o \in OutType, NEW f, NEW F \in SUBSET Flags, NEW phys, NEW D
    PROVE  Leads(o, FireKeyModify(o, f, F, phys), D, D)
<1> DEFINE b  == o.ignore /\ f \notin F
           o0 == [o EXCEPT !.ignore = b]
           p  == FireModifiers(o0, phys, F)
<1>1. b \in BOOLEAN /\ F \in SUBSET FlagSet
  BY OutFields DEF FlagSet
<1> HIDE DEF b
<1>2. Leads(o, o0, D, D) /\ o0 \in OutType
  BY <1>1, IgnoreLeads
<1>3. FireKeyModify(o, f, F, phys) = p
  BY DEF FireKeyModify, b
<1> HIDE DEF o0
<1>4. Leads(o0, p, D, D)
  BY <1>1, <1>2, FireModifiersLeads
<1> HIDE DEF p
<1>5. Leads(o, p, D, D)
  BY <1>2, <1>4, LeadsOn
<1> QED
  BY <1>3, <1>5

\* FireConsumer::fire
LEMMA FireConsumerLeads ==
    ASSUME NEW o \in OutType, NEW c \in Consumers, NEW isdown \in BOOLEAN, NEW F \in SUBSET Flags, NEW phys, NEW D
    PROVE  Leads(o, FireConsumer(o, c, isdown, F, phys), D, D)
<1> DEFINE b  == o.ignore /\ ~isdown
           o0 == [o EXCEPT !.ignore = b]
           o1 == FireModifiers(o0, phys, F)
           x  == ConsumerEvent(c, isdown)
           p  == Push(o1, x)
<1>1. b \in BOOLEAN /\ F \in SUBSET FlagSet
  BY OutFields DEF FlagSet
<1>2. x \in EventType /\ x.class = "consumer"
  <2>1. x \in EventType
    BY EventsTyped
  <2> QED BY <2>1 DEF ConsumerEvent, Event
<1>3. FireConsumer(o, c, isdown, F, phys) = p
  BY DEF FireConsumer
<1> HIDE DEF b, x
<1>4. Leads(o, o0, D, D) /\ o0 \in OutType
  BY <1>1, IgnoreLeads
<1> HIDE DEF o0
<1>5. Leads(o0, o1, D, D)
  BY <1>1, <1>4, FireModifiersLeads
<1> HIDE DEF o1
<1>6. o1 \in OutType
  BY <1>5 DEF Leads
<1>7. Leads(o1, p, D, D)
  BY <1>2, <1>6, PushLeads
<1> HIDE DEF p
<1>8. Leads(o, o1, D, D)
  BY <1>4, <1>5, LeadsOn
<1>9. Leads(o, p, D, D)
  BY <1>7, <1>8, LeadsOn
<1> QED
  BY <1>3, <1>9

\* FireScrollWheel::fire
LEMMA FireScrollWheelLeads ==
    ASSUME NEW o \in OutType, NEW F \in SUBSET Flags, NEW D
    PROVE  Leads(o, FireScrollWheel(o, F), D, D)
<1> DEFINE o0 == [o EXCEPT !.ignore = FALSE]
           o1 == FireModifiers(o0, "down", F)
           x  == OtherEvent("scroll")
           p  == Push(o1, x)
<1>1. F \in SUBSET FlagSet
  BY DEF FlagSet
<1>2. x \in EventType /\ x.class = "scroll"
  <2>1. x \in EventType
    BY EventsTyped
  <2> QED BY <2>1 DEF OtherEvent, Event
<1>3. FireScrollWheel(o, F) = p
  BY DEF FireScrollWheel
<1> HIDE DEF x
<1>4. Leads(o, o0, D, D) /\ o0 \in OutType
  BY IgnoreLeads
<1> HIDE DEF o0
<1>5. Leads(o0, o1, D, D)
  BY <1>1, <1>4, FireModifiersLeads
<1> HIDE DEF o1
<1>6. o1 \in OutType
  BY <1>5 DEF Leads
<1>7. Leads(o1, p, D, D)
  BY <1>2, <1>6, PushLeads
<1> HIDE DEF p
<1>8. Leads(o, o1, D, D)
  BY <1>4, <1>5, LeadsOn
<1>9. Leads(o, p, D, D)
  BY <1>7, <1>8, LeadsOn
<1> QED
  BY <1>3, <1>9

\* A pointer event is pushed with the buttons that become lastButtons_.
LEMMA LeadsPointer ==
    ASSUME NEW o \in OutType, NEW B \in SUBSET Buttons, NEW D
    PROVE  /\ Leads(o, Push([o EXCEPT !.buttons = B], PointerEvent(B)), D, D)
           /\ Push([o EXCEPT !.buttons = B], PointerEvent(B)).buttons = B
<1> DEFINE x == PointerEvent(B)
           t == <<x>>
           p == Push([o EXCEPT !.buttons = B], x)
<1>0. o.queue \in Seq(EventType)
  BY OutFields
<1>1. x \in EventType
  BY EventsTyped
<1>2. x.class = "pointer" /\ x.buttons = B
  BY DEF PointerEvent, Event
<1> HIDE DEF x
<1>3. t \in Seq(EventType) /\ Len(t) = 1 /\ t[1] = x
  BY <1>1, OneItem
<1>4. Append(o.queue, x) = o.queue \o t /\ Append(o.queue, x) \in Seq(EventType)
  BY <1>0, <1>1, AppendIsConcat, AppendProperties
<1>5. /\ p \in OutType /\ p.queue = o.queue \o t /\ p.last = o.last
      /\ p.pressed = o.pressed /\ p.buttons = B
  BY <1>4 DEF Push, OutType
<1>6. FlagsLead(t, o.last \ {NUMPAD}, o.last \ {NUMPAD})
  <2>1. EventFits(x, o.last \ {NUMPAD}) /\ FlagsPast(x, o.last \ {NUMPAD}) = o.last \ {NUMPAD}
    BY <1>2 DEF EventFits, FlagsPast
  <2> QED BY <1>1, <2>1, FlagsLeadOne
<1> HIDE DEF t, p
<1>7. Grown(o, p)
  BY <1>3, <1>5 DEF Grown
<1>8. p.queue = o.queue \o t
  BY <1>5
<1>9. ASSUME NEW rc, InStep(o, rc, D)
      PROVE  InStep(p, rc, D)
  <2>1. FlagsOK(p, rc)
    BY <1>0, <1>3, <1>5, <1>6, <1>9, FlagsLeadConcat DEF InStep, FlagsOK
  <2>2. ASSUME NEW k
        PROVE  KeyAt(p.queue, rc.keys, k) = KeyAt(o.queue, rc.keys, k)
    <3>1. \A i \in 1..Len(t) : t[i] \notin KeysOf(k)
      BY <1>2, <1>3 DEF KeysOf
    <3> QED BY <1>0, <1>3, <1>8, <3>1, KeyAtPast
  <2>3. KeysOK(p, rc, D)
    BY <1>5, <1>9, <2>2 DEF InStep, KeysOK, KeyOK, Listed
  <2>4. ButtonsOK(p, rc)
    <3>1. \E i \in 1..Len(t) : t[i] \in Points
      BY <1>1, <1>2, <1>3 DEF Points
    <3>2. PICK n \in 1..Len(t) : t[n] \in Points /\ ButtonsAt(o.queue \o t, rc.buttons) = t[n].buttons
      <4>1. t \in Seq(EventType)
        BY <1>3
      <4> QED BY <1>0, <4>1, <3>1, ButtonsAtSome
    <3> QED BY <1>2, <1>3, <1>5, <3>2 DEF ButtonsOK
  <2> QED BY <2>1, <2>3, <2>4 DEF InStep
<1>10. Leads(o, p, D, D)
  BY <1>5, <1>7, <1>9 DEF Leads
<1> QED
  BY <1>5, <1>10 DEF p, x

\* The cursor moves: a pointer event with the buttons of lastButtons_.
LEMMA LeadsMove ==
    ASSUME NEW o \in OutType, NEW D
    PROVE  Leads(o, Push(o, PointerEvent(o.buttons)), D, D) /\ Push(o, PointerEvent(o.buttons)).buttons = o.buttons
<1> DEFINE B == o.buttons
<1>1. B \in SUBSET Buttons
  BY OutFields
<1>2. [o EXCEPT !.buttons = B] = o
  BY DEF OutType
<1> HIDE DEF B
<1>3. /\ Leads(o, Push([o EXCEPT !.buttons = B], PointerEvent(B)), D, D)
      /\ Push([o EXCEPT !.buttons = B], PointerEvent(B)).buttons = B
  BY <1>1, LeadsPointer
<1> QED
  BY <1>2, <1>3 DEF B

\* FireRelativePointer::fire
LEMMA FireRelativePointerLeads ==
    ASSUME NEW o \in OutType, NEW B \in SUBSET Buttons, NEW moved \in BOOLEAN, NEW F \in SUBSET Flags,
           NEW phys, NEW D
    PROVE  Leads(o, FireRelativePointer(o, B, moved, F, phys), D, D)
<1> DEFINE released == o.buttons \ B # {}
           o0 == [o EXCEPT !.ignore = FALSE]
           o1 == IF released THEN o0 ELSE FireModifiers(o0, phys, F)
           o2 == IF o1.buttons # B THEN Push([o1 EXCEPT !.buttons = B], PointerEvent(B)) ELSE o1
           o3 == IF moved THEN Push(o2, PointerEvent(B)) ELSE o2
           p  == IF released THEN FireModifiers(o3, phys, F) ELSE o3
<1>1. FireRelativePointer(o, B, moved, F, phys) = p
  BY DEF FireRelativePointer
<1>2. F \in SUBSET FlagSet
  BY DEF FlagSet
<1> HIDE DEF released
<1>3. Leads(o, o0, D, D) /\ o0 \in OutType
  BY IgnoreLeads
<1> HIDE DEF o0
<1>4. Leads(o0, o1, D, D)
  <2>1. CASE released
    BY <1>3, <2>1, LeadsNowhere
  <2>2. CASE ~released
    BY <1>2, <1>3, <2>2, FireModifiersLeads
  <2> QED BY <2>1, <2>2
<1> HIDE DEF o1
<1>5. o1 \in OutType /\ Leads(o, o1, D, D)
  BY <1>3, <1>4, LeadsOn DEF Leads
<1>6. Leads(o1, o2, D, D) /\ o2.buttons = B
  <2>1. CASE o1.buttons # B
    BY <1>5, <2>1, LeadsPointer
  <2>2. CASE o1.buttons = B
    BY <1>5, <2>2, LeadsNowhere
  <2> QED BY <2>1, <2>2
<1> HIDE DEF o2
<1>7. o2 \in OutType /\ Leads(o, o2, D, D)
  BY <1>5, <1>6, LeadsOn DEF Leads
<1>8. Leads(o2, o3, D, D)
  <2>1. CASE moved
    BY <1>6, <1>7, <2>1, LeadsMove
  <2>2. CASE ~moved
    BY <1>7, <2>2, LeadsNowhere
  <2> QED BY <2>1, <2>2
<1> HIDE DEF o3
<1>9. o3 \in OutType /\ Leads(o, o3, D, D)
  BY <1>7, <1>8, LeadsOn DEF Leads
<1>10. Leads(o3, p, D, D)
  <2>1. CASE released
    BY <1>2, <1>9, <2>1, FireModifiersLeads
  <2>2. CASE ~released
    BY <1>9, <2>2, LeadsNowhere
  <2> QED BY <2>1, <2>2
<1> HIDE DEF p
<1>11. Leads(o, p, D, D)
  BY <1>9, <1>10, LeadsOn
<1> QED
  BY <1>1, <1>11

\* Events that are no modifiers and no presses fit under any flags.
LEMMA FlagsLeadIdle ==
    ASSUME NEW t \in Seq(EventType), NEW r,
           \A i \in 1..Len(t) : t[i].class # "modify" /\ ~(t[i].class = "key" /\ t[i].down)
    PROVE  FlagsLead(t, r, r)
<1>1. Len(t) \in Nat
  BY LenProperties
<1>2. ASSUME NEW i \in 1..(Len(t) + 1)
      PROVE  FlagsAt(t, r, i) = r
  <2>1. i \in Nat \ {0} /\ 0 \in 0..(i - 1)
    BY <1>1
  <2>2. \A j \in 1..(i - 1) : t[j] \notin Modifies
    BY <1>1 DEF Modifies
  <2>3. LastIn(t, Modifies, i) = 0
    BY <2>1, <2>2, LastInIs
  <2> QED BY <2>3 DEF FlagsAt
<1>3. \A i \in 1..Len(t) : EventFits(t[i], FlagsAt(t, r, i))
  BY DEF EventFits
<1>4. Len(t) + 1 \in 1..(Len(t) + 1)
  BY <1>1
<1> QED
  BY <1>2, <1>3, <1>4 DEF FlagsLead

\* PressDownKeys::clear: every listed key is released.
LEMMA PressDownKeysClearLeads ==
    ASSUME NEW o \in OutType, NEW D
    PROVE  Leads(o, PressDownKeysClear(o), D, D)
<1> DEFINE p == PressDownKeysClear(o)
           n == Len(o.pressed)
           t == [i \in 1..n |-> KeyEvent(o.pressed[i], FALSE, {})]
<1>1. /\ o.queue \in Seq(EventType) /\ o.pressed \in Seq(Keys) /\ n \in Nat /\ DOMAIN o.pressed = 1..n
      /\ \A i \in 1..n : o.pressed[i] \in Keys
  BY OutFields, LenProperties, ElementOfSeq
<1>2. \A i \in 1..n : KeyEvent(o.pressed[i], FALSE, {}) \in EventType
  BY <1>1, EventsTyped
<1>3. t \in [1..n -> EventType]
  BY <1>2
<1>4. \A i \in 1..n : t[i].class = "key" /\ t[i].key = o.pressed[i] /\ t[i].down = FALSE
  BY DEF KeyEvent, Event
<1>5. p = [o EXCEPT !.pressed = << >>, !.queue = o.queue \o t]
  BY <1>1 DEF PressDownKeysClear, OutType
<1> HIDE DEF t, p
<1>6. t \in Seq(EventType) /\ Len(t) = n
  BY <1>1, <1>3, FunctionIsSeq
<1>7. o.queue \o t \in Seq(EventType)
  BY <1>1, <1>6, ConcatProperties
<1>8. /\ p \in OutType /\ p.queue = o.queue \o t /\ p.last = o.last
      /\ p.pressed = << >> /\ p.buttons = o.buttons
  <2>1. << >> \in Seq(Keys)
    BY EmptySeq
  <2> QED BY <1>5, <1>7, <2>1 DEF OutType
<1>9. Grown(o, p)
  BY <1>6, <1>8 DEF Grown
<1>10. FlagsLead(t, o.last \ {NUMPAD}, o.last \ {NUMPAD})
  <2>1. \A i \in 1..Len(t) : t[i].class # "modify" /\ ~(t[i].class = "key" /\ t[i].down)
    BY <1>4, <1>6
  <2> QED BY <1>6, <2>1, FlagsLeadIdle
<1>11. ASSUME NEW rc, InStep(o, rc, D)
       PROVE  InStep(p, rc, D)
  <2>1. FlagsOK(p, rc)
    BY <1>1, <1>6, <1>8, <1>10, <1>11, FlagsLeadConcat DEF InStep, FlagsOK
  <2>2. ASSUME NEW k \in Keys \ {Drop.key}
        PROVE  KeyOK(p, rc, D, k)
    <3>1. KeyOK(o, rc, D, k)
      BY <1>11 DEF InStep, KeysOK
    <3>2. CASE Listed(o, k)
      <4>1. \E i \in 1..Len(t) : t[i] \in KeysOf(k)
        <5>1. PICK i \in 1..n : o.pressed[i] = k
          BY <3>2 DEF Listed
        <5>2. t[i] \in EventType /\ t[i].class = "key" /\ t[i].key = k
          BY <1>3, <1>4, <5>1
        <5> QED BY <1>6, <5>2 DEF KeysOf
      <4>2. PICK m \in 1..Len(t) : t[m] \in KeysOf(k) /\ KeyAt(o.queue \o t, rc.keys, k) = t[m].down
        <5>1. t \in Seq(EventType)
          BY <1>6
        <5> QED BY <1>1, <5>1, <4>1, KeyAtSome
      <4>3. ~KeyAt(p.queue, rc.keys, k)
        BY <1>4, <1>6, <1>8, <4>2
      <4>4. ~Listed(p, k)
        BY <1>8 DEF Listed
      <4> QED BY <4>3, <4>4 DEF KeyOK
    <3>3. CASE ~Listed(o, k)
      <4>1. \A i \in 1..Len(t) : t[i] \notin KeysOf(k)
        BY <1>4, <1>6, <3>3 DEF KeysOf, Listed
      <4>2. KeyAt(o.queue \o t, rc.keys, k) = KeyAt(o.queue, rc.keys, k)
        BY <1>1, <1>6, <4>1, KeyAtPast
      <4>3. ~Listed(p, k)
        BY <1>8 DEF Listed
      <4> QED BY <1>8, <3>1, <3>3, <4>2, <4>3 DEF KeyOK
    <3> QED BY <3>2, <3>3
  <2>3. \A i \in 1..Len(t) : t[i] \notin Points
    BY <1>4, <1>6 DEF Points
  <2>4. ButtonsAt(o.queue \o t, rc.buttons) = ButtonsAt(o.queue, rc.buttons)
    BY <1>1, <1>6, <2>3, ButtonsAtPast
  <2>5. ButtonsOK(p, rc)
    BY <1>8, <1>11, <2>4 DEF InStep, ButtonsOK
  <2> QED BY <2>1, <2>2, <2>5 DEF InStep, KeysOK
<1>12. Leads(o, p, D, D)
  BY <1>8, <1>9, <1>11 DEF Leads
<1> QED
  BY <1>12 DEF p

\* The items of KeyboardRepeat::queue_: a key repeats only while it is held.
ItemType == [class : {"key", "tap", "consumer"}, key : Keys \cup Consumers, flags : SUBSET Flags]

Repeats(x, repeat, D) ==
    /\ x.class \in {"key", "tap"} => x.key \in Keys
    /\ x.class = "consumer" => x.key \in Consumers
    /\ x.class = "key" /\ repeat => x.key \in D

\* What an item of a repetition requests.
LEMMA FireRepeatItemLeads ==
    ASSUME NEW o \in OutType, NEW x \in ItemType, NEW repeat \in BOOLEAN, NEW F \in SUBSET Flags, NEW D,
           Repeats(x, repeat, D)
    PROVE  Leads(o, FireRepeatItem(o, x, repeat, F), D, D)
<1>1. x.class \in {"key", "tap", "consumer"} /\ x.flags \in SUBSET Flags
  BY DEF ItemType
<1>2. CASE x.class = "key"
  <2>1. FireRepeatItem(o, x, repeat, F) = FireKeyDown(o, x.key, x.flags, "down", repeat)
    BY <1>2 DEF FireRepeatItem
  <2>2. x.key \in Keys /\ (repeat => x.key \in D)
    BY <1>2 DEF Repeats
  <2> QED BY <1>1, <2>1, <2>2, FireKeyDownLeads
<1>3. CASE x.class = "tap"
  <2>1. FireRepeatItem(o, x, repeat, F) = FireDownUp(o, x.key, x.flags, "down")
    BY <1>3 DEF FireRepeatItem
  <2>2. x.key \in Keys
    BY <1>3 DEF Repeats
  <2> QED BY <1>1, <2>1, <2>2, FireDownUpLeads
<1>4. CASE x.class = "consumer"
  <2>1. FireRepeatItem(o, x, repeat, F) = FireConsumer(o, x.key, TRUE, F, "down")
    BY <1>4 DEF FireRepeatItem
  <2>2. x.key \in Consumers
    BY <1>4 DEF Repeats
  <2> QED BY <2>1, <2>2, FireConsumerLeads
<1> QED
  BY <1>1, <1>2, <1>3, <1>4

TimerType == [on : BOOLEAN, ms : Nat, paced : BOOLEAN]
RepType   == [source : Sources \cup {NoKey}, items : Seq(ItemType), on : BOOLEAN, id : 0..MAX_KEYBOARDREPEATID]
SentType  == [class : Classes \cup {"none"}, click : BOOLEAN]

Typed ==
    /\ out \in OutType /\ timer \in TimerType
    /\ previousButtons_ \subseteq Buttons /\ dropped_ \in BOOLEAN
    /\ rep \in RepType
    /\ keyboardRepeatID_ \in [Macros -> {-1} \cup 0..MAX_KEYBOARDREPEATID]
    /\ receiver \in RecvType /\ sent \in SentType
    /\ down \subseteq Sources

\* What KeyboardRepeat repeats: a key or a consumer key that is held, or the
\* two keys of a KeyToKey item that is held and knows the id of the repetition.
RepeatsKey(r) ==
    /\ r.source \in Keys /\ Len(r.items) = 1
    /\ r.items[1].class = "key" /\ r.items[1].key = r.source
RepeatsConsumer(r) ==
    /\ r.source \in Consumers /\ Len(r.items) = 1
    /\ r.items[1].class = "consumer" /\ r.items[1].key = r.source
RepeatsMacro(r, id) ==
    /\ r.source \in Macros /\ Len(r.items) = 2 /\ r.id = id[r.source]
    /\ \A i \in 1..2 : r.items[i].class = "tap" /\ r.items[i].key \in Keys

RepeatsHeld(r, id, D) ==
    r.on => r.source \in D /\ (RepeatsKey(r) \/ RepeatsConsumer(r) \/ RepeatsMacro(r, id))

\* The inductive invariant.
IInv ==
    /\ Typed /\ TimerArmed
    /\ RepeatsHeld(rep, keyboardRepeatID_, down)
    /\ InStep(out, receiver, down)

\* Typed is TypeOK.
LEMMA TypedIsTypeOK == Typed <=> TypeOK
BY DEF Typed, TypeOK, OutType, TimerType, RepType, SentType, RecvType, ItemType, FlagSet

-----------------------------------------------------------------------------
(* Requests *)

\* A request that leads from out to p with E held afterwards: what holds of the
\* output holds after it, and a request that pushes an event starts the timer.
LEMMA RequestedKeeps ==
    ASSUME Typed, TimerArmed, InStep(out, receiver, down), NEW p, NEW E, Leads(out, p, down, E), Requested(p)
    PROVE  /\ out' \in OutType /\ timer' \in TimerType /\ InStep(out', receiver', E)
           /\ TimerArmed'
           /\ previousButtons_' = previousButtons_ /\ dropped_' = dropped_
           /\ receiver' = receiver /\ sent' = sent
<1>1. /\ out' = p /\ previousButtons_' = previousButtons_ /\ dropped_' = dropped_
      /\ receiver' = receiver /\ sent' = sent
      /\ timer' = IF timer.on \/ p.queue = out.queue THEN timer ELSE [on |-> TRUE, ms |-> 0, paced |-> FALSE]
  BY DEF Requested
<1>2. p \in OutType /\ InStep(p, receiver, E)
  BY DEF Leads
<1>3. timer' \in TimerType
  BY <1>1 DEF Typed, TimerType
<1>4. TimerArmed'
  <2>1. PICK t \in Seq(EventType) : p.queue = out.queue \o t
    BY DEF Leads, Grown
  <2>2. out.queue \in Seq(EventType) /\ timer.on \in BOOLEAN
    BY OutFields DEF Typed, TimerType
  <2>3. CASE timer.on
    <3>1. out.queue # << >> /\ timer' = timer
      BY <1>1, <2>3 DEF TimerArmed
    <3>2. p.queue # << >>
      BY <2>1, <2>2, <3>1, ConcatProperties, EmptySeq, LenProperties
    <3> QED BY <1>1, <2>3, <3>1, <3>2 DEF TimerArmed
  <2>4. CASE ~timer.on /\ p.queue = out.queue
    BY <1>1, <2>4 DEF TimerArmed
  <2>5. CASE ~timer.on /\ p.queue # out.queue
    BY <1>1, <2>5 DEF TimerArmed
  <2> QED BY <2>2, <2>3, <2>4, <2>5
<1> QED
  BY <1>1, <1>2, <1>3, <1>4

-----------------------------------------------------------------------------
(* KeyboardRepeat *)

\* succID stays in range.
LEMMA SuccIDInRange ==
    ASSUME NEW id \in 0..MAX_KEYBOARDREPEATID
    PROVE  SuccID(id) \in 0..MAX_KEYBOARDREPEATID
BY OutputAssumption DEF SuccID

\* cancel stops the repetition.
LEMMA CancelStops ==
    ASSUME NEW r \in RepType
    PROVE  Cancel(r) \in RepType /\ ~Cancel(r).on
<1>1. r.id \in 0..MAX_KEYBOARDREPEATID
  BY DEF RepType
<1>2. SuccID(r.id) \in 0..MAX_KEYBOARDREPEATID /\ << >> \in Seq(ItemType)
  BY <1>1, SuccIDInRange, EmptySeq
<1> QED
  BY <1>2 DEF Cancel, RepType

\* primitive_start starts one of the items given.
LEMMA StartStarts ==
    ASSUME NEW r \in RepType, NEW source \in Sources, NEW items \in Seq(ItemType)
    PROVE  /\ Start(r, source, items) \in RepType /\ Start(r, source, items).on
           /\ Start(r, source, items).source = source /\ Start(r, source, items).items = items
<1>1. r.id \in 0..MAX_KEYBOARDREPEATID
  BY DEF RepType
<1>2. SuccID(r.id) \in 0..MAX_KEYBOARDREPEATID
  BY <1>1, SuccIDInRange
<1> QED
  BY <1>2 DEF Start, RepType

\* The items of one key, and those of a macro.
LEMMA RepeatItems ==
    /\ \A k \in Keys, F \in SUBSET Flags : RepeatItem("key", k, F) \in ItemType
    /\ \A k \in Keys, F \in SUBSET Flags : RepeatItem("tap", k, F) \in ItemType
    /\ \A c \in Consumers, F \in SUBSET Flags : RepeatItem("consumer", c, F) \in ItemType
BY DEF RepeatItem, ItemType

-----------------------------------------------------------------------------
(* The actions keep the invariant *)

\* An action that requests something keeps the invariant, and appends to the queue.
Kept == IInv' /\ \E p : Grown(out, p) /\ Requested(p)

\* Actions that request something and leave the repetition and what is held alone.
LEMMA RequestKeeps ==
    ASSUME IInv, NEW p, Leads(out, p, down, down), Requested(p),
           UNCHANGED <<rep, keyboardRepeatID_, down>>
    PROVE  Kept
<1>1. /\ Typed /\ TimerArmed /\ InStep(out, receiver, down) /\ RepeatsHeld(rep, keyboardRepeatID_, down)
  BY DEF IInv
<1>2. /\ out' \in OutType /\ timer' \in TimerType /\ InStep(out', receiver', down)
      /\ TimerArmed'
      /\ previousButtons_' = previousButtons_ /\ dropped_' = dropped_
      /\ receiver' = receiver /\ sent' = sent
  BY <1>1, RequestedKeeps
<1>3. Typed'
  BY <1>1, <1>2 DEF Typed
<1>4. InStep(out', receiver', down') /\ RepeatsHeld(rep', keyboardRepeatID_', down')
  BY <1>1, <1>2
<1>5. Grown(out, p)
  BY DEF Leads
<1> QED
  BY <1>2, <1>3, <1>4, <1>5 DEF IInv, Kept

\* Actions that request something and change the repetition.
LEMMA RequestAndRepeatKeeps ==
    ASSUME IInv, NEW p, Leads(out, p, down, down'), Requested(p), rep' \in RepType, down' \subseteq Sources,
           keyboardRepeatID_' \in [Macros -> {-1} \cup 0..MAX_KEYBOARDREPEATID],
           RepeatsHeld(rep', keyboardRepeatID_', down')
    PROVE  Kept
<1>1. /\ Typed /\ TimerArmed /\ InStep(out, receiver, down)
  BY DEF IInv
<1>2. /\ out' \in OutType /\ timer' \in TimerType /\ InStep(out', receiver', down')
      /\ TimerArmed'
      /\ previousButtons_' = previousButtons_ /\ dropped_' = dropped_
      /\ receiver' = receiver /\ sent' = sent
  <2> DEFINE E == down'
  <2>1. Leads(out, p, down, E)
    OBVIOUS
  <2> HIDE DEF E
  <2>2. /\ out' \in OutType /\ timer' \in TimerType /\ InStep(out', receiver', E)
        /\ TimerArmed'
        /\ previousButtons_' = previousButtons_ /\ dropped_' = dropped_
        /\ receiver' = receiver /\ sent' = sent
    BY <1>1, <2>1, RequestedKeeps
  <2> QED BY <2>2 DEF E
<1>3. Typed'
  BY <1>1, <1>2 DEF Typed
<1>4. Grown(out, p)
  BY DEF Leads
<1> QED
  BY <1>2, <1>3, <1>4 DEF IInv, Kept

\* A key is pressed.
LEMMA PressKeyKeeps ==
    ASSUME IInv, NEW k \in Keys, NEW F \in RequestFlags, NEW repeats \in BOOLEAN, PressKey(k, F, repeats)
    PROVE  Kept
<1> DEFINE p == FireKeyDown(out, k, F, "down", FALSE)
           items == <<RepeatItem("key", k, F)>>
<1>1. /\ out \in OutType /\ rep \in RepType /\ F \in SUBSET Flags /\ down \subseteq Sources
      /\ keyboardRepeatID_ \in [Macros -> {-1} \cup 0..MAX_KEYBOARDREPEATID]
  BY OutputAssumption DEF IInv, Typed
<1>2. /\ Requested(p) /\ down' = down \cup {k} /\ keyboardRepeatID_' = keyboardRepeatID_
      /\ rep' = IF repeats THEN Start(Cancel(rep), k, items) ELSE Cancel(rep)
  BY DEF PressKey
<1>3. Leads(out, p, down, down)
  BY <1>1, FireKeyDownLeads
<1>4. RepeatItem("key", k, F) \in ItemType
  BY <1>1, RepeatItems
<1>5. items \in Seq(ItemType) /\ Len(items) = 1 /\ items[1].class = "key" /\ items[1].key = k
  <2>1. items \in Seq(ItemType) /\ Len(items) = 1 /\ items[1] = RepeatItem("key", k, F)
    BY <1>4, OneItem
  <2> QED BY <2>1 DEF RepeatItem
<1> HIDE DEF p, items
<1>6. Leads(out, p, down, down')
  <2> DEFINE E == down'
  <2>1. down \subseteq E
    BY <1>2
  <2> HIDE DEF E
  <2>2. Leads(out, p, down, E)
    BY <1>3, <2>1, LeadsWider
  <2> QED BY <2>2 DEF E
<1>7. Cancel(rep) \in RepType /\ ~Cancel(rep).on
  BY <1>1, CancelStops
<1>8. k \in Sources /\ down' \subseteq Sources /\ k \in down'
  BY <1>1, <1>2 DEF Sources
<1>9. rep' \in RepType /\ RepeatsHeld(rep', keyboardRepeatID_', down')
  <2>1. CASE repeats
    <3>1. rep' = Start(Cancel(rep), k, items)
      BY <1>2, <2>1
    <3>2. rep' \in RepType /\ rep'.source = k /\ rep'.items = items
      BY <1>5, <1>7, <1>8, <3>1, StartStarts
    <3>3. RepeatsKey(rep')
      BY <1>5, <3>2 DEF RepeatsKey
    <3> QED BY <1>8, <3>2, <3>3 DEF RepeatsHeld
  <2>2. CASE ~repeats
    BY <1>2, <1>7, <2>2 DEF RepeatsHeld
  <2> QED BY <2>1, <2>2
<1> QED
  BY <1>1, <1>2, <1>6, <1>8, <1>9, RequestAndRepeatKeeps

\* A key is released: its repetition stops.
LEMMA ReleaseKeyKeeps ==
    ASSUME IInv, NEW k \in Keys, ReleaseKey(k)
    PROVE  Kept
<1> DEFINE p == FireKeyUp(out, k)
<1>1. /\ out \in OutType /\ rep \in RepType /\ down \subseteq Sources
      /\ keyboardRepeatID_ \in [Macros -> {-1} \cup 0..MAX_KEYBOARDREPEATID]
      /\ RepeatsHeld(rep, keyboardRepeatID_, down)
  BY DEF IInv, Typed
<1>2. /\ Requested(p) /\ down' = down \ {k} /\ keyboardRepeatID_' = keyboardRepeatID_
      /\ rep' = SetUp(rep, k)
  BY DEF ReleaseKey
<1>3. Leads(out, p, down, down \ {k})
  BY <1>1, FireKeyUpLeads
<1> HIDE DEF p
<1>4. Leads(out, p, down, down')
  BY <1>2, <1>3
<1>5. Cancel(rep) \in RepType /\ ~Cancel(rep).on
  BY <1>1, CancelStops
<1>6. rep' \in RepType /\ RepeatsHeld(rep', keyboardRepeatID_', down')
  <2>1. CASE rep' = Cancel(rep)
    BY <1>5, <2>1 DEF RepeatsHeld
  <2>2. CASE rep' # Cancel(rep)
    <3>1. rep' = rep /\ ~(Len(rep.items) = 1 /\ rep.items[1].class = "key" /\ rep.items[1].key = k)
      BY <1>2, <2>2 DEF SetUp
    <3>2. rep.on => rep.source # k
      <4>1. RepeatsKey(rep) => rep.source # k
        BY <3>1 DEF RepeatsKey
      <4>2. RepeatsConsumer(rep) \/ RepeatsMacro(rep, keyboardRepeatID_) => rep.source # k
        BY OutputAssumption DEF RepeatsConsumer, RepeatsMacro
      <4> QED BY <1>1, <4>1, <4>2 DEF RepeatsHeld
    <3> QED BY <1>1, <1>2, <3>1, <3>2 DEF RepeatsHeld
  <2> QED BY <2>1, <2>2
<1> QED
  BY <1>1, <1>2, <1>4, <1>6, RequestAndRepeatKeeps

\* A modifier goes down or up.
LEMMA ChangeModifierKeeps ==
    ASSUME IInv, NEW f, NEW F \in RequestFlags, ChangeModifier(f, F)
    PROVE  Kept
<1> DEFINE phys == IF f \in F THEN "down" ELSE "up"
           p == FireKeyModify(out, f, F, phys)
<1>1. /\ out \in OutType /\ rep \in RepType /\ F \in SUBSET Flags /\ down \subseteq Sources
      /\ keyboardRepeatID_ \in [Macros -> {-1} \cup 0..MAX_KEYBOARDREPEATID]
  BY OutputAssumption DEF IInv, Typed
<1>2. Requested(p) /\ down' = down /\ keyboardRepeatID_' = keyboardRepeatID_ /\ rep' = Cancel(rep)
  BY DEF ChangeModifier
<1> HIDE DEF phys
<1>3. Leads(out, p, down, down)
  BY <1>1, FireKeyModifyLeads
<1> HIDE DEF p
<1>4. Cancel(rep) \in RepType /\ ~Cancel(rep).on
  BY <1>1, CancelStops
<1>5. Leads(out, p, down, down')
  BY <1>2, <1>3
<1>6. rep' \in RepType /\ RepeatsHeld(rep', keyboardRepeatID_', down')
  BY <1>2, <1>4 DEF RepeatsHeld
<1> QED
  BY <1>1, <1>2, <1>5, <1>6, RequestAndRepeatKeeps

\* A consumer key goes down or up.
LEMMA ChangeConsumerKeeps ==
    ASSUME IInv, NEW c \in Consumers, NEW F \in RequestFlags, NEW isdown \in BOOLEAN,
           ChangeConsumer(c, F, isdown)
    PROVE  Kept
<1> DEFINE phys == IF isdown THEN "down" ELSE "up"
           p == FireConsumer(out, c, isdown, F, phys)
           items == <<RepeatItem("consumer", c, F)>>
<1>1. /\ out \in OutType /\ rep \in RepType /\ F \in SUBSET Flags /\ down \subseteq Sources
      /\ keyboardRepeatID_ \in [Macros -> {-1} \cup 0..MAX_KEYBOARDREPEATID]
  BY OutputAssumption DEF IInv, Typed
<1>2. /\ Requested(p) /\ keyboardRepeatID_' = keyboardRepeatID_
      /\ down' = IF isdown THEN down \cup {c} ELSE down \ {c}
      /\ rep' = IF isdown /\ c \in Repeatable THEN Start(Cancel(rep), c, items) ELSE Cancel(rep)
  BY DEF ChangeConsumer
<1>3. RepeatItem("consumer", c, F) \in ItemType
  BY <1>1, RepeatItems
<1>4. items \in Seq(ItemType) /\ Len(items) = 1 /\ items[1].class = "consumer" /\ items[1].key = c
  <2>1. items \in Seq(ItemType) /\ Len(items) = 1 /\ items[1] = RepeatItem("consumer", c, F)
    BY <1>3, OneItem
  <2> QED BY <2>1 DEF RepeatItem
<1> HIDE DEF phys, items
<1>5. Leads(out, p, down, down)
  BY <1>1, FireConsumerLeads
<1> HIDE DEF p
<1>6. Leads(out, p, down, down')
  <2>1. \A k \in Keys : k \in down => k \in down'
    BY <1>2, OutputAssumption
  <2>2. ASSUME NEW rc, InStep(p, rc, down) PROVE InStep(p, rc, down')
    BY <2>1, <2>2 DEF InStep, KeysOK, KeyOK
  <2> QED BY <1>5, <2>2 DEF Leads
<1>7. Cancel(rep) \in RepType /\ ~Cancel(rep).on
  BY <1>1, CancelStops
<1>8. c \in Sources /\ down' \subseteq Sources
  BY <1>1, <1>2 DEF Sources
<1>9. rep' \in RepType /\ RepeatsHeld(rep', keyboardRepeatID_', down')
  <2>1. CASE isdown /\ c \in Repeatable
    <3>1. rep' = Start(Cancel(rep), c, items) /\ c \in down'
      BY <1>2, <2>1
    <3>2. rep' \in RepType /\ rep'.source = c /\ rep'.items = items
      BY <1>4, <1>7, <1>8, <3>1, StartStarts
    <3>3. RepeatsConsumer(rep')
      BY <1>4, <3>2 DEF RepeatsConsumer
    <3> QED BY <3>1, <3>2, <3>3 DEF RepeatsHeld
  <2>2. CASE ~(isdown /\ c \in Repeatable)
    BY <1>2, <1>7, <2>2 DEF RepeatsHeld
  <2> QED BY <2>1, <2>2
<1> QED
  BY <1>1, <1>2, <1>6, <1>8, <1>9, RequestAndRepeatKeeps

\* The requests that touch neither the repetition nor what is held.
LEMMA PlainRequestsKeep ==
    ASSUME IInv, NEW F \in RequestFlags
    PROVE  /\ \A B \in SUBSET Buttons, moved \in BOOLEAN : ChangePointer(B, moved, F) => Kept
           /\ ScrollWheel(F) => Kept
           /\ \A k \in Keys : \A phys : Tap(k, F, phys) => Kept
<1>1. out \in OutType /\ F \in SUBSET Flags
  BY OutputAssumption DEF IInv, Typed
<1>2. ASSUME NEW B \in SUBSET Buttons, NEW moved \in BOOLEAN, ChangePointer(B, moved, F)
      PROVE  Kept
  <2> DEFINE phys == IF B \ out.buttons # {} THEN "down" ELSE "up"
             p == FireRelativePointer(out, B, moved, F, phys)
  <2>1. Requested(p) /\ UNCHANGED <<rep, keyboardRepeatID_, down>>
    BY <1>2 DEF ChangePointer
  <2> HIDE DEF phys
  <2>2. Leads(out, p, down, down)
    BY <1>1, FireRelativePointerLeads
  <2> HIDE DEF p
  <2> QED BY <2>1, <2>2, RequestKeeps
<1>3. ASSUME ScrollWheel(F) PROVE Kept
  <2> DEFINE p == FireScrollWheel(out, F)
  <2>1. Requested(p) /\ UNCHANGED <<rep, keyboardRepeatID_, down>>
    BY <1>3 DEF ScrollWheel
  <2>2. Leads(out, p, down, down)
    BY <1>1, FireScrollWheelLeads
  <2> HIDE DEF p
  <2> QED BY <2>1, <2>2, RequestKeeps
<1>6. ASSUME NEW k \in Keys, NEW phys, Tap(k, F, phys) PROVE Kept
  <2> DEFINE p == FireDownUp(out, k, F, phys)
  <2>1. Requested(p) /\ UNCHANGED <<rep, keyboardRepeatID_, down>>
    BY <1>6 DEF Tap
  <2>2. Leads(out, p, down, down)
    BY <1>1, FireDownUpLeads
  <2> HIDE DEF p
  <2> QED BY <2>1, <2>2, RequestKeeps
<1> QED
  BY <1>2, <1>3, <1>6

\* A wait is requested, or releases of modifiers are to be ignored.
LEMMA WaitOrIgnoreKeeps ==
    ASSUME IInv, FireWait \/ IgnorePhysicalUpEvent
    PROVE  Kept
<1>1. out \in OutType
  BY DEF IInv, Typed
<1>2. ASSUME FireWait PROVE Kept
  <2> DEFINE x == OtherEvent("wait")
             p == Push(out, x)
  <2>1. Requested(p) /\ UNCHANGED <<rep, keyboardRepeatID_, down>>
    BY <1>2 DEF FireWait
  <2>2. x \in EventType
    BY EventsTyped
  <2>3. x.class = "wait"
    BY DEF OtherEvent, Event
  <2> HIDE DEF x
  <2>4. Leads(out, p, down, down)
    BY <1>1, <2>2, <2>3, PushLeads
  <2> HIDE DEF p
  <2> QED BY <2>1, <2>4, RequestKeeps
<1>3. ASSUME IgnorePhysicalUpEvent PROVE Kept
  <2> DEFINE p == [out EXCEPT !.ignore = TRUE]
  <2>1. Requested(p) /\ UNCHANGED <<rep, keyboardRepeatID_, down>>
    BY <1>3 DEF IgnorePhysicalUpEvent
  <2>2. Leads(out, p, down, down)
    BY <1>1, IgnoreLeads
  <2> HIDE DEF p
  <2> QED BY <2>1, <2>2, RequestKeeps
<1> QED
  BY <1>2, <1>3

\* The two keys of a macro.
LEMMA MacroKeys ==
    ASSUME NEW m \in Macros
    PROVE  m[1].key \in Keys /\ m[1].flags \in SUBSET Flags /\ m[2].key \in Keys /\ m[2].flags \in SUBSET Flags
BY OutputAssumption

\* A KeyToKey item with two keys starts.
LEMMA PressMacroKeeps ==
    ASSUME IInv, NEW m \in Macros, NEW F \in RequestFlags, NEW repeats \in BOOLEAN, PressMacro(m, F, repeats)
    PROVE  Kept
<1> DEFINE k1 == m[1].key
           k2 == m[2].key
           F1 == F \cup m[1].flags
           F2 == F \cup m[2].flags
           p1 == FireDownUp(out, k1, F1, "down")
           p  == FireDownUp(p1, k2, F2, "down")
           items == <<RepeatItem("tap", k1, F1), RepeatItem("tap", k2, F2)>>
<1>1. /\ out \in OutType /\ rep \in RepType /\ down \subseteq Sources
      /\ keyboardRepeatID_ \in [Macros -> {-1} \cup 0..MAX_KEYBOARDREPEATID]
  BY DEF IInv, Typed
<1>2. k1 \in Keys /\ k2 \in Keys /\ F1 \in SUBSET Flags /\ F2 \in SUBSET Flags
  BY MacroKeys, OutputAssumption
<1>3. /\ Requested(p) /\ down' = down \cup {m}
      /\ rep' = IF repeats THEN Start(Cancel(rep), m, items) ELSE [Cancel(rep) EXCEPT !.items = items]
      /\ keyboardRepeatID_' = [keyboardRepeatID_ EXCEPT ![m] = IF repeats THEN rep'.id ELSE -1]
  BY DEF PressMacro
<1> HIDE DEF k1, k2, F1, F2
<1>4. RepeatItem("tap", k1, F1) \in ItemType /\ RepeatItem("tap", k2, F2) \in ItemType
  BY <1>2, RepeatItems
<1>5. /\ items \in Seq(ItemType) /\ Len(items) = 2
      /\ \A i \in 1..2 : items[i].class = "tap" /\ items[i].key \in Keys
  <2>1. items \in Seq(ItemType) /\ Len(items) = 2
    BY <1>4
  <2>2. items[1].class = "tap" /\ items[1].key = k1 /\ items[2].class = "tap" /\ items[2].key = k2
    BY DEF RepeatItem
  <2>3. \A i \in 1..2 : i = 1 \/ i = 2
    OBVIOUS
  <2> HIDE DEF items
  <2> QED BY <1>2, <2>1, <2>2, <2>3
<1>6. Leads(out, p1, down, down)
  BY <1>1, <1>2, FireDownUpLeads
<1> HIDE DEF p1, items
<1>7. p1 \in OutType
  BY <1>6 DEF Leads
<1>8. Leads(p1, p, down, down)
  BY <1>2, <1>7, FireDownUpLeads
<1> HIDE DEF p
<1>9. Leads(out, p, down, down)
  BY <1>1, <1>6, <1>8, LeadsOn
<1>10. Leads(out, p, down, down')
  <2> DEFINE E == down'
  <2>1. down \subseteq E
    BY <1>3
  <2> HIDE DEF E
  <2>2. Leads(out, p, down, E)
    BY <1>9, <2>1, LeadsWider
  <2> QED BY <2>2 DEF E
<1>11. Cancel(rep) \in RepType /\ ~Cancel(rep).on
  BY <1>1, CancelStops
<1>12. m \in Sources /\ down' \subseteq Sources /\ m \in down'
  BY <1>1, <1>3 DEF Sources
<1>13. rep' \in RepType /\ RepeatsHeld(rep', keyboardRepeatID_', down')
  <2>1. CASE repeats
    <3>1. rep' = Start(Cancel(rep), m, items)
      BY <1>3, <2>1
    <3>2. rep' \in RepType /\ rep'.source = m /\ rep'.items = items
      BY <1>5, <1>11, <1>12, <3>1, StartStarts
    <3>3. keyboardRepeatID_'[m] = rep'.id
      BY <1>1, <1>3, <2>1
    <3>4. RepeatsMacro(rep', keyboardRepeatID_')
      BY <1>5, <3>2, <3>3 DEF RepeatsMacro
    <3> QED BY <1>12, <3>2, <3>4 DEF RepeatsHeld
  <2>2. CASE ~repeats
    <3>1. rep' = [Cancel(rep) EXCEPT !.items = items]
      BY <1>3, <2>2
    <3>2. rep' \in RepType /\ ~rep'.on
      BY <1>5, <1>11, <3>1 DEF RepType
    <3> QED BY <3>2 DEF RepeatsHeld
  <2> QED BY <2>1, <2>2
<1>14. keyboardRepeatID_' \in [Macros -> {-1} \cup 0..MAX_KEYBOARDREPEATID]
  <2>1. rep'.id \in 0..MAX_KEYBOARDREPEATID
    BY <1>13 DEF RepType
  <2> QED BY <1>1, <1>3, <2>1
<1> QED
  BY <1>3, <1>10, <1>12, <1>13, <1>14, RequestAndRepeatKeeps

\* Its key goes up: its own repetition stops.
LEMMA ReleaseMacroKeeps ==
    ASSUME IInv, NEW m \in Macros, ReleaseMacro(m)
    PROVE  Kept
<1>1. /\ out \in OutType /\ rep \in RepType /\ down \subseteq Sources
      /\ keyboardRepeatID_ \in [Macros -> {-1} \cup 0..MAX_KEYBOARDREPEATID]
      /\ RepeatsHeld(rep, keyboardRepeatID_, down)
  BY DEF IInv, Typed
<1>2. /\ Requested(out) /\ down' = down \ {m} /\ keyboardRepeatID_' = keyboardRepeatID_
      /\ rep' = IF rep.id = keyboardRepeatID_[m] THEN Cancel(rep) ELSE rep
  BY DEF ReleaseMacro
<1>3. Leads(out, out, down, down)
  BY <1>1, LeadsNowhere
<1>4. Leads(out, out, down, down')
  <2>1. \A k \in Keys : k \in down => k \in down'
    BY <1>2, OutputAssumption
  <2>2. ASSUME NEW rc, InStep(out, rc, down) PROVE InStep(out, rc, down')
    BY <2>1, <2>2 DEF InStep, KeysOK, KeyOK
  <2> QED BY <1>3, <2>2 DEF Leads
<1>5. Cancel(rep) \in RepType /\ ~Cancel(rep).on
  BY <1>1, CancelStops
<1>6. rep' \in RepType /\ RepeatsHeld(rep', keyboardRepeatID_', down')
  <2>1. CASE rep.id = keyboardRepeatID_[m]
    BY <1>2, <1>5, <2>1 DEF RepeatsHeld
  <2>2. CASE rep.id # keyboardRepeatID_[m]
    <3>1. RepeatsMacro(rep, keyboardRepeatID_) => rep.source # m
      BY <2>2 DEF RepeatsMacro
    <3>2. RepeatsKey(rep) \/ RepeatsConsumer(rep) => rep.source # m
      BY OutputAssumption DEF RepeatsKey, RepeatsConsumer
    <3> QED BY <1>1, <1>2, <2>2, <3>1, <3>2 DEF RepeatsHeld
  <2> QED BY <2>1, <2>2
<1> QED
  BY <1>1, <1>2, <1>4, <1>6, RequestAndRepeatKeeps

\* resetInternalStateIfNeeded, when nothing is held.
LEMMA ResetKeeps ==
    ASSUME IInv, NEW F \in RequestFlags, Reset(F)
    PROVE  Kept
<1> DEFINE o0 == [out EXCEPT !.ignore = FALSE]
           o1 == FireModifiers(o0, "up", F)
           o2 == FireRelativePointer(o1, {}, FALSE, F, "up")
           p  == PressDownKeysClear(o2)
<1>1. /\ out \in OutType /\ rep \in RepType /\ F \in SUBSET Flags /\ down \subseteq Sources
      /\ F \in SUBSET FlagSet
      /\ keyboardRepeatID_ \in [Macros -> {-1} \cup 0..MAX_KEYBOARDREPEATID]
  BY OutputAssumption DEF IInv, Typed, FlagSet
<1>2. Requested(p) /\ rep' = Cancel(rep) /\ keyboardRepeatID_' = keyboardRepeatID_ /\ down' = down
  BY DEF Reset
<1>3. Leads(out, o0, down, down) /\ o0 \in OutType
  BY <1>1, IgnoreLeads
<1> HIDE DEF o0
<1>4. Leads(o0, o1, down, down)
  BY <1>1, <1>3, FireModifiersLeads
<1> HIDE DEF o1
<1>5. o1 \in OutType /\ Leads(out, o1, down, down)
  BY <1>1, <1>3, <1>4, LeadsOn DEF Leads
<1>6. Leads(o1, o2, down, down)
  <2>1. {} \in SUBSET Buttons
    OBVIOUS
  <2> QED BY <1>1, <1>5, <2>1, FireRelativePointerLeads
<1> HIDE DEF o2
<1>7. o2 \in OutType /\ Leads(out, o2, down, down)
  BY <1>1, <1>5, <1>6, LeadsOn DEF Leads
<1>8. Leads(o2, p, down, down)
  BY <1>7, PressDownKeysClearLeads
<1> HIDE DEF p
<1>9. Leads(out, p, down, down')
  BY <1>1, <1>2, <1>7, <1>8, LeadsOn
<1>10. Cancel(rep) \in RepType /\ ~Cancel(rep).on
  BY <1>1, CancelStops
<1>11. rep' \in RepType /\ RepeatsHeld(rep', keyboardRepeatID_', down')
  BY <1>2, <1>10 DEF RepeatsHeld
<1> QED
  BY <1>1, <1>2, <1>9, <1>11, RequestAndRepeatKeeps

\* Config::set_initialized
LEMMA SetInitializedKeeps ==
    ASSUME IInv, SetInitialized
    PROVE  IInv'
<1>1. /\ rep' = Cancel(rep)
      /\ UNCHANGED <<out, timer, previousButtons_, dropped_, keyboardRepeatID_, receiver, sent, down>>
  BY DEF SetInitialized
<1>2. rep' \in RepType /\ ~rep'.on
  BY <1>1, CancelStops DEF IInv, Typed
<1>3. Typed'
  BY <1>1, <1>2 DEF IInv, Typed
<1>4. TimerArmed'
  BY <1>1 DEF IInv, TimerArmed
<1>5. RepeatsHeld(rep', keyboardRepeatID_', down')
  BY <1>2 DEF RepeatsHeld
<1>6. InStep(out', receiver', down')
  BY <1>1 DEF IInv
<1> QED
  BY <1>3, <1>4, <1>5, <1>6 DEF IInv

\* KeyboardRepeat::fire_timer_callback
LEMMA RepeatFireKeeps ==
    ASSUME IInv, NEW F \in RequestFlags, RepeatFire(F)
    PROVE  Kept
<1> DEFINE n == Len(rep.items)
           one == n = 1
           o == FireRepeatItem(out, rep.items[1], one, F)
           p == IF one THEN o ELSE FireRepeatItem(o, rep.items[2], FALSE, F)
<1>1. /\ out \in OutType /\ rep \in RepType /\ F \in SUBSET Flags /\ rep.items \in Seq(ItemType)
      /\ RepeatsHeld(rep, keyboardRepeatID_, down)
  BY OutputAssumption DEF IInv, Typed, RepType
<1>2. rep.on /\ Requested(p) /\ UNCHANGED <<rep, keyboardRepeatID_, down>>
  BY DEF RepeatFire
<1>3. n \in {1, 2} /\ one \in BOOLEAN
  BY <1>1, <1>2 DEF RepeatsHeld, RepeatsKey, RepeatsConsumer, RepeatsMacro
<1>4. rep.items[1] \in ItemType /\ (~one => rep.items[2] \in ItemType)
  BY <1>1, <1>3, ElementOfSeq
<1>5. Repeats(rep.items[1], one, down)
  BY <1>1, <1>2 DEF RepeatsHeld, RepeatsKey, RepeatsConsumer, RepeatsMacro, Repeats
<1>6. ~one => Repeats(rep.items[2], FALSE, down)
  BY <1>1, <1>2 DEF RepeatsHeld, RepeatsKey, RepeatsConsumer, RepeatsMacro, Repeats
<1> HIDE DEF n, one
<1>7. Leads(out, o, down, down)
  BY <1>1, <1>3, <1>4, <1>5, FireRepeatItemLeads
<1> HIDE DEF o
<1>8. o \in OutType
  BY <1>7 DEF Leads
<1>9. Leads(out, p, down, down)
  <2>1. CASE one
    BY <1>7, <2>1
  <2>2. CASE ~one
    <3>1. Leads(o, FireRepeatItem(o, rep.items[2], FALSE, F), down, down)
      BY <1>1, <1>4, <1>6, <1>8, <2>2, FireRepeatItemLeads
    <3> QED BY <1>1, <1>7, <2>2, <3>1, LeadsOn
  <2> QED BY <2>1, <2>2
<1> HIDE DEF p
<1> QED
  BY <1>2, <1>9, RequestKeeps

-----------------------------------------------------------------------------
(* fire_timer_callback *)

\* The queue q instead of o.queue.
WithQueue(o, q) == [o EXCEPT !.queue = q]

\* It changes no other field.
LEMMA WithQueueFields ==
    ASSUME NEW o \in OutType, NEW q \in Seq(EventType)
    PROVE  /\ WithQueue(o, q) \in OutType /\ WithQueue(o, q).queue = q /\ WithQueue(o, q).last = o.last
           /\ WithQueue(o, q).pressed = o.pressed /\ WithQueue(o, q).buttons = o.buttons
BY DEF WithQueue, OutType

\* DropKeyAfterRemap takes out only events of its own key: what is left is in step.
LEMMA RemainingInStep ==
    ASSUME Typed, InStep(out, receiver, down)
    PROVE  Remaining \in Seq(EventType) /\ InStep(WithQueue(out, Remaining), receiver, down)
<1> DEFINE q == out.queue
           I == {i \in DOMAIN q : ~Canceled(i)}
           r == Subsequence(q, I)
<1>1. out \in OutType /\ q \in Seq(EventType) /\ DOMAIN q = 1..Len(q)
  BY OutFields, LenProperties DEF Typed
<1>2. I \in SUBSET (1..Len(q))
  BY <1>1
<1>3. \A j \in 1..Len(q) : ~(q[j].class = "key" /\ q[j].key = Drop.key) => j \in I
  BY <1>1 DEF Canceled, DropsDown, DropUp
<1>4. Remaining = r
  BY DEF Remaining
<1> HIDE DEF I
<1>5. r \in Seq(EventType)
  BY <1>1, <1>2, SubsequenceItems
<1>6. FlagsLead(r, receiver.flags, out.last \ {NUMPAD})
  <2>1. \A j \in 1..Len(q) : q[j].class = "modify" => j \in I
    BY <1>3
  <2>2. FlagsLead(q, receiver.flags, out.last \ {NUMPAD})
    BY DEF InStep, FlagsOK
  <2> HIDE DEF q
  <2> QED BY <1>1, <1>2, <2>1, <2>2, FlagsLeadSub
<1>7. ASSUME NEW k \in Keys \ {Drop.key}
      PROVE  KeyAt(r, receiver.keys, k) = KeyAt(q, receiver.keys, k)
  <2>1. \A j \in 1..Len(q) : q[j] \in KeysOf(k) => j \in I
    BY <1>3 DEF KeysOf
  <2> HIDE DEF q
  <2> QED BY <1>1, <2>1, KeyAtSub
<1>8. ButtonsAt(r, receiver.buttons) = ButtonsAt(q, receiver.buttons)
  <2>1. \A j \in 1..Len(q) : q[j] \in Points => j \in I
    BY <1>3 DEF Points
  <2> HIDE DEF q
  <2> QED BY <1>1, <2>1, ButtonsAtSub
<1> HIDE DEF r
<1> DEFINE p == WithQueue(out, r)
<1>9. p.queue = r /\ p.last = out.last /\ p.pressed = out.pressed /\ p.buttons = out.buttons
  BY <1>1, <1>5, WithQueueFields
<1> HIDE DEF p
<1>10. FlagsOK(p, receiver)
  BY <1>6, <1>9 DEF FlagsOK
<1>11. KeysOK(p, receiver, down)
  BY <1>7, <1>9 DEF InStep, KeysOK, KeyOK, Listed
<1>12. ButtonsOK(p, receiver)
  BY <1>8, <1>9 DEF InStep, ButtonsOK
<1> QED
  BY <1>4, <1>5, <1>10, <1>11, <1>12 DEF InStep, p

\* What the driver's callback makes of an event.
LEMMA ReceiveFields ==
    ASSUME receiver \in RecvType, NEW x \in EventType
    PROVE  /\ Receive(x) \in RecvType
           /\ Receive(x).flags = FlagsPast(x, receiver.flags)
           /\ Receive(x).keys = IF x.class # "key" THEN receiver.keys
                                ELSE IF x.down THEN receiver.keys \cup {x.key} ELSE receiver.keys \ {x.key}
           /\ Receive(x).buttons = IF x.class = "pointer" THEN x.buttons ELSE receiver.buttons
<1>1. /\ x.flags \ {NUMPAD} \in SUBSET Flags /\ x.buttons \in SUBSET Buttons
      /\ x.class = "key" => x.key \in Keys
  BY DEF EventType, FlagSet
<1>2. CASE x.class = "modify"
  <2>1. Receive(x) = [receiver EXCEPT !.flags = x.flags \ {NUMPAD}]
    BY <1>2 DEF Receive
  <2> QED BY <1>1, <1>2, <2>1 DEF RecvType, FlagsPast
<1>3. CASE x.class = "key"
  <2>1. Receive(x) = [receiver EXCEPT !.keys = IF x.down THEN @ \cup {x.key} ELSE @ \ {x.key}]
    BY <1>3 DEF Receive
  <2> QED BY <1>1, <1>3, <2>1 DEF RecvType, FlagsPast
<1>4. CASE x.class = "pointer"
  <2>1. Receive(x) = [receiver EXCEPT !.buttons = x.buttons]
    BY <1>4 DEF Receive
  <2> QED BY <1>1, <1>4, <2>1 DEF RecvType, FlagsPast
<1>5. CASE x.class \notin {"modify", "key", "pointer"}
  <2>1. Receive(x) = receiver
    BY <1>5 DEF Receive
  <2> QED BY <1>5, <2>1 DEF FlagsPast
<1> QED
  BY <1>2, <1>3, <1>4, <1>5

\* A delivered event leaves the rest in step with the receiver.
LEMMA DeliveredInStep ==
    ASSUME NEW o \in OutType, receiver \in RecvType, NEW D, NEW q \in Seq(EventType), q # << >>,
           InStep(WithQueue(o, q), receiver, D)
    PROVE  InStep(WithQueue(o, Tail(q)), Receive(Head(q)), D)
<1> DEFINE x == Head(q)
           t == Tail(q)
           s == WithQueue(o, q)
           p == WithQueue(o, t)
           rc == Receive(x)
<1>1. x \in EventType /\ t \in Seq(EventType) /\ x = q[1]
  BY HeadTailProperties
<1>2. s.queue = q /\ s.last = o.last /\ s.pressed = o.pressed /\ s.buttons = o.buttons
  BY WithQueueFields
<1>3. p.queue = t /\ p.last = o.last /\ p.pressed = o.pressed /\ p.buttons = o.buttons
  BY <1>1, WithQueueFields
<1>4. /\ rc.flags = FlagsPast(x, receiver.flags)
      /\ rc.keys = IF x.class # "key" THEN receiver.keys
                   ELSE IF x.down THEN receiver.keys \cup {x.key} ELSE receiver.keys \ {x.key}
      /\ rc.buttons = IF x.class = "pointer" THEN x.buttons ELSE receiver.buttons
  BY <1>1, ReceiveFields
<1> HIDE DEF s, p, rc
<1>5. FlagsOK(p, rc)
  <2>1. FlagsLead(q, receiver.flags, o.last \ {NUMPAD})
    BY <1>2 DEF InStep, FlagsOK, s
  <2>2. FlagsLead(t, FlagsPast(x, receiver.flags), o.last \ {NUMPAD})
    BY <2>1, FlagsLeadTail
  <2> QED BY <1>3, <1>4, <2>2 DEF FlagsOK
<1>6. ASSUME NEW k
      PROVE  KeyAt(q, receiver.keys, k) = KeyAt(t, rc.keys, k)
  <2> DEFINE R1 == IF q[1].class # "key" THEN receiver.keys
                   ELSE IF q[1].down THEN receiver.keys \cup {q[1].key} ELSE receiver.keys \ {q[1].key}
  <2>1. KeyAt(q, receiver.keys, k) = KeyAt(Tail(q), R1, k)
    BY KeyAtTail
  <2>2. rc.keys = R1
    BY <1>1, <1>4
  <2> HIDE DEF R1
  <2> QED BY <2>1, <2>2
<1>7. KeysOK(p, rc, D)
  <2>1. KeysOK(s, receiver, D)
    BY DEF InStep, s
  <2> QED BY <1>2, <1>3, <1>6, <2>1 DEF KeysOK, KeyOK, Listed
<1>8. ButtonsOK(p, rc)
  <2>1. ButtonsAt(q, receiver.buttons) = ButtonsAt(t, rc.buttons)
    BY <1>1, <1>4, ButtonsAtTail
  <2>2. ButtonsAt(q, receiver.buttons) = o.buttons
    BY <1>2 DEF InStep, ButtonsOK, s
  <2> QED BY <1>3, <2>1, <2>2 DEF ButtonsOK
<1> QED
  BY <1>5, <1>7, <1>8 DEF InStep, p, rc

\* The types of what the callback computes.
LEMMA DeliveryTypes ==
    ASSUME Typed, NEW x \in EventType, NEW b \in SUBSET Buttons
    PROVE  /\ CalcDelay(x, b) \in Nat /\ LeastDelay(x) \in Nat
           /\ ButtonsAfter(x, b) \in SUBSET Buttons
           /\ [class |-> x.class, click |-> x.class = "pointer" /\ x.buttons # receiver.buttons] \in SentType
<1>1. x.class \in Classes /\ x.buttons \in SUBSET Buttons
  BY DEF EventType
<1>2. CalcDelay(x, b) \in Nat
  BY OutputAssumption DEF CalcDelay
<1>3. LeastDelay(x) \in Nat
  BY OutputAssumption DEF LeastDelay
<1>4. ButtonsAfter(x, b) \in SUBSET Buttons
  BY <1>1 DEF ButtonsAfter
<1> QED
  BY <1>1, <1>2, <1>3, <1>4 DEF SentType

\* dropped_ stays a Boolean.
LEMMA DroppedTyped ==
    ASSUME Typed
    PROVE  DroppedAt(Len(out.queue) + 1) \in BOOLEAN
BY DEF Typed, DroppedAt, DropsDown

\* The callback finds every event canceled.
LEMMA AllCanceledKeeps ==
    ASSUME IInv, AllCanceled
    PROVE  IInv'
<1>1. Typed /\ InStep(out, receiver, down) /\ out \in OutType
  BY DEF IInv, Typed
<1>2. /\ Remaining = << >> /\ timer' = Off /\ out' = WithQueue(out, << >>)
      /\ dropped_' = DroppedAt(Len(out.queue) + 1)
      /\ UNCHANGED <<previousButtons_, rep, keyboardRepeatID_, receiver, sent, down>>
  BY DEF AllCanceled, WithQueue
<1>3. InStep(out', receiver', down')
  BY <1>1, <1>2, RemainingInStep
<1>4. out' \in OutType /\ out'.queue = << >>
  BY <1>1, <1>2, EmptySeq, WithQueueFields
<1>5. timer' \in TimerType /\ ~timer'.on
  BY <1>2 DEF Off, TimerType
<1>6. Typed'
  <2>1. dropped_' \in BOOLEAN
    BY <1>1, <1>2, DroppedTyped
  <2> QED BY <1>1, <1>2, <1>4, <1>5, <2>1 DEF Typed
<1>7. TimerArmed'
  BY <1>4, <1>5 DEF TimerArmed
<1>8. RepeatsHeld(rep', keyboardRepeatID_', down')
  BY <1>2 DEF IInv
<1> QED
  BY <1>3, <1>6, <1>7, <1>8 DEF IInv

\* The callback delivers an event.
LEMMA DeliverKeeps ==
    ASSUME IInv, Deliver
    PROVE  IInv'
<1> DEFINE q == Remaining
           x == Head(q)
           rest == Tail(q)
           b1 == ButtonsAfter(x, previousButtons_)
           after == MaxDelay(CalcDelay(x, previousButtons_), LeastDelay(x))
<1>1. /\ Typed /\ InStep(out, receiver, down) /\ out \in OutType /\ receiver \in RecvType
      /\ previousButtons_ \in SUBSET Buttons
  BY DEF IInv, Typed
<1>2. /\ q # << >> /\ receiver' = Receive(x) /\ out' = WithQueue(out, rest)
      /\ sent' = [class |-> x.class, click |-> x.class = "pointer" /\ x.buttons # receiver.buttons]
      /\ dropped_' = DroppedAt(Len(out.queue) + 1)
      /\ UNCHANGED <<rep, keyboardRepeatID_, down>>
  BY DEF Deliver, WithQueue
<1>3. /\ rest = << >> => timer' = Off /\ previousButtons_' = b1
      /\ rest # << >> =>
            /\ timer' = [on |-> TRUE, ms |-> MaxDelay(after, CalcDelay(Head(rest), b1)), paced |-> TRUE]
            /\ previousButtons_' = ButtonsAfter(Head(rest), b1)
  BY DEF Deliver
<1>4. q \in Seq(EventType) /\ InStep(WithQueue(out, q), receiver, down)
  BY <1>1, RemainingInStep
<1> HIDE DEF q
<1>5. x \in EventType /\ rest \in Seq(EventType)
  BY <1>2, <1>4, HeadTailProperties
<1>6. InStep(WithQueue(out, rest), Receive(x), down)
  BY <1>1, <1>2, <1>4, DeliveredInStep
<1> HIDE DEF x, rest
<1>7. InStep(out', receiver', down')
  BY <1>2, <1>6
<1>8. out' \in OutType /\ out'.queue = rest
  BY <1>1, <1>2, <1>5, WithQueueFields
<1>9. b1 \in SUBSET Buttons /\ after \in Nat /\ sent' \in SentType
  BY <1>1, <1>2, <1>5, DeliveryTypes DEF MaxDelay
<1> HIDE DEF b1, after
<1>10. timer' \in TimerType /\ previousButtons_' \in SUBSET Buttons /\ (timer'.on <=> rest # << >>)
  <2>1. CASE rest = << >>
    <3>1. timer' = Off /\ previousButtons_' = b1
      BY <1>3, <2>1
    <3>2. Off \in TimerType /\ ~Off.on
      BY DEF Off, TimerType
    <3> QED BY <1>9, <2>1, <3>1, <3>2
  <2>2. CASE rest # << >>
    <3>1. Head(rest) \in EventType
      BY <1>5, <2>2, HeadTailProperties
    <3>2. CalcDelay(Head(rest), b1) \in Nat /\ ButtonsAfter(Head(rest), b1) \in SUBSET Buttons
      BY <1>1, <1>9, <3>1, DeliveryTypes
    <3>3. MaxDelay(after, CalcDelay(Head(rest), b1)) \in Nat
      BY <1>9, <3>2 DEF MaxDelay
    <3> DEFINE ms == MaxDelay(after, CalcDelay(Head(rest), b1))
    <3>4. timer' = [on |-> TRUE, ms |-> ms, paced |-> TRUE] /\ previousButtons_' = ButtonsAfter(Head(rest), b1)
      BY <1>3, <2>2
    <3> HIDE DEF ms
    <3>5. ms \in Nat
      BY <3>3 DEF ms
    <3>6. timer' \in TimerType /\ timer'.on
      BY <3>4, <3>5 DEF TimerType
    <3>7. previousButtons_' \in SUBSET Buttons
      BY <3>2, <3>4
    <3> QED BY <2>2, <3>6, <3>7
  <2> QED BY <2>1, <2>2
<1>11. Typed'
  <2>1. dropped_' \in BOOLEAN
    BY <1>1, <1>2, DroppedTyped
  <2>2. receiver' \in RecvType
    BY <1>1, <1>2, <1>5, ReceiveFields
  <2> QED BY <1>1, <1>2, <1>8, <1>9, <1>10, <2>1, <2>2 DEF Typed
<1>12. TimerArmed'
  BY <1>8, <1>10 DEF TimerArmed
<1>13. RepeatsHeld(rep', keyboardRepeatID_', down')
  BY <1>2 DEF IInv
<1> QED
  BY <1>7, <1>11, <1>12, <1>13 DEF IInv

-----------------------------------------------------------------------------
(* The invariant is inductive *)

\* It holds at first.
LEMMA InitIInv == Init => IInv
<1> SUFFICES ASSUME Init PROVE IInv
  OBVIOUS
<1>1. /\ out = [queue |-> << >>, last |-> {}, ignore |-> FALSE, pressed |-> << >>, buttons |-> {}]
      /\ timer = Off /\ previousButtons_ = {} /\ dropped_ = FALSE
      /\ rep = [source |-> NoKey, items |-> << >>, on |-> FALSE, id |-> 0]
      /\ keyboardRepeatID_ = [m \in Macros |-> -1]
      /\ receiver = [flags |-> {}, keys |-> {}, buttons |-> {}]
      /\ sent = [class |-> "none", click |-> FALSE] /\ down = {}
  BY DEF Init
<1>2. << >> \in Seq(EventType) /\ << >> \in Seq(Keys) /\ << >> \in Seq(ItemType) /\ MAX_KEYBOARDREPEATID \in Nat
  BY EmptySeq, OutputAssumption
<1>3. Typed
  <2>1. out \in OutType /\ timer \in TimerType /\ rep \in RepType
    BY <1>1, <1>2 DEF OutType, Off, TimerType, RepType
  <2>2. keyboardRepeatID_ \in [Macros -> {-1} \cup 0..MAX_KEYBOARDREPEATID]
    BY <1>1
  <2>3. receiver \in RecvType /\ sent \in SentType
    BY <1>1 DEF RecvType, SentType
  <2> QED BY <1>1, <2>1, <2>2, <2>3 DEF Typed
<1>4. TimerArmed
  BY <1>1 DEF TimerArmed, Off
<1>5. RepeatsHeld(rep, keyboardRepeatID_, down)
  BY <1>1 DEF RepeatsHeld
<1>6. InStep(out, receiver, down)
  <2>1. out.queue = << >> /\ out.last \ {NUMPAD} = {} /\ out.pressed = << >> /\ out.buttons = {}
    BY <1>1
  <2>2. receiver.flags = {} /\ receiver.keys = {} /\ receiver.buttons = {}
    BY <1>1
  <2>3. FlagsOK(out, receiver)
    BY <2>1, <2>2, FlagsLeadEmpty DEF FlagsOK
  <2>4. KeysOK(out, receiver, down)
    <3>1. ASSUME NEW k PROVE ~Listed(out, k) /\ ~KeyAt(out.queue, receiver.keys, k)
      <4>1. KeyAt(<< >>, receiver.keys, k) = (k \in receiver.keys)
        BY KeyAtEmpty
      <4>2. ~Listed(out, k)
        BY <2>1 DEF Listed
      <4> QED BY <2>1, <2>2, <4>1, <4>2
    <3> QED BY <3>1 DEF KeysOK, KeyOK
  <2>5. ButtonsOK(out, receiver)
    BY <2>1, <2>2, ButtonsAtEmpty DEF ButtonsOK
  <2> QED BY <2>3, <2>4, <2>5 DEF InStep
<1> QED
  BY <1>3, <1>4, <1>5, <1>6 DEF IInv

\* The actions that only request something.
Request ==
    \/ \E k \in Keys, F \in RequestFlags, repeats \in BOOLEAN : PressKey(k, F, repeats)
    \/ \E k \in Keys : ReleaseKey(k)
    \/ \E f \in Flags, F \in RequestFlags : ChangeModifier(f, F)
    \/ \E c \in Consumers, F \in RequestFlags, isdown \in BOOLEAN : ChangeConsumer(c, F, isdown)
    \/ \E B \in SUBSET Buttons, moved \in BOOLEAN, F \in RequestFlags : ChangePointer(B, moved, F)
    \/ \E F \in RequestFlags : ScrollWheel(F) \/ Reset(F) \/ RepeatFire(F)
    \/ FireWait \/ IgnorePhysicalUpEvent
    \/ \E m \in Macros, F \in RequestFlags, repeats \in BOOLEAN : PressMacro(m, F, repeats)
    \/ \E m \in Macros : ReleaseMacro(m)
    \/ \E k \in Keys, F \in RequestFlags, phys \in {"down", "up"} : Tap(k, F, phys)

\* Each of them keeps the invariant.
LEMMA RequestIsKept ==
    ASSUME IInv, Request
    PROVE  Kept
<1>1. ASSUME NEW k \in Keys, NEW F \in RequestFlags, NEW repeats \in BOOLEAN, PressKey(k, F, repeats)
      PROVE  Kept
  BY <1>1, PressKeyKeeps
<1>2. ASSUME NEW k \in Keys, ReleaseKey(k) PROVE Kept
  BY <1>2, ReleaseKeyKeeps
<1>3. ASSUME NEW f \in Flags, NEW F \in RequestFlags, ChangeModifier(f, F) PROVE Kept
  BY <1>3, ChangeModifierKeeps
<1>4. ASSUME NEW c \in Consumers, NEW F \in RequestFlags, NEW isdown \in BOOLEAN, ChangeConsumer(c, F, isdown)
      PROVE  Kept
  BY <1>4, ChangeConsumerKeeps
<1>5. ASSUME NEW B \in SUBSET Buttons, NEW moved \in BOOLEAN, NEW F \in RequestFlags, ChangePointer(B, moved, F)
      PROVE  Kept
  BY <1>5, PlainRequestsKeep
<1>6. ASSUME NEW F \in RequestFlags, ScrollWheel(F) PROVE Kept
  BY <1>6, PlainRequestsKeep
<1>7. ASSUME NEW F \in RequestFlags, Reset(F) PROVE Kept
  BY <1>7, ResetKeeps
<1>8. ASSUME NEW F \in RequestFlags, RepeatFire(F) PROVE Kept
  BY <1>8, RepeatFireKeeps
<1>9. ASSUME FireWait \/ IgnorePhysicalUpEvent PROVE Kept
  BY <1>9, WaitOrIgnoreKeeps
<1>10. ASSUME NEW m \in Macros, NEW F \in RequestFlags, NEW repeats \in BOOLEAN, PressMacro(m, F, repeats)
       PROVE  Kept
  BY <1>10, PressMacroKeeps
<1>11. ASSUME NEW m \in Macros, ReleaseMacro(m) PROVE Kept
  BY <1>11, ReleaseMacroKeeps
<1>12. ASSUME NEW k \in Keys, NEW F \in RequestFlags, NEW phys \in {"down", "up"}, Tap(k, F, phys) PROVE Kept
  BY <1>12, PlainRequestsKeep
<1> QED
  BY <1>1, <1>2, <1>3, <1>4, <1>5, <1>6, <1>7, <1>8, <1>9, <1>10, <1>11, <1>12 DEF Request

\* A step requests something, or is one of three others.
LEMMA StepKinds ==
    Next <=> Request \/ SetInitialized \/ AllCanceled \/ Deliver
BY DEF Next, Request

\* Every step keeps it.
LEMMA NextIInv == IInv /\ [Next]_vars => IInv'
<1> SUFFICES ASSUME IInv, [Next]_vars PROVE IInv'
  OBVIOUS
<1>1. CASE Request
  BY <1>1, RequestIsKept DEF Kept
<1>2. CASE SetInitialized
  BY <1>2, SetInitializedKeeps
<1>3. CASE AllCanceled
  BY <1>3, AllCanceledKeeps
<1>4. CASE Deliver
  BY <1>4, DeliverKeeps
<1>5. CASE UNCHANGED vars
  BY <1>5 DEF vars, IInv, Typed, TimerArmed
<1> QED
  BY <1>1, <1>2, <1>3, <1>4, <1>5, StepKinds

\* It is an invariant.
LEMMA IInvHolds == Spec => []IInv
BY InitIInv, NextIInv, PTL DEF Spec

-----------------------------------------------------------------------------
(* What it says of the state *)

\* The flags before a position are those of FlagsBefore.
LEMMA FlagsBeforeIs ==
    ASSUME Typed, NEW i \in 1..(Len(out.queue) + 1)
    PROVE  FlagsBefore(i) = FlagsAt(out.queue, receiver.flags, i)
<1>1. out.queue \in Seq(EventType) /\ Len(out.queue) \in Nat
  BY OutFields, LenProperties DEF Typed
<1>2. \A j \in 1..(i - 1) : out.queue[j] \in EventType
  BY <1>1, ElementOfSeq
<1>3. {j \in 1..(i - 1) : out.queue[j].class = "modify"} = {j \in 1..(i - 1) : out.queue[j] \in Modifies}
  BY <1>2 DEF Modifies
<1> DEFINE M == {j \in 1..(i - 1) : out.queue[j] \in Modifies}
<1>4. M # {} => LastOf(M) \in 1..(i - 1)
  <2>1. M \in SUBSET (0..(i - 1)) /\ i - 1 \in Nat /\ M \in SUBSET (1..(i - 1))
    BY <1>1
  <2> HIDE DEF M
  <2> QED BY <2>1, LastOfMax
<1>5. LastIn(out.queue, Modifies, i) = IF M = {} THEN 0 ELSE LastOf(M)
  BY DEF LastIn
<1>6. FlagsBefore(i) = IF M = {} THEN receiver.flags ELSE out.queue[LastOf(M)].flags \ {NUMPAD}
  BY <1>3 DEF FlagsBefore
<1> HIDE DEF M
<1>7. CASE M = {}
  BY <1>5, <1>6, <1>7 DEF FlagsAt
<1>8. CASE M # {}
  <2>1. LastOf(M) # 0 /\ LastIn(out.queue, Modifies, i) = LastOf(M)
    BY <1>1, <1>4, <1>5, <1>8
  <2>2. FlagsBefore(i) = out.queue[LastOf(M)].flags \ {NUMPAD}
    BY <1>6, <1>8
  <2> QED BY <2>1, <2>2 DEF FlagsAt
<1> QED
  BY <1>7, <1>8

\* The keys after the queue are those of KeyAfter.
LEMMA KeyAfterIs ==
    ASSUME Typed, NEW k
    PROVE  KeyAfter(k) = KeyAt(out.queue, receiver.keys, k)
<1> DEFINE q == out.queue
           M == {j \in 1..(Len(q) + 1 - 1) : q[j] \in KeysOf(k)}
<1>1. q \in Seq(EventType) /\ Len(q) \in Nat /\ DOMAIN q = 1..Len(q) /\ Len(q) + 1 - 1 = Len(q)
  BY OutFields, LenProperties DEF Typed
<1>2. \A j \in 1..Len(q) : q[j] \in EventType
  BY <1>1, ElementOfSeq
<1>3. {j \in DOMAIN q : q[j].class = "key" /\ q[j].key = k} = M
  BY <1>1, <1>2 DEF KeysOf
<1>4. M # {} => LastOf(M) \in 1..Len(q)
  <2>1. M \in SUBSET (0..Len(q)) /\ M \in SUBSET (1..Len(q))
    BY <1>1
  <2> HIDE DEF M
  <2> QED BY <1>1, <2>1, LastOfMax
<1>5. LastIn(q, KeysOf(k), Len(q) + 1) = IF M = {} THEN 0 ELSE LastOf(M)
  BY DEF LastIn
<1>6. KeyAfter(k) = IF M = {} THEN k \in receiver.keys ELSE q[LastOf(M)].down
  BY <1>3 DEF KeyAfter
<1> HIDE DEF M, q
<1>7. KeyAfter(k) = KeyAt(q, receiver.keys, k)
  <2>1. CASE M = {}
    BY <1>5, <1>6, <2>1 DEF KeyAt
  <2>2. CASE M # {}
    BY <1>4, <1>5, <1>6, <2>2 DEF KeyAt
  <2> QED BY <2>1, <2>2
<1> QED
  BY <1>7 DEF q

\* The buttons after the queue are those of ButtonsLater.
LEMMA ButtonsLaterIs ==
    ASSUME Typed
    PROVE  ButtonsLater = ButtonsAt(out.queue, receiver.buttons)
<1> DEFINE q == out.queue
           M == {j \in 1..(Len(q) + 1 - 1) : q[j] \in Points}
<1>1. q \in Seq(EventType) /\ Len(q) \in Nat /\ DOMAIN q = 1..Len(q) /\ Len(q) + 1 - 1 = Len(q)
  BY OutFields, LenProperties DEF Typed
<1>2. \A j \in 1..Len(q) : q[j] \in EventType
  BY <1>1, ElementOfSeq
<1>3. {j \in DOMAIN q : q[j].class = "pointer"} = M
  BY <1>1, <1>2 DEF Points
<1>4. M # {} => LastOf(M) \in 1..Len(q)
  <2>1. M \in SUBSET (0..Len(q)) /\ M \in SUBSET (1..Len(q))
    BY <1>1
  <2> HIDE DEF M
  <2> QED BY <1>1, <2>1, LastOfMax
<1>5. LastIn(q, Points, Len(q) + 1) = IF M = {} THEN 0 ELSE LastOf(M)
  BY DEF LastIn
<1>6. ButtonsLater = IF M = {} THEN receiver.buttons ELSE q[LastOf(M)].buttons
  BY <1>3 DEF ButtonsLater
<1> HIDE DEF M, q
<1>7. ButtonsLater = ButtonsAt(q, receiver.buttons)
  <2>1. CASE M = {}
    BY <1>5, <1>6, <2>1 DEF ButtonsAt
  <2>2. CASE M # {}
    BY <1>4, <1>5, <1>6, <2>2 DEF ButtonsAt
  <2> QED BY <2>1, <2>2
<1> QED
  BY <1>7 DEF q

\* The modifiers are in step.
LEMMA IInvFlags == IInv => FlagsInStep
<1> SUFFICES ASSUME IInv PROVE FlagsInStep
  OBVIOUS
<1>1. Typed /\ FlagsLead(out.queue, receiver.flags, out.last \ {NUMPAD})
  BY DEF IInv, InStep, FlagsOK
<1>2. Len(out.queue) \in Nat /\ DOMAIN out.queue = 1..Len(out.queue)
  BY <1>1, OutFields, LenProperties DEF Typed
<1>3. ASSUME NEW i \in 1..Len(out.queue) PROVE EventFits(out.queue[i], FlagsBefore(i))
  <2>1. i \in 1..(Len(out.queue) + 1)
    BY <1>2
  <2>2. FlagsBefore(i) = FlagsAt(out.queue, receiver.flags, i)
    BY <1>1, <2>1, FlagsBeforeIs
  <2>3. EventFits(out.queue[i], FlagsAt(out.queue, receiver.flags, i))
    BY <1>1 DEF FlagsLead
  <2> QED BY <2>2, <2>3
<1>4. FlagsBefore(Len(out.queue) + 1) = out.last \ {NUMPAD}
  <2>1. Len(out.queue) + 1 \in 1..(Len(out.queue) + 1)
    BY <1>2
  <2>2. FlagsBefore(Len(out.queue) + 1) = FlagsAt(out.queue, receiver.flags, Len(out.queue) + 1)
    BY <1>1, <2>1, FlagsBeforeIs
  <2> QED BY <1>1, <2>2 DEF FlagsLead
<1> QED
  BY <1>2, <1>3, <1>4 DEF FlagsInStep, EventFits

\* The keys and the buttons are in step.
LEMMA IInvKeys == IInv => KeysInStep
<1> SUFFICES ASSUME IInv PROVE KeysInStep
  OBVIOUS
<1>1. Typed /\ KeysOK(out, receiver, down) /\ ButtonsOK(out, receiver)
  BY DEF IInv, InStep
<1>2. DOMAIN out.pressed = 1..Len(out.pressed)
  BY <1>1, OutFields, LenProperties DEF Typed
<1>3. \A k : KeyAfter(k) = KeyAt(out.queue, receiver.keys, k)
  BY <1>1, KeyAfterIs
<1>4. ButtonsLater = out.buttons
  BY <1>1, ButtonsLaterIs DEF ButtonsOK
<1> QED
  BY <1>1, <1>2, <1>3, <1>4 DEF KeysInStep, KeysOK, KeyOK, Listed

\* Only what is held repeats.
LEMMA IInvRepeat == IInv => RepeatWhileHeld
<1> SUFFICES ASSUME IInv, rep.on PROVE rep.source \in down /\ rep.items # << >>
  BY DEF RepeatWhileHeld
<1>1. rep.source \in down /\ (Len(rep.items) = 1 \/ Len(rep.items) = 2)
  BY DEF IInv, RepeatsHeld, RepeatsKey, RepeatsConsumer, RepeatsMacro
<1>2. rep.items = << >> => Len(rep.items) = 0
  OBVIOUS
<1> DEFINE n == Len(rep.items)
<1>3. (n = 1 \/ n = 2) /\ (rep.items = << >> => n = 0)
  BY <1>1, <1>2
<1> HIDE DEF n
<1>4. n # 0
  BY <1>3
<1>5. rep.items # << >>
  BY <1>3, <1>4
<1> QED
  BY <1>1, <1>5

-----------------------------------------------------------------------------
(* The waits.  Without a DropKeyAfterRemap item the callback delivers what  *)
(* was the first event when it set the timer.                               *)

\* previousButtons_ is the receiver's buttons, or those the next event brings
\* if the callback has looked at it already; then the timer was set for it.
WaitInv ==
    IF timer.on /\ timer.paced
    THEN /\ previousButtons_ = ButtonsAfter(Head(out.queue), receiver.buttons)
         /\ timer.ms >= WaitBetween(sent, Head(out.queue))
    ELSE previousButtons_ = receiver.buttons

\* Without the item nothing is canceled.
LEMMA NothingCanceled ==
    ASSUME Typed, Drop.key = NoKey
    PROVE  Remaining = out.queue
<1> DEFINE I == {i \in DOMAIN out.queue : ~Canceled(i)}
<1>1. out.queue \in Seq(EventType) /\ DOMAIN out.queue = 1..Len(out.queue)
  BY OutFields, LenProperties DEF Typed
<1>2. ASSUME NEW i \in 1..Len(out.queue) PROVE i \in I
  <2>1. out.queue[i] \in EventType
    BY <1>1, ElementOfSeq
  <2>2. ~(out.queue[i].class = "key" /\ out.queue[i].key = NoKey)
    BY <2>1, OutputAssumption DEF EventType
  <2> QED BY <1>1, <2>2 DEF Canceled, DropsDown, DropUp
<1>3. Remaining = Subsequence(out.queue, I)
  BY DEF Remaining
<1> HIDE DEF I
<1> QED
  BY <1>1, <1>2, <1>3, SubsequenceAll

\* A request leaves the first event where it is.
LEMMA RequestedWaits ==
    ASSUME Typed, TimerArmed, WaitInv, NEW p, Grown(out, p), Requested(p)
    PROVE  WaitInv'
<1>1. /\ out' = p /\ previousButtons_' = previousButtons_ /\ receiver' = receiver /\ sent' = sent
      /\ timer' = IF timer.on \/ p.queue = out.queue THEN timer ELSE [on |-> TRUE, ms |-> 0, paced |-> FALSE]
  BY DEF Requested
<1>2. CASE timer.on
  <2>1. out.queue # << >> /\ timer' = timer /\ out.queue \in Seq(EventType)
    BY <1>1, <1>2, OutFields DEF TimerArmed, Typed
  <2>2. PICK t \in Seq(EventType) : p.queue = out.queue \o t
    BY DEF Grown
  <2>3. Head(p.queue) = Head(out.queue)
    <3>1. Len(out.queue) \in Nat \ {0} /\ Len(t) \in Nat
      BY <2>1, EmptySeq, LenProperties
    <3>2. p.queue \in Seq(EventType) /\ Len(p.queue) = Len(out.queue) + Len(t) /\ p.queue[1] = out.queue[1]
      BY <2>1, <2>2, <3>1, ConcatProperties
    <3>3. p.queue # << >>
      BY <3>1, <3>2, EmptySeq
    <3> QED BY <2>1, <3>2, <3>3, HeadTailProperties
  <2> QED BY <1>1, <2>1, <2>3 DEF WaitInv, WaitBetween
<1>3. CASE ~timer.on
  <2>1. ~(timer'.on /\ timer'.paced)
    BY <1>1, <1>3
  <2>2. previousButtons_ = receiver.buttons
    BY <1>3 DEF WaitInv
  <2> QED BY <1>1, <2>1, <2>2 DEF WaitInv
<1> QED
  BY <1>2, <1>3 DEF Typed, TimerType

\* The callback sets the timer to what it and the next event need.
LEMMA DeliverWaits ==
    ASSUME IInv, WaitInv, Deliver, Drop.key = NoKey
    PROVE  WaitInv'
<1> DEFINE q == out.queue
           x == Head(q)
           rest == Tail(q)
           y == Head(rest)
           b == receiver.buttons
           b1 == ButtonsAfter(x, previousButtons_)
           after == MaxDelay(CalcDelay(x, previousButtons_), LeastDelay(x))
           ms == MaxDelay(after, CalcDelay(y, b1))
<1>1. /\ Typed /\ Remaining = q /\ q \in Seq(EventType) /\ receiver \in RecvType
      /\ previousButtons_ \in SUBSET Buttons /\ out \in OutType
  BY NothingCanceled, OutFields DEF IInv, Typed
<1>2. /\ q # << >> /\ timer.on /\ receiver' = Receive(x) /\ out' = WithQueue(out, rest)
      /\ sent' = [class |-> x.class, click |-> x.class = "pointer" /\ x.buttons # receiver.buttons]
      /\ rest = << >> => timer' = Off /\ previousButtons_' = b1
      /\ rest # << >> => timer' = [on |-> TRUE, ms |-> ms, paced |-> TRUE] /\ previousButtons_' = ButtonsAfter(y, b1)
  BY <1>1 DEF Deliver, WithQueue
<1>3. x \in EventType /\ rest \in Seq(EventType)
  BY <1>1, <1>2, HeadTailProperties
<1>4. b1 = ButtonsAfter(x, b)
  BY <1>2 DEF WaitInv, ButtonsAfter
<1>5. receiver'.buttons = b1 /\ sent'.class = x.class /\ out'.queue = rest
  <2>1. Receive(x).buttons = IF x.class = "pointer" THEN x.buttons ELSE receiver.buttons
    BY <1>1, <1>3, ReceiveFields
  <2>2. WithQueue(out, rest).queue = rest
    BY <1>1, <1>3, WithQueueFields
  <2> QED BY <1>2, <1>4, <2>1, <2>2 DEF ButtonsAfter
<1>6. CalcDelay(x, previousButtons_) \in Nat /\ LeastDelay(x) \in Nat /\ b1 \in SUBSET Buttons
  BY <1>1, <1>3, DeliveryTypes
<1> HIDE DEF q, x, rest, b1
<1>7. CASE rest = << >>
  <2>1. timer' = Off /\ previousButtons_' = receiver'.buttons
    BY <1>2, <1>5, <1>7
  <2> QED BY <2>1 DEF WaitInv, Off
<1>8. CASE rest # << >>
  <2>1. y \in EventType
    BY <1>3, <1>8, HeadTailProperties
  <2>2. CalcDelay(y, b1) \in Nat
    BY <1>1, <1>6, <2>1, DeliveryTypes
  <2> HIDE DEF y
  <2>3. ms \in Nat /\ ms >= CalcDelay(x, previousButtons_) /\ ms >= LeastDelay(x) /\ ms >= CalcDelay(y, b1)
    BY <1>6, <2>2 DEF MaxDelay
  <2> HIDE DEF after, ms
  <2>4. timer' = [on |-> TRUE, ms |-> ms, paced |-> TRUE] /\ previousButtons_' = ButtonsAfter(y, b1)
    BY <1>2, <1>8
  <2>5. Head(out'.queue) = y
    BY <1>5 DEF y
  <2> DEFINE click == y.class = "pointer" /\ y.buttons # b1
             w1 == IF "modify" \in {x.class, y.class} THEN wait_before_and_after_a_modifier_key_event ELSE 0
             w2 == IF click THEN wait_before_and_after_a_click_event ELSE 0
             w  == MaxDelay(w1, MaxDelay(w2, LeastDelay(x)))
  <2>6. ms >= w1 /\ ms >= w2 /\ w1 \in Nat /\ w2 \in Nat
    <3>1. x.class = "modify" => CalcDelay(x, previousButtons_) = wait_before_and_after_a_modifier_key_event
      BY DEF CalcDelay
    <3>2. y.class = "modify" => CalcDelay(y, b1) = wait_before_and_after_a_modifier_key_event
      BY DEF CalcDelay
    <3>3. click => CalcDelay(y, b1) = wait_before_and_after_a_click_event
      BY DEF CalcDelay
    <3> QED BY <2>3, <3>1, <3>2, <3>3, OutputAssumption
  <2>7. LeastDelay(sent') = LeastDelay(x)
    BY <1>5 DEF LeastDelay
  <2>8. WaitBetween(sent, Head(out.queue))' = w
    BY <1>5, <2>5, <2>7 DEF WaitBetween
  <2> HIDE DEF w1, w2, click
  <2>9. ms >= w
    BY <1>6, <2>3, <2>6 DEF MaxDelay
  <2> HIDE DEF w
  <2>10. timer'.on /\ timer'.paced /\ timer'.ms = ms
    BY <2>4
  <2> QED BY <1>5, <2>4, <2>5, <2>8, <2>9, <2>10 DEF WaitInv
<1> QED
  BY <1>7, <1>8

\* Every step keeps it.
LEMMA NextWaitInv ==
    ASSUME Drop.key = NoKey
    PROVE  IInv /\ WaitInv /\ [Next]_vars => WaitInv'
<1> SUFFICES ASSUME IInv, WaitInv, [Next]_vars PROVE WaitInv'
  OBVIOUS
<1>1. Typed /\ TimerArmed
  BY DEF IInv
<1>2. CASE Request
  <2>1. PICK p : Grown(out, p) /\ Requested(p)
    BY <1>2, RequestIsKept DEF Kept
  <2> QED BY <1>1, <2>1, RequestedWaits
<1>3. CASE SetInitialized
  BY <1>3 DEF SetInitialized, WaitInv, WaitBetween
<1>4. CASE AllCanceled
  <2>1. timer.on /\ out.queue = << >>
    BY <1>1, <1>4, NothingCanceled DEF AllCanceled
  <2> QED BY <1>1, <2>1 DEF TimerArmed
<1>5. CASE Deliver
  BY <1>5, DeliverWaits
<1>6. CASE UNCHANGED vars
  BY <1>6 DEF vars, WaitInv, WaitBetween
<1> QED
  BY <1>2, <1>3, <1>4, <1>5, <1>6, StepKinds

-----------------------------------------------------------------------------
(* Theorems *)

\* Every variable of the output queue keeps its type, whatever is requested:
\* each pushed event is one the drivers can take, PressDownKeys lists keys, and
\* the id of KeyboardRepeat wraps.
THEOREM TypeCorrect == Spec => []TypeOK
<1>1. IInv => TypeOK
  BY TypedIsTypeOK DEF IInv
<1> QED
  BY <1>1, IInvHolds, PTL

\* fire_timer_ is never lost: it is active exactly while queue_ holds events.
THEOREM NoLostTimer == Spec => []TimerArmed
<1>1. IInv => TimerArmed
  BY DEF IInv
<1> QED
  BY <1>1, IInvHolds, PTL

\* FireModifiers never gets out of step with the receiver: every modifier event
\* of queue_ changes its own flag only, every press comes under the receiver's
\* flags, and the queue ends with lastFlags_.
THEOREM ModifiersInStep == Spec => []FlagsInStep
BY IInvFlags, IInvHolds, PTL

\* No key or button is stuck: what is down at the receiver after queue_ is in
\* PressDownKeys or held, PressDownKeys lists only what is down, and the buttons
\* are lastButtons_.
THEOREM NothingStuck == Spec => []KeysInStep
BY IInvKeys, IInvHolds, PTL

\* KeyboardRepeat never runs away: it repeats only what is held.
THEOREM NoRunaway == Spec => []RepeatWhileHeld
BY IInvRepeat, IInvHolds, PTL

\* Without a DropKeyAfterRemap item the receiver gets the wait it needs between
\* two events that fire_timer_callback delivers, whatever the Fire* classes push
\* in between.  (With one, a later scan may cancel the event the timer was set
\* for, and the wait is the canceled event's.)
THEOREM WaitsKept ==
    ASSUME Drop.key = NoKey
    PROVE  Spec => []WaitKept
<1>1. Init => WaitInv
  BY DEF Init, WaitInv, Off
<1>2. IInv /\ WaitInv /\ [Next]_vars => WaitInv'
  BY NextWaitInv
<1>3. IInv /\ WaitInv => WaitKept
  <2>1. SUFFICES ASSUME IInv, WaitInv PROVE WaitKept
    OBVIOUS
  <2>2. Remaining = out.queue
    BY <2>1, NothingCanceled DEF IInv
  <2> QED BY <2>1, <2>2 DEF WaitInv, WaitKept
<1> QED
  BY <1>1, <1>2, <1>3, IInvHolds, PTL DEF Spec
=============================================================================
