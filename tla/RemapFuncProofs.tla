-------------------------- MODULE RemapFuncProofs ---------------------------
(***************************************************************************)
(* Contracts of the remap functions, for every configuration: what each    *)
(* keeps of the state of the kernel extension.                             *)
(*                                                                         *)
(* Goes(w, v) is the contract of everything that only sends: it keeps the  *)
(* types, the items, and what is left of each count of FlagStatus and      *)
(* ButtonStatus once what the pressed KeyToKeys add and withhold is taken  *)
(* off (SameExcess). Turned(w, v, id, down) is that of KeyToKey::remap:    *)
(* the same is left, although the KeyToKey is pressed once more or once    *)
(* less. Works, Ticks and Turns are what a step of one item of a period    *)
(* keeps, which takes modifiers away and gives them back, Steps and Rests  *)
(* what a step of one item of any function keeps. Builders at the          *)
(* beginning show that Item::add builds only items that the rest can rely  *)
(* on.                                                                     *)
(***************************************************************************)
EXTENDS Remapper, SubsequencesProofs, FiniteSetTheorems, TLAPS

-----------------------------------------------------------------------------
(* Sums over finite sets *)

\* The element that a sum takes first.
First(S) == CHOOSE x \in S : TRUE

\* g is what the recursion of SumFunction computes, for the subsets of D.
IsSum(g, F, D) == g = [S \in D |-> IF S = {} THEN 0 ELSE F[First(S)] + g[S \ {First(S)}]]

Small(T, n) == {S \in SUBSET T : Cardinality(S) <= n}

\* A finite set that is not empty has a first member, and is one smaller
\* without it.
LEMMA Smaller ==
    ASSUME NEW T, IsFiniteSet(T), NEW S \in SUBSET T, S # {}
    PROVE  /\ First(S) \in S /\ S \ {First(S)} \in SUBSET T
           /\ Cardinality(S) \in Nat /\ Cardinality(S \ {First(S)}) = Cardinality(S) - 1
<1>1. First(S) \in S
  BY DEF First
<1>2. IsFiniteSet(S)
  BY FS_Subset
<1>3. Cardinality(S) \in Nat
  BY <1>2, FS_CardinalityType
<1>4. Cardinality(S \ {First(S)}) = Cardinality(S) - 1
  BY <1>1, <1>2, FS_RemoveElement
<1> QED
  BY <1>1, <1>3, <1>4

\* The sum of the values of a function exists for the small subsets of a
\* finite set: by induction over their size.
LEMMA SumExists ==
    ASSUME NEW T, IsFiniteSet(T), NEW F, NEW n \in Nat
    PROVE  \E g : IsSum(g, F, Small(T, n))
<1> DEFINE Bad == {m \in Nat : ~\E g : IsSum(g, F, Small(T, m))}
           Value(g, S) == IF S = {} THEN 0 ELSE F[First(S)] + g[S \ {First(S)}]
<1>1. SUFFICES Bad = {}
  BY <1>1
<1>2. SUFFICES ASSUME Bad # {}
               PROVE  FALSE
  OBVIOUS
<1>3. PICK m \in Bad : \A k \in Bad : m <= k
  <2>1. Bad \subseteq Nat
    OBVIOUS
  <2> HIDE DEF Bad
  <2> QED BY <1>2, <2>1, Least, Zenon
<1>4. \A S \in SUBSET T : Cardinality(S) \in Nat /\ (Cardinality(S) = 0 => S = {})
  <2>1. SUFFICES ASSUME NEW S \in SUBSET T
                 PROVE  Cardinality(S) \in Nat /\ (Cardinality(S) = 0 => S = {})
    OBVIOUS
  <2>2. IsFiniteSet(S)
    BY FS_Subset
  <2> QED BY <2>2, FS_CardinalityType, FS_EmptySet
<1>5. m # 0
  <2>1. \A S \in Small(T, 0) : S = {}
    BY <1>4 DEF Small
  <2>2. IsSum([S \in Small(T, 0) |-> 0], F, Small(T, 0))
    BY <2>1 DEF IsSum
  <2> QED BY <2>2
<1>6. m - 1 \in Nat /\ m - 1 \notin Bad
  BY <1>3, <1>5
<1>7. PICK g : IsSum(g, F, Small(T, m - 1))
  BY <1>6
<1> DEFINE h == [S \in Small(T, m) |-> Value(g, S)]
<1>8. g = [S \in Small(T, m - 1) |-> Value(g, S)]
  BY <1>7, Zenon DEF IsSum
<1>9. \A S \in Small(T, m - 1) : S \in Small(T, m) /\ g[S] = Value(g, S)
  <2>1. Small(T, m - 1) \subseteq Small(T, m)
    BY <1>3, <1>4 DEF Small
  <2> HIDE DEF Value
  <2> QED BY <2>1, <1>8
<1>10. \A S \in Small(T, m - 1) : h[S] = g[S]
  BY <1>9
<1>11. \A S \in Small(T, m) : S # {} => S \ {First(S)} \in Small(T, m - 1)
  <2>1. SUFFICES ASSUME NEW S \in Small(T, m), S # {}
                 PROVE  S \ {First(S)} \in Small(T, m - 1)
    OBVIOUS
  <2>2. S \in SUBSET T /\ Cardinality(S) <= m
    BY DEF Small
  <2> QED BY <2>1, <2>2, <1>3, Smaller DEF Small
<1>12. \A S \in Small(T, m) : h[S] = Value(h, S)
  <2>1. SUFFICES ASSUME NEW S \in Small(T, m)
                 PROVE  Value(h, S) = Value(g, S)
    BY <2>1
  <2>2. S # {} => h[S \ {First(S)}] = g[S \ {First(S)}]
    <3> HIDE DEF h
    <3> QED BY <1>10, <1>11
  <2> HIDE DEF h
  <2> QED BY <2>2
<1>13. h = [S \in Small(T, m) |-> Value(h, S)]
  <2>1. h = [S \in Small(T, m) |-> h[S]]
    OBVIOUS
  <2> HIDE DEF h, Value
  <2> QED BY <2>1, <1>12
<1>14. IsSum(h, F, Small(T, m))
  <2> HIDE DEF h
  <2> QED BY <1>13, Zenon DEF IsSum
<1> QED
  BY <1>14, <1>3

\* The sum as it is taken: g[S] is the sum over S.
Adds(g, F, T) ==
    /\ g[{}] = 0
    /\ \A S \in SUBSET T : S # {} => g[S] = F[First(S)] + g[S \ {First(S)}]
    /\ SumFunction(F) = g[T]

\* SumFunction of the community modules is the recursion that adds the value
\* of the first member, on every finite domain.
LEMMA SumAdds ==
    ASSUME NEW T, IsFiniteSet(T), NEW F, DOMAIN F = T
    PROVE  \E g : Adds(g, F, T)
<1>1. Small(T, Cardinality(T)) = SUBSET T
  <2>1. \A S \in SUBSET T : Cardinality(S) <= Cardinality(T)
    BY FS_Subset
  <2> QED BY <2>1 DEF Small
<1>2. Cardinality(T) \in Nat
  BY FS_CardinalityType
<1> DEFINE g == CHOOSE u : IsSum(u, F, SUBSET T)
<1>3. IsSum(g, F, SUBSET T)
  <2>1. \E u : IsSum(u, F, Small(T, Cardinality(T)))
    BY <1>2, SumExists
  <2>2. \E u : IsSum(u, F, SUBSET T)
    BY <2>1, <1>1
  <2> QED BY <2>2
<1>4. SumFunction(F) = g[T]
  BY DEF SumFunction, SumFunctionOnSet, FoldFunctionOnSet, MapThenFoldSet, IsSum, First
<1> HIDE DEF g
<1>5. g = [S \in SUBSET T |-> IF S = {} THEN 0 ELSE F[First(S)] + g[S \ {First(S)}]]
  BY <1>3, Zenon DEF IsSum
<1>6. \A S \in SUBSET T : g[S] = IF S = {} THEN 0 ELSE F[First(S)] + g[S \ {First(S)}]
  BY <1>5, Zenon
<1>7. Adds(g, F, T)
  BY <1>4, <1>6 DEF Adds
<1> QED
  BY <1>7

\* The sum changes by what one value changes.
LEMMA SumChange ==
    ASSUME NEW T, IsFiniteSet(T), NEW F \in [T -> Int], NEW G \in [T -> Int], NEW a \in T, NEW d \in Int,
           \A x \in T : G[x] = IF x = a THEN F[x] + d ELSE F[x]
    PROVE  SumFunction(F) \in Int /\ SumFunction(G) = SumFunction(F) + d
<1>1. PICK f : Adds(f, F, T)
  BY SumAdds
<1>2. PICK g : Adds(g, G, T)
  BY SumAdds
<1> DEFINE P(S) == f[S] \in Int /\ g[S] = IF a \in S THEN f[S] + d ELSE f[S]
           Bad == {n \in Nat : \E S \in SUBSET T : Cardinality(S) = n /\ ~P(S)}
<1>3. SUFFICES Bad = {}
  <2>1. Cardinality(T) \in Nat
    BY FS_CardinalityType
  <2>2. P(T)
    BY <1>3, <2>1
  <2> QED BY <1>1, <1>2, <2>2 DEF Adds
<1>4. SUFFICES ASSUME Bad # {}
               PROVE  FALSE
  OBVIOUS
<1>5. PICK n \in Bad : \A k \in Bad : n <= k
  <2>1. Bad \subseteq Nat
    OBVIOUS
  <2> HIDE DEF Bad
  <2> QED BY <1>4, <2>1, Least, Zenon
<1>6. PICK S \in SUBSET T : Cardinality(S) = n /\ ~P(S)
  BY <1>5
<1>7. S # {}
  <2>1. f[{}] = 0 /\ g[{}] = 0
    BY <1>1, <1>2 DEF Adds
  <2>2. P({})
    BY <2>1
  <2> HIDE DEF P
  <2> QED BY <2>2, <1>6
<1> DEFINE x == First(S)
           R == S \ {x}
<1>8. x \in S /\ R \in SUBSET T /\ n \in Nat /\ Cardinality(R) = n - 1
  BY <1>5, <1>6, <1>7, Smaller
<1>9. n # 0
  <2>1. IsFiniteSet(S)
    BY FS_Subset
  <2> QED BY <2>1, <1>6, <1>7, FS_EmptySet
<1>10. P(R)
  <2>1. n - 1 \in Nat /\ n - 1 \notin Bad
    BY <1>5, <1>8, <1>9
  <2> QED BY <2>1, <1>8
<1>11. f[S] = F[x] + f[R] /\ g[S] = G[x] + g[R]
  BY <1>1, <1>2, <1>7 DEF Adds
<1>12. F[x] \in Int /\ G[x] = IF x = a THEN F[x] + d ELSE F[x]
  BY <1>8
<1>13. a \in R <=> a \in S /\ a # x
  BY <1>8
<1> HIDE DEF x, R
<1>14. P(S)
  BY <1>10, <1>11, <1>12, <1>13, <1>8
<1> QED
  BY <1>14, <1>6

\* One term of the sum of F over T is changed by d in G.
StepsBy(T, F, G, a, d) ==
    F \in [T -> Int] /\ G \in [T -> Int] /\ d \in Int /\ \A x \in T : G[x] = IF x = a THEN F[x] + d ELSE F[x]

\* The same, for functions that are given by what they differ in.
LEMMA SumSteps ==
    ASSUME NEW T, IsFiniteSet(T), NEW F, NEW G, NEW a \in T, NEW d, StepsBy(T, F, G, a, d)
    PROVE  SumFunction(F) \in Int /\ SumFunction(G) = SumFunction(F) + d
BY SumChange DEF StepsBy

\* A sum of zeros is zero.
LEMMA SumZero ==
    ASSUME NEW T, IsFiniteSet(T), NEW F, DOMAIN F = T, \A x \in T : F[x] = 0
    PROVE  SumFunction(F) = 0
<1>1. PICK f : Adds(f, F, T)
  BY SumAdds
<1> DEFINE Bad == {n \in Nat : \E S \in SUBSET T : Cardinality(S) = n /\ f[S] # 0}
<1>2. SUFFICES Bad = {}
  <2>1. Cardinality(T) \in Nat
    BY FS_CardinalityType
  <2> QED BY <1>1, <1>2, <2>1 DEF Adds
<1>3. SUFFICES ASSUME Bad # {}
               PROVE  FALSE
  OBVIOUS
<1>4. PICK n \in Bad : \A k \in Bad : n <= k
  <2>1. Bad \subseteq Nat
    OBVIOUS
  <2> HIDE DEF Bad
  <2> QED BY <1>3, <2>1, Least, Zenon
<1>5. PICK S \in SUBSET T : Cardinality(S) = n /\ f[S] # 0
  BY <1>4
<1>6. S # {}
  BY <1>1, <1>5 DEF Adds
<1>7. First(S) \in S /\ S \ {First(S)} \in SUBSET T /\ n \in Nat /\ Cardinality(S \ {First(S)}) = n - 1
  BY <1>4, <1>5, <1>6, Smaller
<1>8. n # 0
  <2>1. IsFiniteSet(S)
    BY FS_Subset
  <2> QED BY <2>1, <1>5, <1>6, FS_EmptySet
<1>9. f[S \ {First(S)}] = 0
  <2>1. n - 1 \in Nat /\ n - 1 \notin Bad
    BY <1>4, <1>7, <1>8
  <2> QED BY <2>1, <1>7
<1>10. f[S] = F[First(S)] + f[S \ {First(S)}]
  BY <1>1, <1>6 DEF Adds
<1> QED
  BY <1>5, <1>7, <1>9, <1>10

-----------------------------------------------------------------------------
(* The items that the add methods build from the tokens *)

ItemTokens(item) == {item.tokens[n] : n \in DOMAIN item.tokens}
ConfigurationTokens(c) == UNION {ItemTokens(Configurations[c].items[i]) : i \in DOMAIN Configurations[c].items}
Tokens == UNION {ConfigurationTokens(c) : c \in DOMAIN Configurations}

\* The key codes and the flags of the configurations.
KeyCodes == {token.v : token \in {x \in Tokens : x.d = "code"}} \cup {VK_NONE, VK_PSEUDO_KEY}
FlagNames == {token.v : token \in {x \in Tokens : x.d = "flag"}}

IsToken(token) ==
    /\ token.d \in {"code", "flag", "option"}
    /\ token.d = "code" => token.v \in KeyCodes
    /\ token.d = "flag" => token.v \in FlagNames

ToEvents == [code : KeyCodes, mods : SUBSET FlagNames]

\* No list of keys to send after a release is empty: the first of its keys
\* only carries the modifiers under which it is sent.
KeyToKeys == [from : KeyCodes, fromFlags : SUBSET FlagNames, repeat : BOOLEAN, index : Nat, current : ListNames,
              lists : {l \in [ListNames -> Seq(Seq(ToEvents))] : \A n \in DOMAIN l["AFTER"] : l["AFTER"][n] # <<>>}]

\* A code of the configurations is what its type and its value make it.
LEMMA KeyCodeParts ==
    ASSUME NEW code \in KeyCodes
    PROVE  code = Code(code.t, code.v)
<1>1. CASE code \in {VK_NONE, VK_PSEUDO_KEY}
  BY <1>1 DEF VK_NONE, VK_PSEUDO_KEY, Code
<1>2. CASE code \notin {VK_NONE, VK_PSEUDO_KEY}
  <2>1. PICK token \in Tokens : token.d = "code" /\ code = token.v
    BY <1>2 DEF KeyCodes
  <2>2. PICK c \in DOMAIN Configurations : token \in ConfigurationTokens(c)
    BY <2>1 DEF Tokens
  <2>3. PICK i \in DOMAIN Configurations[c].items : token \in ItemTokens(Configurations[c].items[i])
    BY <2>2 DEF ConfigurationTokens
  <2>4. PICK n \in DOMAIN Configurations[c].items[i].tokens : token = Configurations[c].items[i].tokens[n]
    BY <2>3 DEF ItemTokens
  <2> QED BY <2>1, <2>4, ConfigurationsAssumption
<1> QED
  BY <1>1, <1>2

\* The code and the token that the functions themselves use are among those of
\* the configurations.
LEMMA KnownCodes == VK_NONE \in KeyCodes /\ VK_PSEUDO_KEY \in KeyCodes /\ IsToken(PseudoToken)
BY DEF KeyCodes, IsToken, PseudoToken, Token

\* A list of to keys is replaced (ToKeys of KeyToKey).
LEMMA SetListType ==
    ASSUME NEW k \in KeyToKeys, NEW n \in ListNames, NEW m \in Seq(Seq(ToEvents)),
           n = "AFTER" => \A j \in DOMAIN m : m[j] # <<>>
    PROVE  [k EXCEPT !.lists[n] = m] \in KeyToKeys
<1> DEFINE l == [k.lists EXCEPT ![n] = m]
<1>1. l \in [ListNames -> Seq(Seq(ToEvents))]
  BY DEF KeyToKeys
<1>2. \A j \in DOMAIN l["AFTER"] : l["AFTER"][j] # <<>>
  BY DEF KeyToKeys, ListNames
<1>3. [k EXCEPT !.lists[n] = m] = [k EXCEPT !.lists = l]
  OBVIOUS
<1> HIDE DEF l
<1> QED
  BY <1>1, <1>2, <1>3 DEF KeyToKeys

\* A KeyToKey to which no token was added.
LEMMA NewKeyToKeyType == NewKeyToKey \in KeyToKeys
<1> DEFINE l == [n \in ListNames |-> <<>>]
<1>1. l \in [ListNames -> Seq(Seq(ToEvents))] /\ l["AFTER"] = <<>> /\ "TO" \in ListNames
  BY DEF ListNames
<1> HIDE DEF l
<1> QED
  BY <1>1, KnownCodes DEF NewKeyToKey, KeyToKeys, l

\* getCurrentToEvent returns to keys.
LEMMA CurrentToEventType ==
    ASSUME NEW k \in KeyToKeys
    PROVE  CurrentToEvent(k) \in Seq(ToEvents)
<1>1. k.lists[k.current] \in Seq(Seq(ToEvents))
  BY DEF KeyToKeys
<1> QED
  BY <1>1 DEF CurrentToEvent, Last

\* The keys that are added last are replaced.
LEMMA SetCurrentToEventType ==
    ASSUME NEW k \in KeyToKeys, NEW keys \in Seq(ToEvents), keys # <<>>
    PROVE  SetCurrentToEvent(k, keys) \in KeyToKeys
<1> DEFINE l == k.lists[k.current]
           m == IF l = <<>> THEN <<keys>> ELSE Append(Front(l), keys)
<1>1. l \in Seq(Seq(ToEvents)) /\ k.current \in ListNames
  BY DEF KeyToKeys
<1>2. k.current = "AFTER" => \A j \in DOMAIN l : l[j] # <<>>
  BY DEF KeyToKeys
<1>3. l # <<>> => Front(l) \in Seq(Seq(ToEvents)) /\ \A j \in DOMAIN Front(l) : j \in DOMAIN l /\ Front(l)[j] = l[j]
  BY <1>1 DEF Front
<1>4. m \in Seq(Seq(ToEvents))
  BY <1>1, <1>3
<1>5. k.current = "AFTER" => \A j \in DOMAIN m : m[j] # <<>>
  BY <1>1, <1>2, <1>3
<1>6. SetCurrentToEvent(k, keys) = [k EXCEPT !.lists[k.current] = m]
  BY DEF SetCurrentToEvent
<1> HIDE DEF m, l
<1> QED
  BY <1>1, <1>4, <1>5, <1>6, SetListType

\* A to key is added.
LEMMA PushToEventType ==
    ASSUME NEW k \in KeyToKeys, NEW code \in KeyCodes
    PROVE  PushToEvent(k, code) \in KeyToKeys
<1>1. ToEvent(code) \in ToEvents
  BY DEF ToEvent, ToEvents
<1>2. CurrentToEvent(k) \in Seq(ToEvents)
  BY CurrentToEventType
<1> HIDE DEF CurrentToEvent
<1>3. Append(CurrentToEvent(k), ToEvent(code)) \in Seq(ToEvents) /\ Append(CurrentToEvent(k), ToEvent(code)) # <<>>
  <2>1. \A s \in Seq(ToEvents), x \in ToEvents : Append(s, x) \in Seq(ToEvents) /\ Len(Append(s, x)) = Len(s) + 1 /\ Len(s) \in Nat
    OBVIOUS
  <2>2. \A s \in Seq(ToEvents), x \in ToEvents : Append(s, x) # <<>>
    <3>1. Len(<<>>) = 0
      OBVIOUS
    <3>2. \A s \in Seq(ToEvents), x \in ToEvents : Len(Append(s, x)) # 0
      BY <2>1
    <3> QED BY <3>1, <3>2, Zenon
  <2> QED BY <1>1, <1>2, <2>1, <2>2
<1> QED
  BY <1>3, SetCurrentToEventType DEF PushToEvent

\* KeyToKey::add of a key code.
LEMMA AddCodeType ==
    ASSUME NEW k \in KeyToKeys, NEW code \in KeyCodes
    PROVE  AddCode(k, code) \in KeyToKeys
<1> DEFINE b == IF k.index = 0 THEN [k EXCEPT !.from = code] ELSE PushToEvent(k, code)
<1>1. [k EXCEPT !.from = code] \in KeyToKeys
  BY DEF KeyToKeys
<1>2. b \in KeyToKeys
  BY <1>1, PushToEventType
<1>3. AddCode(k, code) = [b EXCEPT !.index = b.index + 1]
  BY DEF AddCode
<1> HIDE DEF b
<1>4. b.index + 1 \in Nat
  BY <1>2 DEF KeyToKeys
<1>5. [b EXCEPT !.index = b.index + 1] \in KeyToKeys
  BY <1>2, <1>4 DEF KeyToKeys
<1> QED
  BY <1>3, <1>5

\* KeyToKey::add of a flag.
LEMMA AddFlagType ==
    ASSUME NEW k \in KeyToKeys, NEW flag \in FlagNames
    PROVE  AddFlag(k, flag) \in KeyToKeys
<1> DEFINE keys == CurrentToEvent(k)
           more == [keys EXCEPT ![Len(keys)].mods = @ \cup {flag}]
<1>1. keys \in Seq(ToEvents) /\ k.index \in Nat
  BY CurrentToEventType DEF KeyToKeys
<1>2. keys # <<>> => more \in Seq(ToEvents) /\ more # <<>>
  <2>1. SUFFICES ASSUME keys # <<>>
                 PROVE  more \in Seq(ToEvents) /\ more # <<>>
    OBVIOUS
  <2>2. Len(keys) \in DOMAIN keys /\ keys[Len(keys)] \in ToEvents
    BY <1>1, <2>1
  <2>3. [keys[Len(keys)] EXCEPT !.mods = @ \cup {flag}] \in ToEvents
    BY <2>2 DEF ToEvents
  <2> HIDE DEF keys
  <2> QED BY <1>1, <2>2, <2>3
<1>3. CASE k.index = 0
  BY <1>3 DEF AddFlag
<1>4. CASE k.index = 1
  <2>1. AddFlag(k, flag) = [k EXCEPT !.fromFlags = @ \cup {flag}]
    BY <1>4 DEF AddFlag
  <2> QED BY <2>1 DEF KeyToKeys
<1>5. CASE k.index > 1
  <2>1. AddFlag(k, flag) = IF keys = <<>> THEN k ELSE SetCurrentToEvent(k, more)
    BY <1>5, <1>1 DEF AddFlag
  <2> HIDE DEF keys, more
  <2> QED BY <2>1, <1>2, SetCurrentToEventType
<1> QED
  BY <1>1, <1>3, <1>4, <1>5

\* KeyToKey::add of an option.
LEMMA AddOptionType ==
    ASSUME NEW k \in KeyToKeys, NEW option
    PROVE  AddOption(k, option) \in KeyToKeys
<1>1. <<ToEvent(VK_NONE)>> \in Seq(ToEvents) /\ <<>> \in Seq(ToEvents)
  BY KnownCodes DEF ToEvent, ToEvents
<1>2. [k EXCEPT !.current = "INCREASE"] \in KeyToKeys
  BY DEF KeyToKeys, ListNames
<1>3. PushToEvent([k EXCEPT !.current = "INCREASE"], VK_NONE) \in KeyToKeys
  BY <1>2, KnownCodes, PushToEventType
<1>4. ASSUME NEW n \in ListNames, NEW keys \in Seq(ToEvents), n = "AFTER" => keys # <<>>
      PROVE  [k EXCEPT !.current = n, !.lists[n] = Append(@, keys)] \in KeyToKeys
  <2>1. k.lists[n] \in Seq(Seq(ToEvents)) /\ (n = "AFTER" => \A j \in DOMAIN k.lists[n] : k.lists[n][j] # <<>>)
    BY DEF KeyToKeys
  <2>2. Append(k.lists[n], keys) \in Seq(Seq(ToEvents))
    BY <2>1, <1>4
  <2>3. n = "AFTER" => \A j \in DOMAIN Append(k.lists[n], keys) : Append(k.lists[n], keys)[j] # <<>>
    BY <2>1, <1>4
  <2>4. [k EXCEPT !.current = n] \in KeyToKeys
    BY <1>4 DEF KeyToKeys
  <2>5. [[k EXCEPT !.current = n] EXCEPT !.lists[n] = Append(k.lists[n], keys)] \in KeyToKeys
    BY <2>2, <2>3, <2>4, <1>4, SetListType
  <2>6. [k EXCEPT !.current = n, !.lists[n] = Append(@, keys)] = [[k EXCEPT !.current = n] EXCEPT !.lists[n] = Append(k.lists[n], keys)]
    OBVIOUS
  <2> QED BY <2>5, <2>6
<1>5. [k EXCEPT !.current = "AFTER", !.lists["AFTER"] = Append(@, <<ToEvent(VK_NONE)>>)] \in KeyToKeys
  BY <1>1, <1>4 DEF ListNames
<1>6. [k EXCEPT !.current = "CANCELED_BY", !.lists["CANCELED_BY"] = Append(@, <<>>)] \in KeyToKeys
  BY <1>1, <1>4 DEF ListNames
<1>7. \A n \in {"BEFORE", "DELAYED", "CANCELED_DEFAULT"} : [k EXCEPT !.current = n] \in KeyToKeys
  BY DEF KeyToKeys, ListNames
<1>8. [k EXCEPT !.repeat = FALSE] \in KeyToKeys
  BY DEF KeyToKeys
<1> QED
  BY <1>3, <1>5, <1>6, <1>7, <1>8, Zenon DEF AddOption

\* KeyToKey::add, whatever the token.
LEMMA AddTokenType ==
    ASSUME NEW k \in KeyToKeys, NEW token, IsToken(token)
    PROVE  AddToken(k, token) \in KeyToKeys
BY AddCodeType, AddFlagType, AddOptionType DEF AddToken, IsToken

\* clearToKeys keeps the from key.
LEMMA ClearToKeysType ==
    ASSUME NEW k \in KeyToKeys
    PROVE  ClearToKeys(k) \in KeyToKeys
<1> DEFINE none == [n \in ListNames |-> <<>>]
           index == IF k.index > 1 THEN 1 ELSE k.index
<1>1. none \in [ListNames -> Seq(Seq(ToEvents))] /\ none["AFTER"] = <<>> /\ index \in Nat /\ "TO" \in ListNames
  BY DEF KeyToKeys, ListNames
<1>2. ClearToKeys(k) = [k EXCEPT !.lists = none, !.current = "TO", !.index = index]
  BY DEF ClearToKeys
<1> HIDE DEF none, index
<1>3. none \in {l \in [ListNames -> Seq(Seq(ToEvents))] : \A n \in DOMAIN l["AFTER"] : l["AFTER"][n] # <<>>}
  BY <1>1
<1>4. [k EXCEPT !.lists = none, !.current = "TO", !.index = index] \in KeyToKeys
  BY <1>1, <1>3 DEF KeyToKeys
<1> QED
  BY <1>2, <1>4

Targets == {"HOLDING", "NORMAL", "REPEAT_TOKEYS", "BEFORE_AFTER"}

\* What an item is while tokens are added to it.
Builders(type) ==
    [parts : [PartsOf(type) -> KeyToKeys], from : KeyCodes, fromFlags : SUBSET FlagNames,
     interruptible : BOOLEAN, index : IF type = "KEYDOWNUPTOKEY" THEN 0..3 ELSE Nat, separator : BOOLEAN,
     mode : ItemTypes \cup {"WITH_REPEAT"}, target : Targets]

\* An item to which no token was added.
LEMMA NewItemType ==
    ASSUME NEW type \in ItemTypes
    PROVE  NewItem(type) \in Builders(type)
<1> DEFINE parts == [p \in PartsOf(type) |-> IF p \in PeriodParts \cup {"BEFORE_AFTER"}
                                             THEN AddToken(NewKeyToKey, PseudoToken) ELSE NewKeyToKey]
<1>1. AddToken(NewKeyToKey, PseudoToken) \in KeyToKeys /\ NewKeyToKey \in KeyToKeys
  BY NewKeyToKeyType, KnownCodes, AddTokenType
<1>2. parts \in [PartsOf(type) -> KeyToKeys]
  BY <1>1
<1> HIDE DEF parts
<1> QED
  BY <1>2, KnownCodes DEF NewItem, Builders, Targets, parts

\* The parts of an item are replaced.
LEMMA SetPartsType ==
    ASSUME NEW type, NEW b \in Builders(type), NEW parts \in [PartsOf(type) -> KeyToKeys]
    PROVE  [b EXCEPT !.parts = parts] \in Builders(type)
BY DEF Builders

\* A token is added to some of the parts.
LEMMA AddToPartsType ==
    ASSUME NEW type, NEW b \in Builders(type), NEW P, NEW token, IsToken(token)
    PROVE  AddToParts(b, P, token) \in Builders(type)
<1> DEFINE parts == [p \in DOMAIN b.parts |-> IF p \in P THEN AddToken(b.parts[p], token) ELSE b.parts[p]]
<1>1. b.parts \in [PartsOf(type) -> KeyToKeys]
  BY DEF Builders
<1>2. \A k \in KeyToKeys : AddToken(k, token) \in KeyToKeys
  BY AddTokenType
<1>3. parts \in [PartsOf(type) -> KeyToKeys]
  BY <1>1, <1>2
<1>4. AddToParts(b, P, token) = [b EXCEPT !.parts = parts]
  BY DEF AddToParts
<1> HIDE DEF parts
<1> QED
  BY <1>3, <1>4, SetPartsType

\* The to keys of a part are cleared.
LEMMA ClearPartType ==
    ASSUME NEW type, NEW b \in Builders(type), NEW p \in PartsOf(type)
    PROVE  [b EXCEPT !.parts[p] = ClearToKeys(@)] \in Builders(type)
<1> DEFINE parts == [b.parts EXCEPT ![p] = ClearToKeys(@)]
<1>1. b.parts \in [PartsOf(type) -> KeyToKeys]
  BY DEF Builders
<1>2. ClearToKeys(b.parts[p]) \in KeyToKeys
  BY <1>1, ClearToKeysType
<1>3. parts \in [PartsOf(type) -> KeyToKeys]
  BY <1>1, <1>2
<1>4. [b EXCEPT !.parts[p] = ClearToKeys(@)] = [b EXCEPT !.parts = parts]
  OBVIOUS
<1> HIDE DEF parts
<1> QED
  BY <1>3, <1>4, SetPartsType

\* What else the add methods assign.
LEMMA SetFieldsType ==
    ASSUME NEW type, NEW b \in Builders(type)
    PROVE  /\ \A x \in KeyCodes : [b EXCEPT !.from = x] \in Builders(type)
           /\ \A x \in FlagNames : [b EXCEPT !.fromFlags = @ \cup {x}] \in Builders(type)
           /\ \A x \in Targets : [b EXCEPT !.target = x] \in Builders(type)
           /\ \A x \in BOOLEAN : [b EXCEPT !.separator = x] \in Builders(type)
           /\ \A x \in BOOLEAN : [b EXCEPT !.interruptible = x] \in Builders(type)
           /\ [b EXCEPT !.mode = "WITH_REPEAT"] \in Builders(type)
           /\ [b EXCEPT !.index = 1] \in Builders(type)
           /\ [b EXCEPT !.index = 2] \in Builders(type)
           /\ [b EXCEPT !.index = 3] \in Builders(type)
           /\ type # "KEYDOWNUPTOKEY" => [b EXCEPT !.index = @ + 1] \in Builders(type)
BY DEF Builders

\* The fields of an item that is being built.
LEMMA BuilderFields ==
    ASSUME NEW type, NEW b \in Builders(type)
    PROVE  /\ b.index \in Nat /\ (type = "KEYDOWNUPTOKEY" => b.index \in 0..3)
           /\ b.target \in Targets /\ b.separator \in BOOLEAN
           /\ b.parts \in [PartsOf(type) -> KeyToKeys]
           /\ b.from \in KeyCodes
BY DEF Builders

\* An option of KeyOverlaidModifier::add.
LEMMA AddOverlaidOptionType ==
    ASSUME NEW b \in Builders("KEYOVERLAIDMODIFIER"), NEW token, IsToken(token)
    PROVE  AddOverlaidOption(b, token) \in Builders("KEYOVERLAIDMODIFIER")
<1> DEFINE B == Builders("KEYOVERLAIDMODIFIER")
<1>1. \A x \in Targets : [b EXCEPT !.target = x] \in B
  BY SetFieldsType
<1>2. [b EXCEPT !.mode = "WITH_REPEAT"] \in B /\ [b EXCEPT !.separator = TRUE] \in B
  BY SetFieldsType
<1>3. [b EXCEPT !.target = "REPEAT_TOKEYS", !.parts["LONG_LONG"] = ClearToKeys(@)] \in B
  <2>1. "LONG_LONG" \in PartsOf("KEYOVERLAIDMODIFIER")
    BY DEF PartsOf, PeriodParts
  <2>2. [b EXCEPT !.target = "REPEAT_TOKEYS"] \in B
    BY <1>1 DEF Targets
  <2>3. [[b EXCEPT !.target = "REPEAT_TOKEYS"] EXCEPT !.parts["LONG_LONG"] = ClearToKeys(@)] \in B
    BY <2>1, <2>2, ClearPartType
  <2>4. [b EXCEPT !.target = "REPEAT_TOKEYS", !.parts["LONG_LONG"] = ClearToKeys(@)]
          = [[b EXCEPT !.target = "REPEAT_TOKEYS"] EXCEPT !.parts["LONG_LONG"] = ClearToKeys(@)]
    OBVIOUS
  <2> QED BY <2>3, <2>4
<1>4. [b EXCEPT !.target = "NORMAL"] \in B /\ [b EXCEPT !.target = "BEFORE_AFTER"] \in B
  BY <1>1 DEF Targets
<1>5. \A P : AddToParts(b, P, token) \in B /\ AddToParts([b EXCEPT !.target = "BEFORE_AFTER"], P, token) \in B
  BY <1>4, AddToPartsType
<1> HIDE DEF B
<1> QED
  BY <1>2, <1>3, <1>4, <1>5 DEF AddOverlaidOption, B

\* KeyOverlaidModifier::add.
LEMMA AddOverlaidType ==
    ASSUME NEW b \in Builders("KEYOVERLAIDMODIFIER"), NEW token, IsToken(token)
    PROVE  AddOverlaid(b, token) \in Builders("KEYOVERLAIDMODIFIER")
<1> DEFINE B == Builders("KEYOVERLAIDMODIFIER")
           t == IF ~b.separator /\ b.index >= 2 /\ b.target = "HOLDING" THEN [b EXCEPT !.target = "NORMAL"] ELSE b
<1>1. t \in B
  BY SetFieldsType DEF Targets
<1>2. b.index \in Nat /\ token.d \in {"code", "flag", "option"}
  BY BuilderFields DEF IsToken
<1>3. CASE token.d = "code"
  <2>1. token.v \in KeyCodes
    BY <1>3 DEF IsToken
  <2>2. [[b EXCEPT !.from = token.v] EXCEPT !.index = 1] \in B
    <3>1. [b EXCEPT !.from = token.v] \in B
      BY <2>1, SetFieldsType
    <3> QED BY <3>1, SetFieldsType
  <2>3. [AddToParts(t, OverlaidParts(t), token) EXCEPT !.index = @ + 1] \in B
    <3>1. AddToParts(t, OverlaidParts(t), token) \in B
      BY <1>1, AddToPartsType
    <3> QED BY <3>1, SetFieldsType
  <2>4. AddOverlaid(b, token) = IF b.index = 0 THEN [b EXCEPT !.from = token.v, !.index = 1]
                                ELSE [AddToParts(t, OverlaidParts(t), token) EXCEPT !.index = @ + 1]
    BY <1>2, <1>3 DEF AddOverlaid
  <2> HIDE DEF t
  <2> QED BY <2>2, <2>3, <2>4
<1>4. CASE token.d = "flag"
  <2>1. token.v \in FlagNames
    BY <1>4 DEF IsToken
  <2>2. [b EXCEPT !.fromFlags = @ \cup {token.v}] \in B /\ AddToParts(b, OverlaidParts(b), token) \in B
    BY <2>1, SetFieldsType, AddToPartsType
  <2>3. AddOverlaid(b, token) = IF b.index = 0 THEN b ELSE IF b.index = 1 THEN [b EXCEPT !.fromFlags = @ \cup {token.v}]
                                ELSE AddToParts(b, OverlaidParts(b), token)
    BY <1>2, <1>4 DEF AddOverlaid
  <2> QED BY <2>2, <2>3
<1>5. CASE token.d = "option"
  <2>1. AddOverlaid(b, token) = AddOverlaidOption(b, token)
    BY <1>5 DEF AddOverlaid
  <2> QED BY <2>1, AddOverlaidOptionType
<1> QED
  BY <1>2, <1>3, <1>4, <1>5

\* A key code of HoldingKeyToKey::add.
LEMMA AddHoldingKeyType ==
    ASSUME NEW b \in Builders("HOLDINGKEYTOKEY"), NEW token, IsToken(token)
    PROVE  AddHoldingKey(b, token) \in Builders("HOLDINGKEYTOKEY")
<1>1. \A P : AddToParts(b, P, token) \in Builders("HOLDINGKEYTOKEY")
  BY AddToPartsType
<1>2. [b EXCEPT !.interruptible = FALSE] \in Builders("HOLDINGKEYTOKEY")
  BY SetFieldsType
<1> QED
  BY <1>1, <1>2 DEF AddHoldingKey

\* HoldingKeyToKey::add.
LEMMA AddHoldingType ==
    ASSUME NEW b \in Builders("HOLDINGKEYTOKEY"), NEW token, IsToken(token)
    PROVE  AddHolding(b, token) \in Builders("HOLDINGKEYTOKEY")
<1> DEFINE B == Builders("HOLDINGKEYTOKEY")
<1>1. b.index \in Nat /\ token.d \in {"code", "flag", "option"} /\ b.target \in Targets /\ b.separator \in BOOLEAN
  BY BuilderFields DEF IsToken
<1>2. \A x \in Targets : [b EXCEPT !.target = x] \in B
  BY SetFieldsType
<1>3. CASE token.d = "code"
  <2>1. token.v \in KeyCodes
    BY <1>3 DEF IsToken
  <2>2. [[b EXCEPT !.from = token.v] EXCEPT !.index = 1] \in B
    <3>1. [b EXCEPT !.from = token.v] \in B
      BY <2>1, SetFieldsType
    <3> QED BY <3>1, SetFieldsType
  <2> DEFINE t == IF ~b.separator /\ token.v = VK_NONE /\ b.target = "NORMAL" THEN [b EXCEPT !.target = "HOLDING"]
                  ELSE AddHoldingKey(b, token)
  <2>3. t \in B
    BY <1>2, AddHoldingKeyType DEF Targets
  <2>4. [t EXCEPT !.index = @ + 1] \in B
    BY <2>3, SetFieldsType
  <2>5. AddHolding(b, token) = IF b.index = 0 THEN [b EXCEPT !.from = token.v, !.index = 1] ELSE [t EXCEPT !.index = @ + 1]
    BY <1>1, <1>3 DEF AddHolding
  <2> HIDE DEF t
  <2> QED BY <2>2, <2>4, <2>5
<1>4. CASE token.d # "code" /\ b.index = 0
  <2>1. [b EXCEPT !.separator = b.separator \/ IsOption(token, "USE_SEPARATOR")] \in B
    BY <1>1, SetFieldsType
  <2>2. AddHolding(b, token) = [b EXCEPT !.separator = b.separator \/ IsOption(token, "USE_SEPARATOR")]
    BY <1>4 DEF AddHolding
  <2> QED BY <2>1, <2>2
<1>5. CASE token.d # "code" /\ b.index = 1
  <2>1. token.d = "flag" => [b EXCEPT !.fromFlags = @ \cup {token.v}] \in B
    BY SetFieldsType DEF IsToken
  <2> QED BY <2>1, <1>5 DEF AddHolding
<1>6. CASE token.d # "code" /\ b.index > 1
  <2>1. [b EXCEPT !.target = IF b.target = "NORMAL" THEN "HOLDING" ELSE b.target] \in B
    BY <1>1, <1>2 DEF Targets
  <2>2. AddToParts([b EXCEPT !.target = "BEFORE_AFTER"], {"BEFORE_AFTER"}, token) \in B
    <3>1. [b EXCEPT !.target = "BEFORE_AFTER"] \in B
      BY <1>2 DEF Targets
    <3> QED BY <3>1, AddToPartsType
  <2>3. AddHoldingKey(b, token) \in B
    BY AddHoldingKeyType
  <2>4. AddHolding(b, token) \in {[b EXCEPT !.target = IF b.target = "NORMAL" THEN "HOLDING" ELSE b.target],
                                  AddToParts([b EXCEPT !.target = "BEFORE_AFTER"], {"BEFORE_AFTER"}, token),
                                  AddHoldingKey(b, token)}
    BY <1>6 DEF AddHolding
  <2> QED BY <2>1, <2>2, <2>3, <2>4
<1> QED
  BY <1>1, <1>3, <1>4, <1>5, <1>6

\* KeyDownUpToKey::add.
LEMMA AddDownUpType ==
    ASSUME NEW b \in Builders("KEYDOWNUPTOKEY"), NEW token, IsToken(token)
    PROVE  AddDownUp(b, token) \in Builders("KEYDOWNUPTOKEY")
<1> DEFINE B == Builders("KEYDOWNUPTOKEY")
<1>1. b.index \in 0..3 /\ token.d \in {"code", "flag", "option"}
  BY BuilderFields DEF IsToken
<1>2. \A x \in B : \A P : AddToParts(x, P, token) \in B /\ AddToParts(x, P, PseudoToken) \in B
  BY AddToPartsType, KnownCodes
<1>3. \A x \in B : [x EXCEPT !.index = 1] \in B /\ [x EXCEPT !.index = 2] \in B /\ [x EXCEPT !.index = 3] \in B
  BY SetFieldsType
<1>4. [b EXCEPT !.parts["INTERRUPTED"] = ClearToKeys(@)] \in B
  <2>1. "INTERRUPTED" \in PartsOf("KEYDOWNUPTOKEY")
    BY DEF PartsOf
  <2> QED BY <2>1, ClearPartType
<1> HIDE DEF B
<1>5. CASE token.d = "code"
  <2>1. AddToParts(AddToParts(AddToParts(b, {"FROM"}, token), {"DOWNUP", "INTERRUPTED"}, PseudoToken),
                       {"INTERRUPTED"}, token) \in B
    BY <1>2 DEF B
  <2>2. [AddToParts(AddToParts(AddToParts(b, {"FROM"}, token), {"DOWNUP", "INTERRUPTED"}, PseudoToken),
                       {"INTERRUPTED"}, token) EXCEPT !.index = 1] \in B
    BY <2>1, <1>3
  <2>3. AddToParts(b, {"DOWNUP"}, token) \in B
    BY <1>2 DEF B
  <2>4. [AddToParts(b, {"DOWNUP"}, token) EXCEPT !.index = 2] \in B
    BY <2>3, <1>3
  <2>5. AddToParts([b EXCEPT !.parts["INTERRUPTED"] = ClearToKeys(@)], {"INTERRUPTED"}, token) \in B
    BY <1>2, <1>4
  <2>6. AddDownUp(b, token) =
          IF b.index = 0 THEN [AddToParts(AddToParts(AddToParts(b, {"FROM"}, token), {"DOWNUP", "INTERRUPTED"}, PseudoToken),
                                  {"INTERRUPTED"}, token) EXCEPT !.index = 1]
          ELSE IF b.index \in {1, 2} THEN [AddToParts(b, {"DOWNUP"}, token) EXCEPT !.index = 2]
          ELSE AddToParts([b EXCEPT !.parts["INTERRUPTED"] = ClearToKeys(@)], {"INTERRUPTED"}, token)
    BY <1>1, <1>5 DEF AddDownUp
  <2> QED BY <2>2, <2>4, <2>5, <2>6 DEF B
<1>6. CASE token.d = "flag"
  <2> DEFINE P == CASE b.index = 0 -> {} [] b.index = 1 -> DOMAIN b.parts
                    [] b.index = 2 -> {"DOWNUP"} [] b.index = 3 -> {"INTERRUPTED"}
  <2>1. AddDownUp(b, token) = AddToParts(b, P, token)
    BY <1>6 DEF AddDownUp
  <2> HIDE DEF P
  <2> QED BY <2>1, <1>2 DEF B
<1>7. CASE token.d = "option"
  <2>1. [b EXCEPT !.index = 3] \in B
    BY <1>3 DEF B
  <2> QED BY <2>1, <1>7 DEF AddDownUp, B
<1> QED
  BY <1>1, <1>5, <1>6, <1>7 DEF B

\* DoublePressModifier::add.
LEMMA AddDoublePressType ==
    ASSUME NEW b \in Builders("DOUBLEPRESSMODIFIER"), NEW token, IsToken(token)
    PROVE  AddDoublePress(b, token) \in Builders("DOUBLEPRESSMODIFIER")
<1> DEFINE B == Builders("DOUBLEPRESSMODIFIER")
           double == b.target = "HOLDING" \/ (token.d = "code" /\ ~b.separator /\ b.index >= 2)
           c == IF double THEN [b EXCEPT !.target = "HOLDING"] ELSE b
           P == IF double THEN {"FIRE"} ELSE {"KTK"}
<1>1. b.index \in Nat /\ token.d \in {"code", "flag", "option"}
  BY BuilderFields DEF IsToken
<1>2. \A x \in B : \A Q : AddToParts(x, Q, token) \in B /\ AddToParts(x, Q, PseudoToken) \in B
  BY AddToPartsType, KnownCodes
<1>3. [b EXCEPT !.target = "HOLDING"] \in B /\ [b EXCEPT !.separator = TRUE] \in B
  BY SetFieldsType DEF Targets
<1>4. c \in B
  BY <1>3
<1>5. \A x \in B : [x EXCEPT !.index = 1] \in B /\ [x EXCEPT !.index = @ + 1] \in B
  BY SetFieldsType
<1> HIDE DEF B, c, P
<1>6. CASE token.d = "code"
  <2>1. AddToParts(AddToParts(b, {"KTK"}, token), {"FIRE"}, PseudoToken) \in B
    BY <1>2 DEF B
  <2>2. [AddToParts(AddToParts(b, {"KTK"}, token), {"FIRE"}, PseudoToken) EXCEPT !.index = 1] \in B
    BY <2>1, <1>5
  <2>3. AddToParts(c, P, token) \in B
    BY <1>2, <1>4
  <2>4. [AddToParts(c, P, token) EXCEPT !.index = @ + 1] \in B
    BY <2>3, <1>5
  <2>5. AddDoublePress(b, token) =
          IF b.index = 0 THEN [AddToParts(AddToParts(b, {"KTK"}, token), {"FIRE"}, PseudoToken) EXCEPT !.index = 1]
          ELSE [AddToParts(c, P, token) EXCEPT !.index = @ + 1]
    BY <1>1, <1>6 DEF AddDoublePress, c, P, IsOption
  <2> QED BY <2>2, <2>4, <2>5 DEF B
<1>7. CASE token.d = "flag"
  <2>1. AddDoublePress(b, token) = IF b.index = 0 THEN b ELSE AddToParts(b, IF b.index = 1 THEN {"KTK", "FIRE"} ELSE P, token)
    BY <1>7 DEF AddDoublePress, c, P, IsOption
  <2> QED BY <2>1, <1>2 DEF B
<1>8. CASE token.d = "option"
  <2>1. AddDoublePress(b, token) \in {b, [b EXCEPT !.separator = TRUE], [b EXCEPT !.target = "HOLDING"], AddToParts(b, P, token)}
    BY <1>8 DEF AddDoublePress, c, P, IsOption
  <2> QED BY <2>1, <1>2, <1>3 DEF B
<1> QED
  BY <1>1, <1>6, <1>7, <1>8 DEF B

\* add of the functions that only drop or pass an event.
LEMMA AddIgnoreType ==
    ASSUME NEW type, NEW b \in Builders(type), NEW token, IsToken(token)
    PROVE  AddIgnore(b, token) \in Builders(type)
<1>1. token.d = "code" => [b EXCEPT !.from = token.v] \in Builders(type)
  BY SetFieldsType DEF IsToken
<1>2. token.d = "flag" => [b EXCEPT !.fromFlags = @ \cup {token.v}] \in Builders(type)
  BY SetFieldsType DEF IsToken
<1> QED
  BY <1>1, <1>2 DEF AddIgnore, IsToken

\* RemapFunc::add of every function.
LEMMA AddType ==
    ASSUME NEW type \in ItemTypes, NEW b \in Builders(type), NEW token, IsToken(token)
    PROVE  Add(type, b, token) \in Builders(type)
<1>1. CASE type = "KEYTOKEY"
  <2>1. AddToParts(b, {"KTK"}, token) \in Builders(type)
    BY AddToPartsType
  <2> QED BY <2>1, <1>1 DEF Add
<1>2. CASE type = "KEYOVERLAIDMODIFIER"
  BY <1>2, AddOverlaidType DEF Add
<1>3. CASE type = "HOLDINGKEYTOKEY"
  BY <1>3, AddHoldingType DEF Add
<1>4. CASE type = "KEYDOWNUPTOKEY"
  BY <1>4, AddDownUpType DEF Add
<1>5. CASE type = "DOUBLEPRESSMODIFIER"
  BY <1>5, AddDoublePressType DEF Add
<1>6. CASE type = "IGNOREMULTIPLESAMEKEYPRESS"
  BY <1>6, AddIgnoreType DEF Add
<1>7. CASE type = "PASSTHROUGH"
  BY <1>7 DEF Add
<1> QED
  BY <1>1, <1>2, <1>3, <1>4, <1>5, <1>6, <1>7 DEF ItemTypes

\* The loop over the tokens of an item.
AddStep(b, token, type, q, r, t) == Add(type, b, token)
AddedSoFar(n, b, type) == b \in Builders(type)
Building == INSTANCE FoldProofs WITH Op <- AddStep, I <- AddedSoFar

\* The loop of RemapClass::Item over the tokens of an item.
LEMMA BuildingType ==
    ASSUME NEW type \in ItemTypes, NEW tokens, IsList(tokens), \A n \in DOMAIN tokens : IsToken(tokens[n])
    PROVE  FoldLeft(LAMBDA b, token : Add(type, b, token), NewItem(type), tokens) \in Builders(type)
<1> DEFINE built == FoldLeft(LAMBDA b, token : Add(type, b, token), NewItem(type), tokens)
<1>1. built = Building!Fold(NewItem(type), tokens, type, 0, 0, 0)
  BY DEF Building!Fold, AddStep, FoldLeft, MapThenFoldSet, Building!MapThenFoldSet,
         Max
<1>2. Len(tokens) \in Nat /\ DOMAIN tokens = 1..Len(tokens)
  BY DEF IsList
<1>3. AddedSoFar(0, NewItem(type), type)
  BY NewItemType DEF AddedSoFar
<1>4. \A k \in 1..Len(tokens) : \A a : AddedSoFar(k - 1, a, type) => AddedSoFar(k, AddStep(a, tokens[k], type, 0, 0, 0), type)
  BY <1>2, AddType DEF AddedSoFar, AddStep
<1>5. AddedSoFar(Len(tokens), Building!Fold(NewItem(type), tokens, type, 0, 0, 0), type)
  BY <1>2, <1>3, <1>4, Building!FoldMaintains
<1> QED
  BY <1>1, <1>5 DEF AddedSoFar

IsItem(it) ==
    /\ it.type \in ItemTypes
    /\ it.parts \in [PartsOf(it.type) -> KeyToKeys]
    /\ it.main = MainPart(it.type)
    /\ it.from \in KeyCodes
    /\ it.main # "ITEM" => it.main \in DOMAIN it.parts /\ it.from = it.parts[it.main].from

\* The item that the constructor of RemapClass::Item builds.
LEMMA NewRemapClassItemType ==
    ASSUME NEW item, item.type \in ItemTypes, IsList(item.tokens),
           \A n \in DOMAIN item.tokens : IsToken(item.tokens[n])
    PROVE  IsItem(NewRemapClassItem(item)) /\ NewRemapClassItem(item).type = item.type
<1> DEFINE b == FoldLeft(LAMBDA x, token : Add(item.type, x, token), NewItem(item.type), item.tokens)
           main == MainPart(item.type)
<1>1. b \in Builders(item.type)
  BY BuildingType
<1>2. NewRemapClassItem(item) = WithFunction(item, b, main)
  BY DEF NewRemapClassItem
<1>3. main # "ITEM" => main \in PartsOf(item.type)
  BY DEF MainPart, PartsOf
<1> HIDE DEF b
<1>4. b.parts \in [PartsOf(item.type) -> KeyToKeys] /\ b.from \in KeyCodes
  BY <1>1, BuilderFields
<1>5. \A k \in KeyToKeys : k.from \in KeyCodes
  BY DEF KeyToKeys
<1> DEFINE v == WithFunction(item, b, main)
<1>6. v.type = item.type /\ v.parts = b.parts /\ v.main = main
      /\ v.from = IF main = "ITEM" THEN b.from ELSE b.parts[main].from
  BY DEF WithFunction
<1> HIDE DEF v, main
<1>7. IsItem(v)
  <2>1. main # "ITEM" => b.parts[main] \in KeyToKeys /\ main \in DOMAIN b.parts
    BY <1>3, <1>4
  <2>2. v.from \in KeyCodes
    BY <2>1, <1>4, <1>5, <1>6
  <2>3. main # "ITEM" => v.from = v.parts[main].from
    BY <1>6
  <2>4. main = MainPart(v.type)
    BY <1>6 DEF main
  <2> QED BY <2>1, <2>2, <2>3, <2>4, <1>4, <1>6 DEF IsItem
<1> QED
  BY <1>2, <1>6, <1>7 DEF v

\* All the items of a configuration.
LEMMA ItemsType ==
    ASSUME NEW c \in DOMAIN Configurations
    PROVE  /\ DOMAIN Items[c] = DOMAIN Configurations[c].items
           /\ \E n \in Nat : DOMAIN Items[c] = 1..n
           /\ \A i \in DOMAIN Items[c] : IsItem(Items[c][i]) /\ Items[c][i].type = Configurations[c].items[i].type
<1> DEFINE items == Configurations[c].items
<1>1. /\ IsList(items)
      /\ \A i \in DOMAIN items : /\ items[i].type \in ItemTypes
                                 /\ IsList(items[i].tokens)
                                 /\ \A n \in DOMAIN items[i].tokens : items[i].tokens[n].d \in {"code", "flag", "option"}
  BY ConfigurationsAssumption
<1>2. Items[c] = [i \in DOMAIN items |-> NewRemapClassItem(items[i])]
  BY DEF Items
<1>3. ASSUME NEW i \in DOMAIN items, NEW n \in DOMAIN items[i].tokens
      PROVE  IsToken(items[i].tokens[n])
  <2>1. items[i].tokens[n] \in ItemTokens(items[i])
    BY DEF ItemTokens
  <2>2. items[i].tokens[n] \in ConfigurationTokens(c)
    BY <2>1 DEF ConfigurationTokens
  <2>3. items[i].tokens[n] \in Tokens
    BY <2>2 DEF Tokens
  <2> HIDE DEF items
  <2> QED BY <2>3, <1>1 DEF IsToken, KeyCodes, FlagNames
<1> HIDE DEF items
<1>4. \A i \in DOMAIN items : IsItem(NewRemapClassItem(items[i])) /\ NewRemapClassItem(items[i]).type = items[i].type
  BY <1>1, <1>3, NewRemapClassItemType
<1>5. DOMAIN Items[c] = DOMAIN items /\ \A i \in DOMAIN items : Items[c][i] = NewRemapClassItem(items[i])
  BY <1>2
<1>6. \E n \in Nat : DOMAIN items = 1..n
  BY <1>1 DEF IsList
<1> QED
  BY <1>4, <1>5, <1>6 DEF items

FlagStatuses == [Flags -> FlagItems]

\* The flags that count: CapsLock only has its lock.
Countable == Flags \ {CAPSLOCK}

\* No count changes but those of the moment, of locks and of stickies.
SameFlagCounts(fs, gs) ==
    \A f \in Countable : gs[f].count_ = fs[f].count_ /\ gs[f].lazy_count_ = fs[f].lazy_count_

\* The temporary counts are apart from count_ and lazy_count_.
LEMMA TemporaryType ==
    ASSUME NEW fs \in FlagStatuses, NEW S
    PROVE  /\ TemporaryIncrease(fs, S) \in FlagStatuses /\ SameFlagCounts(fs, TemporaryIncrease(fs, S))
           /\ TemporaryDecrease(fs, S) \in FlagStatuses /\ SameFlagCounts(fs, TemporaryDecrease(fs, S))
           /\ SetTemporary(fs) \in FlagStatuses /\ SameFlagCounts(fs, SetTemporary(fs))
<1>1. TemporaryIncrease(fs, S) \in FlagStatuses /\ SameFlagCounts(fs, TemporaryIncrease(fs, S))
  BY DEF TemporaryIncrease, Each, FlagItems, FlagStatuses, SameFlagCounts, Countable
<1>2. TemporaryDecrease(fs, S) \in FlagStatuses /\ SameFlagCounts(fs, TemporaryDecrease(fs, S))
  BY DEF TemporaryDecrease, Each, FlagItems, FlagStatuses, SameFlagCounts, Countable
<1>3. SetTemporary(fs) \in FlagStatuses /\ SameFlagCounts(fs, SetTemporary(fs))
  BY DEF SetTemporary, Each, FlagItems, FlagStatuses, SameFlagCounts, Countable
<1> QED
  BY <1>1, <1>2, <1>3

\* So are the locks.
LEMMA LockType ==
    ASSUME NEW fs \in FlagStatuses, NEW S, NEW n \in {0, 1}
    PROVE  /\ LockSet(fs, S, n) \in FlagStatuses /\ SameFlagCounts(fs, LockSet(fs, S, n))
           /\ LockToggle(fs, S) \in FlagStatuses /\ SameFlagCounts(fs, LockToggle(fs, S))
           /\ LockClear(fs) \in FlagStatuses /\ SameFlagCounts(fs, LockClear(fs))
<1>1. \A T : LockSet(fs, T, n) \in FlagStatuses /\ SameFlagCounts(fs, LockSet(fs, T, n))
  BY DEF LockSet, Each, FlagItems, FlagStatuses, SameFlagCounts, Countable
<1>2. LockToggle(fs, S) \in FlagStatuses /\ SameFlagCounts(fs, LockToggle(fs, S))
  BY DEF LockToggle, Each, FlagItems, FlagStatuses, SameFlagCounts, Countable
<1>3. LockClear(fs) \in FlagStatuses /\ SameFlagCounts(fs, LockClear(fs))
  BY DEF LockClear, LockSet, Each, FlagItems, FlagStatuses, SameFlagCounts, Countable
<1> QED
  BY <1>1, <1>2, <1>3

\* So are the negative locks.
LEMMA NegativeLockType ==
    ASSUME NEW fs \in FlagStatuses, NEW S, NEW n \in {0, 1}
    PROVE  /\ NegativeLockSet(fs, S, n) \in FlagStatuses /\ SameFlagCounts(fs, NegativeLockSet(fs, S, n))
           /\ NegativeLockToggle(fs, S) \in FlagStatuses /\ SameFlagCounts(fs, NegativeLockToggle(fs, S))
           /\ NegativeLockClear(fs) \in FlagStatuses /\ SameFlagCounts(fs, NegativeLockClear(fs))
<1>1. NegativeLockSet(fs, S, n) \in FlagStatuses /\ SameFlagCounts(fs, NegativeLockSet(fs, S, n))
  BY DEF NegativeLockSet, Each, FlagItems, FlagStatuses, SameFlagCounts, Countable
<1>2. NegativeLockToggle(fs, S) \in FlagStatuses /\ SameFlagCounts(fs, NegativeLockToggle(fs, S))
  BY DEF NegativeLockToggle, Each, FlagItems, FlagStatuses, SameFlagCounts, Countable
<1>3. NegativeLockClear(fs) \in FlagStatuses /\ SameFlagCounts(fs, NegativeLockClear(fs))
  BY DEF NegativeLockClear, NegativeLockSet, Each, FlagItems, FlagStatuses, SameFlagCounts, Countable
<1> QED
  BY <1>1, <1>2, <1>3

\* So are the stickies.
LEMMA StickyType ==
    ASSUME NEW fs \in FlagStatuses, NEW S, NEW n \in {0, 1}
    PROVE  /\ StickySet(fs, S, n) \in FlagStatuses /\ SameFlagCounts(fs, StickySet(fs, S, n))
           /\ StickyToggle(fs, S) \in FlagStatuses /\ SameFlagCounts(fs, StickyToggle(fs, S))
           /\ StickyClear(fs) \in FlagStatuses /\ SameFlagCounts(fs, StickyClear(fs))
<1>1. StickySet(fs, S, n) \in FlagStatuses /\ SameFlagCounts(fs, StickySet(fs, S, n))
  BY DEF StickySet, Each, FlagItems, FlagStatuses, SameFlagCounts, Countable
<1>2. StickyToggle(fs, S) \in FlagStatuses /\ SameFlagCounts(fs, StickyToggle(fs, S))
  BY DEF StickyToggle, Each, FlagItems, FlagStatuses, SameFlagCounts, Countable
<1>3. StickyClear(fs) \in FlagStatuses /\ SameFlagCounts(fs, StickyClear(fs))
  BY DEF StickyClear, StickySet, Each, FlagItems, FlagStatuses, SameFlagCounts, Countable
<1> QED
  BY <1>1, <1>2, <1>3

\* Lazy modifiers are enabled and disabled without a change of their counts.
LEMMA LazyEnableType ==
    ASSUME NEW fs \in FlagStatuses
    PROVE  /\ LazyEnable(fs) \in FlagStatuses /\ SameFlagCounts(fs, LazyEnable(fs))
           /\ LazyDisableIfOff(fs) \in FlagStatuses /\ SameFlagCounts(fs, LazyDisableIfOff(fs))
<1>1. LazyEnable(fs) \in FlagStatuses /\ SameFlagCounts(fs, LazyEnable(fs))
  BY DEF LazyEnable, Each, FlagItems, FlagStatuses, SameFlagCounts, Countable
<1>2. LazyDisableIfOff(fs) \in FlagStatuses /\ SameFlagCounts(fs, LazyDisableIfOff(fs))
  <2>1. \A f \in Flags : (fs[f].lazy_enabled_ /\ FlagSum(fs[f], TRUE) > 0) \in BOOLEAN
    OBVIOUS
  <2> QED BY <2>1 DEF LazyDisableIfOff, Each, FlagItems, FlagStatuses, SameFlagCounts, Countable
<1> QED
  BY <1>1, <1>2

\* lazy_increase and lazy_decrease.
LEMMA LazyChange ==
    ASSUME NEW fs \in FlagStatuses, NEW S
    PROVE  /\ LazyIncrease(fs, S) \in FlagStatuses
           /\ \A f \in Countable : /\ LazyIncrease(fs, S)[f].count_ = fs[f].count_
                                   /\ LazyIncrease(fs, S)[f].lazy_count_ = fs[f].lazy_count_ + Bit(f \in S)
           /\ LazyDecrease(fs, S) \in FlagStatuses
           /\ \A f \in Countable : /\ LazyDecrease(fs, S)[f].count_ = fs[f].count_
                                   /\ LazyDecrease(fs, S)[f].lazy_count_ = fs[f].lazy_count_ - Bit(f \in S)
<1>1. /\ LazyIncrease(fs, S) \in FlagStatuses
      /\ \A f \in Countable : /\ LazyIncrease(fs, S)[f].count_ = fs[f].count_
                              /\ LazyIncrease(fs, S)[f].lazy_count_ = fs[f].lazy_count_ + Bit(f \in S)
  BY DEF LazyIncrease, Each, FlagItems, FlagStatuses, Countable, Bit
<1>2. /\ LazyDecrease(fs, S) \in FlagStatuses
      /\ \A f \in Countable : /\ LazyDecrease(fs, S)[f].count_ = fs[f].count_
                              /\ LazyDecrease(fs, S)[f].lazy_count_ = fs[f].lazy_count_ - Bit(f \in S)
  BY DEF LazyDecrease, Each, FlagItems, FlagStatuses, Countable, Bit
<1> QED
  BY <1>1, <1>2

\* A modifier is increased several times.
LEMMA IncreaseByChange ==
    ASSUME NEW fs \in FlagStatuses, NEW n \in [Flags -> Int]
    PROVE  /\ IncreaseBy(fs, n) \in FlagStatuses
           /\ \A f \in Countable : /\ IncreaseBy(fs, n)[f].count_ = fs[f].count_ + n[f]
                                   /\ IncreaseBy(fs, n)[f].lazy_count_ = fs[f].lazy_count_
<1>1. ASSUME NEW f \in Flags
      PROVE  /\ IncreaseBy(fs, n)[f] \in FlagItems
             /\ IncreaseBy(fs, n)[f].lazy_count_ = fs[f].lazy_count_
             /\ f # CAPSLOCK => IncreaseBy(fs, n)[f].count_ = fs[f].count_ + n[f]
  <2>1. (fs[f].lock_count_ + n[f]) % 2 \in {0, 1}
    <3>1. fs[f].lock_count_ + n[f] \in Int
      BY DEF FlagStatuses, FlagItems
    <3>2. \A m \in Int : m % 2 \in {0, 1}
      OBVIOUS
    <3> QED BY <3>1, <3>2
  <2>2. IncreaseBy(fs, n)[f] = IF f = CAPSLOCK THEN [fs[f] EXCEPT !.lock_count_ = (fs[f].lock_count_ + n[f]) % 2]
                               ELSE [fs[f] EXCEPT !.count_ = fs[f].count_ + n[f]]
    BY DEF IncreaseBy
  <2>3. fs[f] \in FlagItems /\ n[f] \in Int
    BY DEF FlagStatuses
  <2> QED BY <2>1, <2>2, <2>3 DEF FlagItems
<1>2. IncreaseBy(fs, n) = [f \in Flags |-> IncreaseBy(fs, n)[f]]
  BY DEF IncreaseBy
<1> QED
  BY <1>1, <1>2 DEF FlagStatuses, Countable

\* A modifier is decreased several times.
LEMMA DecreaseByChange ==
    ASSUME NEW fs \in FlagStatuses, NEW n \in [Flags -> Int]
    PROVE  /\ DecreaseBy(fs, n) \in FlagStatuses
           /\ \A f \in Countable : /\ DecreaseBy(fs, n)[f].count_ = fs[f].count_ - n[f]
                                   /\ DecreaseBy(fs, n)[f].lazy_count_ = fs[f].lazy_count_
BY DEF DecreaseBy, FlagItems, FlagStatuses, Countable

\* Every modifier of a set once.
LEMMA OnceType ==
    ASSUME NEW S
    PROVE  Once(S) \in [Flags -> Int] /\ \A f \in Flags : Once(S)[f] = Bit(f \in S)
BY DEF Once, Bit

\* FlagStatus::increase counts every modifier of the set.
LEMMA IncreaseChange ==
    ASSUME NEW fs \in FlagStatuses, NEW S
    PROVE  /\ Increase(fs, S) \in FlagStatuses
           /\ \A f \in Countable : /\ Increase(fs, S)[f].count_ = fs[f].count_ + Bit(f \in S)
                                   /\ Increase(fs, S)[f].lazy_count_ = fs[f].lazy_count_
BY OnceType, IncreaseByChange DEF Increase, Countable

\* FlagStatus::decrease takes every modifier of the set away.
LEMMA DecreaseChange ==
    ASSUME NEW fs \in FlagStatuses, NEW S
    PROVE  /\ Decrease(fs, S) \in FlagStatuses
           /\ \A f \in Countable : /\ Decrease(fs, S)[f].count_ = fs[f].count_ - Bit(f \in S)
                                   /\ Decrease(fs, S)[f].lazy_count_ = fs[f].lazy_count_
BY OnceType, DecreaseByChange DEF Decrease, Countable

\* FlagStatus::reset leaves no count.
LEMMA ResetFlagsType ==
    ASSUME NEW fs \in FlagStatuses
    PROVE  /\ ResetFlags(fs) \in FlagStatuses
           /\ \A f \in Flags : ResetFlags(fs)[f].count_ = 0 /\ ResetFlags(fs)[f].lazy_count_ = 0
<1>1. ASSUME NEW f \in Flags
      PROVE  ResetFlags(fs)[f] \in FlagItems /\ ResetFlags(fs)[f].count_ = 0 /\ ResetFlags(fs)[f].lazy_count_ = 0
  <2>1. fs[f] \in FlagItems
    BY DEF FlagStatuses
  <2>2. ResetFlags(fs)[f] = [fs[f] EXCEPT !.count_ = 0, !.temporary_count_ = 0, !.lazy_count_ = 0, !.lazy_enabled_ = FALSE]
    BY DEF ResetFlags, Each
  <2> DEFINE i == fs[f]
             a == [i EXCEPT !.count_ = 0]
             b == [a EXCEPT !.temporary_count_ = 0]
             c == [b EXCEPT !.lazy_count_ = 0]
             d == [c EXCEPT !.lazy_enabled_ = FALSE]
  <2>3. ResetFlags(fs)[f] = d
    BY <2>2
  <2> HIDE DEF i
  <2>4. i \in FlagItems
    BY <2>1 DEF i
  <2>5. a \in FlagItems /\ a.count_ = 0
    BY <2>4 DEF FlagItems
  <2> HIDE DEF a
  <2>6. b \in FlagItems /\ b.count_ = 0
    BY <2>5 DEF FlagItems
  <2> HIDE DEF b
  <2>7. c \in FlagItems /\ c.count_ = 0 /\ c.lazy_count_ = 0
    BY <2>6 DEF FlagItems
  <2> HIDE DEF c
  <2>8. d \in FlagItems /\ d.count_ = 0 /\ d.lazy_count_ = 0
    BY <2>7 DEF FlagItems
  <2> QED BY <2>3, <2>8
<1>2. ResetFlags(fs) = [f \in Flags |-> ResetFlags(fs)[f]]
  BY DEF ResetFlags, Each
<1> QED
  BY <1>1, <1>2 DEF FlagStatuses

\* The sums that ScopedSetter saves are numbers.
LEMMA SumsType ==
    ASSUME NEW fs \in FlagStatuses
    PROVE  Sums(fs) \in [Flags -> Int]
<1>1. \A f \in Flags : FlagSum(fs[f], TRUE) \in Int
  BY DEF FlagStatuses, FlagItems, FlagSum
<1> QED
  BY <1>1 DEF Sums

\* What a scope does is taken back at its end.
Scopes == [added : [Flags -> Int], removed : [Flags -> Int]]

\* What a ScopedSetter adds and takes away.
LEMMA ScopeType ==
    ASSUME NEW fs \in FlagStatuses, NEW saved \in [Flags -> Int]
    PROVE  Scope(fs, saved) \in Scopes
<1>1. \A a, b \in [Flags -> Int] : Subtract(a, b) \in [Flags -> Int]
  BY DEF Subtract
<1> QED
  BY <1>1, SumsType DEF Scope, Scopes

\* A ScopedSetter gives back when it is left what it took when it was entered.
LEMMA ScopeChange ==
    ASSUME NEW fs \in FlagStatuses, NEW s \in Scopes
    PROVE  /\ EnterScope(fs, s) \in FlagStatuses /\ LeaveScope(fs, s) \in FlagStatuses
           /\ \A f \in Countable :
                 /\ EnterScope(fs, s)[f].count_ = fs[f].count_ - s.added[f] + s.removed[f]
                 /\ EnterScope(fs, s)[f].lazy_count_ = fs[f].lazy_count_
                 /\ LeaveScope(fs, s)[f].count_ = fs[f].count_ + s.added[f] - s.removed[f]
                 /\ LeaveScope(fs, s)[f].lazy_count_ = fs[f].lazy_count_
                 /\ s.added[f] \in Int /\ s.removed[f] \in Int
<1>1. s.added \in [Flags -> Int] /\ s.removed \in [Flags -> Int]
  BY DEF Scopes
<1>2. DecreaseBy(fs, s.added) \in FlagStatuses /\ IncreaseBy(fs, s.added) \in FlagStatuses
  BY <1>1, DecreaseByChange, IncreaseByChange
<1>3. \A f \in Countable : /\ EnterScope(fs, s)[f].count_ = DecreaseBy(fs, s.added)[f].count_ + s.removed[f]
                           /\ EnterScope(fs, s)[f].lazy_count_ = DecreaseBy(fs, s.added)[f].lazy_count_
                           /\ LeaveScope(fs, s)[f].count_ = IncreaseBy(fs, s.added)[f].count_ - s.removed[f]
                           /\ LeaveScope(fs, s)[f].lazy_count_ = IncreaseBy(fs, s.added)[f].lazy_count_
  BY <1>1, <1>2, DecreaseByChange, IncreaseByChange DEF EnterScope, LeaveScope
<1>4. EnterScope(fs, s) \in FlagStatuses /\ LeaveScope(fs, s) \in FlagStatuses
  BY <1>1, <1>2, DecreaseByChange, IncreaseByChange DEF EnterScope, LeaveScope
<1>5. \A f \in Countable : /\ DecreaseBy(fs, s.added)[f].count_ = fs[f].count_ - s.added[f]
                           /\ DecreaseBy(fs, s.added)[f].lazy_count_ = fs[f].lazy_count_
                           /\ IncreaseBy(fs, s.added)[f].count_ = fs[f].count_ + s.added[f]
                           /\ IncreaseBy(fs, s.added)[f].lazy_count_ = fs[f].lazy_count_
  BY <1>1, DecreaseByChange, IncreaseByChange
<1>6. \A f \in Countable : f \in Flags /\ fs[f].count_ \in Int /\ s.added[f] \in Int /\ s.removed[f] \in Int
  BY <1>1 DEF Countable, FlagStatuses, FlagItems
<1> QED
  BY <1>3, <1>4, <1>5, <1>6

-----------------------------------------------------------------------------
(* The world of the output *)

Fields ==
    {"items", "fs", "bs", "out", "rep", "enabled", "loaded", "refresh", "lastSent", "lastPressed", "lastReleased",
     "log", "pressing", "active", "ktk", "lastUp", "dpp", "st", "prep", "drop", "remapped", "walk", "workspace",
     "device", "elapsed", "keys"}

\* The codes of the configurations and of the keyboards.
KeysOf(c) == {k.code : k \in Configurations[c].keys}
Codes == KeyCodes \cup UNION {KeysOf(c) : c \in DOMAIN Configurations}

\* What KeyboardRepeat repeats.
Entries ==
    {e \in [code : Codes, type : {"DOWN", "UP", "MODIFY", "BUTTONS"}, flags : SUBSET (Flags \cup Buttons)] :
        e.flags \subseteq IF e.type = "BUTTONS" THEN Buttons ELSE Flags}

OutputType(w) ==
    /\ w = [x \in Fields |-> w[x]]
    /\ w.fs \in FlagStatuses /\ w.bs \in [Buttons -> Int]
    /\ w.out = [x \in {"flags", "ignoreUp", "buttons", "down"} |-> w.out[x]]
    /\ w.out.flags \in SUBSET Flags /\ w.out.buttons \in SUBSET Buttons /\ w.out.ignoreUp \in BOOLEAN
    /\ w.rep = [x \in {"on", "q", "mine"} |-> w.rep[x]] /\ w.rep.q \in Seq(Entries)

\* What the output never touches.
Behind(w) ==
    <<w.items, w.loaded, w.lastPressed, w.lastReleased, w.pressing, w.active, w.ktk, w.lastUp, w.dpp, w.st, w.prep,
      w.drop, w.remapped, w.walk, w.workspace, w.device, w.elapsed, w.keys>>

\* The counts of FlagStatus and ButtonStatus stay what they are.
SameCounts(w, v) == SameFlagCounts(w.fs, v.fs) /\ v.bs = w.bs

\* One world leads to another by what is sent, and by nothing else.
Sends(w, v) == OutputType(v) /\ Behind(v) = Behind(w) /\ v.rep = w.rep /\ SameCounts(w, v)

\* One output after another.
LEMMA SendsTwice ==
    ASSUME NEW u, NEW v, NEW w, Sends(u, v), Sends(v, w)
    PROVE  Sends(u, w)
BY DEF Sends, SameCounts, SameFlagCounts

\* Nothing is sent.
LEMMA SendsNothing ==
    ASSUME NEW w, OutputType(w)
    PROVE  Sends(w, w)
BY DEF Sends, SameCounts, SameFlagCounts

\* A code is what its type and its value make it.
LEMMA CodeParts ==
    ASSUME NEW code \in Codes
    PROVE  code = Code(code.t, code.v)
<1>1. CASE code \in KeyCodes
  BY <1>1, KeyCodeParts
<1>2. CASE code \notin KeyCodes
  <2>1. PICK c \in DOMAIN Configurations : code \in KeysOf(c)
    BY <1>2 DEF Codes
  <2>2. PICK k \in Configurations[c].keys : code = k.code
    BY <2>1 DEF KeysOf
  <2> QED BY <2>2, KeysAssumption
<1> QED
  BY <1>1, <1>2

\* FlagStatus is replaced.
LEMMA SetFlags ==
    ASSUME NEW w, OutputType(w), NEW fs \in FlagStatuses
    PROVE  LET v == [w EXCEPT !.fs = fs]
           IN  /\ OutputType(v) /\ Behind(v) = Behind(w) /\ v.rep = w.rep /\ v.bs = w.bs /\ v.fs = fs
               /\ v.out = w.out
               /\ SameFlagCounts(w.fs, fs) => Sends(w, v)
<1> DEFINE v == [w EXCEPT !.fs = fs]
<1>1. OutputType(v) /\ Behind(v) = Behind(w) /\ v.rep = w.rep /\ v.bs = w.bs /\ v.fs = fs /\ v.out = w.out
  BY DEF OutputType, Behind, Fields
<1> QED
  BY <1>1 DEF Sends, SameCounts

\* ButtonStatus is replaced.
LEMMA SetButtons ==
    ASSUME NEW w, OutputType(w), NEW bs \in [Buttons -> Int]
    PROVE  LET v == [w EXCEPT !.bs = bs]
           IN  OutputType(v) /\ Behind(v) = Behind(w) /\ v.rep = w.rep /\ v.bs = bs /\ v.fs = w.fs /\ v.out = w.out
BY DEF OutputType, Behind, Fields

\* What has no type of interest is replaced.
LEMMA SetUntyped ==
    ASSUME NEW w, OutputType(w), NEW x, NEW y
    PROVE  /\ Sends(w, [w EXCEPT !.lastSent = x])
           /\ Sends(w, [w EXCEPT !.log = x])
           /\ Sends(w, [w EXCEPT !.enabled = x, !.refresh = y])
           /\ [w EXCEPT !.lastSent = x].out = w.out
<1>1. Sends(w, [w EXCEPT !.lastSent = x]) /\ [w EXCEPT !.lastSent = x].out = w.out
  BY DEF OutputType, Behind, Fields, Sends, SameCounts, SameFlagCounts
<1>2. Sends(w, [w EXCEPT !.log = x])
  BY DEF OutputType, Behind, Fields, Sends, SameCounts, SameFlagCounts
<1>3. Sends(w, [w EXCEPT !.enabled = x, !.refresh = y])
  BY DEF OutputType, Behind, Fields, Sends, SameCounts, SameFlagCounts
<1> QED
  BY <1>1, <1>2, <1>3

\* What the output remembers is replaced.
LEMMA SetOut ==
    ASSUME NEW w, OutputType(w), NEW x
    PROVE  /\ x \in SUBSET Flags => Sends(w, [w EXCEPT !.out.flags = x])
           /\ x \in BOOLEAN => Sends(w, [w EXCEPT !.out.ignoreUp = x])
           /\ x \in SUBSET Buttons => Sends(w, [w EXCEPT !.out.buttons = x])
           /\ Sends(w, [w EXCEPT !.out.down = x])
<1>1. x \in SUBSET Flags => Sends(w, [w EXCEPT !.out.flags = x])
  BY DEF OutputType, Behind, Fields, Sends, SameCounts, SameFlagCounts
<1>2. x \in BOOLEAN => Sends(w, [w EXCEPT !.out.ignoreUp = x])
  BY DEF OutputType, Behind, Fields, Sends, SameCounts, SameFlagCounts
<1>3. x \in SUBSET Buttons => Sends(w, [w EXCEPT !.out.buttons = x])
  BY DEF OutputType, Behind, Fields, Sends, SameCounts, SameFlagCounts
<1>4. Sends(w, [w EXCEPT !.out.down = x])
  BY DEF OutputType, Behind, Fields, Sends, SameCounts, SameFlagCounts
<1> QED
  BY <1>1, <1>2, <1>3, <1>4

-----------------------------------------------------------------------------
(* FireModifiers and the push to the output queue *)

\* LastSentEvent and the log.
LEMMA SentSends ==
    ASSUME NEW w, OutputType(w), NEW code, NEW type
    PROVE  Sends(w, Sent(w, code, type))
BY SetUntyped DEF Sent

\* FireModifiers::fire.
LEMMA FireModifiersSends ==
    ASSUME NEW w, OutputType(w), NEW pt, NEW to \in SUBSET Flags
    PROVE  Sends(w, FireModifiers(w, pt, to))
<1> DEFINE a == [w EXCEPT !.out.flags = to]
           b == [a EXCEPT !.out.ignoreUp = a.out.ignoreUp /\ pt # "DOWN"]
           code == Code("mod", Modifiers[LastModifier(w.out.flags, to)])
<1>1. Sends(w, a)
  BY SetOut
<1>2. Sends(a, b)
  <2>1. OutputType(a)
    BY <1>1 DEF Sends
  <2>2. (a.out.ignoreUp /\ pt # "DOWN") \in BOOLEAN
    OBVIOUS
  <2> HIDE DEF a
  <2> QED BY <2>1, <2>2, SetOut
<1>3. Sends(b, Sent(b, code, "MODIFY"))
  <2>1. OutputType(b)
    BY <1>2 DEF Sends
  <2> HIDE DEF b, code
  <2> QED BY <2>1, SentSends
<1>4. Sends(w, Sent(b, code, "MODIFY"))
  <2> HIDE DEF a, b, code
  <2> QED BY <1>1, <1>2, <1>3, SendsTwice
<1>5. b = [w EXCEPT !.out.flags = to, !.out.ignoreUp = @ /\ pt # "DOWN"]
  BY DEF OutputType
<1> HIDE DEF b
<1> QED
  BY <1>4, <1>5, SendsNothing DEF FireModifiers

\* FireModifiers::fire with the current flags.
LEMMA FireCurrentModifiersSends ==
    ASSUME NEW w, OutputType(w), NEW pt
    PROVE  Sends(w, FireCurrentModifiers(w, pt))
BY FireModifiersSends DEF FireCurrentModifiers, MakeFlags

\* A key goes to EventOutputQueue, and a press ends the stickies.
LEMMA PushKeySends ==
    ASSUME NEW w, OutputType(w), NEW code, NEW type
    PROVE  Sends(w, PushKey(w, code, type))
<1> DEFINE a == Sent(w, code, type)
           fs == IF type = "DOWN" THEN StickyClear(a.fs) ELSE a.fs
           b == [a EXCEPT !.fs = fs]
           c == [b EXCEPT !.log = IF type = "DOWN" THEN Append(@, code) ELSE @]
<1>1. Sends(w, a)
  BY SentSends
<1>2. Sends(a, b)
  <2>1. OutputType(a)
    BY <1>1 DEF Sends
  <2> HIDE DEF a
  <2>2. a.fs \in FlagStatuses
    BY <2>1 DEF OutputType
  <2>3. fs \in FlagStatuses /\ SameFlagCounts(a.fs, fs)
    BY <2>2, StickyType DEF SameFlagCounts
  <2> HIDE DEF fs
  <2> QED BY <2>1, <2>3, SetFlags
<1>3. Sends(b, c)
  <2>1. OutputType(b)
    BY <1>2 DEF Sends
  <2> HIDE DEF b
  <2> QED BY <2>1, SetUntyped
<1>4. Sends(w, c)
  <2> HIDE DEF a, b, c
  <2> QED BY <1>1, <1>2, <1>3, SendsTwice
<1>5. c = PushKey(w, code, type)
  <2>1. OutputType(a)
    BY <1>1 DEF Sends
  <2> HIDE DEF a
  <2>2. c = [a EXCEPT !.fs = IF type = "DOWN" THEN StickyClear(@) ELSE @,
                      !.log = IF type = "DOWN" THEN Append(@, code) ELSE @]
    BY <2>1 DEF OutputType, Fields
  <2> QED BY <2>2 DEF PushKey, a
<1> QED
  BY <1>4, <1>5

\* The buttons go to EventOutputQueue.
LEMMA PushButtonsSends ==
    ASSUME NEW w, OutputType(w), NEW toButtons \in SUBSET Buttons, NEW moved
    PROVE  Sends(w, PushButtons(w, toButtons, moved))
<1> DEFINE a == Sent(w, Code("button", "none"), "NONE")
           b == [a EXCEPT !.out.buttons = toButtons]
           fs == IF toButtons # {} THEN StickyClear(b.fs) ELSE b.fs
           c == [b EXCEPT !.fs = fs]
<1>1. Sends(w, a)
  BY SentSends
<1>2. Sends(a, b)
  <2>1. OutputType(a)
    BY <1>1 DEF Sends
  <2> HIDE DEF a
  <2> QED BY <2>1, SetOut
<1>3. Sends(b, c)
  <2>1. OutputType(b)
    BY <1>2 DEF Sends
  <2> HIDE DEF b
  <2>2. b.fs \in FlagStatuses
    BY <2>1 DEF OutputType
  <2>3. fs \in FlagStatuses /\ SameFlagCounts(b.fs, fs)
    BY <2>2, StickyType DEF SameFlagCounts
  <2> HIDE DEF fs
  <2> QED BY <2>1, <2>3, SetFlags
<1>4. Sends(w, c)
  <2> HIDE DEF a, b, c
  <2> QED BY <1>1, <1>2, <1>3, SendsTwice
<1>5. c = [a EXCEPT !.out.buttons = toButtons, !.fs = IF toButtons # {} THEN StickyClear(@) ELSE @]
  <2>1. OutputType(a)
    BY <1>1 DEF Sends
  <2> HIDE DEF a
  <2> QED BY <2>1 DEF OutputType, Fields
<1> HIDE DEF c
<1> QED
  BY <1>4, <1>5, SendsNothing DEF PushButtons

\* FireRelativePointer::fire.
LEMMA FireRelativePointerSends ==
    ASSUME NEW w, OutputType(w), NEW pt, NEW toButtons \in SUBSET Buttons, NEW moved
    PROVE  Sends(w, FireRelativePointer(w, pt, toButtons, moved))
<1> DEFINE a == [w EXCEPT !.out.ignoreUp = FALSE]
<1>1. Sends(w, a)
  BY SetOut
<1> HIDE DEF a
<1>2. \A x : OutputType(x) => Sends(x, PushButtons(x, toButtons, moved)) /\ Sends(x, FireCurrentModifiers(x, pt))
  BY PushButtonsSends, FireCurrentModifiersSends
<1>3. Sends(w, FireCurrentModifiers(PushButtons(a, toButtons, moved), pt))
  <2>1. Sends(w, PushButtons(a, toButtons, moved))
    BY <1>1, <1>2, SendsTwice DEF Sends
  <2> QED BY <2>1, <1>2, SendsTwice DEF Sends
<1>4. Sends(w, PushButtons(FireCurrentModifiers(a, pt), toButtons, moved))
  <2>1. Sends(w, FireCurrentModifiers(a, pt))
    BY <1>1, <1>2, SendsTwice DEF Sends
  <2> QED BY <2>1, <1>2, SendsTwice DEF Sends
<1> QED
  BY <1>3, <1>4 DEF FireRelativePointer, a

\* FireRelativePointer::fire with the current buttons.
LEMMA FireCurrentButtonsSends ==
    ASSUME NEW w, OutputType(w), NEW pt
    PROVE  Sends(w, FireCurrentButtons(w, pt))
BY FireRelativePointerSends DEF FireCurrentButtons, MakeButtons

\* FireScrollWheel::fire.
LEMMA FireScrollWheelSends ==
    ASSUME NEW w, OutputType(w), NEW pt
    PROVE  Sends(w, FireScrollWheel(w, pt))
<1> DEFINE a == [w EXCEPT !.out.ignoreUp = FALSE]
           b == FireCurrentModifiers(a, pt)
           c == Sent(b, Code("scroll", "none"), "NONE")
           d == [c EXCEPT !.fs = StickyClear(c.fs)]
<1>1. Sends(w, a)
  BY SetOut
<1> HIDE DEF a
<1>2. Sends(w, b)
  BY <1>1, FireCurrentModifiersSends, SendsTwice DEF Sends
<1> HIDE DEF b
<1>3. Sends(w, c)
  BY <1>2, SentSends, SendsTwice DEF Sends
<1> HIDE DEF c
<1>4. Sends(c, d)
  <2>1. OutputType(c) /\ c.fs \in FlagStatuses
    BY <1>3 DEF Sends, OutputType
  <2> QED BY <2>1, StickyType, SetFlags
<1> HIDE DEF d
<1>5. Sends(w, d)
  BY <1>3, <1>4, SendsTwice
<1> QED
  BY <1>5 DEF FireScrollWheel, a, b, c, d

-----------------------------------------------------------------------------
(* Virtual keys *)

\* What a VK_LOCK, VK_NEGATIVE_LOCK or VK_STICKY code calls changes no count.
LEMMA FlagMethodType ==
    ASSUME NEW fs \in FlagStatuses, NEW code, code.t \in FlagKeys
    PROVE  FlagMethod(fs, code) \in FlagStatuses /\ SameFlagCounts(fs, FlagMethod(fs, code))
<1> DEFINE Good(gs) == gs \in FlagStatuses /\ SameFlagCounts(fs, gs)
<1>1. \A S : /\ Good(LockToggle(fs, S)) /\ Good(LockSet(fs, S, 0)) /\ Good(LockSet(fs, S, 1))
             /\ Good(NegativeLockToggle(fs, S)) /\ Good(NegativeLockSet(fs, S, 0)) /\ Good(NegativeLockSet(fs, S, 1))
             /\ Good(StickyToggle(fs, S)) /\ Good(StickySet(fs, S, 0)) /\ Good(StickySet(fs, S, 1))
  BY LockType, NegativeLockType, StickyType
<1>2. Good(LockClear(fs)) /\ Good(NegativeLockClear(fs)) /\ Good(StickyClear(fs))
  BY LockType, NegativeLockType, StickyType
<1> DEFINE gs == FlagMethod(fs, code)
<1>3. \/ gs \in {LockClear(fs), NegativeLockClear(fs), StickyClear(fs)}
      \/ \E S : gs \in {LockToggle(fs, S), LockSet(fs, S, 0), LockSet(fs, S, 1)}
      \/ \E S : gs \in {NegativeLockToggle(fs, S), NegativeLockSet(fs, S, 0), NegativeLockSet(fs, S, 1)}
      \/ \E S : gs \in {StickyToggle(fs, S), StickySet(fs, S, 0), StickySet(fs, S, 1)}
  <2>1. CASE code.t \in {"VK_LOCK", "VK_LOCK_FORCE_ON", "VK_LOCK_FORCE_OFF"}
    <3>1. gs \in {LockToggle(fs, {code.v}), LockSet(fs, {code.v}, 0), LockSet(fs, {code.v}, 1)}
      BY <2>1 DEF FlagMethod
    <3> HIDE DEF gs
    <3> QED BY <3>1
  <2>2. CASE code.t \in {"VK_NEGATIVE_LOCK", "VK_NEGATIVE_LOCK_FORCE_ON", "VK_NEGATIVE_LOCK_FORCE_OFF"}
    <3>1. gs \in {NegativeLockToggle(fs, {code.v}), NegativeLockSet(fs, {code.v}, 0), NegativeLockSet(fs, {code.v}, 1)}
      BY <2>2 DEF FlagMethod
    <3> HIDE DEF gs
    <3> QED BY <3>1
  <2>3. CASE code.t \in {"VK_STICKY", "VK_STICKY_FORCE_ON", "VK_STICKY_FORCE_OFF"}
    <3>1. gs \in {StickyToggle(fs, {code.v}), StickySet(fs, {code.v}, 0), StickySet(fs, {code.v}, 1)}
      BY <2>3 DEF FlagMethod
    <3> HIDE DEF gs
    <3> QED BY <3>1
  <2>4. CASE code.t \in {"VK_STICKY_ACTIVE_MODIFIERS_TOGGLE", "VK_STICKY_ACTIVE_MODIFIERS_FORCE_ON",
                         "VK_STICKY_ACTIVE_MODIFIERS_FORCE_OFF"}
    <3>1. gs \in {StickyToggle(fs, Active(fs)), StickySet(fs, Active(fs), 0), StickySet(fs, Active(fs), 1)}
      BY <2>4 DEF FlagMethod
    <3> HIDE DEF gs
    <3> QED BY <3>1
  <2>5. CASE code.t \in {"VK_LOCK_ALL_FORCE_OFF", "VK_NEGATIVE_LOCK_ALL_FORCE_OFF", "VK_STICKY_ALL_FORCE_OFF"}
    BY <2>5 DEF FlagMethod
  <2> QED BY <2>1, <2>2, <2>3, <2>4, <2>5 DEF FlagKeys
<1> HIDE DEF gs, Good
<1>4. Good(gs)
  BY <1>1, <1>2, <1>3
<1> QED
  BY <1>4 DEF Good, gs

\* A class is switched by a VK_CONFIG code.
LEMMA SetEnabledSends ==
    ASSUME NEW w, OutputType(w), NEW S
    PROVE  Sends(w, SetEnabled(w, S))
BY SetUntyped, SendsNothing DEF SetEnabled

\* VirtualKey::VK_CONFIG::handle.
LEMMA HandleConfigKeySends ==
    ASSUME NEW w, OutputType(w), NEW code, code.t \in ConfigKeys, NEW down \in BOOLEAN, NEW pt
    PROVE  Sends(w, HandleConfigKey(w, code, down, pt))
<1>1. \A S : Sends(w, SetEnabled(w, S))
  BY SetEnabledSends
<1>2. \A S : Sends(w, SetEnabled(FireCurrentModifiers(w, pt), S))
  <2>1. Sends(w, FireCurrentModifiers(w, pt))
    BY FireCurrentModifiersSends
  <2> QED BY <2>1, SetEnabledSends, SendsTwice DEF Sends
<1> DEFINE v == HandleConfigKey(w, code, down, pt)
<1>3. CASE code.t = "VK_CONFIG_SYNC_KEYDOWNUP"
  <2>1. v = SetEnabled(FireCurrentModifiers(w, pt), IF down THEN w.enabled \cup {code.v} ELSE w.enabled \ {code.v})
    BY <1>3 DEF HandleConfigKey
  <2> DEFINE S == IF down THEN w.enabled \cup {code.v} ELSE w.enabled \ {code.v}
  <2> HIDE DEF v, S
  <2>2. v = SetEnabled(FireCurrentModifiers(w, pt), S)
    BY <2>1 DEF S
  <2>3. Sends(w, v)
    BY <2>2, <1>2
  <2> QED BY <2>3 DEF v
<1>4. CASE code.t # "VK_CONFIG_SYNC_KEYDOWNUP" /\ ~down
  <2>1. v = w
    BY <1>4 DEF HandleConfigKey
  <2> QED BY <2>1, SendsNothing
<1>5. CASE code.t # "VK_CONFIG_SYNC_KEYDOWNUP" /\ down
  <2>1. \E S : v = SetEnabled(w, S)
    <3>1. v \in {SetEnabled(w, IF code.v \in w.enabled THEN w.enabled \ {code.v} ELSE w.enabled \cup {code.v}),
                 SetEnabled(w, w.enabled \cup {code.v}), SetEnabled(w, w.enabled \ {code.v})}
      BY <1>5 DEF HandleConfigKey, ConfigKeys
    <3> HIDE DEF v
    <3> QED BY <3>1
  <2> HIDE DEF v
  <2>2. Sends(w, v)
    BY <2>1, <1>1
  <2> QED BY <2>2 DEF v
<1> QED
  BY <1>3, <1>4, <1>5

\* What an event of a code adds to the lazy count of a flag.
LazyBy(code, type, repeat, f) ==
    IF repeat \/ code # Code("VK_LAZY", f) THEN 0 ELSE IF type = "DOWN" THEN 1 ELSE -1

\* A key is sent: all that counts is a lazy modifier.
SendsKey(w, v, code, type, repeat) ==
    /\ OutputType(v) /\ Behind(v) = Behind(w) /\ v.rep = w.rep /\ v.bs = w.bs
    /\ \A f \in Countable : /\ v.fs[f].count_ = w.fs[f].count_
                            /\ v.fs[f].lazy_count_ = w.fs[f].lazy_count_ + LazyBy(code, type, repeat, f)

\* A code that is no lazy modifier counts nothing.
LEMMA SendsOtherKey ==
    ASSUME NEW w, OutputType(w), NEW v, Sends(w, v), NEW code, NEW type, NEW repeat, repeat \/ code.t # "VK_LAZY"
    PROVE  SendsKey(w, v, code, type, repeat)
<1>1. \A f : LazyBy(code, type, repeat, f) = 0
  BY DEF LazyBy, Code
<1>2. \A f \in Countable : w.fs[f].lazy_count_ \in Int
  BY DEF OutputType, FlagStatuses, FlagItems, Countable
<1> QED
  BY <1>1, <1>2 DEF Sends, SendsKey, SameCounts, SameFlagCounts

\* More is sent after a key.
LEMMA SendsKeyAndMore ==
    ASSUME NEW w, NEW v, NEW u, NEW code, NEW type, NEW repeat, SendsKey(w, v, code, type, repeat), Sends(v, u)
    PROVE  SendsKey(w, u, code, type, repeat)
BY DEF Sends, SendsKey, SameCounts, SameFlagCounts

\* VirtualKey::handle: only a lazy modifier is counted.
LEMMA HandleVirtualKeySends ==
    ASSUME NEW w, OutputType(w), NEW code \in Codes, code.t \in VirtualKeys, NEW type, NEW repeat \in BOOLEAN, NEW pt
    PROVE  SendsKey(w, HandleVirtualKey(w, code, type, repeat, pt), code, type, repeat)
<1> DEFINE down == type = "DOWN"
           v == HandleVirtualKey(w, code, type, repeat, pt)
<1>1. CASE code.t \in FlagKeys
  <2> DEFINE a == IF down /\ ~repeat THEN [w EXCEPT !.fs = FlagMethod(w.fs, code)] ELSE w
  <2>1. v = FireCurrentModifiers(a, pt)
    BY <1>1 DEF HandleVirtualKey, FlagKeys, ConfigKeys
  <2>2. Sends(w, a)
    <3>1. w.fs \in FlagStatuses
      BY DEF OutputType
    <3>2. Sends(w, [w EXCEPT !.fs = FlagMethod(w.fs, code)])
      BY <3>1, <1>1, FlagMethodType, SetFlags
    <3> QED BY <3>2, SendsNothing
  <2> HIDE DEF a, v
  <2>3. Sends(w, v)
    BY <2>1, <2>2, FireCurrentModifiersSends, SendsTwice DEF Sends
  <2>4. code.t # "VK_LAZY"
    BY <1>1 DEF FlagKeys
  <2> QED BY <2>3, <2>4, SendsOtherKey DEF v
<1>2. CASE code.t = "VK_LAZY"
  <2>1. CASE repeat
    <3>1. v = w
      BY <1>2, <2>1 DEF HandleVirtualKey, FlagKeys
    <3> QED BY <3>1, <2>1, SendsNothing, SendsOtherKey
  <2>2. CASE ~repeat
    <3> DEFINE fs == IF down THEN LazyIncrease(w.fs, {code.v}) ELSE LazyDecrease(w.fs, {code.v})
    <3>1. v = [w EXCEPT !.fs = fs]
      BY <1>2, <2>2 DEF HandleVirtualKey, FlagKeys, ConfigKeys
    <3>2. w.fs \in FlagStatuses
      BY DEF OutputType
    <3>3. \A f : f \in {code.v} <=> code = Code("VK_LAZY", f)
      <4>1. code = Code("VK_LAZY", code.v)
        BY <1>2, CodeParts
      <4> QED BY <4>1 DEF Code
    <3>4. /\ fs \in FlagStatuses
          /\ \A f \in Countable : /\ fs[f].count_ = w.fs[f].count_
                                  /\ fs[f].lazy_count_ = w.fs[f].lazy_count_ + LazyBy(code, type, repeat, f)
      <4>1. CASE down
        <5>1. \A f : LazyBy(code, type, repeat, f) = Bit(f \in {code.v})
          BY <4>1, <2>2, <3>3 DEF LazyBy, Bit
        <5> QED BY <4>1, <5>1, <3>2, LazyChange
      <4>2. CASE ~down
        <5>1. \A f : LazyBy(code, type, repeat, f) = -Bit(f \in {code.v}) /\ Bit(f \in {code.v}) \in Int
          BY <4>2, <2>2, <3>3 DEF LazyBy, Bit
        <5>2. \A f \in Countable : w.fs[f].lazy_count_ \in Int
          BY <3>2 DEF FlagStatuses, FlagItems, Countable
        <5>3. /\ fs \in FlagStatuses
              /\ \A f \in Countable : /\ fs[f].count_ = w.fs[f].count_
                                      /\ fs[f].lazy_count_ = w.fs[f].lazy_count_ - Bit(f \in {code.v})
          BY <4>2, <3>2, LazyChange
        <5> HIDE DEF fs
        <5> QED BY <5>1, <5>2, <5>3
      <4> QED BY <4>1, <4>2
    <3> HIDE DEF fs
    <3> DEFINE u == [w EXCEPT !.fs = fs]
    <3>5. OutputType(u) /\ Behind(u) = Behind(w) /\ u.rep = w.rep /\ u.bs = w.bs /\ u.fs = fs
      BY <3>4, SetFlags
    <3> HIDE DEF u
    <3>6. SendsKey(w, u, code, type, repeat)
      BY <3>4, <3>5 DEF SendsKey
    <3> QED BY <3>1, <3>6 DEF u
  <2> QED BY <2>1, <2>2
<1>3. CASE code.t \in ConfigKeys
  <2>1. v = IF repeat THEN w ELSE HandleConfigKey(w, code, down, pt)
    BY <1>3 DEF HandleVirtualKey, FlagKeys, ConfigKeys
  <2>2. Sends(w, HandleConfigKey(w, code, down, pt))
    BY <1>3, HandleConfigKeySends
  <2>3. Sends(w, v)
    BY <2>1, <2>2, SendsNothing
  <2>4. code.t # "VK_LAZY"
    BY <1>3 DEF ConfigKeys
  <2> HIDE DEF v
  <2> QED BY <2>3, <2>4, SendsOtherKey DEF v
<1>4. CASE code.t = "drop"
  <2>1. v = w
    BY <1>4 DEF HandleVirtualKey, FlagKeys, ConfigKeys
  <2> QED BY <2>1, <1>4, SendsNothing, SendsOtherKey
<1> QED
  BY <1>1, <1>2, <1>3, <1>4 DEF VirtualKeys

-----------------------------------------------------------------------------
(* FireKey *)

\* The modifiers that go before a key.
LEMMA FireKeyModifiersSends ==
    ASSUME NEW w, OutputType(w), NEW code, NEW type, NEW flags \in SUBSET Flags, NEW pt
    PROVE  Sends(w, FireKeyModifiers(w, code, type, flags, pt))
<1> DEFINE up == w.out.ignoreUp /\ ~IsKeyDown(code, type, flags)
           a == [w EXCEPT !.out.ignoreUp = up]
<1>1. Sends(w, a)
  <2>1. up \in BOOLEAN
    BY DEF IsKeyDown
  <2> HIDE DEF up
  <2> QED BY <2>1, SetOut
<1>2. FireKeyModifiers(w, code, type, flags, pt) = IF type = "UP" THEN w ELSE FireModifiers(a, pt, flags)
  BY DEF FireKeyModifiers
<1> HIDE DEF a
<1>3. Sends(w, FireModifiers(a, pt, flags))
  BY <1>1, FireModifiersSends, SendsTwice DEF Sends
<1> QED
  BY <1>2, <1>3, SendsNothing

\* A modifier is no key of its own for the output.
LEMMA PushUnlessModifierSends ==
    ASSUME NEW w, OutputType(w), NEW code, NEW type, NEW repeat
    PROVE  Sends(w, PushUnlessModifier(w, code, type, repeat))
<1>1. Sends(w, PushKey(w, code, type))
  BY PushKeySends
<1>2. \A x : OutputType(x) => Sends(x, KeepDown(x, code, type, repeat))
  BY SetOut, SendsNothing DEF KeepDown
<1>3. Sends(w, KeepDown(PushKey(w, code, type), code, type, repeat))
  BY <1>1, <1>2, SendsTwice DEF Sends
<1> QED
  BY <1>3, SendsNothing DEF PushUnlessModifier

\* FireKey::fire: only a lazy modifier is counted.
LEMMA FireKeySends ==
    ASSUME NEW w, OutputType(w), NEW code \in Codes, NEW type, NEW flags \in SUBSET Flags, NEW repeat \in BOOLEAN, NEW pt
    PROVE  SendsKey(w, FireKey(w, code, type, flags, repeat, pt), code, type, repeat)
<1> DEFINE v == FireKey(w, code, type, flags, repeat, pt)
<1>1. CASE code.t \in VirtualKeys
  <2> DEFINE a == HandleVirtualKey(w, code, type, repeat, pt)
  <2>1. SendsKey(w, a, code, type, repeat)
    BY <1>1, HandleVirtualKeySends
  <2>2. v = Sent(a, code, type)
    BY <1>1 DEF FireKey, VK_NONE, VK_PSEUDO_KEY, Code, VirtualKeys, FlagKeys, ConfigKeys
  <2> HIDE DEF a
  <2>3. Sends(a, Sent(a, code, type))
    BY <2>1, SentSends DEF SendsKey
  <2> HIDE DEF v
  <2> QED BY <2>1, <2>2, <2>3, SendsKeyAndMore DEF v
<1>2. CASE code.t \notin VirtualKeys
  <2>1. code.t # "VK_LAZY"
    BY <1>2 DEF VirtualKeys
  <2>2. Sends(w, v)
    <3>1. CASE code \in {VK_NONE, VK_PSEUDO_KEY}
      <4>1. v = w
        BY <1>2, <3>1 DEF FireKey
      <4> QED BY <4>1, SendsNothing
    <3>2. CASE code \notin {VK_NONE, VK_PSEUDO_KEY}
      <4> DEFINE a == FireKeyModifiers(w, code, type, flags, pt)
      <4>1. v = PushUnlessModifier(a, code, type, repeat)
        BY <1>2, <3>2 DEF FireKey
      <4>2. Sends(w, a)
        BY FireKeyModifiersSends
      <4> HIDE DEF a, v
      <4> QED BY <4>1, <4>2, PushUnlessModifierSends, SendsTwice DEF Sends
    <3> QED BY <3>1, <3>2
  <2> HIDE DEF v
  <2>3. SendsKey(w, v, code, type, repeat)
    BY <2>1, <2>2, SendsOtherKey
  <2> QED BY <2>3 DEF v
<1> QED
  BY <1>1, <1>2

-----------------------------------------------------------------------------
(* KeyboardRepeat *)

\* What an entry of the queue adds to the lazy count of a flag.
EntryLazy(e, f) == IF e.type = "BUTTONS" THEN 0 ELSE LazyBy(e.code, e.type, FALSE, f)

\* Presses and releases: what the one does to a lazy modifier the other undoes.
PairAt(q, j) == \A f \in Countable : EntryLazy(q[2 * j - 1], f) + EntryLazy(q[2 * j], f) = 0
Paired(q) == \E m \in Nat : Len(q) = 2 * m /\ \A j \in 1..m : PairAt(q, j)

\* What is repeated is a single press, or presses and releases.
Repeatable(q) == Len(q) = 1 \/ Paired(q)
KeepsRepeatable(w, v) == v.rep.q = w.rep.q \/ Repeatable(v.rep.q)

\* One world leads to another by what is sent and repeated.
Acts(w, v) == OutputType(v) /\ Behind(v) = Behind(w) /\ KeepsRepeatable(w, v)
Keeps(w, v) == Acts(w, v) /\ SameCounts(w, v)

\* One act after another.
LEMMA ActsTwice ==
    ASSUME NEW u, NEW v, NEW w, Acts(u, v), Acts(v, w)
    PROVE  Acts(u, w)
BY DEF Acts, KeepsRepeatable

\* Counts are kept, and kept again.
LEMMA KeepsTwice ==
    ASSUME NEW u, NEW v, NEW w, Keeps(u, v), Keeps(v, w)
    PROVE  Keeps(u, w)
<1>1. SameCounts(u, w)
  BY DEF Keeps, SameCounts, SameFlagCounts
<1> QED
  BY <1>1, ActsTwice DEF Keeps

\* Output keeps the list of KeyboardRepeat.
LEMMA SendsKeeps ==
    ASSUME NEW w, NEW v, Sends(w, v)
    PROVE  Keeps(w, v)
BY DEF Sends, Keeps, Acts, KeepsRepeatable

\* Nothing happens.
LEMMA KeepsNothing ==
    ASSUME NEW w, OutputType(w)
    PROVE  Keeps(w, w)
BY SendsNothing, SendsKeeps

\* The empty list of KeyboardRepeat.
LEMMA EmptyPaired == Paired(<<>>) /\ <<>> \in Seq(Entries)
<1>1. Len(<<>>) = 2 * 0 /\ \A j \in 1..0 : PairAt(<<>>, j)
  OBVIOUS
<1> QED
  BY <1>1 DEF Paired

\* KeyboardRepeat is replaced.
LEMMA SetRep ==
    ASSUME NEW w, OutputType(w), NEW on, NEW mine, NEW q \in Seq(Entries)
    PROVE  LET v == [w EXCEPT !.rep = [on |-> on, q |-> q, mine |-> mine]]
           IN  OutputType(v) /\ Behind(v) = Behind(w) /\ SameCounts(w, v) /\ v.rep.q = q /\ v.fs = w.fs /\ v.bs = w.bs
<1> DEFINE rep == [on |-> on, q |-> q, mine |-> mine]
           v == [w EXCEPT !.rep = rep]
<1>1. rep = [x \in {"on", "q", "mine"} |-> rep[x]] /\ rep.q = q
  OBVIOUS
<1> HIDE DEF rep
<1>2. OutputType(v) /\ Behind(v) = Behind(w) /\ v.rep = rep /\ v.fs = w.fs /\ v.bs = w.bs
  BY <1>1 DEF OutputType, Behind, Fields
<1> HIDE DEF v
<1>3. SameCounts(w, v)
  BY <1>2 DEF SameCounts, SameFlagCounts
<1> QED
  BY <1>1, <1>2, <1>3 DEF v, rep

\* KeyboardRepeat::cancel.
LEMMA CancelRepeatKeeps ==
    ASSUME NEW w, OutputType(w)
    PROVE  /\ Keeps(w, CancelRepeat(w)) /\ CancelRepeat(w).rep.q = <<>> 
           /\ CancelRepeat(w).fs = w.fs /\ CancelRepeat(w).bs = w.bs
<1> DEFINE v == [w EXCEPT !.rep = [on |-> FALSE, q |-> <<>>, mine |-> {}]]
<1>1. OutputType(v) /\ Behind(v) = Behind(w) /\ SameCounts(w, v) /\ v.rep.q = <<>> /\ v.fs = w.fs /\ v.bs = w.bs
  <2>1. \A q \in Seq(Entries) : LET u == [w EXCEPT !.rep = [on |-> FALSE, q |-> q, mine |-> {}]]
           IN  OutputType(u) /\ Behind(u) = Behind(w) /\ SameCounts(w, u) /\ u.rep.q = q /\ u.fs = w.fs /\ u.bs = w.bs
    BY SetRep
  <2> QED BY <2>1, EmptyPaired, Zenon
<1>2. CancelRepeat(w) = v
  BY DEF CancelRepeat
<1> HIDE DEF v
<1> QED
  BY <1>1, <1>2, EmptyPaired DEF Keeps, Acts, KeepsRepeatable, Repeatable

\* KeyboardRepeat::cancel, if a condition holds.
LEMMA CancelRepeatIfKeeps ==
    ASSUME NEW w, OutputType(w), NEW ends
    PROVE  Keeps(w, CancelRepeatIf(ends, w))
BY CancelRepeatKeeps, KeepsNothing DEF CancelRepeatIf

\* The fields of KeyboardRepeat.
LEMMA RepFields ==
    ASSUME NEW r, r = [x \in {"on", "q", "mine"} |-> r[x]], NEW on, NEW mine
    PROVE  [r EXCEPT !.on = on, !.mine = mine] = [on |-> on, q |-> r.q, mine |-> mine]
<1> DEFINE a == [r EXCEPT !.on = on]
<1>1. a = [on |-> on, q |-> r.q, mine |-> r.mine]
  OBVIOUS
<1> HIDE DEF a
<1>2. [a EXCEPT !.mine = mine] = [on |-> on, q |-> r.q, mine |-> mine]
  BY <1>1
<1> QED
  BY <1>2 DEF a

\* The timer of KeyboardRepeat is set.
LEMMA StartRepeatKeeps ==
    ASSUME NEW w, OutputType(w), NEW owners
    PROVE  Keeps(w, StartRepeat(w, owners)) /\ StartRepeat(w, owners).rep.q = w.rep.q
<1> DEFINE v == [w EXCEPT !.rep = [on |-> TRUE, q |-> w.rep.q, mine |-> owners]]
<1>1. w.rep.q \in Seq(Entries)
  BY DEF OutputType
<1>2. OutputType(v) /\ Behind(v) = Behind(w) /\ SameCounts(w, v) /\ v.rep.q = w.rep.q
  BY <1>1, SetRep
<1>3. StartRepeat(w, owners) = v
  <2>1. w.rep = [x \in {"on", "q", "mine"} |-> w.rep[x]]
    BY DEF OutputType
  <2>2. [w.rep EXCEPT !.on = TRUE, !.mine = owners] = [on |-> TRUE, q |-> w.rep.q, mine |-> owners]
    BY <2>1, RepFields, Zenon
  <2>3. StartRepeat(w, owners) = [w EXCEPT !.rep = [w.rep EXCEPT !.on = TRUE, !.mine = owners]]
    BY DEF StartRepeat, OutputType, Fields
  <2> QED BY <2>2, <2>3
<1> HIDE DEF v
<1> QED
  BY <1>2, <1>3 DEF Keeps, Acts, KeepsRepeatable

\* An entry is added to the queue.
Entry(code, type, flags) == [code |-> code, type |-> type, flags |-> flags]

\* KeyboardRepeat::primitive_add.
LEMMA AddRepeatAdds ==
    ASSUME NEW w, OutputType(w), NEW code, NEW type, NEW flags, Entry(code, type, flags) \in Entries
    PROVE  /\ OutputType(AddRepeat(w, code, type, flags)) /\ Behind(AddRepeat(w, code, type, flags)) = Behind(w)
           /\ SameCounts(w, AddRepeat(w, code, type, flags))
           /\ AddRepeat(w, code, type, flags).rep.q =
                 IF code = VK_NONE THEN w.rep.q ELSE Append(w.rep.q, Entry(code, type, flags))
           /\ code = VK_NONE => AddRepeat(w, code, type, flags) = w
<1> DEFINE q == Append(w.rep.q, Entry(code, type, flags))
           u == [w EXCEPT !.rep = [on |-> w.rep.on, q |-> q, mine |-> w.rep.mine]]
<1>1. q \in Seq(Entries)
  BY DEF OutputType
<1> HIDE DEF q
<1>2. OutputType(u) /\ Behind(u) = Behind(w) /\ SameCounts(w, u) /\ u.rep.q = q
  BY <1>1, SetRep
<1>3. code # VK_NONE => AddRepeat(w, code, type, flags) = u
  <2>1. w.rep = [x \in {"on", "q", "mine"} |-> w.rep[x]]
    BY DEF OutputType
  <2>2. [w.rep EXCEPT !.q = q] = [on |-> w.rep.on, q |-> q, mine |-> w.rep.mine]
    BY <2>1
  <2>3. code # VK_NONE => AddRepeat(w, code, type, flags) = [w EXCEPT !.rep = [w.rep EXCEPT !.q = q]]
    BY DEF AddRepeat, OutputType, Fields, Entry, q
  <2> QED BY <2>2, <2>3
<1>4. code = VK_NONE => AddRepeat(w, code, type, flags) = w
  BY DEF AddRepeat
<1>5. SameCounts(w, w)
  BY DEF SameCounts, SameFlagCounts
<1> HIDE DEF u
<1> QED
  BY <1>2, <1>3, <1>4, <1>5 DEF q

\* A list of one entry.
LEMMA AddToEmpty == \A e \in Entries : Len(Append(<<>>, e)) = 1
OBVIOUS

\* KeyboardRepeat::set.
LEMMA SetRepeatKeeps ==
    ASSUME NEW w, OutputType(w), NEW code \in Codes, NEW type \in {"DOWN", "UP", "MODIFY"}, NEW flags \in SUBSET Flags
    PROVE  Keeps(w, SetRepeat(w, code, type, flags))
<1> DEFINE v == SetRepeat(w, code, type, flags)
<1>1. Keeps(w, w) /\ Keeps(w, CancelRepeat(w))
  BY KeepsNothing, CancelRepeatKeeps
<1>2. CASE code = VK_NONE \/ type \in {"MODIFY", "UP"}
  <2>1. v \in {w, CancelRepeat(w)}
    BY <1>2 DEF SetRepeat
  <2> HIDE DEF v
  <2>2. Keeps(w, v)
    BY <2>1, <1>1
  <2> QED BY <2>2 DEF v
<1>3. CASE code # VK_NONE /\ type = "DOWN"
  <2> DEFINE a == CancelRepeat(w)
             b == AddRepeat(a, code, type, flags)
  <2>1. v = StartRepeat(b, {})
    BY <1>3 DEF SetRepeat
  <2>2. Keeps(w, a) /\ OutputType(a) /\ a.rep.q = <<>>
    BY CancelRepeatKeeps DEF Keeps, Acts
  <2>3. Entry(code, type, flags) \in Entries
    BY <1>3 DEF Entry, Entries
  <2> HIDE DEF a
  <2>4. OutputType(b) /\ Behind(b) = Behind(a) /\ SameCounts(a, b) /\ b.rep.q = Append(<<>>, Entry(code, type, flags))
    <3>1. OutputType(b) /\ Behind(b) = Behind(a) /\ SameCounts(a, b)
          /\ (b.rep.q = IF code = VK_NONE THEN a.rep.q ELSE Append(a.rep.q, Entry(code, type, flags)))
      <4> DEFINE e == Entry(code, type, flags)
      <4>1. OutputType(a) /\ e \in Entries
        BY <2>2, <2>3
      <4>2. OutputType(AddRepeat(a, code, type, flags))
        BY <4>1, AddRepeatAdds
      <4>3. Behind(AddRepeat(a, code, type, flags)) = Behind(a)
        BY <4>1, AddRepeatAdds
      <4>4. SameCounts(a, AddRepeat(a, code, type, flags))
        BY <4>1, AddRepeatAdds
      <4>5. AddRepeat(a, code, type, flags).rep.q = IF code = VK_NONE THEN a.rep.q ELSE Append(a.rep.q, Entry(code, type, flags))
        BY <4>1, AddRepeatAdds
      <4> QED BY <4>2, <4>3, <4>4, <4>5
    <3> HIDE DEF b
    <3> QED BY <3>1, <2>2, <1>3, Zenon
  <2> HIDE DEF b, v
  <2>5. Keeps(a, b)
    BY <2>3, <2>4, AddToEmpty DEF Keeps, Acts, KeepsRepeatable, Repeatable
  <2>6. Keeps(b, v)
    BY <2>1, <2>4, StartRepeatKeeps
  <2>7. Keeps(w, v)
    BY <2>2, <2>5, <2>6, KeepsTwice
  <2> QED BY <2>7 DEF v
<1> QED
  BY <1>2, <1>3

-----------------------------------------------------------------------------
(* The repetition *)

RepeatStep(a, e, once, q, r, t) ==
    IF e.type = "BUTTONS" THEN FireRelativePointer(a, "DOWN", e.flags, FALSE)
    ELSE FireKey(a, e.code, e.type, e.flags, once, "DOWN")

RepeatedSoFar(n, a, w) ==
    /\ OutputType(a) /\ Behind(a) = Behind(w) /\ a.rep = w.rep /\ a.bs = w.bs
    /\ \A f \in Countable : a.fs[f].count_ = w.fs[f].count_
    /\ \A f \in Countable : Len(w.rep.q) = 1 => a.fs[f].lazy_count_ = w.fs[f].lazy_count_
    /\ \A f \in Countable : \A j \in Nat : Len(w.rep.q) # 1 =>
          /\ n = 2 * j => a.fs[f].lazy_count_ = w.fs[f].lazy_count_
          /\ n = 2 * j + 1 => a.fs[f].lazy_count_ = w.fs[f].lazy_count_ + EntryLazy(w.rep.q[n], f)

Repeating == INSTANCE FoldProofs WITH Op <- RepeatStep, I <- RepeatedSoFar

\* One entry of the list is sent by the timer.
LEMMA RepeatStepSends ==
    ASSUME NEW w, OutputType(w), NEW e \in Entries, NEW once \in BOOLEAN
    PROVE  LET v == RepeatStep(w, e, once, 0, 0, 0)
           IN  /\ OutputType(v) /\ Behind(v) = Behind(w) /\ v.rep = w.rep /\ v.bs = w.bs
               /\ \A f \in Countable :
                     /\ v.fs[f].count_ = w.fs[f].count_
                     /\ v.fs[f].lazy_count_ = w.fs[f].lazy_count_ + IF once THEN 0 ELSE EntryLazy(e, f)
<1> DEFINE v == RepeatStep(w, e, once, 0, 0, 0)
<1>1. e.code \in Codes /\ e.flags \subseteq (IF e.type = "BUTTONS" THEN Buttons ELSE Flags)
  BY DEF Entries
<1>2. \A f \in Countable : w.fs[f].lazy_count_ \in Int
  BY DEF OutputType, FlagStatuses, FlagItems, Countable
<1>3. CASE e.type = "BUTTONS"
  <2>1. v = FireRelativePointer(w, "DOWN", e.flags, FALSE)
    BY <1>3 DEF RepeatStep
  <2> HIDE DEF v
  <2>2. Sends(w, v)
    BY <2>1, <1>1, <1>3, FireRelativePointerSends
  <2>3. \A f : EntryLazy(e, f) = 0
    BY <1>3 DEF EntryLazy
  <2> QED BY <2>2, <2>3, <1>2 DEF Sends, SameCounts, SameFlagCounts, v
<1>4. CASE e.type # "BUTTONS"
  <2>1. v = FireKey(w, e.code, e.type, e.flags, once, "DOWN")
    BY <1>4 DEF RepeatStep
  <2> HIDE DEF v
  <2>2. SendsKey(w, v, e.code, e.type, once)
    BY <2>1, <1>1, <1>4, FireKeySends
  <2>3. \A f : LazyBy(e.code, e.type, once, f) = IF once THEN 0 ELSE EntryLazy(e, f)
    BY <1>4 DEF EntryLazy, LazyBy
  <2> QED BY <2>2, <2>3 DEF SendsKey, v
<1> QED
  BY <1>3, <1>4

\* KeyboardRepeat::fire_timer_callback: the lazy modifiers that go down also
\* come up, for the list holds them in pairs.
LEMMA FireRepeatKeeps ==
    ASSUME NEW w, OutputType(w), Repeatable(w.rep.q)
    PROVE  Keeps(w, FireRepeat(w))
<1> DEFINE q == w.rep.q
           n == Len(q)
           once == n = 1
           v == FireRepeat(w)
<1>1. q \in Seq(Entries) /\ n \in Nat /\ DOMAIN q = 1..n /\ \A k \in 1..n : q[k] \in Entries
  BY DEF OutputType
<1>2. v = Repeating!Fold(w, q, once, 0, 0, 0)
  BY DEF FireRepeat, Repeating!Fold, RepeatStep, FoldLeft, MapThenFoldSet, Repeating!MapThenFoldSet, Max
<1> HIDE DEF v
<1>3. \A f \in Countable : w.fs[f].lazy_count_ \in Int
  BY DEF OutputType, FlagStatuses, FlagItems, Countable
<1>4. \A j \in Nat : 0 # 2 * j + 1
  OBVIOUS
<1>5. RepeatedSoFar(0, w, w)
  BY <1>4 DEF RepeatedSoFar
<1>6. \A e, f : EntryLazy(e, f) \in Int
  BY DEF EntryLazy, LazyBy
<1>7. ASSUME NEW k \in 1..n, NEW a, RepeatedSoFar(k - 1, a, w)
      PROVE  RepeatedSoFar(k, RepeatStep(a, q[k], once, 0, 0, 0), w)
  <2> DEFINE b == RepeatStep(a, q[k], once, 0, 0, 0)
  <2>1. /\ OutputType(b) /\ Behind(b) = Behind(a) /\ b.rep = a.rep /\ b.bs = a.bs
        /\ \A f \in Countable : /\ b.fs[f].count_ = a.fs[f].count_
                                /\ b.fs[f].lazy_count_ = a.fs[f].lazy_count_ + IF once THEN 0 ELSE EntryLazy(q[k], f)
    <3>1. OutputType(a) /\ q[k] \in Entries /\ once \in BOOLEAN
      BY <1>1, <1>7 DEF RepeatedSoFar
    <3> HIDE DEF q, once
    <3> QED BY <3>1, RepeatStepSends
  <2> HIDE DEF b
  <2>2. /\ OutputType(b) /\ Behind(b) = Behind(w) /\ b.rep = w.rep /\ b.bs = w.bs
        /\ \A f \in Countable : b.fs[f].count_ = w.fs[f].count_
    BY <2>1, <1>7 DEF RepeatedSoFar
  <2>3. ASSUME NEW f \in Countable, once
        PROVE  b.fs[f].lazy_count_ = w.fs[f].lazy_count_
    BY <2>1, <2>3, <1>3, <1>7 DEF RepeatedSoFar
  <2>4. ASSUME NEW f \in Countable, NEW j \in Nat, ~once
        PROVE  /\ k = 2 * j => b.fs[f].lazy_count_ = w.fs[f].lazy_count_
               /\ k = 2 * j + 1 => b.fs[f].lazy_count_ = w.fs[f].lazy_count_ + EntryLazy(q[k], f)
    <3>1. b.fs[f].lazy_count_ = a.fs[f].lazy_count_ + EntryLazy(q[k], f)
      BY <2>1, <2>4
    <3>2. CASE k = 2 * j
      <4>1. j - 1 \in Nat /\ k - 1 = 2 * (j - 1) + 1
        BY <3>2, <1>1, <2>4
      <4>2. a.fs[f].lazy_count_ = w.fs[f].lazy_count_ + EntryLazy(q[k - 1], f)
        BY <4>1, <1>7, <2>4 DEF RepeatedSoFar
      <4>3. EntryLazy(q[k - 1], f) + EntryLazy(q[k], f) = 0
        <5>1. Paired(q)
          BY <2>4 DEF Repeatable
        <5>2. PICK m \in Nat : n = 2 * m /\ \A i \in 1..m : PairAt(q, i)
          BY <5>1 DEF Paired
        <5>3. j \in 1..m
          BY <5>2, <4>1, <3>2, <1>1
        <5>4. PairAt(q, j) /\ 2 * j - 1 = k - 1
          BY <5>2, <5>3, <3>2
        <5> QED BY <5>4, <3>2 DEF PairAt
      <4>4. w.fs[f].lazy_count_ \in Int /\ EntryLazy(q[k - 1], f) \in Int /\ EntryLazy(q[k], f) \in Int
        BY <1>3, <1>6
      <4>5. b.fs[f].lazy_count_ = w.fs[f].lazy_count_
        BY <3>1, <4>2, <4>3, <4>4
      <4>6. k # 2 * j + 1
        BY <3>2
      <4> QED BY <4>5, <4>6
    <3>3. CASE k = 2 * j + 1
      <4>1. k - 1 = 2 * j
        BY <3>3
      <4>2. a.fs[f].lazy_count_ = w.fs[f].lazy_count_
        BY <4>1, <1>7, <2>4 DEF RepeatedSoFar
      <4>3. k # 2 * j
        BY <3>3
      <4> QED BY <3>1, <4>2, <4>3
    <3> QED BY <3>2, <3>3
  <2>5. RepeatedSoFar(k, b, w)
    BY <2>2, <2>3, <2>4 DEF RepeatedSoFar
  <2> QED BY <2>5 DEF b
<1>8. RepeatedSoFar(n, v, w)
  <2> HIDE DEF q, n, once
  <2>1. \A k \in 1..n : \A a : RepeatedSoFar(k - 1, a, w) => RepeatedSoFar(k, RepeatStep(a, q[k], once, 0, 0, 0), w)
    BY <1>7
  <2> QED BY <1>1, <1>2, <1>5, <2>1, Repeating!FoldMaintains
<1>9. \A f \in Countable : v.fs[f].lazy_count_ = w.fs[f].lazy_count_
  <2>1. CASE n = 1
    BY <2>1, <1>8 DEF RepeatedSoFar
  <2>2. CASE n # 1
    <3>1. PICK m \in Nat : n = 2 * m
      BY <2>2 DEF Repeatable, Paired
    <3> QED BY <2>2, <3>1, <1>8 DEF RepeatedSoFar
  <2> QED BY <2>1, <2>2
<1> QED
  BY <1>8, <1>9 DEF RepeatedSoFar, Keeps, Acts, KeepsRepeatable, SameCounts, SameFlagCounts, v

-----------------------------------------------------------------------------
(* ToEvent *)

\* What an event of a key adds to a button.
ButtonBy(code, type, b) == IF code # Code("button", b) THEN 0 ELSE IF type = "DOWN" THEN 1 ELSE -1

\* A key is fired, whatever it is.
FiresSingle(w, v, code, type) ==
    /\ Acts(w, v)
    /\ \A f \in Countable : /\ v.fs[f].count_ = w.fs[f].count_
                            /\ v.fs[f].lazy_count_ = w.fs[f].lazy_count_ + LazyBy(code, type, FALSE, f)
    /\ \A b \in Buttons : v.bs[b] = w.bs[b] + ButtonBy(code, type, b)

\* Something that counts nothing comes after a key.
LEMMA FiresThenKeeps ==
    ASSUME NEW w, NEW v, NEW u, NEW code, NEW type, FiresSingle(w, v, code, type), Keeps(v, u)
    PROVE  FiresSingle(w, u, code, type)
<1>1. Acts(w, u)
  BY ActsTwice DEF FiresSingle, Keeps
<1> QED
  BY <1>1 DEF FiresSingle, Keeps, SameCounts, SameFlagCounts

\* ... or before it.
LEMMA KeepsThenFires ==
    ASSUME NEW w, NEW v, NEW u, NEW code, NEW type, Keeps(w, v), FiresSingle(v, u, code, type)
    PROVE  FiresSingle(w, u, code, type)
<1>1. Acts(w, u)
  BY ActsTwice DEF FiresSingle, Keeps
<1> QED
  BY <1>1 DEF FiresSingle, Keeps, SameCounts, SameFlagCounts

\* The current flags.
LEMMA MakeFlagsType == \A fs : MakeFlags(fs) \in SUBSET Flags
BY DEF MakeFlags

\* ToEvent::fire of a key.
LEMMA FireToKeyFires ==
    ASSUME NEW w, OutputType(w), NEW code \in Codes, code.t # "button", NEW type \in {"DOWN", "UP", "MODIFY"},
           NEW flags \in SUBSET Flags, NEW pt, NEW addToRepeat
    PROVE  FiresSingle(w, FireToKey(w, code, type, flags, pt, addToRepeat), code, type)
<1> DEFINE a == FireKey(w, code, type, flags, FALSE, pt)
           v == FireToKey(w, code, type, flags, pt, addToRepeat)
<1>1. SendsKey(w, a, code, type, FALSE)
  BY FireKeySends
<1>2. v = IF addToRepeat THEN SetRepeat(a, code, type, flags) ELSE a
  BY DEF FireToKey, SetRepeatIf
<1> HIDE DEF a, v
<1>3. FiresSingle(w, a, code, type)
  <2>1. \A b : ButtonBy(code, type, b) = 0
    BY DEF ButtonBy, Code
  <2>2. \A b \in Buttons : w.bs[b] \in Int
    BY DEF OutputType
  <2>3. \A b \in Buttons : a.bs[b] = w.bs[b] + ButtonBy(code, type, b)
    <3>1. a.bs = w.bs
      BY <1>1 DEF SendsKey
    <3> QED BY <3>1, <2>1, <2>2
  <2>4. Acts(w, a)
    BY <1>1 DEF SendsKey, Acts, KeepsRepeatable
  <2>5. \A f \in Countable : /\ a.fs[f].count_ = w.fs[f].count_
                              /\ a.fs[f].lazy_count_ = w.fs[f].lazy_count_ + LazyBy(code, type, FALSE, f)
    BY <1>1 DEF SendsKey
  <2> QED BY <2>3, <2>4, <2>5, Zenon DEF FiresSingle
<1>4. Keeps(a, SetRepeat(a, code, type, flags))
  BY <1>1, SetRepeatKeeps DEF SendsKey
<1>5. FiresSingle(w, SetRepeat(a, code, type, flags), code, type)
  BY <1>3, <1>4, FiresThenKeeps
<1> QED
  BY <1>2, <1>3, <1>5 DEF v

\* ButtonStatus::increase and ButtonStatus::decrease.
LEMMA ButtonsChange ==
    ASSUME NEW bs \in [Buttons -> Int], NEW B
    PROVE  /\ IncreaseButtons(bs, B) \in [Buttons -> Int]
           /\ DecreaseButtons(bs, B) \in [Buttons -> Int]
           /\ \A b \in Buttons : /\ IncreaseButtons(bs, B)[b] = bs[b] + Bit(b \in B)
                                 /\ DecreaseButtons(bs, B)[b] = bs[b] - Bit(b \in B)
BY DEF IncreaseButtons, DecreaseButtons, Bit

\* Which code a button has.
LEMMA ButtonOfCode ==
    ASSUME NEW code \in Codes
    PROVE  \A b : b \in ButtonOf(code) <=> code = Code("button", b)
<1>1. code = Code(code.t, code.v)
  BY CodeParts
<1> QED
  BY <1>1 DEF ButtonOf, Code

\* Which code a modifier has.
LEMMA FlagOfCode ==
    ASSUME NEW code \in Codes
    PROVE  \A f : f \in FlagOf(code) <=> code = Code("mod", f)
<1>1. code = Code(code.t, code.v)
  BY CodeParts
<1> QED
  BY <1>1 DEF FlagOf, Code

\* ToEvent::fire, of a key or of a button.
LEMMA FireFires ==
    ASSUME NEW w, OutputType(w), NEW to \in ToEvents, NEW type \in {"DOWN", "UP", "MODIFY"}, NEW pt, NEW addToRepeat,
           to.code.t = "button" => type # "MODIFY"
    PROVE  FiresSingle(w, Fire(w, to, type, pt, addToRepeat), to.code, type)
<1>1. to.code \in Codes
  BY DEF ToEvents, Codes
<1>2. CASE to.code.t # "button"
  <2>1. Fire(w, to, type, pt, addToRepeat) = FireToKey(w, to.code, type, MakeFlags(w.fs), pt, addToRepeat)
    BY <1>2 DEF Fire
  <2> QED BY <2>1, <1>1, <1>2, MakeFlagsType, FireToKeyFires
<1>3. CASE to.code.t = "button"
  <2> DEFINE bs == IF type = "DOWN" THEN IncreaseButtons(w.bs, {to.code.v}) ELSE DecreaseButtons(w.bs, {to.code.v})
             a == [w EXCEPT !.bs = bs]
  <2>1. Fire(w, to, type, pt, addToRepeat) = FireCurrentButtons(a, pt)
    BY <1>3 DEF Fire
  <2>2. w.bs \in [Buttons -> Int]
    BY DEF OutputType
  <2>3. \A b : b \in {to.code.v} <=> to.code = Code("button", b)
    <3>1. to.code = Code("button", to.code.v)
      BY <1>1, <1>3, CodeParts
    <3> QED BY <3>1 DEF Code
  <2>4. bs \in [Buttons -> Int] /\ \A b \in Buttons : bs[b] = w.bs[b] + ButtonBy(to.code, type, b)
    <3>1. \A b \in Buttons : bs[b] = w.bs[b] + ButtonBy(to.code, type, b)
      BY <2>2, <2>3 DEF ButtonBy, IncreaseButtons, DecreaseButtons
    <3>2. bs \in [Buttons -> Int]
      BY <2>2, ButtonsChange
    <3> QED BY <3>1, <3>2
  <2> HIDE DEF bs
  <2>5. OutputType(a) /\ Behind(a) = Behind(w) /\ a.rep = w.rep /\ a.bs = bs /\ a.fs = w.fs
    BY <2>4, SetButtons
  <2> HIDE DEF a
  <2>6. \A f : LazyBy(to.code, type, FALSE, f) = 0
    BY <1>3 DEF LazyBy, Code
  <2>7. \A f \in Countable : w.fs[f].lazy_count_ \in Int
    BY DEF OutputType, FlagStatuses, FlagItems, Countable
  <2>8. FiresSingle(w, a, to.code, type)
    <3>1. Acts(w, a)
      BY <2>5 DEF Acts, KeepsRepeatable
    <3>2. \A f \in Countable : /\ a.fs[f].count_ = w.fs[f].count_
                                /\ a.fs[f].lazy_count_ = w.fs[f].lazy_count_ + LazyBy(to.code, type, FALSE, f)
      <4>1. a.fs = w.fs
        BY <2>5
      <4>2. \A f \in Countable : w.fs[f].lazy_count_ = w.fs[f].lazy_count_ + LazyBy(to.code, type, FALSE, f)
        <5> TAKE f \in Countable
        <5>1. w.fs[f].lazy_count_ \in Int
          BY <2>7
        <5>2. LazyBy(to.code, type, FALSE, f) = 0
          BY <2>6
        <5>3. \A x \in Int : \A y : y = 0 => x = x + y
          OBVIOUS
        <5> QED BY <5>1, <5>2, <5>3, Zenon
      <4> QED BY <4>1, <4>2, Zenon
    <3>3. \A b \in Buttons : a.bs[b] = w.bs[b] + ButtonBy(to.code, type, b)
      BY <2>4, <2>5
    <3> QED BY <3>1, <3>2, <3>3, Zenon DEF FiresSingle
  <2>9. Keeps(a, FireCurrentButtons(a, pt))
    BY <2>5, FireCurrentButtonsSends, SendsKeeps
  <2> QED BY <2>1, <2>8, <2>9, FiresThenKeeps
<1> QED
  BY <1>2, <1>3

-----------------------------------------------------------------------------
(* fire_downup *)

HalfType(code, down) ==
    CASE code.t = "button" -> "BUTTONS" [] code.t = "mod" -> "MODIFY" [] OTHER -> IF down THEN "DOWN" ELSE "UP"

\* An entry of the queue for one half of a key.
HalfEntry(e, code, down) == e \in Entries /\ e.code = code /\ e.type = HalfType(code, down)

\* A half is fired: a key that is pressed or released.
FiresHalf(w, v, code, down, addToRepeat) ==
    /\ OutputType(v) /\ Behind(v) = Behind(w) /\ v.bs = w.bs
    /\ \A f \in Countable :
          /\ v.fs[f].count_ = w.fs[f].count_
          /\ v.fs[f].lazy_count_ = w.fs[f].lazy_count_ + LazyBy(code, HalfType(code, down), FALSE, f)
    /\ ~addToRepeat => v.rep = w.rep
    /\ \/ v.rep.q = w.rep.q /\ code = VK_NONE
       \/ ~addToRepeat
       \/ \E e : HalfEntry(e, code, down) /\ v.rep.q = Append(w.rep.q, e) /\ code # VK_NONE

\* One half of ToEvent::fire_downup.
LEMMA FireOneFires ==
    ASSUME NEW w, OutputType(w), NEW code \in Codes, NEW down \in BOOLEAN, NEW flags \in SUBSET Flags, NEW pt,
           NEW addToRepeat \in BOOLEAN
    PROVE  FiresHalf(w, FireOne(w, code, HalfType(code, down), flags, pt, addToRepeat), code, down, addToRepeat)
<1> DEFINE type == HalfType(code, down)
           a == IF type = "BUTTONS" THEN FireCurrentButtons(w, pt) ELSE FireKey(w, code, type, flags, FALSE, pt)
           F == IF type = "BUTTONS" THEN MakeButtons(w.bs) ELSE flags
           v == FireOne(w, code, type, flags, pt, addToRepeat)
<1>1. v = IF addToRepeat THEN AddRepeat(a, code, type, F) ELSE a
  BY DEF FireOne, AddRepeatIf
<1>2. type \in {"DOWN", "UP", "MODIFY", "BUTTONS"} /\ (type = "BUTTONS" <=> code.t = "button")
  BY DEF HalfType
<1> HIDE DEF type
<1>3. \A f \in Countable : w.fs[f].lazy_count_ \in Int
  BY DEF OutputType, FlagStatuses, FlagItems, Countable
<1>4. SendsKey(w, a, code, type, FALSE)
  <2>1. CASE type = "BUTTONS"
    <3>1. Sends(w, a)
      BY <2>1, FireCurrentButtonsSends
    <3>2. code.t # "VK_LAZY"
      BY <2>1, <1>2
    <3> HIDE DEF a
    <3> QED BY <3>1, <3>2, SendsOtherKey
  <2>2. CASE type # "BUTTONS"
    BY <2>2, FireKeySends
  <2> QED BY <2>1, <2>2
<1>5. Entry(code, type, F) \in Entries
  <2>1. F \in SUBSET (IF type = "BUTTONS" THEN Buttons ELSE Flags)
    BY DEF MakeButtons
  <2> HIDE DEF F
  <2> QED BY <2>1, <1>2 DEF Entry, Entries
<1> HIDE DEF a, F, v
<1>6. HalfEntry(Entry(code, type, F), code, down)
  BY <1>5 DEF HalfEntry, Entry, type
<1>7. FiresHalf(w, a, code, down, FALSE)
  BY <1>4 DEF SendsKey, FiresHalf, type
<1>8. CASE ~addToRepeat
  BY <1>1, <1>7, <1>8 DEF v, type
<1>9. CASE addToRepeat
  <2> DEFINE u == AddRepeat(a, code, type, F)
  <2>1. OutputType(a) /\ Behind(a) = Behind(w) /\ a.rep = w.rep /\ a.bs = w.bs
    BY <1>4 DEF SendsKey
  <2>2. OutputType(u) /\ Behind(u) = Behind(a) /\ SameCounts(a, u)
    BY <2>1, <1>5, AddRepeatAdds
  <2>3. u.rep.q = IF code = VK_NONE THEN a.rep.q ELSE Append(a.rep.q, Entry(code, type, F))
    BY <2>1, <1>5, AddRepeatAdds
  <2> HIDE DEF u
  <2>4. /\ OutputType(u) /\ Behind(u) = Behind(w) /\ u.bs = w.bs
        /\ \A f \in Countable :
              /\ u.fs[f].count_ = w.fs[f].count_
              /\ u.fs[f].lazy_count_ = w.fs[f].lazy_count_ + LazyBy(code, type, FALSE, f)
    BY <2>1, <2>2, <1>4 DEF SameCounts, SameFlagCounts, SendsKey
  <2>5. \/ u.rep.q = w.rep.q /\ code = VK_NONE
        \/ \E e : HalfEntry(e, code, down) /\ u.rep.q = Append(w.rep.q, e) /\ code # VK_NONE
    BY <2>1, <2>3, <1>6, Zenon
  <2>6. FiresHalf(w, u, code, down, addToRepeat)
    BY <2>4, <2>5, <1>9 DEF FiresHalf, type
  <2> QED BY <2>6, <1>1, <1>9 DEF u, v, type
<1> QED
  BY <1>8, <1>9

\* What a half of ToEvent::fire_downup counts for a modifier or a button.
LEMMA ChangeStatusChanges ==
    ASSUME NEW w, OutputType(w), NEW code \in Codes
    PROVE  LET n(f) == Bit(f \in FlagOf(code))
               m(b) == Bit(b \in ButtonOf(code))
               v(down) == ChangeStatus(w, code, down)
           IN  \A down \in BOOLEAN :
                 /\ OutputType(v(down)) /\ Behind(v(down)) = Behind(w) /\ v(down).rep = w.rep
                 /\ \A f \in Countable : v(down).fs[f].lazy_count_ = w.fs[f].lazy_count_
                 /\ \A f \in Countable : v(down).fs[f].count_ = IF down THEN w.fs[f].count_ + n(f) ELSE w.fs[f].count_ - n(f)
                 /\ \A b \in Buttons : v(down).bs[b] = IF down THEN w.bs[b] + m(b) ELSE w.bs[b] - m(b)
<1> SUFFICES ASSUME NEW down \in BOOLEAN
             PROVE  LET v == ChangeStatus(w, code, down)
                    IN  /\ OutputType(v) /\ Behind(v) = Behind(w) /\ v.rep = w.rep
                        /\ \A f \in Countable : v.fs[f].lazy_count_ = w.fs[f].lazy_count_
                        /\ \A f \in Countable : v.fs[f].count_ = IF down THEN w.fs[f].count_ + Bit(f \in FlagOf(code))
                                                                 ELSE w.fs[f].count_ - Bit(f \in FlagOf(code))
                        /\ \A b \in Buttons : v.bs[b] = IF down THEN w.bs[b] + Bit(b \in ButtonOf(code))
                                                        ELSE w.bs[b] - Bit(b \in ButtonOf(code))
  BY Zenon
<1> DEFINE fs == IF down THEN Increase(w.fs, FlagOf(code)) ELSE Decrease(w.fs, FlagOf(code))
           bs == IF down THEN IncreaseButtons(w.bs, ButtonOf(code)) ELSE DecreaseButtons(w.bs, ButtonOf(code))
           a == [w EXCEPT !.fs = fs]
           v == [a EXCEPT !.bs = bs]
<1>1. w.fs \in FlagStatuses /\ w.bs \in [Buttons -> Int]
  BY DEF OutputType
<1>2. ChangeStatus(w, code, down) = v
  BY DEF ChangeStatus, OutputType, Fields
<1>3. /\ fs \in FlagStatuses
      /\ \A f \in Countable : /\ fs[f].lazy_count_ = w.fs[f].lazy_count_
                              /\ fs[f].count_ = IF down THEN w.fs[f].count_ + Bit(f \in FlagOf(code))
                                                ELSE w.fs[f].count_ - Bit(f \in FlagOf(code))
  BY <1>1, IncreaseChange, DecreaseChange
<1>4. /\ bs \in [Buttons -> Int]
      /\ \A b \in Buttons : bs[b] = IF down THEN w.bs[b] + Bit(b \in ButtonOf(code)) ELSE w.bs[b] - Bit(b \in ButtonOf(code))
  BY <1>1, ButtonsChange
<1> HIDE DEF fs, bs
<1>5. OutputType(a) /\ Behind(a) = Behind(w) /\ a.rep = w.rep /\ a.fs = fs
  BY <1>3, SetFlags
<1> HIDE DEF a
<1>6. OutputType(v) /\ Behind(v) = Behind(a) /\ v.rep = a.rep /\ v.fs = a.fs /\ v.bs = bs
  BY <1>4, <1>5, SetButtons
<1> HIDE DEF v
<1> QED
  BY <1>2, <1>3, <1>4, <1>5, <1>6

-----------------------------------------------------------------------------
(* A key is typed *)

\* Keys are typed, and remembered for the repetition if add says so.
Types(w, v, add) ==
    /\ OutputType(v) /\ Behind(v) = Behind(w) /\ SameCounts(w, v)
    /\ ~add => v.rep = w.rep
    /\ add /\ Paired(w.rep.q) => Paired(v.rep.q)

\* Two keys are typed.
LEMMA TypesTwice ==
    ASSUME NEW u, NEW v, NEW w, NEW add, Types(u, v, add), Types(v, w, add)
    PROVE  Types(u, w, add)
<1>1. SameCounts(u, w)
  BY DEF Types, SameCounts, SameFlagCounts
<1> QED
  BY <1>1 DEF Types

\* Output types nothing.
LEMMA SendsTypes ==
    ASSUME NEW w, NEW v, NEW add, Sends(w, v)
    PROVE  Types(w, v, add)
BY DEF Sends, Types

\* A press and its release are added to the list of KeyboardRepeat.
LEMMA PairAdded ==
    ASSUME NEW q \in Seq(Entries), Paired(q), NEW code, NEW d, NEW e, HalfEntry(d, code, TRUE), HalfEntry(e, code, FALSE)
    PROVE  Paired(Append(Append(q, d), e))
<1> DEFINE p == Append(Append(q, d), e)
<1>1. PICK m \in Nat : Len(q) = 2 * m /\ \A j \in 1..m : PairAt(q, j)
  BY DEF Paired
<1>2. d \in Entries /\ e \in Entries
  BY DEF HalfEntry
<1>3. /\ Len(p) = 2 * (m + 1) /\ p[2 * m + 1] = d /\ p[2 * m + 2] = e
      /\ \A i \in 1..(2 * m) : p[i] = q[i]
  BY <1>1, <1>2
<1> HIDE DEF p
<1>4. ASSUME NEW j \in 1..(m + 1)
      PROVE  PairAt(p, j)
  <2>1. CASE j \in 1..m
    <3>1. 2 * j - 1 \in 1..(2 * m) /\ 2 * j \in 1..(2 * m)
      BY <1>1, <2>1
    <3>2. p[2 * j - 1] = q[2 * j - 1] /\ p[2 * j] = q[2 * j]
      BY <1>3, <3>1
    <3>3. PairAt(q, j)
      BY <1>1, <2>1
    <3> QED BY <3>2, <3>3 DEF PairAt
  <2>2. CASE j = m + 1
    <3>1. 2 * j - 1 = 2 * m + 1 /\ 2 * j = 2 * m + 2
      BY <1>1, <2>2
    <3>2. \A f : EntryLazy(d, f) + EntryLazy(e, f) = 0
      <4>1. CASE code.t = "button"
        BY <4>1 DEF HalfEntry, HalfType, EntryLazy
      <4>2. CASE code.t = "mod"
        BY <4>2 DEF HalfEntry, HalfType, EntryLazy, LazyBy, Code
      <4>3. CASE code.t \notin {"button", "mod"}
        BY <4>3 DEF HalfEntry, HalfType, EntryLazy, LazyBy
      <4> QED BY <4>1, <4>2, <4>3
    <3>3. p[2 * j - 1] = d /\ p[2 * j] = e
      BY <1>3, <3>1
    <3> QED BY <3>2, <3>3 DEF PairAt
  <2> QED BY <2>1, <2>2
<1> QED
  BY <1>1, <1>3, <1>4 DEF Paired, p

\* One half, with FlagStatus and ButtonStatus.
HalfStep(a, down, code, flags, pt, add) == FireHalf(ChangeStatus(a, code, down), code, down, flags, pt, add)

HalfSoFar(n, a, w) == TRUE

TypingHalves == INSTANCE FoldProofs WITH Op <- HalfStep, I <- HalfSoFar

\* The counts after a half.
HalfCounts(a, v, code, down) ==
    /\ \A f \in Countable :
          /\ v.fs[f].count_ = IF down THEN a.fs[f].count_ + Bit(f \in FlagOf(code)) ELSE a.fs[f].count_ - Bit(f \in FlagOf(code))
          /\ v.fs[f].lazy_count_ = a.fs[f].lazy_count_ + LazyBy(code, HalfType(code, down), FALSE, f)
    /\ \A b \in Buttons : v.bs[b] = IF down THEN a.bs[b] + Bit(b \in ButtonOf(code)) ELSE a.bs[b] - Bit(b \in ButtonOf(code))

HalfQueue(a, v, code, down, add) ==
    /\ ~add => v.rep = a.rep
    /\ add => \/ v.rep.q = a.rep.q /\ code = VK_NONE
              \/ \E e : HalfEntry(e, code, down) /\ v.rep.q = Append(a.rep.q, e) /\ code # VK_NONE

\* A half of ToEvent::fire_downup: what it counts and what it adds to
\* KeyboardRepeat.
LEMMA HalfStepChanges ==
    ASSUME NEW a, OutputType(a), NEW down \in BOOLEAN, NEW code \in Codes, NEW flags \in SUBSET Flags, NEW pt,
           NEW add \in BOOLEAN
    PROVE  /\ OutputType(HalfStep(a, down, code, flags, pt, add))
           /\ Behind(HalfStep(a, down, code, flags, pt, add)) = Behind(a)
           /\ HalfCounts(a, HalfStep(a, down, code, flags, pt, add), code, down)
           /\ HalfQueue(a, HalfStep(a, down, code, flags, pt, add), code, down, add)
<1> DEFINE b == ChangeStatus(a, code, down)
           F == IF code.t = "mod" THEN MakeFlags(b.fs) ELSE flags
           v == FireOne(b, code, HalfType(code, down), F, pt, add)
<1>1. HalfStep(a, down, code, flags, pt, add) = v
  BY DEF HalfStep, FireHalf, HalfType
<1>2. /\ OutputType(b) /\ Behind(b) = Behind(a) /\ b.rep = a.rep
      /\ \A f \in Countable : b.fs[f].lazy_count_ = a.fs[f].lazy_count_
      /\ \A f \in Countable : b.fs[f].count_ = IF down THEN a.fs[f].count_ + Bit(f \in FlagOf(code))
                                               ELSE a.fs[f].count_ - Bit(f \in FlagOf(code))
      /\ \A x \in Buttons : b.bs[x] = IF down THEN a.bs[x] + Bit(x \in ButtonOf(code))
                                      ELSE a.bs[x] - Bit(x \in ButtonOf(code))
  BY ChangeStatusChanges
<1> HIDE DEF b
<1>3. F \in SUBSET Flags
  BY MakeFlagsType
<1> HIDE DEF F
<1>4. FiresHalf(b, v, code, down, add)
  BY <1>2, <1>3, FireOneFires
<1> HIDE DEF v
<1>5. OutputType(v) /\ Behind(v) = Behind(a)
  BY <1>2, <1>4 DEF FiresHalf
<1>6. HalfCounts(a, v, code, down)
  BY <1>2, <1>4 DEF FiresHalf, HalfCounts
<1>7. HalfQueue(a, v, code, down, add)
  BY <1>2, <1>4 DEF FiresHalf, HalfQueue
<1> QED
  BY <1>1, <1>5, <1>6, <1>7

\* ToEvent::fire_downup counts nothing on the whole, and adds a press and its
\* release to KeyboardRepeat.
LEMMA FireDownUpTypes ==
    ASSUME NEW w, OutputType(w), NEW to \in ToEvents, NEW pt, NEW add \in BOOLEAN
    PROVE  Types(w, FireDownUp(w, to, pt, add), add)
<1> DEFINE code == to.code
           flags == MakeFlags(w.fs)
           a == HalfStep(w, TRUE, code, flags, pt, add)
           v == HalfStep(a, FALSE, code, flags, pt, add)
<1>1. FireDownUp(w, to, pt, add) = v
  <2>1. FireDownUp(w, to, pt, add) = TypingHalves!Fold(w, <<TRUE, FALSE>>, code, flags, pt, add)
    BY DEF FireDownUp, TypingHalves!Fold, HalfStep, FoldLeft, MapThenFoldSet, TypingHalves!MapThenFoldSet, Max
  <2> HIDE DEF code, flags
  <2>2. ASSUME NEW x, NEW y
        PROVE  TypingHalves!Fold(w, <<x, y>>, code, flags, pt, add)
               = HalfStep(HalfStep(w, x, code, flags, pt, add), y, code, flags, pt, add)
    BY TypingHalves!FoldOfTwo
  <2>3. \A x, y : TypingHalves!Fold(w, <<x, y>>, code, flags, pt, add)
                  = HalfStep(HalfStep(w, x, code, flags, pt, add), y, code, flags, pt, add)
    BY <2>2, Zenon
  <2>4. TypingHalves!Fold(w, <<TRUE, FALSE>>, code, flags, pt, add) = v
    BY <2>3, Zenon
  <2> QED BY <2>1, <2>4, Zenon
<1>2. code \in Codes
  BY DEF ToEvents, Codes
<1>3. flags \in SUBSET Flags
  BY MakeFlagsType
<1> HIDE DEF flags, code
<1>4. /\ OutputType(a) /\ Behind(a) = Behind(w) /\ HalfCounts(w, a, code, TRUE) /\ HalfQueue(w, a, code, TRUE, add)
  <2>1. \A down \in BOOLEAN :
           LET u == HalfStep(w, down, code, flags, pt, add)
           IN  OutputType(u) /\ Behind(u) = Behind(w) /\ HalfCounts(w, u, code, down) /\ HalfQueue(w, u, code, down, add)
    BY <1>2, <1>3, HalfStepChanges
  <2>2. TRUE \in BOOLEAN
    OBVIOUS
  <2> QED BY <2>1, <2>2, Zenon
<1> HIDE DEF a
<1>5. /\ OutputType(v) /\ Behind(v) = Behind(a) /\ HalfCounts(a, v, code, FALSE) /\ HalfQueue(a, v, code, FALSE, add)
  <2>1. \A down \in BOOLEAN :
           LET u == HalfStep(a, down, code, flags, pt, add)
           IN  OutputType(u) /\ Behind(u) = Behind(a) /\ HalfCounts(a, u, code, down) /\ HalfQueue(a, u, code, down, add)
    BY <1>2, <1>3, <1>4, HalfStepChanges
  <2>2. FALSE \in BOOLEAN
    OBVIOUS
  <2> QED BY <2>1, <2>2, Zenon
<1> HIDE DEF v
<1>6. SameCounts(w, v)
  <2>1. ASSUME NEW f \in Countable
        PROVE  v.fs[f].count_ = w.fs[f].count_ /\ v.fs[f].lazy_count_ = w.fs[f].lazy_count_
    <3>1. w.fs[f].count_ \in Int /\ w.fs[f].lazy_count_ \in Int
      BY DEF OutputType, FlagStatuses, FlagItems, Countable
    <3>2. Bit(f \in FlagOf(code)) \in Int
      BY DEF Bit
    <3>3. v.fs[f].count_ = w.fs[f].count_
      <4> DEFINE n == Bit(f \in FlagOf(code))
      <4>1. a.fs[f].count_ = w.fs[f].count_ + n
        BY <1>4 DEF HalfCounts
      <4>2. v.fs[f].count_ = a.fs[f].count_ - n
        BY <1>5 DEF HalfCounts
      <4>3. n \in Int
        BY <3>2
      <4> HIDE DEF n
      <4> QED BY <3>1, <4>1, <4>2, <4>3
    <3>4. LazyBy(code, HalfType(code, TRUE), FALSE, f) + LazyBy(code, HalfType(code, FALSE), FALSE, f) = 0
      BY DEF LazyBy, HalfType, Code
    <3>5. LazyBy(code, HalfType(code, TRUE), FALSE, f) \in Int /\ LazyBy(code, HalfType(code, FALSE), FALSE, f) \in Int
      BY DEF LazyBy
    <3>6. v.fs[f].lazy_count_ = w.fs[f].lazy_count_ + LazyBy(code, HalfType(code, TRUE), FALSE, f)
                                   + LazyBy(code, HalfType(code, FALSE), FALSE, f)
      BY <1>4, <1>5 DEF HalfCounts
    <3>7. v.fs[f].lazy_count_ = w.fs[f].lazy_count_
      <4>1. \A x, y, z \in Int : y + z = 0 => x + y + z = x
        OBVIOUS
      <4> QED BY <3>1, <3>4, <3>5, <3>6, <4>1, Zenon
    <3> QED BY <3>3, <3>7
  <2>2. v.bs = w.bs
    <3>1. w.bs \in [Buttons -> Int] /\ v.bs \in [Buttons -> Int]
      BY <1>5 DEF OutputType
    <3>2. \A b \in Buttons : v.bs[b] = w.bs[b]
      BY <1>4, <1>5, <3>1 DEF HalfCounts, Bit
    <3> QED BY <3>1, <3>2
  <2> QED BY <2>1, <2>2 DEF SameCounts, SameFlagCounts
<1>7. ~add => v.rep = w.rep
  BY <1>4, <1>5 DEF HalfQueue
<1>8. add /\ Paired(w.rep.q) => Paired(v.rep.q)
  <2> SUFFICES ASSUME add, Paired(w.rep.q) PROVE Paired(v.rep.q)
    OBVIOUS
  <2>1. CASE code = VK_NONE
    BY <2>1, <1>4, <1>5 DEF HalfQueue
  <2>2. CASE code # VK_NONE
    <3>1. PICK d : HalfEntry(d, code, TRUE) /\ a.rep.q = Append(w.rep.q, d)
      BY <2>2, <1>4 DEF HalfQueue
    <3>2. PICK e : HalfEntry(e, code, FALSE) /\ v.rep.q = Append(a.rep.q, e)
      BY <2>2, <1>5 DEF HalfQueue
    <3>3. w.rep.q \in Seq(Entries)
      BY DEF OutputType
    <3>4. Paired(Append(Append(w.rep.q, d), e))
      BY <3>1, <3>2, <3>3, PairAdded
    <3> QED BY <3>1, <3>2, <3>4, Zenon
  <2> QED BY <2>1, <2>2
<1>9. Types(w, v, add)
  BY <1>4, <1>5, <1>6, <1>7, <1>8 DEF Types
<1> QED
  BY <1>1, <1>9

\* The modifiers of the from key are taken away for the moment.
LEMMA TemporarilyOnSends ==
    ASSUME NEW w, OutputType(w), NEW F
    PROVE  Sends(w, TemporarilyOn(w, F)) /\ Sends(w, TemporarilyOff(w, F))
<1>1. w.fs \in FlagStatuses /\ w = [x \in Fields |-> w[x]]
  BY DEF OutputType
<1>2. TemporarilyOn(w, F) = [w EXCEPT !.fs = TemporaryIncrease(w.fs, F)]
      /\ TemporarilyOff(w, F) = [w EXCEPT !.fs = TemporaryDecrease(w.fs, F)]
  BY DEF TemporarilyOn, TemporarilyOff
<1>3. Sends(w, [w EXCEPT !.fs = TemporaryIncrease(w.fs, F)])
  BY <1>1, TemporaryType, SetFlags
<1>4. Sends(w, [w EXCEPT !.fs = TemporaryDecrease(w.fs, F)])
  BY <1>1, TemporaryType, SetFlags
<1> QED
  BY <1>2, <1>3, <1>4

TypeStep(a, to, pt, add, r, t) == TemporarilyOff(FireDownUp(TemporarilyOn(a, to.mods), to, pt, add), to.mods)
TypedSoFar(n, a, c) == Types(c[1], a, c[2])
Typing == INSTANCE FoldProofs WITH Op <- TypeStep, I <- TypedSoFar

\* One key of a KeyToKey: its modifiers, the key, its modifiers back.
LEMMA TypeStepTypes ==
    ASSUME NEW w, OutputType(w), NEW to \in ToEvents, NEW pt, NEW add \in BOOLEAN
    PROVE  Types(w, TypeStep(w, to, pt, add, 0, 0), add)
<1> DEFINE a == TemporarilyOn(w, to.mods)
           b == FireDownUp(a, to, pt, add)
           v == TemporarilyOff(b, to.mods)
<1>1. Sends(w, a)
  BY TemporarilyOnSends
<1> HIDE DEF a
<1>2. Types(a, b, add)
  BY <1>1, FireDownUpTypes DEF Sends
<1> HIDE DEF b
<1>3. Sends(b, v)
  BY <1>2, TemporarilyOnSends DEF Types
<1> HIDE DEF v
<1>4. Types(w, v, add)
  BY <1>1, <1>2, <1>3, SendsTypes, TypesTwice
<1> QED
  BY <1>4 DEF TypeStep, a, b, v

\* ... and all of them.
LEMMA FireEachTypes ==
    ASSUME NEW w, OutputType(w), NEW keys \in Seq(ToEvents), NEW pt, NEW add \in BOOLEAN
    PROVE  Types(w, FireEach(w, keys, pt, add), add)
<1> DEFINE c == <<w, add>>
<1>1. FireEach(w, keys, pt, add) = Typing!Fold(w, keys, pt, add, 0, 0)
  BY DEF FireEach, Typing!Fold, TypeStep, FoldLeft, MapThenFoldSet, Typing!MapThenFoldSet,
         Max
<1>2. c[1] = w /\ c[2] = add
  OBVIOUS
<1>3. Len(keys) \in Nat /\ DOMAIN keys = 1..Len(keys) /\ \A k \in 1..Len(keys) : keys[k] \in ToEvents
  OBVIOUS
<1> HIDE DEF c
<1>4. TypedSoFar(0, w, c)
  BY <1>2, SendsNothing, SendsTypes DEF TypedSoFar
<1>5. ASSUME NEW k \in 1..Len(keys), NEW a, TypedSoFar(k - 1, a, c)
      PROVE  TypedSoFar(k, TypeStep(a, keys[k], pt, add, 0, 0), c)
  <2>1. Types(w, a, add)
    BY <1>2, <1>5 DEF TypedSoFar
  <2>2. Types(a, TypeStep(a, keys[k], pt, add, 0, 0), add)
    BY <2>1, <1>3, TypeStepTypes DEF Types
  <2> QED BY <1>2, <2>1, <2>2, TypesTwice DEF TypedSoFar
<1>6. TypedSoFar(Len(keys), Typing!Fold(w, keys, pt, add, 0, 0), c)
  BY <1>3, <1>4, <1>5, Typing!FoldMaintains
<1> QED
  BY <1>1, <1>2, <1>6 DEF TypedSoFar

-----------------------------------------------------------------------------
(* Lists without an entry, and with one more *)

Listed(s, x) == \E n \in DOMAIN s : s[n] = x

Without(s, id) == Subsequence(s, {n \in DOMAIN s : s[n] # id})

\* unregisterPrepareTargetItem takes all entries of an id off the list, and no
\* other.
LEMMA UnregisterList ==
    ASSUME NEW D, NEW s \in Seq(D), NEW id
    PROVE  Without(s, id) \in Seq(D) /\ \A x : Listed(Without(s, id), x) <=> Listed(s, x) /\ x # id
<1> DEFINE I == {n \in DOMAIN s : s[n] # id}
           r == Subsequence(s, I)
<1>1. I \in SUBSET (1..Len(s)) /\ DOMAIN s = 1..Len(s)
  OBVIOUS
<1>2. /\ r \in Seq(D)
      /\ \A i \in 1..Len(r) : \E m \in I : r[i] = s[m]
      /\ \A m \in I : \E i \in 1..Len(r) : r[i] = s[m]
  <2> HIDE DEF I
  <2> QED BY <1>1, SubsequenceItems
<1> HIDE DEF r
<1>3. DOMAIN r = 1..Len(r)
  BY <1>2
<1>4. ASSUME NEW x
      PROVE  Listed(r, x) <=> Listed(s, x) /\ x # id
  BY <1>1, <1>2, <1>3 DEF Listed, I
<1> QED
  BY <1>2, <1>4 DEF r, Without

\* registerPrepareTargetItem adds an entry.
LEMMA RegisterList ==
    ASSUME NEW D, NEW s \in Seq(D), NEW id \in D
    PROVE  Append(s, id) \in Seq(D) /\ \A x : Listed(Append(s, id), x) <=> Listed(s, x) \/ x = id
<1> DEFINE r == Append(s, id)
<1>1. /\ r \in Seq(D) /\ DOMAIN r = 1..(Len(s) + 1) /\ r[Len(s) + 1] = id /\ Len(s) \in Nat
      /\ DOMAIN s = 1..Len(s) /\ \A n \in 1..Len(s) : r[n] = s[n]
  OBVIOUS
<1> HIDE DEF r
<1>2. ASSUME NEW x
      PROVE  Listed(r, x) <=> Listed(s, x) \/ x = id
  <2>1. 1..(Len(s) + 1) = 1..Len(s) \cup {Len(s) + 1}
    BY <1>1
  <2> QED BY <1>1, <2>1 DEF Listed
<1> QED
  BY <1>1, <1>2 DEF r

-----------------------------------------------------------------------------
(* The world of the functions *)

Periodic == {i \in DOMAIN Items[conf] : Items[conf][i].type \in {"KEYOVERLAIDMODIFIER", "HOLDINGKEYTOKEY"}}

States ==
    [active : BOOLEAN, period : {"NONE", "SHORT", "LONG", "LONG_LONG"}, decreased : BOOLEAN, saved : [Flags -> Int], up : BOOLEAN,
     observed : BOOLEAN, any : BOOLEAN, interrupted : BOOLEAN, pressCount : 0..2, ignore : BOOLEAN]

FunctionType(w) ==
    /\ w.items = Items[conf]
    /\ w.pressing \in [Ids(conf) -> Nat]
    /\ w.active \in [DOMAIN Items[conf] -> Nat]
    /\ w.prep \in Seq(Ids(conf))
    /\ w.ktk = [x \in {"target", "on", "saved"} |-> w.ktk[x]]
    /\ w.ktk.saved \in [Flags -> Int] /\ (w.ktk.on => w.ktk.target \in PartIds)
    /\ w.dpp = [x \in {"target", "on"} |-> w.dpp[x]]
    /\ w.dpp.target \in {0} \cup Periodic /\ (w.dpp.on => w.dpp.target \in Periodic)
    /\ w.st \in [DOMAIN Items[conf] -> States]

IsWorld(w) == OutputType(w) /\ Repeatable(w.rep.q) /\ FunctionType(w)

\* What a KeyToKey never touches.
Aside(w) ==
    <<w.items, w.loaded, w.lastPressed, w.lastReleased, w.active, w.dpp, w.st, w.walk, w.workspace, w.device,
      w.elapsed, w.keys>>

SameList(w, v) == \A x : x[2] = "ITEM" => (Listed(v.prep, x) <=> Listed(w.prep, x))

\* One world leads to another without a press or a release of a function.
Along(w, v) ==
    /\ IsWorld(v) /\ Aside(v) = Aside(w) /\ v.pressing = w.pressing /\ SameList(w, v)
    /\ v.drop = w.drop /\ v.remapped = w.remapped

\* One world leads along to another, and that to a third.
LEMMA AlongTwice ==
    ASSUME NEW u, NEW v, NEW w, Along(u, v), Along(v, w)
    PROVE  Along(u, w)
<1>1. SameList(u, w)
  BY DEF Along, SameList
<1> QED
  BY <1>1 DEF Along

\* Output does not reach the state of the functions.
LEMMA BehindFunctionType ==
    ASSUME NEW w, NEW v, FunctionType(w), Behind(v) = Behind(w)
    PROVE  FunctionType(v)
<1>1. v.items = w.items /\ v.pressing = w.pressing /\ v.active = w.active /\ v.prep = w.prep /\ v.ktk = w.ktk
      /\ v.dpp = w.dpp /\ v.st = w.st
  BY DEF Behind
<1> QED
  BY <1>1, Zenon DEF FunctionType

\* Output is no press and no release of a function.
LEMMA ActsAlong ==
    ASSUME NEW w, IsWorld(w), NEW v, Acts(w, v)
    PROVE  Along(w, v)
<1>1. IsWorld(v)
  BY BehindFunctionType DEF Acts, KeepsRepeatable, IsWorld
<1>2. Aside(v) = Aside(w) /\ v.pressing = w.pressing /\ v.prep = w.prep /\ v.drop = w.drop /\ v.remapped = w.remapped
  BY DEF Acts, Behind, Aside
<1>3. SameList(w, v)
  BY <1>2 DEF SameList
<1> QED
  BY <1>1, <1>2, <1>3 DEF Along

\* FlagStatus and ButtonStatus are replaced.
LEMMA SetStatus ==
    ASSUME NEW w, OutputType(w), NEW fs \in FlagStatuses, NEW bs \in [Buttons -> Int]
    PROVE  Acts(w, [w EXCEPT !.fs = fs, !.bs = bs])
<1> DEFINE a == [w EXCEPT !.fs = fs]
           v == [a EXCEPT !.bs = bs]
<1>1. OutputType(a) /\ Behind(a) = Behind(w) /\ a.rep = w.rep
  BY SetFlags
<1>2. [w EXCEPT !.fs = fs, !.bs = bs] = v
  OBVIOUS
<1> HIDE DEF a
<1>3. OutputType(v) /\ Behind(v) = Behind(a) /\ v.rep = a.rep
  BY <1>1, SetButtons
<1> HIDE DEF v
<1>4. Acts(w, v)
  BY <1>1, <1>3 DEF Acts, KeepsRepeatable
<1> QED
  BY <1>2, <1>4

\* FlagStatus is replaced.
LEMMA SetFlagsActs ==
    ASSUME NEW w, OutputType(w), NEW fs \in FlagStatuses
    PROVE  /\ Acts(w, [w EXCEPT !.fs = fs]) /\ [w EXCEPT !.fs = fs].fs = fs /\ [w EXCEPT !.fs = fs].bs = w.bs
           /\ OutputType([w EXCEPT !.fs = fs])
<1> DEFINE v == [w EXCEPT !.fs = fs]
<1>1. OutputType(v) /\ Behind(v) = Behind(w) /\ v.rep = w.rep /\ v.bs = w.bs /\ v.fs = fs
  BY SetFlags
<1> HIDE DEF v
<1>2. Acts(w, v)
  BY <1>1 DEF Acts, KeepsRepeatable
<1> QED
  BY <1>1, <1>2 DEF v

-----------------------------------------------------------------------------
(* The keys of a KeyToKey *)

\* The keys of a list of KeyToKey.
LEMMA KeysType ==
    ASSUME NEW k \in KeyToKeys, NEW n \in ListNames
    PROVE  Keys(k, n) \in Seq(ToEvents)
<1>1. k.lists[n] \in Seq(Seq(ToEvents))
  BY DEF KeyToKeys
<1>2. k.lists[n] # <<>> => k.lists[n][1] \in Seq(ToEvents)
  BY <1>1
<1> QED
  BY <1>2 DEF Keys

\* What a press adds to the count of a modifier by its from key ...
FromBy(k, f) == Bit(f \in IncreaseFlags(k)) - Bit(f \in FlagOf(k.from))

\* ... and by its last to key.
Sustains(k, code) == ToModifier(k) /\ Last(Keys(k, "TO")).code = code

ToBy(k, f) ==
    IF ToModifier(k)
    THEN Bit(f \in FlagOf(Last(Keys(k, "TO")).code) \cup Last(Keys(k, "TO")).mods) - Bit(f \in Pure(k))
    ELSE 0

\* What a from key takes away and the to keys add are numbers.
LEMMA ByType ==
    ASSUME NEW k, NEW f
    PROVE  FromBy(k, f) \in Int /\ ToBy(k, f) \in Int
BY DEF FromBy, ToBy, Bit

-----------------------------------------------------------------------------
(* The parts of KeyToKey::remap *)

\* The modifiers that follow the press of a to key.
ToEventBy(k, to, f) == IF LikeModifier(to) THEN Bit(f \in FlagOf(to.code) \cup to.mods) - Bit(f \in Pure(k)) ELSE 0

SameLazies(fs, gs) == \A f \in Countable : gs[f].lazy_count_ = fs[f].lazy_count_

\* A to key that is like a modifier is held: the modifiers of the from key go,
\* those of the to key come; and it is let go of.
LEMMA ModifierDownChange ==
    ASSUME NEW fs \in FlagStatuses, NEW to, NEW pure
    PROVE  /\ ModifierDown(fs, to, pure) \in FlagStatuses /\ SameLazies(fs, ModifierDown(fs, to, pure))
           /\ \A f \in Countable : ModifierDown(fs, to, pure)[f].count_
                 = fs[f].count_ + (Bit(f \in FlagOf(to.code) \cup to.mods) - Bit(f \in pure))
           /\ ModifierUp(fs, to, pure) \in FlagStatuses /\ SameLazies(fs, ModifierUp(fs, to, pure))
           /\ \A f \in Countable : ModifierUp(fs, to, pure)[f].count_
                 = fs[f].count_ - (Bit(f \in FlagOf(to.code) \cup to.mods) - Bit(f \in pure))
<1> DEFINE S == FlagOf(to.code) \cup to.mods
           a == Increase(fs, S)
           b == Decrease(a, pure)
           c == Decrease(fs, S)
           d == Increase(c, pure)
<1>0. \A f \in Countable : fs[f].count_ \in Int
  BY DEF FlagStatuses, FlagItems, Countable
<1>1. a \in FlagStatuses /\ SameLazies(fs, a) /\ \A f \in Countable : a[f].count_ = fs[f].count_ + Bit(f \in S)
  BY IncreaseChange DEF SameLazies
<1>2. c \in FlagStatuses /\ SameLazies(fs, c) /\ \A f \in Countable : c[f].count_ = fs[f].count_ - Bit(f \in S)
  BY DecreaseChange DEF SameLazies
<1> HIDE DEF a, c
<1>3. b \in FlagStatuses /\ SameLazies(a, b) /\ \A f \in Countable : b[f].count_ = a[f].count_ - Bit(f \in pure)
  BY <1>1, DecreaseChange DEF SameLazies
<1>4. d \in FlagStatuses /\ SameLazies(c, d) /\ \A f \in Countable : d[f].count_ = c[f].count_ + Bit(f \in pure)
  BY <1>2, IncreaseChange DEF SameLazies
<1> HIDE DEF b, d
<1>5. SameLazies(fs, b) /\ SameLazies(fs, d)
  BY <1>1, <1>2, <1>3, <1>4 DEF SameLazies
<1>6. ASSUME NEW f \in Countable
      PROVE  /\ b[f].count_ = fs[f].count_ + (Bit(f \in S) - Bit(f \in pure))
             /\ d[f].count_ = fs[f].count_ - (Bit(f \in S) - Bit(f \in pure))
  <2> DEFINE m == Bit(f \in S)
             n == Bit(f \in pure)
  <2>1. m \in Int /\ n \in Int
    BY DEF Bit
  <2>2. b[f].count_ = fs[f].count_ + m - n
    <3>1. a[f].count_ = fs[f].count_ + m /\ b[f].count_ = a[f].count_ - n
      BY <1>1, <1>3
    <3> HIDE DEF m, n
    <3> QED BY <1>0, <2>1, <3>1
  <2>3. d[f].count_ = fs[f].count_ - m + n
    <3>1. c[f].count_ = fs[f].count_ - m /\ d[f].count_ = c[f].count_ + n
      BY <1>2, <1>4
    <3> HIDE DEF m, n
    <3> QED BY <3>1
  <2> HIDE DEF m, n
  <2>4. fs[f].count_ \in Int
    BY <1>0
  <2>5. b[f].count_ = fs[f].count_ + (m - n) /\ d[f].count_ = fs[f].count_ - (m - n)
    BY <2>1, <2>2, <2>3, <2>4
  <2> QED BY <2>5 DEF m, n
<1> QED
  BY <1>3, <1>4, <1>5, <1>6 DEF ModifierDown, ModifierUp, a, b, c, d

\* FlagStatus at the press or the release of a single to key.
FlagsBy(fs, gs, k, to, down) ==
    /\ gs \in FlagStatuses /\ SameLazies(fs, gs)
    /\ \A f \in Countable : gs[f].count_ = IF down THEN fs[f].count_ + ToEventBy(k, to, f) ELSE fs[f].count_ - ToEventBy(k, to, f)

\* Two temporary changes.
LEMMA TemporaryBoth ==
    ASSUME NEW fs \in FlagStatuses, NEW F, NEW G
    PROVE  /\ TemporaryIncrease(TemporaryDecrease(fs, F), G) \in FlagStatuses
           /\ SameFlagCounts(fs, TemporaryIncrease(TemporaryDecrease(fs, F), G))
<1> DEFINE a == TemporaryDecrease(fs, F)
           b == TemporaryIncrease(a, G)
<1>1. a \in FlagStatuses /\ SameFlagCounts(fs, a)
  BY TemporaryType
<1> HIDE DEF a
<1>2. b \in FlagStatuses /\ SameFlagCounts(a, b)
  BY <1>1, TemporaryType
<1> HIDE DEF b
<1>3. SameFlagCounts(fs, b)
  BY <1>1, <1>2 DEF SameFlagCounts
<1> QED
  BY <1>2, <1>3 DEF a, b

\* KeyToKey::remap with one to key: what it does to FlagStatus.
LEMMA SingleFlagsChange ==
    ASSUME NEW fs \in FlagStatuses, NEW k, NEW to, NEW down \in BOOLEAN
    PROVE  FlagsBy(fs, SingleFlags(fs, k, to, down), k, to, down)
<1> DEFINE pure == Pure(k)
<1>0. \A f \in Countable : fs[f].count_ \in Int
  BY DEF FlagStatuses, FlagItems, Countable
<1>1. CASE ~LikeModifier(to)
  <2> DEFINE g == TemporaryIncrease(TemporaryDecrease(fs, pure), to.mods)
  <2>1. SingleFlags(fs, k, to, down) = g
    BY <1>1 DEF SingleFlags
  <2>2. g \in FlagStatuses /\ SameFlagCounts(fs, g)
    BY TemporaryBoth
  <2> HIDE DEF g
  <2>3. \A f : ToEventBy(k, to, f) = 0
    BY <1>1 DEF ToEventBy
  <2>4. FlagsBy(fs, g, k, to, down)
    BY <1>0, <2>2, <2>3 DEF FlagsBy, SameFlagCounts, SameLazies
  <2> QED BY <2>1, <2>4
<1>2. \A f : LikeModifier(to) => ToEventBy(k, to, f) = Bit(f \in FlagOf(to.code) \cup to.mods) - Bit(f \in pure)
  BY DEF ToEventBy
<1> HIDE DEF pure
<1>3. CASE LikeModifier(to) /\ down
  <2> DEFINE g == ModifierDown(fs, to, pure)
  <2>1. SingleFlags(fs, k, to, down) = g
    BY <1>3 DEF SingleFlags, pure
  <2>2. /\ g \in FlagStatuses /\ SameLazies(fs, g)
        /\ \A f \in Countable : g[f].count_ = fs[f].count_ + (Bit(f \in FlagOf(to.code) \cup to.mods) - Bit(f \in pure))
    BY ModifierDownChange
  <2> HIDE DEF g
  <2>3. FlagsBy(fs, g, k, to, down)
    BY <1>2, <1>3, <2>2 DEF FlagsBy
  <2> QED BY <2>1, <2>3
<1>4. CASE LikeModifier(to) /\ ~down
  <2> DEFINE g == ModifierUp(fs, to, pure)
             h == TemporaryIncrease(TemporaryDecrease(g, pure), to.mods)
  <2>1. SingleFlags(fs, k, to, down) = h
    BY <1>4 DEF SingleFlags, pure
  <2>2. /\ g \in FlagStatuses /\ SameLazies(fs, g)
        /\ \A f \in Countable : g[f].count_ = fs[f].count_ - (Bit(f \in FlagOf(to.code) \cup to.mods) - Bit(f \in pure))
    BY ModifierDownChange
  <2> HIDE DEF g
  <2>3. h \in FlagStatuses /\ SameFlagCounts(g, h)
    BY <2>2, TemporaryBoth
  <2> HIDE DEF h
  <2>4. FlagsBy(fs, h, k, to, down)
    BY <1>2, <1>4, <2>2, <2>3 DEF FlagsBy, SameFlagCounts, SameLazies
  <2> QED BY <2>1, <2>4
<1> QED
  BY <1>1, <1>3, <1>4

\* The last to key is fired and what follows its press changes.
FiresTo(w, v, k, to, down) ==
    /\ Acts(w, v)
    /\ \A f \in Countable :
          /\ v.fs[f].count_ = IF down THEN w.fs[f].count_ + ToEventBy(k, to, f) ELSE w.fs[f].count_ - ToEventBy(k, to, f)
          /\ v.fs[f].lazy_count_ = IF down THEN w.fs[f].lazy_count_ + Bit(to.code = Code("VK_LAZY", f))
                                   ELSE w.fs[f].lazy_count_ - Bit(to.code = Code("VK_LAZY", f))
    /\ \A b \in Buttons : v.bs[b] = IF down THEN w.bs[b] + Bit(to.code = Code("button", b))
                                    ELSE w.bs[b] - Bit(to.code = Code("button", b))

\* The type that fires a to key down or up.
HoldType(to, down) == IF FlagOf(to.code) # {} THEN "MODIFY" ELSE IF down THEN "DOWN" ELSE "UP"

\* FlagStatus is changed first and then the key is sent.
LEMMA FlagsThenFires ==
    ASSUME NEW w, OutputType(w), NEW k, NEW to, NEW down \in BOOLEAN, NEW gs, FlagsBy(w.fs, gs, k, to, down),
           NEW v, FiresSingle([w EXCEPT !.fs = gs], v, to.code, HoldType(to, down))
    PROVE  FiresTo(w, v, k, to, down)
<1> DEFINE a == [w EXCEPT !.fs = gs]
           type == HoldType(to, down)
<1>1. Acts(w, a) /\ a.fs = gs /\ a.bs = w.bs
  BY SetFlagsActs DEF FlagsBy
<1>2. FiresSingle(a, v, to.code, type)
  OBVIOUS
<1> HIDE DEF a
<1>3. Acts(w, v)
  BY <1>1, <1>2, ActsTwice DEF FiresSingle
<1>4. \A f : LazyBy(to.code, type, FALSE, f) = IF down THEN Bit(to.code = Code("VK_LAZY", f)) ELSE 0 - Bit(to.code = Code("VK_LAZY", f))
  BY DEF LazyBy, HoldType, Code, Bit, FlagOf
<1>5. \A b : ButtonBy(to.code, type, b) = IF down THEN Bit(to.code = Code("button", b)) ELSE 0 - Bit(to.code = Code("button", b))
  BY DEF ButtonBy, HoldType, Code, Bit, FlagOf
<1> HIDE DEF type
<1>6. \A f \in Countable : v.fs[f].count_ = gs[f].count_ /\ v.fs[f].lazy_count_ = gs[f].lazy_count_ + LazyBy(to.code, type, FALSE, f)
  BY <1>1, <1>2 DEF FiresSingle
<1>7. \A b \in Buttons : v.bs[b] = w.bs[b] + ButtonBy(to.code, type, b)
  BY <1>1, <1>2 DEF FiresSingle
<1>8. ASSUME NEW f \in Countable
      PROVE  v.fs[f].lazy_count_ = IF down THEN w.fs[f].lazy_count_ + Bit(to.code = Code("VK_LAZY", f))
                                   ELSE w.fs[f].lazy_count_ - Bit(to.code = Code("VK_LAZY", f))
  <2> DEFINE n == Bit(to.code = Code("VK_LAZY", f))
             l == LazyBy(to.code, type, FALSE, f)
  <2>1. w.fs[f].lazy_count_ \in Int
    BY DEF OutputType, FlagStatuses, FlagItems, Countable
  <2>2. n \in Int
    BY DEF Bit
  <2>3. l = IF down THEN n ELSE 0 - n
    BY <1>4
  <2>4. v.fs[f].lazy_count_ = w.fs[f].lazy_count_ + l
    BY <1>6 DEF FlagsBy, SameLazies
  <2> HIDE DEF n, l
  <2>5. v.fs[f].lazy_count_ = IF down THEN w.fs[f].lazy_count_ + n ELSE w.fs[f].lazy_count_ - n
    BY <2>1, <2>2, <2>3, <2>4
  <2> QED BY <2>5 DEF n
<1>9. ASSUME NEW b \in Buttons
      PROVE  v.bs[b] = IF down THEN w.bs[b] + Bit(to.code = Code("button", b)) ELSE w.bs[b] - Bit(to.code = Code("button", b))
  <2> DEFINE n == Bit(to.code = Code("button", b))
             l == ButtonBy(to.code, type, b)
  <2>1. w.bs[b] \in Int
    BY DEF OutputType
  <2>2. n \in Int
    BY DEF Bit
  <2>3. l = IF down THEN n ELSE 0 - n
    BY <1>5
  <2>4. v.bs[b] = w.bs[b] + l
    BY <1>7
  <2> HIDE DEF n, l
  <2>5. v.bs[b] = IF down THEN w.bs[b] + n ELSE w.bs[b] - n
    BY <2>1, <2>2, <2>3, <2>4
  <2> QED BY <2>5 DEF n
<1>10. \A f \in Countable : v.fs[f].count_ = IF down THEN w.fs[f].count_ + ToEventBy(k, to, f)
                                             ELSE w.fs[f].count_ - ToEventBy(k, to, f)
  BY <1>6 DEF FlagsBy
<1> QED
  BY <1>3, <1>8, <1>9, <1>10 DEF FiresTo

\* Something that counts nothing comes after a to key.
LEMMA FiresToThenKeeps ==
    ASSUME NEW w, NEW v, NEW u, NEW k, NEW to, NEW down, FiresTo(w, v, k, to, down), Keeps(v, u)
    PROVE  FiresTo(w, u, k, to, down)
<1>1. Acts(w, u)
  BY ActsTwice DEF FiresTo, Keeps
<1>2. u.bs = v.bs /\ \A f \in Countable : u.fs[f].count_ = v.fs[f].count_ /\ u.fs[f].lazy_count_ = v.fs[f].lazy_count_
  BY DEF Keeps, SameCounts, SameFlagCounts
<1> QED
  BY <1>1, <1>2 DEF FiresTo

\* ... or before it.
LEMMA KeepsThenFiresTo ==
    ASSUME NEW w, NEW v, NEW u, NEW k, NEW to, NEW down, Keeps(w, v), FiresTo(v, u, k, to, down)
    PROVE  FiresTo(w, u, k, to, down)
<1>1. Acts(w, u)
  BY ActsTwice DEF FiresTo, Keeps
<1>2. v.bs = w.bs /\ \A f \in Countable : v.fs[f].count_ = w.fs[f].count_ /\ v.fs[f].lazy_count_ = w.fs[f].lazy_count_
  BY DEF Keeps, SameCounts, SameFlagCounts
<1> QED
  BY <1>1, <1>2 DEF FiresTo

\* The type of event that a to key is sent with.
LEMMA HoldTypes ==
    ASSUME NEW to, NEW down
    PROVE  HoldType(to, down) \in {"DOWN", "UP", "MODIFY"} /\ (to.code.t = "button" => HoldType(to, down) # "MODIFY")
BY DEF HoldType, FlagOf

\* KeyToKey::remap with one to key.
LEMMA FireSingleFires ==
    ASSUME NEW w, OutputType(w), NEW k, NEW to \in ToEvents, NEW down \in BOOLEAN, NEW pt
    PROVE  FiresTo(w, FireSingle(w, k, to, down, pt), k, to, down)
<1> DEFINE gs == SingleFlags(w.fs, k, to, down)
           add == ~down \/ k.repeat
           a == [w EXCEPT !.fs = gs]
           b == Fire(a, to, HoldType(to, down), pt, add)
           v == CancelRepeatIf(~add, b)
<1>1. FireSingle(w, k, to, down, pt) = v
  BY DEF FireSingle, HoldType
<1>2. w.fs \in FlagStatuses
  BY DEF OutputType
<1>3. FlagsBy(w.fs, gs, k, to, down)
  BY <1>2, SingleFlagsChange
<1> HIDE DEF gs, add
<1>4. OutputType(a)
  BY <1>3, SetFlagsActs DEF FlagsBy
<1> HIDE DEF a
<1>5. FiresSingle(a, b, to.code, HoldType(to, down))
  BY <1>4, HoldTypes, FireFires
<1> HIDE DEF b
<1>6. FiresTo(w, b, k, to, down)
  BY <1>3, <1>5, FlagsThenFires DEF a
<1>7. Keeps(b, v)
  BY <1>5, CancelRepeatIfKeeps DEF FiresSingle, Acts
<1> HIDE DEF v
<1> QED
  BY <1>1, <1>6, <1>7, FiresToThenKeeps

\* Nothing is held by a key that is not like a modifier.
LEMMA PlainKeyFires ==
    ASSUME NEW w, OutputType(w), NEW v, Keeps(w, v), NEW k, NEW to, ~LikeModifier(to), NEW down \in BOOLEAN
    PROVE  FiresTo(w, v, k, to, down)
<1>1. Acts(w, v) /\ v.bs = w.bs
      /\ \A f \in Countable : v.fs[f].count_ = w.fs[f].count_ /\ v.fs[f].lazy_count_ = w.fs[f].lazy_count_
  BY DEF Keeps, SameCounts, SameFlagCounts
<1>2. /\ \A f : ToEventBy(k, to, f) = 0
      /\ \A f : Bit(to.code = Code("VK_LAZY", f)) = 0
      /\ \A b : Bit(to.code = Code("button", b)) = 0
  BY DEF ToEventBy, LikeModifier, IsEventLikeModifier, Code, Bit
<1>3. /\ \A f \in Countable : w.fs[f].count_ \in Int /\ w.fs[f].lazy_count_ \in Int
      /\ \A b \in Buttons : w.bs[b] \in Int
  BY DEF OutputType, FlagStatuses, FlagItems, Countable
<1>4. \A f \in Countable :
         v.fs[f].count_ = IF down THEN w.fs[f].count_ + ToEventBy(k, to, f) ELSE w.fs[f].count_ - ToEventBy(k, to, f)
  BY <1>1, <1>2, <1>3
<1>5. ASSUME NEW f \in Countable
      PROVE  v.fs[f].lazy_count_ = IF down THEN w.fs[f].lazy_count_ + Bit(to.code = Code("VK_LAZY", f))
                                   ELSE w.fs[f].lazy_count_ - Bit(to.code = Code("VK_LAZY", f))
  <2> DEFINE n == Bit(to.code = Code("VK_LAZY", f))
  <2>1. n = 0
    BY <1>2
  <2> HIDE DEF n
  <2>2. v.fs[f].lazy_count_ = IF down THEN w.fs[f].lazy_count_ + n ELSE w.fs[f].lazy_count_ - n
    BY <1>1, <1>3, <2>1
  <2> QED BY <2>2 DEF n
<1>6. ASSUME NEW b \in Buttons
      PROVE  v.bs[b] = IF down THEN w.bs[b] + Bit(to.code = Code("button", b)) ELSE w.bs[b] - Bit(to.code = Code("button", b))
  <2> DEFINE n == Bit(to.code = Code("button", b))
  <2>1. n = 0
    BY <1>2
  <2> HIDE DEF n
  <2>2. v.bs[b] = IF down THEN w.bs[b] + n ELSE w.bs[b] - n
    BY <1>1, <1>3, <2>1
  <2> QED BY <2>2 DEF n
<1> QED
  BY <1>1, <1>4, <1>5, <1>6 DEF FiresTo

\* A modifier only changes FlagStatus.
LEMMA ModifierFires ==
    ASSUME NEW w, OutputType(w), NEW k, NEW to, to.code.t = "mod", NEW down \in BOOLEAN,
           NEW gs, FlagsBy(w.fs, gs, k, to, down)
    PROVE  FiresTo(w, [w EXCEPT !.fs = gs], k, to, down)
<1> DEFINE v == [w EXCEPT !.fs = gs]
<1>1. Acts(w, v) /\ v.fs = gs /\ v.bs = w.bs
  BY SetFlagsActs DEF FlagsBy
<1> HIDE DEF v
<1>2. /\ \A f : Bit(to.code = Code("VK_LAZY", f)) = 0
      /\ \A b : Bit(to.code = Code("button", b)) = 0
  BY DEF Code, Bit
<1>3. /\ \A f \in Countable : w.fs[f].lazy_count_ \in Int
      /\ \A b \in Buttons : w.bs[b] \in Int
  BY DEF OutputType, FlagStatuses, FlagItems, Countable
<1>4. \A f \in Countable :
         /\ v.fs[f].count_ = IF down THEN w.fs[f].count_ + ToEventBy(k, to, f) ELSE w.fs[f].count_ - ToEventBy(k, to, f)
         /\ v.fs[f].lazy_count_ = w.fs[f].lazy_count_
  BY <1>1 DEF FlagsBy, SameLazies
<1>5. ASSUME NEW f \in Countable
      PROVE  v.fs[f].lazy_count_ = IF down THEN w.fs[f].lazy_count_ + Bit(to.code = Code("VK_LAZY", f))
                                   ELSE w.fs[f].lazy_count_ - Bit(to.code = Code("VK_LAZY", f))
  <2> DEFINE n == Bit(to.code = Code("VK_LAZY", f))
  <2>1. n = 0
    BY <1>2
  <2> HIDE DEF n
  <2>2. v.fs[f].lazy_count_ = IF down THEN w.fs[f].lazy_count_ + n ELSE w.fs[f].lazy_count_ - n
    BY <1>4, <1>3, <2>1
  <2> QED BY <2>2 DEF n
<1>6. ASSUME NEW b \in Buttons
      PROVE  v.bs[b] = IF down THEN w.bs[b] + Bit(to.code = Code("button", b)) ELSE w.bs[b] - Bit(to.code = Code("button", b))
  <2> DEFINE n == Bit(to.code = Code("button", b))
  <2>1. n = 0
    BY <1>2
  <2> HIDE DEF n
  <2>2. v.bs[b] = IF down THEN w.bs[b] + n ELSE w.bs[b] - n
    BY <1>1, <1>3, <2>1
  <2> QED BY <2>2 DEF n
<1>7. FiresTo(w, v, k, to, down)
  BY <1>1, <1>4, <1>5, <1>6 DEF FiresTo
<1> QED
  BY <1>7 DEF v

\* A key that is held and is no button and no VK_LAZY is a modifier.
LEMMA LikeModifierKinds ==
    ASSUME NEW to, LikeModifier(to), ~IsEventLikeModifier(to.code)
    PROVE  to.code.t = "mod"
BY DEF LikeModifier, FlagOf

\* Buttons and VK_LAZY are pressed and released.
LEMMA EventLikeKinds ==
    ASSUME NEW to, IsEventLikeModifier(to.code), NEW down
    PROVE  LikeModifier(to) /\ HoldType(to, down) = IF down THEN "DOWN" ELSE "UP"
BY DEF LikeModifier, FlagOf, IsEventLikeModifier, HoldType

\* The flags of a key that is held.
LEMMA FlagsOfWorld ==
    ASSUME NEW w, OutputType(w), NEW k, NEW to, LikeModifier(to)
    PROVE  /\ \A down : down = TRUE => FlagsBy(w.fs, ModifierDown(w.fs, to, Pure(k)), k, to, down)
           /\ \A down : down = FALSE => FlagsBy(w.fs, ModifierUp(w.fs, to, Pure(k)), k, to, down)
<1>1. w.fs \in FlagStatuses
  BY DEF OutputType
<1>2. \A f : ToEventBy(k, to, f) = Bit(f \in FlagOf(to.code) \cup to.mods) - Bit(f \in Pure(k))
  BY DEF ToEventBy
<1>3. ASSUME NEW down, down = TRUE PROVE FlagsBy(w.fs, ModifierDown(w.fs, to, Pure(k)), k, to, down)
  BY <1>1, <1>2, <1>3, ModifierDownChange DEF FlagsBy
<1>4. ASSUME NEW down, down = FALSE PROVE FlagsBy(w.fs, ModifierUp(w.fs, to, Pure(k)), k, to, down)
  BY <1>1, <1>2, <1>4, ModifierDownChange DEF FlagsBy
<1> QED
  BY <1>3, <1>4

\* The last to key of a sequence is held.
LEMMA HoldLastFires ==
    ASSUME NEW w, OutputType(w), NEW id, NEW k, NEW last \in ToEvents, NEW pt, NEW down, down = TRUE
    PROVE  FiresTo(w, HoldLast(w, id, k, last, pt), k, last, down)
<1> DEFINE a == TemporarilyOn(w, Pure(k))
           gs == ModifierDown(a.fs, last, Pure(k))
           held1 == [a EXCEPT !.fs = gs]
           v == HoldLast(w, id, k, last, pt)
<1>0. down \in BOOLEAN
  OBVIOUS
<1>1. Sends(w, a)
  BY TemporarilyOnSends
<1>2. [TemporarilyOn(w, Pure(k)) EXCEPT !.fs = ModifierDown(@, last, Pure(k))] = held1
  BY DEF TemporarilyOn, OutputType, Fields
<1> HIDE DEF a
<1>3. OutputType(a) /\ Keeps(w, a)
  BY <1>1, SendsKeeps DEF Sends
<1>4. LikeModifier(last) => FlagsBy(a.fs, gs, k, last, down)
  BY <1>3, FlagsOfWorld
<1> HIDE DEF gs
<1>5. LikeModifier(last) => OutputType(held1)
  BY <1>3, <1>4, SetFlagsActs DEF FlagsBy
<1>6. CASE IsEventLikeModifier(last.code)
  <2> DEFINE b == Fire(held1, last, "DOWN", pt, FALSE)
             c == CancelRepeat(b)
  <2>1. v = c
    BY <1>2, <1>6 DEF HoldLast, LikeModifier
  <2>2. LikeModifier(last) /\ HoldType(last, down) = "DOWN"
    BY <1>6, EventLikeKinds
  <2>3. last.code.t = "button" => "DOWN" # "MODIFY"
    OBVIOUS
  <2> HIDE DEF held1
  <2>4. FiresSingle(held1, b, last.code, "DOWN")
    BY <1>5, <2>2, <2>3, FireFires
  <2> HIDE DEF b
  <2>5. FiresTo(a, b, k, last, down)
    BY <1>0, <1>3, <1>4, <2>2, <2>4, FlagsThenFires DEF held1
  <2>6. Keeps(b, c)
    BY <2>4, CancelRepeatKeeps DEF FiresSingle, Acts
  <2> HIDE DEF c
  <2>7. FiresTo(w, c, k, last, down)
    BY <1>3, <2>5, <2>6, FiresToThenKeeps, KeepsThenFiresTo
  <2> HIDE DEF v
  <2> QED BY <2>1, <2>7 DEF v
<1>7. CASE ~IsEventLikeModifier(last.code) /\ LikeModifier(last)
  <2> DEFINE b == FireCurrentModifiers(held1, pt)
             c == CancelRepeat(b)
  <2>1. v = c
    BY <1>2, <1>7 DEF HoldLast
  <2>2. FiresTo(a, held1, k, last, down)
    BY <1>0, <1>3, <1>4, <1>7, LikeModifierKinds, ModifierFires
  <2> HIDE DEF held1
  <2>3. Sends(held1, b)
    BY <1>5, <1>7, FireCurrentModifiersSends
  <2> HIDE DEF b
  <2>4. Keeps(held1, b) /\ OutputType(b)
    BY <2>3, SendsKeeps DEF Sends
  <2>5. Keeps(b, c)
    BY <2>4, CancelRepeatKeeps
  <2> HIDE DEF c
  <2>6. FiresTo(w, c, k, last, down)
    BY <1>3, <2>2, <2>4, <2>5, FiresToThenKeeps, KeepsThenFiresTo
  <2> HIDE DEF v
  <2> QED BY <2>1, <2>6 DEF v
<1>8. CASE ~LikeModifier(last)
  <2>1. v = IF k.repeat THEN StartRepeat(w, {id}) ELSE w
    BY <1>8 DEF HoldLast, LikeModifier
  <2> HIDE DEF v
  <2>2. Keeps(w, v)
    BY <2>1, StartRepeatKeeps, KeepsNothing
  <2>3. FiresTo(w, v, k, last, down)
    BY <1>0, <1>8, <2>2, PlainKeyFires
  <2> QED BY <2>3 DEF v
<1> QED
  BY <1>6, <1>7, <1>8

\* A sequence of to keys and its last one.
LEMMA FrontType ==
    ASSUME NEW to \in Seq(ToEvents), Len(to) > 1
    PROVE  Front(to) \in Seq(ToEvents) /\ Last(to) \in ToEvents /\ Tail(to) \in Seq(ToEvents)
BY DEF Front, Last

\* KeyToKey::remap with several to keys, when the from key goes down.
LEMMA FireSequenceDownFires ==
    ASSUME NEW w, OutputType(w), NEW id, NEW k, NEW to \in Seq(ToEvents), Len(to) > 1, NEW pt, NEW down, down = TRUE
    PROVE  FiresTo(w, FireSequenceDown(w, id, k, to, pt), k, Last(to), down)
<1> DEFINE c == CancelRepeat(w)
           a == TemporarilyOff(c, Pure(k))
           keys == IF LikeModifier(Last(to)) THEN Front(to) ELSE to
           b(x) == FireEach(a, keys, pt, x)
           v == HoldLast(b(TRUE), id, k, Last(to), pt)
<1>1. FireSequenceDown(w, id, k, to, pt) = v
  BY DEF FireSequenceDown
<1>2. Keeps(w, c) /\ c.rep.q = <<>> /\ OutputType(c)
  BY CancelRepeatKeeps DEF Keeps, Acts
<1> HIDE DEF c
<1>3. Sends(c, a)
  BY <1>2, TemporarilyOnSends
<1> HIDE DEF a
<1>4. keys \in Seq(ToEvents)
  BY FrontType
<1> HIDE DEF keys
<1>5. Keeps(w, b(TRUE))
  <2>1. \A x \in BOOLEAN : Types(a, b(x), x)
    BY <1>3, <1>4, FireEachTypes DEF Sends
  <2>2. Types(a, b(TRUE), TRUE)
    BY <2>1, Zenon
  <2> HIDE DEF b
  <2>3. Paired(a.rep.q)
    BY <1>2, <1>3, EmptyPaired DEF Sends
  <2>4. Keeps(a, b(TRUE))
    BY <2>2, <2>3 DEF Types, Keeps, Acts, KeepsRepeatable, Repeatable
  <2>5. Keeps(c, a)
    BY <1>3, SendsKeeps
  <2> QED BY <1>2, <2>4, <2>5, KeepsTwice
<1> HIDE DEF b
<1>6. OutputType(b(TRUE))
  BY <1>5 DEF Keeps, Acts
<1>7. FiresTo(b(TRUE), v, k, Last(to), down)
  BY <1>6, FrontType, HoldLastFires
<1> HIDE DEF v
<1> QED
  BY <1>1, <1>5, <1>7, KeepsThenFiresTo

\* ... and when it comes up.
LEMMA FireSequenceUpFires ==
    ASSUME NEW w, OutputType(w), NEW id, NEW k, NEW to \in Seq(ToEvents), Len(to) > 1, NEW pt, NEW down, down = FALSE
    PROVE  FiresTo(w, FireSequenceUp(w, id, k, to, pt), k, Last(to), down)
<1> DEFINE last == Last(to)
           gs == ModifierUp(w.fs, last, Pure(k))
           a == [w EXCEPT !.fs = gs]
           released == TemporarilyOff(a, Pure(k))
           v == FireSequenceUp(w, id, k, to, pt)
<1>0. down \in BOOLEAN
  OBVIOUS
<1>1. last \in ToEvents
  BY FrontType
<1>2. v = CASE IsEventLikeModifier(last.code) -> Fire(released, last, "UP", pt, FALSE)
            [] ~IsEventLikeModifier(last.code) /\ LikeModifier(last) -> FireCurrentModifiers(released, pt)
            [] ~LikeModifier(last) -> IF id \in w.rep.mine THEN CancelRepeat(w) ELSE w
  BY DEF FireSequenceUp
<1> HIDE DEF v, last
<1>3. LikeModifier(last) => FlagsBy(w.fs, gs, k, last, down)
  BY FlagsOfWorld
<1>4. LikeModifier(last) => OutputType(a)
  BY <1>3, SetFlagsActs DEF FlagsBy
<1>5. LikeModifier(last) => Sends(a, released)
  <2> HIDE DEF a
  <2> QED BY <1>4, TemporarilyOnSends
<1>6. CASE IsEventLikeModifier(last.code)
  <2> DEFINE b == Fire(released, last, "UP", pt, FALSE)
  <2>1. v = b
    BY <1>2, <1>6 DEF LikeModifier
  <2>2. LikeModifier(last) /\ HoldType(last, down) = "UP"
    BY <1>6, EventLikeKinds
  <2>3. last.code.t = "button" => "UP" # "MODIFY"
    OBVIOUS
  <2> HIDE DEF released, a, gs
  <2>4. FiresSingle(released, b, last.code, "UP")
    BY <1>1, <1>5, <2>2, <2>3, FireFires DEF Sends
  <2> HIDE DEF b
  <2>5. FiresSingle(a, b, last.code, "UP")
    BY <1>5, <2>2, <2>4, SendsKeeps, KeepsThenFires
  <2>6. FiresTo(w, b, k, last, down)
    BY <1>0, <1>3, <2>2, <2>5, FlagsThenFires DEF a
  <2> QED BY <2>1, <2>6 DEF v, last
<1>7. CASE ~IsEventLikeModifier(last.code) /\ LikeModifier(last)
  <2> DEFINE b == FireCurrentModifiers(released, pt)
  <2>1. v = b
    BY <1>2, <1>7
  <2>2. FiresTo(w, a, k, last, down)
    <3> HIDE DEF gs
    <3> QED BY <1>0, <1>3, <1>7, LikeModifierKinds, ModifierFires
  <2> HIDE DEF a, released
  <2>3. Sends(released, b)
    BY <1>5, <1>7, FireCurrentModifiersSends DEF Sends
  <2> HIDE DEF b
  <2>4. Keeps(a, b)
    BY <1>5, <1>7, <2>3, SendsKeeps, KeepsTwice
  <2>5. FiresTo(w, b, k, last, down)
    BY <2>2, <2>4, FiresToThenKeeps
  <2> QED BY <2>1, <2>5 DEF v, last
<1>8. CASE ~LikeModifier(last)
  <2>1. v = IF id \in w.rep.mine THEN CancelRepeat(w) ELSE w
    BY <1>2, <1>8 DEF LikeModifier
  <2>2. Keeps(w, v)
    BY <2>1, CancelRepeatKeeps, KeepsNothing
  <2>3. FiresTo(w, v, k, last, down)
    BY <1>0, <1>8, <2>2, PlainKeyFires
  <2> QED BY <2>3 DEF v, last
<1> QED
  BY <1>6, <1>7, <1>8

\* What a press of the KeyToKey adds by its to keys.
FiresPart(w, v, k, down) ==
    /\ Acts(w, v)
    /\ \A f \in Countable :
          /\ v.fs[f].count_ = IF down THEN w.fs[f].count_ + ToBy(k, f) ELSE w.fs[f].count_ - ToBy(k, f)
          /\ v.fs[f].lazy_count_ = IF down THEN w.fs[f].lazy_count_ + Bit(Sustains(k, Code("VK_LAZY", f)))
                                   ELSE w.fs[f].lazy_count_ - Bit(Sustains(k, Code("VK_LAZY", f)))
    /\ \A b \in Buttons : v.bs[b] = IF down THEN w.bs[b] + Bit(Sustains(k, Code("button", b)))
                                    ELSE w.bs[b] - Bit(Sustains(k, Code("button", b)))

\* What is held of a part is its last to key.
LEMMA LastFiresPart ==
    ASSUME NEW w, NEW v, NEW k, Keys(k, "TO") # <<>>, NEW down, FiresTo(w, v, k, Last(Keys(k, "TO")), down)
    PROVE  FiresPart(w, v, k, down)
<1> DEFINE to == Last(Keys(k, "TO"))
<1>1. ToModifier(k) <=> LikeModifier(to)
  BY DEF ToModifier
<1>2. \A f : ToBy(k, f) = ToEventBy(k, to, f)
  BY <1>1 DEF ToBy, ToEventBy
<1>3. \A f : Sustains(k, Code("VK_LAZY", f)) <=> to.code = Code("VK_LAZY", f)
  BY <1>1 DEF Sustains, Code, LikeModifier, IsEventLikeModifier
<1>4. \A b : Sustains(k, Code("button", b)) <=> to.code = Code("button", b)
  BY <1>1 DEF Sustains, Code, LikeModifier, IsEventLikeModifier
<1> HIDE DEF to
<1>5. \A f : Bit(Sustains(k, Code("VK_LAZY", f))) = Bit(to.code = Code("VK_LAZY", f))
  BY <1>3 DEF Bit
<1>6. \A b : Bit(Sustains(k, Code("button", b))) = Bit(to.code = Code("button", b))
  BY <1>4 DEF Bit
<1>7. FiresTo(w, v, k, to, down)
  BY DEF to
<1>8. Acts(w, v)
  BY <1>7 DEF FiresTo
<1>9. ASSUME NEW f \in Countable
      PROVE  /\ v.fs[f].count_ = IF down THEN w.fs[f].count_ + ToBy(k, f) ELSE w.fs[f].count_ - ToBy(k, f)
             /\ v.fs[f].lazy_count_ = IF down THEN w.fs[f].lazy_count_ + Bit(Sustains(k, Code("VK_LAZY", f)))
                                      ELSE w.fs[f].lazy_count_ - Bit(Sustains(k, Code("VK_LAZY", f)))
  <2> DEFINE m == Bit(Sustains(k, Code("VK_LAZY", f)))
             n == Bit(to.code = Code("VK_LAZY", f))
  <2>1. m = n
    BY <1>5
  <2>2. v.fs[f].lazy_count_ = IF down THEN w.fs[f].lazy_count_ + n ELSE w.fs[f].lazy_count_ - n
    BY <1>7 DEF FiresTo
  <2>3. v.fs[f].count_ = IF down THEN w.fs[f].count_ + ToEventBy(k, to, f) ELSE w.fs[f].count_ - ToEventBy(k, to, f)
    BY <1>7 DEF FiresTo
  <2> HIDE DEF m, n
  <2>4. v.fs[f].lazy_count_ = IF down THEN w.fs[f].lazy_count_ + m ELSE w.fs[f].lazy_count_ - m
    BY <2>1, <2>2
  <2>5. v.fs[f].count_ = IF down THEN w.fs[f].count_ + ToBy(k, f) ELSE w.fs[f].count_ - ToBy(k, f)
    BY <1>2, <2>3
  <2> QED BY <2>4, <2>5 DEF m
<1>10. ASSUME NEW b \in Buttons
       PROVE  v.bs[b] = IF down THEN w.bs[b] + Bit(Sustains(k, Code("button", b)))
                        ELSE w.bs[b] - Bit(Sustains(k, Code("button", b)))
  <2> DEFINE m == Bit(Sustains(k, Code("button", b)))
             n == Bit(to.code = Code("button", b))
  <2>1. m = n
    BY <1>6
  <2>2. v.bs[b] = IF down THEN w.bs[b] + n ELSE w.bs[b] - n
    BY <1>7 DEF FiresTo
  <2> HIDE DEF m, n
  <2>3. v.bs[b] = IF down THEN w.bs[b] + m ELSE w.bs[b] - m
    BY <2>1, <2>2
  <2> QED BY <2>3 DEF m
<1> QED
  BY <1>8, <1>9, <1>10 DEF FiresPart

\* A part without to keys holds nothing.
LEMMA NoKeysFirePart ==
    ASSUME NEW w, OutputType(w), NEW k, Keys(k, "TO") = <<>>, NEW down \in BOOLEAN
    PROVE  FiresPart(w, w, k, down)
<1>1. ~ToModifier(k)
  BY DEF ToModifier
<1>2. /\ \A f : ToBy(k, f) = 0
      /\ \A f : Bit(Sustains(k, Code("VK_LAZY", f))) = 0
      /\ \A b : Bit(Sustains(k, Code("button", b))) = 0
  BY <1>1 DEF ToBy, Sustains, Bit
<1>3. /\ \A f \in Countable : w.fs[f].count_ \in Int /\ w.fs[f].lazy_count_ \in Int
      /\ \A b \in Buttons : w.bs[b] \in Int
  BY DEF OutputType, FlagStatuses, FlagItems, Countable
<1>4. ASSUME NEW f \in Countable
      PROVE  /\ w.fs[f].count_ = IF down THEN w.fs[f].count_ + ToBy(k, f) ELSE w.fs[f].count_ - ToBy(k, f)
             /\ w.fs[f].lazy_count_ = IF down THEN w.fs[f].lazy_count_ + Bit(Sustains(k, Code("VK_LAZY", f)))
                                      ELSE w.fs[f].lazy_count_ - Bit(Sustains(k, Code("VK_LAZY", f)))
  <2> DEFINE m == Bit(Sustains(k, Code("VK_LAZY", f)))
  <2>1. m = 0
    BY <1>2
  <2> HIDE DEF m
  <2>2. w.fs[f].lazy_count_ = IF down THEN w.fs[f].lazy_count_ + m ELSE w.fs[f].lazy_count_ - m
    BY <2>1, <1>3
  <2> QED BY <1>2, <1>3, <2>2 DEF m
<1>5. ASSUME NEW b \in Buttons
      PROVE  w.bs[b] = IF down THEN w.bs[b] + Bit(Sustains(k, Code("button", b)))
                       ELSE w.bs[b] - Bit(Sustains(k, Code("button", b)))
  <2> DEFINE m == Bit(Sustains(k, Code("button", b)))
  <2>1. m = 0
    BY <1>2
  <2> HIDE DEF m
  <2>2. w.bs[b] = IF down THEN w.bs[b] + m ELSE w.bs[b] - m
    BY <2>1, <1>3
  <2> QED BY <2>2 DEF m
<1>6. Acts(w, w)
  BY KeepsNothing DEF Keeps
<1> QED
  BY <1>4, <1>5, <1>6 DEF FiresPart

\* KeyToKey::remap, its to keys: what the press adds the release takes away.
LEMMA FireToFires ==
    ASSUME NEW w, OutputType(w), NEW id, NEW k \in KeyToKeys, NEW down \in BOOLEAN, NEW pt
    PROVE  FiresPart(w, FireTo(w, id, k, down, pt), k, down)
<1> DEFINE to == Keys(k, "TO")
           v == FireTo(w, id, k, down, pt)
<1>1. to \in Seq(ToEvents) /\ Len(to) \in Nat
  <2>1. "TO" \in ListNames
    BY DEF ListNames
  <2> HIDE DEF to
  <2>2. to \in Seq(ToEvents)
    BY <2>1, KeysType DEF to
  <2> QED BY <2>2
<1>2. v = CASE Len(to) = 0 -> w
            [] Len(to) = 1 -> FireSingle(w, k, to[1], down, pt)
            [] Len(to) > 1 /\ down -> FireSequenceDown(w, id, k, to, pt)
            [] Len(to) > 1 /\ ~down -> FireSequenceUp(w, id, k, to, pt)
  BY DEF FireTo
<1> HIDE DEF to, v
<1>3. CASE Len(to) = 0
  <2>1. v = w /\ to = <<>>
    BY <1>1, <1>2, <1>3
  <2> QED BY <2>1, NoKeysFirePart DEF to, v
<1>4. CASE Len(to) = 1
  <2>1. v = FireSingle(w, k, to[1], down, pt)
    BY <1>2, <1>4
  <2>2. to # <<>> /\ to[1] \in ToEvents /\ Last(to) = to[1]
    <3>1. 1 \in DOMAIN to
      BY <1>1, <1>4
    <3>2. to[1] \in ToEvents
      BY <1>1, <3>1
    <3>3. to # <<>>
      BY <1>1, <1>4
    <3>4. Last(to) = to[1]
      BY <1>4 DEF Last
    <3> QED BY <3>2, <3>3, <3>4
  <2>3. FiresTo(w, v, k, Last(to), down)
    BY <2>1, <2>2, FireSingleFires
  <2> QED BY <2>2, <2>3, LastFiresPart DEF to, v
<1>5. CASE Len(to) > 1
  <2>1. to # <<>>
    BY <1>1, <1>5
  <2>2. FiresTo(w, v, k, Last(to), down)
    <3>1. CASE down
      <4>1. v = FireSequenceDown(w, id, k, to, pt)
        BY <1>1, <1>2, <1>5, <3>1
      <4> QED BY <1>1, <1>5, <3>1, <4>1, FireSequenceDownFires
    <3>2. CASE ~down
      <4>1. v = FireSequenceUp(w, id, k, to, pt)
        BY <1>1, <1>2, <1>5, <3>2
      <4> QED BY <1>1, <1>5, <3>2, <4>1, FireSequenceUpFires
    <3> QED BY <3>1, <3>2
  <2> QED BY <2>1, <2>2, LastFiresPart DEF to, v
<1>6. Len(to) = 0 \/ Len(to) = 1 \/ Len(to) > 1
  <2>1. \A n \in Nat : n = 0 \/ n = 1 \/ n > 1
    OBVIOUS
  <2> QED BY <1>1, <2>1, Zenon
<1> QED
  BY <1>3, <1>4, <1>5, <1>6

-----------------------------------------------------------------------------
(* Before and after *)

\* Keys that are typed count nothing.
LEMMA TypesKeeps ==
    ASSUME NEW w, NEW v, Types(w, v, FALSE)
    PROVE  Keeps(w, v)
BY DEF Types, Keeps, Acts, KeepsRepeatable

\* The keys before and after the to keys.
LEMMA FireEachKeeps ==
    ASSUME NEW w, OutputType(w), NEW keys \in Seq(ToEvents), NEW pt
    PROVE  Keeps(w, FireEach(w, keys, pt, FALSE))
<1>1. \A x \in BOOLEAN : Types(w, FireEach(w, keys, pt, x), x)
  BY FireEachTypes
<1>2. Types(w, FireEach(w, keys, pt, FALSE), FALSE)
  BY <1>1, Zenon
<1> HIDE DEF FireEach
<1> QED
  BY <1>2, TypesKeeps

\* The modifiers of the from key are taken away for the moment.
LEMMA TemporarilyKeeps ==
    ASSUME NEW w, OutputType(w), NEW F
    PROVE  /\ Keeps(w, TemporarilyOn(w, F)) /\ OutputType(TemporarilyOn(w, F))
           /\ Keeps(w, TemporarilyOff(w, F)) /\ OutputType(TemporarilyOff(w, F))
BY TemporarilyOnSends, SendsKeeps DEF Sends

\* The keys of "before".
LEMMA FireBeforeKeeps ==
    ASSUME NEW w, OutputType(w), NEW k \in KeyToKeys, NEW pt
    PROVE  Keeps(w, FireBefore(w, k, pt))
<1> DEFINE a == TemporarilyOff(w, Pure(k))
           b == FireEach(a, Keys(k, "BEFORE"), pt, FALSE)
           v == TemporarilyOn(b, Pure(k))
<1>1. Keeps(w, a) /\ OutputType(a)
  BY TemporarilyKeeps
<1>2. Keys(k, "BEFORE") \in Seq(ToEvents)
  BY KeysType DEF ListNames
<1> HIDE DEF a
<1>3. Keeps(a, b)
  BY <1>1, <1>2, FireEachKeeps
<1> HIDE DEF b
<1>4. Keeps(b, v)
  BY <1>3, TemporarilyKeeps DEF Keeps, Acts
<1> HIDE DEF v
<1>5. Keeps(w, v)
  BY <1>1, <1>3, <1>4, KeepsTwice
<1> QED
  BY <1>5 DEF FireBefore, a, b, v

\* The least of a set of numbers.
LEMMA MinIn ==
    ASSUME NEW S \in SUBSET Nat, S # {}
    PROVE  Min(S) \in S
<1>1. \E x \in S : \A y \in S : x <= y
  BY Least
<1> QED
  BY <1>1 DEF Min

\* One of the lists of keys of "after".
LEMMA FireAfterKeysKeeps ==
    ASSUME NEW w, OutputType(w), NEW k, NEW keys \in Seq(ToEvents), keys # <<>>, NEW pt
    PROVE  Keeps(w, FireAfterKeys(w, k, keys, pt))
<1> DEFINE F == keys[1].mods
           a == TemporarilyOff(w, F)
           b == TemporarilyOff(a, Pure(k))
           c == FireEach(b, Tail(keys), pt, FALSE)
           d == TemporarilyOn(c, Pure(k))
           v == TemporarilyOn(d, F)
<1>1. FireAfterKeys(w, k, keys, pt) = v
  BY DEF FireAfterKeys
<1>2. Tail(keys) \in Seq(ToEvents)
  OBVIOUS
<1> HIDE DEF F
<1>3. Keeps(w, a) /\ OutputType(a)
  BY TemporarilyKeeps
<1> HIDE DEF a
<1>4. Keeps(a, b) /\ OutputType(b)
  BY <1>3, TemporarilyKeeps
<1> HIDE DEF b
<1>5. Keeps(b, c)
  BY <1>2, <1>4, FireEachKeeps
<1> HIDE DEF c
<1>6. Keeps(c, d) /\ OutputType(d)
  BY <1>5, TemporarilyKeeps DEF Keeps, Acts
<1> HIDE DEF d
<1>7. Keeps(d, v)
  BY <1>6, TemporarilyKeeps
<1> HIDE DEF v
<1>8. Keeps(w, v)
  BY <1>3, <1>4, <1>5, <1>6, <1>7, KeepsTwice
<1> QED
  BY <1>1, <1>8

\* The temporary counts start anew.
LEMMA SetTemporaryKeeps ==
    ASSUME NEW w, OutputType(w)
    PROVE  LET v == [w EXCEPT !.fs = SetTemporary(w.fs)] IN Keeps(w, v) /\ OutputType(v)
<1>1. w.fs \in FlagStatuses
  BY DEF OutputType
<1>2. Sends(w, [w EXCEPT !.fs = SetTemporary(w.fs)])
  BY <1>1, TemporaryType, SetFlags
<1> QED
  BY <1>2, SendsKeeps DEF Sends

\* The keys of "after".
LEMMA FireAfterKeeps ==
    ASSUME NEW w, OutputType(w), NEW k \in KeyToKeys, NEW down, NEW pt
    PROVE  Keeps(w, FireAfter(w, k, down, pt))
<1> DEFINE after == k.lists["AFTER"]
           a == [w EXCEPT !.fs = SetTemporary(w.fs)]
           i == SelectInSeq(after, LAMBDA keys : IsOn(a.fs, keys[1].mods))
           v == FireAfter(w, k, down, pt)
<1>1. v = IF down \/ after = <<>> THEN w ELSE IF i = 0 THEN a ELSE FireAfterKeys(a, k, after[i], pt)
  BY DEF FireAfter
<1>2. after \in Seq(Seq(ToEvents)) /\ \A n \in DOMAIN after : after[n] # <<>>
  BY DEF KeyToKeys, ListNames
<1>3. i \in 0..Len(after)
  <2> DEFINE I == {n \in 1..Len(after) : IsOn(a.fs, after[n][1].mods)}
  <2>1. i = IF I # {} THEN Min(I) ELSE 0
    BY DEF SelectInSeq
  <2>2. I \in SUBSET (1..Len(after)) /\ I \in SUBSET Nat /\ Len(after) \in Nat
    BY <1>2
  <2> HIDE DEF I, i, after
  <2>3. I # {} => Min(I) \in I
    BY <2>2, MinIn
  <2>4. CASE I = {}
    BY <2>1, <2>2, <2>4
  <2>5. CASE I # {}
    <3>1. i \in I
      BY <2>1, <2>3, <2>5
    <3> QED BY <2>2, <3>1
  <2> QED BY <2>4, <2>5
<1> HIDE DEF i, v
<1>4. Keeps(w, a) /\ OutputType(a)
  BY SetTemporaryKeeps
<1> HIDE DEF a
<1>5. CASE down \/ after = <<>>
  BY <1>1, <1>5, KeepsNothing DEF v
<1>6. CASE ~down /\ after # <<>> /\ i = 0
  BY <1>1, <1>4, <1>6 DEF v
<1>7. CASE ~down /\ after # <<>> /\ i # 0
  <2>1. v = FireAfterKeys(a, k, after[i], pt)
    BY <1>1, <1>7
  <2>2. after[i] \in Seq(ToEvents) /\ after[i] # <<>>
    <3> HIDE DEF after
    <3>1. i \in DOMAIN after /\ DOMAIN after = 1..Len(after)
      BY <1>2, <1>3, <1>7
    <3> QED BY <1>2, <3>1
  <2> HIDE DEF after
  <2>3. Keeps(a, v)
    BY <1>4, <2>1, <2>2, FireAfterKeysKeeps
  <2>4. Keeps(w, v)
    BY <1>4, <2>3, KeepsTwice
  <2> QED BY <2>4 DEF v
<1> QED
  BY <1>5, <1>6, <1>7

-----------------------------------------------------------------------------
(* What the functions that are pressed have added *)

PressedSum(p, f) == SumFunction([id \in PartIds |-> p[id] * Contribution(id, f)])
LazySum(p, f) == SumFunction([id \in PartIds |-> p[id] * Bit(Holds(id, Code("VK_LAZY", f)))])
ButtonSum(p, b) == SumFunction([id \in PartIds |-> p[id] * ButtonContribution(id, b)])

TakenBy(i, f) == Bit(f \in FlagOf(Items[conf][i].from))
AwayFlag(st, i, f) == Bit(st[i].decreased /\ f \in PureFlags(Items[conf][i]))
WithheldSum(p, st, f) == SumFunction([i \in Periodic |-> p[<<i, "ITEM">>] * TakenBy(i, f) + AwayFlag(st, i, f)])
ButtonWithheldSum(p, b) == SumFunction([i \in Periodic |-> p[<<i, "ITEM">>] * Bit(Items[conf][i].from = Code("button", b))])

\* What is left of the counts: by the keys that are held.
CountExcess(w, f) == w.fs[f].count_ - PressedSum(w.pressing, f) + WithheldSum(w.pressing, w.st, f)
LazyExcess(w, f) == w.fs[f].lazy_count_ - LazySum(w.pressing, f)
ButtonExcess(w, b) == w.bs[b] - ButtonSum(w.pressing, b) + ButtonWithheldSum(w.pressing, b)

SameExcess(w, v) ==
    /\ \A f \in Countable : CountExcess(v, f) = CountExcess(w, f) /\ LazyExcess(v, f) = LazyExcess(w, f)
    /\ \A b \in Buttons : ButtonExcess(v, b) = ButtonExcess(w, b)

\* The same is left of the counts, and again.
LEMMA SameExcessTwice ==
    ASSUME NEW u, NEW v, NEW w, SameExcess(u, v), SameExcess(v, w)
    PROVE  SameExcess(u, w)
BY DEF SameExcess

\* The same is left when nothing that counts has changed.
LEMMA SameCountsExcess ==
    ASSUME NEW w, NEW v, SameCounts(w, v), v.pressing = w.pressing, v.st = w.st
    PROVE  SameExcess(w, v)
<1>1. ASSUME NEW f \in Countable
      PROVE  CountExcess(v, f) = CountExcess(w, f) /\ LazyExcess(v, f) = LazyExcess(w, f)
  <2>1. v.fs[f].count_ = w.fs[f].count_ /\ v.fs[f].lazy_count_ = w.fs[f].lazy_count_
    BY DEF SameCounts, SameFlagCounts
  <2> QED BY <2>1 DEF CountExcess, LazyExcess
<1>2. \A b \in Buttons : ButtonExcess(v, b) = ButtonExcess(w, b)
  BY DEF SameCounts, ButtonExcess
<1> QED
  BY <1>1, <1>2 DEF SameExcess

-----------------------------------------------------------------------------
(* The sets that are summed over *)

\* A function has a few parts.
LEMMA PartNamesFinite == IsFiniteSet(UNION {PartsOf(type) : type \in ItemTypes})
<1> DEFINE N == {"KTK", "SHORT", "LONG", "LONG_LONG", "ONLY", "BEFORE_AFTER", "FROM", "DOWNUP", "INTERRUPTED", "FIRE"}
<1>1. IsFiniteSet({"KTK"}) /\ IsFiniteSet({"SHORT"}) /\ IsFiniteSet({"LONG"}) /\ IsFiniteSet({"LONG_LONG"})
      /\ IsFiniteSet({"ONLY"}) /\ IsFiniteSet({"BEFORE_AFTER"}) /\ IsFiniteSet({"FROM"}) /\ IsFiniteSet({"DOWNUP"})
      /\ IsFiniteSet({"INTERRUPTED"}) /\ IsFiniteSet({"FIRE"})
  BY FS_Singleton
<1>2. \A S, T : IsFiniteSet(S) /\ IsFiniteSet(T) => IsFiniteSet(S \cup T)
  BY FS_Union
<1>3. IsFiniteSet({"KTK"} \cup {"SHORT"}) /\ IsFiniteSet({"LONG"} \cup {"LONG_LONG"})
      /\ IsFiniteSet({"ONLY"} \cup {"BEFORE_AFTER"}) /\ IsFiniteSet({"FROM"} \cup {"DOWNUP"})
      /\ IsFiniteSet({"INTERRUPTED"} \cup {"FIRE"})
  BY <1>1, <1>2, Zenon
<1>4. IsFiniteSet(({"KTK"} \cup {"SHORT"}) \cup ({"LONG"} \cup {"LONG_LONG"}))
      /\ IsFiniteSet(({"ONLY"} \cup {"BEFORE_AFTER"}) \cup ({"FROM"} \cup {"DOWNUP"}))
  BY <1>2, <1>3, Zenon
<1>5. IsFiniteSet((({"KTK"} \cup {"SHORT"}) \cup ({"LONG"} \cup {"LONG_LONG"}))
                  \cup (({"ONLY"} \cup {"BEFORE_AFTER"}) \cup ({"FROM"} \cup {"DOWNUP"})))
  BY <1>2, <1>4, Zenon
<1>6. IsFiniteSet(((({"KTK"} \cup {"SHORT"}) \cup ({"LONG"} \cup {"LONG_LONG"}))
                  \cup (({"ONLY"} \cup {"BEFORE_AFTER"}) \cup ({"FROM"} \cup {"DOWNUP"})))
                  \cup ({"INTERRUPTED"} \cup {"FIRE"}))
  BY <1>2, <1>3, <1>5, Zenon
<1>7. N = ((({"KTK"} \cup {"SHORT"}) \cup ({"LONG"} \cup {"LONG_LONG"}))
          \cup (({"ONLY"} \cup {"BEFORE_AFTER"}) \cup ({"FROM"} \cup {"DOWNUP"})))
          \cup ({"INTERRUPTED"} \cup {"FIRE"})
  OBVIOUS
<1>8. IsFiniteSet(N)
  BY <1>6, <1>7
<1>9. UNION {PartsOf(type) : type \in ItemTypes} \subseteq N
  BY DEF PartsOf, ItemTypes, PeriodParts
<1> HIDE DEF N
<1> QED
  BY <1>8, <1>9, FS_Subset

\* There are finitely many ids of parts and of items.
LEMMA IdsFinite ==
    ASSUME conf \in DOMAIN Configurations
    PROVE  IsFiniteSet(PartIds) /\ IsFiniteSet(Periodic) /\ IsFiniteSet(DOMAIN Items[conf])
<1> DEFINE P == UNION {PartsOf(type) : type \in ItemTypes}
           D == DOMAIN Items[conf]
<1>1. PICK n \in Nat : D = 1..n
  BY ItemsType
<1>2. IsFiniteSet(D)
  BY <1>1, FS_Interval
<1>3. IsFiniteSet(P)
  BY PartNamesFinite
<1>4. PartIds \subseteq D \X P
  <2>1. \A i \in D : DOMAIN Items[conf][i].parts \subseteq P
    BY ItemsType DEF IsItem
  <2> QED BY <2>1 DEF PartIds, Ids
<1> HIDE DEF P, D
<1>5. IsFiniteSet(D \X P)
  BY <1>2, <1>3, FS_Product
<1>6. IsFiniteSet(PartIds)
  BY <1>4, <1>5, FS_Subset
<1>7. Periodic \subseteq D
  BY DEF Periodic, D
<1>8. IsFiniteSet(Periodic)
  BY <1>2, <1>7, FS_Subset
<1> QED
  BY <1>2, <1>6, <1>8 DEF D

\* Every part is a KeyToKey.
LEMMA PartOfType ==
    ASSUME conf \in DOMAIN Configurations, NEW id \in PartIds
    PROVE  /\ PartOf(id) \in KeyToKeys /\ id[2] # "ITEM" /\ id \in Ids(conf)
           /\ id[1] \in DOMAIN Items[conf] /\ id[2] \in DOMAIN Items[conf][id[1]].parts /\ id = <<id[1], id[2]>>
<1>1. PICK i \in DOMAIN Items[conf] : \E p \in DOMAIN Items[conf][i].parts : id = <<i, p>>
  BY DEF PartIds, Ids
<1>2. PICK p \in DOMAIN Items[conf][i].parts : id = <<i, p>>
  BY <1>1
<1>3. Items[conf][i].parts[p] \in KeyToKeys
  BY <1>2, ItemsType DEF IsItem
<1> QED
  BY <1>1, <1>2, <1>3 DEF PartOf, PartIds

\* The ids of items and of their parts.
LEMMA IdsKinds ==
    ASSUME conf \in DOMAIN Configurations
    PROVE  /\ \A i \in DOMAIN Items[conf] : <<i, "ITEM">> \in Ids(conf) /\ <<i, "ITEM">> \notin PartIds
           /\ \A i \in DOMAIN Items[conf] : \A p \in DOMAIN Items[conf][i].parts : <<i, p>> \in PartIds
           /\ PartIds \subseteq Ids(conf)
<1>1. \A i \in DOMAIN Items[conf] : \A p \in DOMAIN Items[conf][i].parts : p # "ITEM"
  BY ItemsType DEF IsItem, PartsOf, ItemTypes, PeriodParts
<1> QED
  BY <1>1 DEF PartIds, Ids

-----------------------------------------------------------------------------
(* One more or one less *)

WeightedSum(T, c, p) == SumFunction([x \in T |-> p[x] * c[x]])

\* p with e added at a is q; c are the weights.
PressedBy(T, c, p, q, a, e) ==
    /\ c \in [T -> Int] /\ e \in Int /\ a \in T
    /\ \A x \in T : p[x] \in Nat /\ q[x] \in Nat /\ (x # a => q[x] = p[x])
    /\ q[a] = p[a] + e

\* A weighted sum when one of the numbers of presses changes.
LEMMA PressedByChange ==
    ASSUME NEW T, IsFiniteSet(T), NEW c, NEW p, NEW q, NEW a, NEW e, PressedBy(T, c, p, q, a, e)
    PROVE  WeightedSum(T, c, p) \in Int /\ WeightedSum(T, c, q) = WeightedSum(T, c, p) + e * c[a]
<1> DEFINE F == [x \in T |-> p[x] * c[x]]
           G == [x \in T |-> q[x] * c[x]]
           d == e * c[a]
<1>a. c \in [T -> Int] /\ e \in Int /\ a \in T /\ q[a] = p[a] + e
  BY DEF PressedBy
<1>b. \A x \in T : p[x] \in Nat /\ q[x] \in Nat /\ (x # a => q[x] = p[x])
  BY DEF PressedBy
<1>0. \A m \in Int, n \in Int, k \in Int : m * n \in Int /\ (m + k) * n = m * n + k * n
  OBVIOUS
<1>1. F \in [T -> Int] /\ G \in [T -> Int] /\ d \in Int /\ c[a] \in Int
  <2>1. ASSUME NEW x \in T
        PROVE  p[x] * c[x] \in Int /\ q[x] * c[x] \in Int
    <3>1. p[x] \in Int /\ q[x] \in Int /\ c[x] \in Int
      BY <1>a, <1>b
    <3> QED BY <3>1, <1>0, Zenon
  <2>2. d \in Int
    <3>1. e \in Int /\ c[a] \in Int
      BY <1>a
    <3> QED BY <3>1, <1>0, Zenon
  <2>3. c[a] \in Int
    BY <1>a
  <2> QED BY <2>1, <2>2, <2>3
<1>2. ASSUME NEW x \in T
      PROVE  G[x] = IF x = a THEN F[x] + d ELSE F[x]
  <2>1. CASE x # a
    BY <2>1, <1>b
  <2>2. CASE x = a
    <3>1. F[x] = p[a] * c[a] /\ G[x] = (p[a] + e) * c[a] /\ d = e * c[a]
      BY <2>2, <1>a
    <3>2. p[a] \in Int /\ e \in Int /\ c[a] \in Int
      BY <1>a, <1>b
    <3> HIDE DEF F, G, d
    <3>3. (p[a] + e) * c[a] = p[a] * c[a] + e * c[a]
      BY <3>2, <1>0, Zenon
    <3> QED BY <2>2, <3>1, <3>3
  <2> QED BY <2>1, <2>2
<1> HIDE DEF F, G, d
<1>3. SumFunction(F) \in Int /\ SumFunction(G) = SumFunction(F) + d
  <2>1. StepsBy(T, F, G, a, d)
    BY <1>1, <1>2 DEF StepsBy
  <2>2. a \in T
    BY <1>a
  <2> QED BY <2>1, <2>2, SumSteps
<1> QED
  BY <1>3 DEF F, G, d, WeightedSum

\* What a press adds are numbers.
LEMMA ContributionType ==
    ASSUME NEW id, NEW f, NEW code
    PROVE  Contribution(id, f) \in Int /\ Bit(Holds(id, code)) \in Int /\ ButtonContribution(id, f) \in Int
<1>1. \A x : Bit(x) \in Int
  BY DEF Bit
<1> QED
  BY <1>1 DEF Contribution, ButtonContribution

\* One part is pressed e times more.
LEMMA PartPressedBy ==
    ASSUME conf \in DOMAIN Configurations, NEW c, c \in [PartIds -> Int], NEW p, p \in [Ids(conf) -> Nat],
           NEW q, q \in [Ids(conf) -> Nat], NEW id, id \in PartIds, NEW e, e \in Int,
           \A x \in Ids(conf) : x # id => q[x] = p[x], q[id] = p[id] + e
    PROVE  PressedBy(PartIds, c, p, q, id, e)
BY IdsKinds DEF PressedBy

\* A weighted sum is a number.
LEMMA WeightedSumType ==
    ASSUME NEW T, IsFiniteSet(T), NEW c, c \in [T -> Int], NEW p, \A x \in T : p[x] \in Nat
    PROVE  WeightedSum(T, c, p) \in Int
<1>1. CASE T = {}
  <2>1. DOMAIN [x \in T |-> p[x] * c[x]] = T
    OBVIOUS
  <2>2. WeightedSum(T, c, p) = 0
    BY <1>1, <2>1, SumZero DEF WeightedSum
  <2> QED BY <2>2
<1>2. CASE T # {}
  <2>1. PICK a \in T : TRUE
    BY <1>2
  <2>2. PressedBy(T, c, p, p, a, 0)
    BY DEF PressedBy
  <2> QED BY <2>2, PressedByChange
<1> QED
  BY <1>1, <1>2

\* What all the pressed parts have added are numbers.
LEMMA PressedSumType ==
    ASSUME conf \in DOMAIN Configurations, NEW p, p \in [Ids(conf) -> Nat]
    PROVE  \A x : PressedSum(p, x) \in Int /\ LazySum(p, x) \in Int /\ ButtonSum(p, x) \in Int
<1>1. \A x \in PartIds : p[x] \in Nat
  BY IdsKinds
<1>2. IsFiniteSet(PartIds)
  BY IdsFinite
<1>3. \A c \in [PartIds -> Int] : WeightedSum(PartIds, c, p) \in Int
  BY <1>1, <1>2, WeightedSumType
<1> SUFFICES ASSUME NEW x
             PROVE  PressedSum(p, x) \in Int /\ LazySum(p, x) \in Int /\ ButtonSum(p, x) \in Int
  OBVIOUS
<1> DEFINE c == [id \in PartIds |-> Contribution(id, x)]
           l == [id \in PartIds |-> Bit(Holds(id, Code("VK_LAZY", x)))]
           b == [id \in PartIds |-> ButtonContribution(id, x)]
<1>4. c \in [PartIds -> Int] /\ l \in [PartIds -> Int] /\ b \in [PartIds -> Int]
  BY ContributionType
<1>5. PressedSum(p, x) = WeightedSum(PartIds, c, p) /\ LazySum(p, x) = WeightedSum(PartIds, l, p)
      /\ ButtonSum(p, x) = WeightedSum(PartIds, b, p)
  BY DEF PressedSum, LazySum, ButtonSum, WeightedSum
<1> QED
  BY <1>3, <1>4, <1>5

\* What is withheld does not depend on the parts.
LEMMA WithheldSame ==
    ASSUME conf \in DOMAIN Configurations, NEW p, NEW q, NEW st, NEW id \in PartIds,
           \A x \in Ids(conf) : x # id => q[x] = p[x]
    PROVE  /\ \A f : WithheldSum(q, st, f) = WithheldSum(p, st, f)
           /\ \A b : ButtonWithheldSum(q, b) = ButtonWithheldSum(p, b)
<1>1. \A i \in Periodic : q[<<i, "ITEM">>] = p[<<i, "ITEM">>]
  <2>1. ASSUME NEW i \in Periodic
        PROVE  <<i, "ITEM">> \in Ids(conf) /\ <<i, "ITEM">> # id
    BY IdsKinds DEF Periodic
  <2> QED BY <2>1
<1>2. ASSUME NEW f
      PROVE  [i \in Periodic |-> q[<<i, "ITEM">>] * TakenBy(i, f) + AwayFlag(st, i, f)]
             = [i \in Periodic |-> p[<<i, "ITEM">>] * TakenBy(i, f) + AwayFlag(st, i, f)]
  BY <1>1
<1>3. ASSUME NEW b
      PROVE  [i \in Periodic |-> q[<<i, "ITEM">>] * Bit(Items[conf][i].from = Code("button", b))]
             = [i \in Periodic |-> p[<<i, "ITEM">>] * Bit(Items[conf][i].from = Code("button", b))]
  BY <1>1
<1> QED
  BY <1>2, <1>3 DEF WithheldSum, ButtonWithheldSum

\* Nothing is left over when a part is pressed e times more and the counts are
\* changed by e times what it adds.
LEMMA PartExcess ==
    ASSUME conf \in DOMAIN Configurations, NEW w, OutputType(w), w.pressing \in [Ids(conf) -> Nat],
           NEW v, v.pressing \in [Ids(conf) -> Nat], v.st = w.st, NEW id \in PartIds, NEW e \in Int,
           \A x \in Ids(conf) : x # id => v.pressing[x] = w.pressing[x],
           v.pressing[id] = w.pressing[id] + e,
           \A f \in Countable :
              /\ v.fs[f].count_ = w.fs[f].count_ + e * Contribution(id, f)
              /\ v.fs[f].lazy_count_ = w.fs[f].lazy_count_ + e * Bit(Holds(id, Code("VK_LAZY", f))),
           \A b \in Buttons : v.bs[b] = w.bs[b] + e * ButtonContribution(id, b)
    PROVE  SameExcess(w, v)
<1>0. /\ \A a, s, x \in Int : (a + x) - (s + x) = a - s
      /\ \A n, x \in Int : n * x \in Int
  OBVIOUS
<1>1. ASSUME NEW f \in Countable
      PROVE  /\ v.fs[f].count_ - PressedSum(v.pressing, f) = w.fs[f].count_ - PressedSum(w.pressing, f)
             /\ v.fs[f].lazy_count_ - LazySum(v.pressing, f) = w.fs[f].lazy_count_ - LazySum(w.pressing, f)
  <2> DEFINE c == [x \in PartIds |-> Contribution(x, f)]
             l == [x \in PartIds |-> Bit(Holds(x, Code("VK_LAZY", f)))]
  <2>1. c \in [PartIds -> Int] /\ l \in [PartIds -> Int]
    BY ContributionType
  <2>2. c[id] = Contribution(id, f) /\ l[id] = Bit(Holds(id, Code("VK_LAZY", f)))
    OBVIOUS
  <2>3. PressedSum(w.pressing, f) = WeightedSum(PartIds, c, w.pressing)
        /\ PressedSum(v.pressing, f) = WeightedSum(PartIds, c, v.pressing)
    BY DEF PressedSum, WeightedSum
  <2>4. LazySum(w.pressing, f) = WeightedSum(PartIds, l, w.pressing)
        /\ LazySum(v.pressing, f) = WeightedSum(PartIds, l, v.pressing)
    BY DEF LazySum, WeightedSum
  <2> HIDE DEF c, l
  <2>5. /\ PressedSum(w.pressing, f) \in Int
        /\ PressedSum(v.pressing, f) = PressedSum(w.pressing, f) + e * c[id]
    <3>1. PressedBy(PartIds, c, w.pressing, v.pressing, id, e)
      BY <2>1, PartPressedBy
    <3> QED BY <3>1, <2>3, IdsFinite, PressedByChange
  <2>6. /\ LazySum(w.pressing, f) \in Int
        /\ LazySum(v.pressing, f) = LazySum(w.pressing, f) + e * l[id]
    <3>1. PressedBy(PartIds, l, w.pressing, v.pressing, id, e)
      BY <2>1, PartPressedBy
    <3> QED BY <3>1, <2>4, IdsFinite, PressedByChange
  <2>7. w.fs[f].count_ \in Int /\ w.fs[f].lazy_count_ \in Int
    BY DEF OutputType, FlagStatuses, FlagItems, Countable
  <2>8. e * c[id] \in Int /\ e * l[id] \in Int
    BY <2>1, <1>0
  <2>9. v.fs[f].count_ = w.fs[f].count_ + e * c[id] /\ v.fs[f].lazy_count_ = w.fs[f].lazy_count_ + e * l[id]
    BY <2>2
  <2> QED BY <2>5, <2>6, <2>7, <2>8, <2>9, <1>0
<1>2. ASSUME NEW b \in Buttons
      PROVE  v.bs[b] - ButtonSum(v.pressing, b) = w.bs[b] - ButtonSum(w.pressing, b)
  <2> DEFINE c == [x \in PartIds |-> ButtonContribution(x, b)]
  <2>1. c \in [PartIds -> Int]
    BY ContributionType
  <2>2. c[id] = ButtonContribution(id, b)
    OBVIOUS
  <2>3. ButtonSum(w.pressing, b) = WeightedSum(PartIds, c, w.pressing)
        /\ ButtonSum(v.pressing, b) = WeightedSum(PartIds, c, v.pressing)
    BY DEF ButtonSum, WeightedSum
  <2> HIDE DEF c
  <2>4. /\ ButtonSum(w.pressing, b) \in Int
        /\ ButtonSum(v.pressing, b) = ButtonSum(w.pressing, b) + e * c[id]
    <3>1. PressedBy(PartIds, c, w.pressing, v.pressing, id, e)
      BY <2>1, PartPressedBy
    <3> QED BY <3>1, <2>3, IdsFinite, PressedByChange
  <2>5. w.bs[b] \in Int
    BY DEF OutputType
  <2>6. e * c[id] \in Int
    BY <2>1, <1>0
  <2>7. v.bs[b] = w.bs[b] + e * c[id]
    BY <2>2
  <2> QED BY <2>4, <2>5, <2>6, <2>7, <1>0
<1>3. /\ \A f : WithheldSum(v.pressing, v.st, f) = WithheldSum(w.pressing, w.st, f)
      /\ \A b : ButtonWithheldSum(v.pressing, b) = ButtonWithheldSum(w.pressing, b)
  BY WithheldSame
<1> QED
  BY <1>1, <1>2, <1>3 DEF SameExcess, CountExcess, LazyExcess, ButtonExcess

\* What a function of a period withholds itself.
WithheldBy(w, i, f) == w.pressing[<<i, "ITEM">>] * TakenBy(i, f) + AwayFlag(w.st, i, f)
ButtonWithheldBy(w, i, b) == w.pressing[<<i, "ITEM">>] * Bit(Items[conf][i].from = Code("button", b))

\* What one item withholds are numbers.
LEMMA WithheldByType ==
    ASSUME conf \in DOMAIN Configurations, NEW w, w.pressing \in [Ids(conf) -> Nat], NEW i, i \in Periodic
    PROVE  \A x : WithheldBy(w, i, x) \in Int /\ ButtonWithheldBy(w, i, x) \in Int
<1>1. \A x : Bit(x) \in Int
  BY DEF Bit
<1>2. w.pressing[<<i, "ITEM">>] \in Int
  BY IdsKinds DEF Periodic
<1>3. \A x : TakenBy(i, x) \in Int /\ AwayFlag(w.st, i, x) \in Int
  BY <1>1, Zenon DEF TakenBy, AwayFlag
<1>4. \A m, n, k \in Int : m * n + k \in Int /\ m * n \in Int
  OBVIOUS
<1> QED
  BY <1>1, <1>2, <1>3, <1>4, Zenon DEF WithheldBy, ButtonWithheldBy

\* Nothing is left over when an item withholds more and the counts are changed
\* by as much.
LEMMA ItemExcess ==
    ASSUME conf \in DOMAIN Configurations, NEW w, OutputType(w), w.pressing \in [Ids(conf) -> Nat],
           NEW v, OutputType(v), v.pressing \in [Ids(conf) -> Nat], NEW i, i \in Periodic,
           \A x \in Ids(conf) : x # <<i, "ITEM">> => v.pressing[x] = w.pressing[x],
           \A j \in Periodic : j # i => v.st[j].decreased = w.st[j].decreased,
           \A f \in Countable : /\ v.fs[f].count_ + WithheldBy(v, i, f) = w.fs[f].count_ + WithheldBy(w, i, f)
                                /\ v.fs[f].lazy_count_ = w.fs[f].lazy_count_,
           \A b \in Buttons : v.bs[b] + ButtonWithheldBy(v, i, b) = w.bs[b] + ButtonWithheldBy(w, i, b)
    PROVE  SameExcess(w, v)
<1>0. \A a, b, x, y, s, t \in Int : b + y = a + x /\ t = s + (y - x) => b + t = a + s
  OBVIOUS
<1>1. \A id \in PartIds : v.pressing[id] = w.pressing[id]
  BY IdsKinds DEF PartIds
<1>2. /\ \A f : PressedSum(v.pressing, f) = PressedSum(w.pressing, f) /\ LazySum(v.pressing, f) = LazySum(w.pressing, f)
      /\ \A b : ButtonSum(v.pressing, b) = ButtonSum(w.pressing, b)
  <2>1. ASSUME NEW f
        PROVE  /\ [id \in PartIds |-> v.pressing[id] * Contribution(id, f)] = [id \in PartIds |-> w.pressing[id] * Contribution(id, f)]
               /\ [id \in PartIds |-> v.pressing[id] * Bit(Holds(id, Code("VK_LAZY", f)))]
                  = [id \in PartIds |-> w.pressing[id] * Bit(Holds(id, Code("VK_LAZY", f)))]
               /\ [id \in PartIds |-> v.pressing[id] * ButtonContribution(id, f)] = [id \in PartIds |-> w.pressing[id] * ButtonContribution(id, f)]
    BY <1>1
  <2> QED BY <2>1 DEF PressedSum, LazySum, ButtonSum
<1>3. \A j \in Periodic : j # i => \A f : WithheldBy(v, j, f) = WithheldBy(w, j, f) /\ ButtonWithheldBy(v, j, f) = ButtonWithheldBy(w, j, f)
  <2>1. ASSUME NEW j \in Periodic, j # i
        PROVE  v.pressing[<<j, "ITEM">>] = w.pressing[<<j, "ITEM">>] /\ v.st[j].decreased = w.st[j].decreased
    BY <2>1, IdsKinds DEF Periodic
  <2> QED BY <2>1 DEF WithheldBy, ButtonWithheldBy, AwayFlag
<1>4. ASSUME NEW f
      PROVE  /\ WithheldSum(w.pressing, w.st, f) \in Int
             /\ WithheldSum(v.pressing, v.st, f) = WithheldSum(w.pressing, w.st, f) + (WithheldBy(v, i, f) - WithheldBy(w, i, f))
  <2> DEFINE F == [j \in Periodic |-> WithheldBy(w, j, f)]
             G == [j \in Periodic |-> WithheldBy(v, j, f)]
             d == WithheldBy(v, i, f) - WithheldBy(w, i, f)
  <2>1. \A j \in Periodic : WithheldBy(w, j, f) \in Int /\ WithheldBy(v, j, f) \in Int
    BY WithheldByType
  <2>2. StepsBy(Periodic, F, G, i, d)
    BY <2>1, <1>3 DEF StepsBy
  <2>3. SumFunction(F) = WithheldSum(w.pressing, w.st, f) /\ SumFunction(G) = WithheldSum(v.pressing, v.st, f)
    BY DEF WithheldSum, WithheldBy
  <2> HIDE DEF F, G, d
  <2>4. SumFunction(F) \in Int /\ SumFunction(G) = SumFunction(F) + d
    BY <2>2, IdsFinite, SumSteps
  <2> QED BY <2>3, <2>4 DEF d
<1>5. ASSUME NEW b
      PROVE  /\ ButtonWithheldSum(w.pressing, b) \in Int
             /\ ButtonWithheldSum(v.pressing, b) = ButtonWithheldSum(w.pressing, b) + (ButtonWithheldBy(v, i, b) - ButtonWithheldBy(w, i, b))
  <2> DEFINE F == [j \in Periodic |-> ButtonWithheldBy(w, j, b)]
             G == [j \in Periodic |-> ButtonWithheldBy(v, j, b)]
             d == ButtonWithheldBy(v, i, b) - ButtonWithheldBy(w, i, b)
  <2>1. \A j \in Periodic : ButtonWithheldBy(w, j, b) \in Int /\ ButtonWithheldBy(v, j, b) \in Int
    BY WithheldByType
  <2>2. StepsBy(Periodic, F, G, i, d)
    BY <2>1, <1>3 DEF StepsBy
  <2>3. SumFunction(F) = ButtonWithheldSum(w.pressing, b) /\ SumFunction(G) = ButtonWithheldSum(v.pressing, b)
    BY DEF ButtonWithheldSum, ButtonWithheldBy
  <2> HIDE DEF F, G, d
  <2>4. SumFunction(F) \in Int /\ SumFunction(G) = SumFunction(F) + d
    BY <2>2, IdsFinite, SumSteps
  <2> QED BY <2>3, <2>4 DEF d
<1>6. ASSUME NEW f \in Countable
      PROVE  CountExcess(v, f) = CountExcess(w, f)
  <2> DEFINE a == w.fs[f].count_  b == v.fs[f].count_  x == WithheldBy(w, i, f)  y == WithheldBy(v, i, f)
             s == WithheldSum(w.pressing, w.st, f)  t == WithheldSum(v.pressing, v.st, f)  p == PressedSum(w.pressing, f)
  <2>1. a \in Int /\ b \in Int
    BY DEF OutputType, FlagStatuses, FlagItems, Countable
  <2>2. x \in Int /\ y \in Int /\ s \in Int /\ t = s + (y - x) /\ b + y = a + x
    BY <1>4, WithheldByType
  <2>3. p \in Int
    BY PressedSumType
  <2>4. CountExcess(v, f) = b - p + t /\ CountExcess(w, f) = a - p + s
    BY <1>2 DEF CountExcess
  <2> HIDE DEF a, b, x, y, s, t, p
  <2> QED BY <2>1, <2>2, <2>3, <2>4
<1>7. ASSUME NEW c \in Buttons
      PROVE  ButtonExcess(v, c) = ButtonExcess(w, c)
  <2> DEFINE a == w.bs[c]  b == v.bs[c]  x == ButtonWithheldBy(w, i, c)  y == ButtonWithheldBy(v, i, c)
             s == ButtonWithheldSum(w.pressing, c)  t == ButtonWithheldSum(v.pressing, c)  p == ButtonSum(w.pressing, c)
  <2>1. a \in Int /\ b \in Int
    BY DEF OutputType
  <2>2. x \in Int /\ y \in Int /\ s \in Int /\ t = s + (y - x) /\ b + y = a + x
    BY <1>5, WithheldByType
  <2>3. p \in Int
    BY PressedSumType
  <2>4. ButtonExcess(v, c) = b - p + t /\ ButtonExcess(w, c) = a - p + s
    BY <1>2 DEF ButtonExcess
  <2> HIDE DEF a, b, x, y, s, t, p
  <2> QED BY <2>1, <2>2, <2>3, <2>4
<1>8. \A f \in Countable : LazyExcess(v, f) = LazyExcess(w, f)
  BY <1>2 DEF LazyExcess
<1> QED
  BY <1>6, <1>7, <1>8 DEF SameExcess

-----------------------------------------------------------------------------
(* Fields of the functions are replaced *)

\* The output and the lists of the world but one stay.
SameStatus(w, v) == v.fs = w.fs /\ v.bs = w.bs /\ v.out = w.out /\ v.rep = w.rep

\* prepareTargetItems_ is replaced.
LEMMA SetPrep ==
    ASSUME NEW w, IsWorld(w), NEW l, l \in Seq(Ids(conf))
    PROVE  LET v == [w EXCEPT !.prep = l]
           IN  /\ IsWorld(v) /\ SameStatus(w, v) /\ Aside(v) = Aside(w) /\ v.pressing = w.pressing
               /\ v.drop = w.drop /\ v.remapped = w.remapped /\ v.prep = l /\ v.ktk = w.ktk /\ v.lastUp = w.lastUp
<1> DEFINE v == [w EXCEPT !.prep = l]
<1>1. OutputType(v) /\ SameStatus(w, v) /\ Aside(v) = Aside(w) /\ v.pressing = w.pressing
      /\ v.drop = w.drop /\ v.remapped = w.remapped /\ v.prep = l /\ v.ktk = w.ktk /\ v.lastUp = w.lastUp
  BY DEF IsWorld, OutputType, Fields, SameStatus, Aside
<1>2. v.items = w.items /\ v.active = w.active /\ v.dpp = w.dpp /\ v.st = w.st
  BY DEF IsWorld, OutputType, Fields
<1> HIDE DEF v
<1>3. FunctionType(v)
  BY <1>1, <1>2 DEF IsWorld, FunctionType
<1>4. IsWorld(v)
  BY <1>1, <1>3 DEF IsWorld, SameStatus
<1> QED
  BY <1>1, <1>4 DEF v

KtkType(x) ==
    /\ x = [y \in {"target", "on", "saved"} |-> x[y]]
    /\ x.saved \in [Flags -> Int] /\ (x.on => x.target \in PartIds)

\* The delayed action is replaced.
LEMMA SetKtk ==
    ASSUME NEW w, IsWorld(w), NEW x, KtkType(x)
    PROVE  LET v == [w EXCEPT !.ktk = x]
           IN  /\ IsWorld(v) /\ SameStatus(w, v) /\ Aside(v) = Aside(w) /\ v.pressing = w.pressing
               /\ v.drop = w.drop /\ v.remapped = w.remapped /\ v.prep = w.prep /\ v.ktk = x /\ v.lastUp = w.lastUp
<1> DEFINE v == [w EXCEPT !.ktk = x]
<1>1. OutputType(v) /\ SameStatus(w, v) /\ Aside(v) = Aside(w) /\ v.pressing = w.pressing
      /\ v.drop = w.drop /\ v.remapped = w.remapped /\ v.prep = w.prep /\ v.ktk = x /\ v.lastUp = w.lastUp
  BY DEF IsWorld, OutputType, Fields, SameStatus, Aside
<1>2. v.items = w.items /\ v.active = w.active /\ v.dpp = w.dpp /\ v.st = w.st
  BY DEF IsWorld, OutputType, Fields
<1> HIDE DEF v
<1>3. FunctionType(v)
  BY <1>1, <1>2 DEF IsWorld, FunctionType, KtkType
<1>4. IsWorld(v)
  BY <1>1, <1>3 DEF IsWorld, SameStatus
<1> QED
  BY <1>1, <1>4 DEF v

\* What differs only in what the functions do not read is a world, too.
LEMMA SetUnread ==
    ASSUME NEW w, IsWorld(w), NEW v, OutputType(v), SameStatus(w, v), Aside(v) = Aside(w),
           v.pressing = w.pressing, v.prep = w.prep, v.ktk = w.ktk
    PROVE  IsWorld(v)
<1>1. v.items = w.items /\ v.active = w.active /\ v.dpp = w.dpp /\ v.st = w.st
  BY DEF Aside
<1>2. FunctionType(v)
  BY <1>1 DEF IsWorld, FunctionType
<1> QED BY <1>2 DEF IsWorld, SameStatus

\* lastPhysicalEventType_ is replaced.
LEMMA SetLastUp ==
    ASSUME NEW w, IsWorld(w), NEW x
    PROVE  LET v == [w EXCEPT !.lastUp = x]
           IN  /\ IsWorld(v) /\ SameStatus(w, v) /\ Aside(v) = Aside(w) /\ v.pressing = w.pressing
               /\ v.drop = w.drop /\ v.remapped = w.remapped /\ v.prep = w.prep /\ v.ktk = w.ktk
<1> DEFINE v == [w EXCEPT !.lastUp = x]
<1>1. /\ OutputType(v) /\ SameStatus(w, v) /\ Aside(v) = Aside(w) /\ v.pressing = w.pressing
      /\ v.drop = w.drop /\ v.remapped = w.remapped /\ v.prep = w.prep /\ v.ktk = w.ktk
  BY DEF IsWorld, OutputType, Fields, SameStatus, Aside
<1> HIDE DEF v
<1>2. IsWorld(v)
  BY <1>1, SetUnread
<1> QED
  BY <1>1, <1>2 DEF v

\* The event is remapped or not.
LEMMA SetRemapped ==
    ASSUME NEW w, IsWorld(w), NEW x
    PROVE  LET v == [w EXCEPT !.remapped = x]
           IN  /\ IsWorld(v) /\ SameStatus(w, v) /\ Aside(v) = Aside(w) /\ v.pressing = w.pressing
               /\ v.drop = w.drop /\ v.remapped = x /\ v.prep = w.prep /\ v.ktk = w.ktk /\ v.lastUp = w.lastUp
<1> DEFINE v == [w EXCEPT !.remapped = x]
<1>1. /\ OutputType(v) /\ SameStatus(w, v) /\ Aside(v) = Aside(w) /\ v.pressing = w.pressing
      /\ v.drop = w.drop /\ v.remapped = x /\ v.prep = w.prep /\ v.ktk = w.ktk /\ v.lastUp = w.lastUp
  BY DEF IsWorld, OutputType, Fields, SameStatus, Aside
<1> HIDE DEF v
<1>2. IsWorld(v)
  BY <1>1, SetUnread
<1> QED
  BY <1>1, <1>2 DEF v

\* A drop key was sent or not.
LEMMA SetDrop ==
    ASSUME NEW w, IsWorld(w), NEW x
    PROVE  LET v == [w EXCEPT !.drop = x]
           IN  /\ IsWorld(v) /\ SameStatus(w, v) /\ Aside(v) = Aside(w) /\ v.pressing = w.pressing
               /\ v.drop = x /\ v.remapped = w.remapped /\ v.prep = w.prep /\ v.ktk = w.ktk /\ v.lastUp = w.lastUp
<1> DEFINE v == [w EXCEPT !.drop = x]
<1>1. /\ OutputType(v) /\ SameStatus(w, v) /\ Aside(v) = Aside(w) /\ v.pressing = w.pressing
      /\ v.drop = x /\ v.remapped = w.remapped /\ v.prep = w.prep /\ v.ktk = w.ktk /\ v.lastUp = w.lastUp
  BY DEF IsWorld, OutputType, Fields, SameStatus, Aside
<1> HIDE DEF v
<1>2. IsWorld(v)
  BY <1>1, SetUnread
<1> QED
  BY <1>1, <1>2 DEF v

\* The number of presses of an id is replaced.
LEMMA SetPressing ==
    ASSUME NEW w, IsWorld(w), NEW id, id \in Ids(conf), NEW n, n \in Nat
    PROVE  LET v == [w EXCEPT !.pressing[id] = n]
           IN  /\ IsWorld(v) /\ SameStatus(w, v) /\ Aside(v) = Aside(w) /\ v.drop = w.drop /\ v.remapped = w.remapped
               /\ v.prep = w.prep /\ v.ktk = w.ktk /\ v.lastUp = w.lastUp
               /\ v.pressing \in [Ids(conf) -> Nat] /\ v.pressing[id] = n
               /\ \A x \in Ids(conf) : x # id => v.pressing[x] = w.pressing[x]
<1> DEFINE v == [w EXCEPT !.pressing[id] = n]
<1>1. OutputType(v) /\ SameStatus(w, v) /\ Aside(v) = Aside(w) /\ v.pressing = [w.pressing EXCEPT ![id] = n]
      /\ v.drop = w.drop /\ v.remapped = w.remapped /\ v.prep = w.prep /\ v.ktk = w.ktk /\ v.lastUp = w.lastUp
  BY DEF IsWorld, OutputType, Fields, SameStatus, Aside
<1>2. v.items = w.items /\ v.active = w.active /\ v.dpp = w.dpp /\ v.st = w.st
  BY DEF IsWorld, OutputType, Fields
<1> HIDE DEF v
<1>3. /\ v.pressing \in [Ids(conf) -> Nat] /\ v.pressing[id] = n
      /\ \A x \in Ids(conf) : x # id => v.pressing[x] = w.pressing[x]
  BY <1>1 DEF IsWorld, FunctionType
<1>4. FunctionType(v)
  BY <1>1, <1>2, <1>3 DEF IsWorld, FunctionType
<1>5. IsWorld(v)
  BY <1>1, <1>4 DEF IsWorld, SameStatus
<1> QED
  BY <1>1, <1>3, <1>5 DEF v

-----------------------------------------------------------------------------
(* The list of functions to prepare *)

\* unregisterPrepareTargetItem.
LEMMA UnregisterType ==
    ASSUME NEW w, IsWorld(w), NEW id
    PROVE  LET v == UnregisterPrepareTargetItem(w, id)
           IN  /\ IsWorld(v) /\ SameStatus(w, v) /\ Aside(v) = Aside(w) /\ v.pressing = w.pressing
               /\ v.drop = w.drop /\ v.remapped = w.remapped /\ v.ktk = w.ktk /\ v.lastUp = w.lastUp
               /\ \A x : Listed(v.prep, x) <=> Listed(w.prep, x) /\ x # id
<1> DEFINE l == Without(w.prep, id)
<1>1. w.prep \in Seq(Ids(conf))
  BY DEF IsWorld, FunctionType
<1>2. l \in Seq(Ids(conf)) /\ \A x : Listed(l, x) <=> Listed(w.prep, x) /\ x # id
  BY <1>1, UnregisterList
<1>3. UnregisterPrepareTargetItem(w, id) = [w EXCEPT !.prep = l]
  BY DEF UnregisterPrepareTargetItem, Without
<1> HIDE DEF l
<1> QED
  BY <1>2, <1>3, SetPrep

\* registerPrepareTargetItem.
LEMMA RegisterType ==
    ASSUME NEW w, IsWorld(w), NEW id, id \in Ids(conf)
    PROVE  LET v == RegisterPrepareTargetItem(w, id)
           IN  /\ IsWorld(v) /\ SameStatus(w, v) /\ Aside(v) = Aside(w) /\ v.pressing = w.pressing
               /\ v.drop = w.drop /\ v.remapped = w.remapped /\ v.ktk = w.ktk /\ v.lastUp = w.lastUp
               /\ \A x : Listed(v.prep, x) <=> Listed(w.prep, x) \/ x = id
<1> DEFINE a == UnregisterPrepareTargetItem(w, id)
           l == Append(a.prep, id)
<1>1. /\ IsWorld(a) /\ SameStatus(w, a) /\ Aside(a) = Aside(w) /\ a.pressing = w.pressing
      /\ a.drop = w.drop /\ a.remapped = w.remapped /\ a.ktk = w.ktk /\ a.lastUp = w.lastUp
      /\ \A x : Listed(a.prep, x) <=> Listed(w.prep, x) /\ x # id
  BY UnregisterType
<1>2. RegisterPrepareTargetItem(w, id) = [a EXCEPT !.prep = l]
  BY DEF RegisterPrepareTargetItem
<1> HIDE DEF a
<1>3. a.prep \in Seq(Ids(conf))
  BY <1>1 DEF IsWorld, FunctionType
<1>4. l \in Seq(Ids(conf)) /\ \A x : Listed(l, x) <=> Listed(a.prep, x) \/ x = id
  BY <1>3, RegisterList
<1> HIDE DEF l
<1>5. LET v == [a EXCEPT !.prep = l]
      IN  /\ IsWorld(v) /\ SameStatus(a, v) /\ Aside(v) = Aside(a) /\ v.pressing = a.pressing
          /\ v.drop = a.drop /\ v.remapped = a.remapped /\ v.prep = l /\ v.ktk = a.ktk /\ v.lastUp = a.lastUp
  BY <1>1, <1>4, SetPrep
<1> QED
  BY <1>1, <1>2, <1>4, <1>5 DEF SameStatus

-----------------------------------------------------------------------------
(* KeyToKey::remap *)

FromButton(k, b) == Bit(k.from = Code("button", b))

\* The from key is taken out of FlagStatus and ButtonStatus, or given back.
Takes(w, v, k, down) ==
    /\ \A f \in Countable :
          /\ v.fs[f].count_ = IF down THEN w.fs[f].count_ + FromBy(k, f) ELSE w.fs[f].count_ - FromBy(k, f)
          /\ v.fs[f].lazy_count_ = w.fs[f].lazy_count_
    /\ \A b \in Buttons : v.bs[b] = IF down THEN w.bs[b] - FromButton(k, b) ELSE w.bs[b] + FromButton(k, b)

\* The from key of a part.
LEMMA FromTypes ==
    ASSUME NEW k, k \in KeyToKeys
    PROVE  /\ k.from \in Codes
           /\ \A b : Bit(b \in ButtonOf(k.from)) = FromButton(k, b)
<1>1. k.from \in Codes
  BY DEF KeyToKeys, Codes
<1>2. \A b : b \in ButtonOf(k.from) <=> k.from = Code("button", b)
  BY <1>1, ButtonOfCode
<1>3. ASSUME NEW b
      PROVE  Bit(b \in ButtonOf(k.from)) = FromButton(k, b)
  BY <1>2 DEF FromButton, Bit
<1> QED
  BY <1>1, <1>3

\* The from key of a part is taken away by the press and given back by the
\* release.
LEMMA TakeFromTakes ==
    ASSUME NEW w, OutputType(w), NEW k, k \in KeyToKeys
    PROVE  /\ Acts(w, TakeFrom(w, k)) /\ Takes(w, TakeFrom(w, k), k, TRUE)
           /\ Acts(w, GiveBackFrom(w, k)) /\ Takes(w, GiveBackFrom(w, k), k, FALSE)
<1> DEFINE F == FlagOf(k.from)
           G == IncreaseFlags(k)
           B == ButtonOf(k.from)
           fs == Increase(Decrease(w.fs, F), G)
           gs == Decrease(Increase(w.fs, F), G)
           n(f) == Bit(f \in F)
           m(f) == Bit(f \in G)
<1>1. w.fs \in FlagStatuses /\ w.bs \in [Buttons -> Int]
  BY DEF OutputType
<1>2. \A f : n(f) \in Int /\ m(f) \in Int
  BY DEF Bit
<1>3. \A f : FromBy(k, f) = m(f) - n(f)
  BY DEF FromBy
<1>4. /\ Decrease(w.fs, F) \in FlagStatuses
      /\ \A f \in Countable : Decrease(w.fs, F)[f].count_ = w.fs[f].count_ - n(f)
                              /\ Decrease(w.fs, F)[f].lazy_count_ = w.fs[f].lazy_count_
  BY <1>1, DecreaseChange
<1>5. /\ Increase(w.fs, F) \in FlagStatuses
      /\ \A f \in Countable : Increase(w.fs, F)[f].count_ = w.fs[f].count_ + n(f)
                              /\ Increase(w.fs, F)[f].lazy_count_ = w.fs[f].lazy_count_
  BY <1>1, IncreaseChange
<1>6. /\ fs \in FlagStatuses
      /\ \A f \in Countable : fs[f].count_ = Decrease(w.fs, F)[f].count_ + m(f)
                              /\ fs[f].lazy_count_ = Decrease(w.fs, F)[f].lazy_count_
  BY <1>4, IncreaseChange
<1>7. /\ gs \in FlagStatuses
      /\ \A f \in Countable : gs[f].count_ = Increase(w.fs, F)[f].count_ - m(f)
                              /\ gs[f].lazy_count_ = Increase(w.fs, F)[f].lazy_count_
  BY <1>5, DecreaseChange
<1>8. /\ IncreaseButtons(w.bs, B) \in [Buttons -> Int] /\ DecreaseButtons(w.bs, B) \in [Buttons -> Int]
      /\ \A b \in Buttons : /\ IncreaseButtons(w.bs, B)[b] = w.bs[b] + FromButton(k, b)
                            /\ DecreaseButtons(w.bs, B)[b] = w.bs[b] - FromButton(k, b)
  BY <1>1, ButtonsChange, FromTypes
<1>9. \A f \in Countable : w.fs[f].count_ \in Int
  BY <1>1 DEF FlagStatuses, FlagItems, Countable
<1>10. TakeFrom(w, k) = [w EXCEPT !.fs = fs, !.bs = DecreaseButtons(w.bs, B)]
       /\ GiveBackFrom(w, k) = [w EXCEPT !.fs = gs, !.bs = IncreaseButtons(w.bs, B)]
  BY DEF TakeFrom, GiveBackFrom, OutputType, Fields
<1> HIDE DEF fs, gs, n, m, F, G, B
<1>11. \A xs \in FlagStatuses, ys \in [Buttons -> Int] :
          LET v == [w EXCEPT !.fs = xs, !.bs = ys] IN Acts(w, v) /\ v.fs = xs /\ v.bs = ys
  BY SetStatus DEF OutputType, Fields
<1>12. /\ Acts(w, TakeFrom(w, k)) /\ TakeFrom(w, k).fs = fs /\ TakeFrom(w, k).bs = DecreaseButtons(w.bs, B)
       /\ Acts(w, GiveBackFrom(w, k)) /\ GiveBackFrom(w, k).fs = gs /\ GiveBackFrom(w, k).bs = IncreaseButtons(w.bs, B)
  <2>1. /\ Acts(w, [w EXCEPT !.fs = fs, !.bs = DecreaseButtons(w.bs, B)])
        /\ [w EXCEPT !.fs = fs, !.bs = DecreaseButtons(w.bs, B)].fs = fs
        /\ [w EXCEPT !.fs = fs, !.bs = DecreaseButtons(w.bs, B)].bs = DecreaseButtons(w.bs, B)
    BY <1>6, <1>8, <1>11, Zenon
  <2>2. /\ Acts(w, [w EXCEPT !.fs = gs, !.bs = IncreaseButtons(w.bs, B)])
        /\ [w EXCEPT !.fs = gs, !.bs = IncreaseButtons(w.bs, B)].fs = gs
        /\ [w EXCEPT !.fs = gs, !.bs = IncreaseButtons(w.bs, B)].bs = IncreaseButtons(w.bs, B)
    BY <1>7, <1>8, <1>11, Zenon
  <2> QED BY <2>1, <2>2, <1>10, Zenon
<1>13. ASSUME NEW f \in Countable
       PROVE  /\ fs[f].count_ = w.fs[f].count_ + FromBy(k, f) /\ fs[f].lazy_count_ = w.fs[f].lazy_count_
              /\ gs[f].count_ = w.fs[f].count_ - FromBy(k, f) /\ gs[f].lazy_count_ = w.fs[f].lazy_count_
  BY <1>2, <1>3, <1>4, <1>5, <1>6, <1>7, <1>9
<1>14. Takes(w, TakeFrom(w, k), k, TRUE)
  BY <1>8, <1>12, <1>13 DEF Takes
<1>15. Takes(w, GiveBackFrom(w, k), k, FALSE)
  BY <1>8, <1>12, <1>13 DEF Takes
<1> QED
  BY <1>12, <1>14, <1>15

\* The delayed action is armed.
LEMMA ArmDelayedActionAlong ==
    ASSUME NEW w, IsWorld(w), NEW id, id \in PartIds, NEW k
    PROVE  Along(w, ArmDelayedAction(w, id, k)) /\ SameStatus(w, ArmDelayedAction(w, id, k))
<1> DEFINE x == [target |-> id, on |-> TRUE, saved |-> Sums(Decrease(w.fs, Pure(k)))]
           a == [w EXCEPT !.ktk = x]
<1>0. ArmDelayedAction(w, id, k) = IF HasDelayedAction(k) THEN RegisterPrepareTargetItem(a, id) ELSE w
  BY DEF ArmDelayedAction
<1>1. KtkType(x)
  <2>1. Sums(Decrease(w.fs, Pure(k))) \in [Flags -> Int]
    <3>1. w.fs \in FlagStatuses
      BY DEF IsWorld, OutputType
    <3> QED BY <3>1, DecreaseChange, SumsType
  <2> QED BY <2>1 DEF KtkType
<1> HIDE DEF x
<1>2. /\ IsWorld(a) /\ SameStatus(w, a) /\ Aside(a) = Aside(w) /\ a.pressing = w.pressing
      /\ a.drop = w.drop /\ a.remapped = w.remapped /\ a.prep = w.prep
  BY <1>1, SetKtk
<1> HIDE DEF a
<1>3. id \in Ids(conf) /\ id[2] # "ITEM"
  BY DEF PartIds
<1> DEFINE v == RegisterPrepareTargetItem(a, id)
<1>4. /\ IsWorld(v) /\ SameStatus(a, v) /\ Aside(v) = Aside(a) /\ v.pressing = a.pressing
      /\ v.drop = a.drop /\ v.remapped = a.remapped
      /\ \A y : Listed(v.prep, y) <=> Listed(a.prep, y) \/ y = id
  BY <1>2, <1>3, RegisterType
<1> HIDE DEF v
<1>5. Along(w, v) /\ SameStatus(w, v)
  BY <1>2, <1>3, <1>4 DEF Along, SameList, SameStatus
<1>6. Along(w, w) /\ SameStatus(w, w)
  BY DEF Along, SameList, SameStatus
<1> QED
  BY <1>0, <1>5, <1>6 DEF v

\* Something that counts nothing comes after the from key.
LEMMA TakesThenKeeps ==
    ASSUME NEW w, NEW v, NEW u, NEW k, NEW down, Takes(w, v, k, down), SameCounts(v, u)
    PROVE  Takes(w, u, k, down)
<1>1. \A f \in Countable : u.fs[f].count_ = v.fs[f].count_ /\ u.fs[f].lazy_count_ = v.fs[f].lazy_count_
  BY DEF SameCounts, SameFlagCounts
<1>2. u.bs = v.bs
  BY DEF SameCounts
<1> QED
  BY <1>1, <1>2 DEF Takes

\* The first part of KeyToKey::remap.
LEMMA FirstPartTakes ==
    ASSUME NEW w, IsWorld(w), NEW id, id \in PartIds, NEW k, k \in KeyToKeys, NEW pt, NEW down, down \in BOOLEAN
    PROVE  Along(w, FirstPart(w, id, k, down, pt)) /\ Takes(w, FirstPart(w, id, k, down, pt), k, down)
<1>0. OutputType(w)
  BY DEF IsWorld
<1>1. CASE down
  <2> DEFINE a == TakeFrom(w, k)
             b == ArmDelayedAction(a, id, k)
             c == FireBefore(b, k, pt)
  <2>1. Along(w, a) /\ Takes(w, a, k, TRUE)
    BY <1>0, TakeFromTakes, ActsAlong
  <2> HIDE DEF a
  <2>2. Along(a, b) /\ SameStatus(a, b)
    BY <2>1, ArmDelayedActionAlong DEF Along
  <2> HIDE DEF b
  <2>3. IsWorld(b) /\ OutputType(b)
    BY <2>2 DEF Along, IsWorld
  <2>4. Along(b, c) /\ SameCounts(b, c)
    BY <2>3, FireBeforeKeeps, ActsAlong DEF Keeps
  <2> HIDE DEF c
  <2>5. SameCounts(a, b)
    BY <2>2 DEF SameCounts, SameFlagCounts, SameStatus
  <2>6. Takes(w, c, k, TRUE)
    BY <2>1, <2>4, <2>5, TakesThenKeeps
  <2>7. Along(w, c)
    BY <2>1, <2>2, <2>4, AlongTwice
  <2>8. FirstPart(w, id, k, down, pt) = c /\ down = TRUE
    BY <1>1 DEF FirstPart, a, b, c
  <2> QED BY <2>6, <2>7, <2>8
<1>2. CASE ~down
  <2>1. FirstPart(w, id, k, down, pt) = GiveBackFrom(w, k) /\ down = FALSE
    BY <1>2 DEF FirstPart
  <2>2. Along(w, GiveBackFrom(w, k)) /\ Takes(w, GiveBackFrom(w, k), k, FALSE)
    BY <1>0, TakeFromTakes, ActsAlong
  <2> QED BY <2>1, <2>2
<1> QED
  BY <1>1, <1>2

-----------------------------------------------------------------------------
(* The press and the release of a part *)

\* A press is added, or one that was added is taken off.
LEMMA PressChange ==
    ASSUME NEW w, IsWorld(w), NEW id, id \in Ids(conf), NEW e, e.type = "DOWN" \/ w.pressing[id] > 0
    PROVE  LET v == ChangePressingState(w, id, e)
           IN  /\ IsWorld(v) /\ SameStatus(w, v) /\ Aside(v) = Aside(w) /\ v.drop = w.drop /\ v.remapped = w.remapped
               /\ v.prep = w.prep /\ v.ktk = w.ktk /\ v.lastUp = w.lastUp
               /\ v.pressing \in [Ids(conf) -> Nat]
               /\ v.pressing[id] = w.pressing[id] + IF e.type = "DOWN" THEN 1 ELSE -1
               /\ \A x \in Ids(conf) : x # id => v.pressing[x] = w.pressing[x]
<1> DEFINE n == IF e.type = "DOWN" THEN w.pressing[id] + 1 ELSE w.pressing[id] - 1
           v == ChangePressingState(w, id, e)
<1>1. w.pressing[id] \in Nat
  BY DEF IsWorld, FunctionType
<1>2. n \in Nat /\ n = w.pressing[id] + IF e.type = "DOWN" THEN 1 ELSE -1
  BY <1>1
<1>3. v = [w EXCEPT !.pressing[id] = n]
  BY DEF ChangePressingState
<1> HIDE DEF n, v
<1>4. /\ IsWorld(v) /\ SameStatus(w, v) /\ Aside(v) = Aside(w) /\ v.drop = w.drop /\ v.remapped = w.remapped
      /\ v.prep = w.prep /\ v.ktk = w.ktk /\ v.lastUp = w.lastUp
      /\ v.pressing \in [Ids(conf) -> Nat] /\ v.pressing[id] = n
      /\ \A x \in Ids(conf) : x # id => v.pressing[x] = w.pressing[x]
  BY <1>2, <1>3, SetPressing
<1> QED
  BY <1>2, <1>4 DEF v

\* A part that is pressed or released, with what it contributes.
Turned(w, v, id, down) ==
    /\ IsWorld(v) /\ Aside(v) = Aside(w) /\ SameList(w, v) /\ v.drop = w.drop
    /\ v.pressing[id] = w.pressing[id] + IF down THEN 1 ELSE -1
    /\ \A x \in Ids(conf) : x # id => v.pressing[x] = w.pressing[x]
    /\ SameExcess(w, v)

\* What a part adds is what its from key takes and its to keys add.
LEMMA ContributionParts ==
    ASSUME NEW id, NEW f, NEW b
    PROVE  /\ Contribution(id, f) = FromBy(PartOf(id), f) + ToBy(PartOf(id), f)
           /\ \A code : Holds(id, code) = Sustains(PartOf(id), code)
           /\ ButtonContribution(id, b) = Bit(Sustains(PartOf(id), Code("button", b))) - FromButton(PartOf(id), b)
<1>1. \A code : Holds(id, code) = Sustains(PartOf(id), code)
  BY DEF Holds, Sustains, LastTo
<1>2. Contribution(id, f) = FromBy(PartOf(id), f) + ToBy(PartOf(id), f)
  BY DEF Contribution, FromBy, ToBy, LastTo
<1>3. ButtonContribution(id, b) = Bit(Sustains(PartOf(id), Code("button", b))) - FromButton(PartOf(id), b)
  BY <1>1 DEF ButtonContribution, FromButton
<1> QED
  BY <1>1, <1>2, <1>3

\* What the press or the release of a part does to the counts.
Contributes(w, v, id, down) ==
    /\ \A f \in Countable :
          /\ v.fs[f].count_ = w.fs[f].count_ + (IF down THEN 1 ELSE -1) * Contribution(id, f)
          /\ v.fs[f].lazy_count_ = w.fs[f].lazy_count_ + (IF down THEN 1 ELSE -1) * Bit(Holds(id, Code("VK_LAZY", f)))
    /\ \A b \in Buttons : v.bs[b] = w.bs[b] + (IF down THEN 1 ELSE -1) * ButtonContribution(id, b)

\* The from key and then the to keys.
LEMMA TakesAndFires ==
    ASSUME NEW w, OutputType(w), NEW v, OutputType(v), NEW u, NEW id, NEW down, down \in BOOLEAN,
           Takes(w, v, PartOf(id), down), FiresPart(v, u, PartOf(id), down)
    PROVE  Contributes(w, u, id, down)
<1> DEFINE k == PartOf(id)
<1>0. /\ \A a, x, y \in Int : (a + x) + y = a + 1 * (x + y) /\ (a - x) - y = a + (-1) * (x + y)
      /\ \A a, x, y \in Int : (a - x) + y = a + 1 * (y - x) /\ (a + x) - y = a + (-1) * (y - x)
      /\ \A a, x \in Int : a + x = a + 1 * x /\ a - x = a + (-1) * x
  OBVIOUS
<1>1. \A x : Bit(x) \in Int
  BY DEF Bit
<1>2. ASSUME NEW f \in Countable
      PROVE  /\ u.fs[f].count_ = w.fs[f].count_ + (IF down THEN 1 ELSE -1) * Contribution(id, f)
             /\ u.fs[f].lazy_count_ = w.fs[f].lazy_count_ + (IF down THEN 1 ELSE -1) * Bit(Holds(id, Code("VK_LAZY", f)))
  <2> DEFINE x == FromBy(k, f)  y == ToBy(k, f)  z == Bit(Sustains(k, Code("VK_LAZY", f)))
             a == w.fs[f].count_  l == w.fs[f].lazy_count_
  <2>1. x \in Int /\ y \in Int /\ z \in Int
    BY <1>1, ByType
  <2>2. a \in Int /\ l \in Int
    BY DEF OutputType, FlagStatuses, FlagItems, Countable
  <2>3. Contribution(id, f) = x + y
    BY ContributionParts
  <2>4. Bit(Holds(id, Code("VK_LAZY", f))) = z
    BY ContributionParts
  <2>5. v.fs[f].count_ = (IF down THEN a + x ELSE a - x) /\ v.fs[f].lazy_count_ = l
    BY DEF Takes
  <2>6. /\ u.fs[f].count_ = IF down THEN v.fs[f].count_ + y ELSE v.fs[f].count_ - y
        /\ u.fs[f].lazy_count_ = IF down THEN v.fs[f].lazy_count_ + z ELSE v.fs[f].lazy_count_ - z
    BY DEF FiresPart
  <2> HIDE DEF x, y, z, a, l
  <2>7. CASE down
    <3>1. u.fs[f].count_ = (a + x) + y /\ u.fs[f].lazy_count_ = l + z
      BY <2>5, <2>6, <2>7
    <3>2. (a + x) + y = a + 1 * (x + y) /\ l + z = l + 1 * z
      BY <1>0, <2>1, <2>2
    <3>3. u.fs[f].count_ = a + 1 * Contribution(id, f) /\ u.fs[f].lazy_count_ = l + 1 * Bit(Holds(id, Code("VK_LAZY", f)))
      BY <3>1, <3>2, <2>3, <2>4
    <3> QED BY <3>3, <2>7, Zenon DEF a, l
  <2>8. CASE ~down
    <3>1. u.fs[f].count_ = (a - x) - y /\ u.fs[f].lazy_count_ = l - z
      BY <2>5, <2>6, <2>8
    <3>2. (a - x) - y = a + (-1) * (x + y) /\ l - z = l + (-1) * z
      BY <1>0, <2>1, <2>2
    <3>3. u.fs[f].count_ = a + (-1) * Contribution(id, f) /\ u.fs[f].lazy_count_ = l + (-1) * Bit(Holds(id, Code("VK_LAZY", f)))
      BY <3>1, <3>2, <2>3, <2>4
    <3> QED BY <3>3, <2>8, Zenon DEF a, l
  <2> QED BY <2>7, <2>8
<1>3. ASSUME NEW b \in Buttons
      PROVE  u.bs[b] = w.bs[b] + (IF down THEN 1 ELSE -1) * ButtonContribution(id, b)
  <2> DEFINE x == FromButton(k, b)  y == Bit(Sustains(k, Code("button", b)))  a == w.bs[b]
  <2>1. x \in Int /\ y \in Int
    BY <1>1 DEF FromButton
  <2>2. a \in Int
    BY DEF OutputType
  <2>3. ButtonContribution(id, b) = y - x
    BY ContributionParts
  <2>5. v.bs[b] = IF down THEN a - x ELSE a + x
    BY DEF Takes
  <2>6. u.bs[b] = IF down THEN v.bs[b] + y ELSE v.bs[b] - y
    BY DEF FiresPart
  <2> HIDE DEF x, y, a
  <2>7. CASE down
    <3>1. u.bs[b] = (a - x) + y
      BY <2>5, <2>6, <2>7
    <3>2. (a - x) + y = a + 1 * (y - x)
      BY <1>0, <2>1, <2>2
    <3>3. u.bs[b] = a + 1 * ButtonContribution(id, b)
      BY <3>1, <3>2, <2>3
    <3> QED BY <3>3, <2>7, Zenon DEF a
  <2>8. CASE ~down
    <3>1. u.bs[b] = (a + x) - y
      BY <2>5, <2>6, <2>8
    <3>2. (a + x) - y = a + (-1) * (y - x)
      BY <1>0, <2>1, <2>2
    <3>3. u.bs[b] = a + (-1) * ButtonContribution(id, b)
      BY <3>1, <3>2, <2>3
    <3> QED BY <3>3, <2>8, Zenon DEF a
  <2> QED BY <2>7, <2>8
<1> QED
  BY <1>2, <1>3 DEF Contributes

\* The part takes the event.
TakesEvent(w, id, e) == ~w.remapped /\ e.type # "NONE" /\ IsTarget(w, id, PartOf(id).from, PartOf(id).fromFlags, e)

\* KeyToKey::remap: the counts are changed by what the part adds, and its
\* presses by one, if the event is for it; else nothing is.
LEMMA RemapKeyToKeyTurns ==
    ASSUME conf \in DOMAIN Configurations, NEW w, IsWorld(w), NEW id, id \in PartIds, NEW e, NEW pt
    PROVE  LET v == RemapKeyToKey(w, id, PartOf(id), e, pt)
           IN  /\ TakesEvent(w, id, e) => Turned(w, v, id, e.type = "DOWN") /\ v.remapped = TRUE
               /\ ~TakesEvent(w, id, e) => v = w
<1> DEFINE k == PartOf(id)
           down == e.type = "DOWN"
           p == ChangePressingState(w, id, e)
           q == [p EXCEPT !.remapped = TRUE]
           up == IF pt = "UP" THEN p.lastUp \cup {id} ELSE p.lastUp \ {id}
           a == [q EXCEPT !.lastUp = up]
           b == FirstPart(a, id, k, down, pt)
           c == FireTo(b, id, k, down, pt)
           d == FireAfter(c, k, down, pt)
           v == RemapKeyToKey(w, id, k, e, pt)
<1>0. k \in KeyToKeys /\ id \in Ids(conf)
  BY PartOfType
<1>1. ~TakesEvent(w, id, e) => v = w
  BY DEF RemapKeyToKey, TakesEvent
<1>2. ASSUME TakesEvent(w, id, e)
      PROVE  Turned(w, v, id, down) /\ v.remapped = TRUE
  <2>1. down \/ w.pressing[id] > 0
    BY <1>2 DEF TakesEvent, IsTarget
  <2>2. /\ IsWorld(p) /\ SameStatus(w, p) /\ Aside(p) = Aside(w) /\ p.drop = w.drop /\ p.prep = w.prep
        /\ p.pressing \in [Ids(conf) -> Nat]
        /\ p.pressing[id] = w.pressing[id] + IF down THEN 1 ELSE -1
        /\ \A x \in Ids(conf) : x # id => p.pressing[x] = w.pressing[x]
    BY <1>0, <2>1, PressChange
  <2>3. v = d
    <3>1. a = [p EXCEPT !.remapped = TRUE, !.lastUp = IF pt = "UP" THEN @ \cup {id} ELSE @ \ {id}]
      <4>1. OutputType(p)
        BY <2>2 DEF IsWorld
      <4> HIDE DEF p
      <4> QED BY <4>1 DEF OutputType, Fields
    <3> HIDE DEF k, down
    <3> QED BY <3>1, <1>2 DEF RemapKeyToKey, TakesEvent, k, down
  <2> HIDE DEF p
  <2>4. IsWorld(q) /\ SameStatus(p, q) /\ Aside(q) = Aside(p) /\ q.pressing = p.pressing /\ q.drop = p.drop
        /\ q.prep = p.prep /\ q.remapped = TRUE
    BY <2>2, SetRemapped, Zenon
  <2> HIDE DEF q, up
  <2>5. IsWorld(a) /\ SameStatus(q, a) /\ Aside(a) = Aside(q) /\ a.pressing = q.pressing /\ a.drop = q.drop
        /\ a.prep = q.prep /\ a.remapped = q.remapped
    BY <2>4, SetLastUp, Zenon
  <2> HIDE DEF a
  <2>6. down \in BOOLEAN
    OBVIOUS
  <2> HIDE DEF down, k
  <2>7. Along(a, b) /\ Takes(a, b, k, down)
    BY <2>5, <2>6, <1>0, FirstPartTakes
  <2>8. IsWorld(b) /\ OutputType(b)
    BY <2>7 DEF Along, IsWorld
  <2> HIDE DEF b
  <2>9. FiresPart(b, c, k, down)
    BY <2>8, <2>6, <1>0, FireToFires
  <2>10. Along(b, c)
    BY <2>8, <2>9, ActsAlong DEF FiresPart
  <2> HIDE DEF c
  <2>11. IsWorld(c) /\ OutputType(c)
    BY <2>10 DEF Along, IsWorld
  <2>12. Keeps(c, d)
    BY <2>11, <1>0, FireAfterKeeps
  <2>13. Along(c, d) /\ SameCounts(c, d)
    BY <2>11, <2>12, ActsAlong DEF Keeps
  <2> HIDE DEF d
  <2>14. Along(a, d)
    BY <2>7, <2>10, <2>13, AlongTwice
  <2>15. OutputType(w) /\ OutputType(a) /\ OutputType(d) /\ OutputType(b)
    BY <2>5, <2>8, <2>14 DEF IsWorld, Along
  <2>16. Contributes(a, c, id, down)
    BY <2>15, <2>6, <2>7, <2>9, TakesAndFires DEF k
  <2>17. Contributes(w, d, id, down)
    <3>1. a.fs = w.fs /\ a.bs = w.bs
      BY <2>2, <2>4, <2>5 DEF SameStatus
    <3>2. d.bs = c.bs /\ \A f \in Countable : d.fs[f].count_ = c.fs[f].count_ /\ d.fs[f].lazy_count_ = c.fs[f].lazy_count_
      BY <2>13 DEF SameCounts, SameFlagCounts
    <3> QED BY <2>16, <3>1, <3>2 DEF Contributes
  <2>18. IsWorld(d) /\ Aside(d) = Aside(w) /\ SameList(w, d) /\ d.drop = w.drop /\ d.pressing = p.pressing /\ d.remapped = TRUE
    <3>1. d.pressing = p.pressing /\ d.remapped = TRUE /\ Aside(d) = Aside(w) /\ d.drop = w.drop
      BY <2>2, <2>4, <2>5, <2>14 DEF Along
    <3>2. a.prep = w.prep
      BY <2>2, <2>4, <2>5
    <3>3. SameList(w, d)
      BY <2>14, <3>2 DEF Along, SameList
    <3> QED BY <2>14, <3>1, <3>3 DEF Along
  <2>19. d.st = w.st
    BY <2>18 DEF Aside
  <2>20. SameExcess(w, d)
    <3> DEFINE n == IF down THEN 1 ELSE -1
    <3>1. n \in Int
      OBVIOUS
    <3>2. /\ \A f \in Countable :
                /\ d.fs[f].count_ = w.fs[f].count_ + n * Contribution(id, f)
                /\ d.fs[f].lazy_count_ = w.fs[f].lazy_count_ + n * Bit(Holds(id, Code("VK_LAZY", f)))
          /\ \A x \in Buttons : d.bs[x] = w.bs[x] + n * ButtonContribution(id, x)
      BY <2>17 DEF Contributes
    <3>3. /\ d.pressing[id] = w.pressing[id] + n /\ \A x \in Ids(conf) : x # id => d.pressing[x] = w.pressing[x]
          /\ d.pressing \in [Ids(conf) -> Nat] /\ w.pressing \in [Ids(conf) -> Nat]
      BY <2>2, <2>18 DEF IsWorld, FunctionType
    <3> HIDE DEF n
    <3> QED BY <3>1, <3>2, <3>3, <2>15, <2>19, PartExcess
  <2> QED BY <2>2, <2>3, <2>18, <2>20 DEF Turned
<1> QED
  BY <1>1, <1>2

-----------------------------------------------------------------------------
(* ScopedSetter *)

\* What all the items withhold are numbers.
LEMMA WithheldSumType ==
    ASSUME conf \in DOMAIN Configurations, NEW w, w.pressing \in [Ids(conf) -> Nat]
    PROVE  \A x : WithheldSum(w.pressing, w.st, x) \in Int /\ ButtonWithheldSum(w.pressing, x) \in Int
<1> SUFFICES ASSUME NEW x
             PROVE  WithheldSum(w.pressing, w.st, x) \in Int /\ ButtonWithheldSum(w.pressing, x) \in Int
  OBVIOUS
<1> DEFINE F == [j \in Periodic |-> WithheldBy(w, j, x)]
           G == [j \in Periodic |-> ButtonWithheldBy(w, j, x)]
<1>1. \A j \in Periodic : WithheldBy(w, j, x) \in Int /\ ButtonWithheldBy(w, j, x) \in Int
  BY WithheldByType
<1>2. SumFunction(F) = WithheldSum(w.pressing, w.st, x) /\ SumFunction(G) = ButtonWithheldSum(w.pressing, x)
  BY DEF WithheldSum, WithheldBy, ButtonWithheldSum, ButtonWithheldBy
<1>3. DOMAIN F = Periodic /\ DOMAIN G = Periodic
  OBVIOUS
<1>4. IsFiniteSet(Periodic)
  BY IdsFinite
<1>5. CASE Periodic = {}
  <2>1. \A j \in Periodic : F[j] = 0 /\ G[j] = 0
    BY <1>5
  <2> HIDE DEF F, G
  <2>2. SumFunction(F) = 0 /\ SumFunction(G) = 0
    BY <2>1, <1>3, <1>4, SumZero
  <2> QED BY <2>2, <1>2
<1>6. CASE Periodic # {}
  <2>1. PICK a \in Periodic : TRUE
    BY <1>6
  <2>2. StepsBy(Periodic, F, F, a, 0) /\ StepsBy(Periodic, G, G, a, 0)
    BY <1>1 DEF StepsBy
  <2> HIDE DEF F, G
  <2>3. SumFunction(F) \in Int /\ SumFunction(G) \in Int
    BY <2>2, <1>4, SumSteps
  <2> QED BY <2>3, <1>2
<1> QED
  BY <1>5, <1>6

\* What is left of a count changes as the count does.
LEMMA CountExcessBy ==
    ASSUME conf \in DOMAIN Configurations, NEW w, IsWorld(w), NEW v, v.pressing = w.pressing, v.st = w.st,
           NEW f, f \in Countable, NEW x, x \in Int, v.fs[f].count_ = w.fs[f].count_ + x
    PROVE  CountExcess(w, f) \in Int /\ CountExcess(v, f) = CountExcess(w, f) + x
<1> DEFINE a == w.fs[f].count_
           p == PressedSum(w.pressing, f)
           s == WithheldSum(w.pressing, w.st, f)
<1>1. w.pressing \in [Ids(conf) -> Nat] /\ a \in Int
  BY DEF IsWorld, FunctionType, OutputType, FlagStatuses, FlagItems, Countable
<1>2. p \in Int /\ s \in Int
  BY <1>1, PressedSumType, WithheldSumType
<1>3. CountExcess(w, f) = a - p + s /\ CountExcess(v, f) = (a + x) - p + s
  BY DEF CountExcess
<1> HIDE DEF a, p, s
<1> QED
  BY <1>1, <1>2, <1>3

\* What a ScopedSetter has done is taken back, whatever was sent within it.
LEMMA ScopedExcess ==
    ASSUME conf \in DOMAIN Configurations, NEW w, IsWorld(w), NEW s, s \in Scopes,
           NEW a, IsWorld(a), a.fs = EnterScope(w.fs, s), a.bs = w.bs, a.pressing = w.pressing, a.st = w.st,
           NEW b, IsWorld(b), SameExcess(a, b),
           NEW c, IsWorld(c), c.fs = LeaveScope(b.fs, s), c.bs = b.bs, c.pressing = b.pressing, c.st = b.st
    PROVE  SameExcess(w, c)
<1>0. w.fs \in FlagStatuses /\ b.fs \in FlagStatuses
  BY DEF IsWorld, OutputType
<1>1. ASSUME NEW f \in Countable
      PROVE  CountExcess(c, f) = CountExcess(w, f) /\ LazyExcess(c, f) = LazyExcess(w, f)
  <2>1. /\ a.fs[f].count_ = w.fs[f].count_ - s.added[f] + s.removed[f] /\ a.fs[f].lazy_count_ = w.fs[f].lazy_count_
        /\ c.fs[f].count_ = b.fs[f].count_ + s.added[f] - s.removed[f] /\ c.fs[f].lazy_count_ = b.fs[f].lazy_count_
        /\ s.added[f] \in Int /\ s.removed[f] \in Int
    <3>1. \A fs \in FlagStatuses :
             /\ EnterScope(fs, s)[f].count_ = fs[f].count_ - s.added[f] + s.removed[f]
             /\ EnterScope(fs, s)[f].lazy_count_ = fs[f].lazy_count_
             /\ LeaveScope(fs, s)[f].count_ = fs[f].count_ + s.added[f] - s.removed[f]
             /\ LeaveScope(fs, s)[f].lazy_count_ = fs[f].lazy_count_
             /\ s.added[f] \in Int /\ s.removed[f] \in Int
      BY ScopeChange
    <3> QED BY <1>0, <3>1
  <2> DEFINE m == s.added[f]
             n == s.removed[f]
  <2>2. w.fs[f].count_ \in Int /\ b.fs[f].count_ \in Int
    BY <1>0 DEF FlagStatuses, FlagItems, Countable
  <2>3. a.fs[f].count_ = w.fs[f].count_ + (n - m) /\ c.fs[f].count_ = b.fs[f].count_ + (m - n) /\ n - m \in Int /\ m - n \in Int
    BY <2>1, <2>2
  <2>4. CountExcess(w, f) \in Int /\ CountExcess(a, f) = CountExcess(w, f) + (n - m)
    BY <2>3, CountExcessBy
  <2>5. CountExcess(b, f) \in Int /\ CountExcess(c, f) = CountExcess(b, f) + (m - n)
    BY <2>3, CountExcessBy
  <2>6. CountExcess(b, f) = CountExcess(a, f) /\ LazyExcess(b, f) = LazyExcess(a, f)
    BY DEF SameExcess
  <2>7. LazyExcess(a, f) = LazyExcess(w, f) /\ LazyExcess(c, f) = LazyExcess(b, f)
    BY <2>1 DEF LazyExcess
  <2>8. m \in Int /\ n \in Int
    BY <2>1
  <2> HIDE DEF m, n
  <2> QED BY <2>4, <2>5, <2>6, <2>7, <2>8
<1>2. \A x \in Buttons : ButtonExcess(c, x) = ButtonExcess(w, x)
  BY DEF SameExcess, ButtonExcess
<1> QED
  BY <1>1, <1>2 DEF SameExcess

-----------------------------------------------------------------------------
(* Steps of the functions *)

\* The key of an item is pressed or released only by the item itself.
SameMains(w, v) == \A x \in Ids(conf) : x[2] \in {"ITEM", "KTK", "FROM"} => v.pressing[x] = w.pressing[x]

\* One world leads to another: all that counts is accounted for.
Goes(w, v) ==
    /\ IsWorld(v) /\ SameExcess(w, v) /\ Aside(v) = Aside(w) /\ SameMains(w, v) /\ SameList(w, v)
    /\ v.remapped = w.remapped

\* One world goes to another, and that to a third.
LEMMA GoesTwice ==
    ASSUME NEW u, NEW v, NEW w, Goes(u, v), Goes(v, w)
    PROVE  Goes(u, w)
<1>1. SameExcess(u, w)
  BY SameExcessTwice DEF Goes
<1>2. SameMains(u, w) /\ SameList(u, w)
  BY DEF Goes, SameMains, SameList
<1> QED
  BY <1>1, <1>2 DEF Goes

\* Nothing happens.
LEMMA GoesNowhere ==
    ASSUME NEW w, IsWorld(w)
    PROVE  Goes(w, w)
BY DEF Goes, SameExcess, SameMains, SameList

\* Output that counts nothing.
LEMMA AlongGoes ==
    ASSUME NEW w, NEW v, Along(w, v), SameCounts(w, v)
    PROVE  Goes(w, v)
<1>1. v.st = w.st
  BY DEF Along, Aside
<1>2. SameExcess(w, v)
  BY <1>1, SameCountsExcess DEF Along
<1> QED
  BY <1>2 DEF Along, Goes, SameMains

\* Output that counts nothing keeps all that is accounted for.
LEMMA KeepsGoes ==
    ASSUME NEW w, IsWorld(w), NEW v, Keeps(w, v)
    PROVE  Goes(w, v) /\ v.drop = w.drop
<1>1. Along(w, v) /\ SameCounts(w, v)
  BY ActsAlong DEF Keeps
<1> QED
  BY <1>1, AlongGoes DEF Along

-----------------------------------------------------------------------------
(* The delayed action *)

\* Nothing is pressed or put on the list, but an event may be dropped.
Stays(w, v) ==
    IsWorld(v) /\ Aside(v) = Aside(w) /\ v.pressing = w.pressing /\ SameList(w, v) /\ v.remapped = w.remapped

\* The list stays as it is, and again.
LEMMA StaysTwice ==
    ASSUME NEW u, NEW v, NEW w, Stays(u, v), Stays(v, w)
    PROVE  Stays(u, w)
BY DEF Stays, SameList

\* Output does not reach the list.
LEMMA AlongStays ==
    ASSUME NEW w, NEW v, Along(w, v)
    PROVE  Stays(w, v)
BY DEF Stays, Along

\* FlagStatus is replaced.
LEMMA SetFlagsAlong ==
    ASSUME NEW w, IsWorld(w), NEW fs, fs \in FlagStatuses
    PROVE  LET v == [w EXCEPT !.fs = fs]
           IN  Along(w, v) /\ v.fs = fs /\ v.bs = w.bs
<1>1. OutputType(w)
  BY DEF IsWorld
<1>2. LET v == [w EXCEPT !.fs = fs] IN Acts(w, v) /\ v.fs = fs /\ v.bs = w.bs
  BY <1>1, SetFlagsActs
<1> QED
  BY <1>2, ActsAlong

\* A drop key among those of an action.
LEMMA DropsStays ==
    ASSUME NEW w, IsWorld(w), NEW keys
    PROVE  LET v == Drops(w, keys) IN Stays(w, v) /\ v.fs = w.fs /\ v.bs = w.bs
<1> DEFINE x == w.drop \/ \E i \in DOMAIN keys : keys[i].code = VK_KEYTOKEY_DELAYED_ACTION_DROP_EVENT
           v == [w EXCEPT !.drop = x]
<1>1. Drops(w, keys) = v
  BY DEF Drops
<1> HIDE DEF x
<1>2. /\ IsWorld(v) /\ SameStatus(w, v) /\ Aside(v) = Aside(w) /\ v.pressing = w.pressing
      /\ v.remapped = w.remapped /\ v.prep = w.prep
  BY SetDrop, Zenon
<1> HIDE DEF v
<1> QED
  BY <1>1, <1>2 DEF Stays, SameStatus, SameList

\* The keys of a delayed action are sent within their ScopedSetter.
LEMMA FireDelayedGoes ==
    ASSUME conf \in DOMAIN Configurations, NEW w, IsWorld(w), NEW keys, keys \in Seq(ToEvents), NEW F, NEW s, s \in Scopes, NEW pt
    PROVE  Goes(w, FireDelayed(w, keys, F, s, pt))
<1> DEFINE x1 == [w EXCEPT !.fs = EnterScope(w.fs, s)]
           x2 == Drops(x1, keys)
           x3 == TemporarilyOff(x2, F)
           x4 == FireEach(x3, keys, pt, FALSE)
           x5 == TemporarilyOn(x4, F)
           x6 == [x5 EXCEPT !.fs = LeaveScope(x5.fs, s)]
<1>0. FireDelayed(w, keys, F, s, pt) = x6
  BY DEF FireDelayed
<1>1. Along(w, x1) /\ x1.fs = EnterScope(w.fs, s) /\ x1.bs = w.bs
  <2>1. w.fs \in FlagStatuses
    BY DEF IsWorld, OutputType
  <2>2. EnterScope(w.fs, s) \in FlagStatuses
    BY <2>1, ScopeChange
  <2> QED BY <2>2, SetFlagsAlong
<1> HIDE DEF x1
<1>2. IsWorld(x1)
  BY <1>1 DEF Along
<1>3. Stays(x1, x2) /\ x2.fs = x1.fs /\ x2.bs = x1.bs
  BY <1>2, DropsStays
<1> HIDE DEF x2
<1>4. IsWorld(x2) /\ OutputType(x2)
  BY <1>3 DEF Stays, IsWorld
<1>5. Keeps(x2, x3) /\ OutputType(x3)
  BY <1>4, TemporarilyKeeps
<1> HIDE DEF x3
<1>6. Keeps(x3, x4)
  BY <1>5, FireEachKeeps
<1>7. OutputType(x4)
  BY <1>6 DEF Keeps, Acts
<1> HIDE DEF x4
<1>8. Keeps(x4, x5)
  BY <1>7, TemporarilyKeeps
<1> HIDE DEF x5
<1>9. Keeps(x2, x5)
  BY <1>5, <1>6, <1>8, KeepsTwice
<1>10. Goes(x2, x5) /\ Along(x2, x5)
  BY <1>4, <1>9, KeepsGoes, ActsAlong DEF Keeps
<1>11. IsWorld(x5)
  BY <1>10 DEF Goes
<1>12. Along(x5, x6) /\ x6.fs = LeaveScope(x5.fs, s) /\ x6.bs = x5.bs
  <2>1. x5.fs \in FlagStatuses
    BY <1>11 DEF IsWorld, OutputType
  <2>2. LeaveScope(x5.fs, s) \in FlagStatuses
    BY <2>1, ScopeChange
  <2> QED BY <1>11, <2>2, SetFlagsAlong
<1> HIDE DEF x6
<1>13. Stays(w, x6) /\ Stays(w, x2) /\ Stays(x5, x6)
  BY <1>1, <1>3, <1>10, <1>12, AlongStays, StaysTwice
<1>14. SameExcess(w, x6)
  <2>1. x2.fs = EnterScope(w.fs, s) /\ x2.bs = w.bs /\ x2.pressing = w.pressing /\ x2.st = w.st
    BY <1>1, <1>3, <1>13 DEF Stays, Aside
  <2>2. x6.pressing = x5.pressing /\ x6.st = x5.st /\ IsWorld(x6)
    BY <1>13 DEF Stays, Aside
  <2>3. SameExcess(x2, x5)
    BY <1>10 DEF Goes
  <2> QED BY <2>1, <2>2, <2>3, <1>4, <1>11, <1>12, ScopedExcess
<1> QED
  BY <1>0, <1>13, <1>14 DEF Stays, Goes, SameMains

\* KeyToKey::doDelayedAction, by the timer or by the next key.
LEMMA DoDelayedActionGoes ==
    ASSUME conf \in DOMAIN Configurations, NEW w, IsWorld(w), NEW id, NEW keys, keys \in Seq(ToEvents), NEW canceledBy
    PROVE  Goes(w, DoDelayedAction(w, id, keys, canceledBy))
<1> DEFINE s == Scope(w.fs, w.ktk.saved)
           pt == IF id \in w.lastUp THEN "UP" ELSE "DOWN"
           l == IF canceledBy THEN Tail(keys) ELSE keys
           F == IF canceledBy THEN keys[1].mods ELSE {}
<1>1. CASE keys = <<>>
  BY <1>1, GoesNowhere DEF DoDelayedAction
<1>2. CASE keys # <<>>
  <2>1. DoDelayedAction(w, id, keys, canceledBy) = FireDelayed(w, l, F, s, pt)
    BY <1>2 DEF DoDelayedAction
  <2>2. s \in Scopes
    <3>1. w.fs \in FlagStatuses /\ w.ktk.saved \in [Flags -> Int]
      BY DEF IsWorld, OutputType, FunctionType
    <3> QED BY <3>1, ScopeType
  <2>3. l \in Seq(ToEvents)
    BY <1>2
  <2> HIDE DEF s, pt, l, F
  <2> QED BY <2>1, <2>2, <2>3, FireDelayedGoes
<1> QED
  BY <1>1, <1>2

-----------------------------------------------------------------------------
(* KeyToKey::prepare *)

\* The entry of the canceled-by list, if there is one.
LEMMA FirstEntry ==
    ASSUME NEW n \in Nat, NEW I \in SUBSET (1..n)
    PROVE  LET i == IF I # {} THEN Min(I) ELSE 0 IN i = 0 \/ i \in 1..n
<1>1. I \in SUBSET Nat
  OBVIOUS
<1>2. I # {} => Min(I) \in I
  BY <1>1, MinIn
<1> QED
  BY <1>2

\* The timer of the delayed action is canceled.
LEMMA KtkOff ==
    ASSUME NEW x, KtkType(x)
    PROVE  KtkType([x EXCEPT !.on = FALSE])
BY DEF KtkType

\* The keys of the delayed action.
LEMMA ListsType ==
    ASSUME NEW k, k \in KeyToKeys
    PROVE  /\ k.lists["CANCELED_BY"] \in Seq(Seq(ToEvents))
           /\ Keys(k, "CANCELED_DEFAULT") \in Seq(ToEvents) /\ Keys(k, "DELAYED") \in Seq(ToEvents)
<1>1. {"CANCELED_BY", "CANCELED_DEFAULT", "DELAYED"} \subseteq ListNames
  BY DEF ListNames
<1> QED
  BY <1>1, KeysType DEF KeyToKeys

\* KeyToKey::prepare: the delayed action is done before the next key, and an
\* event that is no press does nothing.
LEMMA PrepareKeyToKeyGoes ==
    ASSUME conf \in DOMAIN Configurations, NEW w, IsWorld(w), NEW id, id \in PartIds, NEW e
    PROVE  LET v == PrepareKeyToKey(w, id, PartOf(id), e)
           IN  Goes(w, v) /\ (e.type # "DOWN" => v = w)
<1> DEFINE k == PartOf(id)
           a == UnregisterPrepareTargetItem(w, id)
           c == [a EXCEPT !.ktk = [a.ktk EXCEPT !.on = FALSE]]
           b == [c EXCEPT !.fs = SetTemporary(c.fs)]
           by == k.lists["CANCELED_BY"]
           i == SelectInSeq(by, LAMBDA keys : keys # <<>> /\ keys[1].code = e.code /\ IsOn(b.fs, keys[1].mods))
           l == CASE i # 0 -> by[i]
                  [] i = 0 /\ k.lists["CANCELED_DEFAULT"] # <<>> -> Keys(k, "CANCELED_DEFAULT")
                  [] OTHER -> Keys(k, "DELAYED")
           v == PrepareKeyToKey(w, id, k, e)
<1>0. k \in KeyToKeys /\ id[2] # "ITEM"
  BY PartOfType
<1>1. /\ IsWorld(a) /\ SameStatus(w, a) /\ Aside(a) = Aside(w) /\ a.pressing = w.pressing
      /\ a.drop = w.drop /\ a.remapped = w.remapped /\ a.ktk = w.ktk /\ a.lastUp = w.lastUp
      /\ \A x : Listed(a.prep, x) <=> Listed(w.prep, x) /\ x # id
  BY UnregisterType
<1>2. /\ e.type # "DOWN" => v = w
      /\ e.type = "DOWN" /\ ~w.ktk.on => v = a
      /\ e.type = "DOWN" /\ w.ktk.on => v = DoDelayedAction(b, id, l, i # 0)
  <2>1. b = [a EXCEPT !.ktk.on = FALSE, !.fs = SetTemporary(@)]
    <3>1. OutputType(a)
      BY <1>1 DEF IsWorld
    <3> HIDE DEF a
    <3> QED BY <3>1 DEF OutputType, Fields
  <2> HIDE DEF c
  <2> HIDE DEF b
  <2>2. v = CASE e.type # "DOWN" -> w
              [] e.type = "DOWN" /\ ~w.ktk.on -> a
              [] e.type = "DOWN" /\ w.ktk.on -> DoDelayedAction(b, id, l, i # 0)
    BY <2>1 DEF PrepareKeyToKey
  <2> HIDE DEF a, v, l, i
  <2> QED BY <2>2
<1>3. by \in Seq(Seq(ToEvents))
  BY <1>0, ListsType
<1>4. i = 0 \/ i \in 1..Len(by)
  <2> DEFINE I == {n \in 1..Len(by) : by[n] # <<>> /\ by[n][1].code = e.code /\ IsOn(b.fs, by[n][1].mods)}
  <2>1. i = IF I # {} THEN Min(I) ELSE 0
    BY DEF SelectInSeq
  <2>2. Len(by) \in Nat /\ I \in SUBSET (1..Len(by))
    BY <1>3
  <2> HIDE DEF I, i
  <2> QED BY <2>1, <2>2, FirstEntry
<1> HIDE DEF i, b, a
<1>5. l \in Seq(ToEvents)
  <2>1. i # 0 => by[i] \in Seq(ToEvents)
    BY <1>3, <1>4
  <2>2. Keys(k, "CANCELED_DEFAULT") \in Seq(ToEvents) /\ Keys(k, "DELAYED") \in Seq(ToEvents)
    BY <1>0, ListsType
  <2> QED BY <2>1, <2>2
<1> HIDE DEF l, by
<1>6. Along(w, a) /\ SameCounts(w, a)
  <2>1. SameList(w, a)
    BY <1>0, <1>1 DEF SameList
  <2> QED BY <1>1, <2>1 DEF Along, SameStatus, SameCounts, SameFlagCounts
<1>7. KtkType([a.ktk EXCEPT !.on = FALSE])
  <2>1. KtkType(a.ktk)
    BY <1>1 DEF IsWorld, FunctionType, KtkType
  <2> QED BY <2>1, KtkOff
<1>8. Along(a, c) /\ SameCounts(a, c)
  <2> DEFINE x == [a.ktk EXCEPT !.on = FALSE]
  <2>1. KtkType(x)
    BY <1>7
  <2> HIDE DEF x
  <2>2. LET d == [a EXCEPT !.ktk = x]
        IN  /\ IsWorld(d) /\ SameStatus(a, d) /\ Aside(d) = Aside(a) /\ d.pressing = a.pressing
            /\ d.drop = a.drop /\ d.remapped = a.remapped /\ d.prep = a.prep
    BY <1>1, <2>1, SetKtk
  <2>3. LET d == [a EXCEPT !.ktk = x] IN Along(a, d) /\ SameCounts(a, d)
    BY <2>2 DEF Along, SameList, SameStatus, SameCounts, SameFlagCounts
  <2> QED BY <2>3 DEF x
<1> HIDE DEF c
<1>9. IsWorld(c)
  BY <1>8 DEF Along
<1>10. Along(c, b) /\ SameCounts(c, b)
  <2>1. OutputType(c)
    BY <1>9 DEF IsWorld
  <2>2. LET d == [c EXCEPT !.fs = SetTemporary(c.fs)] IN Keeps(c, d)
    BY <2>1, SetTemporaryKeeps
  <2>3. Keeps(c, b)
    BY <2>2 DEF b
  <2> QED BY <2>3, <1>9, ActsAlong DEF Keeps
<1>11. Goes(w, a) /\ Goes(a, c) /\ Goes(c, b)
  BY <1>6, <1>8, <1>10, AlongGoes
<1>12. Goes(w, b)
  BY <1>11, GoesTwice
<1>13. Goes(b, DoDelayedAction(b, id, l, i # 0))
  <2>1. IsWorld(b)
    BY <1>12 DEF Goes
  <2>2. \A x : Goes(b, DoDelayedAction(b, id, l, x))
    BY <2>1, <1>5, DoDelayedActionGoes
  <2> QED BY <2>2, Zenon
<1>14. Goes(w, DoDelayedAction(b, id, l, i # 0))
  BY <1>12, <1>13, GoesTwice
<1>15. Goes(w, w)
  BY GoesNowhere
<1> HIDE DEF v
<1>16. Goes(w, v)
  <2>1. CASE e.type # "DOWN"
    BY <1>2, <1>15, <2>1
  <2>2. CASE e.type = "DOWN" /\ ~w.ktk.on
    BY <1>2, <1>11, <2>2
  <2>3. CASE e.type = "DOWN" /\ w.ktk.on
    <3>1. v = DoDelayedAction(b, id, l, i # 0)
      BY <1>2, <2>3, Zenon
    <3> QED BY <3>1, <1>14, Zenon
  <2> QED BY <2>1, <2>2, <2>3
<1> QED
  BY <1>2, <1>16 DEF v

-----------------------------------------------------------------------------
(* Calls with VK_PSEUDO_KEY *)

SameParts(w, v) == SameStatus(w, v) /\ v.pressing = w.pressing /\ v.st = w.st

\* The same is left when nothing that counts has changed.
LEMMA SamePartsExcess ==
    ASSUME NEW w, NEW v, SameParts(w, v)
    PROVE  SameExcess(w, v)
BY DEF SameParts, SameStatus, SameExcess, CountExcess, LazyExcess, ButtonExcess

\* KeyToKey::call_remap_with_VK_PSEUDO_KEY of one type.
LEMMA PseudoGoes ==
    ASSUME conf \in DOMAIN Configurations, NEW w, IsWorld(w), NEW i, i \in DOMAIN Items[conf],
           NEW p, p \in DOMAIN Items[conf][i].parts, p \notin {"KTK", "FROM"}, NEW type, NEW pt
    PROVE  Goes(w, Pseudo(w, i, p, type, pt)) /\ Pseudo(w, i, p, type, pt).drop = w.drop
<1> DEFINE id == <<i, p>>
           gs == IF type = "DOWN" THEN LazyEnable(w.fs) ELSE LazyDisableIfOff(w.fs)
           b == [w EXCEPT !.fs = gs]
           a == [b EXCEPT !.remapped = FALSE]
           e == [code |-> VK_PSEUDO_KEY, type |-> type]
           r == RemapKeyToKey(a, id, PartOf(id), e, pt)
           v == [r EXCEPT !.remapped = w.remapped]
<1>1. id \in PartIds /\ id[2] = p /\ p # "ITEM"
  BY IdsKinds DEF PartIds
<1>2. Along(w, b) /\ SameCounts(w, b)
  <2>1. w.fs \in FlagStatuses
    BY DEF IsWorld, OutputType
  <2>2. gs \in FlagStatuses /\ SameFlagCounts(w.fs, gs)
    BY <2>1, LazyEnableType
  <2> HIDE DEF gs
  <2>3. Along(w, b) /\ b.fs = gs /\ b.bs = w.bs
    BY <2>2, SetFlagsAlong
  <2> QED BY <2>2, <2>3 DEF SameCounts
<1>3. Pseudo(w, i, p, type, pt) = v
  <2>1. OutputType(w)
    BY DEF IsWorld
  <2>2. a = [w EXCEPT !.remapped = FALSE, !.fs = IF type = "DOWN" THEN LazyEnable(@) ELSE LazyDisableIfOff(@)]
    BY <2>1 DEF OutputType, Fields
  <2>3. Part(w, i, p) = PartOf(id)
    BY DEF IsWorld, FunctionType, Part, Item, PartOf
  <2> HIDE DEF a, e
  <2> QED BY <2>2, <2>3 DEF Pseudo, e
<1>4. Goes(w, b) /\ b.drop = w.drop
  BY <1>2, AlongGoes DEF Along
<1> HIDE DEF b
<1>5. IsWorld(b)
  BY <1>4 DEF Goes
<1>6. /\ IsWorld(a) /\ SameStatus(b, a) /\ Aside(a) = Aside(b) /\ a.pressing = b.pressing
      /\ a.drop = b.drop /\ a.prep = b.prep
  BY <1>5, SetRemapped, Zenon
<1> HIDE DEF a, e
<1>7. Turned(a, r, id, e.type = "DOWN") \/ r = a
  BY <1>1, <1>6, RemapKeyToKeyTurns, Zenon
<1>8. /\ IsWorld(r) /\ SameExcess(a, r) /\ Aside(r) = Aside(a) /\ SameList(a, r) /\ r.drop = a.drop
      /\ \A x \in Ids(conf) : x # id => r.pressing[x] = a.pressing[x]
  <2>1. CASE r = a
    BY <2>1, <1>6 DEF SameExcess, SameList
  <2>2. CASE Turned(a, r, id, e.type = "DOWN")
    BY <2>2 DEF Turned
  <2> QED BY <2>1, <2>2, <1>7
<1> HIDE DEF r
<1>9. /\ IsWorld(v) /\ SameStatus(r, v) /\ Aside(v) = Aside(r) /\ v.pressing = r.pressing
      /\ v.drop = r.drop /\ v.prep = r.prep /\ v.remapped = w.remapped
  <2>1. \A x : LET u == [r EXCEPT !.remapped = x]
               IN  /\ IsWorld(u) /\ SameStatus(r, u) /\ Aside(u) = Aside(r) /\ u.pressing = r.pressing
                   /\ u.drop = r.drop /\ u.prep = r.prep /\ u.remapped = x
    BY <1>8, SetRemapped
  <2> QED BY <2>1, Zenon
<1> HIDE DEF v
<1>10. SameExcess(w, v)
  <2>1. SameParts(b, a) /\ SameParts(r, v)
    BY <1>6, <1>9 DEF SameParts, Aside
  <2>2. SameExcess(w, b) /\ SameExcess(b, a) /\ SameExcess(a, r) /\ SameExcess(r, v)
    BY <2>1, <1>4, <1>8, SamePartsExcess DEF Goes
  <2> QED BY <2>2, SameExcessTwice
<1>11. SameMains(w, v)
  <2>1. \A x \in Ids(conf) : x[2] \in {"ITEM", "KTK", "FROM"} => x # id
    BY <1>1
  <2>2. SameMains(w, b)
    BY <1>4 DEF Goes
  <2> QED BY <2>1, <2>2, <1>6, <1>8, <1>9 DEF SameMains
<1>12. SameList(w, v) /\ Aside(v) = Aside(w) /\ v.drop = w.drop
  BY <1>4, <1>6, <1>8, <1>9 DEF Goes, SameList
<1> QED
  BY <1>3, <1>9, <1>10, <1>11, <1>12 DEF Goes

PseudoStep(w, type, i, p, pt, t) == Pseudo(w, i, p, type, pt)
PseudoSoFar(k, w, c) == TRUE
PF == INSTANCE FoldProofs WITH Op <- PseudoStep, I <- PseudoSoFar

\* ... and a press with its release.
LEMMA PseudoDownUpGoes ==
    ASSUME conf \in DOMAIN Configurations, NEW w, IsWorld(w), NEW i, i \in DOMAIN Items[conf],
           NEW p, p \in DOMAIN Items[conf][i].parts, p \notin {"KTK", "FROM"}, NEW pt
    PROVE  Goes(w, PseudoDownUp(w, i, p, pt)) /\ PseudoDownUp(w, i, p, pt).drop = w.drop
<1> DEFINE a == Pseudo(w, i, p, "DOWN", pt)
           v == Pseudo(a, i, p, "UP", pt)
<1>1. PseudoDownUp(w, i, p, pt) = PF!Fold(w, <<"DOWN", "UP">>, i, p, pt, 0)
  BY DEF PseudoDownUp, PF!Fold, PseudoStep, FoldLeft, MapThenFoldSet, PF!MapThenFoldSet, Max
<1>2. PF!Fold(w, <<"DOWN", "UP">>, i, p, pt, 0) = v
  <2>1. \A x, y : PF!Fold(w, <<x, y>>, i, p, pt, 0) = PseudoStep(PseudoStep(w, x, i, p, pt, 0), y, i, p, pt, 0)
    BY PF!FoldOfTwo
  <2>2. PF!Fold(w, <<"DOWN", "UP">>, i, p, pt, 0) = PseudoStep(PseudoStep(w, "DOWN", i, p, pt, 0), "UP", i, p, pt, 0)
    BY <2>1, Zenon
  <2> QED BY <2>2 DEF PseudoStep
<1>3. Goes(w, a) /\ a.drop = w.drop
  BY PseudoGoes
<1> HIDE DEF a
<1>4. Goes(a, v) /\ v.drop = a.drop
  BY <1>3, PseudoGoes DEF Goes
<1> HIDE DEF v
<1>5. Goes(w, v)
  BY <1>3, <1>4, GoesTwice
<1> QED
  BY <1>1, <1>2, <1>3, <1>4, <1>5

-----------------------------------------------------------------------------
(* The states of the items and their timer are replaced *)

\* What only the events change.
Others(w) ==
    <<w.items, w.loaded, w.lastPressed, w.lastReleased, w.active, w.walk, w.workspace, w.device, w.elapsed, w.keys>>

\* All but the states of the items and their timer.
SameButStates(w, v) ==
    /\ SameStatus(w, v) /\ Others(v) = Others(w) /\ v.pressing = w.pressing /\ v.drop = w.drop
    /\ v.remapped = w.remapped /\ v.prep = w.prep /\ v.ktk = w.ktk /\ v.lastUp = w.lastUp

\* The states of all the items are replaced.
LEMMA SetStates ==
    ASSUME NEW w, IsWorld(w), NEW x, x \in [DOMAIN Items[conf] -> States]
    PROVE  LET v == [w EXCEPT !.st = x] IN IsWorld(v) /\ SameButStates(w, v) /\ v.st = x /\ v.dpp = w.dpp
<1> DEFINE v == [w EXCEPT !.st = x]
<1>1. OutputType(v) /\ SameButStates(w, v) /\ v.st = x /\ v.dpp = w.dpp
  BY DEF IsWorld, OutputType, Fields, SameButStates, SameStatus, Others
<1>2. v.items = w.items /\ v.active = w.active
  BY DEF IsWorld, OutputType, Fields
<1> HIDE DEF v
<1>3. FunctionType(v)
  BY <1>1, <1>2 DEF IsWorld, FunctionType, SameButStates
<1>4. IsWorld(v)
  BY <1>1, <1>3 DEF IsWorld, SameStatus, SameButStates
<1> QED
  BY <1>1, <1>4 DEF v

\* The state of one item is replaced.
LEMMA SetState ==
    ASSUME NEW w, IsWorld(w), NEW i, i \in DOMAIN Items[conf], NEW s, s \in States
    PROVE  LET v == [w EXCEPT !.st[i] = s]
           IN  /\ IsWorld(v) /\ SameButStates(w, v) /\ v.dpp = w.dpp
               /\ v.st[i] = s /\ \A j \in DOMAIN Items[conf] : j # i => v.st[j] = w.st[j]
<1> DEFINE x == [w.st EXCEPT ![i] = s]
           v == [w EXCEPT !.st = x]
<1>1. w.st \in [DOMAIN Items[conf] -> States]
  BY DEF IsWorld, FunctionType
<1>2. x \in [DOMAIN Items[conf] -> States] /\ x[i] = s /\ \A j \in DOMAIN Items[conf] : j # i => x[j] = w.st[j]
  BY <1>1
<1>3. [w EXCEPT !.st[i] = s] = v
  OBVIOUS
<1> HIDE DEF x
<1>4. IsWorld(v) /\ SameButStates(w, v) /\ v.st = x /\ v.dpp = w.dpp
  BY <1>2, SetStates
<1> QED
  BY <1>2, <1>3, <1>4

\* The timer of DependingPressingPeriodKeyToKey is replaced.
LEMMA SetTimer ==
    ASSUME NEW w, IsWorld(w), NEW x, x = [y \in {"target", "on"} |-> x[y]], x.target \in {0} \cup Periodic,
           x.on => x.target \in Periodic
    PROVE  LET v == [w EXCEPT !.dpp = x] IN IsWorld(v) /\ SameButStates(w, v) /\ v.st = w.st /\ v.dpp = x
<1> DEFINE v == [w EXCEPT !.dpp = x]
<1>1. OutputType(v) /\ SameButStates(w, v) /\ v.st = w.st /\ v.dpp = x
  BY DEF IsWorld, OutputType, Fields, SameButStates, SameStatus, Others
<1>2. v.items = w.items /\ v.active = w.active
  BY DEF IsWorld, OutputType, Fields
<1> HIDE DEF v
<1>3. FunctionType(v)
  BY <1>1, <1>2 DEF IsWorld, FunctionType, SameButStates
<1>4. IsWorld(v)
  BY <1>1, <1>3 DEF IsWorld, SameStatus, SameButStates
<1> QED
  BY <1>1, <1>4 DEF v

\* The timer is switched on or off, or gets a target.
LEMMA SetTimerFields ==
    ASSUME NEW w, IsWorld(w)
    PROVE  /\ \A b : (b => w.dpp.target \in Periodic) =>
                LET v == [w EXCEPT !.dpp.on = b]
                IN  IsWorld(v) /\ SameButStates(w, v) /\ v.st = w.st /\ v.dpp.on = b /\ v.dpp.target = w.dpp.target
           /\ \A i \in Periodic :
                LET v == [w EXCEPT !.dpp.target = i]
                IN  IsWorld(v) /\ SameButStates(w, v) /\ v.st = w.st /\ v.dpp.on = w.dpp.on /\ v.dpp.target = i
<1>1. /\ w.dpp = [y \in {"target", "on"} |-> w.dpp[y]]
      /\ w.dpp.target \in {0} \cup Periodic /\ (w.dpp.on => w.dpp.target \in Periodic)
  BY DEF IsWorld, FunctionType
<1>2. ASSUME NEW b, b => w.dpp.target \in Periodic
      PROVE  LET v == [w EXCEPT !.dpp.on = b]
             IN  IsWorld(v) /\ SameButStates(w, v) /\ v.st = w.st /\ v.dpp.on = b /\ v.dpp.target = w.dpp.target
  <2> DEFINE x == [w.dpp EXCEPT !.on = b]
  <2>1. /\ x = [y \in {"target", "on"} |-> x[y]] /\ x.target = w.dpp.target /\ x.on = b
    BY <1>1
  <2>2. [w EXCEPT !.dpp.on = b] = [w EXCEPT !.dpp = x]
    OBVIOUS
  <2> HIDE DEF x
  <2>3. LET v == [w EXCEPT !.dpp = x] IN IsWorld(v) /\ SameButStates(w, v) /\ v.st = w.st /\ v.dpp = x
    BY <1>1, <1>2, <2>1, SetTimer
  <2> QED BY <2>1, <2>2, <2>3
<1>3. ASSUME NEW i \in Periodic
      PROVE  LET v == [w EXCEPT !.dpp.target = i]
             IN  IsWorld(v) /\ SameButStates(w, v) /\ v.st = w.st /\ v.dpp.on = w.dpp.on /\ v.dpp.target = i
  <2> DEFINE x == [w.dpp EXCEPT !.target = i]
  <2>1. /\ x = [y \in {"target", "on"} |-> x[y]] /\ x.target = i /\ x.on = w.dpp.on
    BY <1>1
  <2>2. [w EXCEPT !.dpp.target = i] = [w EXCEPT !.dpp = x]
    OBVIOUS
  <2> HIDE DEF x
  <2>3. LET v == [w EXCEPT !.dpp = x] IN IsWorld(v) /\ SameButStates(w, v) /\ v.st = w.st /\ v.dpp = x
    BY <2>1, SetTimer
  <2> QED BY <2>1, <2>2, <2>3
<1> QED
  BY <1>2, <1>3

-----------------------------------------------------------------------------
(* Steps of an item *)

\* The same is left when neither the counts, nor the pressed KeyToKeys, nor
\* the modifiers that were taken have changed.
LEMMA SameWithheldExcess ==
    ASSUME conf \in DOMAIN Configurations, NEW w, NEW v, SameCounts(w, v),
           \A id \in PartIds : v.pressing[id] = w.pressing[id],
           \A j \in Periodic : v.pressing[<<j, "ITEM">>] = w.pressing[<<j, "ITEM">>] /\ v.st[j].decreased = w.st[j].decreased
    PROVE  SameExcess(w, v)
<1>1. ASSUME NEW f
      PROVE  /\ PressedSum(v.pressing, f) = PressedSum(w.pressing, f) /\ LazySum(v.pressing, f) = LazySum(w.pressing, f)
             /\ ButtonSum(v.pressing, f) = ButtonSum(w.pressing, f)
  <2>1. /\ [id \in PartIds |-> v.pressing[id] * Contribution(id, f)] = [id \in PartIds |-> w.pressing[id] * Contribution(id, f)]
        /\ [id \in PartIds |-> v.pressing[id] * Bit(Holds(id, Code("VK_LAZY", f)))]
           = [id \in PartIds |-> w.pressing[id] * Bit(Holds(id, Code("VK_LAZY", f)))]
        /\ [id \in PartIds |-> v.pressing[id] * ButtonContribution(id, f)]
           = [id \in PartIds |-> w.pressing[id] * ButtonContribution(id, f)]
    OBVIOUS
  <2> QED BY <2>1 DEF PressedSum, LazySum, ButtonSum
<1>2. ASSUME NEW f
      PROVE  /\ WithheldSum(v.pressing, v.st, f) = WithheldSum(w.pressing, w.st, f)
             /\ ButtonWithheldSum(v.pressing, f) = ButtonWithheldSum(w.pressing, f)
  <2>1. /\ [i \in Periodic |-> v.pressing[<<i, "ITEM">>] * TakenBy(i, f) + AwayFlag(v.st, i, f)]
           = [i \in Periodic |-> w.pressing[<<i, "ITEM">>] * TakenBy(i, f) + AwayFlag(w.st, i, f)]
        /\ [i \in Periodic |-> v.pressing[<<i, "ITEM">>] * Bit(Items[conf][i].from = Code("button", f))]
           = [i \in Periodic |-> w.pressing[<<i, "ITEM">>] * Bit(Items[conf][i].from = Code("button", f))]
    BY DEF AwayFlag
  <2> QED BY <2>1 DEF WithheldSum, ButtonWithheldSum
<1>3. /\ \A f \in Countable : v.fs[f].count_ = w.fs[f].count_ /\ v.fs[f].lazy_count_ = w.fs[f].lazy_count_
      /\ v.bs = w.bs
  BY DEF SameCounts, SameFlagCounts
<1> QED
  BY <1>1, <1>2, <1>3 DEF SameExcess, CountExcess, LazyExcess, ButtonExcess

\* One world leads to another by what item i does.
Works(w, v, i) ==
    /\ IsWorld(v) /\ SameExcess(w, v) /\ Others(v) = Others(w) /\ SameMains(w, v) /\ v.remapped = w.remapped
    /\ \A j \in DOMAIN Items[conf] : j # i => v.st[j] = w.st[j]
    /\ \A x : x[2] = "ITEM" /\ x # <<i, "ITEM">> => (Listed(v.prep, x) <=> Listed(w.prep, x))

\* The item is in the same period, the timer and the list are as they were.
SameMode(w, v, i) ==
    /\ v.st[i].active = w.st[i].active /\ v.st[i].period = w.st[i].period /\ v.dpp = w.dpp
    /\ Listed(v.prep, <<i, "ITEM">>) <=> Listed(w.prep, <<i, "ITEM">>)

\* A step of an item, and another.
LEMMA WorksTwice ==
    ASSUME NEW u, NEW v, NEW w, NEW i, Works(u, v, i), Works(v, w, i)
    PROVE  Works(u, w, i)
<1>1. SameExcess(u, w)
  BY SameExcessTwice DEF Works
<1>2. SameMains(u, w)
  BY DEF Works, SameMains
<1> QED
  BY <1>1, <1>2 DEF Works

\* The item waits as it did, and again.
LEMMA SameModeTwice ==
    ASSUME NEW u, NEW v, NEW w, NEW i, SameMode(u, v, i), SameMode(v, w, i)
    PROVE  SameMode(u, w, i)
BY DEF SameMode

\* An item does nothing.
LEMMA WorksNowhere ==
    ASSUME NEW w, IsWorld(w), NEW i
    PROVE  Works(w, w, i) /\ SameMode(w, w, i)
BY DEF Works, SameExcess, SameMains, SameMode

\* The output of an item is a step of that item.
LEMMA GoesWorks ==
    ASSUME NEW w, NEW v, Goes(w, v), NEW i
    PROVE  Works(w, v, i) /\ SameMode(w, v, i) /\ v.st = w.st
<1>1. Others(v) = Others(w) /\ v.st = w.st /\ v.dpp = w.dpp
  BY DEF Goes, Aside, Others
<1>2. \A x : x[2] = "ITEM" => (Listed(v.prep, x) <=> Listed(w.prep, x))
  BY DEF Goes, SameList
<1>3. Listed(v.prep, <<i, "ITEM">>) <=> Listed(w.prep, <<i, "ITEM">>)
  BY <1>2
<1> QED
  BY <1>1, <1>2, <1>3 DEF Goes, Works, SameMode

\* The state of the item is replaced, the modifiers it took are not.
LEMMA StateWorks ==
    ASSUME conf \in DOMAIN Configurations, NEW w, IsWorld(w), NEW v, IsWorld(v), SameButStates(w, v), NEW i,
           \A j \in DOMAIN Items[conf] : j # i => v.st[j] = w.st[j],
           \A j \in Periodic : v.st[j].decreased = w.st[j].decreased
    PROVE  Works(w, v, i)
<1>1. SameCounts(w, v) /\ v.pressing = w.pressing /\ v.prep = w.prep /\ v.remapped = w.remapped /\ Others(v) = Others(w)
  BY DEF SameButStates, SameStatus, SameCounts, SameFlagCounts
<1>2. SameExcess(w, v)
  BY <1>1, SameWithheldExcess
<1> QED
  BY <1>1, <1>2 DEF Works, SameMains

-----------------------------------------------------------------------------
(* The modifiers of an item that is pressed *)

\* An item of a period is an item, and so is its key.
LEMMA PeriodicIds ==
    ASSUME conf \in DOMAIN Configurations
    PROVE  \A i \in Periodic : i \in DOMAIN Items[conf] /\ <<i, "ITEM">> \in Ids(conf)
BY IdsKinds DEF Periodic

\* The modifiers are taken, or given back.
Toggles(w, i, d, fs) ==
    \/ fs = Decrease(w.fs, PureFlags(Items[conf][i])) /\ w.st[i].decreased = FALSE /\ d = TRUE
    \/ fs = Increase(w.fs, PureFlags(Items[conf][i])) /\ w.st[i].decreased = TRUE /\ d = FALSE

\* DependingPressingPeriodKeyToKey takes the modifiers of its key and
\* remembers it: the same is left.
LEMMA AwayExcess ==
    ASSUME conf \in DOMAIN Configurations, NEW w, IsWorld(w), NEW v, IsWorld(v), NEW i, i \in Periodic,
           v.pressing = w.pressing, v.bs = w.bs,
           \A j \in Periodic : j # i => v.st[j] = w.st[j],
           Toggles(w, i, v.st[i].decreased, v.fs)
    PROVE  SameExcess(w, v)
<1> DEFINE F == PureFlags(Items[conf][i])
<1>0. \/ v.fs = Decrease(w.fs, F) /\ w.st[i].decreased = FALSE /\ v.st[i].decreased = TRUE
      \/ v.fs = Increase(w.fs, F) /\ w.st[i].decreased = TRUE /\ v.st[i].decreased = FALSE
  BY DEF Toggles
<1>1. w.fs \in FlagStatuses /\ w.pressing \in [Ids(conf) -> Nat] /\ OutputType(w) /\ OutputType(v)
  BY DEF IsWorld, OutputType, FunctionType
<1>2. \A x : Bit(FALSE /\ x) = 0 /\ Bit(TRUE /\ x) = Bit(x)
  BY DEF Bit
<1>3. ASSUME NEW f \in Countable
      PROVE  /\ v.fs[f].count_ + WithheldBy(v, i, f) = w.fs[f].count_ + WithheldBy(w, i, f)
             /\ v.fs[f].lazy_count_ = w.fs[f].lazy_count_
  <2> DEFINE n == Bit(f \in F)
             m == w.pressing[<<i, "ITEM">>] * TakenBy(i, f)
             a == w.fs[f].count_
  <2>1. n \in Int /\ a \in Int
    BY <1>1 DEF Bit, FlagStatuses, FlagItems, Countable
  <2>2. m \in Int
    <3>1. w.pressing[<<i, "ITEM">>] \in Int /\ TakenBy(i, f) \in Int
      BY <1>1, PeriodicIds DEF TakenBy, Bit
    <3> DEFINE y == TakenBy(i, f)  x == w.pressing[<<i, "ITEM">>]
    <3> HIDE DEF x, y
    <3>2. x * y \in Int
      BY <3>1 DEF x, y
    <3> QED BY <3>2 DEF x, y
  <2>3. AwayFlag(w.st, i, f) = Bit(w.st[i].decreased /\ f \in F) /\ AwayFlag(v.st, i, f) = Bit(v.st[i].decreased /\ f \in F)
    BY DEF AwayFlag
  <2>4. WithheldBy(w, i, f) = m + AwayFlag(w.st, i, f) /\ WithheldBy(v, i, f) = m + AwayFlag(v.st, i, f)
    BY DEF WithheldBy
  <2>5. /\ Decrease(w.fs, F)[f].count_ = a - n /\ Increase(w.fs, F)[f].count_ = a + n
        /\ Decrease(w.fs, F)[f].lazy_count_ = w.fs[f].lazy_count_ /\ Increase(w.fs, F)[f].lazy_count_ = w.fs[f].lazy_count_
    BY <1>1, DecreaseChange, IncreaseChange
  <2>6. CASE v.fs = Decrease(w.fs, F) /\ w.st[i].decreased = FALSE /\ v.st[i].decreased = TRUE
    <3>1. AwayFlag(w.st, i, f) = 0 /\ AwayFlag(v.st, i, f) = n
      BY <1>2, <2>3, <2>6, Zenon
    <3>2. WithheldBy(w, i, f) = m + 0 /\ WithheldBy(v, i, f) = m + n
      BY <2>4, <3>1
    <3>3. v.fs[f].count_ = a - n /\ v.fs[f].lazy_count_ = w.fs[f].lazy_count_
      BY <2>5, <2>6
    <3> HIDE DEF a, m, n
    <3>4. (a - n) + (m + n) = a + (m + 0)
      BY <2>1, <2>2
    <3> QED BY <3>2, <3>3, <3>4 DEF a
  <2>7. CASE v.fs = Increase(w.fs, F) /\ w.st[i].decreased = TRUE /\ v.st[i].decreased = FALSE
    <3>1. AwayFlag(w.st, i, f) = n /\ AwayFlag(v.st, i, f) = 0
      BY <1>2, <2>3, <2>7, Zenon
    <3>2. WithheldBy(w, i, f) = m + n /\ WithheldBy(v, i, f) = m + 0
      BY <2>4, <3>1
    <3>3. v.fs[f].count_ = a + n /\ v.fs[f].lazy_count_ = w.fs[f].lazy_count_
      BY <2>5, <2>7
    <3> HIDE DEF a, m, n
    <3>4. (a + n) + (m + 0) = a + (m + n)
      BY <2>1, <2>2
    <3> QED BY <3>2, <3>3, <3>4 DEF a
  <2> QED BY <1>0, <2>6, <2>7
<1>4. \A b \in Buttons : v.bs[b] + ButtonWithheldBy(v, i, b) = w.bs[b] + ButtonWithheldBy(w, i, b)
  BY DEF ButtonWithheldBy
<1>5. \A j \in Periodic : j # i => v.st[j].decreased = w.st[j].decreased
  OBVIOUS
<1>6. \A x \in Ids(conf) : x # <<i, "ITEM">> => v.pressing[x] = w.pressing[x]
  OBVIOUS
<1>7. v.pressing \in [Ids(conf) -> Nat]
  BY <1>1
<1> QED
  BY <1>1, <1>3, <1>4, <1>5, <1>6, <1>7, ItemExcess

\* The modifiers are taken away or given back, the item stays in its period.
Shifts(w, v, i) ==
    /\ Works(w, v, i) /\ SameMode(w, v, i) /\ v.prep = w.prep /\ v.drop = w.drop /\ v.st[i].saved = w.st[i].saved

ShiftsTo(w, v, i, d) == Shifts(w, v, i) /\ v.st[i].decreased = d

\* The modifiers are taken, or given back, and the item says which.
LEMMA ShiftsWorks ==
    ASSUME conf \in DOMAIN Configurations, NEW w, IsWorld(w), NEW i, i \in Periodic,
           NEW d, NEW fs, Toggles(w, i, d, fs)
    PROVE  ShiftsTo(w, [w EXCEPT !.st[i].decreased = d, !.fs = fs], i, d)
<1> DEFINE s == [w.st[i] EXCEPT !.decreased = d]
           a == [w EXCEPT !.st[i] = s]
           v == [a EXCEPT !.fs = fs]
<1>0. i \in DOMAIN Items[conf]
  BY PeriodicIds
<1>1. w.st[i] \in States /\ w.fs \in FlagStatuses
  BY <1>0 DEF IsWorld, FunctionType, OutputType
<1>2. d \in BOOLEAN
  BY DEF Toggles
<1>22. s \in States /\ s.decreased = d /\ s.active = w.st[i].active /\ s.period = w.st[i].period /\ s.saved = w.st[i].saved
  BY <1>1, <1>2 DEF States
<1>3. fs \in FlagStatuses
  BY <1>1, DecreaseChange, IncreaseChange DEF Toggles
<1>4. v = [w EXCEPT !.st[i].decreased = d, !.fs = fs]
  BY DEF IsWorld, OutputType, Fields
<1> HIDE DEF s
<1>5. /\ IsWorld(a) /\ SameButStates(w, a) /\ a.dpp = w.dpp
      /\ a.st[i] = s /\ \A j \in DOMAIN Items[conf] : j # i => a.st[j] = w.st[j]
  BY <1>0, <1>22, SetState
<1> HIDE DEF a
<1>6. Along(a, v) /\ v.fs = fs /\ v.bs = a.bs
  BY <1>3, <1>5, SetFlagsAlong
<1>7. v.prep = a.prep /\ v.lastUp = a.lastUp
  BY <1>5 DEF IsWorld, OutputType, Fields
<1> HIDE DEF v
<1>8. /\ IsWorld(v) /\ Others(v) = Others(w) /\ v.dpp = w.dpp /\ v.st = a.st /\ v.pressing = w.pressing
      /\ v.drop = w.drop /\ v.remapped = w.remapped /\ v.prep = w.prep /\ v.bs = w.bs
  BY <1>5, <1>6, <1>7 DEF Along, Aside, Others, SameButStates, SameStatus
<1>9. \A j \in DOMAIN Items[conf] : j # i => v.st[j] = w.st[j]
  BY <1>5, <1>8
<1>10. \A j \in Periodic : j # i => v.st[j] = w.st[j]
  BY <1>9, PeriodicIds
<1>11. v.st[i].decreased = d
  BY <1>22, <1>5, <1>8
<1>12. Toggles(w, i, v.st[i].decreased, v.fs)
  BY <1>6, <1>11
<1>13. SameExcess(w, v)
  BY <1>8, <1>10, <1>12, AwayExcess
<1>14. Shifts(w, v, i)
  BY <1>22, <1>5, <1>8, <1>9, <1>13 DEF Shifts, Works, SameMode, SameMains
<1>15. ShiftsTo(w, v, i, d)
  BY <1>11, <1>14 DEF ShiftsTo
<1> QED
  BY <1>4, <1>15

\* ... or neither.
LEMMA NoShift ==
    ASSUME NEW w, IsWorld(w), NEW i
    PROVE  Shifts(w, w, i)
BY WorksNowhere DEF Shifts

\* decreaseFromFlags: only once.
LEMMA DecreaseFromShifts ==
    ASSUME conf \in DOMAIN Configurations, NEW w, IsWorld(w), NEW i, i \in Periodic
    PROVE  Shifts(w, DecreaseFrom(w, i), i)
<1> DEFINE F == PureFlags(Items[conf][i])
           v == [w EXCEPT !.st[i].decreased = TRUE, !.fs = Decrease(w.fs, F)]
<1>1. w.st[i].decreased \in BOOLEAN /\ w.items = Items[conf]
  BY PeriodicIds DEF IsWorld, FunctionType, States
<1>2. DecreaseFrom(w, i) = IF w.st[i].decreased THEN w ELSE v
  BY <1>1 DEF DecreaseFrom, Item, IsWorld, OutputType, Fields
<1>3. ASSUME ~w.st[i].decreased
      PROVE  Shifts(w, v, i)
  <2>1. w.st[i].decreased = FALSE
    BY <1>1, <1>3
  <2> DEFINE fs == Decrease(w.fs, F)
             d == TRUE
  <2>2. Toggles(w, i, d, fs)
    BY <2>1 DEF Toggles
  <2> HIDE DEF fs, d
  <2>3. ShiftsTo(w, [w EXCEPT !.st[i].decreased = d, !.fs = fs], i, d)
    BY <2>2, ShiftsWorks
  <2> QED BY <2>3, Zenon DEF fs, d, ShiftsTo
<1>4. Shifts(w, w, i)
  BY NoShift
<1> QED
  BY <1>2, <1>3, <1>4

\* forceIncreaseFromFlags: afterwards they are not taken.
LEMMA ForceIncreaseFromShifts ==
    ASSUME conf \in DOMAIN Configurations, NEW w, IsWorld(w), NEW i, i \in Periodic
    PROVE  Shifts(w, ForceIncreaseFrom(w, i), i) /\ ForceIncreaseFrom(w, i).st[i].decreased = FALSE
<1> DEFINE F == PureFlags(Items[conf][i])
           v == [w EXCEPT !.st[i].decreased = FALSE, !.fs = Increase(w.fs, F)]
<1>1. w.st[i].decreased \in BOOLEAN /\ w.items = Items[conf]
  BY PeriodicIds DEF IsWorld, FunctionType, States
<1>2. ForceIncreaseFrom(w, i) = IF w.st[i].decreased THEN v ELSE w
  BY <1>1 DEF ForceIncreaseFrom, Item, IsWorld, OutputType, Fields
<1>3. ASSUME w.st[i].decreased
      PROVE  Shifts(w, v, i) /\ v.st[i].decreased = FALSE
  <2>1. w.st[i].decreased = TRUE
    BY <1>1, <1>3
  <2> DEFINE fs == Increase(w.fs, F)
             d == FALSE
  <2>2. Toggles(w, i, d, fs)
    BY <2>1 DEF Toggles
  <2> HIDE DEF fs, d
  <2>3. ShiftsTo(w, [w EXCEPT !.st[i].decreased = d, !.fs = fs], i, d)
    BY <2>2, ShiftsWorks
  <2> QED BY <2>3, Zenon DEF fs, d, ShiftsTo
<1>4. Shifts(w, w, i)
  BY NoShift
<1> QED
  BY <1>1, <1>2, <1>3, <1>4

\* increaseFromFlags, by the kind of the period.
LEMMA IncreaseFromShifts ==
    ASSUME conf \in DOMAIN Configurations, NEW w, IsWorld(w), NEW i, i \in Periodic, NEW p
    PROVE  Shifts(w, IncreaseFrom(w, i, p), i)
BY ForceIncreaseFromShifts, NoShift DEF IncreaseFrom

-----------------------------------------------------------------------------
(* The parts of a period *)

\* The KeyToKeys of an item of a period: one for each period, and the one
\* around it.
LEMMA PeriodicParts ==
    ASSUME conf \in DOMAIN Configurations, NEW i, i \in Periodic
    PROVE  DOMAIN Items[conf][i].parts = PeriodParts \cup {"BEFORE_AFTER"}
BY ItemsType DEF IsItem, PartsOf, Periodic

\* A ScopedSetter is entered.
LEMMA EnterWorld ==
    ASSUME NEW w, IsWorld(w), NEW s, s \in Scopes
    PROVE  IsWorld([w EXCEPT !.fs = EnterScope(w.fs, s)])
<1>1. w.fs \in FlagStatuses
  BY DEF IsWorld, OutputType
<1>2. EnterScope(w.fs, s) \in FlagStatuses
  <2>1. \A fs \in FlagStatuses : EnterScope(fs, s) \in FlagStatuses
    BY ScopeChange
  <2> QED BY <1>1, <2>1
<1> QED
  BY <1>2, SetFlagsAlong DEF Along

\* Output within a ScopedSetter.
LEMMA ScopedGoes ==
    ASSUME conf \in DOMAIN Configurations, NEW w, IsWorld(w), NEW s, s \in Scopes, NEW b,
           Goes([w EXCEPT !.fs = EnterScope(w.fs, s)], b)
    PROVE  Goes(w, [b EXCEPT !.fs = LeaveScope(b.fs, s)])
<1> DEFINE x == EnterScope(w.fs, s)
           y == LeaveScope(b.fs, s)
           a == [w EXCEPT !.fs = x]
           v == [b EXCEPT !.fs = y]
<1>1. IsWorld(b)
  BY DEF Goes
<1>2. w.fs \in FlagStatuses /\ b.fs \in FlagStatuses
  BY <1>1 DEF IsWorld, OutputType
<1>3. x \in FlagStatuses /\ y \in FlagStatuses
  <2>1. \A fs \in FlagStatuses : EnterScope(fs, s) \in FlagStatuses /\ LeaveScope(fs, s) \in FlagStatuses
    BY ScopeChange
  <2> QED BY <1>2, <2>1
<1>4. Goes(a, b) /\ x = EnterScope(w.fs, s) /\ y = LeaveScope(b.fs, s)
  OBVIOUS
<1> HIDE DEF x, y
<1>5. Along(w, a) /\ a.fs = x /\ a.bs = w.bs
  BY <1>3, SetFlagsAlong
<1>6. Along(b, v) /\ v.fs = y /\ v.bs = b.bs
  BY <1>1, <1>3, SetFlagsAlong
<1>7. Goes(w, v)
  <2> HIDE DEF a, v
  <2>1. IsWorld(a) /\ IsWorld(v) /\ a.pressing = w.pressing /\ a.st = w.st /\ v.pressing = b.pressing /\ v.st = b.st
    BY <1>5, <1>6 DEF Along, Aside
  <2>2. SameExcess(a, b)
    BY <1>4 DEF Goes
  <2>3. SameExcess(w, v)
    BY <1>1, <1>4, <1>5, <1>6, <2>1, <2>2, ScopedExcess
  <2>4. SameMains(w, v) /\ SameList(w, v)
    BY <1>4, <1>5, <1>6 DEF Goes, Along, SameMains, SameList
  <2>5. Aside(v) = Aside(w) /\ v.remapped = w.remapped
    BY <1>4, <1>5, <1>6 DEF Goes, Along
  <2> QED BY <2>1, <2>3, <2>4, <2>5 DEF Goes
<1> QED
  BY <1>7 DEF y

\* The flags of the ScopedSetter of a period.
LEMMA PartScopeType ==
    ASSUME conf \in DOMAIN Configurations, NEW w, IsWorld(w), NEW i, i \in Periodic
    PROVE  PartScope(w, i) \in Scopes
<1>1. IsWorld(DecreaseFrom(w, i))
  BY DecreaseFromShifts DEF Shifts, Works
<1>2. DecreaseFrom(w, i).fs \in FlagStatuses
  BY <1>1 DEF IsWorld, OutputType
<1>3. w.st[i].saved \in [Flags -> Int]
  BY PeriodicIds DEF IsWorld, FunctionType, States
<1> DEFINE x == w.st[i].saved
           y == DecreaseFrom(w, i).fs
<1> HIDE DEF x, y
<1>4. Scope(y, x) \in Scopes
  BY <1>2, <1>3, ScopeType DEF x, y
<1> QED
  BY <1>4 DEF PartScope, x, y

\* What happens between EnterPart and LeavePart is a step of the item.
LEMMA PartWorks ==
    ASSUME conf \in DOMAIN Configurations, NEW w, IsWorld(w), NEW i, i \in Periodic, NEW b, Goes(EnterPart(w, i), b), NEW p
    PROVE  Works(w, LeavePart(b, i, p, PartScope(w, i)), i) /\ SameMode(w, LeavePart(b, i, p, PartScope(w, i)), i)
<1> DEFINE s == PartScope(w, i)
           d == DecreaseFrom(w, i)
           c == [b EXCEPT !.fs = LeaveScope(b.fs, s)]
           v == IncreaseFrom(c, i, p)
<1>1. s \in Scopes
  BY PartScopeType
<1>2. Works(w, d, i) /\ SameMode(w, d, i)
  BY DecreaseFromShifts DEF Shifts
<1>3. EnterPart(w, i) = [d EXCEPT !.fs = EnterScope(d.fs, s)]
  BY DEF EnterPart
<1>4. LeavePart(b, i, p, s) = v
  BY DEF LeavePart
<1> HIDE DEF s, d
<1>5. IsWorld(d)
  BY <1>2 DEF Works
<1>6. Goes(d, c)
  <2>1. Goes([d EXCEPT !.fs = EnterScope(d.fs, s)], b)
    BY <1>3
  <2> QED BY <1>1, <1>5, <2>1, ScopedGoes
<1> HIDE DEF c
<1>7. Works(d, c, i) /\ SameMode(d, c, i)
  BY <1>6, GoesWorks
<1>8. IsWorld(c)
  BY <1>7 DEF Works
<1>9. Works(c, v, i) /\ SameMode(c, v, i)
  BY <1>8, IncreaseFromShifts DEF Shifts
<1> HIDE DEF v
<1>10. Works(w, v, i) /\ SameMode(w, v, i)
  BY <1>2, <1>7, <1>9, WorksTwice, SameModeTwice
<1> QED
  BY <1>4, <1>10 DEF s

\* The world that a period's keys are sent in.
LEMMA EnterPartWorld ==
    ASSUME conf \in DOMAIN Configurations, NEW w, IsWorld(w), NEW i, i \in Periodic
    PROVE  IsWorld(EnterPart(w, i))
<1> DEFINE s == PartScope(w, i)
           d == DecreaseFrom(w, i)
<1>1. s \in Scopes
  BY PartScopeType
<1>2. IsWorld(d)
  BY DecreaseFromShifts DEF Shifts, Works
<1>3. EnterPart(w, i) = [d EXCEPT !.fs = EnterScope(d.fs, s)]
  BY DEF EnterPart
<1> HIDE DEF s, d
<1> QED
  BY <1>1, <1>2, <1>3, EnterWorld

PartNames == {"SHORT", "LONG", "LONG_LONG", "ONLY", "BEFORE_AFTER"}

\* The events that a period sends.
LEMMA PartPseudoGoes ==
    ASSUME conf \in DOMAIN Configurations, NEW w, IsWorld(w), NEW i, i \in Periodic, NEW p, p \in PartNames, NEW type, NEW pt
    PROVE  Goes(w, Pseudo(w, i, p, type, pt)) /\ Goes(w, PseudoDownUp(w, i, p, pt))
<1>1. i \in DOMAIN Items[conf] /\ p \in DOMAIN Items[conf][i].parts /\ p \notin {"KTK", "FROM"}
  BY PeriodicIds, PeriodicParts DEF PartNames, PeriodParts
<1> QED
  BY <1>1, PseudoGoes, PseudoDownUpGoes

\* The keys of a period are pressed.
LEMMA PressPartWorks ==
    ASSUME conf \in DOMAIN Configurations, NEW w, IsWorld(w), NEW i, i \in Periodic, NEW p, p \in PartNames, NEW pt
    PROVE  Works(w, PressPart(w, i, p, pt), i) /\ SameMode(w, PressPart(w, i, p, pt), i)
<1> DEFINE a == EnterPart(w, i)
           b == Pseudo(a, i, p, "DOWN", pt)
<1>1. IsWorld(a)
  BY EnterPartWorld
<1>2. Goes(a, b)
  <2> HIDE DEF a
  <2> QED BY <1>1, PartPseudoGoes
<1>3. PressPart(w, i, p, pt) = LeavePart(b, i, p, PartScope(w, i))
  BY DEF PressPart
<1> HIDE DEF b
<1> QED
  BY <1>2, <1>3, PartWorks

\* ... and released.
LEMMA ReleasePartWorks ==
    ASSUME conf \in DOMAIN Configurations, NEW w, IsWorld(w), NEW i, i \in Periodic, NEW p, p \in PartNames, NEW pt
    PROVE  Works(w, ReleasePart(w, i, p, pt), i) /\ SameMode(w, ReleasePart(w, i, p, pt), i)
<1> DEFINE b == Pseudo(w, i, p, "UP", pt)
           v == IncreaseFrom(b, i, p)
<1>1. Goes(w, b)
  BY PartPseudoGoes
<1>2. ReleasePart(w, i, p, pt) = v
  BY DEF ReleasePart
<1> HIDE DEF b
<1>3. Works(w, b, i) /\ SameMode(w, b, i) /\ IsWorld(b)
  BY <1>1, GoesWorks DEF Goes
<1>4. Works(b, v, i) /\ SameMode(b, v, i)
  BY <1>3, IncreaseFromShifts DEF Shifts
<1> HIDE DEF v
<1> QED
  BY <1>2, <1>3, <1>4, WorksTwice, SameModeTwice

\* The short period: pressed, and its delayed action done at once if the event
\* demands it.
LEMMA PressShortWorks ==
    ASSUME conf \in DOMAIN Configurations, NEW w, IsWorld(w), NEW i, i \in Periodic, NEW e, NEW pt
    PROVE  Works(w, PressShort(w, i, e, pt), i) /\ SameMode(w, PressShort(w, i, e, pt), i)
<1> DEFINE a == EnterPart(w, i)
           id == <<i, "SHORT">>
           b == Pseudo(a, i, "SHORT", "DOWN", pt)
           c == PrepareKeyToKey(b, id, PartOf(id), e)
<1>1. IsWorld(a)
  BY EnterPartWorld
<1>2. Goes(a, b)
  <2>1. "SHORT" \in PartNames
    BY DEF PartNames
  <2> HIDE DEF a
  <2> QED BY <1>1, <2>1, PartPseudoGoes
<1>3. id \in PartIds
  BY PeriodicIds, PeriodicParts, IdsKinds DEF PeriodParts
<1>4. PressShort(w, i, e, pt) = LeavePart(c, i, "SHORT", PartScope(w, i))
  <2>1. IsWorld(b)
    BY <1>2 DEF Goes
  <2>2. Part(b, i, "SHORT") = PartOf(id)
    BY <2>1 DEF IsWorld, FunctionType, Part, Item, PartOf
  <2>3. PressShort(w, i, e, pt) =
           LeavePart(PrepareKeyToKey(b, <<i, "SHORT">>, Part(w, i, "SHORT"), e), i, "SHORT", PartScope(w, i))
    BY DEF PressShort
  <2>4. Part(w, i, "SHORT") = PartOf(id)
    BY DEF IsWorld, FunctionType, Part, Item, PartOf
  <2> QED BY <2>3, <2>4
<1> HIDE DEF a, b
<1>5. Goes(b, c)
  <2>1. IsWorld(b)
    BY <1>2 DEF Goes
  <2> HIDE DEF id
  <2> QED BY <2>1, <1>3, PrepareKeyToKeyGoes
<1> HIDE DEF c
<1>6. Goes(EnterPart(w, i), c)
  BY <1>2, <1>5, GoesTwice DEF a
<1> QED
  BY <1>4, <1>6, PartWorks

-----------------------------------------------------------------------------
(* The periods of an item *)

\* The state of the item is replaced, the modifiers it took are not.
LEMMA SetStateWorks ==
    ASSUME conf \in DOMAIN Configurations, NEW w, IsWorld(w), NEW i, i \in DOMAIN Items[conf],
           NEW s, s \in States, s.decreased = w.st[i].decreased
    PROVE  LET v == [w EXCEPT !.st[i] = s]
           IN  Works(w, v, i) /\ v.dpp = w.dpp /\ v.st[i] = s /\ v.prep = w.prep /\ v.pressing = w.pressing /\ v.drop = w.drop
<1> DEFINE v == [w EXCEPT !.st[i] = s]
<1>1. /\ IsWorld(v) /\ SameButStates(w, v) /\ v.dpp = w.dpp
      /\ v.st[i] = s /\ \A j \in DOMAIN Items[conf] : j # i => v.st[j] = w.st[j]
  BY SetState
<1> HIDE DEF v
<1>2. \A j \in Periodic : v.st[j].decreased = w.st[j].decreased
  <2>1. ASSUME NEW j \in Periodic
        PROVE  v.st[j].decreased = w.st[j].decreased
    <3>1. j = i \/ v.st[j] = w.st[j]
      BY <1>1, PeriodicIds
    <3> QED BY <1>1, <3>1
  <2> QED BY <2>1
<1>3. Works(w, v, i)
  BY <1>1, <1>2, StateWorks
<1>4. v.prep = w.prep /\ v.pressing = w.pressing /\ v.drop = w.drop
  BY <1>1 DEF SameButStates
<1> QED
  BY <1>1, <1>3, <1>4 DEF v

\* The timer is set, the items stay as they are.
LEMMA SetTimerWorks ==
    ASSUME conf \in DOMAIN Configurations, NEW w, IsWorld(w), NEW v, IsWorld(v), SameButStates(w, v), v.st = w.st, NEW i
    PROVE  Works(w, v, i) /\ v.prep = w.prep /\ v.pressing = w.pressing /\ v.drop = w.drop
<1>1. Works(w, v, i)
  BY StateWorks
<1> QED
  BY <1>1 DEF SameButStates

\* The state of an item has its type.
LEMMA StateTypes ==
    ASSUME conf \in DOMAIN Configurations, NEW w, IsWorld(w), NEW i, i \in DOMAIN Items[conf]
    PROVE  w.st[i] \in States
BY DEF IsWorld, FunctionType

\* What dokeydown does, but the short press.
Ends(w, v, i) ==
    /\ Works(w, v, i) /\ v.st[i].active = FALSE
    /\ Listed(v.prep, <<i, "ITEM">>) <=> Listed(w.prep, <<i, "ITEM">>)
    /\ v.dpp.target = w.dpp.target /\ (v.dpp.on => w.dpp.on /\ w.dpp.target # i)

\* DependingPressingPeriodKeyToKey::dokeydown: an item that waited waits no
\* more, and its timer is off; one that did not is left alone.
LEMMA DoKeyDownEnds ==
    ASSUME conf \in DOMAIN Configurations, NEW w, IsWorld(w), NEW i, i \in Periodic, NEW e, NEW pt
    PROVE  IF w.st[i].active THEN Ends(w, DoKeyDown(w, i, e, pt), i) ELSE DoKeyDown(w, i, e, pt) = w
<1> DEFINE s == [w.st[i] EXCEPT !.active = FALSE]
           on == w.dpp.on /\ w.dpp.target # i
           a == [w EXCEPT !.st[i] = s]
           b == [a EXCEPT !.dpp.on = on]
           t == [b.st[i] EXCEPT !.period = "SHORT"]
           c == [b EXCEPT !.st[i] = t]
           d == PressShort(c, i, e, pt)
<1>0. i \in DOMAIN Items[conf]
  BY PeriodicIds
<1>1. w.st[i] \in States
  BY <1>0, StateTypes
<1>2. DoKeyDown(w, i, e, pt) = IF ~w.st[i].active THEN w ELSE IF w.st[i].period # "NONE" THEN b ELSE d
  <2>1. b = [w EXCEPT !.st[i].active = FALSE, !.dpp.on = @ /\ w.dpp.target # i]
    BY DEF IsWorld, OutputType, Fields
  <2>2. c = [b EXCEPT !.st[i].period = "SHORT"]
    OBVIOUS
  <2> HIDE DEF b, c
  <2> QED BY <2>1, <2>2 DEF DoKeyDown
<1>3. s \in States /\ s.decreased = w.st[i].decreased /\ s.active = FALSE
  BY <1>1 DEF States
<1> HIDE DEF s
<1>4. Works(w, a, i) /\ a.dpp = w.dpp /\ a.st[i] = s /\ a.prep = w.prep
  BY <1>0, <1>3, SetStateWorks
<1> HIDE DEF a
<1>5. IsWorld(a)
  BY <1>4 DEF Works
<1>61. on => w.dpp.on /\ w.dpp.target # i
  BY DEF on
<1>6. on => a.dpp.target \in Periodic
  BY <1>4, <1>61 DEF IsWorld, FunctionType
<1> HIDE DEF on
<1>7. IsWorld(b) /\ SameButStates(a, b) /\ b.st = a.st /\ b.dpp.on = on /\ b.dpp.target = a.dpp.target
  BY <1>5, <1>6, SetTimerFields
<1> HIDE DEF b
<1>8. Works(a, b, i) /\ b.prep = a.prep
  BY <1>5, <1>7, SetTimerWorks
<1>9. Works(w, b, i)
  BY <1>4, <1>8, WorksTwice
<1>10. Ends(w, b, i)
  BY <1>9, <1>3, <1>4, <1>61, <1>7, <1>8 DEF Ends
<1>11. b.st[i] \in States
  BY <1>0, <1>7, StateTypes
<1>12. t \in States /\ t.decreased = b.st[i].decreased /\ t.active = b.st[i].active
  BY <1>11 DEF States
<1> HIDE DEF t
<1>13. Works(b, c, i) /\ c.dpp = b.dpp /\ c.st[i] = t /\ c.prep = b.prep
  BY <1>0, <1>7, <1>12, SetStateWorks
<1> HIDE DEF c
<1>14. Works(c, d, i) /\ SameMode(c, d, i)
  <2>1. IsWorld(c)
    BY <1>13 DEF Works
  <2> QED BY <2>1, PressShortWorks
<1> HIDE DEF d
<1>15. Works(w, d, i)
  BY <1>9, <1>13, <1>14, WorksTwice
<1>16. Ends(w, d, i)
  BY <1>10, <1>12, <1>13, <1>14, <1>15 DEF Ends, SameMode
<1> QED
  BY <1>2, <1>10, <1>16

\* The keys for a key that was pressed alone.
LEMMA PressOnlyWorks ==
    ASSUME conf \in DOMAIN Configurations, NEW w, IsWorld(w), NEW i, i \in Periodic, NEW p, NEW pt, NEW late
    PROVE  Works(w, PressOnly(w, i, p, pt, late), i) /\ SameMode(w, PressOnly(w, i, p, pt, late), i)
<1> DEFINE a == EnterPart(w, i)
           b == PseudoDownUp(a, i, "ONLY", pt)
           v == LeavePart(b, i, "ONLY", PartScope(w, i))
<1>1. IsWorld(a)
  BY EnterPartWorld
<1>2. Goes(a, b)
  <2>1. "ONLY" \in PartNames
    BY DEF PartNames
  <2> HIDE DEF a
  <2> QED BY <1>1, <2>1, PartPseudoGoes
<1>3. PressOnly(w, i, p, pt, late) = v \/ PressOnly(w, i, p, pt, late) = w
  BY DEF PressOnly
<1> HIDE DEF b
<1>4. Works(w, v, i) /\ SameMode(w, v, i)
  BY <1>2, PartWorks
<1>5. Works(w, w, i) /\ SameMode(w, w, i)
  BY WorksNowhere
<1> HIDE DEF v
<1> QED
  BY <1>3, <1>4, <1>5

\* DependingPressingPeriodKeyToKey::dokeyup: whatever period it was in, the
\* item is in none.
LEMMA DoKeyUpWorks ==
    ASSUME conf \in DOMAIN Configurations, NEW w, IsWorld(w), NEW i, i \in Periodic, NEW pt, NEW late
    PROVE  LET v == DoKeyUp(w, i, pt, late)
           IN  /\ Works(w, v, i) /\ v.st[i].period = "NONE" /\ v.st[i].active = w.st[i].active /\ v.dpp = w.dpp
               /\ Listed(v.prep, <<i, "ITEM">>) <=> Listed(w.prep, <<i, "ITEM">>)
<1> DEFINE p == w.st[i].period
           s == [w.st[i] EXCEPT !.period = "NONE"]
           a == [w EXCEPT !.st[i] = s]
           b == ReleasePart(a, i, p, pt)
           c == PressOnly(b, i, p, pt, late)
           d == IF p = "NONE" THEN w ELSE c
           t == [d.st[i] EXCEPT !.observed = FALSE]
           v == [d EXCEPT !.st[i] = t]
<1>0. i \in DOMAIN Items[conf]
  BY PeriodicIds
<1>1. w.st[i] \in States
  BY <1>0, StateTypes
<1>2. DoKeyUp(w, i, pt, late) = v
  BY DEF DoKeyUp
<1>3. s \in States /\ s.decreased = w.st[i].decreased /\ s.active = w.st[i].active /\ s.period = "NONE"
  BY <1>1 DEF States
<1> HIDE DEF s
<1>4. Works(w, a, i) /\ a.dpp = w.dpp /\ a.st[i] = s /\ a.prep = w.prep
  BY <1>0, <1>3, SetStateWorks
<1> HIDE DEF a
<1>5. p = "NONE" \/ p \in PartNames
  BY <1>1 DEF States, PartNames
<1> HIDE DEF p
<1>6. p # "NONE" => Works(a, b, i) /\ SameMode(a, b, i)
  <2>1. IsWorld(a)
    BY <1>4 DEF Works
  <2> QED BY <1>5, <2>1, ReleasePartWorks
<1> HIDE DEF b
<1>7. p # "NONE" => Works(b, c, i) /\ SameMode(b, c, i)
  <2>1. p # "NONE" => IsWorld(b)
    BY <1>6 DEF Works
  <2> QED BY <2>1, PressOnlyWorks
<1> HIDE DEF c
<1>8. Works(w, d, i) /\ d.st[i].period = "NONE" /\ d.st[i].active = w.st[i].active /\ d.dpp = w.dpp
      /\ (Listed(d.prep, <<i, "ITEM">>) <=> Listed(w.prep, <<i, "ITEM">>))
  <2>1. CASE p = "NONE"
    <3>1. Works(w, w, i)
      BY WorksNowhere
    <3>2. w.st[i].period = "NONE"
      BY <2>1 DEF p
    <3> QED BY <2>1, <3>1, <3>2
  <2>2. CASE p # "NONE"
    <3>1. d = c
      BY <2>2
    <3>2. Works(w, c, i)
      BY <1>4, <1>6, <1>7, <2>2, WorksTwice
    <3>3. c.st[i].period = "NONE" /\ c.st[i].active = w.st[i].active /\ c.dpp = w.dpp
          /\ (Listed(c.prep, <<i, "ITEM">>) <=> Listed(w.prep, <<i, "ITEM">>))
      BY <1>3, <1>4, <1>6, <1>7, <2>2 DEF SameMode
    <3> QED BY <3>1, <3>2, <3>3
  <2> QED BY <2>1, <2>2
<1> HIDE DEF d
<1>9. IsWorld(d)
  BY <1>8 DEF Works
<1>10. d.st[i] \in States
  BY <1>0, <1>9, StateTypes
<1>11. t \in States /\ t.decreased = d.st[i].decreased /\ t.active = d.st[i].active /\ t.period = d.st[i].period
  BY <1>10 DEF States
<1> HIDE DEF t
<1>12. Works(d, v, i) /\ v.dpp = d.dpp /\ v.st[i] = t /\ v.prep = d.prep
  BY <1>0, <1>9, <1>11, SetStateWorks
<1> HIDE DEF v
<1>13. Works(w, v, i)
  BY <1>8, <1>12, WorksTwice
<1> QED
  BY <1>2, <1>8, <1>11, <1>12, <1>13

-----------------------------------------------------------------------------
(* The timer of the periods *)

\* The period may change, the item stays pressed or not.
Ticks(w, v, i) ==
    /\ Works(w, v, i) /\ v.st[i].active = w.st[i].active /\ v.dpp.target = w.dpp.target
    /\ Listed(v.prep, <<i, "ITEM">>) <=> Listed(w.prep, <<i, "ITEM">>)

\* A step within a waiting item's timer, and another.
LEMMA TicksTwice ==
    ASSUME NEW u, NEW v, NEW w, NEW i, Ticks(u, v, i), Ticks(v, w, i)
    PROVE  Ticks(u, w, i)
BY WorksTwice DEF Ticks

\* A step that leaves the item waiting as it did.
LEMMA ModeTicks ==
    ASSUME NEW w, NEW v, NEW i, Works(w, v, i), SameMode(w, v, i)
    PROVE  Ticks(w, v, i)
BY DEF Ticks, SameMode

\* The timer does nothing.
LEMMA NoTick ==
    ASSUME NEW w, IsWorld(w), NEW i
    PROVE  Ticks(w, w, i)
BY WorksNowhere DEF Ticks

\* The repeat is cancelled, and the next one may be the item's.
LEMMA OwnRepeatKeeps ==
    ASSUME NEW w, OutputType(w), NEW mine
    PROVE  Keeps(w, [w EXCEPT !.rep = [on |-> FALSE, q |-> <<>>, mine |-> mine]])
<1> DEFINE v == [w EXCEPT !.rep = [on |-> FALSE, q |-> <<>>, mine |-> mine]]
<1>1. OutputType(v) /\ Behind(v) = Behind(w) /\ SameCounts(w, v) /\ v.rep.q = <<>>
  <2>1. \A q \in Seq(Entries) : LET u == [w EXCEPT !.rep = [on |-> FALSE, q |-> q, mine |-> mine]]
           IN  OutputType(u) /\ Behind(u) = Behind(w) /\ SameCounts(w, u) /\ u.rep.q = q
    BY SetRep
  <2> QED BY <2>1, EmptyPaired, Zenon
<1> HIDE DEF v
<1>2. Keeps(w, v)
  BY <1>1, EmptyPaired DEF Keeps, Acts, KeepsRepeatable, Repeatable
<1> QED
  BY <1>2 DEF v

\* A record in which one field is replaced.
LEMMA MineField ==
    ASSUME NEW r, r = [x \in {"on", "q", "mine"} |-> r[x]], NEW mine
    PROVE  [r EXCEPT !.mine = mine] = [on |-> r.on, q |-> r.q, mine |-> mine]
OBVIOUS

\* The timer is started again, for the long long period.
LEMMA WaitLongLongTicks ==
    ASSUME conf \in DOMAIN Configurations, NEW w, IsWorld(w), w.dpp.target \in Periodic, NEW i
    PROVE  Ticks(w, WaitLongLong(w, i), i)
<1> DEFINE mine == {<<i, "ITEM">>}
           r == [on |-> FALSE, q |-> <<>>, mine |-> mine]
           a == [w EXCEPT !.rep = r]
           v == [a EXCEPT !.dpp.on = TRUE]
<1>1. WaitLongLong(w, i) \in {v, w}
  <2>1. [CancelRepeat(w) EXCEPT !.rep.mine = mine, !.dpp.on = TRUE] = v
    <3>1. CancelRepeat(w) = [w EXCEPT !.rep = [on |-> FALSE, q |-> <<>>, mine |-> {}]]
      BY DEF CancelRepeat
    <3>2. [[w EXCEPT !.rep = [on |-> FALSE, q |-> <<>>, mine |-> {}]] EXCEPT !.rep.mine = mine] = a
      <4> DEFINE o == [on |-> FALSE, q |-> <<>>, mine |-> {}]
                 x == [w EXCEPT !.rep = o]
      <4>1. [o EXCEPT !.mine = mine] = r
        <5>1. o = [y \in {"on", "q", "mine"} |-> o[y]] /\ o.on = FALSE /\ o.q = <<>>
          OBVIOUS
        <5> HIDE DEF o
        <5> QED BY <5>1, MineField
      <4>2. x.rep = o
        BY DEF IsWorld, OutputType, Fields
      <4>3. [x EXCEPT !.rep = [x.rep EXCEPT !.mine = mine]] = [x EXCEPT !.rep = r]
        BY <4>1, <4>2
      <4>4. [x EXCEPT !.rep = r] = a
        <5> HIDE DEF o, r
        <5> QED OBVIOUS
      <4> QED BY <4>3, <4>4
    <3> QED BY <3>1, <3>2 DEF IsWorld, OutputType, Fields
  <2> HIDE DEF v
  <2> QED BY <2>1 DEF WaitLongLong
<1>2. Keeps(w, a)
  BY OwnRepeatKeeps DEF IsWorld
<1>3. Goes(w, a)
  BY <1>2, KeepsGoes
<1> HIDE DEF a, r
<1>4. Works(w, a, i) /\ SameMode(w, a, i) /\ IsWorld(a) /\ a.st = w.st
  BY <1>3, GoesWorks DEF Goes
<1>5. a.dpp.target \in Periodic
  BY <1>4 DEF SameMode
<1>6. IsWorld(v) /\ SameButStates(a, v) /\ v.st = a.st /\ v.dpp.target = a.dpp.target
  <2>1. \A b : (b => a.dpp.target \in Periodic) =>
           LET u == [a EXCEPT !.dpp.on = b]
           IN  IsWorld(u) /\ SameButStates(a, u) /\ u.st = a.st /\ u.dpp.on = b /\ u.dpp.target = a.dpp.target
    BY <1>4, SetTimerFields
  <2> QED BY <1>5, <2>1
<1> HIDE DEF v
<1>7. Works(a, v, i) /\ v.prep = a.prep
  BY <1>4, <1>6, SetTimerWorks
<1>8. Ticks(a, v, i)
  BY <1>6, <1>7 DEF Ticks
<1>9. Ticks(w, a, i)
  BY <1>4, ModeTicks
<1>10. Ticks(w, w, i)
  BY NoTick
<1> QED
  BY <1>1, <1>8, <1>9, <1>10, TicksTwice

\* The state changes but for what the item took and whether it waits.
LEMMA StateTicks ==
    ASSUME conf \in DOMAIN Configurations, NEW w, IsWorld(w), NEW i, i \in Periodic,
           NEW s, s \in States, s.decreased = w.st[i].decreased, s.active = w.st[i].active
    PROVE  Ticks(w, [w EXCEPT !.st[i] = s], i)
<1> DEFINE v == [w EXCEPT !.st[i] = s]
<1>1. Works(w, v, i) /\ v.dpp = w.dpp /\ v.st[i] = s /\ v.prep = w.prep
  <2>1. i \in DOMAIN Items[conf]
    BY PeriodicIds
  <2> QED BY <2>1, SetStateWorks
<1> HIDE DEF v
<1>2. Ticks(w, v, i)
  BY <1>1 DEF Ticks
<1> QED
  BY <1>2 DEF v

\* The item goes to another period.
LEMMA PeriodTicks ==
    ASSUME conf \in DOMAIN Configurations, NEW w, IsWorld(w), NEW i, i \in Periodic,
           NEW p, p \in {"NONE", "LONG", "LONG_LONG"}
    PROVE  Ticks(w, [w EXCEPT !.st[i].period = p], i)
<1> DEFINE s == [w.st[i] EXCEPT !.period = p]
<1>1. w.st[i] \in States
  BY PeriodicIds, StateTypes
<1>2. s \in States /\ s.decreased = w.st[i].decreased /\ s.active = w.st[i].active
  BY <1>1 DEF States
<1>3. [w EXCEPT !.st[i].period = p] = [w EXCEPT !.st[i] = s]
  OBVIOUS
<1> HIDE DEF s
<1> QED
  BY <1>2, <1>3, StateTicks

\* ... and the keys of that period are pressed.
LEMMA PressPartTicks ==
    ASSUME conf \in DOMAIN Configurations, NEW w, IsWorld(w), NEW i, i \in Periodic,
           NEW p, p \in {"LONG", "LONG_LONG"}, NEW pt
    PROVE  Ticks(w, PressPart([w EXCEPT !.st[i].period = p], i, p, pt), i)
<1> DEFINE a == [w EXCEPT !.st[i].period = p]
           b == PressPart(a, i, p, pt)
<1>1. Ticks(w, a, i)
  BY PeriodTicks
<1> HIDE DEF a
<1>2. IsWorld(a)
  BY <1>1 DEF Ticks, Works
<1>3. p \in PartNames
  BY DEF PartNames
<1>4. Ticks(a, b, i)
  BY <1>2, <1>3, PressPartWorks, ModeTicks
<1> HIDE DEF b
<1>5. Ticks(w, b, i)
  BY <1>1, <1>4, TicksTwice
<1> QED
  BY <1>5 DEF a, b

\* The timer fires for a key that is still pressed: the long period begins.
LEMMA BecomeLongTicks ==
    ASSUME conf \in DOMAIN Configurations, NEW w, IsWorld(w), NEW i, i \in Periodic, w.dpp.target = i, NEW pt
    PROVE  Ticks(w, BecomeLong(w, i, pt), i)
<1> DEFINE a == PressPart([w EXCEPT !.st[i].period = "LONG"], i, "LONG", pt)
           s == [a.st[i] EXCEPT !.observed = TRUE]
           t == [s EXCEPT !.any = FALSE]
           b == [a EXCEPT !.st[i] = t]
           v == WaitLongLong(b, i)
<1>1. Ticks(w, a, i)
  BY PressPartTicks
<1>2. BecomeLong(w, i, pt) = v
  <2>1. b = [a EXCEPT !.st[i].observed = TRUE, !.st[i].any = FALSE]
    <3>1. IsWorld(a)
      BY <1>1 DEF Ticks, Works
    <3>2. a.st \in [DOMAIN Items[conf] -> States] /\ i \in DOMAIN Items[conf] /\ a.st = a.st
      BY <3>1, PeriodicIds DEF IsWorld, FunctionType
    <3>3. OutputType(a)
      BY <3>1 DEF IsWorld
    <3> HIDE DEF a
    <3>4. [[a.st EXCEPT ![i].observed = TRUE] EXCEPT ![i].any = FALSE] = [a.st EXCEPT ![i] = t]
      BY <3>2
    <3> QED BY <3>3, <3>4 DEF OutputType, Fields
  <2> HIDE DEF a, b
  <2> QED BY <2>1 DEF BecomeLong, a
<1> HIDE DEF a
<1>3. IsWorld(a)
  BY <1>1 DEF Ticks, Works
<1>4. a.st[i] \in States
  BY <1>3, PeriodicIds, StateTypes
<1>5. s \in States /\ s.decreased = a.st[i].decreased /\ s.active = a.st[i].active
  BY <1>4 DEF States
<1> HIDE DEF s
<1>6. t \in States /\ t.decreased = a.st[i].decreased /\ t.active = a.st[i].active
  BY <1>5 DEF States
<1> HIDE DEF t
<1>7. Ticks(a, b, i)
  BY <1>3, <1>6, StateTicks
<1> HIDE DEF b
<1>8. Ticks(w, b, i)
  BY <1>1, <1>7, TicksTwice
<1>9. IsWorld(b) /\ b.dpp.target = i
  BY <1>8 DEF Ticks, Works
<1>10. Ticks(b, v, i)
  BY <1>9, WaitLongLongTicks
<1> HIDE DEF v
<1> QED
  BY <1>2, <1>8, <1>10, TicksTwice

\* ... and the long long one.
LEMMA BecomeLongLongTicks ==
    ASSUME conf \in DOMAIN Configurations, NEW w, IsWorld(w), NEW i, i \in Periodic, NEW pt
    PROVE  Ticks(w, BecomeLongLong(w, i, pt), i)
<1> DEFINE a == ReleasePart(w, i, "LONG", pt)
           b == [a EXCEPT !.st[i].period = "NONE"]
           c == PressPart([a EXCEPT !.st[i].period = "LONG_LONG"], i, "LONG_LONG", pt)
<1>1. Ticks(w, a, i)
  <2>1. "LONG" \in PartNames
    BY DEF PartNames
  <2> QED BY <2>1, ReleasePartWorks, ModeTicks
<1>2. BecomeLongLong(w, i, pt) = b \/ BecomeLongLong(w, i, pt) = c
  BY DEF BecomeLongLong, PressLongLong
<1> HIDE DEF a
<1>3. IsWorld(a)
  BY <1>1 DEF Ticks, Works
<1>4. Ticks(a, b, i)
  BY <1>3, PeriodTicks
<1>5. Ticks(a, c, i)
  BY <1>3, PressPartTicks
<1> HIDE DEF b, c
<1> QED
  BY <1>1, <1>2, <1>4, <1>5, TicksTwice

\* DependingPressingPeriodKeyToKey::fire_timer_callback, in every period of
\* its target: no one else's state changes.
LEMMA FireTimerTicks ==
    ASSUME conf \in DOMAIN Configurations, NEW w, IsWorld(w)
    PROVE  IF w.dpp.target = 0 THEN FireTimer(w) = w
           ELSE w.dpp.target \in Periodic /\ Ticks(w, FireTimer(w), w.dpp.target)
<1> DEFINE i == w.dpp.target
           pt == IF w.st[i].up THEN "UP" ELSE "DOWN"
<1>1. CASE i = 0
  BY <1>1 DEF FireTimer
<1>2. CASE i # 0
  <2>1. i \in Periodic
    BY <1>2 DEF IsWorld, FunctionType
  <2>2. w.st[i].period \in {"NONE", "SHORT", "LONG", "LONG_LONG"}
    BY <2>1, PeriodicIds, StateTypes DEF States
  <2>3. Ticks(w, BecomeLong(w, i, pt), i) /\ Ticks(w, BecomeLongLong(w, i, pt), i) /\ Ticks(w, w, i)
    <3> HIDE DEF pt
    <3>1. Ticks(w, BecomeLongLong(w, i, pt), i) /\ Ticks(w, w, i)
      BY <2>1, BecomeLongLongTicks, NoTick
    <3>2. Ticks(w, BecomeLong(w, i, pt), i)
      BY <2>1, BecomeLongTicks
    <3> QED BY <3>1, <3>2
  <2>4. FireTimer(w) = CASE w.st[i].period = "NONE" -> BecomeLong(w, i, pt)
                         [] w.st[i].period = "LONG" -> BecomeLongLong(w, i, pt)
                         [] w.st[i].period \in {"SHORT", "LONG_LONG"} -> w
    BY <1>2 DEF FireTimer
  <2>5. FireTimer(w) \in {BecomeLong(w, i, pt), BecomeLongLong(w, i, pt), w}
    <3> HIDE DEF i, pt
    <3> QED BY <2>2, <2>4
  <2>6. Ticks(w, FireTimer(w), i)
    <3> HIDE DEF pt, i
    <3> QED BY <2>3, <2>5
  <2> QED BY <1>2, <2>1, <2>6
<1> QED
  BY <1>1, <1>2

-----------------------------------------------------------------------------
(* The key of an item is pressed or released *)

\* One world leads to another by a press or a release of the item i, whose
\* key has the id id.
Turns(w, v, i, id, down) ==
    /\ IsWorld(v) /\ SameExcess(w, v) /\ Others(v) = Others(w)
    /\ v.pressing[id] = w.pressing[id] + IF down THEN 1 ELSE -1
    /\ \A x \in Ids(conf) : x[2] \in {"ITEM", "KTK", "FROM"} /\ x # id => v.pressing[x] = w.pressing[x]
    /\ \A j \in DOMAIN Items[conf] : j # i => v.st[j] = w.st[j]
    /\ \A x : x[2] = "ITEM" /\ x # <<i, "ITEM">> => (Listed(v.prep, x) <=> Listed(w.prep, x))

\* A key is turned, and then the item works.
LEMMA TurnsThenWorks ==
    ASSUME NEW u, NEW v, NEW w, NEW i, NEW id, id \in Ids(conf), id[2] \in {"ITEM", "KTK", "FROM"}, NEW down,
           Turns(u, v, i, id, down), Works(v, w, i)
    PROVE  Turns(u, w, i, id, down) /\ w.remapped = v.remapped
<1>1. SameExcess(u, w)
  BY SameExcessTwice DEF Turns, Works
<1>2. \A x \in Ids(conf) : x[2] \in {"ITEM", "KTK", "FROM"} => w.pressing[x] = v.pressing[x]
  BY DEF Works, SameMains
<1>3. w.pressing[id] = u.pressing[id] + IF down THEN 1 ELSE -1
  BY <1>2 DEF Turns
<1>4. \A x \in Ids(conf) : x[2] \in {"ITEM", "KTK", "FROM"} /\ x # id => w.pressing[x] = u.pressing[x]
  BY <1>2 DEF Turns
<1> QED
  BY <1>1, <1>3, <1>4 DEF Turns, Works

\* The count of the key's flag or button, by one.
LEMMA TakeKeyCounts ==
    ASSUME NEW w, IsWorld(w), NEW code, code \in Codes
    PROVE  /\ Acts(w, TakeKey(w, code))
           /\ \A f \in Countable : /\ TakeKey(w, code).fs[f].count_ = w.fs[f].count_ - Bit(f \in FlagOf(code))
                                   /\ TakeKey(w, code).fs[f].lazy_count_ = w.fs[f].lazy_count_
           /\ \A b \in Buttons : TakeKey(w, code).bs[b] = w.bs[b] - Bit(b \in ButtonOf(code))
           /\ Acts(w, GiveBackKey(w, code))
           /\ \A f \in Countable : /\ GiveBackKey(w, code).fs[f].count_ = w.fs[f].count_ + Bit(f \in FlagOf(code))
                                   /\ GiveBackKey(w, code).fs[f].lazy_count_ = w.fs[f].lazy_count_
           /\ \A b \in Buttons : GiveBackKey(w, code).bs[b] = w.bs[b] + Bit(b \in ButtonOf(code))
<1> DEFINE F == FlagOf(code)
           B == ButtonOf(code)
           fs == Decrease(w.fs, F)
           gs == Increase(w.fs, F)
           bs == DecreaseButtons(w.bs, B)
           cs == IncreaseButtons(w.bs, B)
<1>0. w.fs \in FlagStatuses /\ w.bs \in [Buttons -> Int] /\ OutputType(w)
  BY DEF IsWorld, OutputType
<1>1. TakeKey(w, code) = [w EXCEPT !.fs = fs, !.bs = bs] /\ GiveBackKey(w, code) = [w EXCEPT !.fs = gs, !.bs = cs]
  BY <1>0 DEF TakeKey, GiveBackKey, OutputType, Fields
<1>2. /\ fs \in FlagStatuses
      /\ \A f \in Countable : fs[f].count_ = w.fs[f].count_ - Bit(f \in F) /\ fs[f].lazy_count_ = w.fs[f].lazy_count_
  BY <1>0, DecreaseChange
<1>3. /\ gs \in FlagStatuses
      /\ \A f \in Countable : gs[f].count_ = w.fs[f].count_ + Bit(f \in F) /\ gs[f].lazy_count_ = w.fs[f].lazy_count_
  BY <1>0, IncreaseChange
<1>4. /\ bs \in [Buttons -> Int] /\ cs \in [Buttons -> Int]
      /\ \A b \in Buttons : bs[b] = w.bs[b] - Bit(b \in B) /\ cs[b] = w.bs[b] + Bit(b \in B)
  BY <1>0, ButtonsChange
<1> HIDE DEF F, B, fs, gs, bs, cs
<1>5. \A xs \in FlagStatuses, ys \in [Buttons -> Int] :
         LET v == [w EXCEPT !.fs = xs, !.bs = ys] IN Acts(w, v) /\ v.fs = xs /\ v.bs = ys
  BY <1>0, SetStatus DEF OutputType, Fields
<1>6. Acts(w, TakeKey(w, code)) /\ TakeKey(w, code).fs = fs /\ TakeKey(w, code).bs = bs
  <2>1. /\ Acts(w, [w EXCEPT !.fs = fs, !.bs = bs])
        /\ [w EXCEPT !.fs = fs, !.bs = bs].fs = fs /\ [w EXCEPT !.fs = fs, !.bs = bs].bs = bs
    BY <1>2, <1>4, <1>5, Zenon
  <2> QED BY <2>1, <1>1, Zenon
<1>7. Acts(w, GiveBackKey(w, code)) /\ GiveBackKey(w, code).fs = gs /\ GiveBackKey(w, code).bs = cs
  <2>1. /\ Acts(w, [w EXCEPT !.fs = gs, !.bs = cs])
        /\ [w EXCEPT !.fs = gs, !.bs = cs].fs = gs /\ [w EXCEPT !.fs = gs, !.bs = cs].bs = cs
    BY <1>3, <1>4, <1>5, Zenon
  <2> QED BY <2>1, <1>1, Zenon
<1> QED
  BY <1>2, <1>3, <1>4, <1>6, <1>7 DEF F, B

\* The press of the item counts for what it takes.
TakesKey(w, v, i, n) ==
    /\ \A f \in Countable : /\ v.fs[f].count_ = w.fs[f].count_ - n * TakenBy(i, f)
                            /\ v.fs[f].lazy_count_ = w.fs[f].lazy_count_
    /\ \A b \in Buttons : v.bs[b] = w.bs[b] - n * Bit(Items[conf][i].from = Code("button", b))
    /\ v.pressing[<<i, "ITEM">>] = w.pressing[<<i, "ITEM">>] + n

\* An item that is pressed once more withholds its key once more: the same is
\* left.
LEMMA TakesKeyExcess ==
    ASSUME conf \in DOMAIN Configurations, NEW w, OutputType(w), w.pressing \in [Ids(conf) -> Nat],
           NEW v, OutputType(v), v.pressing \in [Ids(conf) -> Nat], NEW i, i \in Periodic, NEW n, n \in Int,
           \A x \in Ids(conf) : x # <<i, "ITEM">> => v.pressing[x] = w.pressing[x],
           \A j \in Periodic : v.st[j].decreased = w.st[j].decreased,
           TakesKey(w, v, i, n)
    PROVE  SameExcess(w, v)
<1>0. \A c, p, k, t, a \in Int : (c - k * t) + ((p + k) * t + a) = c + (p * t + a)
  OBVIOUS
<1>00. \A c, p, k, t \in Int : (c - k * t) + (p + k) * t = c + p * t
  OBVIOUS
<1> DEFINE p == w.pressing[<<i, "ITEM">>]
<1>1. p \in Int /\ v.pressing[<<i, "ITEM">>] = p + n
  BY PeriodicIds DEF TakesKey
<1>2. \A x : Bit(x) \in Int
  BY DEF Bit
<1> HIDE DEF p
<1>3. ASSUME NEW f \in Countable
      PROVE  /\ v.fs[f].count_ + WithheldBy(v, i, f) = w.fs[f].count_ + WithheldBy(w, i, f)
             /\ v.fs[f].lazy_count_ = w.fs[f].lazy_count_
  <2> DEFINE c == w.fs[f].count_
             t == TakenBy(i, f)
             a == AwayFlag(w.st, i, f)
  <2>1. c \in Int
    BY DEF OutputType, FlagStatuses, FlagItems, Countable
  <2>2. t \in Int /\ a \in Int
    BY <1>2, Zenon DEF TakenBy, AwayFlag
  <2>3. AwayFlag(v.st, i, f) = a
    BY DEF AwayFlag
  <2>4. WithheldBy(v, i, f) = (p + n) * t + a /\ WithheldBy(w, i, f) = p * t + a
    BY <1>1, <2>3 DEF WithheldBy, p
  <2>5. v.fs[f].count_ = c - n * t /\ v.fs[f].lazy_count_ = w.fs[f].lazy_count_
    BY DEF TakesKey
  <2>6. w.fs[f].count_ = c
    OBVIOUS
  <2> HIDE DEF c, t, a
  <2>7. (c - n * t) + ((p + n) * t + a) = c + (p * t + a)
    BY <1>0, <1>1, <2>1, <2>2
  <2> QED BY <2>4, <2>5, <2>6, <2>7
<1>4. ASSUME NEW b \in Buttons
      PROVE  v.bs[b] + ButtonWithheldBy(v, i, b) = w.bs[b] + ButtonWithheldBy(w, i, b)
  <2> DEFINE c == w.bs[b]
             t == Bit(Items[conf][i].from = Code("button", b))
  <2>1. c \in Int /\ t \in Int
    BY <1>2 DEF OutputType
  <2>2. ButtonWithheldBy(v, i, b) = (p + n) * t /\ ButtonWithheldBy(w, i, b) = p * t
    BY <1>1 DEF ButtonWithheldBy, p
  <2>3. v.bs[b] = c - n * t /\ w.bs[b] = c
    BY DEF TakesKey
  <2> HIDE DEF c, t
  <2>4. (c - n * t) + (p + n) * t = c + p * t
    BY <1>00, <1>1, <2>1
  <2> QED BY <2>2, <2>3, <2>4
<1>5. \A j \in Periodic : j # i => v.st[j].decreased = w.st[j].decreased
  OBVIOUS
<1> QED
  BY <1>3, <1>4, <1>5, ItemExcess

-----------------------------------------------------------------------------
(* An item takes its key *)

\* The item takes an event; what it took of the modifiers stays as it is.
Pressing(w, i, e, up) == [ChangePressingState(w, <<i, "ITEM">>, e) EXCEPT !.remapped = TRUE, !.st[i].up = up]

SameState(w, v, i) ==
    /\ v.st[i].active = w.st[i].active /\ v.st[i].period = w.st[i].period /\ v.dpp = w.dpp /\ v.prep = w.prep

PressedFrom(w, v, i, e) ==
    /\ IsWorld(v) /\ SameStatus(w, v) /\ Others(v) = Others(w) /\ v.remapped = TRUE /\ SameState(w, v, i)
    /\ v.pressing[<<i, "ITEM">>] = w.pressing[<<i, "ITEM">>] + IF e.type = "DOWN" THEN 1 ELSE -1
    /\ \A x \in Ids(conf) : x # <<i, "ITEM">> => v.pressing[x] = w.pressing[x]
    /\ \A j \in DOMAIN Items[conf] : /\ j # i => v.st[j] = w.st[j]
                                     /\ v.st[j].decreased = w.st[j].decreased

\* changePressingState of an item of a period.
LEMMA PressingTypes ==
    ASSUME conf \in DOMAIN Configurations, NEW w, IsWorld(w), NEW i, i \in Periodic,
           NEW e, e.type = "DOWN" \/ w.pressing[<<i, "ITEM">>] > 0, NEW up, up \in BOOLEAN
    PROVE  PressedFrom(w, Pressing(w, i, e, up), i, e)
<1> DEFINE id == <<i, "ITEM">>
           p == ChangePressingState(w, id, e)
           q == [p EXCEPT !.remapped = TRUE]
           s == [q.st[i] EXCEPT !.up = up]
           v == [q EXCEPT !.st[i] = s]
<1>0. i \in DOMAIN Items[conf] /\ id \in Ids(conf)
  BY PeriodicIds
<1>1. /\ IsWorld(p) /\ SameStatus(w, p) /\ Aside(p) = Aside(w) /\ p.prep = w.prep
      /\ p.pressing[id] = w.pressing[id] + IF e.type = "DOWN" THEN 1 ELSE -1
      /\ \A x \in Ids(conf) : x # id => p.pressing[x] = w.pressing[x]
  <2>1. e.type = "DOWN" \/ w.pressing[id] > 0
    OBVIOUS
  <2> HIDE DEF id
  <2> QED BY <1>0, <2>1, PressChange
<1>2. Pressing(w, i, e, up) = v
  <2>1. OutputType(p)
    BY <1>1 DEF IsWorld
  <2>2. Pressing(w, i, e, up) = [p EXCEPT !.remapped = TRUE, !.st[i].up = up]
    BY DEF Pressing
  <2> HIDE DEF p
  <2> QED BY <2>1, <2>2 DEF OutputType, Fields
<1> HIDE DEF p
<1>3. IsWorld(q) /\ SameStatus(p, q) /\ Aside(q) = Aside(p) /\ q.pressing = p.pressing /\ q.prep = p.prep /\ q.remapped = TRUE
  BY <1>1, SetRemapped, Zenon
<1> HIDE DEF q
<1>4. q.st[i] \in States
  BY <1>0, <1>3, StateTypes
<1>5. s \in States /\ s.decreased = q.st[i].decreased /\ s.active = q.st[i].active /\ s.period = q.st[i].period
  BY <1>4 DEF States
<1> HIDE DEF s
<1>6. /\ IsWorld(v) /\ SameButStates(q, v) /\ v.dpp = q.dpp
      /\ v.st[i] = s /\ \A j \in DOMAIN Items[conf] : j # i => v.st[j] = q.st[j]
  BY <1>0, <1>3, <1>5, SetState
<1> HIDE DEF v
<1>7. q.st = w.st /\ q.dpp = w.dpp /\ Others(q) = Others(w)
  BY <1>1, <1>3 DEF Aside, Others
<1>8. SameStatus(w, v)
  BY <1>1, <1>3, <1>6 DEF SameButStates, SameStatus
<1>9. Others(v) = Others(w) /\ v.remapped = TRUE /\ v.pressing = p.pressing /\ v.prep = w.prep
  BY <1>1, <1>3, <1>6, <1>7 DEF SameButStates
<1>10. SameState(w, v, i)
  BY <1>5, <1>6, <1>7, <1>9 DEF SameState
<1>11. \A j \in DOMAIN Items[conf] : j # i => v.st[j] = w.st[j]
  BY <1>6, <1>7
<1>12. v.st[i].decreased = w.st[i].decreased
  BY <1>5, <1>6, <1>7
<1>13. \A j \in DOMAIN Items[conf] : v.st[j].decreased = w.st[j].decreased
  BY <1>11, <1>12
<1> QED
  BY <1>1, <1>2, <1>6, <1>8, <1>9, <1>10, <1>11, <1>13 DEF id, PressedFrom

\* The key that is pressed is taken, the one that is released given back.
LEMMA KeyTurns ==
    ASSUME conf \in DOMAIN Configurations, NEW w, IsWorld(w), NEW i, i \in Periodic,
           NEW e, e.type = "DOWN" \/ w.pressing[<<i, "ITEM">>] > 0, NEW up, up \in BOOLEAN
    PROVE  LET a == Pressing(w, i, e, up)
               v == IF e.type = "DOWN" THEN TakeKey(a, Items[conf][i].from) ELSE GiveBackKey(a, Items[conf][i].from)
           IN  Turns(w, v, i, <<i, "ITEM">>, e.type = "DOWN") /\ v.remapped = TRUE /\ SameState(w, v, i)
<1> DEFINE id == <<i, "ITEM">>
           code == Items[conf][i].from
           down == e.type = "DOWN"
           n == IF down THEN 1 ELSE -1
           a == Pressing(w, i, e, up)
           t == TakeKey(a, code)
           g == GiveBackKey(a, code)
           v == IF down THEN t ELSE g
<1>0. i \in DOMAIN Items[conf] /\ id \in Ids(conf)
  BY PeriodicIds
<1>1. /\ IsWorld(a) /\ SameStatus(w, a) /\ Others(a) = Others(w) /\ a.remapped = TRUE /\ SameState(w, a, i)
      /\ a.pressing[id] = w.pressing[id] + n
      /\ \A x \in Ids(conf) : x # id => a.pressing[x] = w.pressing[x]
      /\ \A j \in DOMAIN Items[conf] : (j # i => a.st[j] = w.st[j]) /\ a.st[j].decreased = w.st[j].decreased
  <2>1. PressedFrom(w, a, i, e)
    BY PressingTypes
  <2> HIDE DEF a
  <2> QED BY <2>1 DEF PressedFrom
<1> HIDE DEF a
<1>2. code \in Codes
  BY <1>0, ItemsType DEF IsItem, Codes
<1>3. /\ Acts(a, t) /\ Acts(a, g)
      /\ \A f \in Countable :
            /\ t.fs[f].count_ = a.fs[f].count_ - Bit(f \in FlagOf(code)) /\ t.fs[f].lazy_count_ = a.fs[f].lazy_count_
            /\ g.fs[f].count_ = a.fs[f].count_ + Bit(f \in FlagOf(code)) /\ g.fs[f].lazy_count_ = a.fs[f].lazy_count_
      /\ \A b \in Buttons : /\ t.bs[b] = a.bs[b] - Bit(b \in ButtonOf(code))
                            /\ g.bs[b] = a.bs[b] + Bit(b \in ButtonOf(code))
  <2> HIDE DEF code, t, g
  <2> QED BY <1>1, <1>2, TakeKeyCounts DEF t, g
<1>4. /\ \A f : Bit(f \in FlagOf(code)) = TakenBy(i, f)
      /\ \A b : Bit(b \in ButtonOf(code)) = Bit(Items[conf][i].from = Code("button", b))
  <2>1. \A f : f \in FlagOf(code) <=> code = Code("mod", f)
    BY <1>2, FlagOfCode
  <2>2. \A b : b \in ButtonOf(code) <=> code = Code("button", b)
    BY <1>2, ButtonOfCode
  <2> QED BY <2>1, <2>2 DEF TakenBy, Bit
<1> HIDE DEF code, t, g
<1>5. Acts(a, v)
  BY <1>3
<1>6. Along(a, v)
  BY <1>1, <1>5, ActsAlong
<1>7. ASSUME NEW f \in Countable
      PROVE  v.fs[f].count_ = w.fs[f].count_ - n * TakenBy(i, f) /\ v.fs[f].lazy_count_ = w.fs[f].lazy_count_
  <2> DEFINE x == TakenBy(i, f)
  <2>1. x \in Int
    BY DEF TakenBy, Bit
  <2>2. a.fs = w.fs /\ w.fs[f].count_ \in Int
    BY <1>1 DEF SameStatus, IsWorld, OutputType, FlagStatuses, FlagItems, Countable
  <2>3. /\ t.fs[f].count_ = a.fs[f].count_ - x /\ t.fs[f].lazy_count_ = a.fs[f].lazy_count_
        /\ g.fs[f].count_ = a.fs[f].count_ + x /\ g.fs[f].lazy_count_ = a.fs[f].lazy_count_
    BY <1>3, <1>4
  <2> HIDE DEF x
  <2> QED BY <2>1, <2>2, <2>3 DEF x
<1>8. ASSUME NEW b \in Buttons
      PROVE  v.bs[b] = w.bs[b] - n * Bit(Items[conf][i].from = Code("button", b))
  <2> DEFINE x == Bit(Items[conf][i].from = Code("button", b))
  <2>1. x \in Int
    BY DEF Bit
  <2>2. a.bs = w.bs /\ w.bs[b] \in Int
    BY <1>1 DEF SameStatus, IsWorld, OutputType
  <2>3. t.bs[b] = a.bs[b] - x /\ g.bs[b] = a.bs[b] + x
    BY <1>3, <1>4
  <2> HIDE DEF x
  <2> QED BY <2>1, <2>2, <2>3 DEF x
<1> HIDE DEF v
<1>9. IsWorld(v) /\ v.pressing = a.pressing /\ v.st = a.st /\ v.dpp = a.dpp /\ v.remapped = TRUE /\ Others(v) = Others(w)
  BY <1>1, <1>6 DEF Along, Aside, Others
<1>10. v.prep = a.prep
  BY <1>5 DEF Acts, Behind
<1>11. SameState(w, v, i)
  BY <1>1, <1>9, <1>10 DEF SameState
<1>12. SameExcess(w, v)
  <2>1. TakesKey(w, v, i, n)
    BY <1>1, <1>7, <1>8, <1>9 DEF TakesKey, id
  <2>2. \A j \in Periodic : v.st[j].decreased = w.st[j].decreased
    BY <1>1, <1>9, PeriodicIds
  <2>3. \A x \in Ids(conf) : x # id => v.pressing[x] = w.pressing[x]
    BY <1>1, <1>9
  <2>4. OutputType(w) /\ w.pressing \in [Ids(conf) -> Nat] /\ OutputType(v) /\ v.pressing \in [Ids(conf) -> Nat]
    BY <1>9 DEF IsWorld, FunctionType
  <2>5. n \in Int
    OBVIOUS
  <2> HIDE DEF n
  <2> QED BY <2>1, <2>2, <2>3, <2>4, <2>5, TakesKeyExcess DEF id
<1>13. Turns(w, v, i, id, down)
  BY <1>1, <1>9, <1>10, <1>11, <1>12 DEF Turns, SameState
<1> QED
  BY <1>9, <1>11, <1>13 DEF a, t, g, v, code

-----------------------------------------------------------------------------
(* An item of a period is pressed *)

\* The item is the timer's target and waits.
LEMMA StartWorks ==
    ASSUME conf \in DOMAIN Configurations, NEW w, IsWorld(w), NEW i, i \in Periodic
    PROVE  LET v == [w EXCEPT !.dpp.target = i, !.st[i].active = TRUE, !.st[i].period = "NONE"]
           IN  Works(w, v, i) /\ v.st[i].active = TRUE /\ v.dpp.target = i
<1> DEFINE a == [w EXCEPT !.dpp.target = i]
           r == [a.st[i] EXCEPT !.active = TRUE]
           s == [r EXCEPT !.period = "NONE"]
           v == [a EXCEPT !.st[i] = s]
<1>0. i \in DOMAIN Items[conf]
  BY PeriodicIds
<1>1. IsWorld(a) /\ SameButStates(w, a) /\ a.st = w.st /\ a.dpp.target = i
  <2>1. \A j \in Periodic : LET u == [w EXCEPT !.dpp.target = j]
           IN  IsWorld(u) /\ SameButStates(w, u) /\ u.st = w.st /\ u.dpp.on = w.dpp.on /\ u.dpp.target = j
    BY SetTimerFields
  <2> QED BY <2>1
<1>2. v = [w EXCEPT !.dpp.target = i, !.st[i].active = TRUE, !.st[i].period = "NONE"]
  <2>1. w.st \in [DOMAIN Items[conf] -> States] /\ OutputType(w)
    BY DEF IsWorld, FunctionType
  <2>2. a.st = w.st
    BY <1>1
  <2>3. [[w.st EXCEPT ![i].active = TRUE] EXCEPT ![i].period = "NONE"] = [w.st EXCEPT ![i] = s]
    <3> HIDE DEF a
    <3> QED BY <2>1, <2>2, <1>0
  <2>4. v = [a EXCEPT !.st = [w.st EXCEPT ![i] = s]]
    <3> HIDE DEF s
    <3> QED BY <2>1, <2>2 DEF OutputType, Fields
  <2> HIDE DEF s, v
  <2> QED BY <2>1, <2>3, <2>4 DEF OutputType, Fields
<1> HIDE DEF a
<1>3. Works(w, a, i)
  BY <1>1, SetTimerWorks
<1>4. a.st[i] \in States
  BY <1>0, <1>1, StateTypes
<1>5. r \in States /\ r.decreased = a.st[i].decreased /\ r.active = TRUE
  BY <1>4 DEF States
<1> HIDE DEF r
<1>6. s \in States /\ s.decreased = a.st[i].decreased /\ s.active = TRUE
  BY <1>5 DEF States
<1> HIDE DEF s
<1>7. Works(a, v, i) /\ v.dpp = a.dpp /\ v.st[i] = s
  BY <1>0, <1>1, <1>6, SetStateWorks
<1> HIDE DEF v
<1>8. Works(w, v, i) /\ v.st[i].active = TRUE /\ v.dpp.target = i
  BY <1>1, <1>3, <1>6, <1>7, WorksTwice
<1> QED
  BY <1>2, <1>8

\* The modifiers are saved.
LEMMA SaveFlagsTicks ==
    ASSUME conf \in DOMAIN Configurations, NEW w, IsWorld(w), NEW i, i \in Periodic
    PROVE  Ticks(w, SaveFlags(w, i), i)
<1> DEFINE x == Sums(w.fs)
           s == [w.st[i] EXCEPT !.saved = x]
           a == [w EXCEPT !.st[i] = s]
           b == [a EXCEPT !.out.ignoreUp = TRUE]
           v == ForceIncreaseFrom(b, i)
<1>0. i \in DOMAIN Items[conf]
  BY PeriodicIds
<1>1. x \in [Flags -> Int]
  <2>1. w.fs \in FlagStatuses
    BY DEF IsWorld, OutputType
  <2> QED BY <2>1, SumsType
<1>2. SaveFlags(w, i) = v
  <2>1. b = [w EXCEPT !.st[i].saved = Sums(w.fs), !.out.ignoreUp = TRUE]
    OBVIOUS
  <2> HIDE DEF b
  <2> QED BY <2>1 DEF SaveFlags
<1> HIDE DEF x
<1>3. w.st[i] \in States
  BY <1>0, StateTypes
<1>4. s \in States /\ s.decreased = w.st[i].decreased /\ s.active = w.st[i].active
  BY <1>1, <1>3 DEF States
<1> HIDE DEF s
<1>5. Ticks(w, a, i) /\ IsWorld(a)
  BY <1>4, StateTicks DEF Ticks, Works
<1> HIDE DEF a
<1>6. Sends(a, b)
  <2> DEFINE y == TRUE
  <2>1. OutputType(a) /\ y \in BOOLEAN
    BY <1>5 DEF IsWorld
  <2> HIDE DEF y
  <2>2. Sends(a, [a EXCEPT !.out.ignoreUp = y])
    BY <2>1, SetOut
  <2> QED BY <2>2, Zenon DEF y
<1> HIDE DEF b
<1>7. Goes(a, b)
  <2>1. Keeps(a, b)
    BY <1>6 DEF Sends, Keeps, Acts, KeepsRepeatable
  <2> QED BY <2>1, <1>5, KeepsGoes
<1>8. Ticks(a, b, i) /\ IsWorld(b)
  BY <1>7, GoesWorks, ModeTicks DEF Goes
<1>9. Ticks(b, v, i)
  BY <1>8, ForceIncreaseFromShifts, ModeTicks DEF Shifts
<1> HIDE DEF v
<1> QED
  BY <1>2, <1>5, <1>8, <1>9, TicksTwice

\* No item is the number that says "no target".
LEMMA PeriodicNumbers ==
    ASSUME conf \in DOMAIN Configurations
    PROVE  \A i \in Periodic : i # 0
BY ConfigurationsAssumption DEF Periodic, Items, IsList

\* The first timer of the item.
LEMMA StartWaitTicks ==
    ASSUME conf \in DOMAIN Configurations, NEW w, IsWorld(w), NEW i, i \in Periodic, w.dpp.target = i
    PROVE  Ticks(w, StartWait(w, i), i)
<1> DEFINE v == [w EXCEPT !.dpp.on = TRUE]
<1>1. IsWorld(v) /\ SameButStates(w, v) /\ v.st = w.st /\ v.dpp.target = w.dpp.target
  <2>1. \A b : (b => w.dpp.target \in Periodic) =>
           LET u == [w EXCEPT !.dpp.on = b]
           IN  IsWorld(u) /\ SameButStates(w, u) /\ u.st = w.st /\ u.dpp.on = b /\ u.dpp.target = w.dpp.target
    BY SetTimerFields
  <2> QED BY <2>1
<1>2. StartWait(w, i) \in {v, FireTimer(w)}
  BY DEF StartWait
<1> HIDE DEF v
<1>3. Works(w, v, i) /\ v.prep = w.prep
  BY <1>1, SetTimerWorks
<1>4. Ticks(w, v, i)
  BY <1>1, <1>3 DEF Ticks
<1>5. Ticks(w, FireTimer(w), i)
  <2>1. i # 0
    BY PeriodicNumbers
  <2> QED BY <2>1, FireTimerTicks
<1> QED
  BY <1>2, <1>4, <1>5

\* The item's entry in the list of those that want to see the next event.
LEMMA RegisterTicks ==
    ASSUME conf \in DOMAIN Configurations, NEW w, IsWorld(w), NEW i, i \in Periodic
    PROVE  LET v == RegisterPrepareTargetItem(w, <<i, "ITEM">>)
               u == UnregisterPrepareTargetItem(w, <<i, "ITEM">>)
           IN  /\ Works(w, v, i) /\ v.st = w.st /\ v.dpp = w.dpp
               /\ Works(w, u, i) /\ u.st = w.st /\ u.dpp = w.dpp /\ ~Listed(u.prep, <<i, "ITEM">>)
<1> DEFINE id == <<i, "ITEM">>
           v == RegisterPrepareTargetItem(w, id)
           u == UnregisterPrepareTargetItem(w, id)
<1>0. id \in Ids(conf)
  BY PeriodicIds
<1>1. /\ IsWorld(v) /\ SameStatus(w, v) /\ Aside(v) = Aside(w) /\ v.pressing = w.pressing /\ v.remapped = w.remapped
      /\ \A x : Listed(v.prep, x) <=> Listed(w.prep, x) \/ x = id
  <2> HIDE DEF id
  <2> QED BY <1>0, RegisterType
<1>2. /\ IsWorld(u) /\ SameStatus(w, u) /\ Aside(u) = Aside(w) /\ u.pressing = w.pressing /\ u.remapped = w.remapped
      /\ \A x : Listed(u.prep, x) <=> Listed(w.prep, x) /\ x # id
  BY UnregisterType
<1> HIDE DEF u, v
<1>3. ASSUME NEW y, IsWorld(y), SameStatus(w, y), Aside(y) = Aside(w), y.pressing = w.pressing, y.remapped = w.remapped,
             \A x : x # id => (Listed(y.prep, x) <=> Listed(w.prep, x))
      PROVE  Works(w, y, i) /\ y.st = w.st /\ y.dpp = w.dpp
  <2>1. SameCounts(w, y)
    BY <1>3 DEF SameStatus, SameCounts, SameFlagCounts
  <2>2. y.st = w.st /\ y.dpp = w.dpp /\ Others(y) = Others(w)
    BY <1>3 DEF Aside, Others
  <2>3. SameExcess(w, y)
    BY <1>3, <2>1, <2>2, SameWithheldExcess
  <2> QED BY <1>3, <2>2, <2>3 DEF Works, SameMains, id
<1>4. Works(w, v, i) /\ v.st = w.st /\ v.dpp = w.dpp
  BY <1>1, <1>3
<1>5. Works(w, u, i) /\ u.st = w.st /\ u.dpp = w.dpp
  BY <1>2, <1>3
<1> QED
  BY <1>2, <1>4, <1>5 DEF u, v, id

-----------------------------------------------------------------------------
(* The press and the release of an item of a period *)

PressedItem(w, v, i) ==
    /\ Turns(w, v, i, <<i, "ITEM">>, TRUE) /\ v.remapped = TRUE /\ v.st[i].active = TRUE /\ v.dpp.target = i

ReleasedItem(w, v, i) ==
    /\ Turns(w, v, i, <<i, "ITEM">>, FALSE) /\ v.remapped = TRUE
    /\ v.st[i].active = FALSE /\ v.st[i].period = "NONE" /\ v.st[i].decreased = FALSE
    /\ ~Listed(v.prep, <<i, "ITEM">>)
    /\ v.dpp.target = w.dpp.target /\ (v.dpp.on => w.dpp.on /\ (w.st[i].active => w.dpp.target # i))

\* The key of a period is pressed: the key is taken and the item waits, and is
\* listed.
LEMMA PressPeriodTurns ==
    ASSUME conf \in DOMAIN Configurations, NEW w, IsWorld(w), NEW i, i \in Periodic, NEW e, e.type = "DOWN",
           NEW up, up \in BOOLEAN, NEW pt
    PROVE  PressedItem(w, PressPeriod(Pressing(w, i, e, up), i, pt), i)
<1> DEFINE id == <<i, "ITEM">>
           o == Pressing(w, i, e, up)
           a == TakeKey(o, Items[conf][i].from)
           b == [a EXCEPT !.dpp.target = i, !.st[i].active = TRUE, !.st[i].period = "NONE"]
           c == DecreaseFrom(b, i)
           d == Pseudo(c, i, "BEFORE_AFTER", "DOWN", pt)
           f == SaveFlags(d, i)
           g == StartWait(f, i)
           v == RegisterPrepareTargetItem(g, id)
<1>1. Turns(w, a, i, id, TRUE) /\ a.remapped = TRUE
  <2>1. LET x == IF e.type = "DOWN" THEN TakeKey(o, Items[conf][i].from) ELSE GiveBackKey(o, Items[conf][i].from)
        IN  Turns(w, x, i, <<i, "ITEM">>, e.type = "DOWN") /\ x.remapped = TRUE
    BY KeyTurns
  <2>2. (IF e.type = "DOWN" THEN TakeKey(o, Items[conf][i].from) ELSE GiveBackKey(o, Items[conf][i].from)) = a
    OBVIOUS
  <2> DEFINE down == e.type = "DOWN"
  <2>3. down = TRUE
    OBVIOUS
  <2> HIDE DEF a, o
  <2>4. Turns(w, a, i, <<i, "ITEM">>, down) /\ a.remapped = TRUE
    BY <2>1, <2>2, Zenon DEF o
  <2> QED BY <2>3, <2>4, Zenon DEF id
<1>2. o.items = Items[conf]
  <2>1. PressedFrom(w, o, i, e)
    BY PressingTypes
  <2> HIDE DEF o
  <2> QED BY <2>1 DEF PressedFrom, IsWorld, FunctionType
<1>3. PressPeriod(o, i, pt) = v
  <2> HIDE DEF o
  <2>1. StartPress(o, i) = b
    BY <1>2 DEF StartPress, Item
  <2> HIDE DEF b
  <2> QED BY <2>1 DEF PressPeriod
<1> HIDE DEF o, a
<1>4. IsWorld(a)
  BY <1>1 DEF Turns
<1>5. Works(a, b, i) /\ b.st[i].active = TRUE /\ b.dpp.target = i
  BY <1>4, StartWorks
<1> HIDE DEF b
<1>6. IsWorld(b)
  BY <1>5 DEF Works
<1>7. Ticks(b, c, i) /\ IsWorld(c)
  BY <1>6, DecreaseFromShifts, ModeTicks DEF Shifts, Works
<1> HIDE DEF c
<1>8. Ticks(c, d, i) /\ IsWorld(d)
  <2>1. "BEFORE_AFTER" \in PartNames
    BY DEF PartNames
  <2>2. Goes(c, d)
    BY <1>7, <2>1, PartPseudoGoes
  <2> HIDE DEF d
  <2> QED BY <2>2, GoesWorks, ModeTicks DEF Goes
<1> HIDE DEF d
<1>9. Ticks(d, f, i) /\ IsWorld(f)
  BY <1>8, SaveFlagsTicks DEF Ticks, Works
<1> HIDE DEF f
<1>10. Ticks(b, f, i)
  BY <1>7, <1>8, <1>9, TicksTwice
<1>11. f.dpp.target = i
  BY <1>5, <1>10 DEF Ticks
<1>12. Ticks(f, g, i)
  BY <1>9, <1>11, StartWaitTicks
<1> HIDE DEF g
<1>13. Ticks(b, g, i) /\ IsWorld(g)
  BY <1>10, <1>12, TicksTwice DEF Ticks, Works
<1>14. Works(g, v, i) /\ v.st = g.st /\ v.dpp = g.dpp
  BY <1>13, RegisterTicks
<1> HIDE DEF v
<1>15. Works(a, v, i)
  BY <1>5, <1>13, <1>14, WorksTwice DEF Ticks
<1>16. v.st[i].active = TRUE /\ v.dpp.target = i
  BY <1>5, <1>13, <1>14 DEF Ticks
<1>17. id \in Ids(conf) /\ id[2] = "ITEM"
  BY PeriodicIds
<1>18. Turns(w, v, i, id, TRUE) /\ v.remapped = a.remapped
  <2> DEFINE down == TRUE
  <2>1. Turns(w, a, i, id, down)
    BY <1>1
  <2> HIDE DEF id, down
  <2>2. Turns(w, v, i, id, down) /\ v.remapped = a.remapped
    BY <2>1, <1>15, <1>17, TurnsThenWorks
  <2> QED BY <2>2, Zenon DEF down
<1>19. PressedItem(w, v, i)
  BY <1>1, <1>16, <1>18, Zenon DEF PressedItem, id
<1> QED
  BY <1>3, <1>19 DEF o

\* The key of a period is released: the key is given back, the item is in no
\* period and no longer listed.
LEMMA ReleasePeriodTurns ==
    ASSUME conf \in DOMAIN Configurations, NEW w, IsWorld(w), NEW i, i \in Periodic, NEW e, e.type # "DOWN",
           w.pressing[<<i, "ITEM">>] > 0, NEW up, up \in BOOLEAN, NEW pt, NEW late
    PROVE  ReleasedItem(w, ReleasePeriod(Pressing(w, i, e, up), i, e, pt, late), i)
<1> DEFINE id == <<i, "ITEM">>
           o == Pressing(w, i, e, up)
           a == GiveBackKey(o, Items[conf][i].from)
           b == DoKeyDown(a, i, e, pt)
           c == DoKeyUp(b, i, pt, late)
           d == DecreaseFrom(c, i)
           f == Pseudo(d, i, "BEFORE_AFTER", "UP", pt)
           g == ForceIncreaseFrom(f, i)
           v == UnregisterPrepareTargetItem(g, id)
<1>1. Turns(w, a, i, id, FALSE) /\ a.remapped = TRUE /\ SameState(w, a, i)
  <2>1. LET x == IF e.type = "DOWN" THEN TakeKey(o, Items[conf][i].from) ELSE GiveBackKey(o, Items[conf][i].from)
        IN  Turns(w, x, i, <<i, "ITEM">>, e.type = "DOWN") /\ x.remapped = TRUE /\ SameState(w, x, i)
    BY KeyTurns
  <2>2. (IF e.type = "DOWN" THEN TakeKey(o, Items[conf][i].from) ELSE GiveBackKey(o, Items[conf][i].from)) = a
    OBVIOUS
  <2> DEFINE down == e.type = "DOWN"
  <2>3. down = FALSE
    OBVIOUS
  <2> HIDE DEF a, o
  <2>4. Turns(w, a, i, <<i, "ITEM">>, down) /\ a.remapped = TRUE /\ SameState(w, a, i)
    BY <2>1, <2>2, Zenon DEF o
  <2> QED BY <2>3, <2>4, Zenon DEF id
<1>2. o.items = Items[conf]
  <2>1. PressedFrom(w, o, i, e)
    BY PressingTypes
  <2> HIDE DEF o
  <2> QED BY <2>1 DEF PressedFrom, IsWorld, FunctionType
<1>3. ReleasePeriod(o, i, e, pt, late) = v
  <2> HIDE DEF o
  <2>1. GiveBackKey(o, Item(o, i).from) = a
    BY <1>2 DEF Item
  <2> HIDE DEF a
  <2> QED BY <2>1 DEF ReleasePeriod, KeysAfter
<1> HIDE DEF o, a
<1>4. IsWorld(a)
  BY <1>1 DEF Turns
<1>5. /\ Works(a, b, i) /\ b.st[i].active = FALSE
      /\ b.dpp.target = a.dpp.target /\ (b.dpp.on => a.dpp.on /\ (a.st[i].active => a.dpp.target # i))
  <2>1. IF a.st[i].active THEN Ends(a, b, i) ELSE b = a
    BY <1>4, DoKeyDownEnds
  <2> HIDE DEF b
  <2>2. a.st[i].active \in BOOLEAN
    BY <1>4, PeriodicIds, StateTypes DEF States
  <2>3. Works(a, a, i)
    BY <1>4, WorksNowhere
  <2> QED BY <2>1, <2>2, <2>3 DEF Ends
<1> HIDE DEF b
<1>6. IsWorld(b)
  BY <1>5 DEF Works
<1>7. Works(b, c, i) /\ c.st[i].period = "NONE" /\ c.st[i].active = b.st[i].active /\ c.dpp = b.dpp
  BY <1>6, DoKeyUpWorks
<1> HIDE DEF c
<1>8. IsWorld(c)
  BY <1>7 DEF Works
<1>9. Works(c, d, i) /\ SameMode(c, d, i) /\ IsWorld(d)
  BY <1>8, DecreaseFromShifts DEF Shifts, Works
<1> HIDE DEF d
<1>10. Works(d, f, i) /\ SameMode(d, f, i) /\ IsWorld(f)
  <2>1. "BEFORE_AFTER" \in PartNames
    BY DEF PartNames
  <2>2. Goes(d, f)
    BY <1>9, <2>1, PartPseudoGoes
  <2> HIDE DEF f
  <2> QED BY <2>2, GoesWorks DEF Goes
<1> HIDE DEF f
<1>11. Works(f, g, i) /\ SameMode(f, g, i) /\ g.st[i].decreased = FALSE /\ IsWorld(g)
  <2>1. Shifts(f, g, i) /\ g.st[i].decreased = FALSE
    BY <1>10, ForceIncreaseFromShifts
  <2> HIDE DEF g
  <2> QED BY <2>1 DEF Shifts, Works
<1> HIDE DEF g
<1>12. Works(g, v, i) /\ v.st = g.st /\ v.dpp = g.dpp /\ ~Listed(v.prep, id)
  BY <1>11, RegisterTicks
<1> HIDE DEF v
<1>13. Works(b, g, i)
  BY <1>7, <1>9, <1>10, <1>11, WorksTwice
<1>14. Works(a, v, i)
  BY <1>5, <1>12, <1>13, WorksTwice
<1>15. SameMode(c, g, i)
  BY <1>9, <1>10, <1>11, SameModeTwice
<1>16. v.st[i].active = FALSE /\ v.st[i].period = "NONE" /\ v.st[i].decreased = FALSE /\ v.dpp = b.dpp
  BY <1>5, <1>7, <1>11, <1>12, <1>15 DEF SameMode
<1>17. id \in Ids(conf) /\ id[2] = "ITEM"
  BY PeriodicIds
<1>18. Turns(w, v, i, id, FALSE) /\ v.remapped = a.remapped
  <2> DEFINE down == FALSE
  <2>1. Turns(w, a, i, id, down)
    BY <1>1
  <2> HIDE DEF id, down
  <2>2. Turns(w, v, i, id, down) /\ v.remapped = a.remapped
    BY <2>1, <1>14, <1>17, TurnsThenWorks
  <2> QED BY <2>2, Zenon DEF down
<1>19. v.dpp.target = w.dpp.target /\ (v.dpp.on => w.dpp.on /\ (w.st[i].active => w.dpp.target # i))
  BY <1>1, <1>5, <1>16 DEF SameState
<1>20. ReleasedItem(w, v, i)
  BY <1>1, <1>12, <1>16, <1>18, <1>19, Zenon DEF ReleasedItem, id
<1> QED
  BY <1>3, <1>20 DEF o

-----------------------------------------------------------------------------
(* Steps of one item *)

DownUps == {i \in DOMAIN Items[conf] : Items[conf][i].type = "KEYDOWNUPTOKEY"}

\* The id that takes the events of an item, and all ids of this kind.
Own(i) == <<i, Items[conf][i].main>>

SameOthersMains(w, v, i) ==
    \A x \in Ids(conf) : x[2] \in {"ITEM", "KTK", "FROM"} /\ x # Own(i) => v.pressing[x] = w.pressing[x]

\* One world leads to another by what item i does, whatever its function.
Steps(w, v, i) ==
    /\ IsWorld(v) /\ SameExcess(w, v) /\ Others(v) = Others(w) /\ SameOthersMains(w, v, i)
    /\ \A j \in DOMAIN Items[conf] : j # i => v.st[j] = w.st[j]
    /\ \A x : x[2] = "ITEM" /\ x # <<i, "ITEM">> => (Listed(v.prep, x) <=> Listed(w.prep, x))
    /\ i \notin Periodic => v.dpp = w.dpp
    /\ Listed(v.prep, <<i, "ITEM">>) => Listed(w.prep, <<i, "ITEM">>) \/ i \in Periodic \cup DownUps

\* ... without a press or a release.
Rests(w, v, i) == Steps(w, v, i) /\ SameMains(w, v) /\ v.remapped = w.remapped

\* A step of an item, of a period or not, and another.
LEMMA StepsTwice ==
    ASSUME NEW u, NEW v, NEW w, NEW i, Steps(u, v, i), Steps(v, w, i)
    PROVE  Steps(u, w, i)
<1>1. SameExcess(u, w)
  BY SameExcessTwice DEF Steps
<1>2. SameOthersMains(u, w, i)
  BY DEF Steps, SameOthersMains
<1>3. \A x : x[2] = "ITEM" /\ x # <<i, "ITEM">> => (Listed(w.prep, x) <=> Listed(u.prep, x))
  BY DEF Steps
<1> QED
  BY <1>1, <1>2, <1>3 DEF Steps

\* Steps that leave the item's own key alone.
LEMMA RestsTwice ==
    ASSUME NEW u, NEW v, NEW w, NEW i, Rests(u, v, i), Rests(v, w, i)
    PROVE  Rests(u, w, i)
<1>1. SameMains(u, w)
  BY DEF Rests, SameMains
<1> QED
  BY <1>1, StepsTwice DEF Rests

\* What an item does after it took an event.
LEMMA StepsThenRests ==
    ASSUME NEW u, NEW v, NEW w, NEW i, Own(i) \in Ids(conf), Own(i)[2] \in {"ITEM", "KTK", "FROM"},
           Steps(u, v, i), Rests(v, w, i)
    PROVE  Steps(u, w, i) /\ w.pressing[Own(i)] = v.pressing[Own(i)] /\ w.remapped = v.remapped
<1>1. w.pressing[Own(i)] = v.pressing[Own(i)]
  BY DEF Rests, SameMains
<1> QED
  BY <1>1, StepsTwice DEF Rests

\* Each item has one KeyToKey, or its own state, that says how often its key
\* is pressed.
LEMMA OwnIds ==
    ASSUME conf \in DOMAIN Configurations, NEW i, i \in DOMAIN Items[conf]
    PROVE  /\ Own(i) \in Ids(conf) /\ Own(i)[2] \in {"ITEM", "KTK", "FROM"} /\ Own(i)[1] = i
           /\ i \in Periodic => Own(i) = <<i, "ITEM">>
           /\ Own(i)[2] # "ITEM" => Own(i) \in PartIds /\ PartOf(Own(i)).from = Items[conf][i].from
<1>1. /\ IsItem(Items[conf][i])
      /\ Items[conf][i].main = MainPart(Items[conf][i].type)
  BY ItemsType DEF IsItem
<1>2. Items[conf][i].main \in {"ITEM", "KTK", "FROM"}
  BY <1>1 DEF MainPart
<1>3. i \in Periodic => Items[conf][i].main = "ITEM"
  BY <1>1 DEF MainPart, Periodic
<1>4. Items[conf][i].main # "ITEM" => /\ Items[conf][i].main \in DOMAIN Items[conf][i].parts
                                      /\ Items[conf][i].from = Items[conf][i].parts[Items[conf][i].main].from
  BY <1>1 DEF IsItem
<1>5. Own(i) \in Ids(conf)
  BY <1>4, IdsKinds DEF Own
<1> QED
  BY <1>2, <1>3, <1>4, <1>5 DEF Own, PartIds, PartOf

\* Output is a step of any item that leaves its key alone.
LEMMA GoesRests ==
    ASSUME NEW w, NEW v, Goes(w, v), NEW i
    PROVE  Rests(w, v, i) /\ v.st = w.st
<1>1. Others(v) = Others(w) /\ v.st = w.st /\ v.dpp = w.dpp
  BY DEF Goes, Aside, Others
<1>2. \A x : x[2] = "ITEM" => (Listed(v.prep, x) <=> Listed(w.prep, x))
  BY DEF Goes, SameList
<1>3. Listed(v.prep, <<i, "ITEM">>) <=> Listed(w.prep, <<i, "ITEM">>)
  BY <1>2
<1>4. SameOthersMains(w, v, i)
  BY DEF Goes, SameMains, SameOthersMains
<1> QED
  BY <1>1, <1>2, <1>3, <1>4 DEF Goes, Steps, Rests

\* Nothing happens.
LEMMA RestsNowhere ==
    ASSUME NEW w, IsWorld(w), NEW i
    PROVE  Rests(w, w, i)
BY DEF Rests, Steps, SameExcess, SameMains, SameOthersMains

\* An item of a period.
LEMMA WorksSteps ==
    ASSUME NEW w, NEW v, NEW i, i \in Periodic, Works(w, v, i)
    PROVE  Rests(w, v, i)
BY DEF Works, Rests, Steps, SameMains, SameOthersMains

\* The key of an item of a period is pressed or released.
LEMMA TurnsSteps ==
    ASSUME conf \in DOMAIN Configurations, NEW w, NEW v, NEW i, i \in Periodic, NEW down, Turns(w, v, i, <<i, "ITEM">>, down)
    PROVE  Steps(w, v, i) /\ v.pressing[Own(i)] = w.pressing[Own(i)] + IF down THEN 1 ELSE -1
<1>1. Own(i) = <<i, "ITEM">>
  BY OwnIds DEF Periodic
<1>2. SameOthersMains(w, v, i)
  BY <1>1 DEF Turns, SameOthersMains
<1> QED
  BY <1>1, <1>2 DEF Turns, Steps

\* An item whose key is that of a KeyToKey.
LEMMA TurnedSteps ==
    ASSUME conf \in DOMAIN Configurations, NEW w, NEW v, NEW i, i \in DOMAIN Items[conf], i \notin Periodic, NEW down,
           Turned(w, v, Own(i), down)
    PROVE  Steps(w, v, i) /\ v.st = w.st /\ v.pressing[Own(i)] = w.pressing[Own(i)] + IF down THEN 1 ELSE -1
<1>1. Others(v) = Others(w) /\ v.st = w.st /\ v.dpp = w.dpp
  BY DEF Turned, Aside, Others
<1>2. \A x : x[2] = "ITEM" => (Listed(v.prep, x) <=> Listed(w.prep, x))
  BY DEF Turned, SameList
<1>3. Listed(v.prep, <<i, "ITEM">>) <=> Listed(w.prep, <<i, "ITEM">>)
  BY <1>2
<1>4. SameOthersMains(w, v, i)
  BY DEF Turned, SameOthersMains
<1> QED
  BY <1>1, <1>2, <1>3, <1>4 DEF Turned, Steps

\* The state of an item that is of no period is replaced.
LEMMA StateRests ==
    ASSUME conf \in DOMAIN Configurations, NEW w, IsWorld(w), NEW i, i \in DOMAIN Items[conf], i \notin Periodic,
           NEW s, s \in States
    PROVE  LET v == [w EXCEPT !.st[i] = s]
           IN  Rests(w, v, i) /\ v.st[i] = s /\ v.prep = w.prep /\ v.pressing = w.pressing /\ v.drop = w.drop
<1> DEFINE v == [w EXCEPT !.st[i] = s]
<1>1. /\ IsWorld(v) /\ SameButStates(w, v) /\ v.dpp = w.dpp
      /\ v.st[i] = s /\ \A j \in DOMAIN Items[conf] : j # i => v.st[j] = w.st[j]
  BY SetState
<1> HIDE DEF v
<1>2. \A j \in Periodic : v.st[j].decreased = w.st[j].decreased
  BY <1>1, PeriodicIds
<1>3. Works(w, v, i)
  BY <1>1, <1>2, StateWorks
<1>4. v.prep = w.prep /\ v.pressing = w.pressing /\ v.drop = w.drop
  BY <1>1 DEF SameButStates
<1>5. SameOthersMains(w, v, i)
  BY <1>4 DEF SameOthersMains
<1>6. Rests(w, v, i)
  BY <1>1, <1>3, <1>4, <1>5 DEF Works, Rests, Steps
<1> QED
  BY <1>1, <1>4, <1>6 DEF v

-----------------------------------------------------------------------------
(* remap of every function *)

\* The item takes the press or the release.
TakesDown(w, v, i, e) ==
    Steps(w, v, i) /\ v.pressing[Own(i)] = w.pressing[Own(i)] + IF e.type = "DOWN" THEN 1 ELSE -1

\* An event is taken, and then the item works.
LEMMA TakesThenRests ==
    ASSUME conf \in DOMAIN Configurations, NEW i, i \in DOMAIN Items[conf],
           NEW u, NEW v, NEW w, NEW e, TakesDown(u, v, i, e), Rests(v, w, i)
    PROVE  TakesDown(u, w, i, e) /\ w.remapped = v.remapped
<1>1. Own(i) \in Ids(conf) /\ Own(i)[2] \in {"ITEM", "KTK", "FROM"}
  BY OwnIds
<1>2. Steps(u, w, i) /\ w.pressing[Own(i)] = v.pressing[Own(i)] /\ w.remapped = v.remapped
  BY <1>1, StepsThenRests DEF TakesDown
<1> QED
  BY <1>2 DEF TakesDown

\* The key and the modifiers of an item are those of its KeyToKey.
LEMMA OwnFlags ==
    ASSUME conf \in DOMAIN Configurations, NEW i, i \in DOMAIN Items[conf], Items[conf][i].main # "ITEM"
    PROVE  PartOf(Own(i)).fromFlags = Items[conf][i].fromFlags /\ PartOf(Own(i)).from = Items[conf][i].from
<1> DEFINE item == Configurations[conf].items[i]
           b == FoldLeft(LAMBDA x, token : Add(item.type, x, token), NewItem(item.type), item.tokens)
           main == MainPart(item.type)
<1>1. Items[conf][i] = NewRemapClassItem(item)
  <2>1. DOMAIN Items[conf] = DOMAIN Configurations[conf].items
    BY ItemsType
  <2> QED BY <2>1 DEF Items
<1>2. NewRemapClassItem(item) = WithFunction(item, b, main)
  BY DEF NewRemapClassItem
<1> HIDE DEF b, main, item
<1> DEFINE v == WithFunction(item, b, main)
<1>3. /\ v.parts = b.parts /\ v.main = main
      /\ v.from = IF main = "ITEM" THEN b.from ELSE b.parts[main].from
      /\ v.fromFlags = IF main = "ITEM" THEN b.fromFlags ELSE b.parts[main].fromFlags
  BY DEF WithFunction
<1> HIDE DEF v
<1>4. Items[conf][i] = v
  BY <1>1, <1>2 DEF v
<1> QED
  BY <1>3, <1>4 DEF PartOf, Own

\* Whether an item remaps an event is decided by its KeyToKey.
LEMMA RemapsTakesEvent ==
    ASSUME conf \in DOMAIN Configurations, NEW w, IsWorld(w), NEW i, i \in DOMAIN Items[conf],
           Items[conf][i].main # "ITEM", NEW e
    PROVE  Remaps(w, i, e) <=> TakesEvent(w, Own(i), e)
<1>1. w.items = Items[conf]
  BY DEF IsWorld, FunctionType
<1> QED
  BY <1>1, OwnFlags DEF Remaps, TakesEvent, Item, Own

\* KeyToKey::remap of the item's main KeyToKey: the event is taken.
LEMMA RemapFromTakes ==
    ASSUME conf \in DOMAIN Configurations, NEW w, IsWorld(w), NEW i, i \in DOMAIN Items[conf],
           Items[conf][i].main # "ITEM", NEW e, Remaps(w, i, e), NEW pt
    PROVE  LET v == RemapFrom(w, i, e, pt) IN TakesDown(w, v, i, e) /\ v.remapped = TRUE /\ v.st = w.st
<1> DEFINE id == Own(i)
           v == RemapKeyToKey(w, id, PartOf(id), e, pt)
           down == e.type = "DOWN"
<1>1. RemapFrom(w, i, e, pt) = v
  BY DEF RemapFrom, IsWorld, FunctionType, Item, Part, PartOf, Own
<1>2. id \in PartIds /\ i \notin Periodic
  BY OwnIds DEF Own
<1>3. TakesEvent(w, id, e)
  BY RemapsTakesEvent
<1>4. Turned(w, v, id, down) /\ v.remapped = TRUE
  <2> HIDE DEF id
  <2>1. LET u == RemapKeyToKey(w, id, PartOf(id), e, pt)
        IN  TakesEvent(w, id, e) => Turned(w, u, id, e.type = "DOWN") /\ u.remapped = TRUE
    BY <1>2, RemapKeyToKeyTurns
  <2> QED BY <1>3, <2>1, Zenon
<1> HIDE DEF v, down
<1>5. Steps(w, v, i) /\ v.st = w.st /\ v.pressing[Own(i)] = w.pressing[Own(i)] + IF down THEN 1 ELSE -1
  BY <1>2, <1>4, TurnedSteps
<1> QED
  BY <1>1, <1>4, <1>5 DEF TakesDown, down

\* The entry of the item in the list.
LEMMA RegisterRests ==
    ASSUME conf \in DOMAIN Configurations, NEW w, IsWorld(w), NEW i, i \in Periodic \cup DownUps
    PROVE  /\ Rests(w, RegisterPrepareTargetItem(w, <<i, "ITEM">>), i) /\ RegisterPrepareTargetItem(w, <<i, "ITEM">>).st = w.st
           /\ RegisterPrepareTargetItem(w, <<i, "ITEM">>).drop = w.drop
           /\ Rests(w, UnregisterPrepareTargetItem(w, <<i, "ITEM">>), i) /\ UnregisterPrepareTargetItem(w, <<i, "ITEM">>).st = w.st
           /\ UnregisterPrepareTargetItem(w, <<i, "ITEM">>).drop = w.drop
<1> DEFINE id == <<i, "ITEM">>
           v == RegisterPrepareTargetItem(w, id)
           u == UnregisterPrepareTargetItem(w, id)
<1>0. id \in Ids(conf)
  BY PeriodicIds, IdsKinds DEF DownUps
<1>1. /\ IsWorld(v) /\ SameStatus(w, v) /\ Aside(v) = Aside(w) /\ v.pressing = w.pressing /\ v.remapped = w.remapped
      /\ v.drop = w.drop /\ \A x : Listed(v.prep, x) <=> Listed(w.prep, x) \/ x = id
  <2> HIDE DEF id
  <2> QED BY <1>0, RegisterType
<1>2. /\ IsWorld(u) /\ SameStatus(w, u) /\ Aside(u) = Aside(w) /\ u.pressing = w.pressing /\ u.remapped = w.remapped
      /\ u.drop = w.drop /\ \A x : Listed(u.prep, x) <=> Listed(w.prep, x) /\ x # id
  BY UnregisterType
<1> HIDE DEF u, v
<1>3. ASSUME NEW y, IsWorld(y), SameStatus(w, y), Aside(y) = Aside(w), y.pressing = w.pressing, y.remapped = w.remapped,
             \A x : x # id => (Listed(y.prep, x) <=> Listed(w.prep, x))
      PROVE  Rests(w, y, i) /\ y.st = w.st
  <2>1. SameCounts(w, y)
    BY <1>3 DEF SameStatus, SameCounts, SameFlagCounts
  <2>2. y.st = w.st /\ y.dpp = w.dpp /\ Others(y) = Others(w)
    BY <1>3 DEF Aside, Others
  <2>3. SameExcess(w, y)
    BY <1>3, <2>1, <2>2, SameWithheldExcess
  <2>4. SameMains(w, y) /\ SameOthersMains(w, y, i)
    BY <1>3 DEF SameMains, SameOthersMains
  <2> QED BY <1>3, <2>2, <2>3, <2>4 DEF Rests, Steps, id
<1>4. Rests(w, v, i) /\ v.st = w.st
  BY <1>1, <1>3
<1>5. Rests(w, u, i) /\ u.st = w.st
  BY <1>2, <1>3
<1> QED
  BY <1>1, <1>2, <1>4, <1>5 DEF u, v, id

\* A field of the state of an item.
LEMMA InterruptedRests ==
    ASSUME conf \in DOMAIN Configurations, NEW w, IsWorld(w), NEW i, i \in DOMAIN Items[conf], i \notin Periodic, NEW x
    PROVE  /\ x \in BOOLEAN => Rests(w, [w EXCEPT !.st[i].interrupted = x], i)
           /\ x \in BOOLEAN => Rests(w, [w EXCEPT !.st[i].ignore = x], i)
           /\ x \in 0..2 => Rests(w, [w EXCEPT !.st[i].pressCount = x], i)
           /\ [w EXCEPT !.st[i].interrupted = x].drop = w.drop
<1>0. w.st[i] \in States
  BY StateTypes
<1>1. ASSUME x \in BOOLEAN
      PROVE  Rests(w, [w EXCEPT !.st[i].interrupted = x], i)
  <2> DEFINE s == [w.st[i] EXCEPT !.interrupted = x]
  <2>1. s \in States
    BY <1>0, <1>1 DEF States
  <2>2. [w EXCEPT !.st[i].interrupted = x] = [w EXCEPT !.st[i] = s]
    OBVIOUS
  <2> HIDE DEF s
  <2> QED BY <2>1, <2>2, StateRests
<1>2. ASSUME x \in BOOLEAN
      PROVE  Rests(w, [w EXCEPT !.st[i].ignore = x], i)
  <2> DEFINE s == [w.st[i] EXCEPT !.ignore = x]
  <2>1. s \in States
    BY <1>0, <1>2 DEF States
  <2>2. [w EXCEPT !.st[i].ignore = x] = [w EXCEPT !.st[i] = s]
    OBVIOUS
  <2> HIDE DEF s
  <2> QED BY <2>1, <2>2, StateRests
<1>3. ASSUME x \in 0..2
      PROVE  Rests(w, [w EXCEPT !.st[i].pressCount = x], i)
  <2> DEFINE s == [w.st[i] EXCEPT !.pressCount = x]
  <2>1. s \in States
    BY <1>0, <1>3 DEF States
  <2>2. [w EXCEPT !.st[i].pressCount = x] = [w EXCEPT !.st[i] = s]
    OBVIOUS
  <2> HIDE DEF s
  <2> QED BY <2>1, <2>2, StateRests
<1>4. [w EXCEPT !.st[i].interrupted = x].drop = w.drop
  BY DEF IsWorld, OutputType, Fields
<1> QED
  BY <1>1, <1>2, <1>3, <1>4

\* The KeyToKeys of the items that are of no period.
LEMMA PartOfItem ==
    ASSUME conf \in DOMAIN Configurations, NEW i, i \in DOMAIN Items[conf]
    PROVE  /\ Items[conf][i].type = "KEYDOWNUPTOKEY" => /\ {"DOWNUP", "INTERRUPTED"} \subseteq DOMAIN Items[conf][i].parts
                                                        /\ i \notin Periodic /\ Items[conf][i].main = "FROM"
           /\ Items[conf][i].type = "DOUBLEPRESSMODIFIER" => /\ "FIRE" \in DOMAIN Items[conf][i].parts
                                                             /\ i \notin Periodic /\ Items[conf][i].main = "KTK"
           /\ Items[conf][i].type = "KEYTOKEY" => i \notin Periodic /\ Items[conf][i].main = "KTK"
           /\ Items[conf][i].type = "IGNOREMULTIPLESAMEKEYPRESS" => i \notin Periodic /\ Items[conf][i].main = "ITEM"
BY ItemsType DEF IsItem, PartsOf, MainPart, Periodic

\* An event sent by a part that is no main one.
LEMMA PseudoRests ==
    ASSUME conf \in DOMAIN Configurations, NEW w, IsWorld(w), NEW i, i \in DOMAIN Items[conf],
           NEW p, p \in DOMAIN Items[conf][i].parts, p \notin {"KTK", "FROM"}, NEW type, NEW pt
    PROVE  Rests(w, Pseudo(w, i, p, type, pt), i) /\ Pseudo(w, i, p, type, pt).drop = w.drop
<1>1. Goes(w, Pseudo(w, i, p, type, pt)) /\ Pseudo(w, i, p, type, pt).drop = w.drop
  BY PseudoGoes
<1> QED
  BY <1>1, GoesRests

\* ... and a press with its release.
LEMMA PseudoDownUpRests ==
    ASSUME conf \in DOMAIN Configurations, NEW w, IsWorld(w), NEW i, i \in DOMAIN Items[conf],
           NEW p, p \in DOMAIN Items[conf][i].parts, p \notin {"KTK", "FROM"}, NEW pt
    PROVE  Rests(w, PseudoDownUp(w, i, p, pt), i) /\ PseudoDownUp(w, i, p, pt).drop = w.drop
<1>1. Goes(w, PseudoDownUp(w, i, p, pt)) /\ PseudoDownUp(w, i, p, pt).drop = w.drop
  BY PseudoDownUpGoes
<1> QED
  BY <1>1, GoesRests

\* KeyDownUpToKey::remap, after its own KeyToKey.
LEMMA RemapDownUpRests ==
    ASSUME conf \in DOMAIN Configurations, NEW w, IsWorld(w), NEW i, i \in DownUps, NEW pt
    PROVE  Rests(w, RemapDownUp(w, i, pt), i)
<1> DEFINE a == [w EXCEPT !.st[i].interrupted = FALSE]
           b == Pseudo(a, i, "INTERRUPTED", "UP", pt)
           c == EndInterrupted(w, i, pt)
           d == RegisterPrepareTargetItem(c, <<i, "ITEM">>)
           f == [d EXCEPT !.st[i].interrupted = FALSE]
           v == RegisterDownUp(c, i)
<1>1. /\ i \in DOMAIN Items[conf] /\ i \notin Periodic
      /\ "INTERRUPTED" \in DOMAIN Items[conf][i].parts
  BY PartOfItem DEF DownUps
<1>2. \A u, x : IsWorld(u) /\ x \in BOOLEAN => Rests(u, [u EXCEPT !.st[i].interrupted = x], i)
  BY <1>1, InterruptedRests
<1>3. Rests(w, a, i) /\ IsWorld(a)
  <2>1. Rests(w, a, i)
    BY <1>2
  <2> HIDE DEF a
  <2> QED BY <2>1 DEF Rests, Steps
<1>4. Rests(a, b, i)
  <2>1. "INTERRUPTED" \notin {"KTK", "FROM"}
    OBVIOUS
  <2> HIDE DEF a
  <2> QED BY <1>1, <1>3, <2>1, PseudoRests
<1>5. c \in {b, w}
  <2> HIDE DEF a, b
  <2> QED BY DEF EndInterrupted, a, b
<1> HIDE DEF a, b, c
<1>6. Rests(w, c, i) /\ IsWorld(c)
  <2>1. Rests(w, b, i) /\ Rests(w, w, i)
    BY <1>3, <1>4, RestsTwice, RestsNowhere
  <2>2. Rests(w, c, i)
    BY <1>5, <2>1
  <2> QED BY <2>2 DEF Rests, Steps
<1>7. Rests(c, d, i)
  <2>1. i \in Periodic \cup DownUps
    OBVIOUS
  <2> QED BY <1>6, <2>1, RegisterRests
<1>8. v \in {f, c}
  <2> HIDE DEF d
  <2> QED BY DEF RegisterDownUp, d
<1> HIDE DEF d
<1>9. Rests(d, f, i)
  <2>1. IsWorld(d)
    BY <1>7 DEF Rests, Steps
  <2> QED BY <1>2, <2>1
<1> HIDE DEF f, v
<1>10. Rests(w, f, i)
  BY <1>6, <1>7, <1>9, RestsTwice
<1>11. Rests(w, v, i)
  BY <1>6, <1>8, <1>10
<1> QED
  BY <1>11 DEF v, c, RemapDownUp

\* DoublePressModifier::remap, after its own KeyToKey.
LEMMA RemapDoublePressRests ==
    ASSUME conf \in DOMAIN Configurations, NEW w, IsWorld(w), NEW i, i \in DOMAIN Items[conf],
           Items[conf][i].type = "DOUBLEPRESSMODIFIER", NEW e, e.type \in {"DOWN", "UP"}, NEW pt, NEW late
    PROVE  Rests(w, RemapDoublePress(w, i, e, pt, late), i)
<1> DEFINE count == IF late THEN 0 ELSE w.st[i].pressCount
           n == IF count = 0 THEN 1 ELSE 2
           a == [w EXCEPT !.st[i].pressCount = n]
           b == [w EXCEPT !.st[i].pressCount = count]
           c == [w EXCEPT !.st[i].pressCount = 0]
           fs == SetTemporary(c.fs)
           d == [c EXCEPT !.fs = fs]
           f == PseudoDownUp(d, i, "FIRE", pt)
           v == RemapDoublePress(w, i, e, pt, late)
<1>1. i \notin Periodic /\ "FIRE" \in DOMAIN Items[conf][i].parts
  BY PartOfItem
<1>2. \A x : x \in 0..2 => Rests(w, [w EXCEPT !.st[i].pressCount = x], i)
  BY <1>1, InterruptedRests
<1>3. w.st[i] \in States
  BY StateTypes
<1>4. count \in 0..2 /\ n \in 0..2
  BY <1>3 DEF States
<1>5. Rests(w, a, i) /\ Rests(w, b, i) /\ Rests(w, c, i)
  <2> HIDE DEF n, count
  <2> QED BY <1>2, <1>4
<1>6. v = CASE e.type = "DOWN" -> a
            [] e.type = "UP" /\ count < 2 -> b
            [] e.type = "UP" /\ count >= 2 -> f
  <2>1. d = [w EXCEPT !.st[i].pressCount = 0, !.fs = SetTemporary(@)]
    BY DEF IsWorld, OutputType, Fields
  <2> HIDE DEF d
  <2> QED BY <2>1 DEF RemapDoublePress
<1> HIDE DEF a, b, c, n
<1>7. IsWorld(c)
  BY <1>5 DEF Rests, Steps
<1>8. fs \in FlagStatuses /\ SameFlagCounts(c.fs, fs)
  <2>1. c.fs \in FlagStatuses
    BY <1>7 DEF IsWorld, OutputType
  <2> QED BY <2>1, TemporaryType
<1> HIDE DEF fs
<1>9. Goes(c, d)
  <2>1. OutputType(c)
    BY <1>7 DEF IsWorld
  <2>2. Sends(c, d)
    BY <1>8, <2>1, SetFlags
  <2> HIDE DEF d
  <2>3. Keeps(c, d)
    BY <2>2 DEF Sends, Keeps, Acts, KeepsRepeatable
  <2> QED BY <1>7, <2>3, KeepsGoes
<1>10. Rests(c, d, i) /\ IsWorld(d)
  <2> HIDE DEF d
  <2> QED BY <1>9, GoesRests DEF Goes
<1> HIDE DEF d
<1>11. Rests(d, f, i)
  <2>1. "FIRE" \notin {"KTK", "FROM"}
    OBVIOUS
  <2> QED BY <1>1, <1>10, <2>1, PseudoDownUpRests
<1> HIDE DEF f, v
<1>12. Rests(w, f, i)
  BY <1>5, <1>10, <1>11, RestsTwice
<1>13. v \in {a, b, f}
  <2> HIDE DEF count
  <2> QED BY <1>4, <1>6
<1>14. Rests(w, v, i)
  BY <1>5, <1>12, <1>13
<1> QED
  BY <1>14 DEF v

\* An item without a KeyToKey of its own.
LEMMA RemapIgnoreTakes ==
    ASSUME conf \in DOMAIN Configurations, NEW w, IsWorld(w), NEW i, i \in DOMAIN Items[conf],
           Items[conf][i].type = "IGNOREMULTIPLESAMEKEYPRESS", NEW e, Remaps(w, i, e)
    PROVE  TakesDown(w, RemapIgnore(w, i, e), i, e)
<1> DEFINE id == <<i, "ITEM">>
           a == ChangePressingState(w, id, e)
           b == [a EXCEPT !.remapped = TRUE]
           x == a.pressing[id] = 0
           c == [a EXCEPT !.st[i].ignore = x]
<1>1. i \notin Periodic /\ Own(i) = id /\ id \in Ids(conf)
  BY PartOfItem, IdsKinds DEF Own
<1>2. e.type = "DOWN" \/ w.pressing[id] > 0
  BY <1>1 DEF Remaps, IsTarget, IsWorld, FunctionType, Item, Own
<1>3. /\ IsWorld(a) /\ SameStatus(w, a) /\ Aside(a) = Aside(w) /\ a.remapped = w.remapped /\ a.prep = w.prep
      /\ a.pressing[id] = w.pressing[id] + IF e.type = "DOWN" THEN 1 ELSE -1
      /\ \A y \in Ids(conf) : y # id => a.pressing[y] = w.pressing[y]
  <2> HIDE DEF id
  <2> QED BY <1>1, <1>2, PressChange
<1>4. RemapIgnore(w, i, e) \in {b, c}
  BY DEF RemapIgnore
<1>5. x \in BOOLEAN
  OBVIOUS
<1> HIDE DEF a, x
<1>6. TakesDown(w, a, i, e)
  <2>1. a.st = w.st /\ a.dpp = w.dpp /\ Others(a) = Others(w)
    BY <1>3 DEF Aside, Others
  <2>2. \A y \in PartIds : a.pressing[y] = w.pressing[y]
    BY <1>3, IdsKinds DEF id
  <2>3. \A j \in Periodic : a.pressing[<<j, "ITEM">>] = w.pressing[<<j, "ITEM">>] /\ a.st[j].decreased = w.st[j].decreased
    BY <1>1, <1>3, <2>1, PeriodicIds DEF id
  <2>4. SameCounts(w, a)
    BY <1>3 DEF SameStatus, SameCounts, SameFlagCounts
  <2>5. SameExcess(w, a)
    BY <2>2, <2>3, <2>4, SameWithheldExcess
  <2>6. SameOthersMains(w, a, i)
    BY <1>1, <1>3 DEF SameOthersMains
  <2> QED BY <1>1, <1>3, <2>1, <2>5, <2>6 DEF TakesDown, Steps
<1>7. Rests(a, c, i)
  BY <1>1, <1>3, <1>5, InterruptedRests
<1>8. TakesDown(w, c, i, e)
  BY <1>6, <1>7, TakesThenRests
<1>9. TakesDown(w, b, i, e)
  <2>1. IsWorld(b) /\ SameStatus(a, b) /\ Aside(b) = Aside(a) /\ b.pressing = a.pressing /\ b.prep = a.prep
    BY <1>3, SetRemapped, Zenon
  <2> HIDE DEF b
  <2>2. b.st = a.st /\ b.dpp = a.dpp /\ Others(b) = Others(a)
    BY <2>1 DEF Aside, Others
  <2>3. SameCounts(a, b)
    BY <2>1 DEF SameStatus, SameCounts, SameFlagCounts
  <2>4. SameExcess(a, b)
    BY <2>1, <2>2, <2>3, SameWithheldExcess
  <2>5. Steps(a, b, i)
    BY <2>1, <2>2, <2>4 DEF Steps, SameOthersMains
  <2>6. Steps(w, b, i)
    BY <1>6, <2>5, StepsTwice DEF TakesDown
  <2> QED BY <1>6, <2>1, <2>6 DEF TakesDown
<1> QED
  BY <1>4, <1>8, <1>9

-----------------------------------------------------------------------------
(* What an overlaid key leaves behind *)

\* An item of a period that is in some period, waits, took modifiers or is on
\* the list is pressed, and the timer runs for one that waits.
Tidy(w) ==
    /\ \A j \in Periodic : w.st[j].active \/ w.st[j].decreased \/ w.st[j].period # "NONE" \/ Listed(w.prep, <<j, "ITEM">>)
                              => w.pressing[<<j, "ITEM">>] > 0
    /\ w.dpp.on => w.st[w.dpp.target].active

\* Output leaves the periods in order.
LEMMA GoesTidy ==
    ASSUME conf \in DOMAIN Configurations, NEW w, Tidy(w), NEW v, Goes(w, v)
    PROVE  Tidy(v)
<1>1. v.st = w.st /\ v.dpp = w.dpp
  BY DEF Goes, Aside
<1>2. \A j \in Periodic : /\ v.pressing[<<j, "ITEM">>] = w.pressing[<<j, "ITEM">>]
                          /\ Listed(v.prep, <<j, "ITEM">>) <=> Listed(w.prep, <<j, "ITEM">>)
  <2>1. \A x : x[2] = "ITEM" => (Listed(v.prep, x) <=> Listed(w.prep, x))
    BY DEF Goes, SameList
  <2>2. \A x \in Ids(conf) : x[2] \in {"ITEM", "KTK", "FROM"} => v.pressing[x] = w.pressing[x]
    BY DEF Goes, SameMains
  <2>3. \A j \in Periodic : <<j, "ITEM">> \in Ids(conf) /\ <<j, "ITEM">>[2] = "ITEM"
    BY PeriodicIds
  <2> QED BY <2>1, <2>2, <2>3
<1> QED
  BY <1>1, <1>2 DEF Tidy

\* What the other items of a period see of a step.
LEMMA StepsOthers ==
    ASSUME conf \in DOMAIN Configurations, NEW w, NEW v, NEW i, Steps(w, v, i), i \in DOMAIN Items[conf]
    PROVE  \A j \in Periodic : j # i =>
              /\ v.st[j] = w.st[j] /\ v.pressing[<<j, "ITEM">>] = w.pressing[<<j, "ITEM">>]
              /\ Listed(v.prep, <<j, "ITEM">>) <=> Listed(w.prep, <<j, "ITEM">>)
<1> SUFFICES ASSUME NEW j \in Periodic, j # i
             PROVE  /\ v.st[j] = w.st[j] /\ v.pressing[<<j, "ITEM">>] = w.pressing[<<j, "ITEM">>]
                    /\ Listed(v.prep, <<j, "ITEM">>) <=> Listed(w.prep, <<j, "ITEM">>)
  OBVIOUS
<1> DEFINE id == <<j, "ITEM">>
<1>1. id \in Ids(conf) /\ j \in DOMAIN Items[conf] /\ id[2] = "ITEM" /\ id # <<i, "ITEM">> /\ id # Own(i)
  BY PeriodicIds, OwnIds
<1> HIDE DEF id
<1>2. v.pressing[id] = w.pressing[id]
  BY <1>1 DEF Steps, SameOthersMains
<1>3. Listed(v.prep, id) <=> Listed(w.prep, id)
  BY <1>1 DEF Steps
<1> QED
  BY <1>1, <1>2, <1>3 DEF Steps, id

\* A step of an item of no period leaves the periods in order.
LEMMA StepsTidy ==
    ASSUME conf \in DOMAIN Configurations, NEW w, IsWorld(w), Tidy(w), NEW v,
           NEW i, i \in DOMAIN Items[conf], i \notin Periodic, Steps(w, v, i)
    PROVE  Tidy(v)
<1>1. \A j \in Periodic : /\ v.st[j] = w.st[j] /\ v.pressing[<<j, "ITEM">>] = w.pressing[<<j, "ITEM">>]
                          /\ Listed(v.prep, <<j, "ITEM">>) <=> Listed(w.prep, <<j, "ITEM">>)
  <2>1. \A j \in Periodic : j # i =>
              /\ v.st[j] = w.st[j] /\ v.pressing[<<j, "ITEM">>] = w.pressing[<<j, "ITEM">>]
              /\ Listed(v.prep, <<j, "ITEM">>) <=> Listed(w.prep, <<j, "ITEM">>)
    BY StepsOthers
  <2>2. \A j \in Periodic : j # i
    OBVIOUS
  <2> QED BY <2>1, <2>2
<1>2. v.dpp = w.dpp
  BY DEF Steps
<1>3. w.dpp.on => w.dpp.target \in Periodic
  BY DEF IsWorld, FunctionType
<1> QED
  BY <1>1, <1>2, <1>3 DEF Tidy

\* A key of a period that was pressed leaves the periods in order: it waits,
\* so the key is pressed, and it is listed.
LEMMA PressedTidy ==
    ASSUME conf \in DOMAIN Configurations, NEW w, IsWorld(w), Tidy(w), NEW v, NEW i, i \in Periodic, PressedItem(w, v, i)
    PROVE  Tidy(v)
<1>0. i \in DOMAIN Items[conf] /\ w.pressing[<<i, "ITEM">>] \in Nat
  BY PeriodicIds DEF IsWorld, FunctionType
<1>1. Steps(w, v, i) /\ v.pressing[<<i, "ITEM">>] = w.pressing[<<i, "ITEM">>] + 1
  <2>1. Turns(w, v, i, <<i, "ITEM">>, TRUE)
    BY DEF PressedItem
  <2> DEFINE down == TRUE
  <2>2. Turns(w, v, i, <<i, "ITEM">>, down)
    BY <2>1
  <2> HIDE DEF down
  <2>3. Steps(w, v, i)
    BY <2>2, TurnsSteps
  <2> QED BY <2>1, <2>3 DEF Turns
<1>2. \A j \in Periodic : j # i => /\ v.st[j] = w.st[j] /\ v.pressing[<<j, "ITEM">>] = w.pressing[<<j, "ITEM">>]
                                   /\ Listed(v.prep, <<j, "ITEM">>) <=> Listed(w.prep, <<j, "ITEM">>)
  BY <1>0, <1>1, StepsOthers
<1>3. v.pressing[<<i, "ITEM">>] > 0 /\ v.dpp.target = i /\ v.st[i].active = TRUE
  BY <1>0, <1>1 DEF PressedItem
<1> QED
  BY <1>2, <1>3 DEF Tidy

\* A key of a period that was released leaves the periods in order, even one
\* that is pressed no more.
LEMMA ReleasedTidy ==
    ASSUME conf \in DOMAIN Configurations, NEW w, IsWorld(w), Tidy(w), NEW v, NEW i, i \in Periodic, ReleasedItem(w, v, i)
    PROVE  Tidy(v)
<1>0. i \in DOMAIN Items[conf]
  BY PeriodicIds
<1>1. Steps(w, v, i)
  <2>1. Turns(w, v, i, <<i, "ITEM">>, FALSE)
    BY DEF ReleasedItem
  <2> DEFINE down == FALSE
  <2>2. Turns(w, v, i, <<i, "ITEM">>, down)
    BY <2>1
  <2> HIDE DEF down
  <2> QED BY <2>2, TurnsSteps
<1>2. \A j \in Periodic : j # i => /\ v.st[j] = w.st[j] /\ v.pressing[<<j, "ITEM">>] = w.pressing[<<j, "ITEM">>]
                                   /\ Listed(v.prep, <<j, "ITEM">>) <=> Listed(w.prep, <<j, "ITEM">>)
  BY <1>0, <1>1, StepsOthers
<1>3. ~v.st[i].active /\ v.st[i].period = "NONE" /\ ~v.st[i].decreased /\ ~Listed(v.prep, <<i, "ITEM">>)
  BY DEF ReleasedItem
<1>4. v.dpp.on => v.st[v.dpp.target].active
  <2> SUFFICES ASSUME v.dpp.on
               PROVE  v.st[v.dpp.target].active
    OBVIOUS
  <2>1. w.dpp.on /\ v.dpp.target = w.dpp.target /\ (w.st[i].active => w.dpp.target # i)
    BY DEF ReleasedItem
  <2>2. w.st[w.dpp.target].active /\ w.dpp.target \in Periodic
    BY <2>1 DEF Tidy, IsWorld, FunctionType
  <2>3. w.dpp.target # i
    BY <2>1, <2>2
  <2> QED BY <1>2, <2>1, <2>2, <2>3
<1> QED
  BY <1>2, <1>3, <1>4 DEF Tidy

\* The timer of an item that waits.
LEMMA TicksTidy ==
    ASSUME conf \in DOMAIN Configurations, NEW w, IsWorld(w), Tidy(w), NEW v, NEW i, i \in Periodic, Ticks(w, v, i),
           w.dpp.target = i, w.st[i].active
    PROVE  Tidy(v)
<1>0. i \in DOMAIN Items[conf] /\ Rests(w, v, i) /\ <<i, "ITEM">> \in Ids(conf)
  BY PeriodicIds, WorksSteps DEF Ticks
<1>1. \A j \in Periodic : j # i => /\ v.st[j] = w.st[j] /\ v.pressing[<<j, "ITEM">>] = w.pressing[<<j, "ITEM">>]
                                   /\ Listed(v.prep, <<j, "ITEM">>) <=> Listed(w.prep, <<j, "ITEM">>)
  BY <1>0, StepsOthers DEF Rests
<1>2. v.pressing[<<i, "ITEM">>] > 0
  <2> DEFINE id == <<i, "ITEM">>
  <2>1. w.pressing[id] > 0
    BY DEF Tidy
  <2>2. id \in Ids(conf) /\ id[2] = "ITEM" /\ SameMains(w, v)
    BY <1>0 DEF Rests
  <2> HIDE DEF id
  <2>3. v.pressing[id] = w.pressing[id]
    BY <2>2 DEF SameMains
  <2> QED BY <2>1, <2>3 DEF id
<1>3. v.dpp.target = i /\ v.st[i].active
  BY DEF Ticks
<1> QED
  BY <1>1, <1>2, <1>3 DEF Tidy

\* A key of a period that no longer waits leaves the periods in order.
LEMMA EndsTidy ==
    ASSUME conf \in DOMAIN Configurations, NEW w, IsWorld(w), Tidy(w), NEW v, NEW i, i \in Periodic, Ends(w, v, i),
           w.st[i].active
    PROVE  Tidy(v)
<1>0. i \in DOMAIN Items[conf] /\ Rests(w, v, i) /\ <<i, "ITEM">> \in Ids(conf)
  BY PeriodicIds, WorksSteps DEF Ends
<1>1. \A j \in Periodic : j # i => /\ v.st[j] = w.st[j] /\ v.pressing[<<j, "ITEM">>] = w.pressing[<<j, "ITEM">>]
                                   /\ Listed(v.prep, <<j, "ITEM">>) <=> Listed(w.prep, <<j, "ITEM">>)
  BY <1>0, StepsOthers DEF Rests
<1>2. v.pressing[<<i, "ITEM">>] > 0
  <2> DEFINE id == <<i, "ITEM">>
  <2>1. w.pressing[id] > 0
    BY DEF Tidy
  <2>2. id \in Ids(conf) /\ id[2] = "ITEM" /\ SameMains(w, v)
    BY <1>0 DEF Rests
  <2> HIDE DEF id
  <2>3. v.pressing[id] = w.pressing[id]
    BY <2>2 DEF SameMains
  <2> QED BY <2>1, <2>3 DEF id
<1>3. v.dpp.on => v.st[v.dpp.target].active
  <2> SUFFICES ASSUME v.dpp.on
               PROVE  v.st[v.dpp.target].active
    OBVIOUS
  <2>1. w.dpp.on /\ v.dpp.target = w.dpp.target /\ w.dpp.target # i
    BY DEF Ends
  <2>2. w.st[w.dpp.target].active /\ w.dpp.target \in Periodic
    BY <2>1 DEF Tidy, IsWorld, FunctionType
  <2> QED BY <1>1, <2>1, <2>2
<1> QED
  BY <1>1, <1>2, <1>3 DEF Tidy

-----------------------------------------------------------------------------
(* remap of an item *)

\* A PassThrough item has no key.
PassedSoFar(n, b, type) == b.from = VK_NONE
Passing == INSTANCE FoldProofs WITH Op <- AddStep, I <- PassedSoFar

\* No key is that of PassThrough: it is built without one.
LEMMA PassThroughKey ==
    ASSUME conf \in DOMAIN Configurations, NEW i, i \in DOMAIN Items[conf], Items[conf][i].type = "PASSTHROUGH"
    PROVE  Items[conf][i].from = VK_NONE
<1> DEFINE item == Configurations[conf].items[i]
           type == item.type
           tokens == item.tokens
           b == FoldLeft(LAMBDA x, token : Add(item.type, x, token), NewItem(item.type), item.tokens)
           main == MainPart(item.type)
<1>1. Items[conf][i] = NewRemapClassItem(item) /\ type = "PASSTHROUGH" /\ Len(tokens) \in Nat /\ DOMAIN tokens = 1..Len(tokens)
  <2>1. DOMAIN Items[conf] = DOMAIN Configurations[conf].items /\ Items[conf][i].type = Configurations[conf].items[i].type
    BY ItemsType
  <2>2. IsList(tokens)
    BY <2>1, ConfigurationsAssumption
  <2> QED BY <2>1, <2>2 DEF Items, IsList
<1>2. NewRemapClassItem(item) = WithFunction(item, b, main)
  BY DEF NewRemapClassItem
<1>3. b = Passing!Fold(NewItem(type), tokens, type, 0, 0, 0)
  BY DEF Passing!Fold, AddStep, FoldLeft, MapThenFoldSet, Passing!MapThenFoldSet, Max
<1> HIDE DEF b, tokens, item
<1>4. PassedSoFar(0, NewItem(type), type)
  BY DEF PassedSoFar, NewItem
<1>5. \A k \in 1..Len(tokens) : \A a : PassedSoFar(k - 1, a, type) => PassedSoFar(k, AddStep(a, tokens[k], type, 0, 0, 0), type)
  BY <1>1 DEF PassedSoFar, AddStep, Add
<1>6. PassedSoFar(Len(tokens), Passing!Fold(NewItem(type), tokens, type, 0, 0, 0), type)
  <2> HIDE DEF type
  <2> QED BY <1>1, <1>4, <1>5, Passing!FoldMaintains
<1>7. b.from = VK_NONE
  BY <1>3, <1>6 DEF PassedSoFar
<1>8. main = "ITEM"
  BY <1>1 DEF MainPart
<1> QED
  BY <1>1, <1>2, <1>7, <1>8 DEF WithFunction

\* DependingPressingPeriodKeyToKey::remap.
LEMMA RemapPeriodTakes ==
    ASSUME conf \in DOMAIN Configurations, NEW w, IsWorld(w), NEW i, i \in Periodic,
           NEW e, e.type = "DOWN" \/ w.pressing[<<i, "ITEM">>] > 0, NEW pt, NEW late
    PROVE  LET v == RemapPeriod(w, i, e, pt, late)
           IN  /\ TakesDown(w, v, i, e) /\ v.remapped = TRUE
               /\ IF e.type = "DOWN" THEN PressedItem(w, v, i) ELSE ReleasedItem(w, v, i)
<1> DEFINE up == pt = "UP"
           a == Pressing(w, i, e, up)
           v == RemapPeriod(w, i, e, pt, late)
<1>1. v = IF e.type = "DOWN" THEN PressPeriod(a, i, pt) ELSE ReleasePeriod(a, i, e, pt, late)
  BY DEF RemapPeriod, Pressing
<1>2. up \in BOOLEAN
  OBVIOUS
<1> HIDE DEF v, up
<1>3. ASSUME e.type = "DOWN"
      PROVE  PressedItem(w, v, i)
  <2>1. PressedItem(w, PressPeriod(a, i, pt), i)
    BY <1>2, <1>3, PressPeriodTurns
  <2> QED BY <1>1, <1>3, <2>1
<1>4. ASSUME e.type # "DOWN"
      PROVE  ReleasedItem(w, v, i)
  <2>1. ReleasedItem(w, ReleasePeriod(a, i, e, pt, late), i)
    BY <1>2, <1>4, ReleasePeriodTurns
  <2> QED BY <1>1, <1>4, <2>1
<1> HIDE DEF a
<1> DEFINE down == e.type = "DOWN"
<1>5. Turns(w, v, i, <<i, "ITEM">>, down) /\ v.remapped = TRUE
  <2>1. CASE e.type = "DOWN"
    <3>1. down = TRUE
      BY <2>1
    <3> HIDE DEF down
    <3> QED BY <1>3, <2>1, <3>1 DEF PressedItem
  <2>2. CASE e.type # "DOWN"
    <3>1. down = FALSE
      BY <2>2
    <3> HIDE DEF down
    <3> QED BY <1>4, <2>2, <3>1 DEF ReleasedItem
  <2> QED BY <2>1, <2>2
<1>6. TakesDown(w, v, i, e)
  <2> HIDE DEF down
  <2>1. Steps(w, v, i) /\ v.pressing[Own(i)] = w.pressing[Own(i)] + IF down THEN 1 ELSE -1
    BY <1>5, TurnsSteps
  <2> QED BY <2>1 DEF TakesDown, down
<1> QED
  BY <1>3, <1>4, <1>5, <1>6 DEF v

\* remap of an event that is the item's.
TakesAll(w, v, i, e) ==
    /\ TakesDown(w, v, i, e)
    /\ Items[conf][i].type # "IGNOREMULTIPLESAMEKEYPRESS" => v.remapped = TRUE
    /\ Tidy(w) => Tidy(v)

\* What the items with a KeyToKey of their own do after it.
LEMMA AfterFromRests ==
    ASSUME conf \in DOMAIN Configurations, NEW w, IsWorld(w), NEW i, i \in DOMAIN Items[conf],
           Items[conf][i].type \in {"KEYTOKEY", "KEYDOWNUPTOKEY", "DOUBLEPRESSMODIFIER"},
           NEW e, e.type \in {"DOWN", "UP"}, NEW pt, NEW late
    PROVE  Rests(w, AfterFrom(w, i, e, pt, late), i)
<1>1. Item(w, i) = Items[conf][i]
  BY DEF IsWorld, FunctionType, Item
<1>2. CASE Items[conf][i].type = "KEYTOKEY"
  BY <1>1, <1>2, RestsNowhere DEF AfterFrom
<1>3. CASE Items[conf][i].type = "KEYDOWNUPTOKEY"
  <2>1. Rests(w, RemapDownUp(w, i, pt), i)
    BY <1>3, RemapDownUpRests DEF DownUps
  <2> QED BY <1>1, <1>3, <2>1 DEF AfterFrom
<1>4. CASE Items[conf][i].type = "DOUBLEPRESSMODIFIER"
  <2>1. Rests(w, RemapDoublePress(w, i, e, pt, late), i)
    BY <1>4, RemapDoublePressRests
  <2> QED BY <1>1, <1>4, <2>1 DEF AfterFrom
<1> QED
  BY <1>2, <1>3, <1>4

\* Each function that remaps an event takes it: the key is withheld once more,
\* or once less.
LEMMA RemapItemTakes ==
    ASSUME conf \in DOMAIN Configurations, NEW w, IsWorld(w), NEW i, i \in DOMAIN Items[conf],
           NEW e, e.type \in {"DOWN", "UP", "NONE"}, e.code # VK_NONE, Remaps(w, i, e), NEW pt, NEW late
    PROVE  TakesAll(w, RemapItem(w, i, e, pt, late), i, e)
<1> DEFINE type == Items[conf][i].type
           v == RemapItem(w, i, e, pt, late)
<1>1. Item(w, i) = Items[conf][i] /\ e.type \in {"DOWN", "UP"} /\ e.code = Items[conf][i].from
      /\ (e.type = "DOWN" \/ w.pressing[<<i, Items[conf][i].main>>] > 0)
  BY DEF IsWorld, FunctionType, Item, Remaps, IsTarget
<1>2. type \in ItemTypes \ {"PASSTHROUGH"}
  BY <1>1, ItemsType, PassThroughKey DEF IsItem
<1>3. CASE type \in {"KEYTOKEY", "KEYDOWNUPTOKEY", "DOUBLEPRESSMODIFIER"}
  <2> DEFINE a == RemapFrom(w, i, e, pt)
             b == AfterFrom(a, i, e, pt, late)
  <2>1. v = b
    BY <1>1, <1>3 DEF RemapItem
  <2>2. Items[conf][i].main # "ITEM" /\ i \notin Periodic
    BY <1>3, PartOfItem
  <2>3. TakesDown(w, a, i, e) /\ a.remapped = TRUE
    BY <2>2, RemapFromTakes
  <2> HIDE DEF a
  <2>4. Rests(a, b, i)
    BY <1>1, <1>3, <2>3, AfterFromRests DEF TakesDown, Steps
  <2> HIDE DEF b
  <2>5. TakesDown(w, b, i, e) /\ b.remapped = TRUE
    BY <2>3, <2>4, TakesThenRests
  <2>6. Tidy(w) => Tidy(b)
    BY <2>2, <2>5, StepsTidy DEF TakesDown
  <2> HIDE DEF v
  <2> QED BY <2>1, <2>5, <2>6 DEF TakesAll, v
<1>4. CASE type \in {"KEYOVERLAIDMODIFIER", "HOLDINGKEYTOKEY"}
  <2> DEFINE b == RemapPeriod(w, i, e, pt, late)
  <2>1. v = b
    BY <1>1, <1>4 DEF RemapItem
  <2>2. i \in Periodic
    BY <1>4 DEF Periodic
  <2>3. e.type = "DOWN" \/ w.pressing[<<i, "ITEM">>] > 0
    BY <1>1, <2>2, OwnIds DEF Own
  <2>4. /\ TakesDown(w, b, i, e) /\ b.remapped = TRUE
        /\ IF e.type = "DOWN" THEN PressedItem(w, b, i) ELSE ReleasedItem(w, b, i)
    BY <2>2, <2>3, RemapPeriodTakes
  <2> HIDE DEF b
  <2>5. Tidy(w) => Tidy(b)
    BY <2>2, <2>4, PressedTidy, ReleasedTidy
  <2> HIDE DEF v
  <2> QED BY <2>1, <2>4, <2>5 DEF TakesAll, v
<1>5. CASE type = "IGNOREMULTIPLESAMEKEYPRESS"
  <2> DEFINE b == RemapIgnore(w, i, e)
  <2>1. v = b
    BY <1>1, <1>5 DEF RemapItem
  <2>2. i \notin Periodic
    BY <1>5, PartOfItem
  <2>3. TakesDown(w, b, i, e)
    BY <1>5, RemapIgnoreTakes
  <2> HIDE DEF b
  <2>4. Tidy(w) => Tidy(b)
    BY <2>2, <2>3, StepsTidy DEF TakesDown
  <2> HIDE DEF v
  <2> QED BY <1>5, <2>1, <2>3, <2>4 DEF TakesAll, v
<1> QED
  BY <1>2, <1>3, <1>4, <1>5 DEF ItemTypes

\* remap of another event.
LEMMA PassesRests ==
    ASSUME conf \in DOMAIN Configurations, NEW w, IsWorld(w), NEW i, i \in DOMAIN Items[conf], NEW e
    PROVE  Rests(w, Passes(w, i, e), i) /\ (Tidy(w) => Tidy(Passes(w, i, e)))
<1> DEFINE a == [w EXCEPT !.st[i].pressCount = 0]
           b == [w EXCEPT !.st[i].ignore = FALSE]
           v == Passes(w, i, e)
<1>1. Item(w, i) = Items[conf][i]
  BY DEF IsWorld, FunctionType, Item
<1>2. \/ v = a /\ Items[conf][i].type = "DOUBLEPRESSMODIFIER"
      \/ v = b /\ Items[conf][i].type = "IGNOREMULTIPLESAMEKEYPRESS"
      \/ v = w
  BY <1>1 DEF Passes
<1>3. i \notin Periodic => Rests(w, a, i) /\ Rests(w, b, i)
  <2> DEFINE x == 0
             y == FALSE
  <2>1. x \in 0..2 /\ y \in BOOLEAN
    OBVIOUS
  <2> HIDE DEF x, y
  <2>2. i \notin Periodic => Rests(w, [w EXCEPT !.st[i].pressCount = x], i) /\ Rests(w, [w EXCEPT !.st[i].ignore = y], i)
    BY <2>1, InterruptedRests
  <2> QED BY <2>2, Zenon DEF x, y
<1> HIDE DEF a, b, v
<1>4. Rests(w, w, i)
  BY RestsNowhere
<1>5. v = w \/ i \notin Periodic
  BY <1>2, PartOfItem
<1>6. Rests(w, v, i)
  BY <1>2, <1>3, <1>4, <1>5
<1>7. Tidy(w) => Tidy(v)
  BY <1>5, <1>6, StepsTidy DEF Rests
<1> QED
  BY <1>6, <1>7 DEF v
=============================================================================
