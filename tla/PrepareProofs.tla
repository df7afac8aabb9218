--------------------------- MODULE PrepareProofs ----------------------------
(***************************************************************************)
(* RemapClassManager::prepare finds its way along its list, for every      *)
(* configuration.                                                          *)
(*                                                                         *)
(* WalkInv: prepare never lost the entry that it walks to next, nothing is *)
(* on its list twice, and an item of a period that waits does not have its *)
(* short press on the list. Touches tells which entries of the list a step *)
(* may change, Calls what prepare of one entry does, StaysClear what remap *)
(* leaves of it. The last conjunct is what makes the invariant inductive:  *)
(* prepare of a waiting item sends its short press, whose KeyToKey would   *)
(* otherwise be taken off the list while the walk may have stored it.      *)
(***************************************************************************)
EXTENDS RemapperProofs

-----------------------------------------------------------------------------
(* The list of functions to prepare, once more *)

Single(s) == \A m, n \in 1..Len(s) : s[m] = s[n] => m = n

\* One world leads to another; only ids of T may come to the list, go from it
\* or get another place, and prepare is not in the way.
Touches(w, v, T) ==
    /\ v.walk = w.walk
    /\ Single(w.prep) => Single(v.prep)
    /\ \A x : x \notin T => (Listed(v.prep, x) <=> Listed(w.prep, x))

\* Two steps that touch the list for the same ids.
LEMMA TouchesTwice ==
    ASSUME NEW u, NEW v, NEW w, NEW T, Touches(u, v, T), Touches(v, w, T)
    PROVE  Touches(u, w, T)
BY DEF Touches

\* What touches few ids touches no others.
LEMMA TouchesWider ==
    ASSUME NEW w, NEW v, NEW S, NEW T, Touches(w, v, S), S \subseteq T
    PROVE  Touches(w, v, T)
BY DEF Touches

\* A list that is kept is not touched.
LEMMA SameTouches ==
    ASSUME NEW w, NEW v, v.prep = w.prep, v.walk = w.walk
    PROVE  \A T : Touches(w, v, T)
BY DEF Touches

\* Nor is it by output.
LEMMA ActsTouches ==
    ASSUME NEW w, NEW v, Acts(w, v)
    PROVE  \A T : Touches(w, v, T)
<1>1. v.prep = w.prep /\ v.walk = w.walk
  BY DEF Acts, Behind
<1> QED
  BY <1>1, SameTouches

\* Nothing is listed twice after an entry was taken off the list.
LEMMA UnregisterSingle ==
    ASSUME NEW D, NEW s \in Seq(D), NEW id, Single(s)
    PROVE  Single(Without(s, id))
<1> DEFINE I == {n \in DOMAIN s : s[n] # id}
<1>1. I \in SUBSET (1..Len(s))
  OBVIOUS
<1> HIDE DEF I
<1>2. \A i, j \in 1..Len(Subsequence(s, I)) : Subsequence(s, I)[i] = Subsequence(s, I)[j] => i = j
  BY <1>1, SubsequenceDistinct DEF Single
<1> QED
  BY <1>2 DEF Single, Without, I

\* Nothing is listed twice after an id was added that was not listed.
LEMMA RegisterSingle ==
    ASSUME NEW D, NEW s \in Seq(D), NEW id \in D, Single(s), ~Listed(s, id)
    PROVE  Single(Append(s, id))
<1> DEFINE r == Append(s, id)
<1>1. /\ Len(r) = Len(s) + 1 /\ r[Len(s) + 1] = id /\ Len(s) \in Nat
      /\ DOMAIN s = 1..Len(s) /\ \A n \in 1..Len(s) : r[n] = s[n]
  OBVIOUS
<1> HIDE DEF r
<1>2. \A n \in 1..Len(s) : r[n] # id
  BY <1>1 DEF Listed
<1>3. ASSUME NEW m \in 1..Len(r), NEW n \in 1..Len(r), r[m] = r[n]
      PROVE  m = n
  <2>1. CASE m \in 1..Len(s) /\ n \in 1..Len(s)
    BY <1>1, <1>3, <2>1 DEF Single
  <2>2. CASE m \notin 1..Len(s) \/ n \notin 1..Len(s)
    BY <1>1, <1>2, <1>3, <2>2
  <2> QED BY <2>1, <2>2
<1> QED
  BY <1>3 DEF Single, r

\* unregisterPrepareTargetItem: only that entry goes.
LEMMA UnregisterTouches ==
    ASSUME NEW w, IsWorld(w), NEW id
    PROVE  LET v == UnregisterPrepareTargetItem(w, id)
           IN  Touches(w, v, {id}) /\ ~Listed(v.prep, id) /\ IsWorld(v)
<1> DEFINE v == UnregisterPrepareTargetItem(w, id)
           l == Without(w.prep, id)
<1>1. IsWorld(v) /\ Aside(v) = Aside(w) /\ \A x : Listed(v.prep, x) <=> Listed(w.prep, x) /\ x # id
  BY UnregisterType
<1>2. v.prep = l
  BY DEF UnregisterPrepareTargetItem, Without, IsWorld, OutputType, Fields
<1> HIDE DEF v
<1>3. v.walk = w.walk
  BY <1>1 DEF Aside
<1>4. Single(w.prep) => Single(v.prep)
  <2>1. w.prep \in Seq(Ids(conf))
    BY DEF IsWorld, FunctionType
  <2> QED BY <1>2, <2>1, UnregisterSingle
<1>5. Touches(w, v, {id}) /\ ~Listed(v.prep, id)
  BY <1>1, <1>3, <1>4 DEF Touches
<1> QED
  BY <1>1, <1>5 DEF v

\* registerPrepareTargetItem: only that entry comes.
LEMMA RegisterTouches ==
    ASSUME NEW w, IsWorld(w), NEW id, id \in Ids(conf)
    PROVE  Touches(w, RegisterPrepareTargetItem(w, id), {id})
<1> DEFINE a == UnregisterPrepareTargetItem(w, id)
           v == RegisterPrepareTargetItem(w, id)
<1>1. Touches(w, a, {id}) /\ ~Listed(a.prep, id) /\ IsWorld(a)
  BY UnregisterTouches
<1>2. v = [a EXCEPT !.prep = Append(a.prep, id)]
  BY DEF RegisterPrepareTargetItem
<1>3. Aside(v) = Aside(w) /\ \A x : Listed(v.prep, x) <=> Listed(w.prep, x) \/ x = id
  BY RegisterType
<1> HIDE DEF a, v
<1>4. v.prep = Append(a.prep, id)
  BY <1>1, <1>2 DEF IsWorld, OutputType, Fields
<1>5. v.walk = w.walk
  BY <1>3 DEF Aside
<1>6. Single(w.prep) => Single(v.prep)
  <2>1. a.prep \in Seq(Ids(conf))
    BY <1>1 DEF IsWorld, FunctionType
  <2>2. Single(w.prep) => Single(a.prep)
    BY <1>1 DEF Touches
  <2> QED BY <1>1, <1>4, <2>1, <2>2, RegisterSingle
<1>7. Touches(w, v, {id})
  BY <1>3, <1>5, <1>6 DEF Touches
<1> QED
  BY <1>7 DEF v

-----------------------------------------------------------------------------
(* KeyToKey and the list *)

\* The delayed action of a part is put on the list of ids of T.
Armed(id, e, T) == e.type = "DOWN" /\ HasDelayedAction(PartOf(id)) => id \in T

\* The delayed action of a KeyToKey is registered for prepare.
LEMMA ArmTouches ==
    ASSUME NEW w, IsWorld(w), NEW id, id \in PartIds, NEW k, NEW T, HasDelayedAction(k) => id \in T
    PROVE  Touches(w, ArmDelayedAction(w, id, k), T)
<1> DEFINE x == [target |-> id, on |-> TRUE, saved |-> Sums(Decrease(w.fs, Pure(k)))]
           a == [w EXCEPT !.ktk = x]
<1>0. ArmDelayedAction(w, id, k) = IF HasDelayedAction(k) THEN RegisterPrepareTargetItem(a, id) ELSE w
  BY DEF ArmDelayedAction
<1>1. KtkType(x)
  <2>1. Sums(Decrease(w.fs, Pure(k))) \in [Flags -> Int]
    <3>1. w.fs \in FlagStatuses
      BY DEF IsWorld, OutputType
    <3> QED BY <3>1, DecreaseChange, SumsType
  <2> QED BY <2>1 DEF KtkType
<1> HIDE DEF x
<1>2. IsWorld(a) /\ Aside(a) = Aside(w) /\ a.prep = w.prep
  BY <1>1, SetKtk
<1> HIDE DEF a
<1>3. id \in Ids(conf)
  BY DEF PartIds
<1>4. Touches(w, a, T)
  BY <1>2, SameTouches DEF Aside
<1>5. Touches(a, RegisterPrepareTargetItem(a, id), {id})
  BY <1>2, <1>3, RegisterTouches
<1>6. HasDelayedAction(k) => Touches(a, RegisterPrepareTargetItem(a, id), T)
  BY <1>5, TouchesWider
<1>7. Touches(w, w, T)
  BY SameTouches
<1> QED
  BY <1>0, <1>4, <1>6, <1>7, TouchesTwice

\* The first part of KeyToKey::remap arms the delayed action of a press.
LEMMA FirstPartTouches ==
    ASSUME NEW w, IsWorld(w), NEW id, id \in PartIds, NEW k, k \in KeyToKeys, NEW pt, NEW down, down \in BOOLEAN,
           NEW T, down /\ HasDelayedAction(k) => id \in T
    PROVE  Touches(w, FirstPart(w, id, k, down, pt), T)
<1>0. OutputType(w)
  BY DEF IsWorld
<1>1. CASE down
  <2> DEFINE a == TakeFrom(w, k)
             b == ArmDelayedAction(a, id, k)
             c == FireBefore(b, k, pt)
  <2>1. Acts(w, a)
    BY <1>0, TakeFromTakes
  <2>2. Along(w, a)
    BY <2>1, ActsAlong
  <2>3. Touches(w, a, T)
    BY <2>1, ActsTouches
  <2>4. FirstPart(w, id, k, down, pt) = c
    BY <1>1 DEF FirstPart
  <2> HIDE DEF a
  <2>5. Along(a, b)
    BY <2>2, ArmDelayedActionAlong DEF Along
  <2>6. Touches(a, b, T)
    BY <1>1, <2>2, ArmTouches DEF Along
  <2> HIDE DEF b
  <2>7. IsWorld(b) /\ OutputType(b)
    BY <2>5 DEF Along, IsWorld
  <2>8. Touches(b, c, T)
    BY <2>7, FireBeforeKeeps, ActsTouches DEF Keeps
  <2> HIDE DEF c
  <2> QED BY <2>3, <2>4, <2>6, <2>8, TouchesTwice
<1>2. CASE ~down
  <2>1. FirstPart(w, id, k, down, pt) = GiveBackFrom(w, k)
    BY <1>2 DEF FirstPart
  <2> QED BY <1>0, <2>1, TakeFromTakes, ActsTouches
<1> QED
  BY <1>1, <1>2

\* KeyToKey::remap touches its own entry alone, which a press lists only for
\* the sake of a delayed action.
LEMMA RemapKeyToKeyTouches ==
    ASSUME conf \in DOMAIN Configurations, NEW w, IsWorld(w), NEW id, id \in PartIds, NEW e, NEW pt,
           NEW T, Armed(id, e, T)
    PROVE  Touches(w, RemapKeyToKey(w, id, PartOf(id), e, pt), T)
<1> DEFINE k == PartOf(id)
           down == e.type = "DOWN"
           p == ChangePressingState(w, id, e)
           q == [p EXCEPT !.remapped = TRUE]
           up == IF pt = "UP" THEN p.lastUp \cup {id} ELSE p.lastUp \ {id}
           a == [q EXCEPT !.lastUp = up]
           b == FirstPart(a, id, k, down, pt)
           c == FireTo(b, id, k, down, pt)
           d == FireAfter(c, k, down, pt)
           v == RemapKeyToKey(w, id, k, e, pt)
<1>0. k \in KeyToKeys /\ id \in Ids(conf)
  BY PartOfType
<1>1. ~TakesEvent(w, id, e) => v = w
  BY DEF RemapKeyToKey, TakesEvent
<1>2. ASSUME TakesEvent(w, id, e)
      PROVE  Touches(w, v, T)
  <2>1. down \/ w.pressing[id] > 0
    BY <1>2 DEF TakesEvent, IsTarget
  <2>2. IsWorld(p) /\ Aside(p) = Aside(w) /\ p.prep = w.prep
    BY <1>0, <2>1, PressChange
  <2>3. v = d
    <3>1. a = [p EXCEPT !.remapped = TRUE, !.lastUp = IF pt = "UP" THEN @ \cup {id} ELSE @ \ {id}]
      <4>1. OutputType(p)
        BY <2>2 DEF IsWorld
      <4> HIDE DEF p
      <4> QED BY <4>1 DEF OutputType, Fields
    <3> HIDE DEF k, down
    <3> QED BY <3>1, <1>2 DEF RemapKeyToKey, TakesEvent, k, down
  <2> HIDE DEF p
  <2>4. IsWorld(q) /\ Aside(q) = Aside(p) /\ q.prep = p.prep
    BY <2>2, SetRemapped, Zenon
  <2> HIDE DEF q, up
  <2>5. IsWorld(a) /\ Aside(a) = Aside(q) /\ a.prep = q.prep
    BY <2>4, SetLastUp, Zenon
  <2> HIDE DEF a
  <2>6. Touches(w, a, T)
    BY <2>2, <2>4, <2>5, SameTouches DEF Aside
  <2>7. down \in BOOLEAN /\ (down /\ HasDelayedAction(k) => id \in T)
    BY DEF Armed
  <2> HIDE DEF down, k
  <2>8. Touches(a, b, T)
    BY <1>0, <2>5, <2>7, FirstPartTouches
  <2>9. Along(a, b)
    BY <2>5, <2>7, <1>0, FirstPartTakes
  <2>10. IsWorld(b) /\ OutputType(b)
    BY <2>9 DEF Along, IsWorld
  <2> HIDE DEF b
  <2>11. Acts(b, c)
    BY <2>10, <2>7, <1>0, FireToFires DEF FiresPart
  <2>12. OutputType(c)
    BY <2>11 DEF Acts
  <2> HIDE DEF c
  <2>13. Acts(c, d)
    BY <2>12, <1>0, FireAfterKeeps DEF Keeps
  <2> HIDE DEF d
  <2>14. Touches(b, c, T) /\ Touches(c, d, T)
    BY <2>11, <2>13, ActsTouches
  <2> QED BY <2>3, <2>6, <2>8, <2>14, TouchesTwice
<1>3. Touches(w, w, T)
  BY SameTouches
<1> QED
  BY <1>1, <1>2, <1>3

\* KeyToKey::call_remap_with_VK_PSEUDO_KEY.
LEMMA PseudoTouches ==
    ASSUME conf \in DOMAIN Configurations, NEW w, IsWorld(w), NEW i, i \in DOMAIN Items[conf],
           NEW p, p \in DOMAIN Items[conf][i].parts, p \notin {"KTK", "FROM"}, NEW type, NEW pt,
           NEW T, type = "DOWN" /\ HasDelayedAction(PartOf(<<i, p>>)) => <<i, p>> \in T
    PROVE  Touches(w, Pseudo(w, i, p, type, pt), T)
<1> DEFINE id == <<i, p>>
           gs == IF type = "DOWN" THEN LazyEnable(w.fs) ELSE LazyDisableIfOff(w.fs)
           b == [w EXCEPT !.fs = gs]
           a == [b EXCEPT !.remapped = FALSE]
           e == [code |-> VK_PSEUDO_KEY, type |-> type]
           r == RemapKeyToKey(a, id, PartOf(id), e, pt)
           v == [r EXCEPT !.remapped = w.remapped]
<1>1. id \in PartIds /\ id[2] = p /\ p # "ITEM"
  BY IdsKinds DEF PartIds
<1>2. Along(w, b) /\ b.prep = w.prep
  <2>1. w.fs \in FlagStatuses
    BY DEF IsWorld, OutputType
  <2>2. gs \in FlagStatuses
    BY <2>1, LazyEnableType
  <2> HIDE DEF gs
  <2>3. Along(w, b)
    BY <2>2, SetFlagsAlong
  <2> QED BY <2>3 DEF IsWorld, OutputType, Fields
<1>3. Pseudo(w, i, p, type, pt) = v
  <2>1. OutputType(w)
    BY DEF IsWorld
  <2>2. a = [w EXCEPT !.remapped = FALSE, !.fs = IF type = "DOWN" THEN LazyEnable(@) ELSE LazyDisableIfOff(@)]
    BY <2>1 DEF OutputType, Fields
  <2>3. Part(w, i, p) = PartOf(id)
    BY DEF IsWorld, FunctionType, Part, Item, PartOf
  <2> HIDE DEF a, e
  <2> QED BY <2>2, <2>3 DEF Pseudo, e
<1>4. Armed(id, e, T)
  BY DEF Armed
<1> HIDE DEF b, id
<1>5. IsWorld(b)
  BY <1>2 DEF Along
<1>6. IsWorld(a) /\ Aside(a) = Aside(b) /\ a.prep = b.prep
  BY <1>5, SetRemapped, Zenon
<1> HIDE DEF a, e
<1>7. Touches(a, r, T)
  BY <1>1, <1>4, <1>6, RemapKeyToKeyTouches
<1>8. IsWorld(r)
  <2>1. Turned(a, r, id, e.type = "DOWN") \/ r = a
    BY <1>1, <1>6, RemapKeyToKeyTurns, Zenon
  <2> QED BY <2>1, <1>6 DEF Turned
<1> HIDE DEF r
<1>9. Aside(v) = Aside(r) /\ v.prep = r.prep
  <2>1. \A x : LET u == [r EXCEPT !.remapped = x] IN Aside(u) = Aside(r) /\ u.prep = r.prep
    BY <1>8, SetRemapped
  <2> QED BY <2>1, Zenon
<1> HIDE DEF v
<1>10. Touches(w, b, T) /\ Touches(b, a, T) /\ Touches(r, v, T)
  BY <1>2, <1>6, <1>9, SameTouches DEF Along, Aside
<1> QED
  BY <1>3, <1>7, <1>10, TouchesTwice

\* The same for a press and a release.
LEMMA PseudoDownUpTouches ==
    ASSUME conf \in DOMAIN Configurations, NEW w, IsWorld(w), NEW i, i \in DOMAIN Items[conf],
           NEW p, p \in DOMAIN Items[conf][i].parts, p \notin {"KTK", "FROM"}, NEW pt,
           NEW T, HasDelayedAction(PartOf(<<i, p>>)) => <<i, p>> \in T
    PROVE  Touches(w, PseudoDownUp(w, i, p, pt), T)
<1> DEFINE a == Pseudo(w, i, p, "DOWN", pt)
           v == Pseudo(a, i, p, "UP", pt)
<1>1. PseudoDownUp(w, i, p, pt) = PF!Fold(w, <<"DOWN", "UP">>, i, p, pt, 0)
  BY DEF PseudoDownUp, PF!Fold, PseudoStep, FoldLeft, MapThenFoldSet, PF!MapThenFoldSet, Max
<1>2. PF!Fold(w, <<"DOWN", "UP">>, i, p, pt, 0) = v
  <2>1. \A x, y : PF!Fold(w, <<x, y>>, i, p, pt, 0) = PseudoStep(PseudoStep(w, x, i, p, pt, 0), y, i, p, pt, 0)
    BY PF!FoldOfTwo
  <2>2. PF!Fold(w, <<"DOWN", "UP">>, i, p, pt, 0) = PseudoStep(PseudoStep(w, "DOWN", i, p, pt, 0), "UP", i, p, pt, 0)
    BY <2>1, Zenon
  <2> QED BY <2>2 DEF PseudoStep
<1>3. IsWorld(a) /\ Touches(w, a, T)
  BY PseudoGoes, PseudoTouches DEF Goes
<1> HIDE DEF a
<1>4. Touches(a, v, T)
  BY <1>3, PseudoTouches
<1> QED
  BY <1>1, <1>2, <1>3, <1>4, TouchesTwice

-----------------------------------------------------------------------------
(* Delayed actions and the list *)

\* The list is apart from these fields.
LEMMA FieldsKept ==
    ASSUME NEW w, OutputType(w)
    PROVE  \A x : /\ [w EXCEPT !.fs = x].prep = w.prep /\ [w EXCEPT !.fs = x].walk = w.walk
                  /\ [w EXCEPT !.drop = x].prep = w.prep /\ [w EXCEPT !.drop = x].walk = w.walk
                  /\ [w EXCEPT !.ktk = x].prep = w.prep /\ [w EXCEPT !.ktk = x].walk = w.walk
BY DEF OutputType, Fields

SamePrep(w, v) == v.prep = w.prep /\ v.walk = w.walk

\* A delayed action only sends keys: the list stays as it is.
LEMMA FireDelayedPrep ==
    ASSUME conf \in DOMAIN Configurations, NEW w, IsWorld(w), NEW keys, keys \in Seq(ToEvents), NEW F, NEW s, s \in Scopes, NEW pt
    PROVE  SamePrep(w, FireDelayed(w, keys, F, s, pt))
<1> DEFINE x1 == [w EXCEPT !.fs = EnterScope(w.fs, s)]
           d == \E i \in DOMAIN keys : keys[i].code = VK_KEYTOKEY_DELAYED_ACTION_DROP_EVENT
           x2 == Drops(x1, keys)
           x3 == TemporarilyOff(x2, F)
           x4 == FireEach(x3, keys, pt, FALSE)
           x5 == TemporarilyOn(x4, F)
           x6 == [x5 EXCEPT !.fs = LeaveScope(x5.fs, s)]
<1>0. FireDelayed(w, keys, F, s, pt) = x6
  BY DEF FireDelayed
<1>1. IsWorld(x1)
  BY EnterWorld
<1>2. SamePrep(w, x1)
  BY FieldsKept DEF SamePrep, IsWorld
<1> HIDE DEF x1
<1>3. SamePrep(x1, x2) /\ OutputType(x2)
  <2>1. OutputType(x1)
    BY <1>1 DEF IsWorld
  <2>2. x2 = [x1 EXCEPT !.drop = x1.drop \/ d]
    BY DEF Drops
  <2>3. IsWorld(x2)
    BY <1>1, DropsStays DEF Stays
  <2> HIDE DEF d, x2
  <2>4. SamePrep(x1, x2)
    BY <2>1, <2>2, FieldsKept DEF SamePrep
  <2> QED BY <2>3, <2>4 DEF IsWorld
<1> HIDE DEF x2
<1>5. Keeps(x2, x3) /\ OutputType(x3)
  BY <1>3, TemporarilyKeeps
<1> HIDE DEF x3
<1>6. Keeps(x3, x4)
  BY <1>5, FireEachKeeps
<1>7. OutputType(x4)
  BY <1>6 DEF Keeps, Acts
<1> HIDE DEF x4
<1>8. Keeps(x4, x5)
  BY <1>7, TemporarilyKeeps
<1> HIDE DEF x5
<1>9. OutputType(x5) /\ SamePrep(x2, x5)
  BY <1>5, <1>6, <1>8 DEF Keeps, Acts, Behind, SamePrep
<1>10. SamePrep(x5, x6)
  BY <1>9, FieldsKept DEF SamePrep
<1> HIDE DEF x6
<1> QED
  BY <1>0, <1>2, <1>3, <1>9, <1>10 DEF SamePrep

\* So does the action of the timer, sent or canceled.
LEMMA DoDelayedActionPrep ==
    ASSUME conf \in DOMAIN Configurations, NEW w, IsWorld(w), NEW id, NEW keys, keys \in Seq(ToEvents), NEW canceledBy
    PROVE  SamePrep(w, DoDelayedAction(w, id, keys, canceledBy))
<1> DEFINE s == Scope(w.fs, w.ktk.saved)
           pt == IF id \in w.lastUp THEN "UP" ELSE "DOWN"
           l == IF canceledBy THEN Tail(keys) ELSE keys
           F == IF canceledBy THEN keys[1].mods ELSE {}
<1>1. CASE keys = <<>>
  BY <1>1 DEF DoDelayedAction, SamePrep
<1>2. CASE keys # <<>>
  <2>1. DoDelayedAction(w, id, keys, canceledBy) = FireDelayed(w, l, F, s, pt)
    BY <1>2 DEF DoDelayedAction
  <2>2. s \in Scopes
    <3>1. w.fs \in FlagStatuses /\ w.ktk.saved \in [Flags -> Int]
      BY DEF IsWorld, OutputType, FunctionType
    <3> QED BY <3>1, ScopeType
  <2>3. l \in Seq(ToEvents)
    BY <1>2
  <2> HIDE DEF s, pt, l, F
  <2> QED BY <2>1, <2>2, <2>3, FireDelayedPrep
<1> QED
  BY <1>1, <1>2

\* KeyToKey::prepare: only a press takes the entry off the list.
LEMMA PrepareKeyToKeyTouches ==
    ASSUME conf \in DOMAIN Configurations, NEW w, IsWorld(w), NEW id, id \in PartIds, NEW e
    PROVE  LET v == PrepareKeyToKey(w, id, PartOf(id), e)
           IN  Touches(w, v, {id}) /\ (e.type # "DOWN" => v = w) /\ (e.type = "DOWN" => ~Listed(v.prep, id))
<1> DEFINE k == PartOf(id)
           a == UnregisterPrepareTargetItem(w, id)
           c == [a EXCEPT !.ktk = [a.ktk EXCEPT !.on = FALSE]]
           b == [c EXCEPT !.fs = SetTemporary(c.fs)]
           by == k.lists["CANCELED_BY"]
           i == SelectInSeq(by, LAMBDA keys : keys # <<>> /\ keys[1].code = e.code /\ IsOn(b.fs, keys[1].mods))
           l == CASE i # 0 -> by[i]
                  [] i = 0 /\ k.lists["CANCELED_DEFAULT"] # <<>> -> Keys(k, "CANCELED_DEFAULT")
                  [] OTHER -> Keys(k, "DELAYED")
           v == PrepareKeyToKey(w, id, k, e)
<1>0. k \in KeyToKeys
  BY PartOfType
<1>1. Touches(w, a, {id}) /\ ~Listed(a.prep, id) /\ IsWorld(a)
  BY UnregisterTouches
<1>2. /\ e.type # "DOWN" => v = w
      /\ e.type = "DOWN" /\ ~w.ktk.on => v = a
      /\ e.type = "DOWN" /\ w.ktk.on => v = DoDelayedAction(b, id, l, i # 0)
  <2>1. b = [a EXCEPT !.ktk.on = FALSE, !.fs = SetTemporary(@)]
    <3>1. OutputType(a)
      BY <1>1 DEF IsWorld
    <3> HIDE DEF a
    <3> QED BY <3>1 DEF OutputType, Fields
  <2> HIDE DEF c
  <2> HIDE DEF b
  <2>2. v = CASE e.type # "DOWN" -> w
              [] e.type = "DOWN" /\ ~w.ktk.on -> a
              [] e.type = "DOWN" /\ w.ktk.on -> DoDelayedAction(b, id, l, i # 0)
    BY <2>1 DEF PrepareKeyToKey
  <2> HIDE DEF a, v, l, i
  <2> QED BY <2>2
<1>3. by \in Seq(Seq(ToEvents))
  BY <1>0, ListsType
<1>4. i = 0 \/ i \in 1..Len(by)
  <2> DEFINE I == {n \in 1..Len(by) : by[n] # <<>> /\ by[n][1].code = e.code /\ IsOn(b.fs, by[n][1].mods)}
  <2>1. i = IF I # {} THEN Min(I) ELSE 0
    BY DEF SelectInSeq
  <2>2. Len(by) \in Nat /\ I \in SUBSET (1..Len(by))
    BY <1>3
  <2> HIDE DEF I, i
  <2> QED BY <2>1, <2>2, FirstEntry
<1> HIDE DEF i, b, a
<1>5. l \in Seq(ToEvents)
  <2>1. i # 0 => by[i] \in Seq(ToEvents)
    BY <1>3, <1>4
  <2>2. Keys(k, "CANCELED_DEFAULT") \in Seq(ToEvents) /\ Keys(k, "DELAYED") \in Seq(ToEvents)
    BY <1>0, ListsType
  <2> QED BY <2>1, <2>2
<1> HIDE DEF l, by
<1>8. IsWorld(c) /\ SamePrep(a, c)
  <2> DEFINE x == [a.ktk EXCEPT !.on = FALSE]
  <2>1. KtkType(x)
    <3>1. KtkType(a.ktk)
      BY <1>1 DEF IsWorld, FunctionType, KtkType
    <3> QED BY <3>1, KtkOff
  <2> HIDE DEF x
  <2>2. LET d == [a EXCEPT !.ktk = x] IN IsWorld(d) /\ Aside(d) = Aside(a) /\ d.prep = a.prep
    BY <1>1, <2>1, SetKtk
  <2>3. LET d == [a EXCEPT !.ktk = x] IN IsWorld(d) /\ SamePrep(a, d)
    BY <2>2 DEF Aside, SamePrep
  <2> QED BY <2>3 DEF x
<1> HIDE DEF c
<1>9. IsWorld(b) /\ SamePrep(c, b)
  <2>1. OutputType(c)
    BY <1>8 DEF IsWorld
  <2>2. LET d == [c EXCEPT !.fs = SetTemporary(c.fs)] IN Keeps(c, d)
    BY <2>1, SetTemporaryKeeps
  <2>3. Keeps(c, b)
    BY <2>2 DEF b
  <2> QED BY <2>3, <1>8, ActsAlong DEF Keeps, Along, Acts, Behind, SamePrep
<1>10. SamePrep(b, DoDelayedAction(b, id, l, i # 0))
  <2>1. \A x : SamePrep(b, DoDelayedAction(b, id, l, x))
    BY <1>9, <1>5, DoDelayedActionPrep
  <2> QED BY <2>1, Zenon
<1>11. SamePrep(a, DoDelayedAction(b, id, l, i # 0))
  <2> DEFINE d == DoDelayedAction(b, id, l, i # 0)
  <2>1. SamePrep(b, d)
    BY <1>10
  <2> HIDE DEF d
  <2>2. SamePrep(a, d)
    BY <1>8, <1>9, <2>1 DEF SamePrep
  <2> QED BY <2>2 DEF d
<1> HIDE DEF v
<1>12. ASSUME NEW d, SamePrep(a, d)
       PROVE  Touches(w, d, {id}) /\ ~Listed(d.prep, id)
  BY <1>1, <1>12 DEF SamePrep, Touches
<1>13. e.type = "DOWN" => SamePrep(a, v)
  <2>1. CASE e.type = "DOWN" /\ ~w.ktk.on
    BY <1>2, <2>1 DEF SamePrep
  <2>2. CASE e.type = "DOWN" /\ w.ktk.on
    <3>1. v = DoDelayedAction(b, id, l, i # 0)
      BY <1>2, <2>2, Zenon
    <3> QED BY <3>1, <1>11, Zenon
  <2> QED BY <2>1, <2>2
<1>14. Touches(w, w, {id})
  BY SameTouches
<1> QED
  BY <1>2, <1>12, <1>13, <1>14 DEF v

-----------------------------------------------------------------------------
(* The periods and the list *)

\* The ids of an item of a period, and those that its press may list.
AllOf(i) == {<<i, p>> : p \in PartNames \cup {"ITEM"}}
LaterOf(i) == {<<i, p>> : p \in (PartNames \ {"SHORT"}) \cup {"ITEM"}}

\* Steps that keep the list touch none of it.
LEMMA PrepTouches ==
    ASSUME NEW w, NEW v, SamePrep(w, v)
    PROVE  \A T : Touches(w, v, T)
BY SameTouches DEF SamePrep

\* The states of the items are apart from the list.
LEMMA StatesPrep ==
    ASSUME NEW w, NEW v, SameButStates(w, v)
    PROVE  SamePrep(w, v)
BY DEF SameButStates, Others, SamePrep

\* So are the modifiers that an item of a period takes.
LEMMA ShiftsPrep ==
    ASSUME NEW w, NEW v, NEW i, Shifts(w, v, i)
    PROVE  SamePrep(w, v)
BY DEF Shifts, Works, Others, SamePrep

\* The end of a part of a period keeps the list.
LEMMA PartTouches ==
    ASSUME conf \in DOMAIN Configurations, NEW w, IsWorld(w), NEW i, i \in Periodic, NEW b, Goes(EnterPart(w, i), b), NEW p,
           NEW T, Touches(EnterPart(w, i), b, T)
    PROVE  LET v == LeavePart(b, i, p, PartScope(w, i)) IN Touches(w, v, T) /\ SamePrep(b, v)
<1> DEFINE s == PartScope(w, i)
           d == DecreaseFrom(w, i)
           a == EnterPart(w, i)
           c == [b EXCEPT !.fs = LeaveScope(b.fs, s)]
           v == IncreaseFrom(c, i, p)
<1>1. s \in Scopes
  BY PartScopeType
<1>2. SamePrep(w, d) /\ IsWorld(d)
  BY DecreaseFromShifts, ShiftsPrep DEF Shifts, Works
<1>3. a = [d EXCEPT !.fs = EnterScope(d.fs, s)]
  BY DEF EnterPart
<1>4. LeavePart(b, i, p, s) = v
  BY DEF LeavePart
<1>5. Touches(a, b, T) /\ Goes(a, b)
  OBVIOUS
<1> HIDE DEF s, d, a
<1>6. SamePrep(d, a)
  BY <1>2, <1>3, FieldsKept DEF SamePrep, IsWorld
<1>7. IsWorld(b)
  BY <1>5 DEF Goes
<1>8. IsWorld(c)
  <2>1. b.fs \in FlagStatuses
    BY <1>7 DEF IsWorld, OutputType
  <2>2. LeaveScope(b.fs, s) \in FlagStatuses
    <3>1. \A fs \in FlagStatuses : LeaveScope(fs, s) \in FlagStatuses
      BY <1>1, ScopeChange
    <3> QED BY <2>1, <3>1
  <2> QED BY <1>7, <2>2, SetFlagsAlong DEF Along
<1>9. SamePrep(b, c)
  BY <1>7, FieldsKept DEF SamePrep, IsWorld
<1> HIDE DEF c
<1>10. SamePrep(c, v)
  BY <1>8, IncreaseFromShifts, ShiftsPrep
<1> HIDE DEF v
<1>11. Touches(w, d, T) /\ Touches(d, a, T)
  BY <1>2, <1>6, PrepTouches
<1>12. SamePrep(b, v)
  BY <1>9, <1>10 DEF SamePrep
<1>13. Touches(b, v, T)
  BY <1>12, PrepTouches
<1>14. Touches(w, v, T)
  BY <1>5, <1>11, <1>13, TouchesTwice
<1> QED
  BY <1>4, <1>12, <1>14 DEF s

\* A part of a period touches its own entry.
LEMMA PartPseudoTouches ==
    ASSUME conf \in DOMAIN Configurations, NEW w, IsWorld(w), NEW i, i \in Periodic, NEW p, p \in PartNames, NEW type, NEW pt,
           NEW T, <<i, p>> \in T
    PROVE  Touches(w, Pseudo(w, i, p, type, pt), T) /\ Touches(w, PseudoDownUp(w, i, p, pt), T)
<1>1. i \in DOMAIN Items[conf] /\ p \in DOMAIN Items[conf][i].parts /\ p \notin {"KTK", "FROM"}
  BY PeriodicIds, PeriodicParts DEF PartNames, PeriodParts
<1> QED
  BY <1>1, PseudoTouches, PseudoDownUpTouches

\* So does its press in the scope of its modifiers,
LEMMA PressPartTouches ==
    ASSUME conf \in DOMAIN Configurations, NEW w, IsWorld(w), NEW i, i \in Periodic, NEW p, p \in PartNames, NEW pt,
           NEW T, <<i, p>> \in T
    PROVE  Touches(w, PressPart(w, i, p, pt), T)
<1> DEFINE a == EnterPart(w, i)
           b == Pseudo(a, i, p, "DOWN", pt)
<1>1. IsWorld(a)
  BY EnterPartWorld
<1>2. Goes(a, b) /\ Touches(a, b, T)
  <2> HIDE DEF a
  <2> QED BY <1>1, PartPseudoGoes, PartPseudoTouches
<1>3. PressPart(w, i, p, pt) = LeavePart(b, i, p, PartScope(w, i))
  BY DEF PressPart
<1> HIDE DEF b
<1> QED
  BY <1>2, <1>3, PartTouches

\* and its release.
LEMMA ReleasePartTouches ==
    ASSUME conf \in DOMAIN Configurations, NEW w, IsWorld(w), NEW i, i \in Periodic, NEW p, p \in PartNames, NEW pt,
           NEW T, <<i, p>> \in T
    PROVE  Touches(w, ReleasePart(w, i, p, pt), T)
<1> DEFINE b == Pseudo(w, i, p, "UP", pt)
           v == IncreaseFrom(b, i, p)
<1>1. Touches(w, b, T) /\ IsWorld(b)
  BY PartPseudoGoes, PartPseudoTouches DEF Goes
<1>2. ReleasePart(w, i, p, pt) = v
  BY DEF ReleasePart
<1> HIDE DEF b
<1>3. Touches(b, v, T)
  BY <1>1, IncreaseFromShifts, ShiftsPrep, PrepTouches
<1> HIDE DEF v
<1> QED
  BY <1>1, <1>2, <1>3, TouchesTwice

\* The short period: what a press demands is not left to be prepared.
LEMMA PressShortTouches ==
    ASSUME conf \in DOMAIN Configurations, NEW w, IsWorld(w), NEW i, i \in Periodic, NEW e, NEW pt
    PROVE  LET v == PressShort(w, i, e, pt)
           IN  Touches(w, v, {<<i, "SHORT">>}) /\ (e.type = "DOWN" => ~Listed(v.prep, <<i, "SHORT">>))
<1> DEFINE a == EnterPart(w, i)
           id == <<i, "SHORT">>
           b == Pseudo(a, i, "SHORT", "DOWN", pt)
           c == PrepareKeyToKey(b, id, PartOf(id), e)
           v == LeavePart(c, i, "SHORT", PartScope(w, i))
<1>1. IsWorld(a)
  BY EnterPartWorld
<1>2. Goes(a, b) /\ Touches(a, b, {id})
  <2>1. "SHORT" \in PartNames
    BY DEF PartNames
  <2> HIDE DEF a
  <2> QED BY <1>1, <2>1, PartPseudoGoes, PartPseudoTouches
<1>3. id \in PartIds
  BY PeriodicIds, PeriodicParts, IdsKinds DEF PeriodParts
<1>4. PressShort(w, i, e, pt) = v
  <2>1. PressShort(w, i, e, pt) =
           LeavePart(PrepareKeyToKey(b, <<i, "SHORT">>, Part(w, i, "SHORT"), e), i, "SHORT", PartScope(w, i))
    BY DEF PressShort
  <2>2. Part(w, i, "SHORT") = PartOf(id)
    BY DEF IsWorld, FunctionType, Part, Item, PartOf
  <2> QED BY <2>1, <2>2
<1>5. IsWorld(b)
  BY <1>2 DEF Goes
<1> HIDE DEF b
<1>6. Goes(b, c)
  <2> HIDE DEF id
  <2> QED BY <1>5, <1>3, PrepareKeyToKeyGoes
<1>7. Touches(b, c, {id}) /\ (e.type = "DOWN" => ~Listed(c.prep, id))
  <2> HIDE DEF id
  <2> QED BY <1>5, <1>3, PrepareKeyToKeyTouches
<1> HIDE DEF c
<1>8. Goes(EnterPart(w, i), c) /\ Touches(EnterPart(w, i), c, {id})
  BY <1>2, <1>6, <1>7, GoesTwice, TouchesTwice DEF a
<1>9. Touches(w, v, {id}) /\ SamePrep(c, v)
  <2> HIDE DEF id
  <2> QED BY <1>8, PartTouches
<1> HIDE DEF v
<1>10. e.type = "DOWN" => ~Listed(v.prep, id)
  BY <1>7, <1>9 DEF SamePrep
<1> QED
  BY <1>4, <1>9, <1>10 DEF id

\* dokeydown: a short press may be listed, but not by a press of a key.
LEMMA DoKeyDownTouches ==
    ASSUME conf \in DOMAIN Configurations, NEW w, IsWorld(w), NEW i, i \in Periodic, NEW e, NEW pt
    PROVE  LET v == DoKeyDown(w, i, e, pt)
           IN  /\ Touches(w, v, {<<i, "SHORT">>})
               /\ e.type = "DOWN" /\ Listed(v.prep, <<i, "SHORT">>) => Listed(w.prep, <<i, "SHORT">>)
<1> DEFINE s == [w.st[i] EXCEPT !.active = FALSE]
           on == w.dpp.on /\ w.dpp.target # i
           a == [w EXCEPT !.st[i] = s]
           b == [a EXCEPT !.dpp.on = on]
           t == [b.st[i] EXCEPT !.period = "SHORT"]
           c == [b EXCEPT !.st[i] = t]
           d == PressShort(c, i, e, pt)
           id == <<i, "SHORT">>
<1>0. i \in DOMAIN Items[conf]
  BY PeriodicIds
<1>1. w.st[i] \in States
  BY <1>0, StateTypes
<1>2. DoKeyDown(w, i, e, pt) = IF ~w.st[i].active THEN w ELSE IF w.st[i].period # "NONE" THEN b ELSE d
  <2>1. b = [w EXCEPT !.st[i].active = FALSE, !.dpp.on = @ /\ w.dpp.target # i]
    BY DEF IsWorld, OutputType, Fields
  <2>2. c = [b EXCEPT !.st[i].period = "SHORT"]
    OBVIOUS
  <2> HIDE DEF b, c
  <2> QED BY <2>1, <2>2 DEF DoKeyDown
<1>3. s \in States /\ s.decreased = w.st[i].decreased
  BY <1>1 DEF States
<1> HIDE DEF s
<1>4. Works(w, a, i) /\ a.dpp = w.dpp /\ a.prep = w.prep
  BY <1>0, <1>3, SetStateWorks
<1> HIDE DEF a
<1>5. IsWorld(a)
  BY <1>4 DEF Works
<1>61. on => w.dpp.on /\ w.dpp.target # i
  BY DEF on
<1>6. on => a.dpp.target \in Periodic
  BY <1>4, <1>61 DEF IsWorld, FunctionType
<1> HIDE DEF on
<1>7. IsWorld(b) /\ SameButStates(a, b)
  BY <1>5, <1>6, SetTimerFields
<1> HIDE DEF b
<1>8. SamePrep(w, b)
  BY <1>4, <1>7, StatesPrep DEF SamePrep, Works, Others
<1>9. t \in States /\ t.decreased = b.st[i].decreased
  <2>1. b.st[i] \in States
    BY <1>0, <1>7, StateTypes
  <2> QED BY <2>1 DEF States
<1> HIDE DEF t
<1>10. Works(b, c, i) /\ c.prep = b.prep
  BY <1>0, <1>7, <1>9, SetStateWorks
<1> HIDE DEF c
<1>11. SamePrep(w, c) /\ IsWorld(c)
  BY <1>8, <1>10 DEF SamePrep, Works, Others
<1>12. Touches(c, d, {id}) /\ (e.type = "DOWN" => ~Listed(d.prep, id))
  BY <1>11, PressShortTouches
<1> HIDE DEF d, id
<1>13. Touches(w, w, {id}) /\ Touches(w, b, {id}) /\ Touches(w, c, {id})
  BY <1>8, <1>11, PrepTouches DEF SamePrep
<1>14. Touches(w, d, {id})
  BY <1>12, <1>13, TouchesTwice
<1> DEFINE v == DoKeyDown(w, i, e, pt)
<1>15. Touches(w, v, {id}) /\ (e.type = "DOWN" /\ Listed(v.prep, id) => Listed(w.prep, id))
  <2>1. b.prep = w.prep
    BY <1>8 DEF SamePrep
  <2>2. v = w \/ v = b \/ v = d
    BY <1>2
  <2> HIDE DEF v
  <2> QED BY <1>12, <1>13, <1>14, <2>1, <2>2
<1> QED
  BY <1>15 DEF id

\* The part that is sent when the key was pressed alone.
LEMMA PressOnlyTouches ==
    ASSUME conf \in DOMAIN Configurations, NEW w, IsWorld(w), NEW i, i \in Periodic, NEW p, NEW pt, NEW late
    PROVE  Touches(w, PressOnly(w, i, p, pt, late), AllOf(i))
<1> DEFINE a == EnterPart(w, i)
           b == PseudoDownUp(a, i, "ONLY", pt)
           v == LeavePart(b, i, "ONLY", PartScope(w, i))
<1>1. IsWorld(a)
  BY EnterPartWorld
<1>2. Goes(a, b) /\ Touches(a, b, AllOf(i))
  <2>1. "ONLY" \in PartNames /\ <<i, "ONLY">> \in AllOf(i)
    BY DEF PartNames, AllOf
  <2> HIDE DEF a
  <2> QED BY <1>1, <2>1, PartPseudoGoes, PartPseudoTouches
<1>3. PressOnly(w, i, p, pt, late) = v \/ PressOnly(w, i, p, pt, late) = w
  BY DEF PressOnly
<1> HIDE DEF b
<1>4. Touches(w, v, AllOf(i))
  BY <1>2, PartTouches
<1>5. Touches(w, w, AllOf(i))
  BY SameTouches
<1> HIDE DEF v
<1> QED
  BY <1>3, <1>4, <1>5

\* The state of an item is replaced.
LEMMA StatePrep ==
    ASSUME conf \in DOMAIN Configurations, NEW w, IsWorld(w), NEW i, i \in DOMAIN Items[conf], NEW s, s \in States
    PROVE  LET v == [w EXCEPT !.st[i] = s] IN IsWorld(v) /\ SamePrep(w, v)
<1> DEFINE v == [w EXCEPT !.st[i] = s]
<1>1. IsWorld(v) /\ SameButStates(w, v)
  BY SetState
<1> HIDE DEF v
<1>2. IsWorld(v) /\ SamePrep(w, v)
  BY <1>1, StatesPrep
<1> QED
  BY <1>2 DEF v

\* dokeyup touches only the entries of the item.
LEMMA DoKeyUpTouches ==
    ASSUME conf \in DOMAIN Configurations, NEW w, IsWorld(w), NEW i, i \in Periodic, NEW pt, NEW late
    PROVE  Touches(w, DoKeyUp(w, i, pt, late), AllOf(i))
<1> DEFINE p == w.st[i].period
           s == [w.st[i] EXCEPT !.period = "NONE"]
           a == [w EXCEPT !.st[i] = s]
           b == ReleasePart(a, i, p, pt)
           c == PressOnly(b, i, p, pt, late)
           d == IF p = "NONE" THEN w ELSE c
           t == [d.st[i] EXCEPT !.observed = FALSE]
           v == [d EXCEPT !.st[i] = t]
<1>0. i \in DOMAIN Items[conf]
  BY PeriodicIds
<1>1. w.st[i] \in States
  BY <1>0, StateTypes
<1>2. DoKeyUp(w, i, pt, late) = v
  BY DEF DoKeyUp
<1>3. s \in States
  BY <1>1 DEF States
<1> HIDE DEF s
<1>4. IsWorld(a) /\ SamePrep(w, a)
  BY <1>0, <1>3, StatePrep
<1> HIDE DEF a
<1>5. p = "NONE" \/ (p \in PartNames /\ <<i, p>> \in AllOf(i))
  BY <1>1 DEF States, PartNames, AllOf
<1> HIDE DEF p
<1>6. p # "NONE" => Touches(a, b, AllOf(i)) /\ IsWorld(b)
  BY <1>4, <1>5, ReleasePartTouches, ReleasePartWorks DEF Works
<1> HIDE DEF b
<1>7. p # "NONE" => Touches(b, c, AllOf(i)) /\ IsWorld(c)
  BY <1>6, PressOnlyTouches, PressOnlyWorks DEF Works
<1> HIDE DEF c
<1>8. Touches(w, a, AllOf(i)) /\ Touches(w, w, AllOf(i))
  BY <1>4, PrepTouches DEF SamePrep
<1>9. p # "NONE" => Touches(w, c, AllOf(i))
  BY <1>6, <1>7, <1>8, TouchesTwice
<1>10. Touches(w, d, AllOf(i)) /\ IsWorld(d)
  BY <1>7, <1>8, <1>9
<1> HIDE DEF d
<1>11. t \in States
  <2>1. d.st[i] \in States
    BY <1>0, <1>10, StateTypes
  <2> QED BY <2>1 DEF States
<1> HIDE DEF t
<1>12. SamePrep(d, v)
  BY <1>0, <1>10, <1>11, StatePrep
<1> HIDE DEF v
<1>13. Touches(d, v, AllOf(i))
  BY <1>12, PrepTouches
<1> QED
  BY <1>2, <1>10, <1>13, TouchesTwice

-----------------------------------------------------------------------------
(* The timer of the periods and the list *)

\* The wait for the long long period lists nothing.
LEMMA WaitLongLongTouches ==
    ASSUME conf \in DOMAIN Configurations, NEW w, IsWorld(w), NEW i
    PROVE  SamePrep(w, WaitLongLong(w, i))
BY DEF WaitLongLong, CancelRepeat, SamePrep, IsWorld, OutputType, Fields

\* The period is replaced.
LEMMA PeriodChange ==
    ASSUME conf \in DOMAIN Configurations, NEW w, IsWorld(w), NEW i, i \in Periodic,
           NEW p, p \in {"NONE", "LONG", "LONG_LONG"}
    PROVE  LET v == [w EXCEPT !.st[i].period = p] IN IsWorld(v) /\ SamePrep(w, v)
<1> DEFINE s == [w.st[i] EXCEPT !.period = p]
<1>1. w.st[i] \in States /\ i \in DOMAIN Items[conf]
  BY PeriodicIds, StateTypes
<1>2. s \in States
  BY <1>1 DEF States
<1>3. [w EXCEPT !.st[i].period = p] = [w EXCEPT !.st[i] = s]
  OBVIOUS
<1> HIDE DEF s
<1> QED
  BY <1>1, <1>2, <1>3, StatePrep

\* The long and the long long period: the short press is not touched.
LEMMA PressPeriodPart ==
    ASSUME conf \in DOMAIN Configurations, NEW w, IsWorld(w), NEW i, i \in Periodic,
           NEW p, p \in {"LONG", "LONG_LONG"}, NEW pt
    PROVE  Touches(w, PressPart([w EXCEPT !.st[i].period = p], i, p, pt), LaterOf(i))
<1> DEFINE a == [w EXCEPT !.st[i].period = p]
           b == PressPart(a, i, p, pt)
<1>1. IsWorld(a) /\ SamePrep(w, a)
  BY PeriodChange
<1> HIDE DEF a
<1>2. p \in PartNames /\ <<i, p>> \in LaterOf(i)
  BY DEF PartNames, LaterOf
<1>3. Touches(a, b, LaterOf(i))
  BY <1>1, <1>2, PressPartTouches
<1> HIDE DEF b
<1>4. Touches(w, b, LaterOf(i))
  BY <1>1, <1>3, PrepTouches, TouchesTwice
<1> QED
  BY <1>4 DEF a, b

\* The long period begins.
LEMMA BecomeLongTouches ==
    ASSUME conf \in DOMAIN Configurations, NEW w, IsWorld(w), NEW i, i \in Periodic, NEW pt
    PROVE  Touches(w, BecomeLong(w, i, pt), LaterOf(i))
<1> DEFINE a == PressPart([w EXCEPT !.st[i].period = "LONG"], i, "LONG", pt)
           s == [a.st[i] EXCEPT !.observed = TRUE]
           t == [s EXCEPT !.any = FALSE]
           b == [a EXCEPT !.st[i] = t]
           v == WaitLongLong(b, i)
<1>1. Touches(w, a, LaterOf(i)) /\ IsWorld(a)
  BY PressPeriodPart, PressPartTicks DEF Ticks, Works
<1>2. BecomeLong(w, i, pt) = v
  <2>1. b = [a EXCEPT !.st[i].observed = TRUE, !.st[i].any = FALSE]
    <3>2. a.st \in [DOMAIN Items[conf] -> States] /\ i \in DOMAIN Items[conf] /\ a.st = a.st
      BY <1>1, PeriodicIds DEF IsWorld, FunctionType
    <3>3. OutputType(a)
      BY <1>1 DEF IsWorld
    <3> HIDE DEF a
    <3>4. [[a.st EXCEPT ![i].observed = TRUE] EXCEPT ![i].any = FALSE] = [a.st EXCEPT ![i] = t]
      BY <3>2
    <3> QED BY <3>3, <3>4 DEF OutputType, Fields
  <2> HIDE DEF a, b
  <2> QED BY <2>1 DEF BecomeLong, a
<1> HIDE DEF a
<1>3. t \in States /\ i \in DOMAIN Items[conf]
  <2>1. a.st[i] \in States /\ i \in DOMAIN Items[conf]
    BY <1>1, PeriodicIds, StateTypes
  <2> QED BY <2>1 DEF States
<1> HIDE DEF t
<1>4. IsWorld(b) /\ SamePrep(a, b)
  BY <1>1, <1>3, StatePrep
<1> HIDE DEF b
<1>5. SamePrep(b, v)
  BY <1>4, WaitLongLongTouches
<1> HIDE DEF v
<1>6. Touches(a, b, LaterOf(i)) /\ Touches(b, v, LaterOf(i))
  BY <1>4, <1>5, PrepTouches
<1> QED
  BY <1>1, <1>2, <1>6, TouchesTwice

\* The long long period begins.
LEMMA BecomeLongLongTouches ==
    ASSUME conf \in DOMAIN Configurations, NEW w, IsWorld(w), NEW i, i \in Periodic, NEW pt
    PROVE  Touches(w, BecomeLongLong(w, i, pt), LaterOf(i))
<1> DEFINE a == ReleasePart(w, i, "LONG", pt)
           b == [a EXCEPT !.st[i].period = "NONE"]
           c == PressPart([a EXCEPT !.st[i].period = "LONG_LONG"], i, "LONG_LONG", pt)
<1>1. Touches(w, a, LaterOf(i)) /\ IsWorld(a)
  <2>1. "LONG" \in PartNames /\ <<i, "LONG">> \in LaterOf(i)
    BY DEF PartNames, LaterOf
  <2> QED BY <2>1, ReleasePartTouches, ReleasePartWorks DEF Works
<1>2. BecomeLongLong(w, i, pt) = b \/ BecomeLongLong(w, i, pt) = c
  BY DEF BecomeLongLong, PressLongLong
<1> HIDE DEF a
<1>3. Touches(a, b, LaterOf(i))
  BY <1>1, PeriodChange, PrepTouches
<1>4. Touches(a, c, LaterOf(i))
  BY <1>1, PressPeriodPart
<1> HIDE DEF b, c
<1> QED
  BY <1>1, <1>2, <1>3, <1>4, TouchesTwice

\* The timer: no short press is listed by it.
LEMMA FireTimerTouches ==
    ASSUME conf \in DOMAIN Configurations, NEW w, IsWorld(w)
    PROVE  IF w.dpp.target = 0 THEN FireTimer(w) = w
           ELSE w.dpp.target \in Periodic /\ Touches(w, FireTimer(w), LaterOf(w.dpp.target))
<1> DEFINE i == w.dpp.target
           pt == IF w.st[i].up THEN "UP" ELSE "DOWN"
<1>1. CASE i = 0
  BY <1>1 DEF FireTimer
<1>2. CASE i # 0
  <2>1. i \in Periodic
    BY <1>2 DEF IsWorld, FunctionType
  <2>2. w.st[i].period \in {"NONE", "SHORT", "LONG", "LONG_LONG"}
    BY <2>1, PeriodicIds, StateTypes DEF States
  <2>3. Touches(w, BecomeLong(w, i, pt), LaterOf(i)) /\ Touches(w, BecomeLongLong(w, i, pt), LaterOf(i)) /\ Touches(w, w, LaterOf(i))
    <3> HIDE DEF pt, i
    <3> QED BY <2>1, BecomeLongTouches, BecomeLongLongTouches, SameTouches
  <2>4. FireTimer(w) = CASE w.st[i].period = "NONE" -> BecomeLong(w, i, pt)
                         [] w.st[i].period = "LONG" -> BecomeLongLong(w, i, pt)
                         [] w.st[i].period \in {"SHORT", "LONG_LONG"} -> w
    BY <1>2 DEF FireTimer
  <2>5. FireTimer(w) \in {BecomeLong(w, i, pt), BecomeLongLong(w, i, pt), w}
    <3> HIDE DEF i, pt
    <3> QED BY <2>2, <2>4
  <2>6. Touches(w, FireTimer(w), LaterOf(i))
    <3> HIDE DEF pt, i
    <3> QED BY <2>3, <2>5
  <2> QED BY <1>2, <2>1, <2>6
<1> QED
  BY <1>1, <1>2

-----------------------------------------------------------------------------
(* The press and the release of an item of a period, and the list *)

\* The event is taken; the list is as it was.
LEMMA KeyPrep ==
    ASSUME conf \in DOMAIN Configurations, NEW w, IsWorld(w), NEW i, i \in Periodic,
           NEW e, e.type = "DOWN" \/ w.pressing[<<i, "ITEM">>] > 0, NEW up, up \in BOOLEAN
    PROVE  LET a == Pressing(w, i, e, up)
               v == IF e.type = "DOWN" THEN TakeKey(a, Items[conf][i].from) ELSE GiveBackKey(a, Items[conf][i].from)
           IN  IsWorld(v) /\ SamePrep(w, v)
<1> DEFINE a == Pressing(w, i, e, up)
           v == IF e.type = "DOWN" THEN TakeKey(a, Items[conf][i].from) ELSE GiveBackKey(a, Items[conf][i].from)
           down == e.type = "DOWN"
<1>1. Turns(w, v, i, <<i, "ITEM">>, down) /\ SameState(w, v, i)
  BY KeyTurns
<1> HIDE DEF v, a, down
<1>3. IsWorld(v) /\ SamePrep(w, v)
  BY <1>1 DEF Turns, SameState, Others, SamePrep
<1> QED
  BY <1>3 DEF a, v

\* The press of the key of a period: its short press is not listed.
LEMMA PressPeriodTouches ==
    ASSUME conf \in DOMAIN Configurations, NEW w, IsWorld(w), NEW i, i \in Periodic, NEW e, e.type = "DOWN",
           NEW up, up \in BOOLEAN, NEW pt
    PROVE  Touches(w, PressPeriod(Pressing(w, i, e, up), i, pt), LaterOf(i))
<1> DEFINE id == <<i, "ITEM">>
           o == Pressing(w, i, e, up)
           a == TakeKey(o, Items[conf][i].from)
           b == [a EXCEPT !.dpp.target = i, !.st[i].active = TRUE, !.st[i].period = "NONE"]
           c == DecreaseFrom(b, i)
           d == Pseudo(c, i, "BEFORE_AFTER", "DOWN", pt)
           f == SaveFlags(d, i)
           g == StartWait(f, i)
           v == RegisterPrepareTargetItem(g, id)
<1>1. IsWorld(a) /\ SamePrep(w, a)
  <2>1. LET x == IF e.type = "DOWN" THEN TakeKey(o, Items[conf][i].from) ELSE GiveBackKey(o, Items[conf][i].from)
        IN  IsWorld(x) /\ SamePrep(w, x)
    BY KeyPrep
  <2>2. (IF e.type = "DOWN" THEN TakeKey(o, Items[conf][i].from) ELSE GiveBackKey(o, Items[conf][i].from)) = a
    OBVIOUS
  <2> HIDE DEF a, o
  <2> QED BY <2>1, <2>2, Zenon DEF o
<1>2. o.items = Items[conf]
  <2>1. PressedFrom(w, o, i, e)
    BY PressingTypes
  <2> HIDE DEF o
  <2> QED BY <2>1 DEF PressedFrom, IsWorld, FunctionType
<1>3. PressPeriod(o, i, pt) = v
  <2> HIDE DEF o
  <2>1. StartPress(o, i) = b
    BY <1>2 DEF StartPress, Item
  <2> HIDE DEF b
  <2> QED BY <2>1 DEF PressPeriod
<1> HIDE DEF o, a
<1>5. Works(a, b, i) /\ b.dpp.target = i
  BY <1>1, StartWorks
<1>4. SamePrep(a, b)
  <2>1. OutputType(a)
    BY <1>1 DEF IsWorld
  <2> QED BY <2>1 DEF SamePrep, OutputType, Fields
<1> HIDE DEF b
<1>6. IsWorld(b)
  BY <1>5 DEF Works
<1>7. Shifts(b, c, i) /\ SamePrep(b, c) /\ IsWorld(c)
  BY <1>6, DecreaseFromShifts, ShiftsPrep DEF Shifts, Works
<1> HIDE DEF c
<1>8. Touches(c, d, LaterOf(i)) /\ IsWorld(d) /\ d.dpp = c.dpp
  <2>1. "BEFORE_AFTER" \in PartNames /\ <<i, "BEFORE_AFTER">> \in LaterOf(i)
    BY DEF PartNames, LaterOf
  <2>2. Goes(c, d)
    BY <1>7, <2>1, PartPseudoGoes
  <2>3. Touches(c, d, LaterOf(i))
    BY <1>7, <2>1, PartPseudoTouches
  <2> HIDE DEF d
  <2> QED BY <2>2, <2>3 DEF Goes, Aside
<1> HIDE DEF d
<1>9. Ticks(d, f, i) /\ IsWorld(f)
  BY <1>8, SaveFlagsTicks DEF Ticks, Works
<1>10. SamePrep(d, f)
  <2> DEFINE x == Sums(d.fs)
             s == [d.st[i] EXCEPT !.saved = x]
             y == [d EXCEPT !.st[i] = s]
             z == [y EXCEPT !.out.ignoreUp = TRUE]
  <2>0. i \in DOMAIN Items[conf]
    BY PeriodicIds
  <2>1. x \in [Flags -> Int]
    <3>1. d.fs \in FlagStatuses
      BY <1>8 DEF IsWorld, OutputType
    <3> QED BY <3>1, SumsType
  <2>2. SaveFlags(d, i) = ForceIncreaseFrom(z, i)
    <3>1. z = [d EXCEPT !.st[i].saved = Sums(d.fs), !.out.ignoreUp = TRUE]
      OBVIOUS
    <3> HIDE DEF z
    <3> QED BY <3>1 DEF SaveFlags
  <2> HIDE DEF x
  <2>3. s \in States
    <3>1. d.st[i] \in States
      BY <1>8, <2>0, StateTypes
    <3> QED BY <2>1, <3>1 DEF States
  <2> HIDE DEF s
  <2>4. IsWorld(y) /\ SamePrep(d, y)
    BY <1>8, <2>0, <2>3, StatePrep
  <2> HIDE DEF y
  <2>5. Sends(y, z)
    <3> DEFINE t == TRUE
    <3>1. OutputType(y) /\ t \in BOOLEAN
      BY <2>4 DEF IsWorld
    <3> HIDE DEF t
    <3>2. Sends(y, [y EXCEPT !.out.ignoreUp = t])
      BY <3>1, SetOut
    <3> QED BY <3>2, Zenon DEF t
  <2> HIDE DEF z
  <2>6. IsWorld(z)
    <3>1. Keeps(y, z)
      BY <2>5 DEF Sends, Keeps, Acts, KeepsRepeatable
    <3> QED BY <2>4, <3>1, KeepsGoes DEF Goes
  <2>7. SamePrep(y, z)
    BY <2>5 DEF Sends, Behind, SamePrep
  <2>8. SamePrep(z, ForceIncreaseFrom(z, i))
    BY <2>6, ForceIncreaseFromShifts, ShiftsPrep
  <2> QED BY <2>2, <2>4, <2>7, <2>8 DEF SamePrep
<1> HIDE DEF f
<1>11. f.dpp.target = i
  BY <1>5, <1>7, <1>8, <1>9 DEF Ticks, Shifts, SameMode
<1>12. Touches(f, g, LaterOf(i)) /\ IsWorld(g)
  <2>1. IsWorld(g)
    BY <1>9, <1>11, StartWaitTicks DEF Ticks, Works
  <2> DEFINE h == [f EXCEPT !.dpp.on = TRUE]
  <2>2. g \in {h, FireTimer(f)}
    BY DEF StartWait
  <2>3. SamePrep(f, h)
    BY <1>9 DEF SamePrep, IsWorld, OutputType, Fields
  <2> HIDE DEF h, g
  <2>4. Touches(f, FireTimer(f), LaterOf(i))
    <3>1. i # 0
      BY PeriodicNumbers
    <3> QED BY <1>9, <1>11, <3>1, FireTimerTouches
  <2>5. Touches(f, h, LaterOf(i))
    BY <2>3, PrepTouches
  <2> QED BY <2>1, <2>2, <2>4, <2>5
<1> HIDE DEF g
<1>13. Touches(g, v, LaterOf(i))
  <2>1. id \in Ids(conf) /\ {id} \subseteq LaterOf(i)
    BY PeriodicIds DEF LaterOf
  <2> HIDE DEF id
  <2> QED BY <1>12, <2>1, RegisterTouches, TouchesWider
<1> HIDE DEF v
<1>14. SamePrep(w, c)
  BY <1>1, <1>4, <1>7 DEF SamePrep
<1>15. Touches(w, c, LaterOf(i)) /\ Touches(d, f, LaterOf(i))
  BY <1>10, <1>14, PrepTouches
<1>16. Touches(w, f, LaterOf(i))
  BY <1>8, <1>15, TouchesTwice
<1>17. Touches(w, v, LaterOf(i))
  BY <1>12, <1>13, <1>16, TouchesTwice
<1> QED
  BY <1>3, <1>17 DEF o

\* The release of the key of a period.
LEMMA ReleasePeriodTouches ==
    ASSUME conf \in DOMAIN Configurations, NEW w, IsWorld(w), NEW i, i \in Periodic, NEW e, e.type # "DOWN",
           w.pressing[<<i, "ITEM">>] > 0, NEW up, up \in BOOLEAN, NEW pt, NEW late
    PROVE  Touches(w, ReleasePeriod(Pressing(w, i, e, up), i, e, pt, late), AllOf(i))
<1> DEFINE id == <<i, "ITEM">>
           o == Pressing(w, i, e, up)
           a == GiveBackKey(o, Items[conf][i].from)
           b == DoKeyDown(a, i, e, pt)
           c == DoKeyUp(b, i, pt, late)
           d == DecreaseFrom(c, i)
           f == Pseudo(d, i, "BEFORE_AFTER", "UP", pt)
           g == ForceIncreaseFrom(f, i)
           v == UnregisterPrepareTargetItem(g, id)
<1>1. IsWorld(a) /\ SamePrep(w, a)
  <2>1. LET x == IF e.type = "DOWN" THEN TakeKey(o, Items[conf][i].from) ELSE GiveBackKey(o, Items[conf][i].from)
        IN  IsWorld(x) /\ SamePrep(w, x)
    BY KeyPrep
  <2>2. (IF e.type = "DOWN" THEN TakeKey(o, Items[conf][i].from) ELSE GiveBackKey(o, Items[conf][i].from)) = a
    OBVIOUS
  <2> HIDE DEF a, o
  <2> QED BY <2>1, <2>2, Zenon DEF o
<1>2. o.items = Items[conf]
  <2>1. PressedFrom(w, o, i, e)
    BY PressingTypes
  <2> HIDE DEF o
  <2> QED BY <2>1 DEF PressedFrom, IsWorld, FunctionType
<1>3. ReleasePeriod(o, i, e, pt, late) = v
  <2> HIDE DEF o
  <2>1. GiveBackKey(o, Item(o, i).from) = a
    BY <1>2 DEF Item
  <2> HIDE DEF a
  <2> QED BY <2>1 DEF ReleasePeriod, KeysAfter
<1> HIDE DEF o, a
<1>5. Touches(a, b, AllOf(i)) /\ IsWorld(b)
  <2>1. {<<i, "SHORT">>} \subseteq AllOf(i)
    BY DEF AllOf, PartNames
  <2>2. Touches(a, b, AllOf(i))
    BY <1>1, <2>1, DoKeyDownTouches, TouchesWider
  <2>3. IF a.st[i].active THEN Ends(a, b, i) ELSE b = a
    BY <1>1, DoKeyDownEnds
  <2> HIDE DEF b
  <2>4. IsWorld(b)
    BY <1>1, <2>3 DEF Ends, Works
  <2> QED BY <2>2, <2>4
<1> HIDE DEF b
<1>7. Touches(b, c, AllOf(i)) /\ IsWorld(c)
  BY <1>5, DoKeyUpTouches, DoKeyUpWorks DEF Works
<1> HIDE DEF c
<1>9. SamePrep(c, d) /\ IsWorld(d)
  BY <1>7, DecreaseFromShifts, ShiftsPrep DEF Shifts, Works
<1> HIDE DEF d
<1>10. Touches(d, f, AllOf(i)) /\ IsWorld(f)
  <2>1. "BEFORE_AFTER" \in PartNames /\ <<i, "BEFORE_AFTER">> \in AllOf(i)
    BY DEF PartNames, AllOf
  <2> QED BY <1>9, <2>1, PartPseudoGoes, PartPseudoTouches DEF Goes
<1> HIDE DEF f
<1>11. SamePrep(f, g) /\ IsWorld(g)
  BY <1>10, ForceIncreaseFromShifts, ShiftsPrep DEF Shifts, Works
<1> HIDE DEF g
<1>12. Touches(g, v, AllOf(i))
  <2>1. {id} \subseteq AllOf(i)
    BY DEF AllOf
  <2> HIDE DEF id
  <2> QED BY <1>11, <2>1, UnregisterTouches, TouchesWider
<1> HIDE DEF v
<1>13. Touches(w, a, AllOf(i)) /\ Touches(c, d, AllOf(i)) /\ Touches(f, g, AllOf(i))
  BY <1>1, <1>9, <1>11, PrepTouches
<1>14. Touches(w, d, AllOf(i))
  BY <1>5, <1>7, <1>13, TouchesTwice
<1>15. Touches(w, v, AllOf(i))
  BY <1>10, <1>12, <1>13, <1>14, TouchesTwice
<1> QED
  BY <1>3, <1>15 DEF o

\* DependingPressingPeriodKeyToKey::remap: only a release may list the short
\* press.
LEMMA RemapPeriodTouches ==
    ASSUME conf \in DOMAIN Configurations, NEW w, IsWorld(w), NEW i, i \in Periodic,
           NEW e, e.type = "DOWN" \/ w.pressing[<<i, "ITEM">>] > 0, NEW pt, NEW late
    PROVE  LET v == RemapPeriod(w, i, e, pt, late)
           IN  IF e.type = "DOWN" THEN Touches(w, v, LaterOf(i)) ELSE Touches(w, v, AllOf(i))
<1> DEFINE up == pt = "UP"
           a == Pressing(w, i, e, up)
           v == RemapPeriod(w, i, e, pt, late)
<1>1. v = IF e.type = "DOWN" THEN PressPeriod(a, i, pt) ELSE ReleasePeriod(a, i, e, pt, late)
  BY DEF RemapPeriod, Pressing
<1>2. up \in BOOLEAN
  OBVIOUS
<1> HIDE DEF v, up
<1>3. ASSUME e.type = "DOWN"
      PROVE  Touches(w, v, LaterOf(i))
  <2>1. Touches(w, PressPeriod(a, i, pt), LaterOf(i))
    BY <1>2, <1>3, PressPeriodTouches
  <2> QED BY <1>1, <1>3, <2>1
<1>4. ASSUME e.type # "DOWN"
      PROVE  Touches(w, v, AllOf(i))
  <2>1. Touches(w, ReleasePeriod(a, i, e, pt, late), AllOf(i))
    BY <1>2, <1>4, ReleasePeriodTouches
  <2> QED BY <1>1, <1>4, <2>1
<1> QED
  BY <1>3, <1>4 DEF v

-----------------------------------------------------------------------------
(* The other functions and the list *)

\* The ids of an item.
IdsOf(i) == {x \in Ids(conf) : x[1] = i}

\* The parts of an item have ids of the item.
LEMMA IdsOfItem ==
    ASSUME conf \in DOMAIN Configurations, NEW i, i \in DOMAIN Items[conf]
    PROVE  /\ <<i, "ITEM">> \in IdsOf(i) /\ Own(i) \in IdsOf(i)
           /\ \A p \in DOMAIN Items[conf][i].parts : <<i, p>> \in IdsOf(i)
<1>1. <<i, "ITEM">> \in Ids(conf) /\ Own(i) \in Ids(conf) /\ Own(i)[1] = i
  BY IdsKinds, OwnIds
<1>2. \A p \in DOMAIN Items[conf][i].parts : <<i, p>> \in Ids(conf)
  BY IdsKinds
<1> QED
  BY <1>1, <1>2 DEF IdsOf

\* Items without a remap of their own leave the event to their main part.
LEMMA RemapFromTouches ==
    ASSUME conf \in DOMAIN Configurations, NEW w, IsWorld(w), NEW i, i \in DOMAIN Items[conf],
           Items[conf][i].main # "ITEM", NEW e, NEW pt
    PROVE  Touches(w, RemapFrom(w, i, e, pt), IdsOf(i))
<1> DEFINE id == Own(i)
           T == IdsOf(i)
           v == RemapKeyToKey(w, id, PartOf(id), e, pt)
<1>1. RemapFrom(w, i, e, pt) = v
  BY DEF RemapFrom, IsWorld, FunctionType, Item, Part, PartOf, Own
<1>2. id \in PartIds
  BY OwnIds DEF Own
<1>3. id \in T
  BY IdsOfItem
<1> HIDE DEF id, T
<1>4. Armed(id, e, T)
  BY <1>3 DEF Armed
<1>5. Touches(w, v, T)
  BY <1>2, <1>4, RemapKeyToKeyTouches
<1> QED
  BY <1>1, <1>5 DEF T

\* The fields of the states that a remap function keeps for itself.
LEMMA FieldPrep ==
    ASSUME conf \in DOMAIN Configurations, NEW w, IsWorld(w), NEW i, i \in DOMAIN Items[conf], NEW x
    PROVE  /\ x \in BOOLEAN => SamePrep(w, [w EXCEPT !.st[i].interrupted = x]) /\ IsWorld([w EXCEPT !.st[i].interrupted = x])
           /\ x \in BOOLEAN => SamePrep(w, [w EXCEPT !.st[i].ignore = x])
           /\ x \in 0..2 => SamePrep(w, [w EXCEPT !.st[i].pressCount = x]) /\ IsWorld([w EXCEPT !.st[i].pressCount = x])
<1>0. w.st[i] \in States
  BY StateTypes
<1>1. ASSUME x \in BOOLEAN
      PROVE  SamePrep(w, [w EXCEPT !.st[i].interrupted = x]) /\ IsWorld([w EXCEPT !.st[i].interrupted = x])
  <2> DEFINE s == [w.st[i] EXCEPT !.interrupted = x]
  <2>1. s \in States
    BY <1>0, <1>1 DEF States
  <2>2. [w EXCEPT !.st[i].interrupted = x] = [w EXCEPT !.st[i] = s]
    OBVIOUS
  <2> HIDE DEF s
  <2> QED BY <2>1, <2>2, StatePrep
<1>2. ASSUME x \in BOOLEAN
      PROVE  SamePrep(w, [w EXCEPT !.st[i].ignore = x])
  <2> DEFINE s == [w.st[i] EXCEPT !.ignore = x]
  <2>1. s \in States
    BY <1>0, <1>2 DEF States
  <2>2. [w EXCEPT !.st[i].ignore = x] = [w EXCEPT !.st[i] = s]
    OBVIOUS
  <2> HIDE DEF s
  <2> QED BY <2>1, <2>2, StatePrep
<1>3. ASSUME x \in 0..2
      PROVE  SamePrep(w, [w EXCEPT !.st[i].pressCount = x]) /\ IsWorld([w EXCEPT !.st[i].pressCount = x])
  <2> DEFINE s == [w.st[i] EXCEPT !.pressCount = x]
  <2>1. s \in States
    BY <1>0, <1>3 DEF States
  <2>2. [w EXCEPT !.st[i].pressCount = x] = [w EXCEPT !.st[i] = s]
    OBVIOUS
  <2> HIDE DEF s
  <2> QED BY <2>1, <2>2, StatePrep
<1> QED
  BY <1>1, <1>2, <1>3

\* An event sent by a part that is no main one.
LEMMA PseudoIdsTouches ==
    ASSUME conf \in DOMAIN Configurations, NEW w, IsWorld(w), NEW i, i \in DOMAIN Items[conf],
           NEW p, p \in DOMAIN Items[conf][i].parts, p \notin {"KTK", "FROM"}, NEW type, NEW pt
    PROVE  Touches(w, Pseudo(w, i, p, type, pt), IdsOf(i)) /\ IsWorld(Pseudo(w, i, p, type, pt))
<1>1. <<i, p>> \in IdsOf(i)
  BY IdsOfItem
<1>2. Touches(w, Pseudo(w, i, p, type, pt), IdsOf(i))
  BY <1>1, PseudoTouches
<1>3. IsWorld(Pseudo(w, i, p, type, pt))
  BY PseudoGoes DEF Goes
<1> QED
  BY <1>2, <1>3

\* KeyDownUpToKey::remap touches its own entries.
LEMMA RemapDownUpTouches ==
    ASSUME conf \in DOMAIN Configurations, NEW w, IsWorld(w), NEW i, i \in DownUps, NEW pt
    PROVE  Touches(w, RemapDownUp(w, i, pt), IdsOf(i))
<1> DEFINE T == IdsOf(i)
           a == [w EXCEPT !.st[i].interrupted = FALSE]
           b == Pseudo(a, i, "INTERRUPTED", "UP", pt)
           c == EndInterrupted(w, i, pt)
           d == RegisterPrepareTargetItem(c, <<i, "ITEM">>)
           f == [d EXCEPT !.st[i].interrupted = FALSE]
           v == RegisterDownUp(c, i)
<1>1. /\ i \in DOMAIN Items[conf] /\ i \notin Periodic
      /\ "INTERRUPTED" \in DOMAIN Items[conf][i].parts
  BY PartOfItem DEF DownUps
<1>2. \A u, x : IsWorld(u) /\ x \in BOOLEAN => SamePrep(u, [u EXCEPT !.st[i].interrupted = x])
                                               /\ IsWorld([u EXCEPT !.st[i].interrupted = x])
  BY <1>1, FieldPrep
<1>3. SamePrep(w, a) /\ IsWorld(a)
  BY <1>2
<1>4. Touches(a, b, T) /\ IsWorld(b)
  <2>1. "INTERRUPTED" \notin {"KTK", "FROM"}
    OBVIOUS
  <2> HIDE DEF a
  <2> QED BY <1>1, <1>3, <2>1, PseudoIdsTouches
<1>5. c \in {b, w}
  <2> HIDE DEF a, b
  <2> QED BY DEF EndInterrupted, a, b
<1> HIDE DEF a, b, c
<1>6. Touches(w, c, T) /\ IsWorld(c)
  <2>1. Touches(w, a, T) /\ Touches(w, w, T)
    BY <1>3, PrepTouches, SameTouches
  <2>2. Touches(w, b, T)
    BY <1>4, <2>1, TouchesTwice
  <2> QED BY <1>4, <1>5, <2>1, <2>2
<1>7. Touches(c, d, T) /\ IsWorld(d)
  <2>1. <<i, "ITEM">> \in Ids(conf)
    BY <1>1, IdsKinds
  <2>2. {<<i, "ITEM">>} \subseteq T
    BY <1>1, IdsOfItem
  <2>3. Touches(c, d, {<<i, "ITEM">>})
    BY <1>6, <2>1, RegisterTouches
  <2>4. IsWorld(d)
    BY <1>6, <2>1, RegisterType
  <2> QED BY <2>2, <2>3, <2>4, TouchesWider
<1>8. v \in {f, c}
  <2> HIDE DEF d
  <2> QED BY DEF RegisterDownUp, d
<1> HIDE DEF d
<1>9. Touches(d, f, T)
  BY <1>2, <1>7, PrepTouches
<1> HIDE DEF f, v
<1>10. Touches(w, f, T)
  BY <1>6, <1>7, <1>9, TouchesTwice
<1>11. Touches(w, v, T)
  BY <1>6, <1>8, <1>10
<1> QED
  BY <1>11 DEF v, c, RemapDownUp

\* So does DoublePressModifier::remap.
LEMMA RemapDoublePressTouches ==
    ASSUME conf \in DOMAIN Configurations, NEW w, IsWorld(w), NEW i, i \in DOMAIN Items[conf],
           Items[conf][i].type = "DOUBLEPRESSMODIFIER", NEW e, e.type \in {"DOWN", "UP"}, NEW pt, NEW late
    PROVE  Touches(w, RemapDoublePress(w, i, e, pt, late), IdsOf(i))
<1> DEFINE T == IdsOf(i)
           count == IF late THEN 0 ELSE w.st[i].pressCount
           n == IF count = 0 THEN 1 ELSE 2
           a == [w EXCEPT !.st[i].pressCount = n]
           b == [w EXCEPT !.st[i].pressCount = count]
           c == [w EXCEPT !.st[i].pressCount = 0]
           fs == SetTemporary(c.fs)
           d == [c EXCEPT !.fs = fs]
           f == PseudoDownUp(d, i, "FIRE", pt)
           v == RemapDoublePress(w, i, e, pt, late)
<1>1. i \notin Periodic /\ "FIRE" \in DOMAIN Items[conf][i].parts
  BY PartOfItem
<1>2. \A x : x \in 0..2 => SamePrep(w, [w EXCEPT !.st[i].pressCount = x]) /\ IsWorld([w EXCEPT !.st[i].pressCount = x])
  BY <1>1, FieldPrep
<1>3. w.st[i] \in States
  BY StateTypes
<1>4. count \in 0..2 /\ n \in 0..2
  BY <1>3 DEF States
<1>5. SamePrep(w, a) /\ SamePrep(w, b) /\ SamePrep(w, c) /\ IsWorld(c)
  <2> HIDE DEF n, count
  <2> QED BY <1>2, <1>4
<1>6. v = CASE e.type = "DOWN" -> a
            [] e.type = "UP" /\ count < 2 -> b
            [] e.type = "UP" /\ count >= 2 -> f
  <2>1. d = [w EXCEPT !.st[i].pressCount = 0, !.fs = SetTemporary(@)]
    BY DEF IsWorld, OutputType, Fields
  <2> HIDE DEF d
  <2> QED BY <2>1 DEF RemapDoublePress
<1> HIDE DEF a, b, c, n
<1>8. fs \in FlagStatuses
  <2>1. c.fs \in FlagStatuses
    BY <1>5 DEF IsWorld, OutputType
  <2> QED BY <2>1, TemporaryType
<1> HIDE DEF fs
<1>9. IsWorld(d) /\ SamePrep(c, d)
  <2>1. IsWorld(d)
    BY <1>5, <1>8, SetFlagsAlong DEF Along
  <2>2. OutputType(c)
    BY <1>5 DEF IsWorld
  <2> QED BY <2>1, <2>2, FieldsKept DEF SamePrep
<1> HIDE DEF d
<1>10. Touches(d, f, T)
  <2>1. "FIRE" \notin {"KTK", "FROM"} /\ <<i, "FIRE">> \in T
    BY <1>1, IdsOfItem
  <2> QED BY <1>1, <1>9, <2>1, PseudoDownUpTouches
<1> HIDE DEF f, v
<1>11. Touches(w, a, T) /\ Touches(w, b, T) /\ Touches(w, c, T) /\ Touches(c, d, T)
  BY <1>5, <1>9, PrepTouches
<1>12. Touches(w, f, T)
  BY <1>10, <1>11, TouchesTwice
<1>13. v \in {a, b, f}
  <2> HIDE DEF count
  <2> QED BY <1>4, <1>6
<1>14. Touches(w, v, T)
  BY <1>11, <1>12, <1>13
<1> QED
  BY <1>14 DEF v

\* IgnoreMultipleSameKeyPress::remap lists nothing.
LEMMA RemapIgnorePrep ==
    ASSUME conf \in DOMAIN Configurations, NEW w, IsWorld(w), NEW i, i \in DOMAIN Items[conf],
           Items[conf][i].type = "IGNOREMULTIPLESAMEKEYPRESS", NEW e, Remaps(w, i, e)
    PROVE  SamePrep(w, RemapIgnore(w, i, e))
<1> DEFINE id == <<i, "ITEM">>
           a == ChangePressingState(w, id, e)
           b == [a EXCEPT !.remapped = TRUE]
           x == a.pressing[id] = 0
           c == [a EXCEPT !.st[i].ignore = x]
<1>1. i \notin Periodic /\ Own(i) = id /\ id \in Ids(conf)
  BY PartOfItem, IdsKinds DEF Own
<1>2. e.type = "DOWN" \/ w.pressing[id] > 0
  BY <1>1 DEF Remaps, IsTarget, IsWorld, FunctionType, Item, Own
<1>3. IsWorld(a) /\ Aside(a) = Aside(w) /\ a.prep = w.prep
  <2> HIDE DEF id
  <2> QED BY <1>1, <1>2, PressChange
<1>4. RemapIgnore(w, i, e) \in {b, c}
  BY DEF RemapIgnore
<1>5. x \in BOOLEAN
  OBVIOUS
<1> HIDE DEF a, x
<1>6. Aside(b) = Aside(a) /\ b.prep = a.prep
  BY <1>3, SetRemapped, Zenon
<1>7. SamePrep(a, c)
  BY <1>3, <1>5, FieldPrep
<1> HIDE DEF b, c
<1>8. SamePrep(w, a) /\ SamePrep(a, b)
  BY <1>3, <1>6 DEF Aside, SamePrep
<1> QED
  BY <1>4, <1>7, <1>8 DEF SamePrep

\* Nor does an event that passes an item.
LEMMA PassesPrep ==
    ASSUME conf \in DOMAIN Configurations, NEW w, IsWorld(w), NEW i, i \in DOMAIN Items[conf], NEW e
    PROVE  SamePrep(w, Passes(w, i, e))
<1> DEFINE a == [w EXCEPT !.st[i].pressCount = 0]
           b == [w EXCEPT !.st[i].ignore = FALSE]
<1>1. SamePrep(w, a)
  <2>1. \A x : x \in 0..2 => SamePrep(w, [w EXCEPT !.st[i].pressCount = x])
    BY FieldPrep
  <2>2. 0 \in 0..2
    OBVIOUS
  <2> QED BY <2>1, <2>2
<1>2. SamePrep(w, b)
  <2>1. \A x : x \in BOOLEAN => SamePrep(w, [w EXCEPT !.st[i].ignore = x])
    BY FieldPrep
  <2>2. FALSE \in BOOLEAN
    OBVIOUS
  <2> QED BY <2>1, <2>2, Zenon
<1>3. SamePrep(w, w)
  BY DEF SamePrep
<1>4. Passes(w, i, e) \in {a, b, w}
  BY DEF Passes
<1> HIDE DEF a, b
<1> QED
  BY <1>1, <1>2, <1>3, <1>4

-----------------------------------------------------------------------------
(* KeyDownUpToKey has no delayed action *)

\* A KeyToKey to which no option was added.
Plain(k) == k \in KeyToKeys /\ k.current = "TO" /\ ~HasDelayedAction(k)

\* The to keys of a plain KeyToKey are replaced.
LEMMA SetCurrentPlain ==
    ASSUME NEW k, Plain(k), NEW keys \in Seq(ToEvents), keys # <<>>
    PROVE  Plain(SetCurrentToEvent(k, keys))
<1> DEFINE l == k.lists["TO"]
           m == IF l = <<>> THEN <<keys>> ELSE Append(Front(l), keys)
           v == SetCurrentToEvent(k, keys)
<1>1. v \in KeyToKeys
  BY SetCurrentToEventType DEF Plain
<1>2. v = [k EXCEPT !.lists["TO"] = m]
  BY DEF SetCurrentToEvent, Plain
<1> HIDE DEF m
<1>3. v.current = "TO" /\ \A n \in {"DELAYED", "CANCELED_DEFAULT", "CANCELED_BY"} : v.lists[n] = k.lists[n]
  BY <1>2 DEF Plain, KeyToKeys, ListNames
<1> HIDE DEF v
<1>4. Plain(v)
  BY <1>1, <1>3 DEF Plain, HasDelayedAction
<1> QED
  BY <1>4 DEF v

\* A key code is added to it.
LEMMA AddCodePlain ==
    ASSUME NEW k, Plain(k), NEW code \in KeyCodes
    PROVE  Plain(AddCode(k, code))
<1> DEFINE b == IF k.index = 0 THEN [k EXCEPT !.from = code] ELSE PushToEvent(k, code)
           v == AddCode(k, code)
<1>1. Plain([k EXCEPT !.from = code])
  <2> DEFINE f == [k EXCEPT !.from = code]
  <2>1. f \in KeyToKeys /\ f.current = k.current /\ f.lists = k.lists
    BY DEF KeyToKeys, Plain
  <2> HIDE DEF f
  <2>2. Plain(f)
    BY <2>1 DEF Plain, HasDelayedAction
  <2> QED BY <2>2 DEF f
<1>2. Plain(PushToEvent(k, code))
  <2> DEFINE s == CurrentToEvent(k)
             to == ToEvent(code)
  <2>1. s \in Seq(ToEvents) /\ to \in ToEvents
    BY CurrentToEventType DEF ToEvent, ToEvents, Plain
  <2>2. PushToEvent(k, code) = SetCurrentToEvent(k, Append(s, to))
    BY DEF PushToEvent
  <2> HIDE DEF s, to
  <2>3. Append(s, to) \in Seq(ToEvents) /\ Append(s, to) # <<>>
    <3>1. Append(s, to) \in Seq(ToEvents) /\ Len(Append(s, to)) = Len(s) + 1 /\ Len(s) \in Nat
      BY <2>1
    <3>2. Len(<<>>) = 0 /\ Len(Append(s, to)) # 0
      BY <3>1
    <3>3. Append(s, to) # <<>>
      BY <3>2, Zenon
    <3> QED BY <3>1, <3>3
  <2> QED BY <2>2, <2>3, SetCurrentPlain
<1>3. Plain(b)
  BY <1>1, <1>2
<1>4. v = [b EXCEPT !.index = b.index + 1]
  BY DEF AddCode
<1>5. v \in KeyToKeys
  BY AddCodeType DEF Plain
<1> HIDE DEF b
<1>6. v.current = b.current /\ v.lists = b.lists
  BY <1>3, <1>4 DEF Plain, KeyToKeys
<1> HIDE DEF v
<1>7. Plain(v)
  BY <1>3, <1>5, <1>6 DEF Plain, HasDelayedAction
<1> QED
  BY <1>7 DEF v

\* A flag is added to it.
LEMMA AddFlagPlain ==
    ASSUME NEW k, Plain(k), NEW flag \in FlagNames
    PROVE  Plain(AddFlag(k, flag))
<1> DEFINE keys == CurrentToEvent(k)
           more == [keys EXCEPT ![Len(keys)].mods = @ \cup {flag}]
           f == [k EXCEPT !.fromFlags = k.fromFlags \cup {flag}]
<1>1. keys \in Seq(ToEvents) /\ k.index \in Nat /\ k \in KeyToKeys
  BY CurrentToEventType DEF KeyToKeys, Plain
<1>2. keys # <<>> => more \in Seq(ToEvents) /\ more # <<>>
  <2>1. SUFFICES ASSUME keys # <<>>
                 PROVE  more \in Seq(ToEvents) /\ more # <<>>
    OBVIOUS
  <2>2. Len(keys) \in DOMAIN keys /\ keys[Len(keys)] \in ToEvents
    BY <1>1, <2>1
  <2>3. [keys[Len(keys)] EXCEPT !.mods = @ \cup {flag}] \in ToEvents
    BY <2>2 DEF ToEvents
  <2> HIDE DEF keys
  <2> QED BY <1>1, <2>2, <2>3
<1>3. Plain(f)
  <2>1. f \in KeyToKeys /\ f.current = k.current /\ f.lists = k.lists
    BY DEF KeyToKeys, Plain
  <2> HIDE DEF f
  <2> QED BY <2>1 DEF Plain, HasDelayedAction
<1>4. AddFlag(k, flag) \in {k, f, IF keys = <<>> THEN k ELSE SetCurrentToEvent(k, more)}
  BY <1>1 DEF AddFlag
<1> HIDE DEF keys, more, f
<1>5. keys # <<>> => Plain(SetCurrentToEvent(k, more))
  BY <1>2, SetCurrentPlain
<1> QED
  BY <1>3, <1>4, <1>5

\* Only an option can give a KeyToKey a delayed action.
LEMMA AddTokenPlain ==
    ASSUME NEW k, Plain(k), NEW token, IsToken(token), token.d # "option"
    PROVE  Plain(AddToken(k, token))
BY AddCodePlain, AddFlagPlain DEF AddToken, IsToken

\* A new KeyToKey is plain.
LEMMA NewPlain == Plain(NewKeyToKey)
BY NewKeyToKeyType DEF Plain, HasDelayedAction, NewKeyToKey, ListNames

\* So is one whose to keys are cleared.
LEMMA ClearPlain ==
    ASSUME NEW k, Plain(k)
    PROVE  Plain(ClearToKeys(k))
<1> DEFINE v == ClearToKeys(k)
<1>1. v \in KeyToKeys
  BY ClearToKeysType DEF Plain
<1>2. v.current = "TO" /\ \A n \in ListNames : v.lists[n] = <<>>
  BY DEF ClearToKeys, Plain, KeyToKeys
<1> HIDE DEF v
<1>3. Plain(v)
  BY <1>1, <1>2 DEF Plain, HasDelayedAction, ListNames
<1> QED
  BY <1>3 DEF v

\* Every KeyToKey of the item is plain.
PlainParts(b) == b.parts \in [{"FROM", "DOWNUP", "INTERRUPTED"} -> {k \in KeyToKeys : Plain(k)}]

\* A token that is no option keeps the KeyToKeys plain.
LEMMA AddToPartsPlain ==
    ASSUME NEW b, PlainParts(b), "parts" \in DOMAIN b, NEW P, NEW token, IsToken(token), token.d # "option"
    PROVE  LET v == AddToParts(b, P, token) IN PlainParts(v) /\ DOMAIN v = DOMAIN b
<1> DEFINE v == AddToParts(b, P, token)
           parts == [p \in DOMAIN b.parts |-> IF p \in P THEN AddToken(b.parts[p], token) ELSE b.parts[p]]
           D == {"FROM", "DOWNUP", "INTERRUPTED"}
           K == {k \in KeyToKeys : Plain(k)}
<1>1. \A k \in K : AddToken(k, token) \in K
  BY AddTokenPlain DEF Plain
<1>2. b.parts \in [D -> K]
  BY DEF PlainParts
<1> HIDE DEF K, D
<1>3. parts \in [D -> K]
  BY <1>1, <1>2
<1>4. v = [b EXCEPT !.parts = parts]
  BY DEF AddToParts
<1> HIDE DEF parts, v
<1>5. v.parts = parts /\ DOMAIN v = DOMAIN b
  BY <1>4
<1> QED
  BY <1>3, <1>5 DEF PlainParts, v, K, D

\* KeyDownUpToKey::add hands no option to its KeyToKeys.
LEMMA AddDownUpPlain ==
    ASSUME NEW b \in Builders("KEYDOWNUPTOKEY"), PlainParts(b), NEW token, IsToken(token)
    PROVE  PlainParts(AddDownUp(b, token))
<1> DEFINE v == AddDownUp(b, token)
           OK(x) == PlainParts(x) /\ "parts" \in DOMAIN x
<1>0. b.index \in 0..3 /\ token.d \in {"code", "flag", "option"}
  BY BuilderFields DEF IsToken
<1>1. OK(b)
  BY DEF Builders
<1>2. \A x, P : OK(x) /\ token.d # "option" => OK(AddToParts(x, P, token))
  BY AddToPartsPlain
<1>3. \A x, P : OK(x) => OK(AddToParts(x, P, PseudoToken))
  <2>1. PseudoToken.d # "option" /\ IsToken(PseudoToken)
    BY KnownCodes DEF PseudoToken, Token
  <2> QED BY <2>1, AddToPartsPlain
<1>4. \A x, n : OK(x) => OK([x EXCEPT !.index = n])
  BY DEF PlainParts
<1>5. OK([b EXCEPT !.parts["INTERRUPTED"] = ClearToKeys(@)])
  <2> DEFINE c == ClearToKeys(b.parts["INTERRUPTED"])
             parts == [b.parts EXCEPT !["INTERRUPTED"] = c]
             u == [b EXCEPT !.parts = parts]
             K == {k \in KeyToKeys : Plain(k)}
  <2>1. b.parts["INTERRUPTED"] \in K
    BY DEF PlainParts
  <2>2. c \in K
    BY <2>1, ClearPlain DEF Plain
  <2>3. [b EXCEPT !.parts["INTERRUPTED"] = ClearToKeys(@)] = u
    OBVIOUS
  <2> HIDE DEF c
  <2>4. parts \in [{"FROM", "DOWNUP", "INTERRUPTED"} -> K]
    BY <2>2 DEF PlainParts
  <2> HIDE DEF parts, K
  <2>5. u.parts = parts /\ DOMAIN u = DOMAIN b
    BY <1>1
  <2> HIDE DEF u
  <2>6. OK(u)
    BY <1>1, <2>4, <2>5 DEF PlainParts, K
  <2> QED BY <2>3, <2>6
<1> HIDE DEF OK
<1>6. CASE token.d = "code"
  <2> DEFINE b1 == AddToParts(b, {"FROM"}, token)
             b2 == AddToParts(b1, {"DOWNUP", "INTERRUPTED"}, PseudoToken)
             b3 == AddToParts(b2, {"INTERRUPTED"}, token)
             c1 == AddToParts(b, {"DOWNUP"}, token)
             d1 == AddToParts([b EXCEPT !.parts["INTERRUPTED"] = ClearToKeys(@)], {"INTERRUPTED"}, token)
  <2>1. OK(b1) /\ OK(c1) /\ OK(d1)
    BY <1>1, <1>2, <1>5, <1>6
  <2>2. OK(b2)
    BY <1>3, <2>1
  <2>3. OK(b3)
    BY <1>2, <1>6, <2>2
  <2>4. v \in {[b3 EXCEPT !.index = 1], [c1 EXCEPT !.index = 2], d1}
    BY <1>0, <1>6 DEF AddDownUp
  <2> HIDE DEF b1, b2, b3, c1, d1
  <2>5. OK([b3 EXCEPT !.index = 1]) /\ OK([c1 EXCEPT !.index = 2])
    BY <1>4, <2>1, <2>3
  <2>6. OK(v)
    BY <2>1, <2>4, <2>5
  <2> QED BY <2>6 DEF OK
<1>7. CASE token.d = "flag"
  <2> DEFINE P == CASE b.index = 0 -> {} [] b.index = 1 -> DOMAIN b.parts
                    [] b.index = 2 -> {"DOWNUP"} [] b.index = 3 -> {"INTERRUPTED"}
  <2>1. v = AddToParts(b, P, token)
    BY <1>7 DEF AddDownUp
  <2> HIDE DEF P
  <2>2. OK(v)
    BY <1>1, <1>2, <1>7, <2>1
  <2> QED BY <2>2 DEF OK
<1>8. CASE token.d = "option"
  <2>1. v \in {[b EXCEPT !.index = 3], b}
    BY <1>8 DEF AddDownUp
  <2>2. OK(v)
    BY <1>1, <1>4, <2>1
  <2> QED BY <2>2 DEF OK
<1> QED
  BY <1>0, <1>6, <1>7, <1>8

PlainSoFar(n, b, type) == type = "KEYDOWNUPTOKEY" /\ b \in Builders(type) /\ PlainParts(b)
Plaining == INSTANCE FoldProofs WITH Op <- AddStep, I <- PlainSoFar

\* The KeyToKeys of KeyDownUpToKey have no delayed action, whatever the tokens
\* of the item: by the fold over them.
LEMMA DownUpPlain ==
    ASSUME conf \in DOMAIN Configurations, NEW i, i \in DownUps, NEW p, p \in DOMAIN Items[conf][i].parts
    PROVE  ~HasDelayedAction(PartOf(<<i, p>>))
<1> DEFINE item == Configurations[conf].items[i]
           type == item.type
           tokens == item.tokens
           b == FoldLeft(LAMBDA x, token : Add(item.type, x, token), NewItem(item.type), item.tokens)
           main == MainPart(item.type)
<1>1. Items[conf][i] = NewRemapClassItem(item) /\ type = "KEYDOWNUPTOKEY" /\ IsList(tokens)
      /\ Len(tokens) \in Nat /\ DOMAIN tokens = 1..Len(tokens)
  <2>1. DOMAIN Items[conf] = DOMAIN Configurations[conf].items
        /\ \A j \in DOMAIN Items[conf] : Items[conf][j].type = Configurations[conf].items[j].type
    BY ItemsType
  <2>2. i \in DOMAIN Configurations[conf].items
    BY <2>1 DEF DownUps
  <2>3. IsList(tokens)
    BY <2>2, ConfigurationsAssumption
  <2> QED BY <2>1, <2>2, <2>3 DEF Items, IsList, DownUps
<1>2. \A n \in DOMAIN tokens : IsToken(tokens[n])
  <2>1. SUFFICES ASSUME NEW n \in DOMAIN tokens
                 PROVE  IsToken(tokens[n])
    OBVIOUS
  <2>2. i \in DOMAIN Configurations[conf].items
    BY ItemsType DEF DownUps
  <2>3. tokens[n] \in ItemTokens(item)
    BY DEF ItemTokens
  <2>4. tokens[n] \in ConfigurationTokens(conf)
    BY <2>2, <2>3 DEF ConfigurationTokens
  <2>5. tokens[n] \in Tokens
    BY <2>4 DEF Tokens
  <2>6. tokens[n].d \in {"code", "flag", "option"}
    BY <2>2, ConfigurationsAssumption
  <2> HIDE DEF tokens
  <2> QED BY <2>5, <2>6 DEF IsToken, KeyCodes, FlagNames
<1>3. NewRemapClassItem(item) = WithFunction(item, b, main)
  BY DEF NewRemapClassItem
<1>4. b = Plaining!Fold(NewItem(type), tokens, type, 0, 0, 0)
  BY DEF Plaining!Fold, AddStep, FoldLeft, MapThenFoldSet, Plaining!MapThenFoldSet,
         Max
<1> HIDE DEF b, tokens, item, main
<1>5. PlainSoFar(0, NewItem(type), type)
  <2>1. NewItem(type) \in Builders(type)
    BY <1>1, NewItemType DEF ItemTypes
  <2>2. NewItem(type).parts = [p2 \in {"FROM", "DOWNUP", "INTERRUPTED"} |-> NewKeyToKey]
    BY <1>1 DEF NewItem, PartsOf, PeriodParts
  <2>3. NewKeyToKey \in {k \in KeyToKeys : Plain(k)}
    BY NewPlain DEF Plain
  <2>4. PlainParts(NewItem(type))
    BY <2>2, <2>3 DEF PlainParts
  <2> QED BY <1>1, <2>1, <2>4 DEF PlainSoFar
<1>6. \A k \in 1..Len(tokens) : \A a : PlainSoFar(k - 1, a, type) => PlainSoFar(k, AddStep(a, tokens[k], type, 0, 0, 0), type)
  <2>1. SUFFICES ASSUME NEW k \in 1..Len(tokens), NEW a, PlainSoFar(k - 1, a, type)
                 PROVE  PlainSoFar(k, AddStep(a, tokens[k], type, 0, 0, 0), type)
    OBVIOUS
  <2>2. IsToken(tokens[k]) /\ "KEYDOWNUPTOKEY" \in ItemTypes
    BY <1>1, <1>2 DEF ItemTypes
  <2>3. AddStep(a, tokens[k], type, 0, 0, 0) = AddDownUp(a, tokens[k])
    BY <1>1 DEF AddStep, Add
  <2>4. AddDownUp(a, tokens[k]) \in Builders("KEYDOWNUPTOKEY")
    BY <1>1, <2>1, <2>2, AddDownUpType DEF PlainSoFar
  <2>5. PlainParts(AddDownUp(a, tokens[k]))
    BY <1>1, <2>1, <2>2, AddDownUpPlain DEF PlainSoFar
  <2> QED BY <1>1, <2>3, <2>4, <2>5 DEF PlainSoFar
<1>7. PlainSoFar(Len(tokens), Plaining!Fold(NewItem(type), tokens, type, 0, 0, 0), type)
  <2> HIDE DEF type
  <2> QED BY <1>1, <1>5, <1>6, Plaining!FoldMaintains
<1>8. PlainParts(b)
  BY <1>4, <1>7 DEF PlainSoFar
<1>9. Items[conf][i].parts = b.parts
  <2> DEFINE v == WithFunction(item, b, main)
  <2>1. v.parts = b.parts
    BY DEF WithFunction
  <2> HIDE DEF v
  <2> QED BY <1>1, <1>3, <2>1 DEF v
<1>10. Plain(Items[conf][i].parts[p])
  BY <1>8, <1>9 DEF PlainParts
<1> QED
  BY <1>10 DEF Plain, PartOf

-----------------------------------------------------------------------------
(* prepare of an entry and the list *)

\* No short press is on the list of an item that waits.
Unarmed(w) == \A j \in Periodic : w.st[j].active => ~Listed(w.prep, <<j, "SHORT">>)

\* The same items of a period wait.
SameWaits(w, v) == \A j \in Periodic : v.st[j].active = w.st[j].active

\* What prepare of the entry id does to the list: no other entry goes, and a
\* press lets none come, and takes a KeyToKey off the list.
Calls(w, v, id, e) ==
    /\ v.walk = w.walk
    /\ Single(w.prep) => Single(v.prep)
    /\ Unarmed(v)
    /\ \A x : x # id /\ Listed(w.prep, x) => Listed(v.prep, x)
    /\ e.type = "DOWN" => /\ \A x : Listed(v.prep, x) => Listed(w.prep, x)
                          /\ id[2] # "ITEM" => ~Listed(v.prep, id)

\* Only the entry that is called may go.
LEMMA OnlyItselfCalls ==
    ASSUME NEW w, Unarmed(w), NEW v, NEW id, NEW e, Touches(w, v, {id}),
           e.type # "DOWN" \/ ~Listed(v.prep, id) \/ id[2] = "ITEM",
           ~Listed(v.prep, id) \/ v = w, SameWaits(w, v)
    PROVE  Calls(w, v, id, e)
<1>1. \A x : x # id => (Listed(v.prep, x) <=> Listed(w.prep, x))
  BY DEF Touches
<1>2. \A x : Listed(v.prep, x) => Listed(w.prep, x)
  BY <1>1
<1>3. Unarmed(v)
  BY <1>2 DEF Unarmed, SameWaits
<1> QED
  BY <1>1, <1>2, <1>3 DEF Calls, Touches

\* KeyToKey::prepare takes no other entry off the list.
LEMMA PrepareKeyToKeyCalls ==
    ASSUME conf \in DOMAIN Configurations, NEW w, IsWorld(w), Unarmed(w), NEW id, id \in PartIds, NEW e
    PROVE  Calls(w, PrepareKeyToKey(w, id, PartOf(id), e), id, e)
<1> DEFINE v == PrepareKeyToKey(w, id, PartOf(id), e)
<1>1. Touches(w, v, {id}) /\ (e.type # "DOWN" => v = w) /\ (e.type = "DOWN" => ~Listed(v.prep, id))
  BY PrepareKeyToKeyTouches
<1>2. v.st = w.st
  <2>1. Goes(w, v)
    BY PrepareKeyToKeyGoes
  <2> HIDE DEF v
  <2> QED BY <2>1 DEF Goes, Aside
<1> HIDE DEF v
<1>3. SameWaits(w, v)
  BY <1>2 DEF SameWaits
<1>4. /\ e.type # "DOWN" \/ ~Listed(v.prep, id) \/ id[2] = "ITEM"
      /\ ~Listed(v.prep, id) \/ v = w
  BY <1>1
<1>5. Calls(w, v, id, e)
  BY <1>1, <1>3, <1>4, OnlyItselfCalls
<1> QED
  BY <1>5 DEF v

\* KeyDownUpToKey::prepare takes its entry off the list.
LEMMA PrepareDownUpTouches ==
    ASSUME conf \in DOMAIN Configurations, NEW w, IsWorld(w), NEW i, i \in DownUps, NEW e, NEW pt
    PROVE  LET v == PrepareDownUp(w, i, e, pt)
           IN  Touches(w, v, {<<i, "ITEM">>}) /\ (v = w \/ ~Listed(v.prep, <<i, "ITEM">>))
<1> DEFINE T == {<<i, "ITEM">>}
           a == RemapFrom(w, i, e, pt)
           b == PseudoDownUp(a, i, "DOWNUP", pt)
           c == Pseudo(w, i, "INTERRUPTED", "DOWN", pt)
           x == TRUE
           d == [c EXCEPT !.st[i].interrupted = x]
           f == IF Remaps(w, i, e) THEN b ELSE d
           g == UnregisterPrepareTargetItem(f, <<i, "ITEM">>)
           v == PrepareDownUp(w, i, e, pt)
<1>0. /\ i \in DOMAIN Items[conf] /\ i \notin Periodic /\ Items[conf][i].main = "FROM"
      /\ {"FROM", "DOWNUP", "INTERRUPTED"} \subseteq DOMAIN Items[conf][i].parts
  <2>1. i \in DOMAIN Items[conf] /\ Items[conf][i].type = "KEYDOWNUPTOKEY"
    BY DEF DownUps
  <2>2. IsItem(Items[conf][i])
    BY <2>1, ItemsType
  <2> QED BY <2>1, <2>2, PartOfItem DEF IsItem, PartsOf
<1>1. v \in {g, w}
  BY DEF PrepareDownUp
<1>2. \A p \in DOMAIN Items[conf][i].parts : ~HasDelayedAction(PartOf(<<i, p>>))
  BY DownUpPlain
<1>3. ASSUME Remaps(w, i, e)
      PROVE  Touches(w, b, T) /\ IsWorld(b)
  <2>1. TakesDown(w, a, i, e)
    BY <1>0, <1>3, RemapFromTakes
  <2>2. Touches(w, a, T)
    <3> DEFINE id == Own(i)
    <3>1. a = RemapKeyToKey(w, id, PartOf(id), e, pt)
      BY DEF RemapFrom, IsWorld, FunctionType, Item, Part, PartOf, Own
    <3>2. id \in PartIds
      BY <1>0, OwnIds DEF Own
    <3>3. Armed(id, e, T)
      BY <1>0, <1>2 DEF Armed, Own
    <3> HIDE DEF id, a, T
    <3> QED BY <3>1, <3>2, <3>3, RemapKeyToKeyTouches
  <2> HIDE DEF a, T
  <2>3. IsWorld(a)
    BY <2>1 DEF TakesDown, Steps
  <2>4. "DOWNUP" \notin {"KTK", "FROM"} /\ "DOWNUP" \in DOMAIN Items[conf][i].parts
    BY <1>0
  <2>5. Touches(a, b, T)
    BY <1>0, <1>2, <2>3, <2>4, PseudoDownUpTouches
  <2>6. IsWorld(b)
    BY <1>0, <2>3, <2>4, PseudoDownUpGoes DEF Goes
  <2> HIDE DEF b
  <2> QED BY <2>2, <2>5, <2>6, TouchesTwice
<1>4. Touches(w, c, T) /\ IsWorld(c)
  <2> HIDE DEF T
  <2>1. "INTERRUPTED" \notin {"KTK", "FROM"} /\ "INTERRUPTED" \in DOMAIN Items[conf][i].parts
    BY <1>0
  <2>2. Touches(w, c, T)
    BY <1>0, <1>2, <2>1, PseudoTouches
  <2>3. IsWorld(c)
    BY <1>0, <2>1, PseudoGoes DEF Goes
  <2> QED BY <2>2, <2>3
<1> HIDE DEF b, c
<1>5. SamePrep(c, d) /\ IsWorld(d)
  <2>1. x \in BOOLEAN
    OBVIOUS
  <2> HIDE DEF x
  <2> QED BY <1>0, <1>4, <2>1, FieldPrep
<1> HIDE DEF x, d
<1>6. Touches(w, d, T)
  BY <1>4, <1>5, PrepTouches, TouchesTwice
<1>7. f = IF Remaps(w, i, e) THEN b ELSE d
  OBVIOUS
<1> HIDE DEF f
<1>8. Touches(w, f, T) /\ IsWorld(f)
  BY <1>3, <1>5, <1>6, <1>7
<1>9. Touches(f, g, T) /\ ~Listed(g.prep, <<i, "ITEM">>)
  BY <1>8, UnregisterTouches
<1> HIDE DEF g, v, T
<1>10. Touches(w, g, T) /\ Touches(w, w, T)
  BY <1>8, <1>9, TouchesTwice, SameTouches
<1> QED
  BY <1>1, <1>9, <1>10 DEF v, T

\* KeyDownUpToKey::prepare lists no KeyToKey, since the part that it sends has
\* no delayed action.
LEMMA PrepareDownUpCalls ==
    ASSUME conf \in DOMAIN Configurations, NEW w, IsWorld(w), Unarmed(w), NEW i, i \in DownUps, NEW e, NEW pt
    PROVE  Calls(w, PrepareDownUp(w, i, e, pt), <<i, "ITEM">>, e)
<1> DEFINE v == PrepareDownUp(w, i, e, pt)
           id == <<i, "ITEM">>
<1>1. Touches(w, v, {id}) /\ (v = w \/ ~Listed(v.prep, id))
  BY PrepareDownUpTouches
<1>2. id[2] = "ITEM" /\ i \in DOMAIN Items[conf] /\ i \notin Periodic
  BY PartOfItem DEF DownUps
<1>3. SameWaits(w, v)
  BY PrepareDownUpPrepares DEF SameWaits
<1> QED
  BY <1>1, <1>2, <1>3, OnlyItselfCalls

\* DependingPressingPeriodKeyToKey::prepare acts on an item that waits; its
\* short press is not listed, so that no other entry goes when it is sent.
LEMMA PreparePeriodCalls ==
    ASSUME conf \in DOMAIN Configurations, NEW w, IsWorld(w), Unarmed(w), NEW i, i \in Periodic, NEW e, NEW pt
    PROVE  Calls(w, PreparePeriod(w, i, e, pt), <<i, "ITEM">>, e)
<1> DEFINE a == DoKeyDown(w, i, e, pt)
           v == PreparePeriod(w, i, e, pt)
           id == <<i, "ITEM">>
           short == <<i, "SHORT">>
<1>1. v \in {a, w} /\ id[2] = "ITEM"
  BY DEF PreparePeriod
<1>2. IF w.st[i].active THEN Ends(w, a, i) ELSE a = w
  BY DoKeyDownEnds
<1>3. Touches(w, a, {short}) /\ (e.type = "DOWN" /\ Listed(a.prep, short) => Listed(w.prep, short))
  BY DoKeyDownTouches
<1>4. short # id /\ \A j : <<j, "SHORT">> = short => j = i
  OBVIOUS
<1>5. short = <<i, "SHORT">>
  OBVIOUS
<1> HIDE DEF a, v, id, short
<1>6. Calls(w, w, id, e)
  <2>1. Touches(w, w, {id})
    BY SameTouches
  <2>2. SameWaits(w, w)
    BY DEF SameWaits
  <2> QED BY <1>1, <2>1, <2>2, OnlyItselfCalls
<1>7. ASSUME w.st[i].active
      PROVE  Calls(w, a, id, e)
  <2>1. Works(w, a, i) /\ a.st[i].active = FALSE
    BY <1>2, <1>7 DEF Ends
  <2>2. ~Listed(w.prep, short)
    BY <1>5, <1>7 DEF Unarmed
  <2>3. \A x : x # short => (Listed(a.prep, x) <=> Listed(w.prep, x))
    BY <1>3 DEF Touches
  <2>4. \A x : Listed(w.prep, x) => Listed(a.prep, x)
    BY <2>2, <2>3
  <2>5. e.type = "DOWN" => \A x : Listed(a.prep, x) => Listed(w.prep, x)
    BY <1>3, <2>3
  <2>6. Unarmed(a)
    <3>1. ASSUME NEW j \in Periodic, a.st[j].active
          PROVE  ~Listed(a.prep, <<j, "SHORT">>)
      <4>1. j # i /\ j \in DOMAIN Items[conf]
        BY <2>1, <3>1, PeriodicIds
      <4>2. a.st[j] = w.st[j]
        BY <2>1, <4>1 DEF Works
      <4>3. ~Listed(w.prep, <<j, "SHORT">>)
        BY <3>1, <4>2 DEF Unarmed
      <4> QED BY <1>4, <2>3, <4>1, <4>3
    <3> QED BY <3>1 DEF Unarmed
  <2>7. a.walk = w.walk /\ (Single(w.prep) => Single(a.prep))
    BY <1>3 DEF Touches
  <2> QED BY <1>1, <2>4, <2>5, <2>6, <2>7 DEF Calls
<1>8. Calls(w, v, id, e)
  BY <1>1, <1>2, <1>6, <1>7
<1> QED
  BY <1>8 DEF v, id

\* The prepare of every entry of the list.
LEMMA PrepareItemCalls ==
    ASSUME conf \in DOMAIN Configurations, NEW w, IsWorld(w), Unarmed(w), NEW id, id \in Ids(conf),
           id[2] = "ITEM" => id[1] \in Periodic \cup DownUps, NEW e, NEW pt
    PROVE  Calls(w, PrepareItem(w, id, e, pt), id, e)
<1> DEFINE v == PrepareItem(w, id, e, pt)
           i == id[1]
<1>1. w.items = Items[conf] /\ id = <<id[1], id[2]>>
  BY DEF IsWorld, FunctionType, Ids
<1>2. CASE id[2] # "ITEM"
  <2> DEFINE a == PrepareKeyToKey(w, id, PartOf(id), e)
  <2>1. v = a
    BY <1>1, <1>2 DEF PrepareItem, Part, Item, PartOf
  <2>2. id \in PartIds
    BY <1>2 DEF PartIds
  <2>3. Calls(w, a, id, e)
    BY <2>2, PrepareKeyToKeyCalls
  <2> HIDE DEF a, v
  <2> QED BY <2>1, <2>3 DEF v
<1>3. CASE id[2] = "ITEM" /\ i \in DownUps
  <2>1. v = PrepareDownUp(w, i, e, pt) /\ id = <<i, "ITEM">>
    BY <1>1, <1>3 DEF PrepareItem, Item, DownUps
  <2> HIDE DEF i
  <2> DEFINE a == PrepareDownUp(w, i, e, pt)
  <2>2. Calls(w, a, <<i, "ITEM">>, e)
    BY <1>3, PrepareDownUpCalls
  <2>3. v = a
    BY <2>1
  <2> HIDE DEF a, v
  <2> QED BY <2>1, <2>2, <2>3 DEF v
<1>4. CASE id[2] = "ITEM" /\ i \in Periodic
  <2>1. v = PreparePeriod(w, i, e, pt) /\ id = <<i, "ITEM">>
    BY <1>1, <1>4 DEF PrepareItem, Item, Periodic
  <2> HIDE DEF i
  <2> DEFINE a == PreparePeriod(w, i, e, pt)
  <2>2. Calls(w, a, <<i, "ITEM">>, e)
    BY <1>4, PreparePeriodCalls
  <2>3. v = a
    BY <2>1
  <2> HIDE DEF a, v
  <2> QED BY <2>1, <2>2, <2>3 DEF v
<1> QED
  BY <1>2, <1>3, <1>4

-----------------------------------------------------------------------------
(* The walk of RemapClassManager::prepare *)

\* After n entries of the list of w: the later ones are still listed, and the
\* press of a key has listed none and taken every KeyToKey off.
Walking(n, a, w, e) ==
    /\ a.walk = TRUE /\ Single(a.prep) /\ Unarmed(a)
    /\ \A m \in DOMAIN w.prep : m > n => Listed(a.prep, w.prep[m])
    /\ e.type = "DOWN" =>
          \A x : Listed(a.prep, x) => \E m \in DOMAIN w.prep : w.prep[m] = x /\ (x[2] # "ITEM" => m > n)

\* The members of the list, whichever way they are named.
LEMMA ListedPlaces ==
    ASSUME NEW w, IsWorld(w)
    PROVE  /\ \A x : Contains(w.prep, x) <=> Listed(w.prep, x)
           /\ \A x : x \in ToSet(w.prep) <=> Listed(w.prep, x)
           /\ \A m \in DOMAIN w.prep : Listed(w.prep, w.prep[m])
           /\ DOMAIN w.prep = 1..Len(w.prep) /\ Len(w.prep) \in Nat
<1>1. w.prep \in Seq(Ids(conf))
  BY DEF IsWorld, FunctionType
<1>2. DOMAIN w.prep = 1..Len(w.prep) /\ Len(w.prep) \in Nat
  BY <1>1
<1> QED
  BY <1>2 DEF Contains, ToSet, Listed

\* One step of the walk: the entry that is called was still listed, and the
\* one after it still is.
LEMMA WalkStep ==
    ASSUME conf \in DOMAIN Configurations, NEW w, IsWorld(w), Listable(w), Single(w.prep), NEW a, IsWorld(a),
           NEW k, k \in DOMAIN w.prep, NEW e, NEW pt, Walking(k - 1, a, w, e)
    PROVE  Walking(k, PrepareStep(a, k, w, e, pt, 0), w, e)
<1> DEFINE id == w.prep[k]
           b == PrepareItem(a, id, e, pt)
           v == PrepareStep(a, k, w, e, pt, 0)
           inside == e.type = "DOWN" => ToSet(b.prep) \subseteq ToSet(w.prep)
           next == k < Len(w.prep) => Contains(b.prep, w.prep[k + 1])
           x == b.walk /\ inside /\ next
<1>1. id \in Ids(conf) /\ (id[2] = "ITEM" => id[1] \in Periodic \cup DownUps)
  <2>1. id \in Ids(conf)
    BY DEF IsWorld, FunctionType
  <2>2. id = <<id[1], id[2]>>
    BY <2>1 DEF Ids
  <2>3. Listed(w.prep, id)
    BY DEF Listed
  <2> HIDE DEF id
  <2> QED BY <2>1, <2>2, <2>3 DEF Listable
<1>2. v = [b EXCEPT !.walk = x]
  BY DEF PrepareStep, Walked
<1>3. id = w.prep[k]
  OBVIOUS
<1> HIDE DEF id
<1>4. Unarmed(a)
  BY DEF Walking
<1>5. Calls(a, b, id, e) /\ Prepares(a, b)
  BY <1>1, <1>4, PrepareItemCalls, PrepareItemPrepares
<1> HIDE DEF b, v
<1>6. IsWorld(b)
  BY <1>5 DEF Prepares, Keeping
<1>7. v.prep = b.prep /\ v.st = b.st /\ v.walk = x
  <2> HIDE DEF x
  <2> QED BY <1>2, <1>6 DEF IsWorld, OutputType, Fields
<1> HIDE DEF x
<1>8. DOMAIN w.prep = 1..Len(w.prep) /\ Len(w.prep) \in Nat
  BY ListedPlaces
<1>9. \A m \in DOMAIN w.prep : m > k => Listed(b.prep, w.prep[m])
  <2> SUFFICES ASSUME NEW m \in DOMAIN w.prep, m > k
               PROVE  Listed(b.prep, w.prep[m])
    OBVIOUS
  <2>1. w.prep[m] # id
    BY <1>3, <1>8 DEF Single
  <2>2. m > k - 1
    BY <1>8
  <2>3. Listed(a.prep, w.prep[m])
    BY <2>2 DEF Walking
  <2> QED BY <1>5, <2>1, <2>3 DEF Calls
<1>10. ASSUME e.type = "DOWN", NEW y, Listed(b.prep, y)
       PROVE  \E m \in DOMAIN w.prep : w.prep[m] = y /\ (y[2] # "ITEM" => m > k)
  <2>1. Listed(a.prep, y)
    BY <1>5, <1>10 DEF Calls
  <2>2. PICK m \in DOMAIN w.prep : w.prep[m] = y /\ (y[2] # "ITEM" => m > k - 1)
    BY <1>10, <2>1 DEF Walking
  <2>3. ASSUME y[2] # "ITEM"
        PROVE  m # k
    <3>1. y # id
      BY <1>5, <1>10, <2>3 DEF Calls
    <3> QED BY <1>3, <2>2, <3>1
  <2>4. y[2] # "ITEM" => m > k
    BY <1>8, <2>2, <2>3
  <2> QED BY <2>2, <2>4
<1>11. inside
  <2>1. e.type = "DOWN" => \A y : Listed(b.prep, y) => Listed(w.prep, y)
    BY <1>10 DEF Listed
  <2>2. \A y : (y \in ToSet(b.prep) <=> Listed(b.prep, y)) /\ (y \in ToSet(w.prep) <=> Listed(w.prep, y))
    BY <1>6, ListedPlaces
  <2> QED BY <2>1, <2>2
<1>12. next
  <2>1. ASSUME k < Len(w.prep)
        PROVE  Contains(b.prep, w.prep[k + 1])
    <3>1. k + 1 \in DOMAIN w.prep /\ k + 1 > k
      BY <1>8, <2>1
    <3>2. Listed(b.prep, w.prep[k + 1])
      BY <1>9, <3>1
    <3> QED BY <1>6, <3>2, ListedPlaces
  <2> QED BY <2>1
<1>13. b.walk = TRUE /\ Single(b.prep) /\ Unarmed(b)
  BY <1>5 DEF Calls, Walking
<1> HIDE DEF inside, next
<1>14. x = TRUE
  BY <1>11, <1>12, <1>13 DEF x
<1>15. Unarmed(v)
  BY <1>7, <1>13 DEF Unarmed
<1>16. e.type = "DOWN" =>
          \A y : Listed(b.prep, y) => \E m \in DOMAIN w.prep : w.prep[m] = y /\ (y[2] # "ITEM" => m > k)
  BY <1>10
<1>17. Walking(k, v, w, e)
  BY <1>7, <1>9, <1>13, <1>14, <1>15, <1>16 DEF Walking
<1> QED
  BY <1>17 DEF v

WalkedSoFar(n, a, c) == IsWorld(a) /\ Walking(n, a, c[1], c[2])
Walks == INSTANCE FoldProofs WITH Op <- PrepareStep, I <- WalkedSoFar

\* A short press is not listed while its item waits, and no KeyToKey at all
\* when a key is pressed.
Clear(w, e) == \A j \in Periodic : w.st[j].active \/ e.type = "DOWN" => ~Listed(w.prep, <<j, "SHORT">>)

\* RemapClassManager::prepare by the fold over the list: each entry is still
\* on the list when its turn comes, and afterwards a key press finds no
\* KeyToKey on it.
LEMMA PrepareWalks ==
    ASSUME conf \in DOMAIN Configurations, NEW w, IsWorld(w), Listable(w), NEW e, NEW pt,
           w.walk = TRUE, Single(w.prep), Unarmed(w)
    PROVE  LET v == Prepare(w, e, pt) IN v.walk = TRUE /\ Single(v.prep) /\ Clear(v, e)
<1> DEFINE a == [w EXCEPT !.drop = FALSE]
           list == [j \in DOMAIN w.prep |-> j]
           b == FoldLeft(LAMBDA x, j : Walked(PrepareItem(x, w.prep[j], e, pt), w.prep, j, e), a, list)
           z == b.remapped \/ b.drop
           v == Prepare(w, e, pt)
           c == <<w, e>>
           n == Len(w.prep)
<1>1. v = [b EXCEPT !.remapped = z]
  BY DEF Prepare
<1>2. b = Walks!Fold(a, list, w, e, pt, 0)
  BY DEF Walks!Fold, PrepareStep, FoldLeft, MapThenFoldSet, Walks!MapThenFoldSet,
         Max
<1>3. n \in Nat /\ DOMAIN list = 1..n /\ (\A k \in 1..n : list[k] = k) /\ DOMAIN w.prep = 1..n
  BY DEF IsWorld, FunctionType
<1>4. IsWorld(a) /\ a.prep = w.prep /\ a.st = w.st /\ a.walk = w.walk
  <2> DEFINE x == FALSE
  <2> HIDE DEF x
  <2>1. Prepares(w, [w EXCEPT !.drop = x])
    BY SetDrops
  <2>2. IsWorld([w EXCEPT !.drop = x])
    BY <2>1 DEF Prepares, Keeping
  <2>3. [w EXCEPT !.drop = x].prep = w.prep /\ [w EXCEPT !.drop = x].st = w.st /\ [w EXCEPT !.drop = x].walk = w.walk
    BY DEF IsWorld, OutputType, Fields
  <2> QED BY <2>2, <2>3, Zenon DEF x
<1>5. c[1] = w /\ c[2] = e
  OBVIOUS
<1> HIDE DEF a, b, c, z, list, n, v
<1>6. WalkedSoFar(0, a, c)
  <2>1. \A m \in DOMAIN w.prep : Listed(a.prep, w.prep[m])
    BY <1>4, ListedPlaces
  <2>2. \A x : Listed(a.prep, x) => \E m \in DOMAIN w.prep : w.prep[m] = x /\ (x[2] # "ITEM" => m > 0)
    BY <1>3, <1>4 DEF Listed
  <2>3. Unarmed(a)
    BY <1>4 DEF Unarmed
  <2>4. Walking(0, a, w, e)
    BY <1>4, <2>1, <2>2, <2>3 DEF Walking
  <2> QED BY <1>4, <1>5, <2>4 DEF WalkedSoFar
<1>7. ASSUME NEW k \in 1..n, NEW x, WalkedSoFar(k - 1, x, c)
      PROVE  WalkedSoFar(k, PrepareStep(x, list[k], w, e, pt, 0), c)
  <2> DEFINE y == PrepareStep(x, k, w, e, pt, 0)
  <2>1. list[k] = k /\ k \in DOMAIN w.prep
    BY <1>3
  <2>2. IsWorld(x) /\ Walking(k - 1, x, w, e)
    BY <1>5, <1>7 DEF WalkedSoFar
  <2>3. Prepares(x, y) /\ Walking(k, y, w, e)
    BY <2>1, <2>2, PrepareStepPrepares, WalkStep
  <2> HIDE DEF y
  <2>4. IsWorld(y)
    BY <2>3 DEF Prepares, Keeping
  <2>5. WalkedSoFar(k, y, c)
    BY <1>5, <2>3, <2>4 DEF WalkedSoFar
  <2> QED BY <2>1, <2>5 DEF y
<1>8. \A k \in 1..n : \A x : WalkedSoFar(k - 1, x, c) => WalkedSoFar(k, PrepareStep(x, list[k], w, e, pt, 0), c)
  BY <1>7
<1>9. WalkedSoFar(n, Walks!Fold(a, list, w, e, pt, 0), c)
  BY <1>3, <1>6, <1>8, Walks!FoldMaintains
<1>10. IsWorld(b) /\ Walking(n, b, w, e)
  BY <1>2, <1>5, <1>9 DEF WalkedSoFar
<1>11. v.prep = b.prep /\ v.st = b.st /\ v.walk = b.walk
  BY <1>1, <1>10 DEF IsWorld, OutputType, Fields
<1>12. ASSUME NEW j \in Periodic, b.st[j].active \/ e.type = "DOWN"
       PROVE  ~Listed(b.prep, <<j, "SHORT">>)
  <2>1. CASE b.st[j].active
    BY <1>10, <2>1 DEF Walking, Unarmed
  <2>2. CASE e.type = "DOWN"
    <3> DEFINE y == <<j, "SHORT">>
    <3>1. y[2] # "ITEM"
      OBVIOUS
    <3> HIDE DEF y
    <3>2. \A m \in DOMAIN w.prep : ~(m > n)
      BY <1>3
    <3>3. ~Listed(b.prep, y)
      BY <1>10, <2>2, <3>1, <3>2 DEF Walking
    <3> QED BY <3>3 DEF y
  <2> QED BY <1>12, <2>1, <2>2
<1>13. Clear(v, e)
  BY <1>11, <1>12 DEF Clear
<1>14. v.walk = TRUE /\ Single(v.prep)
  BY <1>10, <1>11 DEF Walking
<1> QED
  BY <1>13, <1>14 DEF v

-----------------------------------------------------------------------------
(* remap and the list *)

\* One world leads to another: what prepare relies on holds on.
StaysClear(w, v, e) ==
    v.walk = w.walk /\ (Single(w.prep) => Single(v.prep)) /\ (Clear(w, e) => Clear(v, e))

\* One step after another.
LEMMA StaysClearTwice ==
    ASSUME NEW u, NEW v, NEW w, NEW e, StaysClear(u, v, e), StaysClear(v, w, e)
    PROVE  StaysClear(u, w, e)
BY DEF StaysClear

\* What changes neither the list nor the states.
LEMMA PrepStaysClear ==
    ASSUME NEW w, NEW v, SamePrep(w, v), v.st = w.st
    PROVE  \A e : StaysClear(w, v, e)
BY DEF StaysClear, SamePrep, Clear

\* An item that touches its own entries alone.
LEMMA ItemStaysClear ==
    ASSUME conf \in DOMAIN Configurations, NEW w, NEW v, NEW i, Steps(w, v, i), NEW T, Touches(w, v, T),
           NEW e, \A x \in T : x[1] = i,
           i \in Periodic => IF e.type = "DOWN" THEN <<i, "SHORT">> \notin T ELSE v.st[i].active = FALSE
    PROVE  StaysClear(w, v, e)
<1>1. ASSUME Clear(w, e), NEW j \in Periodic, v.st[j].active \/ e.type = "DOWN"
      PROVE  ~Listed(v.prep, <<j, "SHORT">>)
  <2> DEFINE short == <<j, "SHORT">>
  <2>1. short[1] = j
    OBVIOUS
  <2>2. CASE j # i
    <3>1. short \notin T
      BY <2>1, <2>2
    <3>2. v.st[j] = w.st[j]
      BY <2>2, PeriodicIds DEF Steps
    <3>3. ~Listed(w.prep, short)
      BY <1>1, <3>2 DEF Clear
    <3> HIDE DEF short
    <3>4. ~Listed(v.prep, short)
      BY <3>1, <3>3 DEF Touches
    <3> QED BY <3>4 DEF short
  <2>3. CASE j = i
    <3>1. e.type = "DOWN"
      BY <1>1, <2>3
    <3>2. short \notin T
      BY <2>3, <3>1
    <3>3. ~Listed(w.prep, short)
      BY <1>1, <3>1 DEF Clear
    <3> HIDE DEF short
    <3>4. ~Listed(v.prep, short)
      BY <3>2, <3>3 DEF Touches
    <3> QED BY <3>4 DEF short
  <2> QED BY <2>2, <2>3
<1>2. Clear(w, e) => Clear(v, e)
  BY <1>1 DEF Clear
<1> QED
  BY <1>2 DEF StaysClear, Touches

\* Item::remap of every function: a press lists the short press of no item,
\* and after a release the item does not wait.
LEMMA RemapItemStaysClear ==
    ASSUME conf \in DOMAIN Configurations, NEW w, IsWorld(w), NEW i, i \in DOMAIN Items[conf],
           NEW e, e.type \in {"DOWN", "UP", "NONE"}, e.code # VK_NONE, Remaps(w, i, e), NEW pt, NEW late
    PROVE  StaysClear(w, RemapItem(w, i, e, pt, late), e)
<1> DEFINE type == Items[conf][i].type
           T == IdsOf(i)
           v == RemapItem(w, i, e, pt, late)
<1>1. Item(w, i) = Items[conf][i] /\ e.type \in {"DOWN", "UP"} /\ e.code = Items[conf][i].from
      /\ (e.type = "DOWN" \/ w.pressing[<<i, Items[conf][i].main>>] > 0)
  BY DEF IsWorld, FunctionType, Item, Remaps, IsTarget
<1>2. type \in ItemTypes \ {"PASSTHROUGH"}
  BY <1>1, ItemsType, PassThroughKey DEF IsItem
<1>3. \A x \in T : x[1] = i
  BY DEF IdsOf
<1>4. Steps(w, v, i)
  <2>1. TakesAll(w, v, i, e)
    BY RemapItemTakes
  <2> HIDE DEF v
  <2> QED BY <2>1 DEF TakesAll, TakesDown
<1> HIDE DEF T
<1>5. CASE type \in {"KEYTOKEY", "KEYDOWNUPTOKEY", "DOUBLEPRESSMODIFIER"}
  <2> DEFINE a == RemapFrom(w, i, e, pt)
             b == AfterFrom(a, i, e, pt, late)
  <2>1. v = b
    BY <1>1, <1>5 DEF RemapItem
  <2>2. Items[conf][i].main # "ITEM" /\ i \notin Periodic
    BY <1>5, PartOfItem
  <2>3. TakesDown(w, a, i, e) /\ Touches(w, a, T)
    BY <2>2, RemapFromTakes, RemapFromTouches DEF T
  <2> HIDE DEF a
  <2>4. IsWorld(a)
    BY <2>3 DEF TakesDown, Steps
  <2>5. Item(a, i) = Items[conf][i]
    BY <2>4 DEF IsWorld, FunctionType, Item
  <2>6. Touches(a, b, T)
    <3>1. CASE type = "KEYTOKEY"
      <4>1. b = a
        BY <2>5, <3>1 DEF AfterFrom
      <4> HIDE DEF b
      <4> QED BY <4>1, SameTouches
    <3>2. CASE type = "KEYDOWNUPTOKEY"
      <4>1. b = RemapDownUp(a, i, pt)
        BY <2>5, <3>2 DEF AfterFrom
      <4> HIDE DEF b
      <4> QED BY <2>4, <3>2, <4>1, RemapDownUpTouches DEF T, DownUps
    <3>3. CASE type = "DOUBLEPRESSMODIFIER"
      <4>1. b = RemapDoublePress(a, i, e, pt, late)
        BY <2>5, <3>3 DEF AfterFrom
      <4> HIDE DEF b
      <4> QED BY <1>1, <2>4, <3>3, <4>1, RemapDoublePressTouches DEF T
    <3> QED BY <1>5, <3>1, <3>2, <3>3
  <2> HIDE DEF b, v
  <2>7. Touches(w, v, T)
    BY <2>1, <2>3, <2>6, TouchesTwice
  <2>8. StaysClear(w, v, e)
    BY <1>3, <1>4, <2>2, <2>7, ItemStaysClear
  <2> QED BY <2>8 DEF v
<1>6. CASE type \in {"KEYOVERLAIDMODIFIER", "HOLDINGKEYTOKEY"}
  <2> DEFINE b == RemapPeriod(w, i, e, pt, late)
  <2>1. v = b
    BY <1>1, <1>6 DEF RemapItem
  <2>2. i \in Periodic
    BY <1>6 DEF Periodic
  <2>3. e.type = "DOWN" \/ w.pressing[<<i, "ITEM">>] > 0
    BY <1>1, <2>2, OwnIds DEF Own
  <2>4. IF e.type = "DOWN" THEN Touches(w, b, LaterOf(i)) ELSE Touches(w, b, AllOf(i))
    BY <2>2, <2>3, RemapPeriodTouches
  <2>5. IF e.type = "DOWN" THEN PressedItem(w, b, i) ELSE ReleasedItem(w, b, i)
    BY <2>2, <2>3, RemapPeriodTakes
  <2> HIDE DEF b, v
  <2>6. (\A x \in LaterOf(i) : x[1] = i) /\ (\A x \in AllOf(i) : x[1] = i) /\ <<i, "SHORT">> \notin LaterOf(i)
    BY DEF LaterOf, AllOf
  <2>7. StaysClear(w, v, e)
    <3>1. CASE e.type = "DOWN"
      <4>1. Touches(w, v, LaterOf(i))
        BY <2>1, <2>4, <3>1
      <4> QED BY <1>4, <2>6, <3>1, <4>1, ItemStaysClear
    <3>2. CASE e.type # "DOWN"
      <4>1. Touches(w, v, AllOf(i)) /\ v.st[i].active = FALSE
        BY <2>1, <2>4, <2>5, <3>2 DEF ReleasedItem
      <4> QED BY <1>4, <2>6, <3>2, <4>1, ItemStaysClear
    <3> QED BY <3>1, <3>2
  <2> QED BY <2>7 DEF v
<1>7. CASE type = "IGNOREMULTIPLESAMEKEYPRESS"
  <2> DEFINE b == RemapIgnore(w, i, e)
  <2>1. v = b
    BY <1>1, <1>7 DEF RemapItem
  <2>2. i \notin Periodic
    BY <1>7, PartOfItem
  <2>3. SamePrep(w, b)
    BY <1>7, RemapIgnorePrep
  <2> HIDE DEF b, v
  <2>4. Touches(w, v, T)
    BY <2>1, <2>3, PrepTouches
  <2>5. StaysClear(w, v, e)
    BY <1>3, <1>4, <2>2, <2>4, ItemStaysClear
  <2> QED BY <2>5 DEF v
<1> QED
  BY <1>2, <1>5, <1>6, <1>7 DEF ItemTypes

\* RemapClass::Item::remap with its filters.
LEMMA RemapClassItemStaysClear ==
    ASSUME conf \in DOMAIN Configurations, NEW w, IsWorld(w), NEW i, i \in DOMAIN Items[conf],
           NEW e, e.type \in {"DOWN", "UP", "NONE"}, e.code # VK_NONE, NEW pt, NEW late, NEW passThrough
    PROVE  StaysClear(w, RemapClassItem(w, i, e, pt, late, passThrough), e)
<1> DEFINE v == RemapClassItem(w, i, e, pt, late, passThrough)
           a == Passes(w, i, e)
           b == RemapItem(w, i, e, pt, late)
           n == IF e.type = "DOWN" THEN b.active[i] + 1 ELSE b.active[i] - 1
           x == [b.active EXCEPT ![i] = n]
           c == [b EXCEPT !.active = x]
<1>1. v = IF Ignores(w, i, e, passThrough) THEN w ELSE IF Remaps(w, i, e) THEN c ELSE a
  <2>1. c = [RemapItem(w, i, e, pt, late) EXCEPT !.active[i] = IF e.type = "DOWN" THEN @ + 1 ELSE @ - 1]
    OBVIOUS
  <2> HIDE DEF c
  <2> QED BY <2>1 DEF RemapClassItem
<1>2. StaysClear(w, w, e)
  BY PrepStaysClear DEF SamePrep
<1>3. StaysClear(w, a, e)
  <2>1. Rests(w, a, i) /\ SamePrep(w, a)
    BY PassesRests, PassesPrep
  <2>2. i \in Periodic => a = w
    BY DEF Passes, Item, IsWorld, FunctionType, Periodic
  <2> HIDE DEF a
  <2> DEFINE T == IdsOf(i)
  <2>3. \A y \in T : y[1] = i
    BY DEF IdsOf
  <2> HIDE DEF T
  <2>6. Touches(w, a, T)
    BY <2>1, PrepTouches
  <2>4. CASE i \in Periodic
    <3>1. a = w
      BY <2>2, <2>4
    <3> QED BY <1>2, <3>1
  <2>5. CASE i \notin Periodic
    <3>1. Steps(w, a, i)
      BY <2>1 DEF Rests
    <3> QED BY <2>3, <2>5, <2>6, <3>1, ItemStaysClear
  <2> QED BY <2>4, <2>5
<1>4. ASSUME Remaps(w, i, e)
      PROVE  StaysClear(w, c, e)
  <2>0. StaysClear(w, b, e) /\ TakesAll(w, b, i, e)
    BY <1>4, RemapItemStaysClear, RemapItemTakes
  <2>1. StaysClear(w, b, e) /\ IsWorld(b)
    <3> HIDE DEF b
    <3> QED BY <2>0 DEF TakesAll, TakesDown, Steps
  <2> HIDE DEF b, x
  <2>2. SamePrep(b, c) /\ c.st = b.st
    BY <2>1 DEF SamePrep, IsWorld, OutputType, Fields
  <2> HIDE DEF c
  <2> QED BY <2>1, <2>2, PrepStaysClear, StaysClearTwice
<1> HIDE DEF a, c, v
<1>5. StaysClear(w, v, e)
  BY <1>1, <1>2, <1>3, <1>4
<1> QED
  BY <1>5 DEF v

ClearSoFar(n, a, c) == Keeping(c[1], a) /\ StaysClear(c[1], a, c[2])
Clearing == INSTANCE FoldProofs WITH Op <- RemapStep, I <- ClearSoFar

\* RemapClassManager::remap.
LEMMA RemapStaysClear ==
    ASSUME conf \in DOMAIN Configurations, NEW w, IsWorld(w),
           NEW e, e.type \in {"DOWN", "UP", "NONE"}, e.code # VK_NONE, NEW pt, NEW late
    PROVE  StaysClear(w, Remap(w, e, pt, late), e)
<1> DEFINE v == Remap(w, e, pt, late)
           list == [i \in DOMAIN w.active |-> i]
           c == <<w, e>>
<1>1. v = Clearing!Fold(w, list, w, e, pt, late)
  BY DEF Remap, Clearing!Fold, RemapStep, FoldLeft, MapThenFoldSet, Clearing!MapThenFoldSet,
         Max
<1>2. PICK n \in Nat : DOMAIN Items[conf] = 1..n
  BY ItemsType
<1>3. DOMAIN list = 1..n /\ \A k \in 1..n : list[k] = k
  BY <1>2 DEF IsWorld, FunctionType
<1>4. c[1] = w /\ c[2] = e
  OBVIOUS
<1> HIDE DEF c, list, v
<1>5. ClearSoFar(0, w, c)
  <2>1. Keeping(w, w)
    BY PreparesNothing DEF Prepares
  <2>2. StaysClear(w, w, e)
    BY PrepStaysClear DEF SamePrep
  <2> QED BY <1>4, <2>1, <2>2 DEF ClearSoFar
<1>6. ASSUME NEW k \in 1..n, NEW a, ClearSoFar(k - 1, a, c)
      PROVE  ClearSoFar(k, RemapStep(a, list[k], w, e, pt, late), c)
  <2> DEFINE b == RemapStep(a, k, w, e, pt, late)
             passThrough == IsPassThroughEnabled(w)
             u == RemapClassItem(a, k, e, pt, late, passThrough)
  <2>1. list[k] = k /\ k \in DOMAIN Items[conf]
    BY <1>2, <1>3
  <2>2. Keeping(w, a) /\ StaysClear(w, a, e)
    BY <1>4, <1>6 DEF ClearSoFar
  <2>3. IsWorld(a) /\ Kept(a) = Kept(w)
    BY <2>2 DEF Keeping
  <2>4. b \in {u, a}
    BY DEF RemapStep
  <2> HIDE DEF passThrough
  <2>5. StaysClear(a, u, e)
    BY <2>1, <2>3, RemapClassItemStaysClear
  <2> HIDE DEF u
  <2>6. Handles(a, b, k, e)
    BY <2>1, <2>3, RemapStepHandles
  <2> HIDE DEF b
  <2>7. StaysClear(a, a, e)
    BY PrepStaysClear DEF SamePrep
  <2>8. StaysClear(w, b, e)
    BY <2>2, <2>4, <2>5, <2>7, StaysClearTwice
  <2>9. Keeping(w, b)
    BY <2>2, <2>6, KeepingTwice DEF Handles
  <2>10. ClearSoFar(k, b, c)
    BY <1>4, <2>8, <2>9 DEF ClearSoFar
  <2> QED BY <2>1, <2>10 DEF b
<1>7. \A k \in 1..n : \A a : ClearSoFar(k - 1, a, c) => ClearSoFar(k, RemapStep(a, list[k], w, e, pt, late), c)
  BY <1>6
<1>8. ClearSoFar(n, Clearing!Fold(w, list, w, e, pt, late), c)
  BY <1>3, <1>5, <1>7, Clearing!FoldMaintains
<1> QED
  BY <1>1, <1>4, <1>8 DEF ClearSoFar, v

-----------------------------------------------------------------------------
(* An event and the list *)

\* The walks of prepare were good, and the next one finds a good list.
Walkable(w) == w.walk = TRUE /\ Single(w.prep) /\ Unarmed(w)

\* Nothing of it is changed.
SameWalk(w, v) == SamePrep(w, v) /\ SameWaits(w, v)

\* What the walk relies on is kept with the list and the items that wait.
LEMMA SameWalkable ==
    ASSUME NEW w, NEW v, Walkable(w), SameWalk(w, v)
    PROVE  Walkable(v)
BY DEF Walkable, SameWalk, SamePrep, SameWaits, Unarmed

\* One step after another.
LEMMA SameWalkTwice ==
    ASSUME NEW u, NEW v, NEW w, SameWalk(u, v), SameWalk(v, w)
    PROVE  SameWalk(u, w)
BY DEF SameWalk, SamePrep, SameWaits

\* Items that keep their mode wait as before.
LEMMA ModesWait ==
    ASSUME NEW w, NEW v, SameModes(w, v)
    PROVE  SameWaits(w, v)
BY DEF SameModes, SameWaits, Periodic

\* So do items that keep their state.
LEMMA StateWait ==
    ASSUME NEW w, NEW v, v.st = w.st
    PROVE  SameWaits(w, v)
BY DEF SameWaits

\* Output changes neither the list nor the states.
LEMMA ActsPrep ==
    ASSUME NEW w, IsWorld(w), NEW v, Acts(w, v)
    PROVE  SamePrep(w, v) /\ v.st = w.st
BY DEF Acts, Behind, SamePrep

\* The fields an event replaces before and after the callbacks, and in them.
LEMMA ReplacePrep ==
    ASSUME NEW w, IsWorld(w), NEW x, NEW y
    PROVE  /\ SamePrep(w, [w EXCEPT !.fs = x]) /\ [w EXCEPT !.fs = x].st = w.st
           /\ SamePrep(w, [w EXCEPT !.bs = x]) /\ [w EXCEPT !.bs = x].st = w.st
           /\ SamePrep(w, [w EXCEPT !.st = x])
           /\ SamePrep(w, [w EXCEPT !.lastPressed = x, !.lastReleased = y])
           /\ [w EXCEPT !.lastPressed = x, !.lastReleased = y].st = w.st
BY DEF SamePrep, IsWorld, OutputType, Fields

\* The callbacks of one event.
LEMMA RemapEventWalkable ==
    ASSUME conf \in DOMAIN Configurations, NEW w, IsWorld(w), Listable(w), Walkable(w), NEW e, IsEvent(e), NEW pt, NEW late
    PROVE  Walkable(RemapEvent(w, e, pt, late))
<1> DEFINE a == SetButtonStatus(w, e)
           b == Prepare(a, e, pt)
           c == SetFlagStatus(b, e)
           d == Remap(c, e, pt, late)
           v == FireUnlessRemapped(d, e, pt)
<1>1. e.type \in {"DOWN", "UP", "NONE"} /\ e.code # VK_NONE
  BY EventCode
<1>2. IsWorld(a) /\ Listable(a)
  <2>1. Lasts(w, a)
    BY SetButtonStatusFeeds
  <2> QED BY <2>1 DEF Lasts
<1>3. SamePrep(w, a) /\ a.st = w.st
  <2> DEFINE bs == IF e.type = "DOWN" THEN IncreaseButtons(w.bs, ButtonOf(e.code)) ELSE DecreaseButtons(w.bs, ButtonOf(e.code))
  <2>1. a = [w EXCEPT !.bs = bs]
    BY DEF SetButtonStatus
  <2> HIDE DEF a, bs
  <2> QED BY <2>1, ReplacePrep
<1> HIDE DEF a
<1>4. Walkable(a)
  BY <1>3, StateWait, SameWalkable DEF SameWalk
<1>5. b.walk = TRUE /\ Single(b.prep) /\ Clear(b, e)
  BY <1>2, <1>4, PrepareWalks DEF Walkable
<1>6. IsWorld(b)
  <2>1. Prepares(a, b)
    BY <1>2, PreparePrepares
  <2> QED BY <2>1 DEF Prepares, Keeping
<1> HIDE DEF b
<1>7. IsWorld(c)
  <2>1. Lasts(b, c)
    BY <1>6, SetFlagStatusFeeds
  <2> QED BY <2>1 DEF Lasts
<1>8. StaysClear(b, c, e)
  <2> DEFINE fs == SetKeyFlags(b.fs, e)
  <2>1. c = [b EXCEPT !.fs = fs]
    BY DEF SetFlagStatus, SetKeyFlags
  <2> HIDE DEF c, fs
  <2>2. SamePrep(b, c) /\ c.st = b.st
    BY <1>6, <2>1, ReplacePrep
  <2> QED BY <2>2, PrepStaysClear
<1> HIDE DEF c
<1>9. StaysClear(c, d, e)
  BY <1>1, <1>7, RemapStaysClear
<1>10. IsWorld(d)
  <2>1. Keeping(c, d)
    BY <1>1, <1>7, RemapHandles
  <2> QED BY <2>1 DEF Keeping
<1> HIDE DEF d
<1>11. d.walk = TRUE /\ Single(d.prep) /\ Clear(d, e)
  BY <1>5, <1>8, <1>9 DEF StaysClear
<1>12. Walkable(d)
  BY <1>11 DEF Walkable, Clear, Unarmed
<1>13. SamePrep(d, v) /\ v.st = d.st
  <2>1. Keeps(d, v)
    BY <1>10, FireUnlessRemappedKeeps
  <2> HIDE DEF v
  <2> QED BY <1>10, <2>1, ActsPrep DEF Keeps
<1>14. v = RemapEvent(w, e, pt, late)
  BY DEF RemapEvent, a, b, c, d
<1> HIDE DEF v
<1> QED
  BY <1>12, <1>13, <1>14, StateWait, SameWalkable DEF SameWalk

\* EventInputQueue::doFire.
LEMMA DoFireWalkable ==
    ASSUME conf \in DOMAIN Configurations, NEW w, IsWorld(w), Listable(w), Walkable(w), NEW e, IsEvent(e), NEW late, NEW more
    PROVE  Walkable(DoFire(w, e, late, more))
<1> DEFINE a == IF e.type = "DOWN" \/ e.code.t = "scroll" THEN WatchersOn(w) ELSE w
           b == [a EXCEPT !.fs = IF e.type = "UP" THEN LazyDisableIfOff(@) ELSE LazyEnable(@)]
           pt == PhysicalType(e)
           c == RemapEvent(b, e, pt, late)
           d == SetLastKeys(c, e)
           v == ResetInternalState(d, e, more)
<1>1. v = DoFire(w, e, late, more)
  BY DEF DoFire
<1>2. AlikeToo(w, a)
  BY WatchersOnAlike, AlikeTooItself DEF AlikeToo
<1>3. SamePrep(w, a)
  <2> DEFINE x == [i \in DOMAIN w.st |-> [w.st[i] EXCEPT !.any = w.st[i].any \/ w.st[i].observed]]
             u == WatchersOn(w)
  <2>1. u = [w EXCEPT !.st = x]
    BY DEF WatchersOn
  <2>2. a \in {u, w}
    OBVIOUS
  <2> HIDE DEF a, x, u
  <2>3. SamePrep(w, u)
    BY <2>1, ReplacePrep
  <2> QED BY <2>2, <2>3 DEF SamePrep
<1> HIDE DEF a
<1>4. IsWorld(a) /\ Listable(a) /\ Walkable(a)
  <2>1. IsWorld(a) /\ SameModes(w, a) /\ Listable(a)
    BY <1>2, AlikeKeeps DEF AlikeToo, Alike
  <2> QED BY <1>3, <2>1, ModesWait, SameWalkable DEF SameWalk
<1>5. AlikeToo(a, b)
  BY <1>4, LazyAlike
<1>6. SamePrep(a, b)
  <2> DEFINE x == IF e.type = "UP" THEN LazyDisableIfOff(a.fs) ELSE LazyEnable(a.fs)
  <2>1. b = [a EXCEPT !.fs = x]
    OBVIOUS
  <2> HIDE DEF b, x
  <2> QED BY <1>4, <2>1, ReplacePrep
<1> HIDE DEF b
<1>7. IsWorld(b) /\ Listable(b) /\ Walkable(b)
  <2>1. IsWorld(b) /\ SameModes(a, b) /\ Listable(b)
    BY <1>4, <1>5, AlikeKeeps DEF AlikeToo, Alike
  <2> QED BY <1>4, <1>6, <2>1, ModesWait, SameWalkable DEF SameWalk
<1> HIDE DEF pt
<1>8. Walkable(c)
  BY <1>7, RemapEventWalkable
<1>9. IsWorld(c)
  <2>1. Lasts(b, c)
    BY <1>7, RemapEventFeeds
  <2> QED BY <2>1 DEF Lasts
<1> HIDE DEF c
<1>10. Alike(c, d)
  BY <1>9, SetLastKeysAlike
<1>11. SamePrep(c, d)
  <2> DEFINE x == IF e.type = "DOWN" THEN [code |-> e.code, type |-> "DOWN"] ELSE c.lastPressed
             y == IF e.type = "UP" THEN [code |-> e.code, type |-> "UP"] ELSE c.lastReleased
  <2>1. d = [c EXCEPT !.lastPressed = x, !.lastReleased = y]
    BY DEF SetLastKeys
  <2> HIDE DEF d, x, y
  <2> QED BY <1>9, <2>1, ReplacePrep
<1> HIDE DEF d
<1>12. IsWorld(d) /\ Walkable(d)
  BY <1>8, <1>10, <1>11, ModesWait, SameWalkable DEF SameWalk, Alike
<1>13. v = d \/ Resets(d, v)
  <2>1. LET x == v IN IF e.type = "NONE" \/ d.keys # 0 \/ more THEN x = d ELSE Resets(d, x)
    BY <1>12, ResetInternalStateResets
  <2> HIDE DEF v
  <2> QED BY <2>1
<1> HIDE DEF v
<1>14. v = d \/ SameWalk(d, v)
  BY <1>13, ModesWait DEF Resets, SameWalk, SamePrep
<1> QED
  BY <1>1, <1>12, <1>14, SameWalkable

-----------------------------------------------------------------------------
(* The steps and the list *)

\* What is forgotten at the end of a step has no part in it.
LEMMA ForgetWalkable ==
    ASSUME conf \in DOMAIN Configurations, NEW w, IsWorld(w), Walkable(w)
    PROVE  Walkable(Forget(w))
<1> DEFINE k == Forget(w)
<1>1. k.prep = w.prep /\ k.walk = w.walk /\ k.st = [i \in DOMAIN w.st |-> ForgetState(w, i)]
  BY ForgetFields DEF IsWorld, OutputType
<1> HIDE DEF k
<1>2. SameWaits(w, k)
  <2>1. ASSUME NEW j \in Periodic
        PROVE  k.st[j].active = w.st[j].active
    <3>1. j \in DOMAIN Items[conf] /\ j \in DOMAIN w.st
      BY PeriodicIds DEF IsWorld, FunctionType
    <3>2. k.st[j] = ForgetState(w, j)
      BY <1>1, <3>1
    <3> QED BY <3>1, <3>2, ForgetStateType
  <2> QED BY <2>1 DEF SameWaits
<1>3. Walkable(k)
  BY <1>1, <1>2, SameWalkable DEF SameWalk, SamePrep
<1> QED
  BY <1>3 DEF k

\* The variable of the specification and the record of the functions hold the
\* same fields.
LEMMA AsWorldWalkable ==
    ASSUME NEW k, k = [x \in Fields |-> k[x]]
    PROVE  Walkable(AsWorld(k)) <=> Walkable(k)
<1> DEFINE w == AsWorld(k)
<1>1. w.prep = k.prep /\ w.walk = k.walk /\ w.st = k.st
  BY AsWorldFields
<1> HIDE DEF w
<1>2. SameWalk(k, w) /\ SameWalk(w, k)
  BY <1>1 DEF SameWalk, SamePrep, SameWaits
<1>3. Walkable(w) <=> Walkable(k)
  BY <1>2, SameWalkable
<1> QED
  BY <1>3 DEF w

\* The action of an event.
LEMMA FiresWalkable ==
    ASSUME conf \in DOMAIN Configurations, Sound(kext), Walkable(kext), NEW e, IsEvent(e),
           NEW dev, NEW late, NEW elapsed, NEW more, NEW keys, Fires(e, dev, late, elapsed, more, keys)
    PROVE  Walkable(kext')
<1> DEFINE retain == e.code.t = "move" \/ (e.code.t \in {"button", "scroll"} /\ Configuration.lazyMouse)
           n == Cardinality(Counted(keys))
           fs == IF retain THEN World.fs ELSE SetTemporary(World.fs)
           w == [World EXCEPT !.fs = fs, !.device = dev, !.elapsed = elapsed, !.keys = n]
           r == DoFire(w, e, late, more)
<1>1. kext' = Forget(r)
  BY DEF Fires
<1>2. World = AsWorld(kext) /\ World.fs = kext.fs /\ IsWorld(World) /\ Listable(World)
  BY WorldOfKext, AsWorldFields DEF Sound
<1>3. Walkable(World)
  BY <1>2, AsWorldWalkable DEF Sound
<1> HIDE DEF retain
<1>4. fs \in FlagStatuses /\ SameFlagCounts(kext.fs, fs)
  <2>1. kext.fs \in FlagStatuses
    BY <1>2 DEF IsWorld, OutputType
  <2> QED BY <1>2, <2>1, TemporaryType DEF SameFlagCounts
<1> HIDE DEF n, fs
<1>5. Alike(World, w)
  <2>1. w = [AsWorld(kext) EXCEPT !.fs = fs, !.device = dev, !.elapsed = elapsed, !.keys = n]
    BY <1>2
  <2> HIDE DEF w
  <2>2. Prepared(kext, w, fs, dev, elapsed, n)
    BY <2>1 DEF Prepared
  <2> QED BY <1>2, <1>4, <2>2, EventWorld
<1>6. SamePrep(World, w)
  <2>1. World = [x \in Fields |-> World[x]]
    BY <1>2 DEF IsWorld, OutputType
  <2> QED BY <2>1 DEF SamePrep, Fields
<1> HIDE DEF w
<1>7. IsWorld(w) /\ Listable(w) /\ SameModes(World, w)
  BY <1>2, <1>5, AlikeKeeps DEF Alike
<1>8. Walkable(w)
  BY <1>3, <1>6, <1>7, ModesWait, SameWalkable DEF SameWalk
<1>9. Walkable(r)
  BY <1>7, <1>8, DoFireWalkable
<1>10. IsWorld(r)
  <2>1. PICK v : Feeds(w, v, e) /\ IF ResetNeeded(w, e, more) THEN Resets(v, r) ELSE r = v
    BY <1>7, DoFireFeeds
  <2> HIDE DEF r
  <2> QED BY <2>1 DEF Feeds, Lasts, Resets
<1> HIDE DEF r
<1> QED
  BY <1>1, <1>9, <1>10, ForgetWalkable

\* The timer of KeyToKey.
LEMMA DelayedActionWalkable ==
    ASSUME conf \in DOMAIN Configurations, NEW w, IsWorld(w), w.ktk.on, Walkable(w)
    PROVE  LET id == w.ktk.target
           IN  Walkable(DoDelayedAction([w EXCEPT !.ktk.on = FALSE], id,
                                        Keys(Items[conf][id[1]].parts[id[2]], "DELAYED"), FALSE))
<1> DEFINE id == w.ktk.target
           keys == Keys(Items[conf][id[1]].parts[id[2]], "DELAYED")
           x == [w.ktk EXCEPT !.on = FALSE]
           u == [w EXCEPT !.ktk.on = FALSE]
           v == DoDelayedAction(u, id, keys, FALSE)
<1>1. KtkType(w.ktk) /\ id \in PartIds /\ w = [y \in Fields |-> w[y]]
  BY DEF IsWorld, FunctionType, KtkType, OutputType
<1>2. keys \in Seq(ToEvents)
  <2>1. PartOf(id) \in KeyToKeys /\ PartOf(id) = Items[conf][id[1]].parts[id[2]]
    BY <1>1, PartOfType DEF PartOf
  <2> HIDE DEF id
  <2>2. "DELAYED" \in ListNames
    BY DEF ListNames
  <2> QED BY <2>1, <2>2, KeysType
<1>3. KtkType(x)
  BY <1>1, KtkOff
<1>4. u = [w EXCEPT !.ktk = x]
  BY <1>1 DEF Fields
<1>5. SamePrep(w, u) /\ u.st = w.st
  BY <1>1 DEF SamePrep, Fields
<1> HIDE DEF x
<1>6. IsWorld(u)
  BY <1>3, <1>4, SetKtk
<1> HIDE DEF u, keys, id
<1>7. SamePrep(u, v) /\ v.st = u.st
  <2> DEFINE n == FALSE
             y == DoDelayedAction(u, id, keys, n)
  <2> HIDE DEF n
  <2>1. Goes(u, y)
    BY <1>2, <1>6, DoDelayedActionGoes
  <2>2. SamePrep(u, y)
    BY <1>2, <1>6, DoDelayedActionPrep
  <2>3. v = y
    BY DEF n
  <2> HIDE DEF v, y
  <2>4. y.st = u.st
    BY <2>1 DEF Goes, Aside
  <2> QED BY <2>2, <2>3, <2>4
<1> HIDE DEF v
<1>8. Walkable(v)
  BY <1>5, <1>7, StateWait, SameWalkable DEF SameWalk
<1> QED
  BY <1>8 DEF id, keys, u, v

\* The timer of the periods: what it may list are no short presses.
LEMMA PeriodTimerWalkable ==
    ASSUME conf \in DOMAIN Configurations, NEW w, IsWorld(w), w.dpp.on, Walkable(w)
    PROVE  Walkable(FireTimer([w EXCEPT !.dpp.on = FALSE]))
<1> DEFINE u == [w EXCEPT !.dpp.on = FALSE]
           v == FireTimer(u)
           i == w.dpp.target
<1>1. i \in Periodic
  BY DEF IsWorld, FunctionType
<1>2. IsWorld(u) /\ SameButStates(w, u) /\ u.st = w.st /\ u.dpp.target = i
  BY SetTimerFields
<1> HIDE DEF u
<1>3. Walkable(u)
  BY <1>2, StatesPrep, StateWait, SameWalkable DEF SameWalk
<1>4. v = u \/ (Ticks(u, v, i) /\ Touches(u, v, LaterOf(i)))
  BY <1>2, FireTimerTicks, FireTimerTouches
<1> HIDE DEF v
<1>5. ASSUME Ticks(u, v, i), Touches(u, v, LaterOf(i))
      PROVE  Walkable(v)
  <2>1. ASSUME NEW j \in Periodic
        PROVE  v.st[j].active = u.st[j].active
    <3>1. j \in DOMAIN Items[conf]
      BY PeriodicIds
    <3>2. CASE j = i
      BY <1>5, <3>2 DEF Ticks
    <3>3. CASE j # i
      BY <1>5, <3>1, <3>3 DEF Ticks, Works
    <3> QED BY <3>2, <3>3
  <2>2. ASSUME NEW j \in Periodic, v.st[j].active
        PROVE  ~Listed(v.prep, <<j, "SHORT">>)
    <3> DEFINE short == <<j, "SHORT">>
    <3>1. short \notin LaterOf(i)
      BY DEF LaterOf
    <3>2. ~Listed(u.prep, short)
      BY <1>3, <2>1, <2>2 DEF Walkable, Unarmed
    <3> HIDE DEF short
    <3>3. ~Listed(v.prep, short)
      BY <1>5, <3>1, <3>2 DEF Touches
    <3> QED BY <3>3 DEF short
  <2>3. Unarmed(v)
    BY <2>2 DEF Unarmed
  <2> QED BY <1>3, <1>5, <2>3 DEF Walkable, Touches
<1>6. Walkable(v)
  BY <1>3, <1>4, <1>5
<1> QED
  BY <1>6 DEF v, u

-----------------------------------------------------------------------------
(* The walk of prepare is good in every reachable state *)

WalkInv == TypeInv /\ Walkable(kext)

\* No item waits at the beginning and the list is empty.
LEMMA WalkInvInit == Init => WalkInv
<1> SUFFICES ASSUME Init PROVE WalkInv
  OBVIOUS
<1>1. TypeInv /\ kext = NewKext(conf)
  BY TypeInvInit DEF Init
<1>2. kext.walk = TRUE /\ kext.prep = <<>>
  BY <1>1 DEF NewKext
<1>3. Walkable(kext)
  BY <1>2 DEF Walkable, Single, Unarmed, Listed
<1> QED
  BY <1>1, <1>3 DEF WalkInv

\* The actions without an event: the timers, the repetition, and the changes
\* of the configuration.
LEMMA QuietActionsWalk ==
    ASSUME WalkInv
    PROVE  /\ DelayedAction => Walkable(kext')
           /\ PeriodTimer => Walkable(kext')
           /\ Repeat => Walkable(kext')
           /\ RefreshTimer => Walkable(kext')
           /\ \A c : SetConfigOne(c) => Walkable(kext')
           /\ \A p : SetWorkspace(p) => Walkable(kext')
<1> DEFINE w == AsWorld(kext)
<1>0. conf \in DOMAIN Configurations /\ Sound(kext) /\ Walkable(kext) /\ kext = [x \in Fields |-> kext[x]]
  BY DEF WalkInv, TypeInv, Sound
<1>1. World = w /\ IsWorld(w) /\ w.ktk = kext.ktk /\ w.dpp = kext.dpp /\ Walkable(w)
  BY <1>0, WorldOfKext, AsWorldFields, AsWorldWalkable DEF Sound
<1>2. ASSUME DelayedAction
      PROVE  Walkable(kext')
  <2> DEFINE id == kext.ktk.target
             v == DoDelayedAction([w EXCEPT !.ktk.on = FALSE], id, Keys(Items[conf][id[1]].parts[id[2]], "DELAYED"), FALSE)
  <2>1. kext.ktk.on /\ kext' = Forget(v)
    BY <1>1, <1>2 DEF DelayedAction
  <2> HIDE DEF w
  <2>2. Quiet(w, v) /\ Walkable(v)
    BY <1>0, <1>1, <2>1, DelayedActionQuiet, DelayedActionWalkable
  <2> HIDE DEF v
  <2>3. IsWorld(v)
    BY <2>2 DEF Quiet
  <2> QED BY <1>0, <2>1, <2>2, <2>3, ForgetWalkable
<1>3. ASSUME PeriodTimer
      PROVE  Walkable(kext')
  <2> DEFINE v == FireTimer([w EXCEPT !.dpp.on = FALSE])
  <2>1. kext.dpp.on /\ kext' = Forget(v)
    BY <1>1, <1>3 DEF PeriodTimer
  <2> HIDE DEF w
  <2>2. Quiet(w, v) /\ Walkable(v)
    BY <1>0, <1>1, <2>1, PeriodTimerQuiet, PeriodTimerWalkable
  <2> HIDE DEF v
  <2>3. IsWorld(v)
    BY <2>2 DEF Quiet
  <2> QED BY <1>0, <2>1, <2>2, <2>3, ForgetWalkable
<1>4. ASSUME Repeat
      PROVE  Walkable(kext')
  <2> DEFINE v == FireRepeat(w)
  <2>1. kext' = Forget(v)
    BY <1>1, <1>4 DEF Repeat
  <2> HIDE DEF w
  <2>2. Quiet(w, v) /\ Keeps(w, v)
    BY <1>0, <1>1, RepeatQuiet, FireRepeatKeeps DEF IsWorld
  <2> HIDE DEF v
  <2>3. IsWorld(v) /\ SamePrep(w, v) /\ v.st = w.st
    BY <1>1, <2>2, ActsPrep DEF Quiet, Keeps
  <2>4. Walkable(v)
    BY <1>1, <2>3, StateWait, SameWalkable DEF SameWalk
  <2> QED BY <1>0, <2>1, <2>3, <2>4, ForgetWalkable
<1>5. ASSUME RefreshTimer
      PROVE  Walkable(kext')
  <2> DEFINE v == Refresh(w)
  <2>1. kext' = Forget(v)
    BY <1>1, <1>5 DEF RefreshTimer
  <2> HIDE DEF w
  <2>2. Quiet(w, v)
    BY <1>0, <1>1, RefreshQuiet
  <2>3. SamePrep(w, v) /\ v.st = w.st
    BY <1>1 DEF Refresh, SamePrep, IsWorld, OutputType, Fields
  <2> HIDE DEF v
  <2>4. IsWorld(v)
    BY <2>2 DEF Quiet
  <2>5. Walkable(v)
    BY <1>1, <2>3, StateWait, SameWalkable DEF SameWalk
  <2> QED BY <1>0, <2>1, <2>4, <2>5, ForgetWalkable
<1>6. ASSUME NEW l, SamePrep(kext, l), l.st = kext.st
      PROVE  Walkable(l)
  BY <1>0, <1>6, StateWait, SameWalkable DEF SameWalk
<1>7. ASSUME NEW c, SetConfigOne(c)
      PROVE  Walkable(kext')
  <2>1. SamePrep(kext, kext') /\ kext'.st = kext.st
    BY <1>0, <1>7 DEF SetConfigOne, SamePrep, Fields
  <2> QED BY <1>6, <2>1
<1>8. ASSUME NEW p, SetWorkspace(p)
      PROVE  Walkable(kext')
  <2>1. SamePrep(kext, kext') /\ kext'.st = kext.st
    BY <1>0, <1>8 DEF SetWorkspace, SamePrep, Fields
  <2> QED BY <1>6, <2>1
<1> QED
  BY <1>2, <1>3, <1>4, <1>5, <1>7, <1>8

\* Every action, by the lemmas above.
LEMMA NextWalk ==
    ASSUME WalkInv, Next
    PROVE  Walkable(kext')
<1>0. conf \in DOMAIN Configurations /\ Sound(kext) /\ Walkable(kext)
  BY DEF WalkInv, TypeInv
<1>1. ASSUME NEW k \in Configuration.keys, Press(k)
      PROVE  Walkable(kext')
  <2> DEFINE more == FALSE
  <2> HIDE DEF more
  <2>1. PICK late, elapsed : Fires(Down(k), k.dev, late, elapsed, more, held \cup {k})
    BY <1>1 DEF Press, Down, more
  <2>2. IsEvent(Down(k))
    BY <1>0, KeyIsEvent
  <2> QED BY <1>0, <2>1, <2>2, FiresWalkable
<1>2. ASSUME NEW k \in Configuration.keys, Release(k)
      PROVE  Walkable(kext')
  <2>1. PICK late, elapsed, more : Fires(Up(k), k.dev, late, elapsed, more, held \ {k})
    BY <1>2 DEF Release, Up
  <2>2. IsEvent(Up(k))
    BY <1>0, KeyIsEvent
  <2> QED BY <1>0, <2>1, <2>2, FiresWalkable
<1>3. ASSUME NEW t \in {"scroll", "move"}, Pointing(t)
      PROVE  Walkable(kext')
  <2> DEFINE more == FALSE
  <2> HIDE DEF more
  <2>1. Fires(Moved(t), "mouse", more, 0, more, held)
    BY <1>3 DEF Pointing, Moved, more
  <2>2. IsEvent(Moved(t))
    BY DEF IsEvent, Moved
  <2> QED BY <1>0, <2>1, <2>2, FiresWalkable
<1> QED
  BY <1>1, <1>2, <1>3, QuietActionsWalk DEF Next

\* What the walk relies on reads no variable but conf.
LEMMA SameWalkInv ==
    ASSUME conf' = conf
    PROVE  \A k : Walkable(k)' <=> Walkable(k)
BY SameConfiguration DEF Walkable, Single, Unarmed, Listed

\* The invariant is inductive.
LEMMA WalkInvNext == WalkInv /\ [Next]_vars => WalkInv'
<1> SUFFICES ASSUME WalkInv, [Next]_vars PROVE WalkInv'
  OBVIOUS
<1>1. TypeInv'
  BY TypeInvNext DEF WalkInv
<1>2. conf' = conf
  BY NextEffect DEF WalkInv, TypeInv, vars
<1>3. Walkable(kext')
  BY NextWalk DEF WalkInv, vars
<1>4. Walkable(kext)'
  BY <1>2, <1>3, SameWalkInv
<1> QED
  BY <1>1, <1>4 DEF WalkInv

\* RemapClassManager::prepare never loses the entry it has stored as the next
\* one, and a press of a key puts no entry on the list, in every reachable
\* state and for every configuration: an item of a period that still waits
\* never has its short press on the list, so that only the entry that is
\* called goes.
THEOREM WalkKept == Spec => []PrepareWalk
<1>1. WalkInv => PrepareWalk
  BY DEF WalkInv, Walkable, PrepareWalk
<1> QED
  BY <1>1, WalkInvInit, WalkInvNext, PTL DEF Spec
=============================================================================
