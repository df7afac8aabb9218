--------------------------- MODULE RemapperProofs ---------------------------
(***************************************************************************)
(* The remapper keeps its types, leaves nothing behind and counts right,   *)
(* for every configuration.                                                *)
(*                                                                         *)
(* From the contracts of RemapFuncProofs follow those of                   *)
(* RemapClassManager::prepare and ::remap (Prepares, Keeping: by the fold  *)
(* over the items) and of the callbacks of one event (Feeds), then those   *)
(* of the actions: an event Feeds the counts, resetInternalStateIfNeeded   *)
(* Resets them, every other action is Quiet. The invariants are read off   *)
(* these.                                                                  *)
(*                                                                         *)
(* TypeInv: the kext is sound. SettledInv: it is Tidy, so an item of a     *)
(* period that waits, is in a period or took its modifiers is pressed, and *)
(* Balanced: it is pressed no more often than keys are held that could     *)
(* have pressed it. CountsInv: the counts of FlagStatus and ButtonStatus   *)
(* Follow the keys that are held. The last two assume Sole(conf): an item  *)
(* of a period is the only item whose key it is, whatever the device.      *)
(* Where two items with different device filters share a key, the release  *)
(* may be taken by an item that did not take the press.                    *)
(***************************************************************************)
EXTENDS RemapFuncProofs

-----------------------------------------------------------------------------
(* prepare of an entry of the list *)

\* The entries of the list that are no KeyToKey.
Listable(w) == \A i : Listed(w.prep, <<i, "ITEM">>) => i \in Periodic \cup DownUps

Kept(w) == <<w.loaded, w.device, w.keys>>

\* What all the functions keep.
Keeping(w, v) ==
    /\ IsWorld(v) /\ SameExcess(w, v) /\ Kept(v) = Kept(w)
    /\ (Tidy(w) => Tidy(v)) /\ (Listable(w) => Listable(v))

SamePeriodKeys(w, v) == \A j \in Periodic : v.pressing[<<j, "ITEM">>] = w.pressing[<<j, "ITEM">>]

\* ... and prepare: no overlaid key is pressed or released.
Prepares(w, v) == Keeping(w, v) /\ v.active = w.active /\ SamePeriodKeys(w, v)

SameDrops(w, v) == v.remapped = w.remapped /\ v.drop = w.drop

\* One prepare, and another.
LEMMA PreparesTwice ==
    ASSUME NEW u, NEW v, NEW w, Prepares(u, v), Prepares(v, w)
    PROVE  Prepares(u, w)
<1>1. SameExcess(u, w)
  BY SameExcessTwice DEF Prepares, Keeping
<1> QED
  BY <1>1 DEF Prepares, Keeping, SamePeriodKeys

\* Nothing is prepared.
LEMMA PreparesNothing ==
    ASSUME NEW w, IsWorld(w)
    PROVE  Prepares(w, w)
BY DEF Prepares, Keeping, SamePeriodKeys, SameExcess

\* Only items that ask for the next event are listed.
LEMMA StepsListable ==
    ASSUME NEW w, Listable(w), NEW v, NEW i, Steps(w, v, i)
    PROVE  Listable(v)
<1> SUFFICES ASSUME NEW j, Listed(v.prep, <<j, "ITEM">>)
             PROVE  j \in Periodic \cup DownUps
  BY DEF Listable
<1>1. CASE j = i
  BY <1>1 DEF Steps, Listable
<1>2. CASE j # i
  <2> DEFINE id == <<j, "ITEM">>
  <2>1. id[2] = "ITEM" /\ id # <<i, "ITEM">>
    BY <1>2
  <2> HIDE DEF id
  <2>2. Listed(v.prep, id) => Listed(w.prep, id)
    BY <2>1 DEF Steps
  <2> QED BY <2>2 DEF Listable, id
<1> QED
  BY <1>1, <1>2

\* What no item changes is as it was.
LEMMA OthersKept ==
    ASSUME NEW w, NEW v, Others(v) = Others(w)
    PROVE  Kept(v) = Kept(w) /\ v.active = w.active
BY DEF Others, Kept

\* A step of an item that leaves its key alone, and the periods in order.
LEMMA RestsPrepares ==
    ASSUME conf \in DOMAIN Configurations, NEW w, IsWorld(w), NEW v, NEW i, i \in DOMAIN Items[conf], Rests(w, v, i),
           Tidy(w) => Tidy(v)
    PROVE  Prepares(w, v)
<1>1. Listable(w) => Listable(v)
  BY StepsListable DEF Rests
<1>2. SamePeriodKeys(w, v)
  <2>1. \A x \in Ids(conf) : x[2] \in {"ITEM", "KTK", "FROM"} => v.pressing[x] = w.pressing[x]
    BY DEF Rests, SameMains
  <2>2. \A j \in Periodic : <<j, "ITEM">> \in Ids(conf) /\ <<j, "ITEM">>[2] = "ITEM"
    BY PeriodicIds
  <2> QED BY <2>1, <2>2 DEF SamePeriodKeys
<1>3. Kept(v) = Kept(w) /\ v.active = w.active
  BY OthersKept DEF Rests, Steps
<1> QED
  BY <1>1, <1>2, <1>3 DEF Prepares, Keeping, Rests, Steps

\* A step of an item of no period.
LEMMA StepsPrepares ==
    ASSUME conf \in DOMAIN Configurations, NEW w, IsWorld(w), NEW v, NEW i, i \in DOMAIN Items[conf], i \notin Periodic,
           Steps(w, v, i)
    PROVE  Prepares(w, v)
<1>1. (Listable(w) => Listable(v)) /\ (Tidy(w) => Tidy(v))
  BY StepsListable, StepsTidy
<1>2. SamePeriodKeys(w, v)
  <2>1. \A j \in Periodic : j # i => v.pressing[<<j, "ITEM">>] = w.pressing[<<j, "ITEM">>]
    BY StepsOthers
  <2>2. \A j \in Periodic : j # i
    OBVIOUS
  <2> QED BY <2>1, <2>2 DEF SamePeriodKeys
<1>3. Kept(v) = Kept(w) /\ v.active = w.active
  BY OthersKept DEF Steps
<1> QED
  BY <1>1, <1>2, <1>3 DEF Prepares, Keeping, Steps

\* Output.
LEMMA GoesPrepares ==
    ASSUME conf \in DOMAIN Configurations, NEW w, IsWorld(w), NEW v, Goes(w, v)
    PROVE  Prepares(w, v)
<1>1. Tidy(w) => Tidy(v)
  BY GoesTidy
<1>2. \A i : Rests(w, v, i)
  BY GoesRests
<1>3. Listable(w) => Listable(v)
  BY <1>2, StepsListable DEF Rests
<1>4. SamePeriodKeys(w, v)
  <2>1. \A x \in Ids(conf) : x[2] \in {"ITEM", "KTK", "FROM"} => v.pressing[x] = w.pressing[x]
    BY DEF Goes, SameMains
  <2>2. \A j \in Periodic : <<j, "ITEM">> \in Ids(conf) /\ <<j, "ITEM">>[2] = "ITEM"
    BY PeriodicIds
  <2> QED BY <2>1, <2>2 DEF SamePeriodKeys
<1>5. Kept(v) = Kept(w) /\ v.active = w.active
  BY DEF Goes, Aside, Kept
<1> QED
  BY <1>1, <1>3, <1>4, <1>5 DEF Prepares, Keeping, Goes

\* DependingPressingPeriodKeyToKey::prepare: no release but one of the wheel
\* ends the wait.
LEMMA PreparePeriodPrepares ==
    ASSUME conf \in DOMAIN Configurations, NEW w, IsWorld(w), NEW i, i \in Periodic, NEW e, NEW pt
    PROVE  /\ Prepares(w, PreparePeriod(w, i, e, pt))
           /\ e.type = "UP" /\ e.code.t # "scroll" => PreparePeriod(w, i, e, pt) = w
<1> DEFINE a == DoKeyDown(w, i, e, pt)
           v == PreparePeriod(w, i, e, pt)
<1>1. v \in {a, w} /\ (e.type = "UP" /\ e.code.t # "scroll" => v = w)
  BY DEF PreparePeriod
<1>2. IF w.st[i].active THEN Ends(w, a, i) ELSE a = w
  BY DoKeyDownEnds
<1> HIDE DEF a, v
<1>3. i \in DOMAIN Items[conf]
  BY PeriodicIds
<1>4. Prepares(w, w)
  BY PreparesNothing
<1>5. ASSUME w.st[i].active
      PROVE  Prepares(w, a)
  <2>1. Ends(w, a, i)
    BY <1>2, <1>5
  <2>2. Rests(w, a, i)
    BY <2>1, WorksSteps DEF Ends
  <2>3. Tidy(w) => Tidy(a)
    BY <1>5, <2>1, EndsTidy
  <2> QED BY <1>3, <2>2, <2>3, RestsPrepares
<1> QED
  BY <1>1, <1>2, <1>4, <1>5 DEF v

\* KeyDownUpToKey::prepare: the event is dropped only if its key is the
\* item's.
LEMMA PrepareDownUpPrepares ==
    ASSUME conf \in DOMAIN Configurations, NEW w, IsWorld(w), NEW i, i \in DownUps, NEW e, NEW pt
    PROVE  LET v == PrepareDownUp(w, i, e, pt)
           IN  /\ Prepares(w, v) /\ (e.code # Items[conf][i].from => SameDrops(w, v))
               /\ \A j \in Periodic : v.st[j] = w.st[j]
<1> DEFINE a == RemapFrom(w, i, e, pt)
           b == PseudoDownUp(a, i, "DOWNUP", pt)
           c == Pseudo(w, i, "INTERRUPTED", "DOWN", pt)
           x == TRUE
           d == [c EXCEPT !.st[i].interrupted = x]
           f == IF Remaps(w, i, e) THEN b ELSE d
           g == UnregisterPrepareTargetItem(f, <<i, "ITEM">>)
           v == PrepareDownUp(w, i, e, pt)
<1>0. /\ i \in DOMAIN Items[conf] /\ i \notin Periodic /\ Items[conf][i].main = "FROM"
      /\ {"DOWNUP", "INTERRUPTED"} \subseteq DOMAIN Items[conf][i].parts
  BY PartOfItem DEF DownUps
<1>1. v \in {g, w}
  BY DEF PrepareDownUp
<1>2. Remaps(w, i, e) => e.code = Items[conf][i].from
  BY DEF Remaps, IsTarget, IsWorld, FunctionType, Item
<1>3. ASSUME Remaps(w, i, e)
      PROVE  Steps(w, b, i)
  <2>1. TakesDown(w, a, i, e)
    BY <1>0, <1>3, RemapFromTakes
  <2> HIDE DEF a
  <2>2. IsWorld(a)
    BY <2>1 DEF TakesDown, Steps
  <2>3. "DOWNUP" \notin {"KTK", "FROM"}
    OBVIOUS
  <2>4. Rests(a, b, i)
    BY <1>0, <2>2, <2>3, PseudoDownUpRests
  <2> HIDE DEF b
  <2>5. TakesDown(w, b, i, e)
    BY <1>0, <2>1, <2>4, TakesThenRests
  <2> QED BY <2>5 DEF TakesDown
<1>4. Rests(w, c, i) /\ c.drop = w.drop
  <2>1. "INTERRUPTED" \notin {"KTK", "FROM"}
    OBVIOUS
  <2> QED BY <1>0, <2>1, PseudoRests
<1> HIDE DEF b, c
<1>5. Rests(c, d, i) /\ d.drop = c.drop
  <2>1. x \in BOOLEAN
    OBVIOUS
  <2> HIDE DEF x
  <2>2. IsWorld(c)
    BY <1>4 DEF Rests, Steps
  <2> QED BY <1>0, <2>1, <2>2, InterruptedRests
<1> HIDE DEF x, d
<1>6. Rests(w, d, i) /\ d.drop = w.drop
  BY <1>4, <1>5, RestsTwice
<1>7. f = IF Remaps(w, i, e) THEN b ELSE d
  OBVIOUS
<1> HIDE DEF f
<1>8. Steps(w, f, i) /\ (~Remaps(w, i, e) => f.remapped = w.remapped /\ f.drop = w.drop)
  BY <1>3, <1>6, <1>7 DEF Rests
<1>9. Rests(f, g, i) /\ g.drop = f.drop
  <2>1. IsWorld(f)
    BY <1>8 DEF Steps
  <2> QED BY <2>1, RegisterRests
<1> HIDE DEF g
<1>10. Steps(w, g, i) /\ (~Remaps(w, i, e) => SameDrops(w, g))
  <2>1. Steps(w, g, i)
    BY <1>8, <1>9, StepsTwice DEF Rests
  <2> QED BY <1>8, <1>9, <2>1 DEF Rests, SameDrops
<1>11. Prepares(w, g)
  BY <1>0, <1>10, StepsPrepares
<1>12. Prepares(w, w) /\ SameDrops(w, w)
  BY PreparesNothing DEF SameDrops
<1>13. \A j \in Periodic : g.st[j] = w.st[j]
  <2>1. \A j \in Periodic : j # i /\ j \in DOMAIN Items[conf]
    BY <1>0, PeriodicIds
  <2> QED BY <1>10, <2>1 DEF Steps
<1> HIDE DEF v
<1> QED
  BY <1>1, <1>2, <1>10, <1>11, <1>12, <1>13 DEF v

\* prepare of an entry of the list: a release of another key is never dropped.
LEMMA PrepareItemPrepares ==
    ASSUME conf \in DOMAIN Configurations, NEW w, IsWorld(w), NEW id, id \in Ids(conf),
           id[2] = "ITEM" => id[1] \in Periodic \cup DownUps, NEW e, NEW pt
    PROVE  LET v == PrepareItem(w, id, e, pt)
           IN  /\ Prepares(w, v)
               /\ e.type = "UP" /\ e.code.t # "scroll" /\ (\A j \in DownUps : e.code # Items[conf][j].from) => SameDrops(w, v)
<1> DEFINE v == PrepareItem(w, id, e, pt)
           i == id[1]
<1>1. w.items = Items[conf]
  BY DEF IsWorld, FunctionType
<1>2. CASE id[2] # "ITEM"
  <2> DEFINE a == PrepareKeyToKey(w, id, PartOf(id), e)
  <2>1. v = a
    BY <1>1, <1>2 DEF PrepareItem, Part, Item, PartOf
  <2>2. id \in PartIds
    BY <1>2 DEF PartIds
  <2>3. Goes(w, a) /\ (e.type # "DOWN" => a = w)
    BY <2>2, PrepareKeyToKeyGoes
  <2> HIDE DEF a, v
  <2>4. Prepares(w, a)
    BY <2>3, GoesPrepares
  <2> QED BY <2>1, <2>3, <2>4 DEF SameDrops, v
<1>3. CASE id[2] = "ITEM" /\ i \in DownUps
  <2>1. v = PrepareDownUp(w, i, e, pt)
    BY <1>1, <1>3 DEF PrepareItem, Item, DownUps
  <2> HIDE DEF i
  <2> DEFINE a == PrepareDownUp(w, i, e, pt)
  <2>2. Prepares(w, a) /\ (e.code # Items[conf][i].from => SameDrops(w, a))
    BY <1>3, PrepareDownUpPrepares
  <2> HIDE DEF a, v
  <2>3. v = a
    BY <2>1 DEF a
  <2> QED BY <1>3, <2>2, <2>3 DEF v
<1>4. CASE id[2] = "ITEM" /\ i \in Periodic
  <2>1. v = PreparePeriod(w, i, e, pt)
    BY <1>1, <1>4 DEF PrepareItem, Item, Periodic
  <2> HIDE DEF i
  <2> DEFINE a == PreparePeriod(w, i, e, pt)
  <2>2. Prepares(w, a) /\ (e.type = "UP" /\ e.code.t # "scroll" => a = w)
    BY <1>4, PreparePeriodPrepares
  <2> HIDE DEF a, v
  <2>3. v = a
    BY <2>1 DEF a
  <2> QED BY <2>2, <2>3 DEF v, SameDrops
<1> QED
  BY <1>2, <1>3, <1>4

-----------------------------------------------------------------------------
(* Item::remap *)

\* The numbers of active filters are replaced.
LEMMA SetActive ==
    ASSUME NEW w, IsWorld(w), NEW x, x \in [DOMAIN Items[conf] -> Nat]
    PROVE  LET v == [w EXCEPT !.active = x]
           IN  /\ IsWorld(v) /\ SameCounts(w, v) /\ v.pressing = w.pressing /\ v.st = w.st /\ v.dpp = w.dpp
               /\ v.prep = w.prep /\ v.remapped = w.remapped /\ v.active = x /\ Kept(v) = Kept(w)
<1> DEFINE v == [w EXCEPT !.active = x]
<1>1. /\ OutputType(v) /\ SameCounts(w, v) /\ v.pressing = w.pressing /\ v.st = w.st /\ v.dpp = w.dpp
      /\ v.prep = w.prep /\ v.remapped = w.remapped /\ v.active = x /\ Kept(v) = Kept(w) /\ v.rep = w.rep
  BY DEF IsWorld, OutputType, Fields, SameCounts, SameFlagCounts, Kept
<1>2. v.items = w.items /\ v.ktk = w.ktk
  BY DEF IsWorld, OutputType, Fields
<1> HIDE DEF v
<1>3. FunctionType(v)
  BY <1>1, <1>2 DEF IsWorld, FunctionType
<1>4. IsWorld(v)
  BY <1>1, <1>3 DEF IsWorld
<1> QED
  BY <1>1, <1>4 DEF v

\* Nothing a function reads of the list, the states and the timer has changed.
SameTidy(w, v) ==
    /\ v.st = w.st /\ v.dpp = w.dpp
    /\ \A j : Listed(v.prep, <<j, "ITEM">>) <=> Listed(w.prep, <<j, "ITEM">>)

\* The periods are in order when what they consist of has not changed.
LEMMA SameTidyKeeps ==
    ASSUME NEW w, NEW v, SameTidy(w, v)
    PROVE  /\ SamePeriodKeys(w, v) /\ Tidy(w) => Tidy(v)
           /\ Listable(w) => Listable(v)
BY DEF SameTidy, SamePeriodKeys, Tidy, Listable

\* The same is left when nothing of it has changed.
LEMMA SameCountsKeeps ==
    ASSUME conf \in DOMAIN Configurations, NEW w, NEW v, IsWorld(v), SameCounts(w, v), v.pressing = w.pressing,
           v.st = w.st, v.dpp = w.dpp, v.prep = w.prep, Kept(v) = Kept(w)
    PROVE  Keeping(w, v) /\ SamePeriodKeys(w, v)
<1>1. SameTidy(w, v) /\ SamePeriodKeys(w, v)
  BY DEF SameTidy, SamePeriodKeys
<1>2. SameExcess(w, v)
  BY SameCountsExcess
<1> QED
  BY <1>1, <1>2, SameTidyKeeps DEF Keeping

\* What an event keeps, twice.
LEMMA KeepingTwice ==
    ASSUME NEW u, NEW v, NEW w, Keeping(u, v), Keeping(v, w)
    PROVE  Keeping(u, w)
<1>1. SameExcess(u, w)
  BY SameExcessTwice DEF Keeping
<1> QED
  BY <1>1 DEF Keeping

\* An item that takes an event keeps all the rest.
LEMMA TakesKeeping ==
    ASSUME NEW w, NEW v, NEW i, NEW e, TakesAll(w, v, i, e)
    PROVE  Keeping(w, v) /\ v.active = w.active
<1>1. Listable(w) => Listable(v)
  BY StepsListable DEF TakesAll, TakesDown
<1>2. Kept(v) = Kept(w) /\ v.active = w.active
  BY OthersKept DEF TakesAll, TakesDown, Steps
<1> QED
  BY <1>1, <1>2 DEF Keeping, TakesAll, TakesDown, Steps

\* An item takes an event: its key and RemapClass::ActiveItems count it.
TakesIt(w, v, i, e) ==
    /\ Remaps(w, i, e) /\ ~IsItemBlockedKeyUp(w, i)
    /\ v.active[i] = w.active[i] + (IF e.type = "DOWN" THEN 1 ELSE -1)
    /\ v.pressing[<<i, "ITEM">>] = w.pressing[<<i, "ITEM">>] + (IF e.type = "DOWN" THEN 1 ELSE -1)

SameKey(w, v, i) == v.active[i] = w.active[i] /\ v.pressing[<<i, "ITEM">>] = w.pressing[<<i, "ITEM">>]

\* What remap of item i may do to the overlaid keys.
Handles(w, v, i, e) ==
    /\ Keeping(w, v)
    /\ \A j \in Periodic : j # i => SameKey(w, v, j)
    /\ i \in Periodic => SameKey(w, v, i) \/ TakesIt(w, v, i, e)
    /\ e.code # Items[conf][i].from => v.remapped = w.remapped

\* A prepare that does not take the event.
LEMMA PreparesHandles ==
    ASSUME NEW w, NEW v, Prepares(w, v), v.remapped = w.remapped, NEW i, NEW e
    PROVE  Handles(w, v, i, e)
BY DEF Prepares, Handles, SameKey, SamePeriodKeys

\* A filter that blocks a release blocks a press.
LEMMA KeyUpBlocks ==
    ASSUME NEW w, NEW i, IsItemBlockedKeyUp(w, i)
    PROVE  IsItemBlocked(w, i)
BY DEF IsItemBlockedKeyUp, IsItemBlocked, IsBlockedKeyUp

\* Item::remap: blocked or not, the item handles the event, and a release that
\* its filters let through is taken by the item that is pressed.
LEMMA RemapClassItemHandles ==
    ASSUME conf \in DOMAIN Configurations, NEW w, IsWorld(w), NEW i, i \in DOMAIN Items[conf],
           NEW e, e.type \in {"DOWN", "UP", "NONE"}, e.code # VK_NONE, NEW pt, NEW late, NEW passThrough
    PROVE  LET v == RemapClassItem(w, i, e, pt, late, passThrough)
           IN  /\ Handles(w, v, i, e)
               /\ i \in Periodic /\ e.type = "UP" /\ w.active[i] > 0 /\ ~IsItemBlockedKeyUp(w, i) /\ Remaps(w, i, e)
                     => TakesIt(w, v, i, e)
<1> DEFINE v == RemapClassItem(w, i, e, pt, late, passThrough)
           a == Passes(w, i, e)
           b == RemapItem(w, i, e, pt, late)
           n == IF e.type = "DOWN" THEN b.active[i] + 1 ELSE b.active[i] - 1
           x == [b.active EXCEPT ![i] = n]
           c == [b EXCEPT !.active = x]
<1>1. v = IF Ignores(w, i, e, passThrough) THEN w ELSE IF Remaps(w, i, e) THEN c ELSE a
  <2>1. c = [RemapItem(w, i, e, pt, late) EXCEPT !.active[i] = IF e.type = "DOWN" THEN @ + 1 ELSE @ - 1]
    OBVIOUS
  <2> HIDE DEF c
  <2> QED BY <2>1 DEF RemapClassItem
<1>2. Handles(w, w, i, e)
  BY PreparesNothing, PreparesHandles
<1>3. Handles(w, a, i, e)
  <2>1. Rests(w, a, i) /\ (Tidy(w) => Tidy(a))
    BY PassesRests
  <2> HIDE DEF a
  <2>2. Prepares(w, a)
    BY <2>1, RestsPrepares
  <2> QED BY <2>1, <2>2, PreparesHandles DEF Rests
<1>4. ASSUME ~Ignores(w, i, e, passThrough), Remaps(w, i, e)
      PROVE  Handles(w, c, i, e) /\ (i \in Periodic => TakesIt(w, c, i, e))
  <2>1. TakesAll(w, b, i, e)
    BY <1>4, RemapItemTakes
  <2>2. Keeping(w, b) /\ b.active = w.active
    BY <2>1, TakesKeeping
  <2>3. e.type \in {"DOWN", "UP"} /\ e.code = Items[conf][i].from
    BY <1>4 DEF Remaps, IsTarget, IsWorld, FunctionType, Item
  <2>4. (e.type = "UP" => w.active[i] # 0) /\ ~IsItemBlockedKeyUp(w, i)
    BY <1>4, <2>3, KeyUpBlocks DEF Ignores
  <2>5. w.active \in [DOMAIN Items[conf] -> Nat]
    BY DEF IsWorld, FunctionType
  <2> HIDE DEF b
  <2>6. n \in Nat /\ n = w.active[i] + IF e.type = "DOWN" THEN 1 ELSE -1
    BY <2>2, <2>3, <2>4, <2>5
  <2> HIDE DEF n
  <2>7. /\ x \in [DOMAIN Items[conf] -> Nat] /\ x[i] = n
        /\ \A j \in DOMAIN Items[conf] : j # i => x[j] = w.active[j]
    BY <2>2, <2>5, <2>6
  <2> HIDE DEF x
  <2>8. IsWorld(b)
    BY <2>2 DEF Keeping
  <2>9. /\ IsWorld(c) /\ SameCounts(b, c) /\ c.pressing = b.pressing /\ c.st = b.st /\ c.dpp = b.dpp
        /\ c.prep = b.prep /\ c.remapped = b.remapped /\ c.active = x /\ Kept(c) = Kept(b)
    BY <2>7, <2>8, SetActive
  <2> HIDE DEF c
  <2>10. Keeping(w, c)
    BY <2>2, <2>9, SameCountsKeeps, KeepingTwice
  <2>11. \A j \in Periodic : j # i => SameKey(w, c, j)
    <3>1. \A j \in Periodic : j # i => b.pressing[<<j, "ITEM">>] = w.pressing[<<j, "ITEM">>]
      BY <2>1, StepsOthers DEF TakesAll, TakesDown
    <3>2. \A j \in Periodic : j \in DOMAIN Items[conf]
      BY PeriodicIds
    <3> QED BY <2>7, <2>9, <3>1, <3>2 DEF SameKey
  <2>12. i \in Periodic => TakesIt(w, c, i, e)
    <3>1. i \in Periodic => Own(i) = <<i, "ITEM">>
      BY OwnIds
    <3>2. c.pressing[Own(i)] = w.pressing[Own(i)] + IF e.type = "DOWN" THEN 1 ELSE -1
      BY <2>1, <2>9 DEF TakesAll, TakesDown
    <3> QED BY <1>4, <2>4, <2>6, <2>7, <2>9, <3>1, <3>2 DEF TakesIt
  <2> QED BY <2>3, <2>10, <2>11, <2>12 DEF Handles
<1> HIDE DEF a, c, v
<1>5. Handles(w, v, i, e)
  BY <1>1, <1>2, <1>3, <1>4
<1>6. i \in Periodic /\ e.type = "UP" /\ w.active[i] > 0 /\ ~IsItemBlockedKeyUp(w, i) /\ Remaps(w, i, e)
         => TakesIt(w, v, i, e)
  <2> SUFFICES ASSUME i \in Periodic, e.type = "UP", w.active[i] > 0, ~IsItemBlockedKeyUp(w, i), Remaps(w, i, e)
               PROVE  TakesIt(w, v, i, e)
    OBVIOUS
  <2>1. w.active[i] # 0
    BY DEF IsWorld, FunctionType
  <2>2. ~Ignores(w, i, e, passThrough)
    BY <2>1 DEF Ignores
  <2> QED BY <1>1, <1>4, <2>2
<1> QED
  BY <1>5, <1>6 DEF v

-----------------------------------------------------------------------------
(* RemapClassManager::remap *)

\* A filter on devices keeps item i from the keys of a device.
DeviceBlocks(i, dev) == \E f \in Items[conf][i].filters : IsBlockedKeyUp(f, [device |-> dev])

\* Which releases an item's filters block depends on the device alone: this is
\* why a press and its release are decided alike.
LEMMA KeyUpByDevice ==
    ASSUME NEW w, w.items = Items[conf], NEW i
    PROVE  IsItemBlockedKeyUp(w, i) <=> DeviceBlocks(i, w.device)
<1>1. ASSUME NEW f, NEW env, f.type = "DEVICE"
      PROVE  IsBlockedKeyUp(f, env) <=> ((env.device \in f.targets) = f.isnot)
  <2>1. ~LooksBack(f) /\ ~HasBound(f)
    BY <1>1 DEF LooksBack, HasBound
  <2>2. Matches(f, env) <=> env.device \in f.targets
    BY <1>1 DEF Matches, ApplicationMatches, WindowNameMatches, InputSourceMatches, UIElementRoleMatches, ConfigMatches,
                DeviceMatches, ModifierMatches, LastPressedMatches, LastReleasedMatches, LastSentMatches
  <2>3. Matches(f, env) = (env.device \in f.targets)
    <3> DEFINE a == ApplicationMatches(f, env) \/ WindowNameMatches(f, env)
               b == InputSourceMatches(f, env) \/ UIElementRoleMatches(f, env)
               c == ConfigMatches(f, env)
               d == DeviceMatches(f, env)
               g == ModifierMatches(f, env)
               h == LastPressedMatches(f, env) \/ LastReleasedMatches(f, env) \/ LastSentMatches(f, env)
               m == env.device \in f.targets
    <3>1. m \in BOOLEAN
      OBVIOUS
    <3>2. Matches(f, env) = (a \/ b \/ c \/ d \/ g \/ h)
      BY Zenon DEF Matches
    <3>3. a = FALSE /\ b = FALSE /\ c = FALSE /\ g = FALSE /\ h = FALSE
      BY <1>1 DEF ApplicationMatches, WindowNameMatches, InputSourceMatches, UIElementRoleMatches,
                  ConfigMatches, ModifierMatches, LastPressedMatches, LastReleasedMatches, LastSentMatches
    <3>4. d = m
      <4>1. f.type = "DEVICE"
        BY <1>1
      <4>2. d = ((f.type = "DEVICE") /\ m)
        BY Zenon DEF DeviceMatches
      <4> HIDE DEF d, m
      <4> QED BY <3>1, <4>1, <4>2
    <3> HIDE DEF a, b, c, d, g, h, m
    <3>5. (FALSE \/ FALSE \/ FALSE \/ m \/ FALSE \/ FALSE) = m
      BY <3>1
    <3>6. Matches(f, env) = m
      BY <3>2, <3>3, <3>4, <3>5
    <3> QED
      BY <3>6 DEF m
  <2>4. IsBlocked(f, env) <=> (Matches(f, env) = f.isnot)
    BY <2>1 DEF IsBlocked
  <2> QED BY <1>1, <2>3, <2>4 DEF IsBlockedKeyUp
<1>2. Env(w).device = w.device
  BY DEF Env
<1>3. \A dev : [device |-> dev].device = dev
  OBVIOUS
<1>4. ASSUME NEW f
      PROVE  IsBlockedKeyUp(f, Env(w)) <=> IsBlockedKeyUp(f, [device |-> w.device])
  <2>1. CASE f.type = "DEVICE"
    BY <1>1, <1>2, <1>3, <2>1
  <2>2. CASE f.type # "DEVICE"
    BY <2>2 DEF IsBlockedKeyUp
  <2> QED BY <2>1, <2>2
<1> QED
  BY <1>4 DEF IsItemBlockedKeyUp, DeviceBlocks, Item

\* No other item of the configuration is for the key of this one.
Lone(i) == \A j \in DOMAIN Items[conf] : j # i => Items[conf][j].from # Items[conf][i].from

\* Item i took the event: from world w to v ...
Took(w, v, i, e) ==
    /\ e.code = Items[conf][i].from /\ e.type \in {"DOWN", "UP"}
    /\ ~DeviceBlocks(i, w.device) /\ Items[conf][i].class \in w.loaded
    /\ v.active[i] = w.active[i] + (IF e.type = "DOWN" THEN 1 ELSE -1)
    /\ v.pressing[<<i, "ITEM">>] = w.pressing[<<i, "ITEM">>] + (IF e.type = "DOWN" THEN 1 ELSE -1)

\* ... and has to, for it is the release of its key.
MustTake(w, i, e) ==
    /\ e.type = "UP" /\ e.code = Items[conf][i].from /\ Lone(i) /\ w.remapped = FALSE
    /\ w.active[i] > 0 /\ w.pressing[<<i, "ITEM">>] > 0
    /\ Items[conf][i].class \in w.loaded /\ ~DeviceBlocks(i, w.device)

Done(w, v, i, e) == (SameKey(w, v, i) \/ Took(w, v, i, e)) /\ (MustTake(w, i, e) => Took(w, v, i, e))

ToDo(w, v, i, e) == SameKey(w, v, i) /\ (Lone(i) /\ e.code = Items[conf][i].from => v.remapped = w.remapped)

RemapStep(a, i, w, e, pt, late) ==
    IF Item(w, i).class \in w.loaded THEN RemapClassItem(a, i, e, pt, late, IsPassThroughEnabled(w)) ELSE a

RemappedSoFar(n, a, c) ==
    /\ Keeping(c[1], a)
    /\ \A j \in Periodic : IF j > n THEN ToDo(c[1], a, j, c[2]) ELSE Done(c[1], a, j, c[2])

Remapping == INSTANCE FoldProofs WITH Op <- RemapStep, I <- RemappedSoFar

\* One item of the vector of enabled items, with whatever the ones before it
\* did.
LEMMA RemapStepHandles ==
    ASSUME conf \in DOMAIN Configurations, NEW w, IsWorld(w), NEW a, IsWorld(a), Kept(a) = Kept(w), NEW i, i \in DOMAIN Items[conf],
           NEW e, e.type \in {"DOWN", "UP", "NONE"}, e.code # VK_NONE, NEW pt, NEW late
    PROVE  LET v == RemapStep(a, i, w, e, pt, late)
           IN  Handles(a, v, i, e) /\ (i \in Periodic /\ ToDo(w, a, i, e) => Done(w, v, i, e))
<1> DEFINE v == RemapStep(a, i, w, e, pt, late)
           u == RemapClassItem(a, i, e, pt, late, IsPassThroughEnabled(w))
           loaded == Items[conf][i].class \in w.loaded
<1>1. v = IF loaded THEN u ELSE a
  BY DEF RemapStep, Item, IsWorld, FunctionType
<1>2. /\ Handles(a, u, i, e)
      /\ i \in Periodic /\ e.type = "UP" /\ a.active[i] > 0 /\ ~IsItemBlockedKeyUp(a, i) /\ Remaps(a, i, e)
            => TakesIt(a, u, i, e)
  <2> DEFINE passThrough == IsPassThroughEnabled(w)
  <2> HIDE DEF passThrough
  <2>1. LET y == RemapClassItem(a, i, e, pt, late, passThrough)
        IN  /\ Handles(a, y, i, e)
            /\ i \in Periodic /\ e.type = "UP" /\ a.active[i] > 0 /\ ~IsItemBlockedKeyUp(a, i) /\ Remaps(a, i, e)
                  => TakesIt(a, y, i, e)
    BY RemapClassItemHandles
  <2> QED BY <2>1, Zenon DEF passThrough
<1> HIDE DEF u, v
<1>3. Handles(a, a, i, e)
  BY PreparesNothing, PreparesHandles
<1>4. Handles(a, v, i, e)
  BY <1>1, <1>2, <1>3
<1>5. ASSUME i \in Periodic, ToDo(w, a, i, e)
      PROVE  Done(w, v, i, e)
  <2>1. a.device = w.device /\ a.items = Items[conf] /\ a.loaded = w.loaded
    BY DEF Kept, IsWorld, FunctionType
  <2>2. IsItemBlockedKeyUp(a, i) <=> DeviceBlocks(i, w.device)
    BY <2>1, KeyUpByDevice
  <2>3. a.active[i] = w.active[i] /\ a.pressing[<<i, "ITEM">>] = w.pressing[<<i, "ITEM">>]
    BY <1>5 DEF ToDo, SameKey
  <2>4. ASSUME loaded, TakesIt(a, v, i, e)
        PROVE  Took(w, v, i, e)
    <3>1. e.code = Items[conf][i].from /\ e.type \in {"DOWN", "UP"}
      BY <2>4, <2>1 DEF TakesIt, Remaps, IsTarget, Item
    <3> QED BY <2>2, <2>3, <2>4, <3>1 DEF TakesIt, Took, loaded
  <2>5. SameKey(a, v, i) => SameKey(w, v, i)
    BY <2>3 DEF SameKey
  <2>6. SameKey(w, v, i) \/ Took(w, v, i, e)
    <3>1. CASE loaded
      <4>1. SameKey(a, v, i) \/ TakesIt(a, v, i, e)
        BY <1>1, <1>2, <1>5, <3>1 DEF Handles
      <4> QED BY <2>4, <2>5, <3>1, <4>1
    <3>2. CASE ~loaded
      <4>1. v = a
        BY <1>1, <3>2
      <4> QED BY <2>5, <4>1 DEF SameKey
    <3> QED BY <3>1, <3>2
  <2>7. ASSUME MustTake(w, i, e)
        PROVE  Took(w, v, i, e)
    <3>1. Own(i) = <<i, "ITEM">> /\ i \in DOMAIN Items[conf]
      BY <1>5, OwnIds, PeriodicIds
    <3>2. a.remapped = FALSE
      BY <1>5, <2>7 DEF ToDo, MustTake
    <3>3. Remaps(a, i, e)
      BY <2>1, <2>3, <2>7, <3>1, <3>2 DEF Remaps, IsTarget, Item, Own, MustTake
    <3>4. loaded /\ e.type = "UP" /\ a.active[i] > 0 /\ ~IsItemBlockedKeyUp(a, i)
      BY <2>2, <2>3, <2>7 DEF MustTake
    <3>5. TakesIt(a, v, i, e)
      BY <1>1, <1>2, <1>5, <3>3, <3>4
    <3> QED BY <2>4, <3>4, <3>5
  <2> QED BY <2>6, <2>7 DEF Done
<1> QED
  BY <1>4, <1>5 DEF v

\* RemapClassManager::remap: after it, each pressed item whose key the release
\* was has taken it, or another one has.
LEMMA RemapHandles ==
    ASSUME conf \in DOMAIN Configurations, NEW w, IsWorld(w),
           NEW e, e.type \in {"DOWN", "UP", "NONE"}, e.code # VK_NONE, NEW pt, NEW late
    PROVE  LET v == Remap(w, e, pt, late)
           IN  Keeping(w, v) /\ \A j \in Periodic : Done(w, v, j, e)
<1> DEFINE v == Remap(w, e, pt, late)
           list == [i \in DOMAIN w.active |-> i]
           c == <<w, e>>
<1>1. v = Remapping!Fold(w, list, w, e, pt, late)
  BY DEF Remap, Remapping!Fold, RemapStep, FoldLeft, MapThenFoldSet, Remapping!MapThenFoldSet,
         Max
<1>2. PICK n \in Nat : DOMAIN Items[conf] = 1..n
  BY ItemsType
<1>3. DOMAIN list = 1..n /\ \A k \in 1..n : list[k] = k
  BY <1>2 DEF IsWorld, FunctionType
<1>4. c[1] = w /\ c[2] = e
  OBVIOUS
<1>5. \A j \in Periodic : j \in 1..n
  BY <1>2, PeriodicIds
<1> HIDE DEF c, list, v
<1>6. RemappedSoFar(0, w, c)
  <2>1. Keeping(w, w)
    BY PreparesNothing DEF Prepares
  <2> QED BY <1>4, <1>5, <2>1 DEF RemappedSoFar, ToDo, SameKey
<1>7. ASSUME NEW k \in 1..n, NEW a, RemappedSoFar(k - 1, a, c)
      PROVE  RemappedSoFar(k, RemapStep(a, list[k], w, e, pt, late), c)
  <2> DEFINE b == RemapStep(a, k, w, e, pt, late)
  <2>1. list[k] = k /\ k \in DOMAIN Items[conf] /\ k \in Int
    BY <1>2, <1>3
  <2>2. Keeping(w, a) /\ \A j \in Periodic : IF j > k - 1 THEN ToDo(w, a, j, e) ELSE Done(w, a, j, e)
    BY <1>4, <1>7 DEF RemappedSoFar
  <2>3. IsWorld(a) /\ Kept(a) = Kept(w)
    BY <2>2 DEF Keeping
  <2>4. Handles(a, b, k, e) /\ (k \in Periodic /\ ToDo(w, a, k, e) => Done(w, b, k, e))
    BY <2>1, <2>3, RemapStepHandles
  <2> HIDE DEF b
  <2>5. Keeping(w, b)
    BY <2>2, <2>4, KeepingTwice DEF Handles
  <2>6. ASSUME NEW j \in Periodic
        PROVE  IF j > k THEN ToDo(w, b, j, e) ELSE Done(w, b, j, e)
    <3>0. j \in 1..n
      BY <1>5
    <3>1. CASE j = k
      <4>1. ToDo(w, a, j, e)
        BY <2>1, <2>2, <3>1
      <4> QED BY <2>1, <2>4, <3>1, <4>1
    <3>2. CASE j > k
      <4>1. ToDo(w, a, j, e)
        BY <2>1, <2>2, <3>0, <3>2
      <4>2. SameKey(a, b, j)
        BY <2>1, <2>4, <3>0, <3>2 DEF Handles
      <4>3. SameKey(w, b, j)
        BY <4>1, <4>2 DEF ToDo, SameKey
      <4>4. Lone(j) /\ e.code = Items[conf][j].from => b.remapped = w.remapped
        <5> SUFFICES ASSUME Lone(j), e.code = Items[conf][j].from
                     PROVE  b.remapped = w.remapped
          OBVIOUS
        <5>1. e.code # Items[conf][k].from
          BY <2>1, <3>0, <3>2 DEF Lone
        <5> QED BY <2>4, <4>1, <5>1 DEF Handles, ToDo
      <4> QED BY <3>2, <4>3, <4>4 DEF ToDo
    <3>3. CASE j < k
      <4>1. ~(j > k - 1) /\ ~(j > k) /\ j # k
        BY <2>1, <3>0, <3>3
      <4>2. Done(w, a, j, e)
        BY <2>2, <4>1
      <4>3. SameKey(a, b, j)
        BY <2>4, <4>1 DEF Handles
      <4>4. Done(w, b, j, e)
        BY <4>2, <4>3 DEF Done, SameKey, Took
      <4> QED BY <4>1, <4>4
    <3> QED BY <2>1, <3>0, <3>1, <3>2, <3>3
  <2>7. RemappedSoFar(k, b, c)
    BY <1>4, <2>5, <2>6 DEF RemappedSoFar
  <2> QED BY <2>1, <2>7 DEF b
<1>8. \A k \in 1..n : \A a : RemappedSoFar(k - 1, a, c) => RemappedSoFar(k, RemapStep(a, list[k], w, e, pt, late), c)
  BY <1>7
<1>9. RemappedSoFar(n, Remapping!Fold(w, list, w, e, pt, late), c)
  BY <1>3, <1>6, <1>8, Remapping!FoldMaintains
<1>10. RemappedSoFar(n, v, c)
  BY <1>1, <1>9
<1>11. \A j \in Periodic : ~(j > n)
  BY <1>5
<1> QED
  BY <1>4, <1>10, <1>11 DEF RemappedSoFar, v

-----------------------------------------------------------------------------
(* RemapClassManager::prepare *)

\* The model's record of the walk, and what is passed from one call to the
\* next.
LEMMA WalkPrepares ==
    ASSUME conf \in DOMAIN Configurations, NEW w, IsWorld(w), NEW x, NEW y, NEW z
    PROVE  LET v == [w EXCEPT !.walk = x, !.drop = y, !.remapped = z]
           IN  Prepares(w, v) /\ v.drop = y /\ v.remapped = z
<1> DEFINE v == [w EXCEPT !.walk = x, !.drop = y, !.remapped = z]
<1>1. /\ OutputType(v) /\ SameCounts(w, v) /\ v.pressing = w.pressing /\ v.st = w.st /\ v.dpp = w.dpp
      /\ v.prep = w.prep /\ v.active = w.active /\ Kept(v) = Kept(w) /\ v.rep = w.rep
      /\ v.drop = y /\ v.remapped = z
  BY DEF IsWorld, OutputType, Fields, SameCounts, SameFlagCounts, Kept
<1>2. v.items = w.items /\ v.ktk = w.ktk
  BY DEF IsWorld, OutputType, Fields
<1> HIDE DEF v
<1>3. FunctionType(v)
  BY <1>1, <1>2 DEF IsWorld, FunctionType
<1>4. IsWorld(v)
  BY <1>1, <1>3 DEF IsWorld
<1>5. Prepares(w, v)
  BY <1>1, <1>4, SameCountsKeeps DEF Prepares
<1> QED
  BY <1>1, <1>5 DEF v

\* ... each of them.
LEMMA SetDrops ==
    ASSUME conf \in DOMAIN Configurations, NEW w, IsWorld(w), NEW x
    PROVE  /\ Prepares(w, [w EXCEPT !.walk = x]) /\ SameDrops(w, [w EXCEPT !.walk = x])
           /\ Prepares(w, [w EXCEPT !.drop = x]) /\ [w EXCEPT !.drop = x].drop = x
           /\ [w EXCEPT !.drop = x].remapped = w.remapped
           /\ Prepares(w, [w EXCEPT !.remapped = x]) /\ [w EXCEPT !.remapped = x].remapped = x
<1> DEFINE u(a, b, c) == [w EXCEPT !.walk = a, !.drop = b, !.remapped = c]
<1>1. /\ [w EXCEPT !.walk = x] = u(x, w.drop, w.remapped) /\ [w EXCEPT !.drop = x] = u(w.walk, x, w.remapped)
      /\ [w EXCEPT !.remapped = x] = u(w.walk, w.drop, x)
  BY DEF IsWorld, OutputType, Fields
<1>2. \A a, b, c : LET v == u(a, b, c) IN Prepares(w, v) /\ v.drop = b /\ v.remapped = c
  BY WalkPrepares, Zenon
<1> HIDE DEF u
<1>3. \A a, b, c : Prepares(w, u(a, b, c)) /\ u(a, b, c).drop = b /\ u(a, b, c).remapped = c
  BY <1>2
<1> QED
  BY <1>1, <1>3 DEF SameDrops

\* An event that cannot be dropped: the release of a key of which no
\* KeyDownUpToKey is interrupted.
Undropped(e) == e.type = "UP" /\ e.code.t # "scroll" /\ \A j \in DownUps : e.code # Items[conf][j].from

PrepareStep(a, j, w, e, pt, x) == Walked(PrepareItem(a, w.prep[j], e, pt), w.prep, j, e)

PreparedSoFar(n, a, c) == Prepares(c[1], a) /\ (Undropped(c[2]) => SameDrops(c[1], a))

Preparing == INSTANCE FoldProofs WITH Op <- PrepareStep, I <- PreparedSoFar

\* One entry of the list of the items that want to see the next event.
LEMMA PrepareStepPrepares ==
    ASSUME conf \in DOMAIN Configurations, NEW w, IsWorld(w), Listable(w), NEW a, IsWorld(a),
           NEW j, j \in DOMAIN w.prep, NEW e, NEW pt
    PROVE  LET v == PrepareStep(a, j, w, e, pt, 0) IN Prepares(a, v) /\ (Undropped(e) => SameDrops(a, v))
<1> DEFINE id == w.prep[j]
           b == PrepareItem(a, id, e, pt)
           v == PrepareStep(a, j, w, e, pt, 0)
           x == b.walk /\ (e.type = "DOWN" => ToSet(b.prep) \subseteq ToSet(w.prep)) /\ (j < Len(w.prep) => Contains(b.prep, w.prep[j + 1]))
<1>1. id \in Ids(conf) /\ (id[2] = "ITEM" => id[1] \in Periodic \cup DownUps)
  <2>1. id \in Ids(conf)
    BY DEF IsWorld, FunctionType
  <2>2. id = <<id[1], id[2]>>
    BY <2>1 DEF Ids
  <2>3. Listed(w.prep, id)
    BY DEF Listed
  <2> HIDE DEF id
  <2> QED BY <2>1, <2>2, <2>3 DEF Listable
<1>2. v = [b EXCEPT !.walk = x]
  BY DEF PrepareStep, Walked
<1> HIDE DEF id
<1>3. Prepares(a, b) /\ (Undropped(e) => SameDrops(a, b))
  BY <1>1, PrepareItemPrepares DEF Undropped
<1> HIDE DEF b, x, v
<1>4. Prepares(b, v) /\ SameDrops(b, v)
  <2>1. IsWorld(b)
    BY <1>3 DEF Prepares, Keeping
  <2> QED BY <1>2, <2>1, SetDrops
<1>5. Prepares(a, v) /\ (Undropped(e) => SameDrops(a, v))
  BY <1>3, <1>4, PreparesTwice DEF SameDrops
<1> QED
  BY <1>5 DEF v

\* RemapClassManager::prepare: nothing that counts is changed, and a release
\* that no item drops is left to remap.
LEMMA PreparePrepares ==
    ASSUME conf \in DOMAIN Configurations, NEW w, IsWorld(w), Listable(w), NEW e, NEW pt
    PROVE  LET v == Prepare(w, e, pt)
           IN  Prepares(w, v) /\ (Undropped(e) /\ w.remapped = FALSE => v.remapped = FALSE)
<1> DEFINE a == [w EXCEPT !.drop = FALSE]
           list == [j \in DOMAIN w.prep |-> j]
           b == FoldLeft(LAMBDA x, j : Walked(PrepareItem(x, w.prep[j], e, pt), w.prep, j, e), a, list)
           z == b.remapped \/ b.drop
           v == Prepare(w, e, pt)
           c == <<a, e>>
           n == Len(w.prep)
<1>1. v = [b EXCEPT !.remapped = z]
  BY DEF Prepare
<1>2. b = Preparing!Fold(a, list, w, e, pt, 0)
  BY DEF Preparing!Fold, PrepareStep, FoldLeft, MapThenFoldSet, Preparing!MapThenFoldSet,
         Max
<1>3. n \in Nat /\ DOMAIN list = 1..n /\ (\A k \in 1..n : list[k] = k) /\ DOMAIN w.prep = 1..n
  BY DEF IsWorld, FunctionType
<1>4. Prepares(w, a) /\ a.drop = FALSE /\ a.remapped = w.remapped
  <2> DEFINE x == FALSE
  <2> HIDE DEF x
  <2>1. Prepares(w, [w EXCEPT !.drop = x]) /\ [w EXCEPT !.drop = x].drop = x /\ [w EXCEPT !.drop = x].remapped = w.remapped
    BY SetDrops
  <2> QED BY <2>1, Zenon DEF x
<1>5. c[1] = a /\ c[2] = e
  OBVIOUS
<1> HIDE DEF a, b, c, z, list, n, v
<1>6. PreparedSoFar(0, a, c)
  <2>1. IsWorld(a)
    BY <1>4 DEF Prepares, Keeping
  <2> QED BY <1>5, <2>1, PreparesNothing DEF PreparedSoFar, SameDrops
<1>7. ASSUME NEW k \in 1..n, NEW x, PreparedSoFar(k - 1, x, c)
      PROVE  PreparedSoFar(k, PrepareStep(x, list[k], w, e, pt, 0), c)
  <2> DEFINE y == PrepareStep(x, k, w, e, pt, 0)
  <2>1. list[k] = k /\ k \in DOMAIN w.prep
    BY <1>3
  <2>2. Prepares(a, x) /\ (Undropped(e) => SameDrops(a, x))
    BY <1>5, <1>7 DEF PreparedSoFar
  <2>3. IsWorld(x)
    BY <2>2 DEF Prepares, Keeping
  <2>4. Prepares(x, y) /\ (Undropped(e) => SameDrops(x, y))
    BY <2>1, <2>3, PrepareStepPrepares
  <2> HIDE DEF y
  <2>5. Prepares(a, y) /\ (Undropped(e) => SameDrops(a, y))
    BY <2>2, <2>4, PreparesTwice DEF SameDrops
  <2>6. PreparedSoFar(k, y, c)
    BY <1>5, <2>5 DEF PreparedSoFar
  <2> QED BY <2>1, <2>6 DEF y
<1>8. \A k \in 1..n : \A x : PreparedSoFar(k - 1, x, c) => PreparedSoFar(k, PrepareStep(x, list[k], w, e, pt, 0), c)
  BY <1>7
<1>9. PreparedSoFar(n, Preparing!Fold(a, list, w, e, pt, 0), c)
  BY <1>3, <1>6, <1>8, Preparing!FoldMaintains
<1>10. Prepares(a, b) /\ (Undropped(e) => SameDrops(a, b))
  BY <1>2, <1>5, <1>9 DEF PreparedSoFar
<1>11. Prepares(b, v) /\ v.remapped = z
  <2>1. IsWorld(b)
    BY <1>10 DEF Prepares, Keeping
  <2> QED BY <1>1, <2>1, SetDrops
<1>12. Prepares(w, v)
  BY <1>4, <1>10, <1>11, PreparesTwice
<1>13. Undropped(e) /\ w.remapped = FALSE => v.remapped = FALSE
  BY <1>4, <1>10, <1>11 DEF SameDrops, z
<1> QED
  BY <1>12, <1>13 DEF v

-----------------------------------------------------------------------------
(* The callbacks of an event *)

\* An event of EventInputQueue: of a key or a button, or of the wheel or the
\* cursor.
IsEvent(e) ==
    \/ e.type \in {"DOWN", "UP"} /\ e.code \in UNION {KeysOf(c) : c \in DOMAIN Configurations}
    \/ e.type = "NONE" /\ e.code \in {Code("scroll", "none"), Code("move", "none")}

\* The codes of the events.
LEMMA EventCode ==
    ASSUME NEW e, IsEvent(e)
    PROVE  /\ e.type \in {"DOWN", "UP", "NONE"} /\ e.code = Code(e.code.t, e.code.v) /\ e.code # VK_NONE
           /\ e.type # "NONE" => e.code.t \in {"key", "mod", "button"} /\ e.code \in Codes
           /\ e.type = "NONE" => e.code.t \in {"scroll", "move"}
<1>1. CASE e.type \in {"DOWN", "UP"}
  <2>1. PICK c \in DOMAIN Configurations : e.code \in KeysOf(c)
    BY <1>1 DEF IsEvent
  <2>2. e.code.t \in {"key", "mod", "button"} /\ e.code = Code(e.code.t, e.code.v)
    BY <2>1, KeysAssumption DEF KeysOf
  <2>3. e.code \in Codes
    BY <2>1 DEF Codes
  <2> QED BY <1>1, <2>2, <2>3 DEF Code, VK_NONE
<1>2. CASE e.type = "NONE"
  BY <1>2 DEF IsEvent, Code, VK_NONE
<1> QED
  BY <1>1, <1>2 DEF IsEvent

\* What the event adds to how often a key is held.
EventBy(e, code) == IF e.code # code THEN 0 ELSE IF e.type = "DOWN" THEN 1 ELSE -1

\* The buttons follow the event before prepare ...
FedButtons(w, v, e) ==
    /\ \A f \in Countable : CountExcess(v, f) = CountExcess(w, f) /\ LazyExcess(v, f) = LazyExcess(w, f)
    /\ \A b \in Buttons : ButtonExcess(v, b) = ButtonExcess(w, b) + EventBy(e, Code("button", b))

\* ... and the modifiers after it.
FedFlags(w, v, e) ==
    /\ \A f \in Countable : /\ CountExcess(v, f) = CountExcess(w, f) + EventBy(e, Code("mod", f))
                            /\ LazyExcess(v, f) = LazyExcess(w, f)
    /\ \A b \in Buttons : ButtonExcess(v, b) = ButtonExcess(w, b)

Fed(w, v, e) ==
    /\ \A f \in Countable : /\ CountExcess(v, f) = CountExcess(w, f) + EventBy(e, Code("mod", f))
                            /\ LazyExcess(v, f) = LazyExcess(w, f)
    /\ \A b \in Buttons : ButtonExcess(v, b) = ButtonExcess(w, b) + EventBy(e, Code("button", b))

\* What an event keeps but the counts.
Lasts(w, v) ==
    /\ IsWorld(v) /\ Kept(v) = Kept(w) /\ (Tidy(w) => Tidy(v)) /\ (Listable(w) => Listable(v))

SameKeys(w, v) == v.active = w.active /\ SamePeriodKeys(w, v)

\* What an event keeps, in two parts.
LEMMA KeepingLasts ==
    ASSUME NEW w, NEW v
    PROVE  /\ Keeping(w, v) <=> Lasts(w, v) /\ SameExcess(w, v)
           /\ Prepares(w, v) <=> Lasts(w, v) /\ SameExcess(w, v) /\ SameKeys(w, v)
BY DEF Keeping, Lasts, Prepares, SameKeys

\* What lasts over two steps.
LEMMA LastsTwice ==
    ASSUME NEW u, NEW v, NEW w, Lasts(u, v), Lasts(v, w)
    PROVE  Lasts(u, w)
BY DEF Lasts

\* The keys of the periods are as they were, twice.
LEMMA SameKeysTwice ==
    ASSUME NEW u, NEW v, NEW w, SameKeys(u, v), SameKeys(v, w)
    PROVE  SameKeys(u, w)
BY DEF SameKeys, SamePeriodKeys

\* A change of the flags, the buttons or the output leaves the items alone.
LEMMA ActsLasts ==
    ASSUME NEW w, IsWorld(w), NEW v, Acts(w, v)
    PROVE  /\ Lasts(w, v) /\ SameKeys(w, v) /\ SameDrops(w, v) /\ v.pressing = w.pressing /\ v.st = w.st
           /\ v.lastPressed = w.lastPressed
<1>1. IsWorld(v) /\ Aside(v) = Aside(w) /\ v.pressing = w.pressing /\ SameList(w, v) /\ SameDrops(w, v)
  BY ActsAlong DEF Along, SameDrops
<1>2. v.st = w.st /\ v.dpp = w.dpp /\ Kept(v) = Kept(w) /\ v.active = w.active /\ v.lastPressed = w.lastPressed
  BY <1>1 DEF Aside, Kept
<1>3. SamePeriodKeys(w, v)
  BY <1>1 DEF SamePeriodKeys
<1>4. SameTidy(w, v)
  <2>1. \A j : <<j, "ITEM">>[2] = "ITEM"
    OBVIOUS
  <2> QED BY <1>1, <1>2, <2>1 DEF SameTidy, SameList
<1> QED
  BY <1>1, <1>2, <1>3, <1>4, SameTidyKeeps DEF Lasts, SameKeys

\* A change of the output that counts nothing.
LEMMA KeepsPrepares ==
    ASSUME NEW w, IsWorld(w), NEW v, Keeps(w, v)
    PROVE  Prepares(w, v) /\ SameDrops(w, v)
<1>1. Lasts(w, v) /\ SameKeys(w, v) /\ SameDrops(w, v) /\ v.pressing = w.pressing /\ v.st = w.st
  BY ActsLasts DEF Keeps
<1>2. SameExcess(w, v)
  BY <1>1, SameCountsExcess DEF Keeps
<1> QED
  BY <1>1, <1>2, KeepingLasts

\* The button of an event is counted.
LEMMA SetButtonStatusFeeds ==
    ASSUME conf \in DOMAIN Configurations, NEW w, IsWorld(w), NEW e, IsEvent(e)
    PROVE  LET v == SetButtonStatus(w, e)
           IN  Lasts(w, v) /\ SameKeys(w, v) /\ SameDrops(w, v) /\ FedButtons(w, v, e)
<1> DEFINE v == SetButtonStatus(w, e)
           bs == IF e.type = "DOWN" THEN IncreaseButtons(w.bs, ButtonOf(e.code)) ELSE DecreaseButtons(w.bs, ButtonOf(e.code))
<1>1. v = [w EXCEPT !.bs = bs]
  BY DEF SetButtonStatus
<1>2. OutputType(w) /\ w.bs \in [Buttons -> Int]
  BY DEF IsWorld, OutputType
<1>3. bs \in [Buttons -> Int] /\ \A b \in Buttons : bs[b] = w.bs[b] + EventBy(e, Code("button", b))
  <2>1. \A b : b \in ButtonOf(e.code) <=> e.code = Code("button", b)
    BY EventCode DEF ButtonOf, Code
  <2>2. e.type # "DOWN" => e.type = "UP" \/ \A b : e.code # Code("button", b)
    BY EventCode DEF Code
  <2> HIDE DEF bs
  <2>3. bs = IF e.type = "DOWN" THEN IncreaseButtons(w.bs, ButtonOf(e.code)) ELSE DecreaseButtons(w.bs, ButtonOf(e.code))
    BY DEF bs
  <2>4. /\ IncreaseButtons(w.bs, ButtonOf(e.code)) \in [Buttons -> Int]
        /\ DecreaseButtons(w.bs, ButtonOf(e.code)) \in [Buttons -> Int]
        /\ \A b \in Buttons : /\ IncreaseButtons(w.bs, ButtonOf(e.code))[b] = w.bs[b] + Bit(b \in ButtonOf(e.code))
                              /\ DecreaseButtons(w.bs, ButtonOf(e.code))[b] = w.bs[b] - Bit(b \in ButtonOf(e.code))
    BY <1>2, ButtonsChange
  <2>5. \A b : Bit(b \in ButtonOf(e.code)) = IF e.code = Code("button", b) THEN 1 ELSE 0
    BY <2>1 DEF Bit
  <2>6. \A b \in Buttons : w.bs[b] \in Int
    BY <1>2
  <2>7. CASE e.type = "DOWN"
    <3>1. \A b : EventBy(e, Code("button", b)) = Bit(b \in ButtonOf(e.code))
      BY <2>5, <2>7 DEF EventBy
    <3> QED BY <2>3, <2>4, <2>7, <3>1
  <2>8. CASE e.type # "DOWN"
    <3>1. \A b : EventBy(e, Code("button", b)) = -Bit(b \in ButtonOf(e.code)) /\ Bit(b \in ButtonOf(e.code)) \in Int
      BY <2>5, <2>8 DEF EventBy
    <3>2. \A b \in Buttons : w.bs[b] - Bit(b \in ButtonOf(e.code)) = w.bs[b] + EventBy(e, Code("button", b))
      BY <2>6, <3>1
    <3> QED BY <2>3, <2>4, <2>8, <3>2
  <2> QED BY <2>7, <2>8
<1> HIDE DEF bs, v
<1>4. OutputType(v) /\ Behind(v) = Behind(w) /\ v.rep = w.rep /\ v.bs = bs /\ v.fs = w.fs
  BY <1>1, <1>2, <1>3, SetButtons
<1>5. Lasts(w, v) /\ SameKeys(w, v) /\ SameDrops(w, v) /\ v.pressing = w.pressing /\ v.st = w.st
  <2>1. Acts(w, v)
    BY <1>4 DEF Acts, KeepsRepeatable
  <2> QED BY <2>1, ActsLasts
<1>6. \A f \in Countable : CountExcess(v, f) = CountExcess(w, f) /\ LazyExcess(v, f) = LazyExcess(w, f)
  BY <1>4, <1>5 DEF CountExcess, LazyExcess
<1>7. ASSUME NEW b \in Buttons
      PROVE  ButtonExcess(v, b) = ButtonExcess(w, b) + EventBy(e, Code("button", b))
  <2> DEFINE p == ButtonSum(w.pressing, b)
             s == ButtonWithheldSum(w.pressing, b)
             d == EventBy(e, Code("button", b))
  <2>1. w.pressing \in [Ids(conf) -> Nat] /\ w.bs[b] \in Int
    BY <1>2 DEF IsWorld, FunctionType
  <2>2. p \in Int /\ s \in Int /\ d \in Int
    BY <2>1, PressedSumType, WithheldSumType DEF EventBy
  <2>3. ButtonExcess(v, b) = (w.bs[b] + d) - p + s /\ ButtonExcess(w, b) = w.bs[b] - p + s
    BY <1>3, <1>4, <1>5 DEF ButtonExcess
  <2> HIDE DEF p, s, d
  <2> QED BY <2>1, <2>2, <2>3 DEF d
<1> QED
  BY <1>5, <1>6, <1>7 DEF FedButtons, v

SetKeyFlags(fs, e) ==
    CASE e.code.t = "mod" -> SetKey(fs, e.code.v, e.type = "DOWN")
      [] e.code.t = "key" -> SetTemporary(fs)
      [] OTHER -> fs

\* What the key of flag f adds to the count of flag g.
SetKeyBy(f, g, on) == IF g # f THEN 0 ELSE IF on THEN 1 ELSE -1

\* FlagStatus::set of one flag changes the count of that flag alone.
LEMMA SetKeyChange ==
    ASSUME NEW fs \in FlagStatuses, NEW f, NEW on
    PROVE  /\ SetKey(fs, f, on) \in FlagStatuses
           /\ \A g \in Countable :
                 /\ SetKey(fs, f, on)[g].lazy_count_ = fs[g].lazy_count_
                 /\ SetKey(fs, f, on)[g].count_ = fs[g].count_ + SetKeyBy(f, g, on)
<1> DEFINE s == SetTemporary(fs)
<1>1. s \in FlagStatuses /\ SameFlagCounts(fs, s)
  BY TemporaryType
<1> HIDE DEF s
<1>2. SetKey(fs, f, on) = IF f = CAPSLOCK THEN LockSet(s, {f}, IF on THEN 1 ELSE 0)
                          ELSE IF on THEN Increase(s, {f}) ELSE Decrease(s, {f})
  BY DEF SetKey, s
<1>3. CASE f = CAPSLOCK
  <2>1. \A n \in {0, 1} : LockSet(s, {f}, n) \in FlagStatuses /\ SameFlagCounts(s, LockSet(s, {f}, n))
    BY <1>1, LockType
  <2>2. SetKey(fs, f, on) \in FlagStatuses /\ SameFlagCounts(s, SetKey(fs, f, on))
    BY <1>2, <1>3, <2>1
  <2>3. \A g \in Countable : g # f /\ fs[g].count_ \in Int
    BY <1>3 DEF Countable, FlagStatuses, FlagItems
  <2>4. \A g \in Countable : SetKeyBy(f, g, on) = 0
    BY <2>3 DEF SetKeyBy
  <2> QED BY <1>1, <2>2, <2>3, <2>4 DEF SameFlagCounts
<1>4. CASE f # CAPSLOCK
  <2>1. \A g \in Countable : fs[g].count_ \in Int /\ s[g].count_ = fs[g].count_ /\ s[g].lazy_count_ = fs[g].lazy_count_
    BY <1>1 DEF Countable, FlagStatuses, FlagItems, SameFlagCounts
  <2>2. \A g : Bit(g \in {f}) = IF g = f THEN 1 ELSE 0
    BY DEF Bit
  <2>3. /\ Increase(s, {f}) \in FlagStatuses
        /\ \A g \in Countable : /\ Increase(s, {f})[g].count_ = s[g].count_ + Bit(g \in {f})
                                /\ Increase(s, {f})[g].lazy_count_ = s[g].lazy_count_
        /\ Decrease(s, {f}) \in FlagStatuses
        /\ \A g \in Countable : /\ Decrease(s, {f})[g].count_ = s[g].count_ - Bit(g \in {f})
                                /\ Decrease(s, {f})[g].lazy_count_ = s[g].lazy_count_
    BY <1>1, IncreaseChange, DecreaseChange
  <2> DEFINE v == SetKey(fs, f, on)
  <2>4. on => v = Increase(s, {f}) /\ \A g : SetKeyBy(f, g, on) = Bit(g \in {f})
    BY <1>2, <1>4, <2>2 DEF SetKeyBy
  <2>5. ~on => v = Decrease(s, {f}) /\ \A g : SetKeyBy(f, g, on) = -Bit(g \in {f})
    BY <1>2, <1>4, <2>2 DEF SetKeyBy
  <2>6. v \in FlagStatuses
    BY <2>3, <2>4, <2>5
  <2> HIDE DEF v
  <2>7. ASSUME NEW g \in Countable
        PROVE  v[g].lazy_count_ = fs[g].lazy_count_ /\ v[g].count_ = fs[g].count_ + SetKeyBy(f, g, on)
    <3> DEFINE n == Bit(g \in {f})
               m == SetKeyBy(f, g, on)
    <3>1. n \in Int
      BY DEF Bit
    <3>2. (v = Increase(s, {f}) /\ m = n) \/ (v = Decrease(s, {f}) /\ m = -n)
      BY <2>4, <2>5
    <3>3. /\ Increase(s, {f})[g].count_ = s[g].count_ + n /\ Decrease(s, {f})[g].count_ = s[g].count_ - n
          /\ Increase(s, {f})[g].lazy_count_ = s[g].lazy_count_ /\ Decrease(s, {f})[g].lazy_count_ = s[g].lazy_count_
      BY <2>3
    <3> HIDE DEF n, m
    <3>4. v[g].lazy_count_ = fs[g].lazy_count_ /\ v[g].count_ = fs[g].count_ + m
      BY <2>1, <3>1, <3>2, <3>3
    <3> QED BY <3>4 DEF m
  <2> QED BY <2>6, <2>7 DEF v
<1> QED
  BY <1>3, <1>4

\* FlagStatus::set of an event: the flag of its key, by one.
LEMMA SetKeyFlagsChange ==
    ASSUME NEW fs \in FlagStatuses, NEW e, IsEvent(e)
    PROVE  /\ SetKeyFlags(fs, e) \in FlagStatuses
           /\ \A f \in Countable : /\ SetKeyFlags(fs, e)[f].lazy_count_ = fs[f].lazy_count_
                                   /\ SetKeyFlags(fs, e)[f].count_ = fs[f].count_ + EventBy(e, Code("mod", f))
<1>1. \A f \in Countable : fs[f].count_ \in Int
  BY DEF Countable, FlagStatuses, FlagItems
<1>2. CASE e.code.t = "mod"
  <2>1. SetKeyFlags(fs, e) = SetKey(fs, e.code.v, e.type = "DOWN")
    BY <1>2 DEF SetKeyFlags
  <2>2. \A f : f = e.code.v <=> e.code = Code("mod", f)
    BY <1>2, EventCode DEF Code
  <2> DEFINE on == e.type = "DOWN"
  <2>3. \A f : EventBy(e, Code("mod", f)) = SetKeyBy(e.code.v, f, on)
    BY <2>2 DEF EventBy, SetKeyBy
  <2> HIDE DEF on
  <2>4. /\ SetKey(fs, e.code.v, on) \in FlagStatuses
        /\ \A g \in Countable :
                 /\ SetKey(fs, e.code.v, on)[g].lazy_count_ = fs[g].lazy_count_
                 /\ SetKey(fs, e.code.v, on)[g].count_ = fs[g].count_ + SetKeyBy(e.code.v, g, on)
    BY SetKeyChange
  <2>5. SetKeyFlags(fs, e) = SetKey(fs, e.code.v, on)
    BY <2>1 DEF on
  <2> QED BY <2>3, <2>4, <2>5
<1>3. CASE e.code.t # "mod"
  <2>1. \A f : EventBy(e, Code("mod", f)) = 0
    BY <1>3 DEF EventBy, Code
  <2>2. SetKeyFlags(fs, e) = IF e.code.t = "key" THEN SetTemporary(fs) ELSE fs
    BY <1>3 DEF SetKeyFlags
  <2>3. SetKeyFlags(fs, e) \in FlagStatuses /\ SameFlagCounts(fs, SetKeyFlags(fs, e))
    BY <2>2, TemporaryType DEF SameFlagCounts
  <2> QED BY <1>1, <2>1, <2>3 DEF SameFlagCounts
<1> QED
  BY <1>2, <1>3

\* The modifier of an event is counted.
LEMMA SetFlagStatusFeeds ==
    ASSUME conf \in DOMAIN Configurations, NEW w, IsWorld(w), NEW e, IsEvent(e)
    PROVE  LET v == SetFlagStatus(w, e)
           IN  Lasts(w, v) /\ SameKeys(w, v) /\ SameDrops(w, v) /\ FedFlags(w, v, e)
<1> DEFINE fs == SetKeyFlags(w.fs, e)
           v == SetFlagStatus(w, e)
<1>1. v = [w EXCEPT !.fs = fs]
  BY DEF SetFlagStatus, SetKeyFlags
<1>2. OutputType(w) /\ w.fs \in FlagStatuses
  BY DEF IsWorld, OutputType
<1>3. fs \in FlagStatuses /\ \A f \in Countable : /\ fs[f].lazy_count_ = w.fs[f].lazy_count_
                                                  /\ fs[f].count_ = w.fs[f].count_ + EventBy(e, Code("mod", f))
  BY <1>2, SetKeyFlagsChange
<1> HIDE DEF fs, v
<1>4. OutputType(v) /\ Behind(v) = Behind(w) /\ v.rep = w.rep /\ v.bs = w.bs /\ v.fs = fs
  BY <1>1, <1>2, <1>3, SetFlags
<1>5. Lasts(w, v) /\ SameKeys(w, v) /\ SameDrops(w, v) /\ v.pressing = w.pressing /\ v.st = w.st
  <2>1. Acts(w, v)
    BY <1>4 DEF Acts, KeepsRepeatable
  <2> QED BY <2>1, ActsLasts
<1>6. \A b \in Buttons : ButtonExcess(v, b) = ButtonExcess(w, b)
  BY <1>4, <1>5 DEF ButtonExcess
<1>7. ASSUME NEW f \in Countable
      PROVE  CountExcess(v, f) = CountExcess(w, f) + EventBy(e, Code("mod", f)) /\ LazyExcess(v, f) = LazyExcess(w, f)
  <2>1. EventBy(e, Code("mod", f)) \in Int
    BY DEF EventBy
  <2>2. CountExcess(v, f) = CountExcess(w, f) + EventBy(e, Code("mod", f))
    BY <1>3, <1>4, <1>5, <2>1, CountExcessBy
  <2>3. LazyExcess(v, f) = LazyExcess(w, f)
    BY <1>3, <1>4, <1>5 DEF LazyExcess
  <2> QED BY <2>2, <2>3
<1> QED
  BY <1>5, <1>6, <1>7 DEF FedFlags, v

\* What is sent of an event that is not remapped counts nothing: the flags
\* were counted before.
LEMMA FireUnchangedKeeps ==
    ASSUME NEW w, IsWorld(w), NEW code, code \in Codes, code.t # "VK_LAZY", NEW type, type \in {"DOWN", "UP", "MODIFY"},
           NEW flags, flags \in SUBSET Flags, NEW pt
    PROVE  Keeps(w, FireUnchanged(w, code, type, flags, pt))
<1> DEFINE a == SetRepeat(w, code, type, flags)
           v == FireKey(a, code, type, flags, FALSE, pt)
<1>1. Keeps(w, a)
  BY SetRepeatKeeps DEF IsWorld
<1>2. OutputType(a)
  BY <1>1 DEF Keeps, Acts
<1> HIDE DEF a
<1>3. SendsKey(a, v, code, type, FALSE)
  BY <1>2, FireKeySends
<1>4. \A f : LazyBy(code, type, FALSE, f) = 0
  BY DEF LazyBy, Code
<1>5. \A f \in Countable : a.fs[f].lazy_count_ \in Int
  BY <1>2 DEF OutputType, FlagStatuses, FlagItems, Countable
<1>6. Keeps(a, v)
  <2> HIDE DEF v
  <2>1. SameCounts(a, v)
    <3>1. ASSUME NEW f \in Countable
          PROVE  v.fs[f].count_ = a.fs[f].count_ /\ v.fs[f].lazy_count_ = a.fs[f].lazy_count_
      <4> DEFINE n == LazyBy(code, type, FALSE, f)
      <4>1. v.fs[f].count_ = a.fs[f].count_ /\ v.fs[f].lazy_count_ = a.fs[f].lazy_count_ + n
        BY <1>3 DEF SendsKey
      <4>2. n = 0
        BY <1>4
      <4>3. a.fs[f].lazy_count_ \in Int
        BY <1>5
      <4> HIDE DEF n
      <4> QED BY <4>1, <4>2, <4>3
    <3> QED BY <1>3, <3>1 DEF SendsKey, SameCounts, SameFlagCounts
  <2> QED BY <1>3, <2>1 DEF SendsKey, Keeps, Acts, KeepsRepeatable
<1>7. FireUnchanged(w, code, type, flags, pt) = v
  BY DEF FireUnchanged, a
<1> HIDE DEF v
<1> QED
  BY <1>1, <1>6, <1>7, KeepsTwice

\* The event is sent on if no function remapped it.
LEMMA FireUnlessRemappedKeeps ==
    ASSUME NEW w, IsWorld(w), NEW e, IsEvent(e), NEW pt
    PROVE  Keeps(w, FireUnlessRemapped(w, e, pt))
<1> DEFINE v == FireUnlessRemapped(w, e, pt)
<1>1. OutputType(w)
  BY DEF IsWorld
<1>2. CASE w.remapped
  <2>1. v = w
    BY <1>2 DEF FireUnlessRemapped
  <2> QED BY <1>1, <2>1, KeepsNothing
<1>3. CASE ~w.remapped /\ e.code.t \in {"key", "mod"}
  <2> DEFINE type == IF e.code.t = "mod" THEN "MODIFY" ELSE e.type
             u == FireUnchanged(w, e.code, type, MakeFlags(w.fs), pt)
  <2>1. v = u
    BY <1>3 DEF FireUnlessRemapped
  <2>2. e.type \in {"DOWN", "UP"} /\ e.code \in Codes
    BY <1>3, EventCode
  <2>3. Keeps(w, u)
    BY <2>2, <1>3, MakeFlagsType, FireUnchangedKeeps
  <2> QED BY <2>1, <2>3
<1>4. CASE ~w.remapped /\ e.code.t \in {"button", "move"}
  <2>1. v = FireRelativePointer(w, pt, MakeButtons(w.bs), e.type = "NONE")
    BY <1>4 DEF FireUnlessRemapped
  <2>2. MakeButtons(w.bs) \in SUBSET Buttons
    BY DEF MakeButtons
  <2> QED BY <1>1, <2>1, <2>2, FireRelativePointerSends, SendsKeeps
<1>5. CASE ~w.remapped /\ e.code.t = "scroll"
  <2>1. v = FireScrollWheel(w, pt)
    BY <1>5 DEF FireUnlessRemapped
  <2> QED BY <1>1, <2>1, FireScrollWheelSends, SendsKeeps
<1>6. e.code.t \in {"key", "mod", "button", "scroll", "move"}
  BY EventCode
<1> QED
  BY <1>2, <1>3, <1>4, <1>5, <1>6

-----------------------------------------------------------------------------
(* remap_KeyboardEventCallback and the callbacks of the pointing device *)

\* Buttons, then functions, then flags: the event is counted once.
LEMMA FedTogether ==
    ASSUME NEW u, NEW v, NEW w, NEW x, NEW y, NEW e,
           FedButtons(u, v, e), SameExcess(v, w), FedFlags(w, x, e), SameExcess(x, y)
    PROVE  Fed(u, y, e)
BY DEF FedButtons, FedFlags, SameExcess, Fed

\* The callbacks of one event: it is counted, by the status or by the function
\* that takes it, and an overlaid key that must take it does.
LEMMA RemapEventFeeds ==
    ASSUME conf \in DOMAIN Configurations, NEW w, IsWorld(w), Listable(w), NEW e, IsEvent(e), NEW pt, NEW late
    PROVE  LET v == RemapEvent(w, e, pt, late)
           IN  /\ Lasts(w, v) /\ Fed(w, v, e)
               /\ \A i \in Periodic : SameKey(w, v, i) \/ Took(w, v, i, e)
               /\ \A i \in Periodic : Undropped(e) /\ MustTake(w, i, e) => Took(w, v, i, e)
<1> DEFINE a == SetButtonStatus(w, e)
           b == Prepare(a, e, pt)
           c == SetFlagStatus(b, e)
           d == Remap(c, e, pt, late)
           v == FireUnlessRemapped(d, e, pt)
<1>1. e.type \in {"DOWN", "UP", "NONE"} /\ e.code # VK_NONE
  BY EventCode
<1>2. Lasts(w, a) /\ SameKeys(w, a) /\ SameDrops(w, a) /\ FedButtons(w, a, e)
  BY SetButtonStatusFeeds
<1> HIDE DEF a
<1>3. IsWorld(a) /\ Listable(a)
  BY <1>2 DEF Lasts
<1>4. Prepares(a, b) /\ (Undropped(e) /\ a.remapped = FALSE => b.remapped = FALSE)
  BY <1>3, PreparePrepares
<1> HIDE DEF b
<1>5. Lasts(a, b) /\ SameKeys(a, b) /\ SameExcess(a, b) /\ IsWorld(b)
  BY <1>4, KeepingLasts DEF Lasts
<1>6. Lasts(b, c) /\ SameKeys(b, c) /\ SameDrops(b, c) /\ FedFlags(b, c, e)
  BY <1>5, SetFlagStatusFeeds
<1> HIDE DEF c
<1>7. IsWorld(c)
  BY <1>6 DEF Lasts
<1>8. Keeping(c, d) /\ \A j \in Periodic : Done(c, d, j, e)
  BY <1>1, <1>7, RemapHandles
<1> HIDE DEF d
<1>9. Lasts(c, d) /\ SameExcess(c, d) /\ IsWorld(d)
  BY <1>8, KeepingLasts DEF Lasts
<1>10. Keeps(d, v)
  BY <1>9, FireUnlessRemappedKeeps
<1>11. v = RemapEvent(w, e, pt, late)
  BY DEF RemapEvent, a, b, c, d
<1> HIDE DEF v
<1>12. Prepares(d, v)
  BY <1>9, <1>10, KeepsPrepares
<1>13. Lasts(d, v) /\ SameKeys(d, v) /\ SameExcess(d, v)
  BY <1>12, KeepingLasts
<1>14. Lasts(w, c) /\ SameKeys(w, c)
  BY <1>2, <1>5, <1>6, LastsTwice, SameKeysTwice
<1>15. Lasts(w, v)
  BY <1>14, <1>9, <1>13, LastsTwice
<1>16. SameExcess(c, v)
  BY <1>9, <1>13, SameExcessTwice
<1>17. Fed(w, v, e)
  BY <1>2, <1>5, <1>6, <1>16, FedTogether
<1>18. ASSUME NEW i \in Periodic
       PROVE  /\ SameKey(w, c, i) /\ SameKey(d, v, i) /\ c.loaded = w.loaded /\ c.device = w.device
              /\ i \in DOMAIN Items[conf]
  BY <1>13, <1>14 DEF SameKeys, SamePeriodKeys, SameKey, Lasts, Kept, Periodic
<1>19. ASSUME NEW i \in Periodic
       PROVE  SameKey(w, v, i) \/ Took(w, v, i, e)
  <2>1. SameKey(c, d, i) \/ Took(c, d, i, e)
    BY <1>8 DEF Done
  <2> QED BY <1>18, <2>1 DEF SameKey, Took
<1>20. ASSUME NEW i \in Periodic, Undropped(e), MustTake(w, i, e)
       PROVE  Took(w, v, i, e)
  <2>1. c.remapped = FALSE
    BY <1>2, <1>4, <1>6, <1>20 DEF SameDrops, MustTake
  <2>2. MustTake(c, i, e)
    BY <1>18, <1>20, <2>1 DEF MustTake, SameKey
  <2>3. Took(c, d, i, e)
    BY <1>8, <2>2 DEF Done
  <2> QED BY <1>18, <2>3 DEF SameKey, Took
<1> QED
  BY <1>11, <1>15, <1>17, <1>19, <1>20

-----------------------------------------------------------------------------
(* What a step changes besides *)

SameModes(w, v) ==
    \A i \in DOMAIN Items[conf] :
       v.st[i].active = w.st[i].active /\ v.st[i].period = w.st[i].period /\ v.st[i].decreased = w.st[i].decreased

\* What the invariants of the overlaid keys read.
Alike(w, v) ==
    /\ IsWorld(v) /\ SameCounts(w, v) /\ SameModes(w, v)
    /\ v.pressing = w.pressing /\ v.active = w.active /\ v.prep = w.prep /\ v.loaded = w.loaded
    /\ (v.dpp.on <=> w.dpp.on) /\ (w.dpp.on => v.dpp.target = w.dpp.target)

\* Worlds that differ in nothing that counts.
LEMMA AlikeKeeps ==
    ASSUME conf \in DOMAIN Configurations, NEW w, IsWorld(w), NEW v, Alike(w, v)
    PROVE  SameExcess(w, v) /\ SameKeys(w, v) /\ (Tidy(w) => Tidy(v)) /\ (Listable(w) => Listable(v))
<1>1. /\ \A id \in PartIds : v.pressing[id] = w.pressing[id]
      /\ \A j \in Periodic : v.pressing[<<j, "ITEM">>] = w.pressing[<<j, "ITEM">>] /\ v.st[j].decreased = w.st[j].decreased
  BY DEF Alike, SameModes, Periodic
<1>2. SameExcess(w, v)
  BY <1>1, SameWithheldExcess DEF Alike
<1>3. SameKeys(w, v)
  BY <1>1 DEF Alike, SameKeys, SamePeriodKeys
<1>4. Listable(w) => Listable(v)
  BY DEF Alike, Listable
<1>5. ASSUME Tidy(w)
      PROVE  Tidy(v)
  <2>1. \A j \in Periodic : v.st[j].active \/ v.st[j].decreased \/ v.st[j].period # "NONE" \/ Listed(v.prep, <<j, "ITEM">>)
                              => v.pressing[<<j, "ITEM">>] > 0
    BY <1>1, <1>5 DEF Tidy, Alike, SameModes, Periodic
  <2>2. v.dpp.on => v.st[v.dpp.target].active
    BY <1>5 DEF Tidy, Alike, SameModes, IsWorld, FunctionType, Periodic
  <2> QED BY <2>1, <2>2 DEF Tidy
<1> QED
  BY <1>2, <1>3, <1>4, <1>5

\* The counts are as they are.
LEMMA SameCountsHere == \A w : SameCounts(w, w)
BY DEF SameCounts, SameFlagCounts

\* Fields nothing is known of are replaced.
Core(w) == <<w.items, w.fs, w.bs, w.out, w.rep, w.pressing, w.active, w.ktk, w.dpp, w.st, w.prep, w.loaded>>

\* The fields that no invariant reads are replaced.
LEMMA CoreAlike ==
    ASSUME NEW w, IsWorld(w), NEW v, v = [x \in Fields |-> v[x]], Core(v) = Core(w)
    PROVE  Alike(w, v)
<1>1. /\ v.items = w.items /\ v.fs = w.fs /\ v.bs = w.bs /\ v.out = w.out /\ v.rep = w.rep /\ v.pressing = w.pressing
      /\ v.active = w.active /\ v.ktk = w.ktk /\ v.dpp = w.dpp /\ v.st = w.st /\ v.prep = w.prep /\ v.loaded = w.loaded
  BY DEF Core
<1>2. OutputType(v)
  BY <1>1 DEF IsWorld, OutputType
<1>3. FunctionType(v)
  BY <1>1 DEF IsWorld, FunctionType
<1>4. IsWorld(v)
  BY <1>1, <1>2, <1>3 DEF IsWorld
<1>5. SameCounts(w, v)
  BY <1>1 DEF SameCounts, SameFlagCounts
<1> QED
  BY <1>1, <1>4, <1>5 DEF Alike, SameModes

\* FlagStatus is replaced.
LEMMA FlagsAlike ==
    ASSUME NEW w, IsWorld(w), NEW fs, fs \in FlagStatuses, SameFlagCounts(w.fs, fs)
    PROVE  LET v == [w EXCEPT !.fs = fs] IN Alike(w, v) /\ Kept(v) = Kept(w) /\ SameDrops(w, v)
<1> DEFINE v == [w EXCEPT !.fs = fs]
<1>1. Sends(w, v)
  BY SetFlags DEF IsWorld
<1> HIDE DEF v
<1>2. Keeps(w, v)
  BY <1>1, SendsKeeps
<1>3. Lasts(w, v) /\ SameDrops(w, v) /\ SameCounts(w, v)
  BY <1>2, ActsLasts DEF Keeps
<1>4. Behind(v) = Behind(w) /\ IsWorld(v) /\ Kept(v) = Kept(w)
  BY <1>1, <1>3 DEF Sends, Lasts
<1> QED
  BY <1>3, <1>4 DEF Behind, Alike, SameModes, v

\* The states of the items are replaced.
LEMMA StatesAlike ==
    ASSUME NEW w, IsWorld(w), NEW x, x \in [DOMAIN Items[conf] -> States],
           \A i \in DOMAIN Items[conf] : x[i].active = w.st[i].active /\ x[i].period = w.st[i].period
                                         /\ x[i].decreased = w.st[i].decreased
    PROVE  LET v == [w EXCEPT !.st = x] IN Alike(w, v) /\ Kept(v) = Kept(w) /\ SameDrops(w, v)
<1> DEFINE v == [w EXCEPT !.st = x]
<1>1. IsWorld(v) /\ SameButStates(w, v) /\ v.st = x /\ v.dpp = w.dpp
  BY SetStates
<1> HIDE DEF v
<1>2. /\ Others(v) = Others(w) /\ v.pressing = w.pressing /\ v.drop = w.drop /\ v.remapped = w.remapped /\ v.prep = w.prep
      /\ v.fs = w.fs /\ v.bs = w.bs
  BY <1>1 DEF SameButStates, SameStatus
<1>3. Kept(v) = Kept(w) /\ v.active = w.active /\ v.loaded = w.loaded /\ SameDrops(w, v)
  BY <1>2 DEF Others, Kept, SameDrops
<1>4. SameCounts(w, v)
  BY <1>2 DEF SameCounts, SameFlagCounts
<1> QED
  BY <1>1, <1>2, <1>3, <1>4 DEF Alike, SameModes, v

\* The fields of the watcher of any other key press.
LEMMA StateFields ==
    ASSUME NEW s, s \in States, NEW b, b \in BOOLEAN
    PROVE  /\ [s EXCEPT !.any = b] \in States
           /\ [s EXCEPT !.any = b].active = s.active /\ [s EXCEPT !.any = b].period = s.period
           /\ [s EXCEPT !.any = b].decreased = s.decreased
           /\ [s EXCEPT !.observed = b] \in States
           /\ [s EXCEPT !.observed = b].active = s.active /\ [s EXCEPT !.observed = b].period = s.period
           /\ [s EXCEPT !.observed = b].decreased = s.decreased
BY DEF States

\* KeyboardRepeat's and the periods' watchers see that a key is pressed.
LEMMA WatchersOnAlike ==
    ASSUME NEW w, IsWorld(w)
    PROVE  LET v == WatchersOn(w) IN Alike(w, v) /\ Kept(v) = Kept(w) /\ SameDrops(w, v)
<1> DEFINE D == DOMAIN Items[conf]
           x == [i \in D |-> [w.st[i] EXCEPT !.any = w.st[i].any \/ w.st[i].observed]]
<1>1. w.st \in [D -> States]
  BY DEF IsWorld, FunctionType
<1>2. WatchersOn(w) = [w EXCEPT !.st = x]
  <2> DEFINE y == [i \in DOMAIN w.st |-> [w.st[i] EXCEPT !.any = w.st[i].any \/ w.st[i].observed]]
  <2>1. WatchersOn(w) = [w EXCEPT !.st = y]
    BY DEF WatchersOn
  <2>2. y = x
    BY <1>1
  <2> HIDE DEF x, y
  <2> QED BY <2>1, <2>2
<1>3. ASSUME NEW i \in D
      PROVE  x[i] \in States /\ x[i].active = w.st[i].active /\ x[i].period = w.st[i].period /\ x[i].decreased = w.st[i].decreased
  <2> DEFINE b == w.st[i].any \/ w.st[i].observed
  <2>1. w.st[i] \in States /\ b \in BOOLEAN
    BY <1>1
  <2>2. x[i] = [w.st[i] EXCEPT !.any = b]
    OBVIOUS
  <2> HIDE DEF b, x
  <2>3. [w.st[i] EXCEPT !.any = b] \in States /\ [w.st[i] EXCEPT !.any = b].active = w.st[i].active
        /\ [w.st[i] EXCEPT !.any = b].period = w.st[i].period /\ [w.st[i] EXCEPT !.any = b].decreased = w.st[i].decreased
    BY <2>1, StateFields, Zenon
  <2> QED BY <2>2, <2>3, Zenon
<1>4. x \in [D -> States]
  BY <1>3
<1> HIDE DEF x
<1> QED
  BY <1>2, <1>3, <1>4, StatesAlike

\* The watchers see the event, and the lazy modifiers are switched.
LEMMA SetLastKeysAlike ==
    ASSUME NEW w, IsWorld(w), NEW e
    PROVE  LET v == SetLastKeys(w, e) IN Alike(w, v) /\ Kept(v) = Kept(w) /\ SameDrops(w, v)
<1> DEFINE v == SetLastKeys(w, e)
<1>1. w = [x \in Fields |-> w[x]]
  BY DEF IsWorld, OutputType
<1>2. /\ v = [x \in Fields |-> v[x]] /\ Core(v) = Core(w) /\ Kept(v) = Kept(w) /\ SameDrops(w, v)
  BY <1>1 DEF SetLastKeys, Fields, Core, Kept, SameDrops
<1> HIDE DEF v
<1>3. Alike(w, v)
  BY <1>2, CoreAlike
<1> QED
  BY <1>2, <1>3 DEF v

-----------------------------------------------------------------------------
(* resetInternalStateIfNeeded *)

\* The watchers are forgotten.
LEMMA ObservedAlike ==
    ASSUME NEW w, IsWorld(w)
    PROVE  LET v == [w EXCEPT !.st = [i \in DOMAIN w.st |-> [w.st[i] EXCEPT !.observed = FALSE]]]
           IN  Alike(w, v) /\ Kept(v) = Kept(w) /\ v.dpp = w.dpp /\ v.fs = w.fs /\ v.walk = w.walk
<1> DEFINE x == [i \in DOMAIN w.st |-> [w.st[i] EXCEPT !.observed = FALSE]]
<1>1. w.st \in [DOMAIN Items[conf] -> States]
  BY DEF IsWorld, FunctionType
<1>2. ASSUME NEW i \in DOMAIN Items[conf]
      PROVE  x[i] \in States /\ x[i].active = w.st[i].active /\ x[i].period = w.st[i].period /\ x[i].decreased = w.st[i].decreased
  <2>1. x[i] = [w.st[i] EXCEPT !.observed = FALSE] /\ w.st[i] \in States
    BY <1>1
  <2> HIDE DEF x
  <2>2. /\ [w.st[i] EXCEPT !.observed = FALSE] \in States /\ [w.st[i] EXCEPT !.observed = FALSE].active = w.st[i].active
        /\ [w.st[i] EXCEPT !.observed = FALSE].period = w.st[i].period
        /\ [w.st[i] EXCEPT !.observed = FALSE].decreased = w.st[i].decreased
    BY <2>1, StateFields
  <2> QED BY <2>1, <2>2, Zenon
<1>3. x \in [DOMAIN Items[conf] -> States]
  BY <1>1, <1>2
<1> HIDE DEF x
<1>4. LET v == [w EXCEPT !.st = x] IN Alike(w, v) /\ Kept(v) = Kept(w) /\ v.dpp = w.dpp /\ v.fs = w.fs /\ v.walk = w.walk
  <2>1. LET v == [w EXCEPT !.st = x] IN Alike(w, v) /\ Kept(v) = Kept(w) /\ SameDrops(w, v)
    BY <1>2, <1>3, StatesAlike
  <2>2. LET v == [w EXCEPT !.st = x] IN IsWorld(v) /\ SameButStates(w, v) /\ v.st = x /\ v.dpp = w.dpp
    BY <1>3, SetStates
  <2> QED BY <2>1, <2>2 DEF SameButStates, SameStatus, Others
<1> QED
  BY <1>4 DEF x

\* Everything is up.
AllUp(w) ==
    /\ \A f \in Countable : w.fs[f].count_ = 0 /\ w.fs[f].lazy_count_ = 0
    /\ \A b \in Buttons : w.bs[b] = 0
    /\ \A id \in Ids(conf) : w.pressing[id] = 0
    /\ \A i \in DOMAIN Items[conf] : w.active[i] = 0

\* The reset leaves the periods of the items, their timer and the list alone.
Resets(w, v) ==
    IsWorld(v) /\ SameModes(w, v) /\ v.prep = w.prep /\ v.dpp = w.dpp /\ Kept(v) = Kept(w) /\ AllUp(v) /\ v.walk = w.walk

\* The keys that PressDownKeys remembers are forgotten.
LEMMA ClearDownSends ==
    ASSUME NEW w, OutputType(w)
    PROVE  Sends(w, ClearDown(w))
<1> DEFINE a == [w EXCEPT !.out.down = <<>>]
<1>1. Sends(w, a)
  BY SetOut
<1>2. OutputType(a)
  BY <1>1 DEF Sends
<1> HIDE DEF a
<1>3. Sends(w, Sent(a, Last(w.out.down), "UP"))
  BY <1>1, <1>2, SentSends, SendsTwice
<1> QED
  BY <1>3, SendsNothing DEF ClearDown, a

\* The keys are let go of.
LEMMA LetGo ==
    ASSUME NEW w, IsWorld(w)
    PROVE  LET v == [w EXCEPT !.pressing = [id \in DOMAIN w.pressing |-> 0], !.active = [i \in DOMAIN w.active |-> 0]]
           IN  /\ IsWorld(v) /\ SameStatus(w, v) /\ v.st = w.st /\ v.prep = w.prep /\ v.dpp = w.dpp /\ Kept(v) = Kept(w)
               /\ \A id \in Ids(conf) : v.pressing[id] = 0
               /\ \A i \in DOMAIN Items[conf] : v.active[i] = 0
               /\ v.walk = w.walk
<1> DEFINE p == [id \in Ids(conf) |-> 0]
           n == [i \in DOMAIN Items[conf] |-> 0]
           u == [w EXCEPT !.pressing = p]
           v == [u EXCEPT !.active = n]
<1>1. DOMAIN w.pressing = Ids(conf) /\ DOMAIN w.active = DOMAIN Items[conf] /\ w = [x \in Fields |-> w[x]]
  BY DEF IsWorld, FunctionType, OutputType
<1>2. p \in [Ids(conf) -> Nat] /\ n \in [DOMAIN Items[conf] -> Nat]
  OBVIOUS
<1>3. (\A id \in Ids(conf) : p[id] = 0) /\ (\A i \in DOMAIN Items[conf] : n[i] = 0)
  OBVIOUS
<1>4. [w EXCEPT !.pressing = [id \in DOMAIN w.pressing |-> 0], !.active = [i \in DOMAIN w.active |-> 0]] = v
  BY <1>1
<1> HIDE DEF p, n
<1>5. /\ v = [x \in Fields |-> v[x]] /\ v.pressing = p /\ v.active = n
      /\ v.items = w.items /\ v.fs = w.fs /\ v.bs = w.bs /\ v.out = w.out /\ v.rep = w.rep /\ v.ktk = w.ktk /\ v.dpp = w.dpp
      /\ v.st = w.st /\ v.prep = w.prep /\ v.loaded = w.loaded /\ v.device = w.device /\ v.keys = w.keys /\ v.walk = w.walk
  BY <1>1 DEF Fields
<1> HIDE DEF v
<1>6. OutputType(v)
  BY <1>5 DEF IsWorld, OutputType
<1>7. FunctionType(v)
  BY <1>2, <1>5 DEF IsWorld, FunctionType
<1>8. IsWorld(v)
  BY <1>5, <1>6, <1>7 DEF IsWorld
<1>9. SameStatus(w, v) /\ Kept(v) = Kept(w)
  BY <1>5 DEF SameStatus, Kept
<1>10. LET x == v IN /\ IsWorld(x) /\ SameStatus(w, x) /\ x.st = w.st /\ x.prep = w.prep /\ x.dpp = w.dpp /\ Kept(x) = Kept(w)
                     /\ \A id \in Ids(conf) : x.pressing[id] = 0
                     /\ \A i \in DOMAIN Items[conf] : x.active[i] = 0
                     /\ x.walk = w.walk
  BY <1>3, <1>5, <1>8, <1>9
<1> QED
  BY <1>4, <1>10, Zenon

\* resetInternalStateIfNeeded: it resets only when no key is pressed and the
\* queue is empty; then all counts, all keys and all entries of ActiveItems
\* are gone.
LEMMA ResetInternalStateResets ==
    ASSUME NEW w, IsWorld(w), NEW e, NEW more
    PROVE  LET v == ResetInternalState(w, e, more)
           IN  IF e.type = "NONE" \/ w.keys # 0 \/ more THEN v = w ELSE Resets(w, v)
<1> DEFINE a0 == CancelRepeat(w)
           a1 == [a0 EXCEPT !.st = [i \in DOMAIN a0.st |-> [a0.st[i] EXCEPT !.observed = FALSE]]]
           a2 == [a1 EXCEPT !.fs = ResetFlags(a0.fs)]
           a3 == [a2 EXCEPT !.bs = InitButtonStatus]
           a  == [a3 EXCEPT !.out.ignoreUp = FALSE]
           b  == FireCurrentModifiers(a, "UP")
           c  == FireRelativePointer(b, "UP", {}, FALSE)
           d  == ClearDown(c)
           v  == [d EXCEPT !.pressing = [id \in DOMAIN d.pressing |-> 0], !.active = [i \in DOMAIN d.active |-> 0]]
           no == e.type = "NONE" \/ w.keys # 0 \/ more
<1>1. Keeps(w, a0)
  BY CancelRepeatKeeps DEF IsWorld
<1>2. ResetInternalState(w, e, more) = IF no THEN w ELSE v
  <2> HIDE DEF no
  <2> DEFINE x == [a0 EXCEPT !.st = [i \in DOMAIN @ |-> [@[i] EXCEPT !.observed = FALSE]],
                             !.fs = ResetFlags(@), !.bs = InitButtonStatus, !.out.ignoreUp = FALSE]
             y == ClearDown(FireRelativePointer(FireCurrentModifiers(x, "UP"), "UP", {}, FALSE))
  <2>1. ResetInternalState(w, e, more)
         = IF no THEN w ELSE [y EXCEPT !.pressing = [id \in DOMAIN @ |-> 0], !.active = [i \in DOMAIN @ |-> 0]]
    BY Zenon DEF ResetInternalState, no
  <2>2. x = a
    <3>1. OutputType(a0)
      BY <1>1 DEF Keeps, Acts
    <3>2. a0 = [z \in Fields |-> a0[z]]
      BY <3>1 DEF OutputType
    <3> HIDE DEF a0
    <3> QED BY <3>2 DEF Fields
  <2> QED BY <2>1, <2>2
<1> HIDE DEF a0
<1>3. Lasts(w, a0) /\ a0.pressing = w.pressing /\ a0.st = w.st
  BY <1>1, ActsLasts DEF Keeps
<1>4. Behind(a0) = Behind(w) /\ IsWorld(a0)
  BY <1>1, <1>3 DEF Keeps, Acts, Lasts
<1>5. a0.prep = w.prep /\ a0.walk = w.walk /\ a0.dpp = w.dpp /\ Kept(a0) = Kept(w) /\ SameModes(w, a0)
  BY <1>3, <1>4 DEF Behind, Lasts, SameModes
<1>6. Alike(a0, a1) /\ Kept(a1) = Kept(a0) /\ a1.dpp = a0.dpp /\ a1.fs = a0.fs /\ a1.walk = a0.walk
  BY <1>4, ObservedAlike
<1> HIDE DEF a1
<1>7. IsWorld(a1) /\ SameModes(a0, a1) /\ a1.prep = a0.prep
  BY <1>6 DEF Alike
<1> DEFINE fs == ResetFlags(a0.fs)
<1>8. /\ fs \in FlagStatuses
      /\ \A f \in Flags : fs[f].count_ = 0 /\ fs[f].lazy_count_ = 0
  BY <1>4, ResetFlagsType DEF IsWorld, OutputType
<1> HIDE DEF fs
<1>9. OutputType(a2) /\ Behind(a2) = Behind(a1) /\ a2.rep = a1.rep /\ a2.fs = fs
  <2>1. a2 = [a1 EXCEPT !.fs = fs]
    BY DEF fs
  <2> HIDE DEF a2
  <2> QED BY <1>7, <1>8, <2>1, SetFlags DEF IsWorld
<1> HIDE DEF a2
<1>10. OutputType(a3) /\ Behind(a3) = Behind(a2) /\ a3.rep = a2.rep /\ a3.fs = a2.fs /\ a3.bs = InitButtonStatus
  <2>1. InitButtonStatus \in [Buttons -> Int]
    BY DEF InitButtonStatus
  <2> QED BY <1>9, <2>1, SetButtons
<1> HIDE DEF a3
<1>11. Sends(a3, a)
  BY <1>10, SetOut
<1> HIDE DEF a
<1>12. OutputType(a)
  BY <1>11 DEF Sends
<1>13. Sends(a, b)
  BY <1>12, FireCurrentModifiersSends
<1> HIDE DEF b
<1>14. OutputType(b)
  BY <1>13 DEF Sends
<1>15. Sends(b, c)
  BY <1>14, FireRelativePointerSends
<1> HIDE DEF c
<1>16. OutputType(c)
  BY <1>15 DEF Sends
<1>17. Sends(c, d)
  BY <1>16, ClearDownSends
<1> HIDE DEF d
<1>18. Sends(a3, d)
  BY <1>11, <1>13, <1>15, <1>17, SendsTwice
<1>19. OutputType(d) /\ Behind(d) = Behind(a1) /\ d.rep = a1.rep /\ SameCounts(a3, d)
  BY <1>9, <1>10, <1>18 DEF Sends
<1>20. Acts(a1, d)
  BY <1>19 DEF Acts, KeepsRepeatable
<1>21. Lasts(a1, d) /\ d.st = a1.st
  BY <1>7, <1>20, ActsLasts
<1>22. IsWorld(d) /\ Kept(d) = Kept(a1) /\ d.prep = a1.prep /\ d.dpp = a1.dpp /\ d.walk = a1.walk
  BY <1>19, <1>21 DEF Lasts, Behind
<1>23. LET x == v IN
       /\ IsWorld(x) /\ SameStatus(d, x) /\ x.st = d.st /\ x.prep = d.prep /\ x.dpp = d.dpp /\ Kept(x) = Kept(d)
       /\ \A id \in Ids(conf) : x.pressing[id] = 0
       /\ \A i \in DOMAIN Items[conf] : x.active[i] = 0
       /\ x.walk = d.walk
  BY <1>22, LetGo, Zenon
<1> HIDE DEF v
<1>24. \A f \in Countable : v.fs[f].count_ = 0 /\ v.fs[f].lazy_count_ = 0
  BY <1>8, <1>9, <1>10, <1>19, <1>23 DEF SameCounts, SameFlagCounts, SameStatus, Countable
<1>25. \A z \in Buttons : v.bs[z] = 0
  BY <1>10, <1>19, <1>23 DEF SameCounts, SameStatus, InitButtonStatus
<1>26. AllUp(v)
  BY <1>23, <1>24, <1>25 DEF AllUp
<1>27. SameModes(w, v)
  BY <1>5, <1>7, <1>21, <1>23 DEF SameModes
<1>28. Resets(w, v)
  BY <1>5, <1>6, <1>7, <1>22, <1>23, <1>26, <1>27 DEF Resets
<1> HIDE DEF no
<1>29. LET x == ResetInternalState(w, e, more) IN IF no THEN x = w ELSE Resets(w, x)
  BY <1>2, <1>28
<1> QED
  BY <1>29, Zenon DEF no

-----------------------------------------------------------------------------
(* EventInputQueue::doFire *)

\* The event is counted, and an overlaid key takes it or is as it was.
Feeds(w, v, e) ==
    /\ Lasts(w, v) /\ Fed(w, v, e)
    /\ \A i \in Periodic : SameKey(w, v, i) \/ Took(w, v, i, e)
    /\ \A i \in Periodic : Undropped(e) /\ MustTake(w, i, e) => Took(w, v, i, e)

\* What comes before and after the callbacks.
AlikeToo(w, v) == Alike(w, v) /\ Kept(v) = Kept(w) /\ SameDrops(w, v)

\* What comes before and after the callbacks changes nothing that counts.
LEMMA AlikeTooLasts ==
    ASSUME conf \in DOMAIN Configurations, NEW w, IsWorld(w), NEW v, AlikeToo(w, v)
    PROVE  Lasts(w, v) /\ SameExcess(w, v) /\ SameKeys(w, v) /\ IsWorld(v)
BY AlikeKeeps DEF AlikeToo, Alike, Lasts

\* The lazy modifiers are enabled or disabled.
LEMMA LazyAlike ==
    ASSUME NEW w, IsWorld(w), NEW e
    PROVE  AlikeToo(w, [w EXCEPT !.fs = IF e.type = "UP" THEN LazyDisableIfOff(@) ELSE LazyEnable(@)])
<1> DEFINE fs == IF e.type = "UP" THEN LazyDisableIfOff(w.fs) ELSE LazyEnable(w.fs)
<1>1. w.fs \in FlagStatuses
  BY DEF IsWorld, OutputType
<1>2. fs \in FlagStatuses /\ SameFlagCounts(w.fs, fs)
  BY <1>1, LazyEnableType
<1> HIDE DEF fs
<1>3. LET v == [w EXCEPT !.fs = fs] IN Alike(w, v) /\ Kept(v) = Kept(w) /\ SameDrops(w, v)
  BY <1>2, FlagsAlike
<1> QED
  BY <1>3 DEF AlikeToo, fs

\* Nothing changes.
LEMMA AlikeTooItself ==
    ASSUME NEW w, IsWorld(w)
    PROVE  AlikeToo(w, w)
BY SameCountsHere DEF AlikeToo, Alike, SameDrops, SameModes

\* What an event does, with what comes before and after.
LEMMA FeedsBetween ==
    ASSUME conf \in DOMAIN Configurations, NEW w, IsWorld(w), NEW a, AlikeToo(w, a),
           NEW b, IsWorld(b), NEW e, Feeds(a, b, e), NEW v, AlikeToo(b, v)
    PROVE  Feeds(w, v, e)
<1>1. Lasts(w, a) /\ SameExcess(w, a) /\ SameKeys(w, a)
  BY AlikeTooLasts
<1>2. Lasts(b, v) /\ SameExcess(b, v) /\ SameKeys(b, v)
  BY AlikeTooLasts
<1>3. Lasts(w, v)
  BY <1>1, <1>2, LastsTwice DEF Feeds
<1>4. Fed(w, v, e)
  BY <1>1, <1>2 DEF Feeds, Fed, SameExcess
<1>5. a.loaded = w.loaded /\ a.device = w.device /\ a.remapped = w.remapped
  BY <1>1 DEF AlikeToo, SameDrops, Kept
<1>6. ASSUME NEW i \in Periodic
      PROVE  /\ a.active[i] = w.active[i] /\ a.pressing[<<i, "ITEM">>] = w.pressing[<<i, "ITEM">>]
             /\ v.active[i] = b.active[i] /\ v.pressing[<<i, "ITEM">>] = b.pressing[<<i, "ITEM">>]
  BY <1>1, <1>2 DEF SameKeys, SamePeriodKeys
<1>7. ASSUME NEW i \in Periodic
      PROVE  SameKey(w, v, i) \/ Took(w, v, i, e)
  <2>1. SameKey(a, b, i) \/ Took(a, b, i, e)
    BY DEF Feeds
  <2> QED BY <1>5, <1>6, <2>1 DEF SameKey, Took
<1>8. ASSUME NEW i \in Periodic, Undropped(e), MustTake(w, i, e)
      PROVE  Took(w, v, i, e)
  <2>1. MustTake(a, i, e)
    BY <1>5, <1>6, <1>8 DEF MustTake
  <2>2. Took(a, b, i, e)
    BY <1>8, <2>1 DEF Feeds
  <2> QED BY <1>5, <1>6, <2>2 DEF Took
<1> QED
  BY <1>3, <1>4, <1>7, <1>8 DEF Feeds

\* resetInternalStateIfNeeded resets.
ResetNeeded(w, e, more) == ~(e.type = "NONE" \/ w.keys # 0 \/ more)

\* EventInputQueue::doFire: the event is counted once, and then everything may
\* be reset.
LEMMA DoFireFeeds ==
    ASSUME conf \in DOMAIN Configurations, NEW w, IsWorld(w), Listable(w), NEW e, IsEvent(e), NEW late, NEW more
    PROVE  \E v : Feeds(w, v, e) /\ IF ResetNeeded(w, e, more) THEN Resets(v, DoFire(w, e, late, more)) ELSE DoFire(w, e, late, more) = v
<1> DEFINE a == IF e.type = "DOWN" \/ e.code.t = "scroll" THEN WatchersOn(w) ELSE w
           b == [a EXCEPT !.fs = IF e.type = "UP" THEN LazyDisableIfOff(@) ELSE LazyEnable(@)]
           pt == PhysicalType(e)
           c == RemapEvent(b, e, pt, late)
           d == SetLastKeys(c, e)
           v == ResetInternalState(d, e, more)
<1>1. v = DoFire(w, e, late, more)
  BY DEF DoFire
<1>2. AlikeToo(w, a)
  BY WatchersOnAlike, AlikeTooItself DEF AlikeToo
<1> HIDE DEF a
<1>3. IsWorld(a)
  BY <1>2 DEF AlikeToo, Alike
<1>4. AlikeToo(a, b)
  BY <1>3, LazyAlike
<1> HIDE DEF b
<1>5. AlikeToo(w, b)
  BY <1>2, <1>4 DEF AlikeToo, Alike, SameCounts, SameFlagCounts, SameModes, SameDrops
<1>6. Lasts(w, b) /\ IsWorld(b)
  BY <1>5, AlikeTooLasts
<1>7. IsWorld(b) /\ Listable(b)
  BY <1>6 DEF Lasts
<1> HIDE DEF pt
<1>8. Feeds(b, c, e)
  BY <1>7, RemapEventFeeds DEF Feeds
<1> HIDE DEF c
<1>9. IsWorld(c)
  BY <1>8 DEF Feeds, Lasts
<1>10. AlikeToo(c, d)
  BY <1>9, SetLastKeysAlike DEF AlikeToo
<1> HIDE DEF d
<1>11. Feeds(w, d, e)
  BY <1>5, <1>8, <1>9, <1>10, FeedsBetween
<1>12. IsWorld(d) /\ d.keys = w.keys
  BY <1>11 DEF Feeds, Lasts, Kept
<1>13. LET x == v IN IF e.type = "NONE" \/ d.keys # 0 \/ more THEN x = d ELSE Resets(d, x)
  BY <1>12, ResetInternalStateResets
<1> HIDE DEF v
<1>14. IF ResetNeeded(w, e, more) THEN Resets(d, v) ELSE v = d
  BY <1>12, <1>13 DEF ResetNeeded
<1> QED
  BY <1>1, <1>11, <1>14

-----------------------------------------------------------------------------
(* Between two steps *)

AsWorld(k) == [k EXCEPT !.items = Items[conf], !.log = <<>>]

\* The world that an action starts from.
LEMMA WorldOfKext == World = AsWorld(kext)
BY DEF World, AsWorld

\* What nothing reads any more is of the same type when it is forgotten.
LEMMA ForgetStateType ==
    ASSUME NEW w, IsWorld(w), NEW i, i \in DOMAIN Items[conf]
    PROVE  /\ ForgetState(w, i) \in States /\ ForgetState(w, i).active = w.st[i].active
           /\ ForgetState(w, i).period = w.st[i].period /\ ForgetState(w, i).decreased = w.st[i].decreased
<1> DEFINE s == w.st[i]
           saved == IF NeedsSaved(w, i) THEN s.saved ELSE NewState.saved
           up == s.up /\ w.dpp.on /\ w.dpp.target = i
           any == s.any /\ s.period = "LONG"
           v == [s EXCEPT !.saved = saved, !.up = up, !.any = any]
<1>1. ForgetState(w, i) = v
  BY DEF ForgetState
<1>2. s \in States
  BY DEF IsWorld, FunctionType
<1>3. NewState.saved \in [Flags -> Int] /\ s.saved \in [Flags -> Int]
  BY <1>2 DEF NewState, States
<1>4. saved \in [Flags -> Int] /\ up \in BOOLEAN /\ any \in BOOLEAN
  BY <1>3
<1> HIDE DEF s, saved, up, any
<1>5. v \in States /\ v.active = s.active /\ v.period = s.period /\ v.decreased = s.decreased
  BY <1>2, <1>4 DEF States
<1> QED
  BY <1>1, <1>5 DEF s

\* What Forget leaves alone.
LEMMA ForgetFields ==
    ASSUME NEW w, w = [x \in Fields |-> w[x]]
    PROVE  LET k == Forget(w)
           IN  /\ k = [x \in Fields |-> k[x]]
               /\ k.fs = w.fs /\ k.bs = w.bs /\ k.out = w.out /\ k.enabled = w.enabled /\ k.loaded = w.loaded
               /\ k.refresh = w.refresh /\ k.pressing = w.pressing /\ k.active = w.active /\ k.prep = w.prep
               /\ k.walk = w.walk /\ k.workspace = w.workspace
               /\ k.remapped = FALSE /\ k.drop = FALSE /\ k.items = <<>>
               /\ k.ktk = (IF w.ktk.on THEN w.ktk ELSE NoDelayedAction)
               /\ k.dpp = [w.dpp EXCEPT !.target = IF w.dpp.on THEN w.dpp.target ELSE 0]
               /\ k.rep = [w.rep EXCEPT !.q = IF w.rep.on THEN w.rep.q ELSE <<>>]
               /\ k.st = [i \in DOMAIN w.st |-> ForgetState(w, i)]
<1> DEFINE Reads(T, x) == IF FilterTypes(w) \cap T # {} THEN x ELSE NoEvent
           a == [w EXCEPT !.remapped = FALSE, !.drop = FALSE, !.device = "none", !.elapsed = 0, !.keys = 0]
           log == IF Configuration.log THEN w.log ELSE <<>>
           sent == Reads({"LASTSENTEVENT"}, w.lastSent)
           pressed == Reads({"LASTPRESSEDPHYSICALKEY", "ELAPSEDTIMESINCELASTPRESSED"}, w.lastPressed)
           released == Reads({"LASTRELEASEDPHYSICALKEY", "ELAPSEDTIMESINCELASTRELEASED"}, w.lastReleased)
           b == [a EXCEPT !.items = <<>>, !.log = log, !.lastSent = sent, !.lastPressed = pressed, !.lastReleased = released]
           ktk == IF w.ktk.on THEN w.ktk ELSE NoDelayedAction
           up == w.lastUp \cap ({w.ktk.target} \cup ToSet(w.prep))
           dpp == [w.dpp EXCEPT !.target = IF w.dpp.on THEN w.dpp.target ELSE 0]
           rep == [w.rep EXCEPT !.q = IF w.rep.on THEN w.rep.q ELSE <<>>]
           st == [i \in DOMAIN w.st |-> ForgetState(w, i)]
           k == [b EXCEPT !.ktk = ktk, !.lastUp = up, !.dpp = dpp, !.rep = rep, !.st = st]
<1>1. Forget(w) = k
  BY DEF Forget, Fields
<1> HIDE DEF log, sent, pressed, released, ktk, up, dpp, rep, st
<1>2. /\ a = [x \in Fields |-> a[x]]
      /\ a.fs = w.fs /\ a.bs = w.bs /\ a.out = w.out /\ a.enabled = w.enabled /\ a.loaded = w.loaded
      /\ a.refresh = w.refresh /\ a.pressing = w.pressing /\ a.active = w.active /\ a.prep = w.prep
      /\ a.walk = w.walk /\ a.workspace = w.workspace /\ a.remapped = FALSE /\ a.drop = FALSE
  BY DEF Fields
<1> HIDE DEF a
<1>3. /\ b = [x \in Fields |-> b[x]] /\ b.items = <<>>
      /\ b.fs = a.fs /\ b.bs = a.bs /\ b.out = a.out /\ b.enabled = a.enabled /\ b.loaded = a.loaded
      /\ b.refresh = a.refresh /\ b.pressing = a.pressing /\ b.active = a.active /\ b.prep = a.prep
      /\ b.walk = a.walk /\ b.workspace = a.workspace /\ b.remapped = a.remapped /\ b.drop = a.drop
  BY <1>2 DEF Fields
<1> HIDE DEF b
<1>4. /\ k = [x \in Fields |-> k[x]] /\ k.items = b.items
      /\ k.fs = b.fs /\ k.bs = b.bs /\ k.out = b.out /\ k.enabled = b.enabled /\ k.loaded = b.loaded
      /\ k.refresh = b.refresh /\ k.pressing = b.pressing /\ k.active = b.active /\ k.prep = b.prep
      /\ k.walk = b.walk /\ k.workspace = b.workspace /\ k.remapped = b.remapped /\ k.drop = b.drop
      /\ k.ktk = ktk /\ k.dpp = dpp /\ k.rep = rep /\ k.st = st
  BY <1>3 DEF Fields
<1> HIDE DEF k
<1> QED
  BY <1>1, <1>2, <1>3, <1>4 DEF ktk, dpp, rep, st

\* What a world takes from the kext.
LEMMA AsWorldFields ==
    ASSUME NEW k, k = [x \in Fields |-> k[x]]
    PROVE  LET v == AsWorld(k)
           IN  /\ v = [x \in Fields |-> v[x]]
               /\ v.fs = k.fs /\ v.bs = k.bs /\ v.out = k.out /\ v.enabled = k.enabled /\ v.loaded = k.loaded
               /\ v.refresh = k.refresh /\ v.pressing = k.pressing /\ v.active = k.active /\ v.prep = k.prep
               /\ v.walk = k.walk /\ v.workspace = k.workspace /\ v.remapped = k.remapped /\ v.drop = k.drop
               /\ v.items = Items[conf] /\ v.ktk = k.ktk /\ v.dpp = k.dpp /\ v.rep = k.rep /\ v.st = k.st
BY DEF AsWorld, Fields

\* Forget drops only what nothing reads any more.
LEMMA ForgetAlike ==
    ASSUME NEW w, IsWorld(w)
    PROVE  LET k == Forget(w)
           IN  Alike(w, AsWorld(k)) /\ k = [x \in Fields |-> k[x]] /\ k.remapped = FALSE /\ k.drop = FALSE
<1> DEFINE k == Forget(w)
           v == AsWorld(k)
<1>1. /\ k = [x \in Fields |-> k[x]]
      /\ k.fs = w.fs /\ k.bs = w.bs /\ k.out = w.out /\ k.loaded = w.loaded
      /\ k.pressing = w.pressing /\ k.active = w.active /\ k.prep = w.prep
      /\ k.remapped = FALSE /\ k.drop = FALSE
      /\ k.ktk = (IF w.ktk.on THEN w.ktk ELSE NoDelayedAction)
      /\ k.dpp = [w.dpp EXCEPT !.target = IF w.dpp.on THEN w.dpp.target ELSE 0]
      /\ k.rep = [w.rep EXCEPT !.q = IF w.rep.on THEN w.rep.q ELSE <<>>]
      /\ k.st = [i \in DOMAIN w.st |-> ForgetState(w, i)]
  BY ForgetFields DEF IsWorld, OutputType
<1> HIDE DEF k
<1>2. /\ v = [x \in Fields |-> v[x]]
      /\ v.fs = k.fs /\ v.bs = k.bs /\ v.out = k.out /\ v.loaded = k.loaded /\ v.pressing = k.pressing
      /\ v.active = k.active /\ v.prep = k.prep
      /\ v.items = Items[conf] /\ v.ktk = k.ktk /\ v.dpp = k.dpp /\ v.rep = k.rep /\ v.st = k.st
  BY <1>1, AsWorldFields
<1> HIDE DEF v
<1>3. v.rep = [x \in {"on", "q", "mine"} |-> v.rep[x]] /\ v.rep.q = IF w.rep.on THEN w.rep.q ELSE <<>>
  BY <1>1, <1>2 DEF IsWorld, OutputType
<1>4. v.rep.q \in Seq(Entries) /\ Repeatable(v.rep.q)
  BY <1>3, EmptyPaired DEF IsWorld, OutputType, Repeatable
<1>5. v.dpp = [x \in {"target", "on"} |-> v.dpp[x]] /\ v.dpp.on = w.dpp.on
      /\ v.dpp.target = IF w.dpp.on THEN w.dpp.target ELSE 0
  BY <1>1, <1>2 DEF IsWorld, FunctionType
<1>6. v.dpp.target \in {0} \cup Periodic /\ (v.dpp.on => v.dpp.target \in Periodic)
  BY <1>5 DEF IsWorld, FunctionType
<1>7. v.ktk = [x \in {"target", "on", "saved"} |-> v.ktk[x]] /\ v.ktk.saved \in [Flags -> Int]
      /\ (v.ktk.on => v.ktk.target \in PartIds)
  <2>1. CASE w.ktk.on
    <3>1. v.ktk = w.ktk
      BY <1>1, <1>2, <2>1
    <3>2. w.ktk = [x \in {"target", "on", "saved"} |-> w.ktk[x]] /\ w.ktk.saved \in [Flags -> Int]
          /\ (w.ktk.on => w.ktk.target \in PartIds)
      BY DEF IsWorld, FunctionType
    <3> QED BY <3>1, <3>2
  <2>2. CASE ~w.ktk.on
    <3>1. v.ktk = NoDelayedAction
      BY <1>1, <1>2, <2>2
    <3>2. v.ktk = [target |-> <<>>, on |-> FALSE, saved |-> [f \in Flags |-> 0]]
      BY <3>1 DEF NoDelayedAction
    <3>3. v.ktk.on = FALSE /\ v.ktk.saved \in [Flags -> Int]
      BY <3>2
    <3>4. v.ktk = [x \in {"target", "on", "saved"} |-> v.ktk[x]]
      BY <3>2
    <3> QED BY <3>3, <3>4
  <2> QED BY <2>1, <2>2
<1>8. ASSUME NEW i \in DOMAIN Items[conf]
      PROVE  v.st[i] = ForgetState(w, i) /\ v.st[i] \in States /\ v.st[i].active = w.st[i].active
             /\ v.st[i].period = w.st[i].period /\ v.st[i].decreased = w.st[i].decreased
  <2>1. v.st[i] = ForgetState(w, i)
    BY <1>1, <1>2 DEF IsWorld, FunctionType
  <2> QED BY <2>1, ForgetStateType
<1>9. v.st \in [DOMAIN Items[conf] -> States]
  <2>1. v.st = [i \in DOMAIN Items[conf] |-> ForgetState(w, i)]
    BY <1>1, <1>2 DEF IsWorld, FunctionType
  <2> QED BY <2>1, ForgetStateType
<1>10. OutputType(v)
  BY <1>1, <1>2, <1>3, <1>4 DEF IsWorld, OutputType
<1>11. FunctionType(v)
  BY <1>1, <1>2, <1>5, <1>6, <1>7, <1>9 DEF IsWorld, FunctionType
<1>12. IsWorld(v) /\ SameCounts(w, v) /\ SameModes(w, v)
  BY <1>1, <1>2, <1>4, <1>8, <1>10, <1>11 DEF IsWorld, SameCounts, SameFlagCounts, SameModes
<1>13. Alike(w, v)
  BY <1>1, <1>2, <1>5, <1>12 DEF Alike
<1> QED
  BY <1>1, <1>13 DEF k, v

-----------------------------------------------------------------------------
(* The type of the state *)

Sound(k) ==
    k = [x \in Fields |-> k[x]] /\ IsWorld(AsWorld(k)) /\ Listable(AsWorld(k)) /\ k.remapped = FALSE /\ k.drop = FALSE

\* ... so what it stores is sound.
LEMMA ForgetSound ==
    ASSUME conf \in DOMAIN Configurations, NEW w, IsWorld(w), Listable(w)
    PROVE  Sound(Forget(w)) /\ Alike(w, AsWorld(Forget(w)))
<1>1. Alike(w, AsWorld(Forget(w)))
  BY ForgetAlike
<1>2. IsWorld(AsWorld(Forget(w))) /\ Listable(AsWorld(Forget(w)))
  BY <1>1, AlikeKeeps DEF Alike
<1> QED
  BY <1>1, <1>2, ForgetAlike DEF Sound

-----------------------------------------------------------------------------
(* The steps that are no event *)

\* Nothing is pressed or released.
Quiet(w, v) ==
    /\ IsWorld(v) /\ SameExcess(w, v) /\ SameKeys(w, v)
    /\ (Tidy(w) => Tidy(v)) /\ (Listable(w) => Listable(v))
    /\ \A i \in Periodic : w.active[i] > 0 /\ Items[conf][i].class \in w.loaded => Items[conf][i].class \in v.loaded

\* Two steps that count nothing.
LEMMA QuietTwice ==
    ASSUME NEW u, NEW v, NEW w, Quiet(u, v), Quiet(v, w)
    PROVE  Quiet(u, w)
<1>1. SameExcess(u, w) /\ SameKeys(u, w)
  BY SameExcessTwice, SameKeysTwice DEF Quiet
<1> QED
  BY <1>1 DEF Quiet, SameKeys

\* A prepare counts nothing.
LEMMA PreparesQuiet ==
    ASSUME NEW w, NEW v, Prepares(w, v)
    PROVE  Quiet(w, v)
BY DEF Prepares, Keeping, Quiet, SameKeys, Kept

\* What differs in nothing that counts.
LEMMA AlikeQuiet ==
    ASSUME conf \in DOMAIN Configurations, NEW w, IsWorld(w), NEW v, Alike(w, v)
    PROVE  Quiet(w, v)
BY AlikeKeeps DEF Quiet, Alike

\* A step of the world that is forgotten.
LEMMA QuietForget ==
    ASSUME conf \in DOMAIN Configurations, NEW w, IsWorld(w), Listable(w), NEW v, Quiet(w, v)
    PROVE  Sound(Forget(v)) /\ Quiet(w, AsWorld(Forget(v)))
<1>1. IsWorld(v) /\ Listable(v)
  BY DEF Quiet
<1>2. Sound(Forget(v)) /\ Alike(v, AsWorld(Forget(v)))
  BY <1>1, ForgetSound
<1>3. Quiet(v, AsWorld(Forget(v)))
  BY <1>1, <1>2, AlikeQuiet
<1> QED
  BY <1>2, <1>3, QuietTwice

\* The timer of KeyToKey's delayed action.
LEMMA DelayedActionQuiet ==
    ASSUME conf \in DOMAIN Configurations, NEW w, IsWorld(w), w.ktk.on
    PROVE  LET id == w.ktk.target
           IN  Quiet(w, DoDelayedAction([w EXCEPT !.ktk.on = FALSE], id,
                                        Keys(Items[conf][id[1]].parts[id[2]], "DELAYED"), FALSE))
<1> DEFINE id == w.ktk.target
           keys == Keys(Items[conf][id[1]].parts[id[2]], "DELAYED")
           x == [w.ktk EXCEPT !.on = FALSE]
           u == [w EXCEPT !.ktk.on = FALSE]
           v == DoDelayedAction(u, id, keys, FALSE)
<1>1. KtkType(w.ktk) /\ id \in PartIds /\ w = [y \in Fields |-> w[y]]
  BY DEF IsWorld, FunctionType, KtkType, OutputType
<1>2. keys \in Seq(ToEvents)
  <2>1. PartOf(id) \in KeyToKeys /\ PartOf(id) = Items[conf][id[1]].parts[id[2]]
    BY <1>1, PartOfType DEF PartOf
  <2> HIDE DEF id
  <2>2. "DELAYED" \in ListNames
    BY DEF ListNames
  <2> QED BY <2>1, <2>2, KeysType
<1>3. KtkType(x)
  BY <1>1, KtkOff
<1>4. u = [w EXCEPT !.ktk = x]
  BY <1>1 DEF Fields
<1> HIDE DEF x
<1>5. /\ IsWorld(u) /\ SameStatus(w, u) /\ Aside(u) = Aside(w) /\ u.pressing = w.pressing
      /\ u.prep = w.prep
  BY <1>3, <1>4, SetKtk
<1> HIDE DEF u, keys, id
<1>6. Alike(w, u)
  <2>1. u.active = w.active /\ u.loaded = w.loaded /\ u.dpp = w.dpp /\ u.st = w.st
    BY <1>5 DEF Aside
  <2> QED BY <1>5, <2>1 DEF Alike, SameModes, SameCounts, SameFlagCounts, SameStatus
<1>7. Goes(u, v)
  <2> DEFINE n == FALSE
  <2> HIDE DEF n
  <2>1. Goes(u, DoDelayedAction(u, id, keys, n))
    BY <1>2, <1>5, DoDelayedActionGoes
  <2> QED BY <2>1, Zenon DEF n
<1> HIDE DEF v
<1>8. Quiet(w, u) /\ Quiet(u, v)
  BY <1>5, <1>6, <1>7, AlikeQuiet, GoesPrepares, PreparesQuiet
<1> QED
  BY <1>8, QuietTwice DEF id, keys, u, v

\* The timer of DependingPressingPeriodKeyToKey.
LEMMA PeriodTimerQuiet ==
    ASSUME conf \in DOMAIN Configurations, NEW w, IsWorld(w), w.dpp.on
    PROVE  Quiet(w, FireTimer([w EXCEPT !.dpp.on = FALSE]))
<1> DEFINE u == [w EXCEPT !.dpp.on = FALSE]
           v == FireTimer(u)
           i == w.dpp.target
<1>1. i \in Periodic
  BY DEF IsWorld, FunctionType
<1>2. IsWorld(u) /\ SameButStates(w, u) /\ u.st = w.st /\ u.dpp.on = FALSE /\ u.dpp.target = i
  BY SetTimerFields
<1> HIDE DEF u
<1>3. /\ u.active = w.active /\ u.loaded = w.loaded /\ u.prep = w.prep /\ u.pressing = w.pressing /\ SameCounts(w, u)
  BY <1>2 DEF SameButStates, Others, SameStatus, SameCounts, SameFlagCounts
<1>4. Tidy(w) => Tidy(u) /\ u.st[i].active
  BY <1>2, <1>3 DEF Tidy
<1>5. SameExcess(w, u)
  BY <1>2, <1>3, SameCountsExcess
<1>6. Quiet(w, u)
  BY <1>2, <1>3, <1>4, <1>5 DEF Quiet, SameKeys, SamePeriodKeys, Listable
<1>7. IF i = 0 THEN v = u ELSE i \in Periodic /\ Ticks(u, v, i)
  BY <1>2, FireTimerTicks
<1> HIDE DEF v
<1>8. CASE i = 0
  BY <1>6, <1>7, <1>8 DEF v, u
<1>9. CASE i # 0
  <2>1. Ticks(u, v, i)
    BY <1>7, <1>9
  <2>2. IsWorld(v) /\ SameExcess(u, v) /\ Others(v) = Others(u) /\ SameMains(u, v)
        /\ \A x : x[2] = "ITEM" /\ x # <<i, "ITEM">> => (Listed(v.prep, x) <=> Listed(u.prep, x))
    BY <2>1 DEF Ticks, Works
  <2>3. v.active = u.active /\ v.loaded = u.loaded
    BY <2>2, OthersKept DEF Kept
  <2>4. SamePeriodKeys(u, v)
    <3>1. \A j \in Periodic : <<j, "ITEM">> \in Ids(conf) /\ <<j, "ITEM">>[2] = "ITEM"
      BY PeriodicIds
    <3> QED BY <2>2, <3>1 DEF SamePeriodKeys, SameMains
  <2>5. Tidy(w) => Tidy(v)
    BY <1>1, <1>2, <1>4, <2>1, TicksTidy
  <2>6. Listable(u) => Listable(v)
    <3>1. Listed(v.prep, <<i, "ITEM">>) <=> Listed(u.prep, <<i, "ITEM">>)
      BY <2>1 DEF Ticks
    <3>2. \A j : <<j, "ITEM">>[2] = "ITEM"
      OBVIOUS
    <3> QED BY <2>2, <3>1, <3>2 DEF Listable
  <2>7. Listable(w) => Listable(v)
    BY <1>6, <2>6 DEF Quiet
  <2>8. SameExcess(w, v)
    BY <1>5, <2>2, SameExcessTwice
  <2>9. SameKeys(w, v)
    BY <1>6, <2>3, <2>4 DEF Quiet, SameKeys, SamePeriodKeys
  <2>10. v.loaded = w.loaded
    BY <1>3, <2>3
  <2>11. Quiet(w, v)
    BY <2>2, <2>5, <2>7, <2>8, <2>9, <2>10 DEF Quiet
  <2> QED BY <2>11 DEF v, u
<1> QED
  BY <1>8, <1>9

\* The timer of KeyboardRepeat.
LEMMA RepeatQuiet ==
    ASSUME conf \in DOMAIN Configurations, NEW w, IsWorld(w)
    PROVE  Quiet(w, FireRepeat(w))
<1>1. Keeps(w, FireRepeat(w))
  BY FireRepeatKeeps DEF IsWorld
<1> QED
  BY <1>1, KeepsPrepares, PreparesQuiet

\* The class of an item in ActiveItems stays loaded.
LEMMA RefreshQuiet ==
    ASSUME conf \in DOMAIN Configurations, NEW w, IsWorld(w)
    PROVE  Quiet(w, Refresh(w))
<1> DEFINE S == {Item(w, i).class : i \in {j \in DOMAIN w.active : w.active[j] > 0}}
           v == Refresh(w)
<1>1. /\ w = [x \in Fields |-> w[x]] /\ DOMAIN w.active = DOMAIN Items[conf] /\ w.items = Items[conf]
  BY DEF IsWorld, OutputType, FunctionType
<1>2. v = [w EXCEPT !.refresh = FALSE, !.loaded = w.enabled \cup S]
  BY DEF Refresh
<1>3. \A i \in Periodic : w.active[i] > 0 => Items[conf][i].class \in w.enabled \cup S
  BY <1>1 DEF Item, Periodic
<1> HIDE DEF S
<1>4. /\ v = [x \in Fields |-> v[x]] /\ v.loaded = w.enabled \cup S
      /\ v.items = w.items /\ v.fs = w.fs /\ v.bs = w.bs /\ v.out = w.out /\ v.rep = w.rep /\ v.pressing = w.pressing
      /\ v.active = w.active /\ v.ktk = w.ktk /\ v.dpp = w.dpp /\ v.st = w.st /\ v.prep = w.prep
  BY <1>1, <1>2 DEF Fields
<1> HIDE DEF v
<1>5. OutputType(v) /\ FunctionType(v)
  BY <1>4 DEF IsWorld, OutputType, FunctionType
<1>6. IsWorld(v) /\ SameCounts(w, v)
  BY <1>4, <1>5 DEF IsWorld, SameCounts, SameFlagCounts
<1>7. SameExcess(w, v)
  BY <1>4, <1>6, SameCountsExcess
<1>8. (Tidy(w) => Tidy(v)) /\ (Listable(w) => Listable(v)) /\ SameKeys(w, v)
  BY <1>4 DEF Tidy, Listable, SameKeys, SamePeriodKeys
<1>9. Quiet(w, v)
  BY <1>3, <1>4, <1>6, <1>7, <1>8 DEF Quiet
<1> QED
  BY <1>9 DEF v

\* The user switches classes or programs.
LEMMA SettingQuiet ==
    ASSUME conf \in DOMAIN Configurations, NEW k, Sound(k), NEW x, NEW y
    PROVE  /\ Sound([k EXCEPT !.enabled = x, !.refresh = y])
           /\ Quiet(AsWorld(k), AsWorld([k EXCEPT !.enabled = x, !.refresh = y]))
           /\ Sound([k EXCEPT !.workspace = x])
           /\ Quiet(AsWorld(k), AsWorld([k EXCEPT !.workspace = x]))
<1> DEFINE w == AsWorld(k)
<1>1. IsWorld(w) /\ Listable(w) /\ k = [z \in Fields |-> k[z]]
  BY DEF Sound
<1>2. ASSUME NEW l, l = [z \in Fields |-> l[z]], \A z \in Fields : z \notin {"enabled", "refresh", "workspace"} => l[z] = k[z]
      PROVE  Sound(l) /\ Quiet(w, AsWorld(l))
  <2> DEFINE v == AsWorld(l)
  <2>1. /\ l.fs = k.fs /\ l.bs = k.bs /\ l.out = k.out /\ l.rep = k.rep /\ l.pressing = k.pressing /\ l.active = k.active
        /\ l.ktk = k.ktk /\ l.dpp = k.dpp /\ l.st = k.st /\ l.prep = k.prep /\ l.loaded = k.loaded
        /\ l.remapped = k.remapped /\ l.drop = k.drop
    BY <1>2 DEF Fields
  <2>2. v = [z \in Fields |-> v[z]] /\ Core(v) = Core(w)
    <3>1. /\ v = [z \in Fields |-> v[z]]
          /\ v.fs = l.fs /\ v.bs = l.bs /\ v.out = l.out /\ v.loaded = l.loaded
          /\ v.pressing = l.pressing /\ v.active = l.active /\ v.prep = l.prep
          /\ v.items = Items[conf] /\ v.ktk = l.ktk /\ v.dpp = l.dpp /\ v.rep = l.rep /\ v.st = l.st
      BY <1>2, AsWorldFields
    <3>2. /\ w.fs = k.fs /\ w.bs = k.bs /\ w.out = k.out /\ w.loaded = k.loaded
          /\ w.pressing = k.pressing /\ w.active = k.active /\ w.prep = k.prep
          /\ w.items = Items[conf] /\ w.ktk = k.ktk /\ w.dpp = k.dpp /\ w.rep = k.rep /\ w.st = k.st
      BY <1>1, AsWorldFields
    <3> HIDE DEF v, w
    <3> QED BY <2>1, <3>1, <3>2 DEF Core
  <2> HIDE DEF w, v
  <2>3. Alike(w, v)
    BY <1>1, <2>2, CoreAlike
  <2>4. Quiet(w, v)
    BY <1>1, <2>3, AlikeQuiet
  <2>5. IsWorld(v) /\ Listable(v)
    BY <1>1, <2>4 DEF Quiet
  <2>6. Sound(l)
    BY <1>2, <2>1, <2>5 DEF Sound, v
  <2> QED BY <2>4, <2>6 DEF v
<1> DEFINE l == [k EXCEPT !.enabled = x, !.refresh = y]
           m == [k EXCEPT !.workspace = x]
<1>3. l = [z \in Fields |-> l[z]] /\ \A z \in Fields : z \notin {"enabled", "refresh", "workspace"} => l[z] = k[z]
  BY <1>1 DEF Fields
<1>4. m = [z \in Fields |-> m[z]] /\ \A z \in Fields : z \notin {"enabled", "refresh", "workspace"} => m[z] = k[z]
  BY <1>1 DEF Fields
<1> HIDE DEF l, m
<1>5. Sound(l) /\ Quiet(w, AsWorld(l)) /\ Sound(m) /\ Quiet(w, AsWorld(m))
  BY <1>2, <1>3, <1>4
<1> QED
  BY <1>5 DEF l, m

-----------------------------------------------------------------------------
(* The actions *)

\* An event leads from kext k to l; n keys are held after it.
Occurs(k, l, e, dev, n, more) ==
    /\ IsEvent(e) /\ Sound(l)
    /\ \E w, v, r :
          /\ Alike(AsWorld(k), w) /\ w.device = dev /\ w.keys = n /\ w.remapped = FALSE
          /\ Feeds(w, v, e)
          /\ IF ResetNeeded(w, e, more) THEN Resets(v, r) ELSE r = v
          /\ Alike(r, AsWorld(l))

\* The world of an event.
Prepared(k, x, fs, dev, elapsed, n) ==
    x = [AsWorld(k) EXCEPT !.fs = fs, !.device = dev, !.elapsed = elapsed, !.keys = n]

\* The world an event finds.
LEMMA EventWorld ==
    ASSUME NEW k, Sound(k), NEW fs, fs \in FlagStatuses, SameFlagCounts(k.fs, fs), NEW dev, NEW elapsed, NEW n,
           NEW x, Prepared(k, x, fs, dev, elapsed, n)
    PROVE  Alike(AsWorld(k), x) /\ x.device = dev /\ x.keys = n /\ x.remapped = FALSE
<1> DEFINE w == AsWorld(k)
           u == [w EXCEPT !.fs = fs]
           v == [u EXCEPT !.device = dev, !.elapsed = elapsed, !.keys = n]
<1>1. IsWorld(w) /\ w.fs = k.fs /\ w.remapped = FALSE
  BY AsWorldFields DEF Sound
<1> HIDE DEF w
<1>2. Alike(w, u) /\ SameDrops(w, u)
  BY <1>1, FlagsAlike
<1>3. IsWorld(u)
  BY <1>2 DEF Alike
<1>4. u.remapped = FALSE /\ u = [z \in Fields |-> u[z]]
  BY <1>1, <1>2, <1>3 DEF SameDrops, IsWorld, OutputType
<1> HIDE DEF u
<1>5. v = [z \in Fields |-> v[z]] /\ Core(v) = Core(u) /\ v.device = dev /\ v.keys = n /\ v.remapped = u.remapped
  BY <1>4 DEF Fields, Core
<1>6. v = x
  BY DEF u, w, Prepared
<1> HIDE DEF v
<1>7. Alike(u, v)
  BY <1>3, <1>5, CoreAlike
<1>8. Alike(w, v)
  BY <1>2, <1>7 DEF Alike, SameCounts, SameFlagCounts, SameModes
<1>9. Alike(w, v) /\ v.device = dev /\ v.keys = n /\ v.remapped = FALSE
  BY <1>4, <1>5, <1>8
<1> QED
  BY <1>6, <1>9 DEF w

\* The action of an event, as a step of the world.
LEMMA FiresOccurs ==
    ASSUME conf \in DOMAIN Configurations, Sound(kext), NEW e, IsEvent(e), NEW dev, NEW late, NEW elapsed, NEW more, NEW keys,
           Fires(e, dev, late, elapsed, more, keys)
    PROVE  Occurs(kext, kext', e, dev, Cardinality(Counted(keys)), more) /\ held' = keys /\ conf' = conf
<1> DEFINE retain == e.code.t = "move" \/ (e.code.t \in {"button", "scroll"} /\ Configuration.lazyMouse)
           n == Cardinality(Counted(keys))
           fs == IF retain THEN World.fs ELSE SetTemporary(World.fs)
           w == [World EXCEPT !.fs = fs, !.device = dev, !.elapsed = elapsed, !.keys = n]
           r == DoFire(w, e, late, more)
<1>1. held' = keys /\ conf' = conf /\ kext' = Forget(r)
  BY DEF Fires
<1>2. World = AsWorld(kext) /\ World.fs = kext.fs /\ IsWorld(World) /\ Listable(World)
  BY WorldOfKext, AsWorldFields DEF Sound
<1> HIDE DEF retain
<1>3. fs \in FlagStatuses /\ SameFlagCounts(kext.fs, fs)
  <2>1. kext.fs \in FlagStatuses
    BY <1>2 DEF IsWorld, OutputType
  <2> QED BY <1>2, <2>1, TemporaryType DEF SameFlagCounts
<1> HIDE DEF n, fs
<1>4. Alike(World, w) /\ w.device = dev /\ w.keys = n /\ w.remapped = FALSE
  <2>1. w = [AsWorld(kext) EXCEPT !.fs = fs, !.device = dev, !.elapsed = elapsed, !.keys = n]
    BY <1>2
  <2> HIDE DEF w
  <2>2. Prepared(kext, w, fs, dev, elapsed, n)
    BY <2>1 DEF Prepared
  <2>6. Alike(AsWorld(kext), w) /\ w.device = dev /\ w.keys = n /\ w.remapped = FALSE
    BY <1>3, <2>2, EventWorld
  <2> QED BY <1>2, <2>6
<1> HIDE DEF w
<1>5. IsWorld(w) /\ Listable(w)
  BY <1>2, <1>4, AlikeKeeps DEF Alike
<1>6. PICK v : Feeds(w, v, e) /\ IF ResetNeeded(w, e, more) THEN Resets(v, r) ELSE r = v
  BY <1>5, DoFireFeeds
<1> HIDE DEF r
<1>7. IsWorld(v) /\ Listable(v)
  BY <1>5, <1>6 DEF Feeds, Lasts
<1>8. IsWorld(r) /\ Listable(r)
  BY <1>6, <1>7 DEF Resets, Listable
<1>9. Sound(Forget(r)) /\ Alike(r, AsWorld(Forget(r)))
  BY <1>8, ForgetSound
<1>10. Occurs(kext, Forget(r), e, dev, n, more)
  BY <1>2, <1>4, <1>6, <1>9 DEF Occurs
<1> QED
  BY <1>1, <1>10 DEF n

\* The steps of the specification, by what they may do.
QuietStep == held' = held /\ Sound(kext') /\ Quiet(AsWorld(kext), AsWorld(kext'))

EventStep(e, dev, more) == Occurs(kext, kext', e, dev, Cardinality(Counted(held')), more)

Down(k) == [code |-> k.code, type |-> "DOWN"]
Up(k) == [code |-> k.code, type |-> "UP"]
Moved(t) == [code |-> Code(t, "none"), type |-> "NONE"]

Effect ==
    \/ QuietStep
    \/ \E k \in Configuration.keys : \E more : k \notin held /\ held' = held \cup {k} /\ more = FALSE /\ EventStep(Down(k), k.dev, more)
    \/ \E k \in Configuration.keys : \E more : k \in held /\ held' = held \ {k} /\ EventStep(Up(k), k.dev, more)
    \/ \E t \in {"scroll", "move"} : \E more : held' = held /\ EventStep(Moved(t), "mouse", more)

\* A press and a release are events.
LEMMA KeyIsEvent ==
    ASSUME conf \in DOMAIN Configurations, NEW k \in Configuration.keys
    PROVE  IsEvent(Down(k)) /\ IsEvent(Up(k))
BY DEF IsEvent, Down, Up, KeysOf, Configuration

\* Every action but that of an event counts nothing.
LEMMA QuietActions ==
    ASSUME conf \in DOMAIN Configurations, Sound(kext)
    PROVE  /\ DelayedAction => QuietStep
           /\ PeriodTimer => QuietStep
           /\ Repeat => QuietStep
           /\ RefreshTimer => QuietStep
           /\ \A c : SetConfigOne(c) => QuietStep
           /\ \A p : SetWorkspace(p) => QuietStep
<1> DEFINE w == AsWorld(kext)
<1>1. World = w /\ IsWorld(w) /\ Listable(w) /\ w.ktk = kext.ktk /\ w.dpp = kext.dpp
  BY WorldOfKext, AsWorldFields DEF Sound
<1>2. ASSUME DelayedAction
      PROVE  QuietStep
  <2> DEFINE id == kext.ktk.target
             v == DoDelayedAction([w EXCEPT !.ktk.on = FALSE], id, Keys(Items[conf][id[1]].parts[id[2]], "DELAYED"), FALSE)
  <2>1. kext.ktk.on /\ held' = held /\ kext' = Forget(v)
    BY <1>1, <1>2 DEF DelayedAction
  <2> HIDE DEF w
  <2>2. Quiet(w, v)
    BY <1>1, <2>1, DelayedActionQuiet
  <2> HIDE DEF v
  <2> QED BY <1>1, <2>1, <2>2, QuietForget DEF QuietStep, w
<1>3. ASSUME PeriodTimer
      PROVE  QuietStep
  <2> DEFINE v == FireTimer([w EXCEPT !.dpp.on = FALSE])
  <2>1. kext.dpp.on /\ held' = held /\ kext' = Forget(v)
    BY <1>1, <1>3 DEF PeriodTimer
  <2> HIDE DEF w
  <2>2. Quiet(w, v)
    BY <1>1, <2>1, PeriodTimerQuiet
  <2> HIDE DEF v
  <2> QED BY <1>1, <2>1, <2>2, QuietForget DEF QuietStep, w
<1>4. ASSUME Repeat
      PROVE  QuietStep
  <2> DEFINE v == FireRepeat(w)
  <2>1. held' = held /\ kext' = Forget(v)
    BY <1>1, <1>4 DEF Repeat
  <2> HIDE DEF w
  <2>2. Quiet(w, v)
    BY <1>1, RepeatQuiet
  <2> HIDE DEF v
  <2> QED BY <1>1, <2>1, <2>2, QuietForget DEF QuietStep, w
<1>5. ASSUME RefreshTimer
      PROVE  QuietStep
  <2> DEFINE v == Refresh(w)
  <2>1. held' = held /\ kext' = Forget(v)
    BY <1>1, <1>5 DEF RefreshTimer
  <2> HIDE DEF w
  <2>2. Quiet(w, v)
    BY <1>1, RefreshQuiet
  <2> HIDE DEF v
  <2> QED BY <1>1, <2>1, <2>2, QuietForget DEF QuietStep, w
<1>6. ASSUME NEW c, SetConfigOne(c)
      PROVE  QuietStep
  <2> DEFINE x == IF c \in kext.enabled THEN kext.enabled \ {c} ELSE kext.enabled \cup {c}
  <2>1. held' = held /\ kext' = [kext EXCEPT !.enabled = x, !.refresh = TRUE]
    BY <1>6 DEF SetConfigOne
  <2> DEFINE y == TRUE
  <2> HIDE DEF w, x, y
  <2>2. Sound([kext EXCEPT !.enabled = x, !.refresh = y]) /\ Quiet(w, AsWorld([kext EXCEPT !.enabled = x, !.refresh = y]))
    BY SettingQuiet DEF w
  <2>3. kext' = [kext EXCEPT !.enabled = x, !.refresh = y]
    BY <2>1 DEF y
  <2> QED BY <2>1, <2>2, <2>3 DEF QuietStep, w
<1>7. ASSUME NEW p, SetWorkspace(p)
      PROVE  QuietStep
  <2>1. held' = held /\ kext' = [kext EXCEPT !.workspace = p]
    BY <1>7 DEF SetWorkspace
  <2>2. Sound([kext EXCEPT !.workspace = p]) /\ Quiet(w, AsWorld([kext EXCEPT !.workspace = p]))
    BY SettingQuiet
  <2> QED BY <2>1, <2>2 DEF QuietStep
<1> QED
  BY <1>2, <1>3, <1>4, <1>5, <1>6, <1>7

\* Every step of the specification is one of these.
LEMMA NextEffect ==
    ASSUME conf \in DOMAIN Configurations, Sound(kext), Next
    PROVE  Effect /\ conf' = conf
<1>1. ASSUME NEW k \in Configuration.keys, Press(k)
      PROVE  Effect /\ conf' = conf
  <2> DEFINE more == FALSE
  <2> HIDE DEF more
  <2>1. PICK late, elapsed : Fires(Down(k), k.dev, late, elapsed, more, held \cup {k})
    BY <1>1 DEF Press, Down, more
  <2>2. k \notin held /\ IsEvent(Down(k)) /\ more = FALSE
    BY <1>1, KeyIsEvent DEF Press, more
  <2>3. Occurs(kext, kext', Down(k), k.dev, Cardinality(Counted(held \cup {k})), more) /\ held' = held \cup {k} /\ conf' = conf
    BY <2>1, <2>2, FiresOccurs
  <2>4. EventStep(Down(k), k.dev, more)
    BY <2>3 DEF EventStep, Counted
  <2> QED BY <2>2, <2>3, <2>4 DEF Effect
<1>2. ASSUME NEW k \in Configuration.keys, Release(k)
      PROVE  Effect /\ conf' = conf
  <2>1. PICK late, elapsed, more : Fires(Up(k), k.dev, late, elapsed, more, held \ {k})
    BY <1>2 DEF Release, Up
  <2>2. k \in held /\ IsEvent(Up(k))
    BY <1>2, KeyIsEvent DEF Release
  <2>3. Occurs(kext, kext', Up(k), k.dev, Cardinality(Counted(held \ {k})), more) /\ held' = held \ {k} /\ conf' = conf
    BY <2>1, <2>2, FiresOccurs
  <2>4. EventStep(Up(k), k.dev, more)
    BY <2>3 DEF EventStep, Counted
  <2> QED BY <2>2, <2>3, <2>4 DEF Effect
<1>3. ASSUME NEW t \in {"scroll", "move"}, Pointing(t)
      PROVE  Effect /\ conf' = conf
  <2> DEFINE more == FALSE
  <2> HIDE DEF more
  <2>1. Fires(Moved(t), "mouse", more, 0, more, held)
    BY <1>3 DEF Pointing, Moved, more
  <2>2. IsEvent(Moved(t))
    BY DEF IsEvent, Moved
  <2>3. Occurs(kext, kext', Moved(t), "mouse", Cardinality(Counted(held)), more) /\ held' = held /\ conf' = conf
    BY <2>1, <2>2, FiresOccurs
  <2>4. EventStep(Moved(t), "mouse", more)
    BY <2>3 DEF EventStep, Counted
  <2> QED BY <2>3, <2>4 DEF Effect
<1>4. ASSUME QuietStep PROVE Effect
  BY <1>4 DEF Effect
<1>5. conf' = conf
  BY <1>1, <1>2, <1>3
     DEF Next, DelayedAction, PeriodTimer, Repeat, RefreshTimer, SetConfigOne, SetWorkspace
<1> QED
  BY <1>1, <1>2, <1>3, <1>4, <1>5, QuietActions DEF Next

-----------------------------------------------------------------------------
(* The types of the state *)

\* The configuration never changes, and what is said of it stays true.
LEMMA SameConfiguration ==
    ASSUME conf' = conf
    PROVE  /\ Ids(conf)' = Ids(conf) /\ PartIds' = PartIds /\ Periodic' = Periodic /\ DownUps' = DownUps
           /\ \A k : AsWorld(k)' = AsWorld(k)
           /\ Configuration' = Configuration
BY DEF Ids, PartIds, Periodic, DownUps, AsWorld, Configuration

\* ... of a world ...
LEMMA SameWorlds ==
    ASSUME conf' = conf
    PROVE  \A w : (IsWorld(w)' <=> IsWorld(w)) /\ (Listable(w)' <=> Listable(w)) /\ (Tidy(w)' <=> Tidy(w))
<1>1. \A w : OutputType(w)' <=> OutputType(w)
  BY DEF OutputType
<1>2. \A w : FunctionType(w)' <=> FunctionType(w)
  BY SameConfiguration DEF FunctionType
<1>3. \A w : IsWorld(w)' <=> IsWorld(w)
  BY <1>1, <1>2 DEF IsWorld
<1>4. \A w : Listable(w)' <=> Listable(w)
  BY SameConfiguration DEF Listable
<1>5. \A w : Tidy(w)' <=> Tidy(w)
  BY SameConfiguration DEF Tidy
<1> QED
  BY <1>3, <1>4, <1>5

\* ... and of the kext.
LEMMA SameSound ==
    ASSUME conf' = conf
    PROVE  \A k : Sound(k)' <=> Sound(k)
<1>1. \A k : AsWorld(k)' = AsWorld(k)
  BY SameConfiguration
<1> QED
  BY <1>1, SameWorlds DEF Sound

TypeInv == conf \in DOMAIN Configurations /\ held \subseteq Configuration.keys /\ Sound(kext)

\* The kext starts sound.
LEMMA NewKextSound ==
    ASSUME conf \in DOMAIN Configurations
    PROVE  Sound(NewKext(conf))
<1> DEFINE k == NewKext(conf)
           v == AsWorld(k)
<1>1. /\ k = [x \in Fields |-> k[x]] /\ k.remapped = FALSE /\ k.drop = FALSE
      /\ k.fs = InitFlagStatus /\ k.bs = InitButtonStatus
      /\ k.out = [flags |-> {}, ignoreUp |-> FALSE, buttons |-> {}, down |-> <<>>]
      /\ k.rep = [on |-> FALSE, q |-> <<>>, mine |-> {}]
      /\ k.pressing = [id \in Ids(conf) |-> 0] /\ k.active = [i \in DOMAIN Items[conf] |-> 0]
      /\ k.ktk = NoDelayedAction /\ k.dpp = [target |-> 0, on |-> FALSE]
      /\ k.st = [i \in DOMAIN Items[conf] |-> NewState] /\ k.prep = <<>>
  BY DEF NewKext, Fields
<1> HIDE DEF k
<1>2. /\ v = [x \in Fields |-> v[x]]
      /\ v.fs = k.fs /\ v.bs = k.bs /\ v.out = k.out /\ v.pressing = k.pressing
      /\ v.active = k.active /\ v.prep = k.prep
      /\ v.items = Items[conf] /\ v.ktk = k.ktk /\ v.dpp = k.dpp /\ v.rep = k.rep /\ v.st = k.st
  BY <1>1, AsWorldFields
<1> HIDE DEF v
<1>3. InitFlagStatus \in FlagStatuses /\ InitButtonStatus \in [Buttons -> Int]
  BY DEF InitFlagStatus, FlagStatuses, FlagItem, FlagItems, InitButtonStatus
<1>4. v.out = [x \in {"flags", "ignoreUp", "buttons", "down"} |-> v.out[x]]
      /\ v.out.flags \in SUBSET Flags /\ v.out.buttons \in SUBSET Buttons /\ v.out.ignoreUp \in BOOLEAN
  <2>1. v.out = [flags |-> {}, ignoreUp |-> FALSE, buttons |-> {}, down |-> <<>>]
    BY <1>1, <1>2
  <2>2. v.out = [x \in {"flags", "ignoreUp", "buttons", "down"} |-> v.out[x]]
    BY <2>1
  <2>3. v.out.flags = {} /\ v.out.buttons = {} /\ v.out.ignoreUp = FALSE
    BY <2>1
  <2> QED BY <2>2, <2>3
<1>5. v.rep = [x \in {"on", "q", "mine"} |-> v.rep[x]] /\ v.rep.q = <<>>
  BY <1>1, <1>2
<1>6. v.rep.q \in Seq(Entries) /\ Repeatable(v.rep.q)
  BY <1>5, EmptyPaired DEF Repeatable
<1>7. OutputType(v)
  BY <1>1, <1>2, <1>3, <1>4, <1>5, <1>6 DEF OutputType
<1>8. v.ktk = [x \in {"target", "on", "saved"} |-> v.ktk[x]] /\ v.ktk.saved \in [Flags -> Int] /\ v.ktk.on = FALSE
  <2>1. v.ktk = [target |-> <<>>, on |-> FALSE, saved |-> [f \in Flags |-> 0]]
    BY <1>1, <1>2 DEF NoDelayedAction
  <2>2. v.ktk.on = FALSE /\ v.ktk.saved \in [Flags -> Int]
    BY <2>1
  <2>3. v.ktk = [x \in {"target", "on", "saved"} |-> v.ktk[x]]
    BY <2>1
  <2> QED BY <2>2, <2>3
<1>9. v.dpp = [x \in {"target", "on"} |-> v.dpp[x]] /\ v.dpp.target = 0 /\ v.dpp.on = FALSE
  BY <1>1, <1>2
<1>10. NewState \in States
  BY DEF NewState, States
<1>11. v.st \in [DOMAIN Items[conf] -> States]
  BY <1>1, <1>2, <1>10
<1>12. v.pressing \in [Ids(conf) -> Nat] /\ v.active \in [DOMAIN Items[conf] -> Nat] /\ v.prep \in Seq(Ids(conf))
  <2>1. v.pressing = [id \in Ids(conf) |-> 0] /\ v.active = [i \in DOMAIN Items[conf] |-> 0] /\ v.prep = <<>>
    BY <1>1, <1>2
  <2>2. v.pressing \in [Ids(conf) -> Nat] /\ v.active \in [DOMAIN Items[conf] -> Nat]
    BY <2>1
  <2>3. <<>> \in Seq(Ids(conf))
    OBVIOUS
  <2> QED BY <2>1, <2>2, <2>3
<1>13. FunctionType(v)
  BY <1>2, <1>8, <1>9, <1>11, <1>12 DEF FunctionType
<1>14. Listable(v)
  BY <1>1, <1>2 DEF Listable, Listed
<1> QED
  BY <1>1, <1>6, <1>7, <1>13, <1>14 DEF Sound, IsWorld, v, k

\* Each step leaves the kext sound.
LEMMA EffectSound ==
    ASSUME TypeInv, Effect
    PROVE  Sound(kext') /\ held' \subseteq Configuration.keys
<1>1. CASE QuietStep
  BY <1>1 DEF QuietStep, TypeInv
<1>2. CASE \E k \in Configuration.keys : \E more : k \notin held /\ held' = held \cup {k} /\ more = FALSE /\ EventStep(Down(k), k.dev, more)
  BY <1>2 DEF EventStep, Occurs, TypeInv
<1>3. CASE \E k \in Configuration.keys : \E more : k \in held /\ held' = held \ {k} /\ EventStep(Up(k), k.dev, more)
  BY <1>3 DEF EventStep, Occurs, TypeInv
<1>4. CASE \E t \in {"scroll", "move"} : \E more : held' = held /\ EventStep(Moved(t), "mouse", more)
  BY <1>4 DEF EventStep, Occurs, TypeInv
<1> QED
  BY <1>1, <1>2, <1>3, <1>4 DEF Effect

\* The invariant of the types holds at first ...
LEMMA TypeInvInit == Init => TypeInv
<1> SUFFICES ASSUME Init PROVE TypeInv
  OBVIOUS
<1>1. conf \in DOMAIN Configurations /\ held = {} /\ kext = NewKext(conf)
  BY DEF Init
<1> QED
  BY <1>1, NewKextSound DEF TypeInv

\* ... and each step keeps it, whatever the world did within the step.
LEMMA TypeInvNext == TypeInv /\ [Next]_vars => TypeInv'
<1> SUFFICES ASSUME TypeInv, [Next]_vars PROVE TypeInv'
  OBVIOUS
<1>1. CASE Next
  <2>1. Effect /\ conf' = conf
    BY <1>1, NextEffect DEF TypeInv
  <2>2. Sound(kext') /\ held' \subseteq Configuration.keys
    BY <2>1, EffectSound
  <2>3. Sound(kext)' /\ Configuration' = Configuration
    BY <2>1, <2>2, SameSound, SameConfiguration
  <2> QED BY <2>1, <2>2, <2>3 DEF TypeInv
<1>2. CASE UNCHANGED vars
  <2>1. conf' = conf /\ held' = held /\ kext' = kext
    BY <1>2 DEF vars
  <2>2. Sound(kext)' /\ Configuration' = Configuration
    BY <2>1, SameSound, SameConfiguration DEF TypeInv
  <2> QED BY <2>1, <2>2 DEF TypeInv
<1> QED
  BY <1>1, <1>2

\* The kext is sound in every reachable state: the types, and that only the
\* items that ask for the next event are listed for it. No configuration is
\* excluded.
THEOREM TypeInvariant == Spec => []TypeInv
<1> QED
  BY TypeInvInit, TypeInvNext, PTL DEF Spec

\* What the runs check follows.
LEMMA TypeInvOK == TypeInv => TypeOK
<1> SUFFICES ASSUME TypeInv PROVE TypeOK
  OBVIOUS
<1> DEFINE w == AsWorld(kext)
<1>1. conf \in DOMAIN Configurations /\ held \subseteq Configuration.keys /\ IsWorld(w) /\ kext = [x \in Fields |-> kext[x]]
  BY DEF TypeInv, Sound
<1>2. /\ w.fs = kext.fs /\ w.bs = kext.bs /\ w.out = kext.out /\ w.pressing = kext.pressing
      /\ w.active = kext.active /\ w.prep = kext.prep
      /\ w.ktk = kext.ktk /\ w.dpp = kext.dpp /\ w.st = kext.st
  BY <1>1, AsWorldFields
<1> HIDE DEF w
<1>3. kext.fs \in [Flags -> FlagItems] /\ kext.bs \in [Buttons -> Int]
      /\ kext.out.flags \subseteq Flags /\ kext.out.buttons \subseteq Buttons /\ kext.out.ignoreUp \in BOOLEAN
  BY <1>1, <1>2 DEF IsWorld, OutputType, FlagStatuses
<1>4. /\ kext.pressing \in [Ids(conf) -> Nat] /\ kext.active \in [DOMAIN Items[conf] -> Nat] /\ kext.prep \in Seq(Ids(conf))
      /\ kext.ktk.on => kext.ktk.target \in PartIds
      /\ kext.dpp.on => kext.dpp.target \in Periodic
      /\ kext.st \in [DOMAIN Items[conf] -> States]
  BY <1>1, <1>2 DEF IsWorld, FunctionType
<1>5. \A i \in DOMAIN kext.prep : kext.prep[i] \in Ids(conf)
  BY <1>4
<1>6. (kext.ktk.on => kext.ktk.target \in Ids(conf)) /\ (kext.dpp.on => kext.dpp.target \in DOMAIN Items[conf])
  BY <1>4 DEF PartIds, Periodic
<1>7. \A i \in DOMAIN kext.st : kext.st[i].period \in {"NONE"} \cup PeriodParts /\ kext.st[i].pressCount \in 0 .. 2
  BY <1>4 DEF States, PeriodParts
<1> QED
  BY <1>1, <1>3, <1>4, <1>5, <1>6, <1>7 DEF TypeOK

\* The fields of the state never leave their types, whatever the keys, the
\* timers, the classes that are switched and the remap functions do.
THEOREM TypesKept == Spec => []TypeOK
<1> QED
  BY TypeInvariant, TypeInvOK, PTL

-----------------------------------------------------------------------------
(* Keys that are held and overlaid keys that are pressed *)

\* Every overlaid key of the configuration is a key of its own: no other item
\* takes the events of this key, which the keyboard reports as pressed.
Sole(c) ==
    \A i \in DOMAIN Items[c] : Items[c][i].type \in {"KEYOVERLAIDMODIFIER", "HOLDINGKEYTOKEY"} =>
       /\ \A j \in DOMAIN Items[c] : j # i => Items[c][j].from # Items[c][i].from
       /\ Items[c][i].from # Code("mod", CAPSLOCK)

\* The keys of S whose events are for item i.
Claims(i, S) == {k \in S : k.code = Items[conf][i].from /\ ~DeviceBlocks(i, k.dev)}

\* An overlaid key is pressed as often as it is counted in ActiveItems, by keys
\* that are held, and its class stays loaded until the release.
Balanced(w, S) ==
    \A i \in Periodic :
       /\ w.active[i] = w.pressing[<<i, "ITEM">>]
       /\ w.active[i] <= Cardinality(Claims(i, S))
       /\ w.active[i] > 0 => Items[conf][i].class \in w.loaded

\* An overlaid key that has an item of its own.
LEMMA SoleLone ==
    ASSUME Sole(conf), NEW i, i \in Periodic
    PROVE  Lone(i) /\ Items[conf][i].from # Code("mod", CAPSLOCK)
BY DEF Sole, Lone, Periodic

\* The keys that are held are finitely many.
LEMMA HeldFinite ==
    ASSUME conf \in DOMAIN Configurations, NEW S, S \subseteq Configuration.keys
    PROVE  IsFiniteSet(S)
BY KeysAssumption, FS_Subset DEF Configuration

\* A key more or less among those that are chosen.
LEMMA ChosenChange ==
    ASSUME NEW S, IsFiniteSet(S), NEW k, NEW T, T \subseteq S \cup {k}
    PROVE  /\ IsFiniteSet(T) /\ Cardinality(T) \in Nat
           /\ k \notin T => Cardinality(T \cup {k}) = Cardinality(T) + 1
           /\ k \in T => Cardinality(T \ {k}) = Cardinality(T) - 1
<1>1. IsFiniteSet(S \cup {k})
  BY FS_AddElement
<1>2. IsFiniteSet(T)
  BY <1>1, FS_Subset
<1> QED
  BY <1>2, FS_CardinalityType, FS_AddElement, FS_RemoveElement

\* The reset comes when nothing is held that an overlaid key could be pressed by.
LEMMA NothingClaimed ==
    ASSUME Sole(conf), NEW i, i \in Periodic, NEW S, Counted(S) = {}
    PROVE  Claims(i, S) = {}
BY SoleLone DEF Claims, Counted

\* ... so none of them is.
LEMMA NothingPressed ==
    ASSUME Sole(conf), NEW w, IsWorld(w), NEW S, Counted(S) = {}, Balanced(w, S), NEW i, i \in Periodic
    PROVE  w.active[i] = 0 /\ w.pressing[<<i, "ITEM">>] = 0
<1>1. Cardinality(Claims(i, S)) = 0
  BY NothingClaimed, FS_EmptySet
<1>2. w.active[i] \in Nat
  BY DEF IsWorld, FunctionType, Periodic
<1>3. w.active[i] <= 0 /\ w.active[i] = w.pressing[<<i, "ITEM">>]
  BY <1>1 DEF Balanced
<1> QED
  BY <1>2, <1>3

\* A step that counts nothing presses nothing.
LEMMA QuietBalanced ==
    ASSUME NEW w, NEW v, Quiet(w, v), NEW S, Balanced(w, S)
    PROVE  Balanced(v, S)
BY DEF Quiet, Balanced, SameKeys, SamePeriodKeys

\* A key is pressed.
LEMMA DownBalanced ==
    ASSUME conf \in DOMAIN Configurations, NEW w, IsWorld(w), NEW v, NEW S, IsFiniteSet(S), Balanced(w, S),
           NEW k, k \notin S, w.device = k.dev, Feeds(w, v, Down(k))
    PROVE  Balanced(v, S \cup {k})
<1> SUFFICES ASSUME NEW i \in Periodic
             PROVE  /\ v.active[i] = v.pressing[<<i, "ITEM">>]
                    /\ v.active[i] <= Cardinality(Claims(i, S \cup {k}))
                    /\ v.active[i] > 0 => Items[conf][i].class \in v.loaded
  BY DEF Balanced
<1>1. /\ w.active[i] = w.pressing[<<i, "ITEM">>] /\ w.active[i] <= Cardinality(Claims(i, S))
      /\ w.active[i] > 0 => Items[conf][i].class \in w.loaded
  BY DEF Balanced
<1>2. w.active[i] \in Nat
  BY DEF IsWorld, FunctionType, Periodic
<1>3. v.loaded = w.loaded
  BY DEF Feeds, Lasts, Kept
<1> DEFINE T == Claims(i, S)
           U == Claims(i, S \cup {k})
           c == Cardinality(T)
           d == Cardinality(U)
<1>4. IsFiniteSet(T) /\ c \in Nat /\ k \notin T /\ Cardinality(T \cup {k}) = c + 1
  <2>1. T \subseteq S \cup {k} /\ k \notin T
    BY DEF Claims
  <2> HIDE DEF T
  <2> QED BY <2>1, ChosenChange
<1>5. U = IF k.code = Items[conf][i].from /\ ~DeviceBlocks(i, k.dev) THEN T \cup {k} ELSE T
  BY DEF Claims
<1>6. c <= d /\ d \in Nat /\ (k.code = Items[conf][i].from /\ ~DeviceBlocks(i, k.dev) => d = c + 1)
  <2> HIDE DEF T, U
  <2> QED BY <1>4, <1>5
<1> HIDE DEF T, U, c, d
<1>7. SameKey(w, v, i) \/ Took(w, v, i, Down(k))
  BY DEF Feeds
<1>8. v.active[i] = v.pressing[<<i, "ITEM">>] /\ v.active[i] <= d /\ (v.active[i] > 0 => Items[conf][i].class \in v.loaded)
  <2>0. w.active[i] <= c
    BY <1>1 DEF c, T
  <2>1. CASE SameKey(w, v, i)
    BY <1>1, <1>2, <1>3, <1>4, <1>6, <2>0, <2>1 DEF SameKey
  <2>2. CASE Took(w, v, i, Down(k))
    <3>1. /\ k.code = Items[conf][i].from /\ ~DeviceBlocks(i, k.dev) /\ Items[conf][i].class \in w.loaded
          /\ v.active[i] = w.active[i] + 1 /\ v.pressing[<<i, "ITEM">>] = w.pressing[<<i, "ITEM">>] + 1
      BY <2>2 DEF Took, Down
    <3> QED BY <1>1, <1>2, <1>3, <1>4, <1>6, <2>0, <3>1
  <2> QED BY <1>7, <2>1, <2>2
<1> QED
  BY <1>8 DEF d, U

\* A key is released.
LEMMA UpBalanced ==
    ASSUME conf \in DOMAIN Configurations, Sole(conf), NEW w, IsWorld(w), NEW v, IsWorld(v), NEW S, IsFiniteSet(S), Balanced(w, S),
           NEW k, k \in S, k \in Configuration.keys, w.device = k.dev, w.remapped = FALSE, Feeds(w, v, Up(k))
    PROVE  Balanced(v, S \ {k})
<1> SUFFICES ASSUME NEW i \in Periodic
             PROVE  /\ v.active[i] = v.pressing[<<i, "ITEM">>]
                    /\ v.active[i] <= Cardinality(Claims(i, S \ {k}))
                    /\ v.active[i] > 0 => Items[conf][i].class \in v.loaded
  BY DEF Balanced
<1>1. /\ w.active[i] = w.pressing[<<i, "ITEM">>] /\ w.active[i] <= Cardinality(Claims(i, S))
      /\ w.active[i] > 0 => Items[conf][i].class \in w.loaded
  BY DEF Balanced
<1>2. w.active[i] \in Nat /\ v.active[i] \in Nat
  BY DEF IsWorld, FunctionType, Periodic
<1>3. v.loaded = w.loaded
  BY DEF Feeds, Lasts, Kept
<1> DEFINE T == Claims(i, S)
           U == Claims(i, S \ {k})
           c == Cardinality(T)
           d == Cardinality(U)
           mine == k.code = Items[conf][i].from /\ ~DeviceBlocks(i, k.dev)
<1>4. IsFiniteSet(T) /\ c \in Nat /\ (k \in T => Cardinality(T \ {k}) = c - 1)
  <2>1. T \subseteq S
    BY DEF Claims
  <2> HIDE DEF T
  <2>2. IsFiniteSet(T)
    BY <2>1, FS_Subset
  <2> QED BY <2>2, FS_CardinalityType, FS_RemoveElement
<1>5. (k \in T <=> mine) /\ U = T \ {k}
  BY DEF Claims
<1>6. (mine => d = c - 1) /\ (~mine => d = c)
  <2> HIDE DEF T, U, mine
  <2>1. ~mine => U = T
    BY <1>5
  <2> QED BY <1>4, <1>5, <2>1
<1>7. SameKey(w, v, i) \/ Took(w, v, i, Up(k))
  BY DEF Feeds
<1>8. Took(w, v, i, Up(k)) =>
         /\ mine /\ Items[conf][i].class \in w.loaded
         /\ v.active[i] = w.active[i] - 1 /\ v.pressing[<<i, "ITEM">>] = w.pressing[<<i, "ITEM">>] - 1
  BY <1>1, <1>2 DEF Took, Up
<1>9. mine /\ w.active[i] > 0 => Took(w, v, i, Up(k))
  <2> SUFFICES ASSUME mine, w.active[i] > 0 PROVE Took(w, v, i, Up(k))
    OBVIOUS
  <2>1. Lone(i)
    BY SoleLone
  <2>2. Undropped(Up(k))
    <3>1. k.code.t # "scroll"
      BY KeysAssumption DEF Configuration
    <3>2. \A j \in DownUps : j # i /\ j \in DOMAIN Items[conf]
      BY DEF DownUps, Periodic
    <3> QED BY <2>1, <3>1, <3>2 DEF Undropped, Up, Lone
  <2>3. MustTake(w, i, Up(k))
    BY <1>1, <2>1 DEF MustTake, Up
  <2> QED BY <2>2, <2>3 DEF Feeds
<1>10. w.active[i] <= c
  BY <1>1
<1> HIDE DEF T, U, c, d, mine
<1>11. v.active[i] = v.pressing[<<i, "ITEM">>] /\ v.active[i] <= d /\ (v.active[i] > 0 => Items[conf][i].class \in v.loaded)
  <2>1. CASE Took(w, v, i, Up(k))
    BY <1>1, <1>2, <1>3, <1>4, <1>6, <1>8, <1>10, <2>1
  <2>2. CASE ~Took(w, v, i, Up(k))
    <3>1. SameKey(w, v, i) /\ (~mine \/ w.active[i] = 0)
      BY <1>2, <1>7, <1>9, <2>2
    <3>2. v.active[i] = w.active[i] /\ v.pressing[<<i, "ITEM">>] = w.pressing[<<i, "ITEM">>]
      BY <3>1 DEF SameKey
    <3>3. d \in Nat
      <4>1. IsFiniteSet(U)
        BY <1>4, <1>5, FS_Subset
      <4> QED BY <4>1, FS_CardinalityType DEF d
    <3> QED BY <1>1, <1>2, <1>3, <1>4, <1>6, <1>10, <3>1, <3>2, <3>3
  <2> QED BY <2>1, <2>2
<1> QED
  BY <1>11 DEF d, U

\* The wheel or the cursor.
LEMMA MovedBalanced ==
    ASSUME NEW w, NEW v, NEW S, Balanced(w, S), NEW t, Feeds(w, v, Moved(t))
    PROVE  Balanced(v, S)
<1>1. \A i \in Periodic : SameKey(w, v, i)
  BY DEF Feeds, Took, Moved
<1>2. v.loaded = w.loaded
  BY DEF Feeds, Lasts, Kept
<1> QED
  BY <1>1, <1>2 DEF Balanced, SameKey

-----------------------------------------------------------------------------
(* Nothing is left of an overlaid key once all keys are up *)

Settles(w, S) == Tidy(w) /\ Balanced(w, S)

\* No key counts.
LEMMA NothingCounted ==
    ASSUME conf \in DOMAIN Configurations, NEW S, S \subseteq Configuration.keys, Cardinality(Counted(S)) = 0
    PROVE  Counted(S) = {}
<1>1. IsFiniteSet(Counted(S))
  BY HeldFinite, FS_Subset DEF Counted
<1> QED
  BY <1>1, FS_EmptySet

\* How many keys may have pressed an item.
LEMMA ClaimsCount ==
    ASSUME conf \in DOMAIN Configurations, NEW S, S \subseteq Configuration.keys, NEW i
    PROVE  Cardinality(Claims(i, S)) \in Nat
<1>1. IsFiniteSet(Claims(i, S))
  BY HeldFinite, FS_Subset DEF Claims
<1> QED
  BY <1>1, FS_CardinalityType

\* A step that counts nothing settles what was settled.
LEMMA QuietSettles ==
    ASSUME NEW w, NEW v, Quiet(w, v), NEW S, Settles(w, S)
    PROVE  Settles(v, S)
BY QuietBalanced DEF Settles, Quiet

\* The reset finds nothing to be left behind: the keys that are overlaid are up.
LEMMA ResetSettles ==
    ASSUME conf \in DOMAIN Configurations, Sole(conf), NEW w, IsWorld(w), NEW v, Resets(w, v),
           NEW S, S \subseteq Configuration.keys, Counted(S) = {}, Settles(w, S)
    PROVE  Settles(v, S)
<1>1. \A i \in Periodic : w.pressing[<<i, "ITEM">>] = 0
  BY NothingPressed DEF Settles
<1>2. \A i \in Periodic : ~w.st[i].active /\ ~w.st[i].decreased /\ w.st[i].period = "NONE" /\ ~Listed(w.prep, <<i, "ITEM">>)
  <2>1. ~(0 > 0)
    OBVIOUS
  <2> QED BY <1>1, <2>1 DEF Settles, Tidy
<1>3. ~w.dpp.on
  <2>1. w.dpp.on => w.dpp.target \in Periodic /\ w.st[w.dpp.target].active
    BY DEF Settles, Tidy, IsWorld, FunctionType, Periodic
  <2> QED BY <1>2, <2>1
<1>4. /\ \A i \in Periodic : ~v.st[i].active /\ ~v.st[i].decreased /\ v.st[i].period = "NONE" /\ ~Listed(v.prep, <<i, "ITEM">>)
      /\ ~v.dpp.on
  BY <1>2, <1>3 DEF Resets, SameModes, Periodic
<1>5. Tidy(v)
  BY <1>4 DEF Tidy
<1>6. ASSUME NEW i \in Periodic
      PROVE  v.active[i] = v.pressing[<<i, "ITEM">>] /\ v.active[i] = 0
  <2>1. i \in DOMAIN Items[conf] /\ <<i, "ITEM">> \in Ids(conf)
    BY DEF Periodic, Ids
  <2> QED BY <2>1 DEF Resets, AllUp
<1>7. ASSUME NEW i \in Periodic
      PROVE  /\ v.active[i] = v.pressing[<<i, "ITEM">>]
             /\ v.active[i] <= Cardinality(Claims(i, S))
             /\ v.active[i] > 0 => Items[conf][i].class \in v.loaded
  <2>1. Cardinality(Claims(i, S)) \in Nat
    BY ClaimsCount
  <2> QED BY <1>6, <2>1
<1>8. Balanced(v, S)
  BY <1>7 DEF Balanced
<1> QED
  BY <1>5, <1>8 DEF Settles

\* An event, of which only the change of the counts is assumed.
LEMMA EventSettles ==
    ASSUME conf \in DOMAIN Configurations, Sole(conf), NEW k, Sound(k), NEW l, NEW S, Settles(AsWorld(k), S),
           NEW T, T \subseteq Configuration.keys, NEW e, NEW dev, NEW more,
           Occurs(k, l, e, dev, Cardinality(Counted(T)), more),
           \A w, v : /\ IsWorld(w) /\ IsWorld(v) /\ Balanced(w, S)
                     /\ w.device = dev /\ w.remapped = FALSE /\ Feeds(w, v, e)
                     => Balanced(v, T)
    PROVE  Settles(AsWorld(l), T)
<1>1. PICK w, v, r :
         /\ Alike(AsWorld(k), w) /\ w.device = dev /\ w.keys = Cardinality(Counted(T)) /\ w.remapped = FALSE
         /\ Feeds(w, v, e)
         /\ IF ResetNeeded(w, e, more) THEN Resets(v, r) ELSE r = v
         /\ Alike(r, AsWorld(l))
  BY DEF Occurs
<1>2. IsWorld(w) /\ Settles(w, S)
  <2>1. Quiet(AsWorld(k), w)
    BY <1>1, AlikeQuiet DEF Sound
  <2> QED BY <1>1, <2>1, QuietSettles DEF Alike
<1>3. IsWorld(v) /\ Settles(v, T)
  <2>1. IsWorld(v) /\ Tidy(v)
    BY <1>1, <1>2 DEF Feeds, Lasts, Settles
  <2>2. Balanced(v, T)
    BY <1>1, <1>2, <2>1 DEF Settles
  <2> QED BY <2>1, <2>2 DEF Settles
<1>4. IsWorld(r) /\ Settles(r, T)
  <2>1. CASE ResetNeeded(w, e, more)
    <3>1. Counted(T) = {}
      BY <1>1, <2>1, NothingCounted DEF ResetNeeded
    <3>2. Resets(v, r)
      BY <1>1, <2>1
    <3>3. Settles(r, T)
      BY <1>3, <3>1, <3>2, ResetSettles
    <3> QED BY <3>2, <3>3 DEF Resets
  <2>2. CASE ~ResetNeeded(w, e, more)
    BY <1>1, <1>3, <2>2
  <2> QED BY <2>1, <2>2
<1>5. Quiet(r, AsWorld(l))
  BY <1>1, <1>4, AlikeQuiet
<1> QED
  BY <1>4, <1>5, QuietSettles

\* Each step keeps the periods in order and the pressed items among the held
\* keys.
LEMMA EffectSettles ==
    ASSUME TypeInv, Effect, Sole(conf), Settles(AsWorld(kext), held)
    PROVE  Settles(AsWorld(kext'), held')
<1>0. conf \in DOMAIN Configurations /\ held \subseteq Configuration.keys /\ Sound(kext) /\ IsFiniteSet(held)
  BY HeldFinite DEF TypeInv
<1>1. CASE QuietStep
  BY <1>1, QuietSettles DEF QuietStep
<1>2. ASSUME NEW k \in Configuration.keys, NEW more, k \notin held, held' = held \cup {k}, EventStep(Down(k), k.dev, more)
      PROVE  Settles(AsWorld(kext'), held')
  <2>1. \A w, v : /\ IsWorld(w) /\ IsWorld(v) /\ Balanced(w, held)
                  /\ w.device = k.dev /\ w.remapped = FALSE /\ Feeds(w, v, Down(k))
                  => Balanced(v, held')
    BY <1>0, <1>2, DownBalanced
  <2>2. held' \subseteq Configuration.keys
    BY <1>0, <1>2
  <2>3. Occurs(kext, kext', Down(k), k.dev, Cardinality(Counted(held')), more)
    BY <1>2 DEF EventStep
  <2> QED BY <1>0, <2>1, <2>2, <2>3, EventSettles
<1>3. ASSUME NEW k \in Configuration.keys, NEW more, k \in held, held' = held \ {k}, EventStep(Up(k), k.dev, more)
      PROVE  Settles(AsWorld(kext'), held')
  <2>1. \A w, v : /\ IsWorld(w) /\ IsWorld(v) /\ Balanced(w, held)
                  /\ w.device = k.dev /\ w.remapped = FALSE /\ Feeds(w, v, Up(k))
                  => Balanced(v, held')
    BY <1>0, <1>3, UpBalanced
  <2>2. held' \subseteq Configuration.keys
    BY <1>0, <1>3
  <2>3. Occurs(kext, kext', Up(k), k.dev, Cardinality(Counted(held')), more)
    BY <1>3 DEF EventStep
  <2> QED BY <1>0, <2>1, <2>2, <2>3, EventSettles
<1>4. ASSUME NEW t \in {"scroll", "move"}, NEW more, held' = held, EventStep(Moved(t), "mouse", more)
      PROVE  Settles(AsWorld(kext'), held')
  <2>1. \A w, v : Balanced(w, held) /\ Feeds(w, v, Moved(t)) => Balanced(v, held')
    BY <1>4, MovedBalanced
  <2>2. held' \subseteq Configuration.keys
    BY <1>0, <1>4
  <2>3. Occurs(kext, kext', Moved(t), "mouse", Cardinality(Counted(held')), more)
    BY <1>4 DEF EventStep
  <2> QED BY <1>0, <2>1, <2>2, <2>3, EventSettles
<1> QED
  BY <1>1, <1>2, <1>3, <1>4 DEF Effect

\* The configuration never changes, and what is said of it stays true.
LEMMA SameSettles ==
    ASSUME conf' = conf
    PROVE  /\ Sole(conf)' <=> Sole(conf)
           /\ \A k, S : Settles(AsWorld(k), S)' <=> Settles(AsWorld(k), S)
<1>1. \A i, S : Claims(i, S)' = Claims(i, S)
  BY DEF Claims, DeviceBlocks
<1>2. \A w, S : Balanced(w, S)' <=> Balanced(w, S)
  BY <1>1, SameConfiguration DEF Balanced
<1>3. \A w, S : Settles(w, S)' <=> Settles(w, S)
  BY <1>2, SameWorlds DEF Settles
<1>4. Sole(conf)' <=> Sole(conf)
  BY DEF Sole
<1> QED
  BY <1>3, <1>4, SameConfiguration

SettledInv == TypeInv /\ (Sole(conf) => Settles(AsWorld(kext), held))

\* The invariant of the periods holds at first ...
LEMMA SettledInvInit == Init => SettledInv
<1> SUFFICES ASSUME Init PROVE SettledInv
  OBVIOUS
<1>1. TypeInv /\ kext = NewKext(conf) /\ held = {} /\ conf \in DOMAIN Configurations
  BY TypeInvInit DEF Init
<1> DEFINE w == AsWorld(kext)
<1>2. /\ kext.pressing = [id \in Ids(conf) |-> 0] /\ kext.active = [i \in DOMAIN Items[conf] |-> 0]
      /\ kext.dpp = [target |-> 0, on |-> FALSE]
      /\ kext.st = [i \in DOMAIN Items[conf] |-> NewState] /\ kext.prep = <<>>
  BY <1>1 DEF NewKext
<1>3. kext = [x \in Fields |-> kext[x]]
  BY <1>1 DEF TypeInv, Sound
<1>4. w.dpp = kext.dpp /\ w.st = kext.st /\ w.prep = kext.prep /\ w.pressing = kext.pressing /\ w.active = kext.active
  BY <1>3, AsWorldFields
<1> HIDE DEF w
<1>5. ~w.dpp.on /\ \A j : ~Listed(w.prep, <<j, "ITEM">>)
  BY <1>2, <1>4 DEF Listed
<1>6. \A j \in Periodic : ~w.st[j].active /\ ~w.st[j].decreased /\ w.st[j].period = "NONE"
  BY <1>2, <1>4 DEF NewState, Periodic
<1>7. Tidy(w)
  BY <1>5, <1>6 DEF Tidy
<1>8. \A j \in Periodic : w.active[j] = 0 /\ w.pressing[<<j, "ITEM">>] = 0
  BY <1>2, <1>4 DEF Periodic, Ids
<1>9. \A j \in Periodic : Cardinality(Claims(j, held)) \in Nat
  BY <1>1, ClaimsCount DEF TypeInv
<1>10. ASSUME NEW j \in Periodic
       PROVE  /\ w.active[j] = w.pressing[<<j, "ITEM">>]
              /\ w.active[j] <= Cardinality(Claims(j, held))
              /\ w.active[j] > 0 => Items[conf][j].class \in w.loaded
  <2> DEFINE n == Cardinality(Claims(j, held))
  <2>1. n \in Nat
    BY <1>9
  <2>2. w.active[j] = 0
    BY <1>8
  <2> HIDE DEF n
  <2>3. 0 <= n
    BY <2>1
  <2>4. w.active[j] <= n
    BY <2>2, <2>3
  <2> QED
    BY <1>8, <2>4 DEF n
<1>11. Balanced(w, held)
  BY <1>10 DEF Balanced
<1> QED
  BY <1>1, <1>7, <1>11 DEF SettledInv, Settles, w

\* ... and each step keeps it.
LEMMA SettledInvNext == SettledInv /\ [Next]_vars => SettledInv'
<1> SUFFICES ASSUME SettledInv, [Next]_vars PROVE SettledInv'
  OBVIOUS
<1>1. TypeInv'
  BY TypeInvNext DEF SettledInv
<1>2. CASE Next
  <2>1. Effect /\ conf' = conf
    BY <1>2, NextEffect DEF TypeInv, SettledInv
  <2>2. Sole(conf) => Settles(AsWorld(kext'), held')
    BY <2>1, EffectSettles DEF SettledInv
  <2>3. Sole(conf)' => Settles(AsWorld(kext), held)'
    BY <2>1, <2>2, SameSettles
  <2> QED BY <1>1, <2>3 DEF SettledInv
<1>3. CASE UNCHANGED vars
  <2>1. conf' = conf /\ held' = held /\ kext' = kext
    BY <1>3 DEF vars
  <2>2. Sole(conf)' => Settles(AsWorld(kext), held)'
    BY <2>1, SameSettles DEF SettledInv
  <2> QED BY <1>1, <2>2 DEF SettledInv
<1> QED
  BY <1>2, <1>3

\* What the runs check follows: when all is up no item is pressed, so none
\* waits and none is in a period.
LEMMA SettledInvSettled ==
    ASSUME SettledInv, Sole(conf)
    PROVE  PeriodsSettled
<1> SUFFICES ASSUME Counted(held) = {} 
             PROVE  /\ ~kext.dpp.on
                    /\ \A i \in PeriodItems : /\ ~kext.st[i].active /\ kext.st[i].period = "NONE"
                                              /\ ~kext.st[i].decreased
                                              /\ ~Contains(kext.prep, <<i, "ITEM">>)
  BY DEF PeriodsSettled
<1> DEFINE w == AsWorld(kext)
<1>1. IsWorld(w) /\ Settles(w, held) /\ kext = [x \in Fields |-> kext[x]]
  BY DEF SettledInv, TypeInv, Sound
<1>2. w.dpp = kext.dpp /\ w.st = kext.st /\ w.prep = kext.prep
  BY <1>1, AsWorldFields
<1> HIDE DEF w
<1>3. \A i \in Periodic : w.pressing[<<i, "ITEM">>] = 0
  BY <1>1, NothingPressed DEF Settles
<1>4. \A i \in Periodic : ~w.st[i].active /\ ~w.st[i].decreased /\ w.st[i].period = "NONE" /\ ~Listed(w.prep, <<i, "ITEM">>)
  <2>1. ~(0 > 0)
    OBVIOUS
  <2> QED BY <1>1, <1>3, <2>1 DEF Settles, Tidy
<1>5. ~w.dpp.on
  <2>1. w.dpp.on => w.dpp.target \in Periodic /\ w.st[w.dpp.target].active
    BY <1>1 DEF Settles, Tidy, IsWorld, FunctionType, Periodic
  <2> QED BY <1>4, <2>1
<1>6. PeriodItems = Periodic
  <2>1. DOMAIN kext.st = DOMAIN Items[conf]
    BY <1>1, <1>2 DEF IsWorld, FunctionType
  <2> QED BY <2>1 DEF PeriodItems, Periodic
<1>7. \A i : Contains(kext.prep, <<i, "ITEM">>) => Listed(w.prep, <<i, "ITEM">>)
  BY <1>2 DEF Contains, Listed
<1> QED
  BY <1>2, <1>4, <1>5, <1>6, <1>7

\* An overlaid key leaves nothing behind: once all the keys are up, no timer of
\* DependingPressingPeriodKeyToKey runs, no part of it is pressed and prepare
\* has none of its items to call, if every overlaid key has an item of its own.
THEOREM NothingLeftBehind == Spec => [](Sole(conf) => PeriodsSettled)
<1>1. Spec => []SettledInv
  BY SettledInvInit, SettledInvNext, PTL DEF Spec
<1>2. SettledInv => (Sole(conf) => PeriodsSettled)
  BY SettledInvSettled
<1> QED
  BY <1>1, <1>2, PTL

-----------------------------------------------------------------------------
(* The counts follow the keys that are held *)

Times(S, code) == Cardinality({k \in S : k.code = code})

\* What is left of the counts is what the keys of S have added.
Follows(w, S) ==
    /\ \A f \in Countable : CountExcess(w, f) = Times(S, Code("mod", f)) /\ LazyExcess(w, f) = 0
    /\ \A b \in Buttons : ButtonExcess(w, b) = Times(S, Code("button", b))

\* A code that no held key has.
LEMMA TimesNothing ==
    ASSUME NEW S, Counted(S) = {}
    PROVE  /\ \A f \in Countable : Times(S, Code("mod", f)) = 0
           /\ \A b : Times(S, Code("button", b)) = 0
<1>1. \A code : code # Code("mod", CAPSLOCK) => {k \in S : k.code = code} = {}
  BY DEF Counted
<1>2. \A f \in Countable : Code("mod", f) # Code("mod", CAPSLOCK)
  BY DEF Countable, Code
<1>3. \A b : Code("button", b) # Code("mod", CAPSLOCK)
  BY DEF Code
<1> QED
  BY <1>1, <1>2, <1>3, FS_EmptySet DEF Times

\* A key more, or a key less, of a code.
LEMMA TimesChange ==
    ASSUME conf \in DOMAIN Configurations, NEW S, S \subseteq Configuration.keys, NEW k, k \in Configuration.keys, NEW code
    PROVE  /\ Times(S, code) \in Int
           /\ k \notin S => Times(S \cup {k}, code) = Times(S, code) + EventBy(Down(k), code)
           /\ k \in S => Times(S \ {k}, code) = Times(S, code) + EventBy(Up(k), code)
<1> DEFINE T == {x \in S : x.code = code}
           n == Cardinality(T)
           d == EventBy(Down(k), code)
           u == EventBy(Up(k), code)
<1>1. IsFiniteSet(T)
  BY HeldFinite, FS_Subset
<1>2. k.code = code => d = 1 /\ u = -1
  BY DEF EventBy, Down, Up
<1>3. k.code # code => d = 0 /\ u = 0
  BY DEF EventBy, Down, Up
<1>4. k \notin S => k \notin T /\ {x \in S \cup {k} : x.code = code} = IF k.code = code THEN T \cup {k} ELSE T
  OBVIOUS
<1>5. k \in S => (k.code = code <=> k \in T) /\ {x \in S \ {k} : x.code = code} = T \ {k}
  OBVIOUS
<1>6. Times(S, code) = n /\ Times(S \cup {k}, code) = Cardinality({x \in S \cup {k} : x.code = code})
      /\ Times(S \ {k}, code) = Cardinality({x \in S \ {k} : x.code = code})
  BY DEF Times
<1> HIDE DEF T, d, u
<1>7. n \in Nat
  BY <1>1, FS_CardinalityType
<1>8. ASSUME k \notin S
      PROVE  Times(S \cup {k}, code) = n + d
  <2>1. CASE k.code = code
    <3>1. Times(S \cup {k}, code) = Cardinality(T \cup {k}) /\ k \notin T
      BY <1>4, <1>6, <1>8, <2>1
    <3>2. Cardinality(T \cup {k}) = n + 1
      BY <1>1, <3>1, FS_AddElement
    <3> QED BY <1>2, <2>1, <3>1, <3>2
  <2>2. CASE k.code # code
    <3>1. Times(S \cup {k}, code) = n
      BY <1>4, <1>6, <1>8, <2>2
    <3> QED BY <1>3, <1>7, <2>2, <3>1
  <2> QED BY <2>1, <2>2
<1>9. ASSUME k \in S
      PROVE  Times(S \ {k}, code) = n + u
  <2>0. Times(S \ {k}, code) = Cardinality(T \ {k})
    BY <1>5, <1>6, <1>9
  <2>1. CASE k.code = code
    <3>1. Cardinality(T \ {k}) = n - 1
      BY <1>1, <1>5, <1>9, <2>1, FS_RemoveElement
    <3> QED BY <1>2, <1>7, <2>0, <2>1, <3>1
  <2>2. CASE k.code # code
    <3>1. T \ {k} = T
      BY <1>5, <1>9, <2>2
    <3> QED BY <1>3, <1>7, <2>0, <2>2, <3>1
  <2> QED BY <2>1, <2>2
<1> QED
  BY <1>6, <1>7, <1>8, <1>9 DEF d, u

\* Nothing is left of the counts when all is up.
LEMMA AllUpExcess ==
    ASSUME conf \in DOMAIN Configurations, NEW w, IsWorld(w), AllUp(w), \A i \in Periodic : w.st[i].decreased = FALSE
    PROVE  /\ \A f \in Countable : CountExcess(w, f) = 0 /\ LazyExcess(w, f) = 0
           /\ \A b \in Buttons : ButtonExcess(w, b) = 0
<1>1. \A id \in PartIds : w.pressing[id] = 0
  BY DEF AllUp, PartIds
<1>2. \A i \in Periodic : w.pressing[<<i, "ITEM">>] = 0
  BY DEF AllUp, Periodic, Ids
<1>3. IsFiniteSet(PartIds) /\ IsFiniteSet(Periodic)
  BY IdsFinite
<1>4. ASSUME NEW x
      PROVE  PressedSum(w.pressing, x) = 0 /\ LazySum(w.pressing, x) = 0 /\ ButtonSum(w.pressing, x) = 0
  <2> DEFINE F == [id \in PartIds |-> w.pressing[id] * Contribution(id, x)]
             G == [id \in PartIds |-> w.pressing[id] * Bit(Holds(id, Code("VK_LAZY", x)))]
             H == [id \in PartIds |-> w.pressing[id] * ButtonContribution(id, x)]
  <2>1. ASSUME NEW id \in PartIds
        PROVE  F[id] = 0 /\ G[id] = 0 /\ H[id] = 0
    <3> DEFINE a == Contribution(id, x)
               b == Bit(Holds(id, Code("VK_LAZY", x)))
               c == ButtonContribution(id, x)
    <3>1. a \in Int /\ b \in Int /\ c \in Int
      BY ContributionType
    <3>2. F[id] = w.pressing[id] * a /\ G[id] = w.pressing[id] * b /\ H[id] = w.pressing[id] * c /\ w.pressing[id] = 0
      BY <1>1
    <3> HIDE DEF a, b, c, F, G, H
    <3> QED BY <3>1, <3>2
  <2>2. DOMAIN F = PartIds /\ DOMAIN G = PartIds /\ DOMAIN H = PartIds
    OBVIOUS
  <2>3. PressedSum(w.pressing, x) = SumFunction(F) /\ LazySum(w.pressing, x) = SumFunction(G)
        /\ ButtonSum(w.pressing, x) = SumFunction(H)
    BY DEF PressedSum, LazySum, ButtonSum
  <2> HIDE DEF F, G, H
  <2> QED BY <1>3, <2>1, <2>2, <2>3, SumZero
<1>5. ASSUME NEW x
      PROVE  WithheldSum(w.pressing, w.st, x) = 0 /\ ButtonWithheldSum(w.pressing, x) = 0
  <2> DEFINE F == [i \in Periodic |-> w.pressing[<<i, "ITEM">>] * TakenBy(i, x) + AwayFlag(w.st, i, x)]
             G == [i \in Periodic |-> w.pressing[<<i, "ITEM">>] * Bit(Items[conf][i].from = Code("button", x))]
  <2>1. ASSUME NEW i \in Periodic
        PROVE  F[i] = 0 /\ G[i] = 0
    <3> DEFINE a == TakenBy(i, x)
               b == AwayFlag(w.st, i, x)
               c == Bit(Items[conf][i].from = Code("button", x))
    <3>1. a \in Int /\ c \in Int
      BY DEF TakenBy, Bit
    <3>2. b = 0
      BY DEF AwayFlag, Bit
    <3>3. F[i] = w.pressing[<<i, "ITEM">>] * a + b /\ G[i] = w.pressing[<<i, "ITEM">>] * c /\ w.pressing[<<i, "ITEM">>] = 0
      BY <1>2
    <3> HIDE DEF a, b, c, F, G
    <3> QED BY <3>1, <3>2, <3>3
  <2>2. DOMAIN F = Periodic /\ DOMAIN G = Periodic
    OBVIOUS
  <2>3. WithheldSum(w.pressing, w.st, x) = SumFunction(F) /\ ButtonWithheldSum(w.pressing, x) = SumFunction(G)
    BY DEF WithheldSum, ButtonWithheldSum
  <2> HIDE DEF F, G
  <2> QED BY <1>3, <2>1, <2>2, <2>3, SumZero
<1>6. /\ \A f \in Countable : w.fs[f].count_ = 0 /\ w.fs[f].lazy_count_ = 0
      /\ \A b \in Buttons : w.bs[b] = 0
  BY DEF AllUp
<1> QED
  BY <1>4, <1>5, <1>6 DEF CountExcess, LazyExcess, ButtonExcess

\* After a reset the counts are those of no key.
LEMMA AllUpFollows ==
    ASSUME conf \in DOMAIN Configurations, NEW w, IsWorld(w), AllUp(w), \A i \in Periodic : w.st[i].decreased = FALSE,
           NEW S, Counted(S) = {}
    PROVE  Follows(w, S)
BY AllUpExcess, TimesNothing DEF Follows

\* A step that counts nothing leaves the counts as they follow the keys.
LEMMA QuietFollows ==
    ASSUME NEW w, NEW v, Quiet(w, v), NEW S, Follows(w, S)
    PROVE  Follows(v, S)
BY DEF Quiet, SameExcess, Follows

\* The counts follow the keys as the event does.
LEMMA FedFollows ==
    ASSUME NEW w, NEW v, NEW e, Fed(w, v, e), NEW S, Follows(w, S), NEW T,
           \A f \in Countable : Times(T, Code("mod", f)) = Times(S, Code("mod", f)) + EventBy(e, Code("mod", f)),
           \A b \in Buttons : Times(T, Code("button", b)) = Times(S, Code("button", b)) + EventBy(e, Code("button", b))
    PROVE  Follows(v, T)
BY DEF Fed, Follows

\* An event: the counts follow the keys afterwards, and they still do if
\* everything is reset.
LEMMA EventFollows ==
    ASSUME conf \in DOMAIN Configurations, Sole(conf), NEW k, Sound(k), NEW l, NEW S, Settles(AsWorld(k), S), Follows(AsWorld(k), S),
           NEW T, T \subseteq Configuration.keys, NEW e, NEW dev, NEW more,
           Occurs(k, l, e, dev, Cardinality(Counted(T)), more),
           \A w, v : /\ IsWorld(w) /\ IsWorld(v) /\ Balanced(w, S)
                     /\ w.device = dev /\ w.remapped = FALSE /\ Feeds(w, v, e)
                     => Balanced(v, T),
           \A code : Times(T, code) = Times(S, code) + EventBy(e, code)
    PROVE  Follows(AsWorld(l), T)
<1>1. PICK w, v, r :
         /\ Alike(AsWorld(k), w) /\ w.device = dev /\ w.keys = Cardinality(Counted(T)) /\ w.remapped = FALSE
         /\ Feeds(w, v, e)
         /\ IF ResetNeeded(w, e, more) THEN Resets(v, r) ELSE r = v
         /\ Alike(r, AsWorld(l))
  BY DEF Occurs
<1>2. IsWorld(w) /\ Settles(w, S) /\ Follows(w, S)
  <2>1. Quiet(AsWorld(k), w)
    BY <1>1, AlikeQuiet DEF Sound
  <2> QED BY <1>1, <2>1, QuietSettles, QuietFollows DEF Alike
<1>3. IsWorld(v) /\ Settles(v, T)
  <2>1. IsWorld(v) /\ Tidy(v)
    BY <1>1, <1>2 DEF Feeds, Lasts, Settles
  <2>2. Balanced(v, T)
    BY <1>1, <1>2, <2>1 DEF Settles
  <2> QED BY <2>1, <2>2 DEF Settles
<1>4. Follows(v, T)
  BY <1>1, <1>2, FedFollows DEF Feeds
<1>5. IsWorld(r) /\ Follows(r, T)
  <2>1. CASE ResetNeeded(w, e, more)
    <3>1. Counted(T) = {}
      BY <1>1, <2>1, NothingCounted DEF ResetNeeded
    <3>2. Resets(v, r) /\ IsWorld(r) /\ AllUp(r)
      BY <1>1, <2>1 DEF Resets
    <3>3. \A i \in Periodic : v.pressing[<<i, "ITEM">>] = 0
      BY <1>3, <3>1, NothingPressed DEF Settles
    <3>4. \A i \in Periodic : ~v.st[i].decreased
      <4>1. ~(0 > 0)
        OBVIOUS
      <4> QED BY <1>3, <3>3, <4>1 DEF Settles, Tidy
    <3>5. \A i \in Periodic : r.st[i].decreased = FALSE
      <4>1. \A i \in Periodic : v.st[i].decreased \in BOOLEAN
        BY <1>3 DEF IsWorld, FunctionType, States, Periodic
      <4> QED BY <3>2, <3>4, <4>1 DEF Resets, SameModes, Periodic
    <3>6. Follows(r, T)
      BY <3>1, <3>2, <3>5, AllUpFollows
    <3> QED BY <3>2, <3>6
  <2>2. CASE ~ResetNeeded(w, e, more)
    BY <1>1, <1>3, <1>4, <2>2
  <2> QED BY <2>1, <2>2
<1>6. Quiet(r, AsWorld(l))
  BY <1>1, <1>5, AlikeQuiet
<1> QED
  BY <1>5, <1>6, QuietFollows

\* A key is pressed.
LEMMA TimesMore ==
    ASSUME conf \in DOMAIN Configurations, NEW S, S \subseteq Configuration.keys, NEW k \in Configuration.keys, k \notin S, NEW code
    PROVE  Times(S \cup {k}, code) = Times(S, code) + EventBy(Down(k), code)
BY TimesChange

\* Each step keeps the counts following the keys.
LEMMA EffectFollows ==
    ASSUME TypeInv, Effect, Sole(conf), Settles(AsWorld(kext), held), Follows(AsWorld(kext), held)
    PROVE  Follows(AsWorld(kext'), held')
<1>0. conf \in DOMAIN Configurations /\ held \subseteq Configuration.keys /\ Sound(kext) /\ IsFiniteSet(held)
  BY HeldFinite DEF TypeInv
<1>1. CASE QuietStep
  BY <1>1, QuietFollows DEF QuietStep
<1>2. ASSUME NEW k \in Configuration.keys, NEW more, k \notin held, held' = held \cup {k}, EventStep(Down(k), k.dev, more)
      PROVE  Follows(AsWorld(kext'), held')
  <2>1. \A w, v : /\ IsWorld(w) /\ IsWorld(v) /\ Balanced(w, held)
                  /\ w.device = k.dev /\ w.remapped = FALSE /\ Feeds(w, v, Down(k))
                  => Balanced(v, held')
    BY <1>0, <1>2, DownBalanced
  <2>2. held' \subseteq Configuration.keys
    BY <1>0, <1>2
  <2>3. Occurs(kext, kext', Down(k), k.dev, Cardinality(Counted(held')), more)
    BY <1>2 DEF EventStep
  <2>4. ASSUME NEW code
        PROVE  Times(held', code) = Times(held, code) + EventBy(Down(k), code)
    <3> DEFINE S == held
    <3>1. S \subseteq Configuration.keys /\ k \notin S /\ held' = S \cup {k}
      BY <1>0, <1>2
    <3> HIDE DEF S
    <3>2. Times(S \cup {k}, code) = Times(S, code) + EventBy(Down(k), code)
      BY <1>0, <3>1, TimesMore
    <3> QED BY <3>1, <3>2 DEF S
  <2> QED BY <1>0, <2>1, <2>2, <2>3, <2>4, EventFollows
<1>3. ASSUME NEW k \in Configuration.keys, NEW more, k \in held, held' = held \ {k}, EventStep(Up(k), k.dev, more)
      PROVE  Follows(AsWorld(kext'), held')
  <2>1. \A w, v : /\ IsWorld(w) /\ IsWorld(v) /\ Balanced(w, held)
                  /\ w.device = k.dev /\ w.remapped = FALSE /\ Feeds(w, v, Up(k))
                  => Balanced(v, held')
    BY <1>0, <1>3, UpBalanced
  <2>2. held' \subseteq Configuration.keys
    BY <1>0, <1>3
  <2>3. Occurs(kext, kext', Up(k), k.dev, Cardinality(Counted(held')), more)
    BY <1>3 DEF EventStep
  <2>4. ASSUME NEW code
        PROVE  Times(held', code) = Times(held, code) + EventBy(Up(k), code)
    <3> DEFINE S == held
    <3>1. S \subseteq Configuration.keys /\ k \in S /\ held' = S \ {k}
      BY <1>0, <1>3
    <3> HIDE DEF S
    <3>2. Times(S \ {k}, code) = Times(S, code) + EventBy(Up(k), code)
      BY <1>0, <3>1, TimesChange
    <3> QED BY <3>1, <3>2 DEF S
  <2> QED BY <1>0, <2>1, <2>2, <2>3, <2>4, EventFollows
<1>4. ASSUME NEW t \in {"scroll", "move"}, NEW more, held' = held, EventStep(Moved(t), "mouse", more)
      PROVE  Follows(AsWorld(kext'), held')
  <2>1. \A w, v : Balanced(w, held) /\ Feeds(w, v, Moved(t)) => Balanced(v, held')
    BY <1>4, MovedBalanced
  <2>2. held' \subseteq Configuration.keys
    BY <1>0, <1>4
  <2>3. Occurs(kext, kext', Moved(t), "mouse", Cardinality(Counted(held')), more)
    BY <1>4 DEF EventStep
  <2>4. \A b : EventBy(Moved(t), Code("button", b)) = 0 /\ EventBy(Moved(t), Code("mod", b)) = 0
    BY DEF EventBy, Moved, Code
  <2> DEFINE u == AsWorld(kext')
  <2>5. PICK w, v, r :
           /\ Alike(AsWorld(kext), w) /\ Feeds(w, v, Moved(t))
           /\ IF ResetNeeded(w, Moved(t), more) THEN Resets(v, r) ELSE r = v
           /\ Alike(r, u)
    BY <2>3 DEF Occurs
  <2>6. ~ResetNeeded(w, Moved(t), more)
    BY DEF ResetNeeded, Moved
  <2>7. r = v /\ IsWorld(v)
    BY <2>5, <2>6 DEF Feeds, Lasts
  <2> HIDE DEF u
  <2>8. Quiet(AsWorld(kext), w) /\ Quiet(v, u)
    BY <1>0, <2>5, <2>7, AlikeQuiet DEF Sound
  <2>9. Follows(w, held)
    BY <2>8, QuietFollows
  <2>10. ASSUME NEW b
         PROVE  /\ Times(held, Code("mod", b)) = Times(held, Code("mod", b)) + EventBy(Moved(t), Code("mod", b))
                /\ Times(held, Code("button", b)) = Times(held, Code("button", b)) + EventBy(Moved(t), Code("button", b))
    <3> DEFINE m == Times(held, Code("mod", b))
               n == Times(held, Code("button", b))
    <3>1. IsFiniteSet({x \in held : x.code = Code("mod", b)}) /\ IsFiniteSet({x \in held : x.code = Code("button", b)})
      BY <1>0, FS_Subset
    <3>2. m \in Nat /\ n \in Nat
      BY <3>1, FS_CardinalityType DEF Times
    <3>3. EventBy(Moved(t), Code("mod", b)) = 0 /\ EventBy(Moved(t), Code("button", b)) = 0
      BY <2>4
    <3> HIDE DEF m, n
    <3>4. m = m + 0 /\ n = n + 0
      BY <3>2
    <3> QED BY <3>3, <3>4 DEF m, n
  <2>11. Follows(v, held)
    BY <2>5, <2>9, <2>10, FedFollows DEF Feeds
  <2>12. Follows(u, held)
    BY <2>8, <2>11, QuietFollows
  <2> QED BY <1>4, <2>12 DEF u
<1> QED
  BY <1>1, <1>2, <1>3, <1>4 DEF Effect

\* The configuration never changes, and what is said of it stays true.
LEMMA SameFollows ==
    ASSUME conf' = conf
    PROVE  \A k, S : Follows(AsWorld(k), S)' <=> Follows(AsWorld(k), S)
<1>1. /\ \A id, f : Contribution(id, f)' = Contribution(id, f) /\ ButtonContribution(id, f)' = ButtonContribution(id, f)
      /\ \A id, c : Holds(id, c)' <=> Holds(id, c)
      /\ \A i, f : TakenBy(i, f)' = TakenBy(i, f)
      /\ \A st, i, f : AwayFlag(st, i, f)' = AwayFlag(st, i, f)
  BY DEF Contribution, ButtonContribution, Holds, LastTo, PartOf, TakenBy, AwayFlag
<1>2. /\ \A p, f : PressedSum(p, f)' = PressedSum(p, f) /\ LazySum(p, f)' = LazySum(p, f) /\ ButtonSum(p, f)' = ButtonSum(p, f)
      /\ \A p, st, f : WithheldSum(p, st, f)' = WithheldSum(p, st, f)
      /\ \A p, f : ButtonWithheldSum(p, f)' = ButtonWithheldSum(p, f)
  BY <1>1, SameConfiguration DEF PressedSum, LazySum, ButtonSum, WithheldSum, ButtonWithheldSum
<1>3. \A w, f : /\ CountExcess(w, f)' = CountExcess(w, f) /\ LazyExcess(w, f)' = LazyExcess(w, f)
                /\ ButtonExcess(w, f)' = ButtonExcess(w, f)
  BY <1>2 DEF CountExcess, LazyExcess, ButtonExcess
<1>4. \A w, S : Follows(w, S)' <=> Follows(w, S)
  BY <1>3 DEF Follows, Times
<1> QED
  BY <1>4, SameConfiguration

CountsInv == SettledInv /\ (Sole(conf) => Follows(AsWorld(kext), held))

\* The invariant of the counts holds at first ...
LEMMA CountsInvInit == Init => CountsInv
<1> SUFFICES ASSUME Init PROVE CountsInv
  OBVIOUS
<1>1. SettledInv /\ kext = NewKext(conf) /\ held = {} /\ conf \in DOMAIN Configurations
  BY SettledInvInit DEF Init
<1> DEFINE w == AsWorld(kext)
<1>2. /\ kext.fs = InitFlagStatus /\ kext.bs = InitButtonStatus
      /\ kext.pressing = [id \in Ids(conf) |-> 0] /\ kext.active = [i \in DOMAIN Items[conf] |-> 0]
      /\ kext.st = [i \in DOMAIN Items[conf] |-> NewState]
  BY <1>1 DEF NewKext
<1>3. kext = [x \in Fields |-> kext[x]] /\ IsWorld(w)
  BY <1>1 DEF SettledInv, TypeInv, Sound
<1>4. w.fs = kext.fs /\ w.bs = kext.bs /\ w.pressing = kext.pressing /\ w.active = kext.active /\ w.st = kext.st
  BY <1>3, AsWorldFields
<1> HIDE DEF w
<1>5. /\ \A f \in Countable : w.fs[f].count_ = 0 /\ w.fs[f].lazy_count_ = 0
      /\ \A b \in Buttons : w.bs[b] = 0
  BY <1>2, <1>4 DEF InitFlagStatus, FlagItem, InitButtonStatus, Countable
<1>6. AllUp(w)
  BY <1>2, <1>4, <1>5 DEF AllUp
<1>7. \A i \in Periodic : w.st[i].decreased = FALSE
  BY <1>2, <1>4 DEF NewState, Periodic
<1>8. Counted(held) = {}
  BY <1>1 DEF Counted
<1>9. Follows(w, held)
  BY <1>1, <1>3, <1>6, <1>7, <1>8, AllUpFollows
<1> QED
  BY <1>1, <1>9 DEF CountsInv, w

\* ... and each step keeps it.
LEMMA CountsInvNext == CountsInv /\ [Next]_vars => CountsInv'
<1> SUFFICES ASSUME CountsInv, [Next]_vars PROVE CountsInv'
  OBVIOUS
<1>1. SettledInv'
  BY SettledInvNext DEF CountsInv
<1>2. CASE Next
  <2>1. Effect /\ conf' = conf
    BY <1>2, NextEffect DEF TypeInv, SettledInv, CountsInv
  <2>2. Sole(conf) => Follows(AsWorld(kext'), held')
    BY <2>1, EffectFollows DEF CountsInv, SettledInv
  <2>3. Sole(conf)' => Follows(AsWorld(kext), held)'
    BY <2>1, <2>2, SameFollows, SameSettles
  <2> QED BY <1>1, <2>3 DEF CountsInv
<1>3. CASE UNCHANGED vars
  <2>1. conf' = conf /\ held' = held /\ kext' = kext
    BY <1>3 DEF vars
  <2>2. Sole(conf)' => Follows(AsWorld(kext), held)'
    BY <2>1, SameFollows, SameSettles DEF CountsInv
  <2> QED BY <1>1, <2>2 DEF CountsInv
<1> QED
  BY <1>2, <1>3

\* What the runs check follows: the sums over the items that are pressed are
\* those of the definition.
LEMMA CountsInvAccounted ==
    ASSUME CountsInv, Sole(conf)
    PROVE  CountsAccounted
<1> DEFINE w == AsWorld(kext)
<1>1. conf \in DOMAIN Configurations /\ IsWorld(w) /\ Follows(w, held) /\ kext = [x \in Fields |-> kext[x]]
      /\ held \subseteq Configuration.keys
  BY DEF CountsInv, SettledInv, TypeInv, Sound
<1>2. w.fs = kext.fs /\ w.bs = kext.bs /\ w.pressing = kext.pressing /\ w.st = kext.st
  BY <1>1, AsWorldFields
<1> HIDE DEF w
<1>3. w.pressing \in [Ids(conf) -> Nat] /\ DOMAIN kext.st = DOMAIN Items[conf]
  BY <1>1, <1>2 DEF IsWorld, FunctionType
<1>4. PeriodItems = Periodic
  BY <1>3 DEF PeriodItems, Periodic
<1>5. \A code : HeldTimes(code) = Times(held, code) /\ HeldTimes(code) \in Nat
  <2>1. IsFiniteSet(held)
    BY <1>1, HeldFinite
  <2>2. \A code : IsFiniteSet({k \in held : k.code = code})
    BY <2>1, FS_Subset
  <2> QED BY <2>2, FS_CardinalityType DEF HeldTimes, Times
<1>6. \A x : /\ PressedSum(w.pressing, x) \in Int /\ LazySum(w.pressing, x) \in Int /\ ButtonSum(w.pressing, x) \in Int
             /\ WithheldSum(w.pressing, w.st, x) \in Int /\ ButtonWithheldSum(w.pressing, x) \in Int
  BY <1>1, <1>3, PressedSumType, WithheldSumType
<1>7. /\ \A f \in Countable : w.fs[f].count_ \in Int /\ w.fs[f].lazy_count_ \in Int
      /\ \A b \in Buttons : w.bs[b] \in Int
  BY <1>1 DEF IsWorld, OutputType, FlagStatuses, FlagItems, Countable
<1>8. /\ \A f : PressedSum(w.pressing, f) = SumFunction([id \in PartIds |-> kext.pressing[id] * Contribution(id, f)])
      /\ \A f : LazySum(w.pressing, f) = SumFunction([id \in PartIds |-> kext.pressing[id] * Bit(Holds(id, Code("VK_LAZY", f)))])
      /\ \A b : ButtonSum(w.pressing, b) = SumFunction([id \in PartIds |-> kext.pressing[id] * ButtonContribution(id, b)])
  BY <1>2 DEF PressedSum, LazySum, ButtonSum
<1>9. /\ \A f : WithheldSum(w.pressing, w.st, f) = SumFunction([i \in PeriodItems |-> Withheld(i, f)])
      /\ \A b : ButtonWithheldSum(w.pressing, b) = SumFunction([i \in PeriodItems |-> ButtonWithheld(i, b)])
  BY <1>2, <1>4 DEF WithheldSum, ButtonWithheldSum, Withheld, ButtonWithheld, TakenBy, AwayFlag
<1>10. ASSUME NEW f \in Countable
       PROVE  /\ kext.fs[f].count_ = HeldTimes(Code("mod", f)) + PressedSum(w.pressing, f) - WithheldSum(w.pressing, w.st, f)
              /\ kext.fs[f].lazy_count_ = LazySum(w.pressing, f)
  <2> DEFINE a == w.fs[f].count_  b == w.fs[f].lazy_count_  h == HeldTimes(Code("mod", f))
             p == PressedSum(w.pressing, f)  s == WithheldSum(w.pressing, w.st, f)  l == LazySum(w.pressing, f)
  <2>1. a \in Int /\ b \in Int /\ h \in Int /\ p \in Int /\ s \in Int /\ l \in Int
    BY <1>5, <1>6, <1>7
  <2>2. a - p + s = h /\ b - l = 0
    BY <1>1, <1>5 DEF Follows, CountExcess, LazyExcess
  <2>3. kext.fs[f].count_ = a /\ kext.fs[f].lazy_count_ = b
    BY <1>2
  <2> HIDE DEF a, b, h, p, s, l
  <2>4. a = h + p - s /\ b = l
    BY <2>1, <2>2
  <2> QED BY <2>3, <2>4 DEF h, p, s, l
<1>11. ASSUME NEW b \in Buttons
       PROVE  kext.bs[b] = HeldTimes(Code("button", b)) + ButtonSum(w.pressing, b) - ButtonWithheldSum(w.pressing, b)
  <2> DEFINE a == w.bs[b]  h == HeldTimes(Code("button", b))
             p == ButtonSum(w.pressing, b)  s == ButtonWithheldSum(w.pressing, b)
  <2>1. a \in Int /\ h \in Int /\ p \in Int /\ s \in Int
    BY <1>5, <1>6, <1>7
  <2>2. a - p + s = h
    BY <1>1, <1>5 DEF Follows, ButtonExcess
  <2>3. kext.bs[b] = a
    BY <1>2
  <2> HIDE DEF a, h, p, s
  <2>4. a = h + p - s
    BY <2>1, <2>2
  <2> QED BY <2>3, <2>4 DEF h, p, s
<1> QED
  BY <1>8, <1>9, <1>10, <1>11 DEF CountsAccounted, Countable

\* No modifier and no button is ever lost or left behind: what FlagStatus and
\* ButtonStatus count is the keys that are held, and what the functions that are
\* pressed have added and taken away.
THEOREM CountsKept == Spec => [](Sole(conf) => CountsAccounted)
<1>1. Spec => []CountsInv
  BY CountsInvInit, CountsInvNext, PTL DEF Spec
<1>2. CountsInv => (Sole(conf) => CountsAccounted)
  BY CountsInvAccounted
<1> QED
  BY <1>1, <1>2, PTL
=============================================================================
