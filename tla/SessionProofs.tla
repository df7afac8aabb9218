--------------------------- MODULE SessionProofs ----------------------------
(***************************************************************************)
(* Theorems about Session, for any devices, users, vectors, settings and   *)
(* scenarios.                                                              *)
(*                                                                         *)
(* The original actions of hooked devices are kept, only wanted devices    *)
(* are hooked, and Session implements Ownership. The three go together in  *)
(* one inductive invariant: a device is given back by restoring the kept   *)
(* action, which must not be Karabiner's; it is reached by a refresh,      *)
(* which only sees listed devices; and an extension without an owner has   *)
(* nothing to undo.                                                        *)
(*                                                                         *)
(* And the kernel extension has what its owner has, once the owner has     *)
(* worked off its queue. That inductive invariant says, for everything     *)
(* that the extension may have wrong, what is on its way to put it right:  *)
(* a call of the block that is running (todo), or a block of the main      *)
(* queue.                                                                  *)
(***************************************************************************)
EXTENDS Session, SequenceTheorems, FiniteSetTheorems, TLAPS

-----------------------------------------------------------------------------
(* Devices and owners: the inductive invariant *)

HookedItem(x, d) == \E i \in 1..ActionCount[d] : x.action[i] = "hook"

ItemOK(x, d) ==
    /\ x \in Item(d)
    /\ \A i \in 1..ActionCount[d] :
          x.action[i] = "hook" => x.listed /\ x.orig[i] \in {"driver", "other"}

DevOK(ds) ==
    /\ ds = [d \in Devices |-> ds[d]]
    /\ \A d \in Devices : ItemOK(ds[d], d)

\* A record with the fields of Kext.
IsRecord(k) ==
    k = [loaded |-> k.loaded, version |-> k.version, owner |-> k.owner,
         initialized |-> k.initialized, notification |-> k.notification,
         classes |-> k.classes, enabled |-> k.enabled, essential |-> k.essential,
         workspace |-> k.workspace, traces |-> k.traces]

KextOK(k) ==
    /\ IsRecord(k)
    /\ k.owner \in Servers \cup {Nobody}
    /\ k.initialized \in BOOLEAN /\ k.loaded \in BOOLEAN
    /\ k.owner = Nobody => ~k.initialized /\ k.notification = FALSE
    /\ ~k.loaded => k.owner = Nobody

\* What is unloaded has no events.
WaitingOK == waiting \in BOOLEAN /\ (~kext.loaded => waiting = FALSE)

IInv == DevOK(dev) /\ KextOK(kext) /\ HookedAreWanted /\ WaitingOK

-----------------------------------------------------------------------------
(* Items and lists *)

\* The fields of an item, one by one.
LEMMA ItemFields ==
  ASSUME NEW d \in Devices, NEW x, x \in Item(d)
  PROVE  /\ x = [plugged |-> x.plugged, listed |-> x.listed, inProgress |-> x.inProgress,
                 action |-> x.action, orig |-> x.orig]
         /\ x.plugged \in BOOLEAN /\ x.listed \in BOOLEAN /\ x.inProgress \in BOOLEAN
         /\ x.action \in [1..ActionCount[d] -> EventAction]
         /\ x.orig \in [1..ActionCount[d] -> EventAction]
         /\ DOMAIN x.action = 1..ActionCount[d] /\ DOMAIN x.orig = 1..ActionCount[d]
  BY DEF Item

\* restoreEventAction keeps an item sound and takes every hook away.
LEMMA RestoreItem ==
  ASSUME NEW d \in Devices, NEW x, ItemOK(x, d)
  PROVE  /\ ItemOK(RestoreEventAction(x), d)
         /\ ~HookedItem(RestoreEventAction(x), d)
         /\ RestoreEventAction(x).listed = x.listed
  <1> DEFINE A == 1..ActionCount[d]
             a == [i \in A |-> IF x.action[i] = "hook" THEN x.orig[i] ELSE x.action[i]]
             o == [i \in A |-> "null"]
             y == [plugged |-> x.plugged, listed |-> x.listed, inProgress |-> x.inProgress,
                   action |-> a, orig |-> o]
  <1>1. x \in Item(d)
    BY DEF ItemOK
  <1>2. RestoreEventAction(x) = y
    <2>1. /\ x = [plugged |-> x.plugged, listed |-> x.listed, inProgress |-> x.inProgress,
                  action |-> x.action, orig |-> x.orig]
          /\ DOMAIN x.action = A /\ DOMAIN x.orig = A
      BY <1>1, ItemFields
    <2>2. RestoreEventAction(x) =
             [x EXCEPT !.action = [i \in DOMAIN x.action |->
                                      IF x.action[i] = "hook" THEN x.orig[i] ELSE x.action[i]],
                       !.orig = [i \in DOMAIN x.orig |-> "null"]]
      BY DEF RestoreEventAction
    <2>3. RestoreEventAction(x) = [x EXCEPT !.action = a, !.orig = o]
      BY <2>1, <2>2
    <2> HIDE DEF a, o
    <2> QED BY <2>1, <2>3
  <1>3. ASSUME NEW i \in A PROVE a[i] \in EventAction /\ a[i] # "hook"
    <2>1. x.action[i] \in EventAction
      <3>1. x.action \in [A -> EventAction]
        <4> HIDE DEF a, o, y
        <4> QED BY <1>1, ItemFields
      <3> HIDE DEF A, a, o, y
      <3> QED BY <1>3, <3>1
    <2>2. CASE x.action[i] = "hook"
      <3>1. x.orig[i] \in {"driver", "other"}
        BY <2>2 DEF ItemOK
      <3>2. a[i] = x.orig[i]
        BY <2>2
      <3> QED BY <3>1, <3>2 DEF EventAction
    <2>3. CASE x.action[i] # "hook"
      BY <2>1, <2>3
    <2> QED BY <2>2, <2>3
  <1>4. a \in [A -> EventAction] /\ o \in [A -> EventAction]
    BY <1>3 DEF EventAction
  <1>5. y \in Item(d)
    <2> HIDE DEF a, o
    <2> QED BY <1>1, <1>4, ItemFields DEF Item
  <1> QED
    BY <1>2, <1>3, <1>5 DEF ItemOK, HookedItem

\* replaceEventAction keeps a listed item sound.
LEMMA ReplaceItem ==
  ASSUME NEW d \in Devices, NEW x, ItemOK(x, d), x.listed
  PROVE  ItemOK(ReplaceEventAction(x), d)
  <1> DEFINE A == 1..ActionCount[d]
             S == {i \in DOMAIN x.action : x.action[i] \notin {"null", "hook"}}
             M == {i \in DOMAIN x.action : x.action[i] # "hook"}
             a == [i \in A |-> IF i \in S THEN "hook" ELSE x.action[i]]
             o == [i \in A |-> IF i \in S THEN x.action[i] ELSE x.orig[i]]
             p == IF M = {} THEN x.inProgress ELSE x.action[Max(M)] = "null"
             y == [plugged |-> x.plugged, listed |-> x.listed, inProgress |-> p,
                   action |-> a, orig |-> o]
  <1>1. x \in Item(d)
    BY DEF ItemOK
  <1>2. ReplaceEventAction(x) =
           [x EXCEPT !.action = [i \in DOMAIN x.action |-> IF i \in S THEN "hook" ELSE x.action[i]],
                     !.orig = [i \in DOMAIN x.orig |-> IF i \in S THEN x.action[i] ELSE x.orig[i]],
                     !.inProgress = p]
    BY DEF ReplaceEventAction, ReplaceActions
  <1>3. p \in BOOLEAN
    BY <1>1, ItemFields
  <1>4. ReplaceEventAction(x) = y
    <2> HIDE DEF S, p
    <2>1. /\ x = [plugged |-> x.plugged, listed |-> x.listed, inProgress |-> x.inProgress,
                  action |-> x.action, orig |-> x.orig]
          /\ DOMAIN x.action = A /\ DOMAIN x.orig = A
      BY <1>1, ItemFields
    <2>2. ReplaceEventAction(x) = [x EXCEPT !.action = a, !.orig = o, !.inProgress = p]
      BY <1>2, <2>1
    <2> HIDE DEF a, o
    <2> QED BY <2>1, <2>2
  <1>5. a \in [A -> EventAction] /\ o \in [A -> EventAction]
    <2> HIDE DEF S
    <2>1. \A i \in A : a[i] \in EventAction /\ o[i] \in EventAction
      BY <1>1, ItemFields DEF EventAction
    <2> QED BY <2>1
  <1>6. y \in Item(d)
    <2> HIDE DEF a, o, p
    <2> QED BY <1>1, <1>3, <1>5, ItemFields DEF Item
  <1>7. \A i \in A : a[i] = "hook" => o[i] \in {"driver", "other"}
    BY <1>1, ItemFields DEF ItemOK, EventAction
  <1> HIDE DEF a, o, p
  <1> QED
    BY <1>4, <1>6, <1>7 DEF ItemOK

\* refresh keeps an item sound, and an unwanted one without hooks.
LEMMA RefreshedItem ==
  ASSUME NEW d \in Devices, NEW x, NEW W, ItemOK(x, d)
  PROVE  /\ ItemOK(RefreshItem(x, d \in W), d)
         /\ d \notin W => ~HookedItem(RefreshItem(x, d \in W), d)
  <1>1. x.listed \in BOOLEAN
    BY DEF ItemOK, Item
  <1>2. CASE ~x.listed
    BY <1>2 DEF RefreshItem, ItemOK, HookedItem
  <1>3. CASE x.listed /\ d \in W
    BY <1>3, ReplaceItem DEF RefreshItem
  <1>4. CASE x.listed /\ d \notin W
    BY <1>4, RestoreItem DEF RefreshItem
  <1> QED
    BY <1>1, <1>2, <1>3, <1>4

\* refresh of some lists.
LEMMA RefreshedList ==
  ASSUME NEW ds, NEW S, NEW W, DevOK(ds)
  PROVE  /\ DevOK(Refresh(ds, S, W))
         /\ \A d \in Devices : HookedItem(Refresh(ds, S, W)[d], d) =>
                 d \in W \/ (d \notin S /\ HookedItem(ds[d], d))
  <1>1. Refresh(ds, S, W) = [d \in Devices |-> Refresh(ds, S, W)[d]]
    BY DEF Refresh
  <1>2. ASSUME NEW d \in Devices
        PROVE  /\ ItemOK(Refresh(ds, S, W)[d], d)
               /\ HookedItem(Refresh(ds, S, W)[d], d) =>
                     d \in W \/ (d \notin S /\ HookedItem(ds[d], d))
    <2>1. ItemOK(ds[d], d)
      BY DEF DevOK
    <2>2. CASE d \in S
      <3>1. Refresh(ds, S, W)[d] = RefreshItem(ds[d], d \in W)
        BY <2>2 DEF Refresh
      <3> QED BY <2>1, <3>1, RefreshedItem
    <2>3. CASE d \notin S
      <3>1. Refresh(ds, S, W)[d] = ds[d]
        BY <2>3 DEF Refresh
      <3> QED BY <2>1, <2>3, <3>1
    <2> QED BY <2>2, <2>3
  <1> QED
    BY <1>1, <1>2 DEF DevOK

-----------------------------------------------------------------------------
(* Steps of the devices *)

\* What there is to show of dev: it stays sound, and what is hooked is in W.
DevicesStep(W) ==
    /\ DevOK(dev')
    /\ \A d \in Devices : HookedItem(dev'[d], d) => d \in W

\* Hooked in terms of the items, before and after a step.
LEMMA HookedIsHookedItem ==
  /\ Hooked = {d \in Devices : HookedItem(dev[d], d)}
  /\ Hooked' = {d \in Devices : HookedItem(dev'[d], d)}
  BY DEF Hooked, HookedItem

\* A device that is not connected is sound.
LEMMA UnpluggedItem ==
  ASSUME NEW d \in Devices
  PROVE  ItemOK(Unplugged(d), d) /\ ~HookedItem(Unplugged(d), d)
  <1>1. NoActions(d) \in [1..ActionCount[d] -> EventAction]
    BY DEF NoActions, EventAction
  <1>2. \A i \in 1..ActionCount[d] : NoActions(d)[i] # "hook"
    BY DEF NoActions
  <1>3. Unplugged(d) \in Item(d)
    BY <1>1 DEF Unplugged, Item
  <1> QED
    BY <1>2, <1>3 DEF ItemOK, HookedItem, Unplugged

\* A device that has just been connected is sound.
LEMMA PluggedItem ==
  ASSUME NEW d \in Devices, NEW l \in BOOLEAN,
         NEW a \in [1..ActionCount[d] -> {"null", "driver"}]
  PROVE  ItemOK(Plugged(d, l, a), d) /\ ~HookedItem(Plugged(d, l, a), d)
  <1>1. NoActions(d) \in [1..ActionCount[d] -> EventAction]
    BY DEF NoActions, EventAction
  <1>2. a \in [1..ActionCount[d] -> EventAction]
    BY DEF EventAction
  <1>3. \A i \in 1..ActionCount[d] : a[i] # "hook"
    OBVIOUS
  <1>4. Plugged(d, l, a) \in Item(d)
    BY <1>1, <1>2 DEF Plugged, Item
  <1>5. Plugged(d, l, a).action = a
    BY DEF Plugged
  <1> QED
    BY <1>3, <1>4, <1>5 DEF ItemOK, HookedItem

\* One item is replaced by another one that is not hooked.
LEMMA ReplacedItem ==
  ASSUME NEW d \in Devices, NEW x, NEW ds, DevOK(ds), ItemOK(x, d), ~HookedItem(x, d)
  PROVE  /\ DevOK([ds EXCEPT ![d] = x])
         /\ \A e \in Devices : HookedItem([ds EXCEPT ![d] = x][e], e) => HookedItem(ds[e], e)
  <1>1. ds = [e \in Devices |-> ds[e]]
    BY DEF DevOK
  <1>2. [ds EXCEPT ![d] = x] = [e \in Devices |-> IF e = d THEN x ELSE ds[e]]
    BY <1>1
  <1>3. \A e \in Devices : [ds EXCEPT ![d] = x][e] = IF e = d THEN x ELSE ds[e]
    BY <1>2
  <1>4. [ds EXCEPT ![d] = x] = [e \in Devices |-> [ds EXCEPT ![d] = x][e]]
    BY <1>2
  <1> QED
    BY <1>3, <1>4 DEF DevOK

\* The devices are refreshed, all or some of them.
LEMMA RefreshStep ==
  ASSUME NEW W, NEW S, DevOK(dev), dev' = Refresh(dev, S, W),
         S = Devices \/ \A d \in Devices : HookedItem(dev[d], d) => d \in W
  PROVE  DevicesStep(W)
  BY RefreshedList DEF DevicesStep

\* A device is connected (push_back, or unnoticed without the kernel extension).
LEMMA PushBackStep ==
  ASSUME NEW W, NEW d \in Devices, NEW l \in BOOLEAN, DevOK(dev), PushBack(d, l, W),
         \A e \in Devices : HookedItem(dev[e], e) => e \in W
  PROVE  DevicesStep(W)
  <1>1. PICK a \in [1..ActionCount[d] -> {"null", "driver"}] :
           LET ds == [dev EXCEPT ![d] = Plugged(d, l, a)]
           IN  dev' = IF l THEN Refresh(ds, SameList(d), W) ELSE ds
    BY DEF PushBack
  <1> DEFINE ds == [dev EXCEPT ![d] = Plugged(d, l, a)]
  <1>2. DevOK(ds) /\ \A e \in Devices : HookedItem(ds[e], e) => e \in W
    BY PluggedItem, ReplacedItem
  <1>3. dev' = IF l THEN Refresh(ds, SameList(d), W) ELSE ds
    BY <1>1
  <1> HIDE DEF ds
  <1> QED
    BY <1>2, <1>3, RefreshedList DEF DevicesStep

\* A device is disconnected (erase, or unnoticed without the kernel extension).
LEMMA EraseStep ==
  ASSUME NEW W, NEW d \in Devices, NEW l \in BOOLEAN, DevOK(dev), Erase(d, l, W),
         \A e \in Devices : HookedItem(dev[e], e) => e \in W
  PROVE  DevicesStep(W)
  <1> DEFINE ds == [dev EXCEPT ![d] = Unplugged(d)]
  <1>1. DevOK(ds) /\ \A e \in Devices : HookedItem(ds[e], e) => e \in W
    BY UnpluggedItem, ReplacedItem
  <1>2. dev' = IF l THEN Refresh(ds, SameList(d), W) ELSE ds
    BY DEF Erase
  <1> HIDE DEF ds
  <1> QED
    BY <1>1, <1>2, RefreshedList DEF DevicesStep

\* A driver writes an action, not Karabiner's.
LEMMA WriteActionStep ==
  ASSUME NEW W, NEW d \in Devices, NEW i \in 1..ActionCount[d], NEW v \in {"driver", "other"},
         DevOK(dev), dev' = [dev EXCEPT ![d].action[i] = v],
         \A e \in Devices : HookedItem(dev[e], e) => e \in W
  PROVE  DevicesStep(W)
  <1> DEFINE A == 1..ActionCount[d]
             x == dev[d]
             a == [j \in A |-> IF j = i THEN v ELSE x.action[j]]
             y == [plugged |-> x.plugged, listed |-> x.listed, inProgress |-> x.inProgress,
                   action |-> a, orig |-> x.orig]
  <1>1. ItemOK(x, d) /\ x \in Item(d)
    BY DEF DevOK, ItemOK
  <1>2. dev = [e \in Devices |-> dev[e]]
    BY DEF DevOK
  <1>3. dev' = [dev EXCEPT ![d] = [x EXCEPT !.action = [x.action EXCEPT ![i] = v]]]
    BY <1>2
  <1>4. [x.action EXCEPT ![i] = v] = a
    BY <1>1, ItemFields
  <1>5. [x EXCEPT !.action = a] = y
    <2> HIDE DEF a, x
    <2> QED BY <1>1, ItemFields
  <1>6. dev' = [e \in Devices |-> IF e = d THEN y ELSE dev[e]]
    BY <1>2, <1>3, <1>4, <1>5
  <1>7. a \in [A -> EventAction]
    BY <1>1, ItemFields DEF EventAction
  <1>8. \A j \in A : a[j] = "hook" => x.action[j] = "hook"
    OBVIOUS
  <1>9. y \in Item(d)
    <2> HIDE DEF a, x
    <2> QED BY <1>1, <1>7, ItemFields DEF Item
  <1>10. ItemOK(y, d) /\ (HookedItem(y, d) => HookedItem(x, d))
    <2> HIDE DEF a, x
    <2> QED BY <1>1, <1>8, <1>9 DEF ItemOK, HookedItem
  <1> HIDE DEF y
  <1>11. \A e \in Devices : dev'[e] = IF e = d THEN y ELSE dev[e]
    BY <1>6
  <1>12. dev' = [e \in Devices |-> dev'[e]]
    BY <1>6
  <1> QED
    BY <1>10, <1>11, <1>12 DEF DevicesStep, DevOK

\* terminateAll leaves no hook behind.
LEMMA TerminateStep ==
  ASSUME NEW W, DevOK(dev), TerminateAll
  PROVE  DevicesStep(W)
  <1>1. dev' = [d \in Devices |-> [RestoreEventAction(dev[d]) EXCEPT !.listed = FALSE,
                                                                      !.inProgress = FALSE]]
    BY DEF TerminateAll
  <1>2. ASSUME NEW d \in Devices PROVE ItemOK(dev'[d], d) /\ ~HookedItem(dev'[d], d)
    <2> DEFINE x == RestoreEventAction(dev[d])
               y == [plugged |-> x.plugged, listed |-> FALSE, inProgress |-> FALSE,
                     action |-> x.action, orig |-> x.orig]
    <2>1. ItemOK(x, d) /\ ~HookedItem(x, d) /\ x \in Item(d)
      BY RestoreItem DEF DevOK, ItemOK
    <2>2. dev'[d] = [x EXCEPT !.listed = FALSE, !.inProgress = FALSE]
      BY <1>1
    <2> HIDE DEF x
    <2>3. dev'[d] = y
      BY <2>1, <2>2, ItemFields
    <2>4. y \in Item(d)
      BY <2>1, ItemFields DEF Item
    <2> QED
      BY <2>1, <2>3, <2>4 DEF ItemOK, HookedItem
  <1>3. dev' = [d \in Devices |-> dev'[d]]
    BY <1>1
  <1> QED
    BY <1>2, <1>3 DEF DevicesStep, DevOK

\* All devices are pushed when the kernel extension starts.
LEMMA InitializeStep ==
  ASSUME NEW W, DevOK(dev), InitializeAll(W),
         \A d \in Devices : ~HookedItem(dev[d], d)
  PROVE  DevicesStep(W)
  <1> DEFINE ds == [d \in Devices |-> [dev[d] EXCEPT !.listed = dev[d].plugged]]
  <1>1. ASSUME NEW d \in Devices PROVE ItemOK(ds[d], d) /\ ~HookedItem(ds[d], d)
    <2> DEFINE x == dev[d]
               y == [plugged |-> x.plugged, listed |-> x.plugged, inProgress |-> x.inProgress,
                     action |-> x.action, orig |-> x.orig]
    <2>1. ItemOK(x, d) /\ ~HookedItem(x, d) /\ x \in Item(d)
      BY DEF DevOK, ItemOK
    <2>2. ds[d] = [x EXCEPT !.listed = x.plugged]
      OBVIOUS
    <2> HIDE DEF x, ds
    <2>3. ds[d] = y
      BY <2>1, <2>2, ItemFields
    <2>4. y \in Item(d)
      BY <2>1, ItemFields DEF Item
    <2> QED
      BY <2>1, <2>3, <2>4 DEF ItemOK, HookedItem
  <1>2. ds = [d \in Devices |-> ds[d]]
    OBVIOUS
  <1>3. DevOK(ds)
    BY <1>1, <1>2 DEF DevOK
  <1>4. dev' = Refresh(ds, Devices, W)
    BY DEF InitializeAll
  <1> HIDE DEF ds
  <1> QED
    BY <1>3, <1>4, RefreshedList DEF DevicesStep

-----------------------------------------------------------------------------
(* The calls into the kernel extension *)

\* What set_initialized changes, for the fields that the invariant is about.
LEMMA SetInitializedFields ==
  ASSUME NEW k, IsRecord(k), NEW v
  PROVE  LET r == SetInitialized(k, v)
         IN  /\ IsRecord(r)
             /\ r.loaded = k.loaded /\ r.owner = k.owner /\ r.initialized = v
             /\ r.traces = k.traces \cap {"negative lock"}
  <1> DEFINE e == IF v THEN k.essential ELSE {}
             t == k.traces \cap {"negative lock"}
             r == [loaded |-> k.loaded, version |-> k.version, owner |-> k.owner,
                   initialized |-> v, notification |-> k.notification,
                   classes |-> k.classes, enabled |-> k.enabled, essential |-> e,
                   workspace |-> k.workspace, traces |-> t]
  <1>1. SetInitialized(k, v) = [k EXCEPT !.initialized = v, !.traces = t, !.essential = e]
    BY DEF SetInitialized, IsRecord
  <1> HIDE DEF e, t
  <1>2. SetInitialized(k, v) = r
    BY <1>1 DEF IsRecord
  <1>3. /\ IsRecord(r) /\ r.loaded = k.loaded /\ r.owner = k.owner /\ r.initialized = v
        /\ r.traces = t
    BY DEF IsRecord
  <1> HIDE DEF r
  <1> QED
    BY <1>2, <1>3 DEF t

\* callback_close leaves an extension without an owner, switched off.
LEMMA CallbackCloseFields ==
  ASSUME NEW k, IsRecord(k)
  PROVE  LET r == CallbackClose(k)
         IN  /\ IsRecord(r)
             /\ r.loaded = k.loaded /\ r.owner = Nobody /\ r.initialized = FALSE
             /\ r.notification = FALSE /\ r.traces = k.traces \cap {"negative lock"}
  <1> DEFINE q == SetInitialized(k, FALSE)
  <1>1. /\ IsRecord(q) /\ q.loaded = k.loaded /\ q.initialized = FALSE
        /\ q.traces = k.traces \cap {"negative lock"}
    BY SetInitializedFields
  <1>2. CallbackClose(k) = [q EXCEPT !.notification = FALSE, !.owner = Nobody]
    BY DEF CallbackClose
  <1> HIDE DEF q
  <1> QED
    BY <1>1, <1>2 DEF IsRecord

\* load_remapclasses_initialize_vector switches off, and keeps the owner.
LEMMA LoadVectorFields ==
  ASSUME NEW k, IsRecord(k), NEW v
  PROVE  LET r == LoadVector(k, v)
         IN  /\ IsRecord(r)
             /\ r.loaded = k.loaded /\ r.owner = k.owner /\ r.initialized = FALSE
             /\ r.traces = k.traces \cap {"negative lock"}
  <1> DEFINE q == SetInitialized(k, FALSE)
             c == IF Len(v) <= MaxConfigCount THEN v ELSE <<>>
  <1>1. /\ IsRecord(q) /\ q.loaded = k.loaded /\ q.owner = k.owner /\ q.initialized = FALSE
        /\ q.traces = k.traces \cap {"negative lock"}
    BY SetInitializedFields
  <1>2. LoadVector(k, v) = [q EXCEPT !.classes = c, !.enabled = {}]
    BY DEF LoadVector
  <1> HIDE DEF q, c
  <1> QED
    BY <1>1, <1>2 DEF IsRecord

\* Fields that the invariant is about.
SameState(r, k) ==
    /\ IsRecord(r)
    /\ r.loaded = k.loaded /\ r.owner = k.owner /\ r.initialized = k.initialized
    /\ r.notification = k.notification /\ r.traces = k.traces

\* set_config and set_config_one change the settings only.
LEMMA SetConfigFields ==
  ASSUME NEW k, IsRecord(k), NEW v, NEW on, NEW name
  PROVE  SameState(SetConfig(k, v, on), k) /\ SameState(SetConfigOne(k, v, name, on), k)
  <1>1. SameState(SetConfig(k, v, on), k)
    <2> DEFINE e == on \cap (Essential \cup AutoEnable)
               c == {i \in DOMAIN v : v[i] \in on}
    <2>1. CASE Len(v) # Len(k.classes)
      BY <2>1 DEF SetConfig, SameState
    <2>2. CASE Len(v) = Len(k.classes)
      <3>1. SetConfig(k, v, on) = [k EXCEPT !.essential = e, !.enabled = c]
        BY <2>2 DEF SetConfig
      <3> HIDE DEF e, c
      <3> QED BY <3>1 DEF SameState, IsRecord
    <2> QED BY <2>1, <2>2
  <1>2. SameState(SetConfigOne(k, v, name, on), k)
    <2> DEFINE known == Indexes(v, name) \cap DOMAIN k.classes
               e == IF on THEN k.essential \cup {name} ELSE k.essential \ {name}
               c == IF on THEN k.enabled \cup known ELSE k.enabled \ known
    <2>1. CASE name \in Essential \cup AutoEnable
      <3>1. SetConfigOne(k, v, name, on) = [k EXCEPT !.essential = e]
        BY <2>1 DEF SetConfigOne, IsRecord
      <3> HIDE DEF e
      <3> QED BY <3>1 DEF SameState, IsRecord
    <2>2. CASE name \notin Essential \cup AutoEnable
      <3>1. SetConfigOne(k, v, name, on) = [k EXCEPT !.enabled = c]
        BY <2>2 DEF SetConfigOne, IsRecord
      <3> HIDE DEF c
      <3> QED BY <3>1 DEF SameState, IsRecord
    <2> QED BY <2>1, <2>2
  <1> QED
    BY <1>1, <1>2

\* The invariant on the extension only looks at the fields of SameState.
LEMMA SameStateOK ==
  ASSUME KextOK(kext), NEW k, SameState(k, kext)
  PROVE  KextOK(k)
  BY DEF KextOK, SameState

\* Nothing is wanted while the extension is switched off, and nothing is hooked.
LEMMA NothingWanted ==
  /\ \A k : ~k.initialized => Wanted(k) = {}
  /\ \A k, r : k.initialized = r.initialized /\ k.essential = r.essential => Wanted(k) = Wanted(r)
  BY DEF Wanted

\* What is hooked belongs to an owner who has switched the extension on.
LEMMA HookedHasOwner ==
  ASSUME IInv
  PROVE  /\ Hooked # {} => kext.initialized
         /\ kext.initialized => kext.owner # Nobody /\ kext.loaded
         /\ kext.notification => kext.owner # Nobody
         /\ \A d \in Devices : HookedItem(dev[d], d) => d \in Wanted(kext)
  BY NothingWanted, HookedIsHookedItem DEF IInv, KextOK, HookedAreWanted

-----------------------------------------------------------------------------
(* The invariant in a step *)

\* A step whose devices are sound, and hooked only where the new state wants it.
LEMMA DevicesInvariant ==
  ASSUME NEW k, KextOK(k), kext' = k, DevicesStep(Wanted(k)), WaitingOK'
  PROVE  IInv'
  <1>1. Wanted(kext)' = Wanted(k)
    BY DEF Wanted
  <1>2. DevOK(dev)' /\ KextOK(kext)'
    BY DEF DevicesStep, DevOK, KextOK, IsRecord
  <1>3. Hooked' \subseteq Wanted(k)
    BY HookedIsHookedItem DEF DevicesStep
  <1> QED
    BY <1>1, <1>2, <1>3 DEF IInv, HookedAreWanted

\* The configuration changes, and the devices are refreshed.
LEMMA BecomesStep ==
  ASSUME IInv, NEW k, KextOK(k), k.loaded = kext.loaded, Becomes(k)
  PROVE  IInv' /\ kext' = k /\ waiting' = waiting
  <1>1. DevicesStep(Wanted(k))
    BY RefreshStep DEF IInv, Becomes, RefreshAll
  <1>2. kext' = k /\ waiting' = waiting
    BY DEF Becomes
  <1>3. WaitingOK'
    BY <1>2 DEF IInv, WaitingOK
  <1> QED
    BY <1>1, <1>2, <1>3, DevicesInvariant

\* The extension changes, but not what is wanted; no device is refreshed.
LEMMA UnhookedStep ==
  ASSUME IInv, NEW k, KextOK(k), kext' = k, RefreshNone, WaitingOK',
         k.initialized = kext.initialized, k.essential = kext.essential
  PROVE  IInv' /\ Hooked' = Hooked
  <1>1. dev' = dev /\ kext' = k
    BY DEF RefreshNone
  <1>2. Hooked' = Hooked
    BY <1>1 DEF Hooked
  <1>3. Wanted(k) = Wanted(kext)
    BY NothingWanted
  <1>4. DevicesStep(Wanted(k))
    BY <1>1, <1>3, HookedHasOwner DEF IInv, DevicesStep, DevOK
  <1> QED
    BY <1>1, <1>2, <1>4, DevicesInvariant

\* The same, and no event comes or goes.
LEMMA QuietStep ==
  ASSUME IInv, NEW k, KextOK(k), k.loaded = kext.loaded, BecomesQuietly(k),
         k.initialized = kext.initialized, k.essential = kext.essential
  PROVE  IInv' /\ kext' = k /\ Hooked' = Hooked /\ waiting' = waiting
  <1>1. kext' = k /\ RefreshNone /\ waiting' = waiting
    BY DEF BecomesQuietly
  <1>2. WaitingOK'
    BY <1>1 DEF IInv, WaitingOK
  <1> QED
    BY <1>1, <1>2, UnhookedStep

\* Only the devices change.
LEMMA OnlyDevicesStep ==
  ASSUME IInv, UNCHANGED <<kext, waiting>>, DevicesStep(Wanted(kext))
  PROVE  IInv'
  <1>1. WaitingOK' /\ kext' = kext
    BY DEF IInv, WaitingOK
  <1> QED
    BY <1>1, DevicesInvariant DEF IInv

-----------------------------------------------------------------------------
(* The kinds of steps, as Ownership tells them apart *)

Configured ==
    /\ kext'.owner = kext.owner /\ kext'.initialized = kext.initialized
    /\ kext'.traces = kext.traces /\ waiting' = waiting

Switched ==
    /\ kext.owner # Nobody
    /\ kext'.owner = kext.owner /\ kext'.traces \subseteq {"negative lock"}
    /\ waiting' = waiting

Taken ==
    /\ Hooked # {} /\ Hooked' = Hooked
    /\ kext' = kext /\ waiting' = TRUE

Used ==
    /\ waiting /\ Hooked' = Hooked
    /\ kext'.owner = kext.owner /\ kext'.initialized = kext.initialized
    /\ kext'.traces = Traces /\ waiting' = waiting

Drained ==
    /\ waiting /\ Hooked' = Hooked
    /\ kext' = kext /\ waiting' = FALSE

Acquired ==
    /\ kext.owner = Nobody /\ kext'.owner \in Servers
    /\ kext'.initialized = kext.initialized /\ kext'.traces = kext.traces
    /\ Hooked' = Hooked /\ waiting' = waiting

Released ==
    /\ kext'.owner = Nobody /\ kext'.traces \subseteq {"negative lock"}
    /\ waiting' = FALSE \/ (kext.owner # Nobody /\ waiting' = waiting)

KindOfStep == Configured \/ Switched \/ Taken \/ Used \/ Drained \/ Acquired \/ Released

\* A step that leaves the extension and the devices alone.
LEMMA IdleStep ==
  ASSUME IInv, BecomesQuietly(kext)
  PROVE  IInv' /\ KindOfStep
  BY QuietStep DEF IInv, KindOfStep, Configured

\* The settings change, and the devices are refreshed.
LEMMA ConfiguredStep ==
  ASSUME IInv, NEW k, SameState(k, kext), Becomes(k)
  PROVE  IInv' /\ KindOfStep
  <1>1. IInv' /\ kext' = k /\ waiting' = waiting
    BY SameStateOK, BecomesStep DEF IInv, SameState
  <1> QED
    BY <1>1 DEF SameState, KindOfStep, Configured

\* Something changes that the devices do not depend on.
LEMMA ConfiguredQuietlyStep ==
  ASSUME IInv, NEW k, SameState(k, kext), k.essential = kext.essential, BecomesQuietly(k)
  PROVE  IInv' /\ KindOfStep
  <1>1. KextOK(k)
    BY SameStateOK DEF IInv
  <1>2. IInv' /\ kext' = k /\ waiting' = waiting
    BY <1>1, QuietStep DEF SameState
  <1> QED
    BY <1>2 DEF SameState, KindOfStep, Configured

\* A user client closes, or its process ends.
LEMMA ClosedStep ==
  ASSUME IInv, kext.owner # Nobody, Becomes(CallbackClose(kext))
  PROVE  IInv' /\ KindOfStep
  <1> DEFINE k == CallbackClose(kext)
  <1>1. /\ IsRecord(k) /\ k.loaded = kext.loaded /\ k.owner = Nobody /\ k.initialized = FALSE
        /\ k.notification = FALSE /\ k.traces = kext.traces \cap {"negative lock"}
    BY CallbackCloseFields DEF IInv, KextOK
  <1> HIDE DEF k
  <1>2. KextOK(k)
    BY <1>1 DEF IInv, KextOK
  <1>3. IInv' /\ kext' = k /\ waiting' = waiting
    BY <1>1, <1>2, BecomesStep DEF k
  <1> QED
    BY <1>1, <1>3 DEF KindOfStep, Released

\* The owner switches remapping on or off: set_initialized, or a new vector.
LEMMA SwitchedStep ==
  ASSUME IInv, NEW k, IsRecord(k), Becomes(k), kext.owner # Nobody,
         k.loaded = kext.loaded, k.owner = kext.owner, k.initialized \in BOOLEAN,
         k.traces = kext.traces \cap {"negative lock"}
  PROVE  IInv' /\ KindOfStep
  <1>1. KextOK(k)
    BY DEF IInv, KextOK
  <1>2. IInv' /\ kext' = k /\ waiting' = waiting
    BY <1>1, BecomesStep
  <1> QED
    BY <1>2 DEF KindOfStep, Switched

\* The extension gets an owner.
LEMMA AcquiredStep ==
  ASSUME IInv, NEW s \in Servers, NEW k, IsRecord(k), BecomesQuietly(k),
         kext.loaded, kext.owner = Nobody, k.owner = s, k.loaded = kext.loaded,
         k.initialized = kext.initialized, k.essential = kext.essential, k.traces = kext.traces
  PROVE  IInv' /\ KindOfStep
  <1>1. s # Nobody
    BY SessionAssumption
  <1>2. KextOK(k)
    BY <1>1 DEF IInv, KextOK
  <1>3. IInv' /\ kext' = k /\ Hooked' = Hooked /\ waiting' = waiting
    BY <1>2, QuietStep
  <1> QED
    BY <1>3 DEF KindOfStep, Acquired

\* Every call of a server keeps the invariant and is one of these steps.
LEMMA CallStepKind ==
  ASSUME IInv, NEW s \in Servers, CallStep(s)
  PROVE  IInv' /\ KindOfStep
  <1>0. IsRecord(kext) /\ s # Nobody
    BY SessionAssumption DEF IInv, KextOK
  <1>1. CASE Refused(s)
    BY <1>1, IdleStep DEF Refused
  <1>2. CASE Close(s)
    BY <1>0, <1>2, IdleStep, ClosedStep DEF Close
  <1>3. CASE OpenSucceeds(s)
    <2> DEFINE q == [kext EXCEPT !.owner = s]
               k == [q EXCEPT !.notification = TRUE]
    <2>1. /\ IsRecord(q) /\ q.owner = s /\ q.loaded = kext.loaded
          /\ q.initialized = kext.initialized /\ q.essential = kext.essential
          /\ q.traces = kext.traces
      BY <1>0 DEF IsRecord
    <2>2. BecomesQuietly(k) /\ kext.loaded /\ kext.owner = Nobody
      BY <1>3 DEF OpenSucceeds
    <2> HIDE DEF q
    <2>3. k = [q EXCEPT !.notification = TRUE]
      OBVIOUS
    <2> HIDE DEF k
    <2>4. /\ IsRecord(k) /\ k.owner = s /\ k.loaded = kext.loaded
          /\ k.initialized = kext.initialized /\ k.essential = kext.essential
          /\ k.traces = kext.traces
      BY <2>1, <2>3 DEF IsRecord
    <2> QED BY <2>2, <2>4, AcquiredStep
  <1>4. CASE OpenFails(s)
    BY <1>4, IdleStep DEF OpenFails, Fails
  <1>5. CASE OpenThrows(s) \/ OpenRelaunches(s)
    <2> DEFINE k == [kext EXCEPT !.owner = s]
    <2>1. /\ IsRecord(k) /\ k.owner = s /\ k.loaded = kext.loaded
          /\ k.initialized = kext.initialized /\ k.essential = kext.essential
          /\ k.traces = kext.traces
      BY <1>0 DEF IsRecord
    <2>2. BecomesQuietly(k) /\ kext.loaded /\ kext.owner = Nobody
      BY <1>5 DEF OpenThrows, OpenRelaunches
    <2> HIDE DEF k
    <2> QED BY <2>1, <2>2, AcquiredStep
  <1>6. CASE SendVector(s)
    <2> DEFINE k == LoadVector(kext, server[s].xml)
    <2>1. /\ IsRecord(k) /\ k.loaded = kext.loaded /\ k.owner = kext.owner
          /\ k.initialized = FALSE /\ k.traces = kext.traces \cap {"negative lock"}
      BY <1>0, LoadVectorFields
    <2>2. Becomes(k) /\ kext.owner = s
      BY <1>6 DEF SendVector
    <2> HIDE DEF k
    <2>3. k.initialized \in BOOLEAN
      BY <2>1
    <2> QED BY <1>0, <2>1, <2>2, <2>3, SwitchedStep
  <1>7. CASE SendConfigAll(s)
    <2> DEFINE k == SetConfig(kext, server[s].xml, On(server[s]))
    <2>1. SameState(k, kext)
      BY <1>0, SetConfigFields
    <2>2. Becomes(k) \/ BecomesQuietly(kext)
      BY <1>7 DEF SendConfigAll
    <2> HIDE DEF k
    <2>3. CASE Becomes(k)
      BY <2>1, <2>3, ConfiguredStep
    <2>4. CASE BecomesQuietly(kext)
      BY <2>4, IdleStep
    <2> QED BY <2>2, <2>3, <2>4
  <1>8. CASE SendConfigOne(s)
    <2> DEFINE n == Head(server[s].todo).name
               k == SetConfigOne(kext, server[s].xml, n, n \in On(server[s]))
    <2>1. SameState(k, kext)
      BY <1>0, SetConfigFields
    <2>2. Becomes(k) \/ BecomesQuietly(kext)
      BY <1>8 DEF SendConfigOne
    <2> HIDE DEF k
    <2>3. CASE Becomes(k)
      BY <2>1, <2>3, ConfiguredStep
    <2>4. CASE BecomesQuietly(kext)
      BY <2>4, IdleStep
    <2> QED BY <2>2, <2>3, <2>4
  <1>9. CASE SendInitialized(s)
    <2> DEFINE k == SetInitialized(kext, TRUE)
    <2>1. /\ IsRecord(k) /\ k.loaded = kext.loaded /\ k.owner = kext.owner
          /\ k.initialized = TRUE /\ k.traces = kext.traces \cap {"negative lock"}
      BY <1>0, SetInitializedFields
    <2>2. Becomes(k) /\ kext.owner = s
      BY <1>9 DEF SendInitialized
    <2> HIDE DEF k
    <2>3. k.initialized \in BOOLEAN
      BY <2>1
    <2> QED BY <1>0, <2>1, <2>2, <2>3, SwitchedStep
  <1>10. CASE SendWorkspace(s)
    <2> DEFINE k == [kext EXCEPT !.workspace = server[s].ids]
    <2>1. SameState(k, kext) /\ k.essential = kext.essential
      BY <1>0 DEF SameState, IsRecord
    <2>2. BecomesQuietly(k)
      BY <1>10 DEF SendWorkspace
    <2> HIDE DEF k
    <2> QED BY <2>1, <2>2, ConfiguredQuietlyStep
  <1>11. CASE GetConfigEnabled(s)
    BY <1>11, IdleStep DEF GetConfigEnabled
  <1> QED
    BY <1>1, <1>2, <1>3, <1>4, <1>5, <1>6, <1>7, <1>8, <1>9, <1>10, <1>11 DEF CallStep

\* Every event from outside keeps the invariant and is one of these steps.
LEMMA EventKind ==
  ASSUME IInv, NEW s \in Servers,
         ServerStep(s) \/ UserStep(s) \/ SwitchUser \/ Upgrade
  PROVE  IInv' /\ KindOfStep
  <1>0. IsRecord(kext) /\ s # Nobody
    BY SessionAssumption DEF IInv, KextOK
  <1>1. CASE Poll(s) \/ Retry(s)
    BY <1>1, IdleStep DEF Poll, Retry, ServersOnly
  <1>2. CASE BlockStep(s)
    BY <1>2, IdleStep DEF BlockStep, RunIONotification, RunReloaded, RunListChanged,
         RunWorkspace, RunWake, RunNotification, Takes, ServersOnly
  <1>3. CASE CallStep(s)
    BY <1>3, CallStepKind
  <1>4. CASE Launch(s) \/ End(s)
    <2>1. ClientDies(s)
      BY <1>4 DEF Launch, End
    <2>2. CASE kext.owner = s /\ Becomes(CallbackClose(kext))
      BY <1>0, <2>2, ClosedStep
    <2>3. CASE BecomesQuietly(kext)
      BY <2>3, IdleStep
    <2> QED BY <2>1, <2>2, <2>3 DEF ClientDies
  <1>5. CASE ReloadXML(s) \/ SelectConfig(s) \/ EditConfigList(s) \/ ClearAllValues(s)
    BY <1>5, IdleStep DEF ReloadXML, SelectConfig, EditConfigList, ClearAllValues
  <1>6. CASE SetValue(s) \/ Wake(s) \/ ChangeFocus(s)
    BY <1>6, IdleStep DEF SetValue, Wake, ChangeFocus
  <1>7. CASE SwitchUser \/ Upgrade
    BY <1>7, IdleStep DEF SwitchUser, Upgrade
  <1> QED
    BY <1>1, <1>2, <1>3, <1>4, <1>5, <1>6, <1>7 DEF ServerStep, UserStep

\* An event is taken, remapped or done.
LEMMA UseKind ==
  ASSUME IInv, Take \/ Use \/ ToggleByKey \/ Drain
  PROVE  IInv' /\ KindOfStep
  <1>0. IsRecord(kext) /\ KextOK(kext)
    BY DEF IInv, KextOK
  <1>1. CASE Take
    <2>1. kext' = kext /\ RefreshNone /\ Hooked # {} /\ waiting' = TRUE
      BY <1>1 DEF Take
    <2>2. WaitingOK'
      BY <2>1, HookedHasOwner DEF WaitingOK
    <2>3. IInv' /\ Hooked' = Hooked
      BY <1>0, <2>1, <2>2, UnhookedStep
    <2> QED BY <2>1, <2>3 DEF KindOfStep, Taken
  <1>2. CASE Use
    <2> DEFINE k == [kext EXCEPT !.traces = Traces]
    <2>1. /\ IsRecord(k) /\ k.loaded = kext.loaded /\ k.owner = kext.owner
          /\ k.initialized = kext.initialized /\ k.essential = kext.essential
          /\ k.notification = kext.notification /\ k.traces = Traces
      BY <1>0 DEF IsRecord
    <2>2. BecomesQuietly(k) /\ waiting
      BY <1>2 DEF Use
    <2> HIDE DEF k
    <2>3. KextOK(k)
      BY <1>0, <2>1 DEF KextOK
    <2>4. IInv' /\ kext' = k /\ Hooked' = Hooked /\ waiting' = waiting
      BY <2>1, <2>2, <2>3, QuietStep
    <2> QED BY <2>1, <2>2, <2>4 DEF KindOfStep, Used
  <1>3. CASE ToggleByKey
    <2>1. PICK i \in DOMAIN kext.classes :
             BecomesQuietly([kext EXCEPT !.enabled = IF i \in @ THEN @ \ {i} ELSE @ \cup {i}])
      BY <1>3 DEF ToggleByKey
    <2> DEFINE e == IF i \in kext.enabled THEN kext.enabled \ {i} ELSE kext.enabled \cup {i}
               k == [kext EXCEPT !.enabled = e]
    <2>2. BecomesQuietly(k)
      BY <2>1
    <2> HIDE DEF e
    <2>3. SameState(k, kext) /\ k.essential = kext.essential
      BY <1>0 DEF SameState, IsRecord
    <2> HIDE DEF k
    <2> QED BY <2>2, <2>3, ConfiguredQuietlyStep
  <1>4. CASE Drain
    <2>1. kext' = kext /\ RefreshNone /\ waiting /\ waiting' = FALSE
      BY <1>4 DEF Drain
    <2>2. WaitingOK'
      BY <2>1 DEF WaitingOK
    <2>3. IInv' /\ Hooked' = Hooked
      BY <1>0, <2>1, <2>2, UnhookedStep
    <2> QED BY <2>1, <2>3 DEF KindOfStep, Drained
  <1> QED
    BY <1>1, <1>2, <1>3, <1>4

\* A device is connected or disconnected, or its actions are written.
LEMMA DeviceKind ==
  ASSUME IInv, (\E d \in Devices : DeviceStep(d)) \/ ProgressTimer
  PROVE  IInv' /\ KindOfStep
  <1> DEFINE W == Wanted(kext)
  <1>0. /\ DevOK(dev) /\ kext.loaded \in BOOLEAN
        /\ \A d \in Devices : HookedItem(dev[d], d) => d \in W
    BY HookedHasOwner DEF IInv, KextOK
  <1>1. UNCHANGED <<kext, waiting>>
    BY DEF DeviceStep, Connect, Disconnect, Overwrite, DriverSets, ProgressTimer
  <1>2. DevicesStep(W)
    <2>1. CASE ProgressTimer
      <3> HIDE DEF W
      <3>1. dev' = Refresh(dev, UNION {SameList(d) : d \in InProgress(dev)}, W)
        BY <2>1 DEF ProgressTimer, RefreshInProgressDevices, W
      <3> QED BY <1>0, <3>1, RefreshStep
    <2>2. CASE \E d \in Devices : DeviceStep(d)
      <3>1. PICK d \in Devices : DeviceStep(d)
        BY <2>2
      <3>2. CASE Connect(d)
        BY <1>0, <3>2, PushBackStep DEF Connect
      <3>3. CASE Disconnect(d)
        BY <1>0, <3>3, EraseStep DEF Disconnect
      <3>4. CASE Overwrite(d) \/ DriverSets(d)
        <4>1. \E i \in 1..ActionCount[d], v \in {"driver", "other"} :
                 dev' = [dev EXCEPT ![d].action[i] = v]
          BY <3>4 DEF Overwrite, DriverSets, OverwriteAction, SetAction
        <4> QED BY <1>0, <4>1, WriteActionStep
      <3> QED BY <3>1, <3>2, <3>3, <3>4 DEF DeviceStep
    <2> QED BY <2>1, <2>2
  <1> QED
    BY <1>1, <1>2, OnlyDevicesStep DEF KindOfStep, Configured

\* The kernel extension is unloaded, or loaded again.
LEMMA LoadKind ==
  ASSUME IInv, Load \/ Unload
  PROVE  IInv' /\ KindOfStep
  <1>1. /\ IsRecord(kext') /\ kext'.owner = Nobody /\ kext'.initialized = FALSE
        /\ kext'.loaded \in BOOLEAN /\ kext'.notification = FALSE /\ kext'.traces = {}
    <2> DEFINE k == NewKext
    <2>1. /\ IsRecord(k) /\ k.owner = Nobody /\ k.initialized = FALSE
          /\ k.loaded \in BOOLEAN /\ k.notification = FALSE /\ k.traces = {}
      BY DEF NewKext, IsRecord
    <2>2. CASE Load
      <3>1. kext' = k
        BY <2>2 DEF Load
      <3> HIDE DEF k
      <3> QED BY <2>1, <3>1 DEF IsRecord
    <2>3. CASE Unload
      <3> DEFINE q == [k EXCEPT !.loaded = FALSE]
      <3>1. kext' = [q EXCEPT !.version = kext.version]
        BY <2>3 DEF Unload
      <3>2. q = [k EXCEPT !.loaded = FALSE]
        OBVIOUS
      <3> HIDE DEF k, q
      <3>3. /\ IsRecord(q) /\ q.owner = Nobody /\ q.initialized = FALSE
            /\ q.loaded = FALSE /\ q.notification = FALSE /\ q.traces = {}
        BY <2>1, <3>2 DEF IsRecord
      <3> QED BY <3>1, <3>3 DEF IsRecord
    <2> QED BY <2>2, <2>3
  <1>2. KextOK(kext')
    BY <1>1 DEF KextOK
  <1>3. DevicesStep(Wanted(kext'))
    <2>1. CASE Unload
      BY <2>1, TerminateStep DEF Unload, IInv
    <2>2. CASE Load
      <3>1. \A d \in Devices : ~HookedItem(dev[d], d)
        BY <2>2, HookedHasOwner, HookedIsHookedItem DEF Load
      <3>2. DevicesStep({})
        BY <2>2, <3>1, InitializeStep DEF Load, IInv
      <3> QED BY <3>2 DEF DevicesStep
    <2> QED BY <2>1, <2>2
  <1>4. waiting' = FALSE
    BY DEF Load, Unload, IInv, WaitingOK
  <1> QED
    BY <1>1, <1>2, <1>3, <1>4, DevicesInvariant DEF KindOfStep, Released, WaitingOK

\* The invariant is inductive, and every step is of one of the kinds.
LEMMA NextStep ==
  ASSUME IInv, [Next]_vars
  PROVE  IInv' /\ KindOfStep
  <1>1. CASE UNCHANGED vars
    <2>1. BecomesQuietly(kext)
      BY <1>1 DEF vars, BecomesQuietly, RefreshNone
    <2> QED BY <2>1, IdleStep
  <1>2. CASE \E s \in Servers : ServerStep(s) \/ UserStep(s)
    BY <1>2, EventKind
  <1>3. CASE SwitchUser \/ Upgrade
    BY <1>3, IdleStep DEF SwitchUser, Upgrade
  <1>6. CASE Take \/ Use \/ ToggleByKey \/ Drain
    BY <1>6, UseKind
  <1>4. CASE (\E d \in Devices : DeviceStep(d)) \/ ProgressTimer
    BY <1>4, DeviceKind
  <1>5. CASE Load \/ Unload
    BY <1>5, LoadKind
  <1> QED
    BY <1>1, <1>2, <1>3, <1>4, <1>5, <1>6 DEF Next

\* The invariant holds at the start.
LEMMA InitInv ==
  ASSUME Init
  PROVE  IInv /\ Own!Init
  <1>1. /\ KextOK(kext) /\ ~kext.initialized
        /\ kext.owner = Nobody /\ kext.traces = {} /\ waiting = FALSE
    BY DEF Init, NewKext, KextOK, IsRecord
  <1>2. ASSUME NEW d \in Devices
        PROVE  ItemOK(dev[d], d) /\ ~HookedItem(dev[d], d)
    <2> DEFINE a == [i \in 1..ActionCount[d] |-> "driver"]
    <2>1. dev[d] = Plugged(d, TRUE, a) \/ dev[d] = Unplugged(d)
      BY DEF Init
    <2>2. a \in [1..ActionCount[d] -> {"null", "driver"}]
      OBVIOUS
    <2> HIDE DEF a
    <2> QED BY <2>1, <2>2, PluggedItem, UnpluggedItem
  <1>3. dev = [d \in Devices |-> dev[d]]
    BY DEF Init
  <1>4. Hooked = {}
    BY <1>2, HookedIsHookedItem
  <1>5. Own!Init
    BY <1>1, <1>4 DEF KextOK, Own!Init
  <1> QED
    BY <1>1, <1>2, <1>3, <1>4, <1>5 DEF IInv, DevOK, HookedAreWanted, WaitingOK

-----------------------------------------------------------------------------
(* Devices and owners: the theorems *)

\* The inductive invariant holds in every behaviour.
LEMMA Invariance == Spec => []IInv
  <1>1. Init => IInv
    BY InitInv
  <1>2. IInv /\ [Next]_vars => IInv'
    BY NextStep
  <1> QED
    BY <1>1, <1>2, PTL DEF Spec

\* Wherever Karabiner's callback is installed, the action that restoreEventAction
\* puts back is known and is not Karabiner's own.
THEOREM OriginalKeptHolds == Spec => []OriginalKept
  <1>1. IInv => OriginalKept
    BY DEF IInv, DevOK, ItemOK, OriginalKept
  <1> QED
    BY <1>1, Invariance, PTL

\* No device is hooked that the configuration of the moment leaves alone: no step
\* of UserClient_kext, Config or Core misses the refresh.
THEOREM HookedAreWantedHolds == Spec => []HookedAreWanted
  <1>1. IInv => HookedAreWanted
    BY DEF IInv
  <1> QED
    BY <1>1, Invariance, PTL

\* A step of Session is a step of Ownership, or leaves its variables alone.
LEMMA OwnershipStep ==
  ASSUME IInv, IInv', KindOfStep
  PROVE  [Own!Next]_(Own!vars)
  <1> DEFINE N == {"negative lock"}
  <1>0. /\ kext.initialized \in BOOLEAN /\ kext'.initialized \in BOOLEAN
        /\ Hooked \subseteq Devices /\ Hooked' \subseteq Devices
        /\ ~kext.initialized => Hooked = {}
        /\ ~kext'.initialized => Hooked' = {}
        /\ kext.owner = Nobody => ~kext.initialized
        /\ kext'.owner = Nobody => ~kext'.initialized
    BY NothingWanted DEF IInv, KextOK, HookedAreWanted, Hooked
  <1>1. CASE Configured
    <2>1. CASE kext.initialized
      BY <1>0, <1>1, <2>1 DEF Configured, Own!Next, Own!Hook
    <2>2. CASE ~kext.initialized
      BY <1>0, <1>1, <2>2 DEF Configured, Own!vars
    <2> QED BY <1>0, <2>1, <2>2
  <1>2. CASE Switched
    <2>1. kext'.traces \ N = {}
      BY <1>2 DEF Switched
    <2> QED BY <1>0, <1>2, <2>1 DEF Switched, Own!Next, Own!Switch
  <1>3. CASE Used
    BY <1>3 DEF Used, Own!Next, Own!Use
  <1>4. CASE Acquired
    BY <1>4 DEF Acquired, Own!Next, Own!Acquire
  <1>5. CASE Released
    <2>1. kext'.owner = Nobody /\ kext'.traces \ N = {}
      BY <1>5 DEF Released
    <2>2. CASE kext.owner = Nobody
      <3>1. /\ waiting' = FALSE /\ kext.initialized = FALSE /\ kext'.initialized = FALSE
            /\ Hooked = {} /\ Hooked' = {}
        BY <1>0, <1>5, <2>1, <2>2 DEF Released
      <3> QED BY <2>1, <2>2, <3>1 DEF Own!Next, Own!Clear
    <2>3. CASE kext.owner # Nobody
      <3>1. /\ waiting' \in {waiting, FALSE} /\ kext'.initialized = FALSE /\ Hooked' = {}
        BY <1>0, <1>5, <2>1 DEF Released
      <3> QED BY <2>1, <2>3, <3>1 DEF Own!Next, Own!Release
    <2> QED BY <2>2, <2>3
  <1>6. CASE Taken
    BY <1>6 DEF Taken, Own!Next, Own!Take
  <1>7. CASE Drained
    BY <1>7 DEF Drained, Own!Next, Own!Drain
  <1> QED
    BY <1>1, <1>2, <1>3, <1>4, <1>5, <1>6, <1>7 DEF KindOfStep

\* Session implements Ownership: callback_close, set_initialized, the loading of a
\* vector and the loading and unloading of the extension give the devices back and
\* end locks and repetitions in the same step; whoever is the owner, a new lock or
\* repetition comes only from an event that was taken while a device was hooked.
THEOREM OwnershipRefinedHolds == Spec => OwnershipRefined
  <1>1. Init => IInv /\ Own!Init
    BY InitInv
  <1>2. IInv /\ [Next]_vars => IInv' /\ [Own!Next]_(Own!vars)
    BY NextStep, OwnershipStep
  <1> QED
    BY <1>1, <1>2, PTL DEF Spec, OwnershipRefined, Own!Spec

-----------------------------------------------------------------------------
(* The extension in sync: the inductive invariant *)

In(e, q) == \E j \in 1..Len(q) : q[j] = e

Reloaded    == Block("reloaded", 0)
ListChanged == Block("listChanged", 0)
Workspace   == Block("workspace", 0)
Notify(i)   == Block("notify", i)

VectorWaits(x)      == In(Call("vector"), x.todo) \/ In(Reloaded, x.queue)
ConfigWaits(x)      == \/ In(Call("config"), x.todo)
                       \/ In(Reloaded, x.queue) \/ In(ListChanged, x.queue)
InitializedWaits(x) == \/ In(Call("initialized"), x.todo)
                       \/ In(Reloaded, x.queue) \/ In(ListChanged, x.queue)
WorkspaceWaits(x)   == In(Call("workspace"), x.todo) \/ In(Workspace, x.queue)
EnabledWaits(x, i)  == In(GetEnabled(i), x.todo) \/ In(Notify(i), x.queue)

\* What LoadVector makes of a vector.
Loaded(v) == IF Len(v) <= MaxConfigCount THEN v ELSE <<>>

EssentialSynced(k, x) ==
    /\ k.essential \subseteq Essential \cup AutoEnable
    /\ AutoEnable \subseteq k.essential
    /\ \A e \in Essential \ AutoEnable :
          (e \in k.essential <=> e \in x.prefs) \/ In(SetOne(e), x.todo)

EnabledSynced(k, x) ==
    /\ k.enabled \subseteq DOMAIN x.xml
    /\ \A i \in DOMAIN x.xml :
          \/ (i \in k.enabled <=> x.xml[i] \in x.prefs)
          \/ In(SetOne(x.xml[i]), x.todo) \/ EnabledWaits(x, i)

\* The extension k has what its owner x has, but for what is on its way.
Synced(k, x) ==
    /\ k.notification
    /\ k.classes = Loaded(x.xml) \/ VectorWaits(x)
    /\ k.initialized \/ InitializedWaits(x)
    /\ k.workspace = x.ids \/ WorkspaceWaits(x)
    /\ \/ EssentialSynced(k, x) /\ EnabledSynced(k, x)
       \/ ConfigWaits(x) \/ Len(x.xml) > MaxConfigCount

\* A vector is the first call of its block, and is followed by the settings;
\* nothing is opened that is open already.
TodoOK(t, owns) ==
    /\ \A j \in 1..Len(t) :
          t[j] = Call("vector") => j = 1 /\ In(Call("config"), t) /\ In(Call("initialized"), t)
    /\ In(Call("open"), t) =>
          t = <<Call("close"), Call("open")>> \/ (t = <<Call("open")>> /\ ~owns)

\* The server serves its user: it has not failed, and is not about to reconnect.
Serving(k, s, x) ==
    /\ k.owner = s /\ x.proc = "up"
    /\ ~x.alert /\ ~x.timer /\ ~In(Call("close"), x.todo)

\* Who retries has not given up.
RetryOK(x) == x.timer \/ In(Call("open"), x.todo) => x.retry <= MaxRetry

ServerOK(k, s, x) ==
    /\ x.auto /\ RetryOK(x)
    /\ TodoOK(x.todo, k.owner = s)
    /\ x.proc = "up" => x.ids = <<x.focus, x.xml>> \/ In(Workspace, x.queue)
    /\ k.owner = s => x.proc # "down" /\ (x.proc = "up" => x.connect)
    /\ Serving(k, s, x) => Synced(k, x)

SyncInv ==
    /\ disk \in 1..MaxVersion /\ kext \in Kext /\ server \in [Servers -> Server]
    /\ \A s \in Servers : ServerOK(kext, s, server[s])

-----------------------------------------------------------------------------
(* What is in a queue *)

\* Appending, and taking the head.
LEMMA InQueue ==
  ASSUME NEW S, NEW q \in Seq(S)
  PROVE  /\ \A b : ~In(b, <<>>)
         /\ \A e \in S : \A b : In(b, Append(q, e)) <=> In(b, q) \/ b = e
         /\ q # <<>> => /\ Head(q) \in S /\ Tail(q) \in Seq(S)
                        /\ \A b : In(b, q) <=> b = Head(q) \/ In(b, Tail(q))
  <1>1. \A b : ~In(b, <<>>)
    BY DEF In
  <1>2. ASSUME NEW e \in S, NEW b
        PROVE  In(b, Append(q, e)) <=> In(b, q) \/ b = e
    <2>1. /\ Len(q) \in Nat /\ Len(Append(q, e)) = Len(q) + 1
          /\ \A j \in 1..Len(q) : Append(q, e)[j] = q[j]
          /\ Append(q, e)[Len(q) + 1] = e
      OBVIOUS
    <2> QED BY <2>1 DEF In
  <1>3. ASSUME q # <<>>, NEW b
        PROVE  In(b, q) <=> b = Head(q) \/ In(b, Tail(q))
    <2>1. /\ Len(q) \in Nat \ {0} /\ Len(Tail(q)) = Len(q) - 1 /\ Head(q) = q[1]
          /\ \A j \in 1..Len(q) - 1 : Tail(q)[j] = q[j + 1]
      BY <1>3
    <2>2. ASSUME In(b, q) PROVE b = Head(q) \/ In(b, Tail(q))
      <3>1. PICK j \in 1..Len(q) : q[j] = b
        BY <2>2 DEF In
      <3>2. CASE j = 1
        BY <2>1, <3>1, <3>2
      <3>3. CASE j # 1
        <4>1. j - 1 \in 1..Len(Tail(q)) /\ Tail(q)[j - 1] = b
          BY <2>1, <3>1, <3>3
        <4> QED BY <4>1 DEF In
      <3> QED BY <3>2, <3>3
    <2>3. ASSUME In(b, Tail(q)) PROVE In(b, q)
      <3>1. PICK j \in 1..Len(Tail(q)) : Tail(q)[j] = b
        BY <2>3 DEF In
      <3>2. j + 1 \in 1..Len(q) /\ q[j + 1] = b
        BY <2>1, <3>1
      <3> QED BY <3>2 DEF In
    <2>4. b = Head(q) => In(b, q)
      BY <2>1 DEF In
    <2> QED BY <2>2, <2>3, <2>4
  <1>4. q # <<>> => Head(q) \in S /\ Tail(q) \in Seq(S)
    OBVIOUS
  <1> QED
    BY <1>1, <1>2, <1>3, <1>4

\* Appending to a queue.
LEMMA InAppend ==
  ASSUME NEW S, NEW q \in Seq(S), NEW e \in S
  PROVE  Append(q, e) \in Seq(S) /\ \A b : In(b, Append(q, e)) <=> In(b, q) \/ b = e
  <1>1. Append(q, e) \in Seq(S)
    OBVIOUS
  <1> QED
    BY <1>1, InQueue

\* The elements of a concatenation.
LEMMA ConcatElements ==
  ASSUME NEW S, NEW p \in Seq(S), NEW q \in Seq(S)
  PROVE  /\ Len(p \o q) = Len(p) + Len(q)
         /\ \A j \in 1..Len(p) : (p \o q)[j] = p[j]
         /\ \A j \in 1..Len(q) : (p \o q)[Len(p) + j] = q[j]
  OBVIOUS

\* What is in a concatenation.
LEMMA InConcat ==
  ASSUME NEW S, NEW p \in Seq(S), NEW q \in Seq(S)
  PROVE  \A b : In(b, p \o q) <=> In(b, p) \/ In(b, q)
  <1> SUFFICES ASSUME NEW b PROVE In(b, p \o q) <=> In(b, p) \/ In(b, q)
    OBVIOUS
  <1>1. /\ Len(p) \in Nat /\ Len(q) \in Nat /\ Len(p \o q) = Len(p) + Len(q)
        /\ \A j \in 1..Len(p) : (p \o q)[j] = p[j]
        /\ \A j \in 1..Len(q) : (p \o q)[Len(p) + j] = q[j]
    BY ConcatElements
  <1>2. ASSUME In(b, p \o q) PROVE In(b, p) \/ In(b, q)
    <2>1. PICK j \in 1..Len(p \o q) : (p \o q)[j] = b
      BY <1>2 DEF In
    <2>2. CASE j <= Len(p)
      BY <1>1, <2>1, <2>2 DEF In
    <2>3. CASE j > Len(p)
      <3>1. j - Len(p) \in 1..Len(q) /\ j = Len(p) + (j - Len(p))
        BY <1>1, <2>1, <2>3
      <3>2. q[j - Len(p)] = b
        BY <1>1, <2>1, <3>1
      <3> QED BY <3>1, <3>2 DEF In
    <2> QED BY <1>1, <2>1, <2>2, <2>3
  <1>3. In(b, p) => In(b, p \o q)
    BY <1>1 DEF In
  <1>4. ASSUME In(b, q) PROVE In(b, p \o q)
    <2>1. PICK j \in 1..Len(q) : q[j] = b
      BY <1>4 DEF In
    <2>2. Len(p) + j \in 1..Len(p \o q) /\ (p \o q)[Len(p) + j] = b
      BY <1>1, <2>1
    <2> QED BY <2>2 DEF In
  <1> QED
    BY <1>2, <1>3, <1>4

\* The sequences of one and of two.
LEMMA InShort ==
  /\ \A a, b : In(b, <<a>>) <=> b = a
  /\ \A a, b, c : In(b, <<a, c>>) <=> b = a \/ b = c
  BY DEF In

-----------------------------------------------------------------------------
(* What a block sends *)

\* The names of a vector: each class has one, no essential setting is among them.
LEMMA VectorFacts ==
  ASSUME NEW v \in Vectors
  PROVE  /\ v \in Seq(ClassNames) /\ Len(v) \in Nat /\ DOMAIN v = 1..Len(v)
         /\ \A i \in DOMAIN v : /\ v[i] \in Names /\ v[i] \notin Essential \cup AutoEnable
                                /\ i \in UNION {DOMAIN w : w \in Vectors}
         /\ \A i, j \in DOMAIN v : v[i] = v[j] => i = j
  <1>1. v \in Seq(ClassNames)
    BY VectorsAssumption
  <1>2. \A i, j \in DOMAIN v : v[i] = v[j] => i = j
    BY VectorsAssumption DEF IsInjective
  <1>3. \A i \in DOMAIN v : v[i] \in ClassNames
    BY <1>1
  <1>4. \A i \in DOMAIN v : v[i] \in Names /\ v[i] \notin Essential \cup AutoEnable
    BY <1>3, VectorsAssumption DEF Names
  <1>5. \A i \in DOMAIN v : i \in UNION {DOMAIN w : w \in Vectors}
    OBVIOUS
  <1> QED
    BY <1>1, <1>2, <1>4, <1>5

\* The calls, one by one.
LEMMA CallTypes ==
  /\ \A op \in {"close", "open", "vector", "config", "initialized", "workspace"} : Call(op) \in Calls
  /\ \A n \in Names \cup AutoEnable : SetOne(n) \in Calls
  /\ \A i \in UNION {DOMAIN v : v \in Vectors} : GetEnabled(i) \in Calls
  BY DEF Calls

LEMMA BlockTypes ==
  /\ \A op \in {"io", "reloaded", "workspace", "listChanged", "wake"} : Block(op, 0) \in Blocks
  /\ \A i \in UNION {DOMAIN v : v \in Vectors} : Notify(i) \in Blocks
  BY DEF Blocks, Notify

\* The operations of calls and blocks, to tell them apart.
LEMMA Ops ==
  /\ \A op : Call(op).op = op
  /\ \A n : SetOne(n).op = "one" /\ SetOne(n).name = n
  /\ \A i : GetEnabled(i).op = "get" /\ GetEnabled(i).index = i
  /\ \A op, i : Block(op, i).op = op /\ Block(op, i).arg = i
  BY DEF Call, SetOne, GetEnabled, Block

\* send_config_to_kext for notsave.automatically_enable_*
LEMMA SetAutoCalls ==
  SetAuto \in Seq(Calls) /\ \A b : In(b, SetAuto) => \E n \in AutoEnable : b = SetOne(n)
  <1> DEFINE S == {SetOne(n) : n \in AutoEnable}
             m == Cardinality(S)
  <1>1. IsFiniteSet(S)
    <2> DEFINE A == {SetOne("keyboard")}
               B == {SetOne("pointing")}
    <2>1. S \subseteq A \cup B
      BY SessionAssumption
    <2>2. IsFiniteSet(A) /\ IsFiniteSet(B)
      BY FS_Singleton
    <2> HIDE DEF A, B, S
    <2>3. IsFiniteSet(A \cup B)
      BY <2>2, FS_Union
    <2> QED BY <2>1, <2>3, FS_Subset
  <1>2. /\ m \in Nat
        /\ \E f \in [1..m -> S] : IsInjective(f)
    <2>1. m \in Nat /\ ExistsBijection(1..m, S)
      BY <1>1, FS_CardinalityType
    <2>2. PICK f \in Bijection(1..m, S) : TRUE
      BY <2>1 DEF ExistsBijection
    <2>3. f \in [1..m -> S] /\ IsInjective(f)
      BY <2>2 DEF Bijection, Injection, IsInjective
    <2> QED BY <2>1, <2>3
  <1>3. SetAuto = CHOOSE f \in [1..m -> S] : IsInjective(f)
    BY DEF SetAuto, SetToSeq
  <1>4. SetAuto \in [1..m -> S]
    <2> HIDE DEF m, S
    <2> QED BY <1>2, <1>3
  <1>5. S \subseteq Calls
    BY CallTypes
  <1>6. SetAuto \in Seq(S) /\ Len(SetAuto) = m
    <2> HIDE DEF m, S
    <2> QED BY <1>2, <1>4
  <1>7. \A j \in 1..Len(SetAuto) : SetAuto[j] \in S
    BY <1>4, <1>6
  <1>8. SetAuto \in Seq(Calls)
    <2> HIDE DEF m, S
    <2> QED BY <1>5, <1>6
  <1> QED
    BY <1>7, <1>8 DEF In

\* A sequence of calls that sends all settings.
Sends(t, ops) ==
    /\ t \in Seq(Calls) /\ In(Call("config"), t)
    /\ \A b : In(b, t) => b.op \in ops

LEMMA SendConfigCalls ==
  \A x : Sends(SendConfig(x), {"one", "config"})
  <1>1. <<Call("config")>> \in Seq(Calls) /\ \A b : In(b, <<Call("config")>>) <=> b = Call("config")
    BY CallTypes, InShort
  <1>2. \A b : In(b, SetAuto) => b.op = "one"
    BY SetAutoCalls, Ops
  <1>3. SetAuto \o <<Call("config")>> \in Seq(Calls)
    BY <1>1, SetAutoCalls
  <1>4. Sends(SetAuto \o <<Call("config")>>, {"one", "config"})
    <2>1. \A b : In(b, SetAuto \o <<Call("config")>>) <=> In(b, SetAuto) \/ b = Call("config")
      BY <1>1, SetAutoCalls, InConcat
    <2> QED BY <1>2, <1>3, <2>1, Ops DEF Sends
  <1>5. <<>> \o <<Call("config")>> = <<Call("config")>>
    OBVIOUS
  <1>6. Sends(<<>> \o <<Call("config")>>, {"one", "config"})
    BY <1>1, <1>5, Ops DEF Sends
  <1> QED
    BY <1>4, <1>6 DEF SendConfig

LEMMA ClearNotSaveCalls ==
  ASSUME NEW x
  PROVE  /\ x.auto => Sends(ClearNotSave(x), {"one", "config"})
         /\ ~x.auto => ClearNotSave(x) = <<>>
  BY SendConfigCalls DEF ClearNotSave

LEMMA SendSettingsCalls ==
  ASSUME NEW x, x.auto
  PROVE  /\ Sends(SendSettings(x), {"one", "config", "initialized"})
         /\ In(Call("initialized"), SendSettings(x))
  <1> DEFINE c == ClearNotSave(x)
             d == SendConfig(x)
             e == <<Call("initialized")>>
  <1>1. Sends(c, {"one", "config"}) /\ Sends(d, {"one", "config"})
    BY ClearNotSaveCalls, SendConfigCalls
  <1>2. e \in Seq(Calls) /\ \A b : In(b, e) <=> b = Call("initialized")
    BY CallTypes, InShort
  <1>3. SendSettings(x) = (c \o d) \o e
    BY DEF SendSettings
  <1> HIDE DEF c, d, e
  <1>4. c \o d \in Seq(Calls) /\ (c \o d) \o e \in Seq(Calls)
    BY <1>1, <1>2 DEF Sends
  <1>5. \A b : In(b, (c \o d) \o e) <=> In(b, c) \/ In(b, d) \/ In(b, e)
    BY <1>1, <1>2, <1>4, InConcat DEF Sends
  <1> QED
    BY <1>1, <1>2, <1>3, <1>4, <1>5, Ops DEF Sends

\* Such a sequence opens nothing and closes nothing, also after the vector.
LEMMA SendsTodo ==
  ASSUME NEW t, Sends(t, {"one", "config", "initialized"}), NEW owns
  PROVE  /\ TodoOK(t, owns) /\ ~In(Call("close"), t) /\ ~In(Call("vector"), t)
         /\ ~In(Call("open"), t)
         /\ In(Call("initialized"), t) =>
               LET u == <<Call("vector")>> \o t
               IN  /\ u \in Seq(Calls) /\ TodoOK(u, owns) /\ ~In(Call("open"), u)
                   /\ \A b : In(b, u) <=> b = Call("vector") \/ In(b, t)
  <1>1. ~In(Call("close"), t) /\ ~In(Call("vector"), t) /\ ~In(Call("open"), t)
    BY Ops DEF Sends
  <1>2. TodoOK(t, owns)
    BY <1>1 DEF TodoOK, In
  <1>3. ASSUME In(Call("initialized"), t)
        PROVE  LET u == <<Call("vector")>> \o t
               IN  /\ u \in Seq(Calls) /\ TodoOK(u, owns) /\ ~In(Call("open"), u)
                   /\ \A b : In(b, u) <=> b = Call("vector") \/ In(b, t)
    <2> DEFINE v == <<Call("vector")>>
               u == v \o t
    <2>1. v \in Seq(Calls) /\ Len(v) = 1 /\ \A b : In(b, v) <=> b = Call("vector")
      BY CallTypes, InShort
    <2>2. u = v \o t
      OBVIOUS
    <2> HIDE DEF v, u
    <2>3. t \in Seq(Calls) /\ u \in Seq(Calls) /\ \A b : In(b, u) <=> b = Call("vector") \/ In(b, t)
      BY <2>1, <2>2, InConcat DEF Sends
    <2>4. Len(u) = 1 + Len(t) /\ Len(t) \in Nat /\ \A j \in 1..Len(t) : u[1 + j] = t[j]
      <3>1. t \in Seq(Calls) /\ v \in Seq(Calls) /\ Len(v) = 1
        BY <2>1, <2>3
      <3>2. Len(v \o t) = Len(v) + Len(t) /\ \A j \in 1..Len(t) : (v \o t)[Len(v) + j] = t[j]
        BY <3>1, ConcatElements
      <3> QED BY <2>2, <3>1, <3>2
    <2>5. ASSUME NEW j \in 1..Len(u), u[j] = Call("vector") PROVE j = 1
      <3>1. CASE j # 1
        <4>1. j - 1 \in 1..Len(t) /\ t[j - 1] = Call("vector")
          BY <2>4, <2>5, <3>1
        <4> QED BY <1>1, <4>1 DEF In
      <3> QED BY <3>1
    <2>6. In(Call("config"), u) /\ In(Call("initialized"), u) /\ ~In(Call("open"), u)
      BY <1>1, <1>3, <2>3, Ops DEF Sends
    <2>7. TodoOK(u, owns)
      BY <2>5, <2>6 DEF TodoOK
    <2> QED BY <2>3, <2>6, <2>7 DEF u, v
  <1> QED
    BY <1>1, <1>2, <1>3

-----------------------------------------------------------------------------
(* A step of one server *)

\* Who does not own the extension does not depend on it.
LEMMA NotOwner ==
  ASSUME NEW k, NEW r, NEW s, NEW x, ServerOK(k, s, x), r.owner # s
  PROVE  ServerOK(r, s, x)
  BY DEF ServerOK, TodoOK, Serving

\* The server s becomes y, and the extension only concerns s.
LEMMA OneServer ==
  ASSUME SyncInv, NEW s \in Servers, NEW y \in Server, server' = [server EXCEPT ![s] = y],
         disk' \in 1..MaxVersion, kext' \in Kext, ServerOK(kext', s, y),
         kext' = kext \/ \A r \in Servers \ {s} : kext'.owner # r
  PROVE  SyncInv'
  <1>1. server \in [Servers -> Server] /\ \A r \in Servers : ServerOK(kext, r, server[r])
    BY DEF SyncInv
  <1>2. server' \in [Servers -> Server]
    BY <1>1
  <1>3. ASSUME NEW r \in Servers PROVE ServerOK(kext', r, server'[r])
    <2>1. CASE r = s
      BY <1>1, <2>1
    <2>2. CASE r # s
      <3>1. server'[r] = server[r] /\ ServerOK(kext, r, server[r])
        BY <1>1, <2>2
      <3>2. CASE kext' = kext
        BY <3>1, <3>2
      <3>3. CASE kext'.owner # r
        BY <3>1, <3>3, NotOwner
      <3> QED BY <2>2, <3>2, <3>3
    <2> QED BY <2>1, <2>2
  <1>4. \A r \in Servers : ServerOK(kext, r, server[r])'
    BY <1>3 DEF ServerOK, Serving, Synced, EssentialSynced, EnabledSynced, VectorWaits, ConfigWaits,
         InitializedWaits, WorkspaceWaits, EnabledWaits, In, TodoOK
  <1> QED
    BY <1>2, <1>4 DEF SyncInv

\* What waits in x waits in y, too, and so does what has changed.
Carries(x, y) ==
    /\ VectorWaits(x) => VectorWaits(y)
    /\ ConfigWaits(x) => ConfigWaits(y)
    /\ InitializedWaits(x) => InitializedWaits(y)
    /\ WorkspaceWaits(x) => WorkspaceWaits(y)
    /\ y.xml = x.xml \/ In(Reloaded, y.queue)
    /\ y.ids = x.ids \/ WorkspaceWaits(y)
    /\ \/ ConfigWaits(y)
       \/ /\ \A n \in Names : \/ In(SetOne(n), y.todo)
                              \/ (n \in y.prefs <=> n \in x.prefs) /\ ~In(SetOne(n), x.todo)
          /\ \A i : EnabledWaits(x, i) => EnabledWaits(y, i)

LEMMA CarriesSynced ==
  ASSUME NEW k, NEW x \in Server, NEW y, Synced(k, x), Carries(x, y)
  PROVE  Synced(k, y)
  <1>1. CASE In(Reloaded, y.queue)
    BY <1>1 DEF Synced, Carries, VectorWaits, ConfigWaits, InitializedWaits
  <1>2. CASE y.xml = x.xml
    <2>1. x.xml \in Vectors
      BY DEF Server
    <2>2. /\ Essential \subseteq Names /\ \A i \in DOMAIN x.xml : x.xml[i] \in Names
      BY <2>1, VectorFacts DEF Names
    <2>3. ASSUME ~ConfigWaits(y), EssentialSynced(k, x), EnabledSynced(k, x)
          PROVE  EssentialSynced(k, y) /\ EnabledSynced(k, y)
      BY <1>2, <2>2, <2>3 DEF Carries, EssentialSynced, EnabledSynced
    <2> QED BY <1>2, <2>3 DEF Synced, Carries
  <1> QED
    BY <1>1, <1>2 DEF Carries

\* A step of a server that runs, and leaves the extension alone.
LEMMA CarryStep ==
  ASSUME NEW k, NEW s, NEW x \in Server, NEW y, ServerOK(k, s, x), x.proc = "up",
         y.auto, RetryOK(y), TodoOK(y.todo, k.owner = s),
         y.ids = <<y.focus, y.xml>> \/ In(Workspace, y.queue),
         y.proc = x.proc, y.connect = x.connect,
         Serving(k, s, y) => Serving(k, s, x),
         x.connect => Carries(x, y)
  PROVE  ServerOK(k, s, y)
  <1>1. ASSUME Serving(k, s, y) PROVE Synced(k, y)
    <2>1. Serving(k, s, x) /\ Synced(k, x) /\ x.connect
      BY <1>1 DEF ServerOK, Serving
    <2> QED BY <2>1, CarriesSynced
  <1> QED
    BY <1>1 DEF ServerOK

\* The main thread goes on as z, with the calls t.
LEMMA ContinueStep ==
  ASSUME SyncInv, NEW s \in Servers, MainThread(s), NEW z \in Server, NEW t \in Seq(Calls),
         Continue(s, z, t), kext' = kext, disk' \in 1..MaxVersion,
         z.auto, TodoOK(t, kext.owner = s),
         z.ids = <<z.focus, z.xml>> \/ In(Workspace, z.queue),
         z.proc = "up", z.connect = server[s].connect,
         \/ In(Call("close"), t)
         \/ ~z.alert /\ ~z.timer => ~server[s].alert /\ ~server[s].timer,
         \/ z.retry = 0
         \/ z.retry = server[s].retry /\ (z.timer \/ In(Call("open"), t) => server[s].timer),
         z.connect => Carries(server[s], [z EXCEPT !.todo = t])
  PROVE  SyncInv'
  <1> DEFINE x == server[s]
             y == [z EXCEPT !.todo = t]
  <1>1. x \in Server /\ ServerOK(kext, s, x) /\ x.proc = "up" /\ x.todo = <<>> /\ kext \in Kext
    BY DEF SyncInv, MainThread
  <1>2. /\ y \in Server /\ y.todo = t
        /\ y.auto = z.auto /\ y.ids = z.ids /\ y.focus = z.focus /\ y.xml = z.xml
        /\ y.queue = z.queue /\ y.proc = z.proc /\ y.connect = z.connect
        /\ y.alert = z.alert /\ y.timer = z.timer /\ y.retry = z.retry
    BY DEF Server
  <1>3. ~In(Call("close"), x.todo)
    BY <1>1, InQueue
  <1>4. server' = [server EXCEPT ![s] = y]
    BY DEF Continue
  <1>5. z.connect => Carries(x, y)
    OBVIOUS
  <1>6. /\ x.connect = z.connect
        /\ In(Call("close"), t) \/ (~z.alert /\ ~z.timer => ~x.alert /\ ~x.timer)
    OBVIOUS
  <1> HIDE DEF x, y
  <1>7. Serving(kext, s, y) => Serving(kext, s, x)
    BY <1>1, <1>2, <1>3, <1>6 DEF Serving
  <1>8. RetryOK(y)
    <2>1. x.retry <= MaxRetry \/ ~x.timer
      BY <1>1 DEF ServerOK, RetryOK
    <2>2. 0 <= MaxRetry
      BY SessionAssumption
    <2>3. \/ z.retry = 0
          \/ z.retry = x.retry /\ (z.timer \/ In(Call("open"), t) => x.timer)
      BY DEF x
    <2> QED BY <1>2, <2>1, <2>2, <2>3 DEF RetryOK
  <1>9. ServerOK(kext, s, y)
    BY <1>1, <1>2, <1>5, <1>6, <1>7, <1>8, CarryStep
  <1> QED
    BY <1>1, <1>2, <1>4, <1>9, OneServer

\* What a block, z with the calls t, has to pass on of what x has in its queue.
Passes(x, z, t) ==
    /\ \/ In(Reloaded, z.queue)
       \/ /\ z.xml = x.xml
          /\ In(Reloaded, x.queue) =>
                /\ In(Call("vector"), t)
                /\ In(Call("config"), t) /\ In(Call("initialized"), t)
    /\ \/ In(ListChanged, z.queue)
       \/ In(ListChanged, x.queue) => In(Call("config"), t) /\ In(Call("initialized"), t)
    /\ \/ In(Workspace, z.queue) \/ In(Call("workspace"), t)
       \/ z.ids = x.ids /\ ~In(Workspace, x.queue)
    /\ \A i : In(Notify(i), x.queue) => In(GetEnabled(i), t) \/ In(Notify(i), z.queue)
    /\ \/ In(Call("config"), t)
       \/ \A n \in Names : In(SetOne(n), t) \/ (n \in z.prefs <=> n \in x.prefs)

LEMMA PassesCarries ==
  ASSUME NEW x \in Server, NEW z \in Server, NEW t \in Seq(Calls),
         x.todo = <<>>, Passes(x, z, t)
  PROVE  Carries(x, [z EXCEPT !.todo = t])
  <1> DEFINE y == [z EXCEPT !.todo = t]
  <1>1. /\ y.todo = t /\ y.queue = z.queue /\ y.ids = z.ids /\ y.xml = z.xml
        /\ y.prefs = z.prefs
    BY DEF Server
  <1>2. \A c : ~In(c, x.todo)
    BY InQueue
  <1> HIDE DEF y
  <1>3. /\ VectorWaits(x) => VectorWaits(y)
        /\ ConfigWaits(x) => ConfigWaits(y)
        /\ InitializedWaits(x) => InitializedWaits(y)
        /\ WorkspaceWaits(x) => WorkspaceWaits(y)
        /\ \A i : EnabledWaits(x, i) => EnabledWaits(y, i)
    BY <1>1, <1>2 DEF Passes, VectorWaits, ConfigWaits, InitializedWaits, WorkspaceWaits, EnabledWaits
  <1>4. y.xml = x.xml \/ In(Reloaded, y.queue)
    BY <1>1 DEF Passes
  <1>5. y.ids = x.ids \/ WorkspaceWaits(y)
    BY <1>1 DEF Passes, WorkspaceWaits
  <1>6. \/ ConfigWaits(y)
        \/ \A n \in Names : \/ In(SetOne(n), y.todo)
                            \/ (n \in y.prefs <=> n \in x.prefs) /\ ~In(SetOne(n), x.todo)
    BY <1>1, <1>2 DEF Passes, ConfigWaits
  <1> QED
    BY <1>3, <1>4, <1>5, <1>6 DEF Carries, y

\* The main thread becomes z, and sends t when it is connected.
LEMMA SendStep ==
  ASSUME SyncInv, NEW s \in Servers, MainThread(s), NEW z \in Server, NEW t \in Seq(Calls),
         Send(s, z, t), kext' = kext, disk' \in 1..MaxVersion,
         z.auto, TodoOK(t, kext.owner = s),
         z.ids = <<z.focus, z.xml>> \/ In(Workspace, z.queue),
         z.proc = "up", z.connect = server[s].connect,
         ~z.alert /\ ~z.timer => ~server[s].alert /\ ~server[s].timer,
         z.retry = 0 \/ (z.retry = server[s].retry /\ (z.timer => server[s].timer)),
         ~In(Call("open"), t),
         Passes(server[s], z, t)
  PROVE  SyncInv'
  <1>1. server[s] \in Server /\ server[s].todo = <<>>
    BY DEF SyncInv, MainThread
  <1>2. CASE z.connect
    <2>1. Continue(s, z, t)
      BY <1>2 DEF Send
    <2>2. Carries(server[s], [z EXCEPT !.todo = t])
      BY <1>1, PassesCarries
    <2> QED BY <2>1, <2>2, ContinueStep
  <1>3. CASE ~z.connect
    <2>1. Continue(s, z, <<>>)
      BY <1>3 DEF Send
    <2>2. <<>> \in Seq(Calls) /\ TodoOK(<<>>, kext.owner = s) /\ ~In(Call("open"), <<>>)
      BY InQueue DEF TodoOK
    <2> QED BY <1>3, <2>1, <2>2, ContinueStep
  <1> QED
    BY <1>2, <1>3

\* The main thread takes a block.
LEMMA TakesFacts ==
  ASSUME SyncInv, NEW s \in Servers, NEW op, Takes(s, op)
  PROVE  /\ MainThread(s) /\ kext' = kext /\ disk' \in 1..MaxVersion
         /\ server[s] \in Server /\ server[s].auto /\ server[s].proc = "up"
         /\ server[s].ids = <<server[s].focus, server[s].xml>> \/ In(Workspace, server[s].queue)
         /\ server[s].queue \in Seq(Blocks) /\ server[s].queue # <<>>
         /\ Head(server[s].queue) \in Blocks /\ Head(server[s].queue).op = op
         /\ Rest(s) \in Server /\ Rest(s).queue = Tail(server[s].queue)
         /\ \A b : In(b, server[s].queue) <=>
                      b = Head(server[s].queue) \/ In(b, Rest(s).queue)
         /\ Rest(s).auto = server[s].auto /\ Rest(s).proc = server[s].proc
         /\ Rest(s).connect = server[s].connect /\ Rest(s).alert = server[s].alert
         /\ Rest(s).timer = server[s].timer /\ Rest(s).ids = server[s].ids
         /\ Rest(s).retry = server[s].retry
         /\ Rest(s).focus = server[s].focus /\ Rest(s).xml = server[s].xml
         /\ Rest(s).prefs = server[s].prefs
  <1> DEFINE x == server[s]
             q == x.queue
  <1>1. MainThread(s) /\ kext' = kext /\ disk' \in 1..MaxVersion /\ q # <<>> /\ Head(q).op = op
    BY DEF Takes, ServersOnly, InsideOnly, BecomesQuietly, SyncInv
  <1>2. /\ x \in Server /\ x.auto /\ x.proc = "up"
        /\ x.ids = <<x.focus, x.xml>> \/ In(Workspace, q)
    BY <1>1 DEF SyncInv, ServerOK, MainThread
  <1>3. q \in Seq(Blocks)
    BY <1>2 DEF Server
  <1>4. /\ Head(q) \in Blocks /\ Tail(q) \in Seq(Blocks)
        /\ \A b : In(b, q) <=> b = Head(q) \/ In(b, Tail(q))
    BY <1>1, <1>3, InQueue
  <1>5. Rest(s) = [x EXCEPT !.queue = Tail(q)]
    BY DEF Rest
  <1> HIDE DEF x
  <1>6. /\ Rest(s) \in Server /\ Rest(s).queue = Tail(q) /\ Rest(s).auto = x.auto
        /\ Rest(s).proc = x.proc /\ Rest(s).connect = x.connect /\ Rest(s).alert = x.alert
        /\ Rest(s).timer = x.timer /\ Rest(s).ids = x.ids /\ Rest(s).focus = x.focus
        /\ Rest(s).retry = x.retry
        /\ Rest(s).xml = x.xml /\ Rest(s).prefs = x.prefs
    BY <1>2, <1>4, <1>5 DEF Server
  <1> QED
    BY <1>1, <1>2, <1>3, <1>4, <1>6 DEF x

-----------------------------------------------------------------------------
(* The blocks of the main queue *)

\* The blocks that the invariant is about, to tell them apart.
LEMMA BlockOps ==
  /\ Reloaded.op = "reloaded" /\ ListChanged.op = "listChanged" /\ Workspace.op = "workspace"
  /\ \A i : Notify(i).op = "notify" /\ Notify(i).arg = i
  BY Ops DEF Reloaded, ListChanged, Workspace, Notify

\* The calls of one block, which opens nothing.
LEMMA ShortTodo ==
  /\ \A c \in Calls : \A owns : c.op \notin {"vector", "open"} =>
        /\ <<c>> \in Seq(Calls) /\ TodoOK(<<c>>, owns) /\ ~In(Call("open"), <<c>>)
        /\ \A b : In(b, <<c>>) <=> b = c
  /\ \A owns : TodoOK(<<>>, owns) /\ <<>> \in Seq(Calls) /\ \A b : ~In(b, <<>>)
  <1>1. ASSUME NEW c \in Calls, NEW owns, c.op \notin {"vector", "open"}
        PROVE  /\ <<c>> \in Seq(Calls) /\ TodoOK(<<c>>, owns) /\ ~In(Call("open"), <<c>>)
               /\ \A b : In(b, <<c>>) <=> b = c
    <2>1. <<c>> \in Seq(Calls) /\ Len(<<c>>) = 1 /\ <<c>>[1] = c
      OBVIOUS
    <2>2. \A b : In(b, <<c>>) <=> b = c
      BY InShort
    <2>3. c # Call("vector") /\ c # Call("open")
      BY <1>1, Ops
    <2> HIDE DEF TodoOK
    <2>4. \A j \in 1..Len(<<c>>) : <<c>>[j] # Call("vector")
      BY <2>1, <2>3
    <2> QED BY <2>1, <2>2, <2>3, <2>4 DEF TodoOK
  <1>2. ASSUME NEW owns
        PROVE  TodoOK(<<>>, owns) /\ <<>> \in Seq(Calls) /\ \A b : ~In(b, <<>>)
    <2>1. <<>> \in Seq(Calls) /\ Len(<<>>) = 0
      OBVIOUS
    <2>2. \A b : ~In(b, <<>>)
      BY <2>1 DEF In
    <2> QED BY <2>1, <2>2 DEF TodoOK
  <1> QED
    BY <1>1, <1>2

\* IONotification: the server is about to reconnect.
LEMMA IOStep ==
  ASSUME SyncInv, NEW s \in Servers, RunIONotification(s)
  PROVE  SyncInv'
  <1> DEFINE r == Rest(s)
             z == RefreshConnection(r)
             t == <<Call("workspace")>>
  <1>1. Takes(s, "io") /\ Send(s, z, t)
    BY DEF RunIONotification
  <1>2. /\ t \in Seq(Calls) /\ TodoOK(t, kext.owner = s) /\ ~In(Call("open"), t)
        /\ \A b : In(b, t) <=> b = Call("workspace")
    BY ShortTodo, CallTypes, Ops
  <1>3. r \in Server /\ 0 \in 0..MaxRetry + 1
    BY <1>1, TakesFacts, SessionAssumption
  <1>4. z = RefreshConnection(r)
    OBVIOUS
  <1> HIDE DEF r, z, t
  <1>5. /\ z \in Server /\ z.timer = TRUE /\ z.retry = 0
        /\ z.queue = r.queue /\ z.ids = r.ids /\ z.xml = r.xml
        /\ z.prefs = r.prefs /\ z.auto = r.auto /\ z.proc = r.proc /\ z.focus = r.focus
        /\ z.connect = r.connect
    BY <1>3, <1>4 DEF RefreshConnection, Server
  <1>6. \A b : In(b, server[s].queue) => b.op = "io" \/ In(b, z.queue)
    BY <1>1, <1>5, TakesFacts DEF r
  <1>7. Passes(server[s], z, t)
    BY <1>1, <1>2, <1>5, <1>6, TakesFacts, BlockOps DEF Passes, r
  <1>8. z.ids = <<z.focus, z.xml>> \/ In(Workspace, z.queue)
    BY <1>1, <1>5, <1>6, TakesFacts, BlockOps DEF r
  <1>9. /\ MainThread(s) /\ kext' = kext /\ disk' \in 1..MaxVersion
        /\ z.auto /\ z.proc = "up" /\ z.connect = server[s].connect
    BY <1>1, <1>5, TakesFacts DEF r
  <1>10. ~(~z.alert /\ ~z.timer) /\ z.retry = 0 /\ Send(s, z, t) /\ ~In(Call("open"), t)
    BY <1>1, <1>2, <1>5
  <1>11. t \in Seq(Calls) /\ TodoOK(t, kext.owner = s) /\ z \in Server
    BY <1>2, <1>5
  <1> QED
    BY <1>7, <1>8, <1>9, <1>10, <1>11, SendStep

\* ConfigXMLReloaded: the vector and all settings are sent.
LEMMA ReloadedStep ==
  ASSUME SyncInv, NEW s \in Servers, RunReloaded(s)
  PROVE  SyncInv'
  <1> DEFINE r == Rest(s)
             z == [r EXCEPT !.auto = TRUE]
             c == SendSettings(server[s])
             t == <<Call("vector")>> \o c
  <1>1. Takes(s, "reloaded") /\ Send(s, z, t)
    BY DEF RunReloaded
  <1>2. Sends(c, {"one", "config", "initialized"}) /\ In(Call("initialized"), c)
    BY <1>1, TakesFacts, SendSettingsCalls
  <1>3. /\ t \in Seq(Calls) /\ TodoOK(t, kext.owner = s) /\ ~In(Call("open"), t)
        /\ In(Call("vector"), t) /\ In(Call("config"), t) /\ In(Call("initialized"), t)
    BY <1>2, SendsTodo DEF Sends
  <1>4. r \in Server
    BY <1>1, TakesFacts
  <1>5. z = [r EXCEPT !.auto = TRUE]
    OBVIOUS
  <1> HIDE DEF r, z, t
  <1>6. /\ z \in Server /\ z.timer = r.timer /\ z.retry = r.retry
        /\ z.queue = r.queue /\ z.ids = r.ids /\ z.xml = r.xml
        /\ z.prefs = r.prefs /\ z.auto = TRUE /\ z.proc = r.proc /\ z.focus = r.focus
        /\ z.connect = r.connect /\ z.alert = r.alert
    BY <1>4, <1>5 DEF Server
  <1>7. \A b : In(b, server[s].queue) => b.op = "reloaded" \/ In(b, z.queue)
    <2>1. /\ Head(server[s].queue).op = "reloaded" /\ z.queue = r.queue
          /\ \A b : In(b, server[s].queue) <=> b = Head(server[s].queue) \/ In(b, r.queue)
      BY <1>1, <1>6, TakesFacts DEF r
    <2> QED BY <2>1
  <1>8. Passes(server[s], z, t)
    BY <1>1, <1>3, <1>6, <1>7, TakesFacts, BlockOps DEF Passes, r
  <1>9. z.ids = <<z.focus, z.xml>> \/ In(Workspace, z.queue)
    BY <1>1, <1>6, <1>7, TakesFacts, BlockOps DEF r
  <1> QED
    BY <1>1, <1>3, <1>6, <1>8, <1>9, TakesFacts, SendStep DEF r

\* ConfigListChanged: all settings are sent.
LEMMA ListChangedStep ==
  ASSUME SyncInv, NEW s \in Servers, RunListChanged(s)
  PROVE  SyncInv'
  <1> DEFINE r == Rest(s)
             z == [r EXCEPT !.auto = TRUE]
             t == SendSettings(server[s])
  <1>1. Takes(s, "listChanged") /\ Send(s, z, t)
    BY DEF RunListChanged
  <1>2. Sends(t, {"one", "config", "initialized"}) /\ In(Call("initialized"), t)
    BY <1>1, TakesFacts, SendSettingsCalls
  <1>3. /\ t \in Seq(Calls) /\ TodoOK(t, kext.owner = s) /\ ~In(Call("open"), t)
        /\ In(Call("config"), t) /\ In(Call("initialized"), t)
    BY <1>2, SendsTodo DEF Sends
  <1>4. r \in Server
    BY <1>1, TakesFacts
  <1>5. z = [r EXCEPT !.auto = TRUE]
    OBVIOUS
  <1> HIDE DEF r, z, t
  <1>6. /\ z \in Server /\ z.timer = r.timer /\ z.retry = r.retry
        /\ z.queue = r.queue /\ z.ids = r.ids /\ z.xml = r.xml
        /\ z.prefs = r.prefs /\ z.auto = TRUE /\ z.proc = r.proc /\ z.focus = r.focus
        /\ z.connect = r.connect /\ z.alert = r.alert
    BY <1>4, <1>5 DEF Server
  <1>7. \A b : In(b, server[s].queue) => b.op = "listChanged" \/ In(b, z.queue)
    BY <1>1, <1>6, TakesFacts DEF r
  <1>8. Passes(server[s], z, t)
    BY <1>1, <1>3, <1>6, <1>7, TakesFacts, BlockOps DEF Passes, r
  <1>9. z.ids = <<z.focus, z.xml>> \/ In(Workspace, z.queue)
    BY <1>1, <1>6, <1>7, TakesFacts, BlockOps DEF r
  <1> QED
    BY <1>1, <1>3, <1>6, <1>8, <1>9, TakesFacts, SendStep DEF r

\* The workspace is looked up, and sent.
LEMMA WorkspaceStep ==
  ASSUME SyncInv, NEW s \in Servers, RunWorkspace(s)
  PROVE  SyncInv'
  <1> DEFINE r == Rest(s)
             i == <<server[s].focus, server[s].xml>>
             z == [r EXCEPT !.ids = i]
             t == <<Call("workspace")>>
  <1>1. Takes(s, "workspace") /\ Send(s, z, t)
    BY DEF RunWorkspace
  <1>2. /\ t \in Seq(Calls) /\ TodoOK(t, kext.owner = s) /\ ~In(Call("open"), t)
        /\ \A b : In(b, t) <=> b = Call("workspace")
    BY ShortTodo, CallTypes, Ops
  <1>3. r \in Server /\ r.xml = server[s].xml /\ r.focus = server[s].focus
    BY <1>1, TakesFacts
  <1>4. i = <<r.focus, r.xml>> /\ i \in Ids
    BY <1>3 DEF Server, Ids
  <1>5. z = [r EXCEPT !.ids = i]
    OBVIOUS
  <1> HIDE DEF r, z, t, i
  <1>6. /\ z \in Server /\ z.timer = r.timer /\ z.retry = r.retry
        /\ z.queue = r.queue /\ z.ids = i /\ z.xml = r.xml
        /\ z.prefs = r.prefs /\ z.auto = r.auto /\ z.proc = r.proc /\ z.focus = r.focus
        /\ z.connect = r.connect /\ z.alert = r.alert
    BY <1>3, <1>4, <1>5 DEF Server
  <1>7. \A b : In(b, server[s].queue) => b.op = "workspace" \/ In(b, z.queue)
    <2>1. Takes(s, "workspace") /\ z.queue = Rest(s).queue
      BY <1>1, <1>6 DEF r
    <2>2. /\ Head(server[s].queue).op = "workspace"
          /\ \A b : In(b, server[s].queue) <=> b = Head(server[s].queue) \/ In(b, Rest(s).queue)
      BY <2>1, TakesFacts
    <2> QED BY <2>1, <2>2
  <1>8. Passes(server[s], z, t)
    BY <1>1, <1>2, <1>6, <1>7, TakesFacts, BlockOps DEF Passes, r
  <1>9. z.ids = <<z.focus, z.xml>>
    BY <1>4, <1>6
  <1> QED
    BY <1>1, <1>2, <1>6, <1>8, <1>9, TakesFacts, SendStep DEF r

\* The settings that are not saved are cleared, and set again.
LEMMA WakeStep ==
  ASSUME SyncInv, NEW s \in Servers, RunWake(s)
  PROVE  SyncInv'
  <1> DEFINE r == Rest(s)
             t == ClearNotSave(server[s])
  <1>1. Takes(s, "wake") /\ Send(s, r, t)
    BY DEF RunWake
  <1>2. Sends(t, {"one", "config"})
    BY <1>1, TakesFacts, ClearNotSaveCalls
  <1>3. /\ t \in Seq(Calls) /\ TodoOK(t, kext.owner = s)
        /\ ~In(Call("open"), t) /\ In(Call("config"), t)
    BY <1>2, SendsTodo DEF Sends
  <1> HIDE DEF r, t
  <1>4. \A b : In(b, server[s].queue) => b.op = "wake" \/ In(b, r.queue)
    BY <1>1, TakesFacts DEF r
  <1>5. Passes(server[s], r, t)
    BY <1>1, <1>3, <1>4, TakesFacts, BlockOps DEF Passes, r
  <1>6. r.ids = <<r.focus, r.xml>> \/ In(Workspace, r.queue)
    BY <1>1, <1>4, TakesFacts, BlockOps DEF r
  <1> QED
    BY <1>1, <1>3, <1>5, <1>6, TakesFacts, SendStep DEF r

\* CONFIG_ENABLED_UPDATED: the server is to ask for the setting.
LEMMA NotificationStep ==
  ASSUME SyncInv, NEW s \in Servers, RunNotification(s)
  PROVE  SyncInv'
  <1> DEFINE r == Rest(s)
             h == Head(server[s].queue)
             i == h.arg
             t == <<GetEnabled(i)>>
  <1>1. Takes(s, "notify") /\ Send(s, r, t)
    BY DEF RunNotification
  <1>2. h = Notify(i) /\ i \in UNION {DOMAIN v : v \in Vectors}
    <2>1. h \in Blocks /\ h.op = "notify"
      BY <1>1, TakesFacts
    <2>2. \/ \E op \in {"io", "reloaded", "workspace", "listChanged", "wake"} : h = Block(op, 0)
          \/ \E j \in UNION {DOMAIN v : v \in Vectors} : h = Block("notify", j)
      BY <2>1 DEF Blocks
    <2>3. PICK j \in UNION {DOMAIN v : v \in Vectors} : h = Block("notify", j)
      BY <2>1, <2>2, Ops
    <2> QED BY <2>3, Ops DEF Notify
  <1>3. /\ t \in Seq(Calls) /\ TodoOK(t, kext.owner = s) /\ ~In(Call("open"), t)
        /\ \A b : In(b, t) <=> b = GetEnabled(i)
    BY <1>2, ShortTodo, CallTypes, Ops
  <1> HIDE DEF r, t, i, h
  <1>4. \A b : In(b, server[s].queue) => b = Notify(i) \/ In(b, r.queue)
    BY <1>1, <1>2, TakesFacts DEF r, h
  <1>5. \A j : Notify(j) = Notify(i) => j = i
    BY BlockOps
  <1>6. Passes(server[s], r, t)
    BY <1>1, <1>3, <1>4, <1>5, TakesFacts, BlockOps DEF Passes, r
  <1>7. r.ids = <<r.focus, r.xml>> \/ In(Workspace, r.queue)
    BY <1>1, <1>4, TakesFacts, BlockOps DEF r
  <1> QED
    BY <1>1, <1>3, <1>6, <1>7, TakesFacts, SendStep DEF r

-----------------------------------------------------------------------------
(* What the user does *)

\* The main thread has nothing to do, something comes from outside.
LEMMA MainFacts ==
  ASSUME SyncInv, NEW s \in Servers, MainThread(s)
  PROVE  /\ server[s] \in Server /\ server[s].auto = TRUE /\ server[s].proc = "up"
         /\ server[s].todo = <<>> /\ server[s].queue \in Seq(Blocks)
         /\ server[s].ids = <<server[s].focus, server[s].xml>> \/ In(Workspace, server[s].queue)
  <1>1. server[s] \in Server /\ server[s].proc = "up" /\ server[s].todo = <<>>
    BY DEF SyncInv, MainThread
  <1>2. server[s].auto /\ (server[s].ids = <<server[s].focus, server[s].xml>> \/ In(Workspace, server[s].queue))
    BY <1>1 DEF SyncInv, ServerOK
  <1>3. server[s].auto \in BOOLEAN /\ server[s].queue \in Seq(Blocks)
    BY <1>1 DEF Server
  <1> QED
    BY <1>1, <1>2, <1>3

\* A block is put into the queue.
LEMMA PostStep ==
  ASSUME SyncInv, NEW s \in Servers, MainThread(s), NEW b \in Blocks,
         Continue(s, [server[s] EXCEPT !.queue = Append(@, b)], <<>>),
         kext' = kext, disk' \in 1..MaxVersion
  PROVE  SyncInv'
  <1> DEFINE x == server[s]
             q == Append(x.queue, b)
             z == [x EXCEPT !.queue = q]
  <1>1. Continue(s, z, <<>>)
    OBVIOUS
  <1>2. /\ x \in Server /\ x.auto = TRUE /\ x.proc = "up" /\ x.todo = <<>>
        /\ x.queue \in Seq(Blocks)
        /\ x.ids = <<x.focus, x.xml>> \/ In(Workspace, x.queue)
    BY MainFacts
  <1>3. q \in Seq(Blocks) /\ \A c : In(c, q) <=> In(c, x.queue) \/ c = b
    <2>1. x.queue \in Seq(Blocks) /\ b \in Blocks
      BY <1>2
    <2> HIDE DEF x
    <2> QED BY <2>1, InAppend
  <1>4. z = [x EXCEPT !.queue = q]
    OBVIOUS
  <1>5. server[s] = x
    OBVIOUS
  <1> HIDE DEF x, z, q
  <1>6. /\ z \in Server /\ z.timer = x.timer /\ z.retry = x.retry
        /\ z.queue = q /\ z.ids = x.ids /\ z.xml = x.xml
        /\ z.prefs = x.prefs /\ z.auto = x.auto /\ z.proc = x.proc /\ z.focus = x.focus
        /\ z.connect = x.connect /\ z.alert = x.alert
    BY <1>2, <1>3, <1>4 DEF Server
  <1>7. <<>> \in Seq(Calls) /\ TodoOK(<<>>, kext.owner = s) /\ ~In(Call("open"), <<>>)
    BY ShortTodo
  <1>8. Passes(x, z, <<>>)
    BY <1>3, <1>6 DEF Passes
  <1>9. Carries(x, [z EXCEPT !.todo = <<>>])
    BY <1>2, <1>6, <1>7, <1>8, PassesCarries
  <1>10. z.ids = <<z.focus, z.xml>> \/ In(Workspace, z.queue)
    BY <1>2, <1>3, <1>6
  <1> QED
    BY <1>1, <1>2, <1>5, <1>6, <1>7, <1>9, <1>10, ContinueStep

\* A new vector is announced, and so is what it makes of the workspace.
LEMMA ReloadStep ==
  ASSUME SyncInv, NEW s \in Servers, ReloadXML(s)
  PROVE  SyncInv'
  <1>1. PICK v \in Vectors : Continue(s, PostReloaded([server[s] EXCEPT !.xml = v]), <<>>)
    BY DEF ReloadXML
  <1>2. MainThread(s) /\ kext' = kext /\ disk' \in 1..MaxVersion
    BY DEF ReloadXML, BecomesQuietly, SyncInv
  <1> DEFINE x == server[s]
             w == [x EXCEPT !.xml = v]
             p == <<Block("reloaded", 0), Block("workspace", 0)>>
             q == w.queue \o p
             z == [w EXCEPT !.queue = q]
  <1>3. x \in Server /\ x.auto = TRUE /\ x.proc = "up" /\ x.todo = <<>> /\ x.queue \in Seq(Blocks)
    BY <1>2, MainFacts
  <1>4. Continue(s, z, <<>>)
    BY <1>1 DEF PostReloaded
  <1>5. p \in Seq(Blocks) /\ \A b : In(b, p) <=> b = Reloaded \/ b = Workspace
    BY BlockTypes, InShort DEF Reloaded, Workspace
  <1>6. /\ w \in Server /\ w.queue = x.queue /\ w.timer = x.timer /\ w.retry = x.retry
        /\ w.auto = x.auto
        /\ w.proc = x.proc /\ w.connect = x.connect /\ w.alert = x.alert /\ w.prefs = x.prefs
    BY <1>3 DEF Server
  <1>7. z = [w EXCEPT !.queue = q]
    OBVIOUS
  <1>8. q = w.queue \o p /\ server[s] = x
    OBVIOUS
  <1> HIDE DEF x, w, p, q, z
  <1>9. q \in Seq(Blocks) /\ \A b : In(b, q) <=> In(b, x.queue) \/ In(b, p)
    <2>1. x.queue \in Seq(Blocks) /\ q = x.queue \o p
      BY <1>3, <1>6, <1>8
    <2> QED BY <1>5, <2>1, InConcat
  <1>10. /\ z \in Server /\ z.timer = w.timer /\ z.retry = w.retry
         /\ z.queue = q /\ z.prefs = w.prefs
         /\ z.auto = w.auto /\ z.proc = w.proc /\ z.connect = w.connect /\ z.alert = w.alert
    BY <1>6, <1>7, <1>9 DEF Server
  <1>11. In(Reloaded, z.queue) /\ In(Workspace, z.queue)
    BY <1>5, <1>9, <1>10
  <1>12. <<>> \in Seq(Calls) /\ TodoOK(<<>>, kext.owner = s) /\ ~In(Call("open"), <<>>)
    BY ShortTodo
  <1>13. Passes(x, z, <<>>)
    BY <1>6, <1>9, <1>10, <1>11 DEF Passes
  <1>14. Carries(x, [z EXCEPT !.todo = <<>>])
    BY <1>3, <1>10, <1>12, <1>13, PassesCarries
  <1>15. /\ z.auto /\ z.proc = "up" /\ z.connect = x.connect /\ z.alert = x.alert
         /\ z.timer = x.timer /\ z.retry = x.retry
    BY <1>3, <1>6, <1>10
  <1> QED
    BY <1>2, <1>4, <1>8, <1>10, <1>11, <1>12, <1>14, <1>15, ContinueStep

\* The preferences change, and all settings are sent.
LEMMA PreferencesStep ==
  ASSUME SyncInv, NEW s \in Servers, MainThread(s), NEW on \in SUBSET Names,
         NEW auto \in BOOLEAN, NEW q \in Seq(Blocks),
         SendPreferences(s, [server[s] EXCEPT !.prefs = on, !.auto = auto, !.queue = q]),
         \A b : In(b, server[s].queue) => In(b, q),
         kext' = kext, disk' \in 1..MaxVersion
  PROVE  SyncInv'
  <1> DEFINE x == server[s]
             w == [x EXCEPT !.prefs = on, !.auto = auto, !.queue = q]
             z == [w EXCEPT !.auto = TRUE]
             t == SendConfig(w)
  <1>1. /\ x \in Server /\ x.auto = TRUE /\ x.proc = "up" /\ x.todo = <<>>
        /\ x.ids = <<x.focus, x.xml>> \/ In(Workspace, x.queue)
    BY MainFacts
  <1>2. Sends(t, {"one", "config"})
    BY SendConfigCalls
  <1>3. /\ t \in Seq(Calls) /\ TodoOK(t, kext.owner = s)
        /\ ~In(Call("open"), t) /\ In(Call("config"), t)
    BY <1>2, SendsTodo DEF Sends
  <1>4. Send(s, z, t)
    BY DEF SendPreferences
  <1>5. /\ w \in Server /\ w.queue = q /\ w.timer = x.timer /\ w.retry = x.retry
        /\ w.xml = x.xml /\ w.focus = x.focus
        /\ w.proc = x.proc /\ w.connect = x.connect /\ w.alert = x.alert /\ w.ids = x.ids
    BY <1>1 DEF Server
  <1>6. z = [w EXCEPT !.auto = TRUE] /\ server[s] = x
    OBVIOUS
  <1>7. \A b : In(b, x.queue) => In(b, q)
    OBVIOUS
  <1> HIDE DEF x, w, z, t
  <1>8. /\ z \in Server /\ z.timer = w.timer /\ z.retry = w.retry
        /\ z.queue = w.queue /\ z.xml = w.xml
        /\ z.focus = w.focus /\ z.ids = w.ids
        /\ z.auto = TRUE /\ z.proc = w.proc /\ z.connect = w.connect /\ z.alert = w.alert
    BY <1>5, <1>6 DEF Server
  <1>9. Passes(x, z, t)
    BY <1>3, <1>5, <1>7, <1>8 DEF Passes
  <1>10. z.ids = <<z.focus, z.xml>> \/ In(Workspace, z.queue)
    BY <1>1, <1>5, <1>7, <1>8
  <1>11. /\ z.proc = "up" /\ z.connect = x.connect /\ z.alert = x.alert
         /\ z.timer = x.timer /\ z.retry = x.retry
    BY <1>1, <1>5, <1>8
  <1> QED
    BY <1>3, <1>4, <1>6, <1>8, <1>9, <1>10, <1>11, SendStep

\* configlist_select and configlist_clear_all_values
LEMMA SelectStep ==
  ASSUME SyncInv, NEW s \in Servers, SelectConfig(s) \/ ClearAllValues(s)
  PROVE  SyncInv'
  <1>1. /\ MainThread(s) /\ kext' = kext /\ disk' \in 1..MaxVersion
        /\ server[s] \in Server /\ server[s].queue \in Seq(Blocks)
    BY MainFacts DEF SelectConfig, ClearAllValues, BecomesQuietly, SyncInv
  <1>2. CASE SelectConfig(s)
    <2>1. PICK on \in ConfigLists, auto \in BOOLEAN :
             SendPreferences(s, [server[s] EXCEPT !.prefs = on, !.auto = auto,
                                    !.queue = Append(@, Block("listChanged", 0))])
      BY <1>2 DEF SelectConfig
    <2> DEFINE q == Append(server[s].queue, ListChanged)
    <2>2. SendPreferences(s, [server[s] EXCEPT !.prefs = on, !.auto = auto, !.queue = q])
      BY <2>1 DEF ListChanged
    <2>3. ListChanged \in Blocks
      BY BlockTypes DEF ListChanged
    <2>4. q \in Seq(Blocks) /\ \A b : In(b, server[s].queue) => In(b, q)
      BY <1>1, <2>3, InAppend
    <2>5. on \in SUBSET Names
      BY VectorsAssumption
    <2> HIDE DEF q
    <2> QED BY <1>1, <2>2, <2>4, <2>5, PreferencesStep
  <1>3. CASE ClearAllValues(s)
    <2> DEFINE x == server[s]
               u == [x EXCEPT !.prefs = {}, !.auto = FALSE]
               w == [x EXCEPT !.prefs = {}, !.auto = FALSE, !.queue = x.queue]
    <2>1. SendPreferences(s, u)
      BY <1>3 DEF ClearAllValues
    <2>2. u = w
      BY <1>1 DEF Server
    <2>3. SendPreferences(s, w)
      BY <2>1, <2>2
    <2>4. {} \in SUBSET Names /\ FALSE \in BOOLEAN
      OBVIOUS
    <2> QED BY <1>1, <2>3, <2>4, PreferencesStep
  <1> QED
    BY <1>2, <1>3

\* setValue: the setting is sent.
LEMMA SetValueStep ==
  ASSUME SyncInv, NEW s \in Servers, SetValue(s)
  PROVE  SyncInv'
  <1>1. PICK n \in Names :
           Send(s, [server[s] EXCEPT !.prefs = IF n \in @ THEN @ \ {n} ELSE @ \cup {n}],
                <<SetOne(n)>>)
    BY DEF SetValue
  <1> DEFINE x == server[s]
             on == IF n \in x.prefs THEN x.prefs \ {n} ELSE x.prefs \cup {n}
             z == [x EXCEPT !.prefs = on]
             t == <<SetOne(n)>>
  <1>2. MainThread(s) /\ kext' = kext /\ disk' \in 1..MaxVersion
    BY DEF SetValue, BecomesQuietly, SyncInv
  <1>3. /\ x \in Server /\ x.auto = TRUE /\ x.proc = "up" /\ x.todo = <<>>
        /\ x.ids = <<x.focus, x.xml>> \/ In(Workspace, x.queue)
    BY <1>2, MainFacts
  <1>4. Send(s, z, t) /\ server[s] = x /\ z = [x EXCEPT !.prefs = on]
    BY <1>1
  <1>5. on \in SUBSET Names /\ \A m : m # n => (m \in on <=> m \in x.prefs)
    BY <1>3 DEF Server
  <1>6. /\ /\ t \in Seq(Calls) /\ TodoOK(t, kext.owner = s)
           /\ ~In(Call("open"), t) /\ In(SetOne(n), t)
    BY ShortTodo, CallTypes, Ops
  <1> HIDE DEF x, on, z, t
  <1>7. /\ z \in Server /\ z.timer = x.timer /\ z.retry = x.retry
        /\ z.queue = x.queue /\ z.xml = x.xml
        /\ z.focus = x.focus /\ z.ids = x.ids /\ z.prefs = on
        /\ z.auto = x.auto /\ z.proc = x.proc /\ z.connect = x.connect /\ z.alert = x.alert
    BY <1>3, <1>4, <1>5 DEF Server
  <1>8. Passes(x, z, t)
    <2>1. \A m : m # n => (m \in z.prefs <=> m \in x.prefs)
      BY <1>5, <1>7
    <2>2. \A m \in Names : In(SetOne(m), t) \/ (m \in z.prefs <=> m \in x.prefs)
      BY <1>6, <2>1
    <2>3. z.queue = x.queue /\ z.xml = x.xml /\ z.ids = x.ids
      BY <1>7
    <2>4. \A e : In(e, z.queue) <=> In(e, x.queue)
      BY <2>3
    <2> QED BY <2>2, <2>3, <2>4 DEF Passes
  <1> QED
    BY <1>2, <1>3, <1>4, <1>6, <1>7, <1>8, SendStep

\* The focus moves: the workspace is looked up, and sent.
LEMMA FocusStep ==
  ASSUME SyncInv, NEW s \in Servers, ChangeFocus(s)
  PROVE  SyncInv'
  <1> DEFINE x == server[s]
             f == 1 - x.focus
             i == <<f, x.xml>>
             z == [x EXCEPT !.focus = f, !.ids = i]
             t == <<Call("workspace")>>
  <1>1. MainThread(s) /\ kext' = kext /\ disk' \in 1..MaxVersion
    BY DEF ChangeFocus, BecomesQuietly, SyncInv
  <1>2. x \in Server /\ x.auto = TRUE /\ x.proc = "up" /\ x.todo = <<>>
    BY <1>1, MainFacts
  <1>3. Send(s, z, t) /\ server[s] = x /\ z = [x EXCEPT !.focus = f, !.ids = i]
    BY DEF ChangeFocus
  <1>4. f \in Focus /\ i \in Ids /\ i = <<f, x.xml>>
    BY <1>2 DEF Server, Ids, Focus
  <1>5. /\ t \in Seq(Calls) /\ TodoOK(t, kext.owner = s)
        /\ ~In(Call("open"), t) /\ In(Call("workspace"), t)
    BY ShortTodo, CallTypes, Ops
  <1> HIDE DEF x, f, i, z, t
  <1>6. /\ z \in Server /\ z.timer = x.timer /\ z.retry = x.retry
        /\ z.queue = x.queue /\ z.xml = x.xml
        /\ z.focus = f /\ z.ids = i /\ z.prefs = x.prefs
        /\ z.auto = x.auto /\ z.proc = x.proc /\ z.connect = x.connect /\ z.alert = x.alert
    BY <1>2, <1>3, <1>4 DEF Server
  <1>7. Passes(x, z, t)
    BY <1>5, <1>6 DEF Passes
  <1> QED
    BY <1>1, <1>2, <1>3, <1>4, <1>5, <1>6, <1>7, SendStep

\* The server polls whether its session is on the console, or reconnects.
LEMMA PollStep ==
  ASSUME SyncInv, NEW s \in Servers, Poll(s) \/ Retry(s)
  PROVE  SyncInv'
  <1>1. MainThread(s) /\ kext' = kext /\ disk' \in 1..MaxVersion
    BY DEF Poll, Retry, ServersOnly, InsideOnly, BecomesQuietly, SyncInv
  <1>2. /\ server[s] \in Server /\ server[s].auto = TRUE /\ server[s].proc = "up"
        /\ server[s].todo = <<>> /\ server[s].queue \in Seq(Blocks)
        /\ server[s].ids = <<server[s].focus, server[s].xml>> \/ In(Workspace, server[s].queue)
    BY <1>1, MainFacts
  <1>3. <<>> \in Seq(Calls) /\ TodoOK(<<>>, kext.owner = s) /\ ~In(Call("open"), <<>>)
    BY ShortTodo
  <1>4. CASE Retry(s)
    <2> DEFINE t == <<Call("close"), Call("open")>>
    <2>1. t \in Seq(Calls) /\ \A b : In(b, t) <=> b = Call("close") \/ b = Call("open")
      BY CallTypes, InShort
    <2>2. TodoOK(t, kext.owner = s)
      <3>1. \A j \in 1..Len(t) : t[j] # Call("vector")
        BY Ops
      <3> QED BY <3>1 DEF TodoOK
    <2>3. Continue(s, server[s], t)
      BY <1>4 DEF Retry
    <2> HIDE DEF t
    <2>4. Passes(server[s], server[s], t)
      BY DEF Passes
    <2>5. Carries(server[s], [server[s] EXCEPT !.todo = t]) /\ server[s].timer
      BY <1>2, <1>4, <2>1, <2>4, PassesCarries DEF Retry
    <2> QED BY <1>1, <1>2, <2>1, <2>2, <2>3, <2>5, ContinueStep
  <1>5. CASE Poll(s)
    <2> DEFINE a == (console = s)
               x == [server[s] EXCEPT !.active = a]
    <2>1. /\ x \in Server /\ x.active = a /\ x.auto = server[s].auto /\ x.proc = "up"
          /\ x.todo = <<>> /\ x.queue = server[s].queue /\ x.ids = server[s].ids
          /\ x.focus = server[s].focus /\ x.xml = server[s].xml /\ x.prefs = server[s].prefs
          /\ x.connect = server[s].connect /\ x.alert = server[s].alert
          /\ x.timer = server[s].timer /\ x.retry = server[s].retry
      BY <1>2 DEF Server
    <2>2. server[s].active \in BOOLEAN /\ a \in BOOLEAN
      BY <1>2 DEF Server
    <2>3. \/ Continue(s, x, <<>>)
          \/ Continue(s, [x EXCEPT !.queue = Append(@, Block("io", 0))], <<>>)
          \/ Continue(s, Invalidate(x), <<Call("close")>>)
      BY <1>5, <2>1, <2>2 DEF Poll
    <2> HIDE DEF x, a
    <2>4. CASE Continue(s, x, <<>>)
      <3>1. Passes(server[s], x, <<>>)
        BY <2>1 DEF Passes
      <3>2. Carries(server[s], [x EXCEPT !.todo = <<>>])
        BY <1>2, <1>3, <2>1, <3>1, PassesCarries
      <3> QED BY <1>1, <1>2, <1>3, <2>1, <2>4, <3>2, ContinueStep
    <2>5. CASE Continue(s, [x EXCEPT !.queue = Append(@, Block("io", 0))], <<>>)
      <3> DEFINE q == Append(x.queue, Block("io", 0))
                 z == [x EXCEPT !.queue = q]
      <3>1. Continue(s, z, <<>>)
        BY <2>5
      <3>2. Block("io", 0) \in Blocks
        BY BlockTypes
      <3>3. q \in Seq(Blocks) /\ \A b : In(b, server[s].queue) => In(b, q)
        BY <1>2, <2>1, <3>2, InAppend
      <3>4. z = [x EXCEPT !.queue = q]
        OBVIOUS
      <3>5. \A i : Notify(i) # Block("io", 0)
        BY BlockOps, Ops
      <3> HIDE DEF q, z
      <3>6. /\ z \in Server /\ z.timer = x.timer /\ z.retry = x.retry
            /\ z.queue = q /\ z.ids = x.ids /\ z.xml = x.xml
            /\ z.prefs = x.prefs /\ z.auto = x.auto /\ z.proc = x.proc /\ z.focus = x.focus
            /\ z.connect = x.connect /\ z.alert = x.alert
        BY <2>1, <3>3, <3>4 DEF Server
      <3>7. Passes(server[s], z, <<>>)
        BY <2>1, <3>3, <3>6 DEF Passes
      <3>8. Carries(server[s], [z EXCEPT !.todo = <<>>])
        BY <1>2, <1>3, <3>6, <3>7, PassesCarries
      <3>9. z.ids = <<z.focus, z.xml>> \/ In(Workspace, z.queue)
        BY <1>2, <2>1, <3>3, <3>6
      <3> QED BY <1>1, <1>2, <1>3, <2>1, <3>1, <3>6, <3>8, <3>9, ContinueStep
    <2>6. CASE Continue(s, Invalidate(x), <<Call("close")>>)
      <3> DEFINE z == Invalidate(x)
                 t == <<Call("close")>>
      <3>1. /\ t \in Seq(Calls) /\ TodoOK(t, kext.owner = s)
            /\ ~In(Call("open"), t) /\ In(Call("close"), t)
        BY ShortTodo, CallTypes, Ops
      <3>2. z = Invalidate(x) /\ Continue(s, z, t)
        BY <2>6
      <3> HIDE DEF z, t
      <3>3. /\ z \in Server /\ z.queue = x.queue /\ z.ids = x.ids /\ z.xml = x.xml
            /\ z.prefs = x.prefs /\ z.auto = x.auto /\ z.proc = x.proc /\ z.focus = x.focus
            /\ z.connect = x.connect /\ z.alert = x.alert /\ z.retry = x.retry
            /\ z.timer = FALSE
        BY <2>1, <3>2 DEF Server, Invalidate
      <3>4. Passes(server[s], z, t)
        BY <2>1, <3>3 DEF Passes
      <3>5. Carries(server[s], [z EXCEPT !.todo = t])
        BY <1>2, <3>1, <3>3, <3>4, PassesCarries
      <3> QED BY <1>1, <1>2, <2>1, <3>1, <3>2, <3>3, <3>5, ContinueStep
    <2> QED BY <2>3, <2>4, <2>5, <2>6
  <1> QED
    BY <1>4, <1>5

\* Another user client may come and go: the main thread has a block more.
LEMMA MainThreadStep ==
  ASSUME SyncInv, NEW s \in Servers,
         \/ Poll(s) \/ Retry(s) \/ BlockStep(s) \/ ReloadXML(s) \/ SelectConfig(s)
         \/ EditConfigList(s) \/ ClearAllValues(s) \/ SetValue(s) \/ Wake(s) \/ ChangeFocus(s)
  PROVE  SyncInv'
  <1>1. CASE Poll(s) \/ Retry(s)
    BY <1>1, PollStep
  <1>2. CASE BlockStep(s)
    BY <1>2, IOStep, ReloadedStep, ListChangedStep, WorkspaceStep, WakeStep, NotificationStep
       DEF BlockStep
  <1>3. CASE ReloadXML(s)
    BY <1>3, ReloadStep
  <1>4. CASE SelectConfig(s) \/ ClearAllValues(s)
    BY <1>4, SelectStep
  <1>5. CASE EditConfigList(s) \/ Wake(s)
    <2>1. MainThread(s) /\ kext' = kext /\ disk' \in 1..MaxVersion
      BY <1>5 DEF EditConfigList, Wake, BecomesQuietly, SyncInv
    <2>2. PICK b \in {Block("listChanged", 0), Block("wake", 0)} :
             Continue(s, [server[s] EXCEPT !.queue = Append(@, b)], <<>>)
      BY <1>5 DEF EditConfigList, Wake
    <2>3. b \in Blocks
      BY BlockTypes
    <2> QED BY <2>1, <2>2, <2>3, PostStep
  <1>6. CASE SetValue(s)
    BY <1>6, SetValueStep
  <1>7. CASE ChangeFocus(s)
    BY <1>7, FocusStep
  <1> QED
    BY <1>1, <1>2, <1>3, <1>4, <1>5, <1>6, <1>7

-----------------------------------------------------------------------------
(* What the calls make of the extension *)

\* set_initialized and callback_close
LEMMA SetInitializedTyped ==
  ASSUME NEW k \in Kext, NEW v \in BOOLEAN
  PROVE  LET r == SetInitialized(k, v)
         IN  /\ r \in Kext /\ r.owner = k.owner /\ r.initialized = v
             /\ r.notification = k.notification /\ r.classes = k.classes
             /\ r.workspace = k.workspace /\ r.enabled = k.enabled
             /\ v => r.essential = k.essential
             /\ CallbackClose(k) \in Kext /\ CallbackClose(k).owner = Nobody
  <1> DEFINE e(w) == IF w THEN k.essential ELSE {}
             t == k.traces \cap {"negative lock"}
             r(w) == [k EXCEPT !.initialized = w, !.traces = t, !.essential = e(w)]
  <1>1. ASSUME NEW w \in BOOLEAN
        PROVE  /\ SetInitialized(k, w) \in Kext
               /\ SetInitialized(k, w).owner = k.owner /\ SetInitialized(k, w).initialized = w
               /\ SetInitialized(k, w).notification = k.notification
               /\ SetInitialized(k, w).classes = k.classes
               /\ SetInitialized(k, w).workspace = k.workspace
               /\ SetInitialized(k, w).enabled = k.enabled
               /\ SetInitialized(k, w).essential = e(w)
    <2>1. SetInitialized(k, w) = [k EXCEPT !.initialized = w, !.traces = t, !.essential = e(w)]
      BY DEF SetInitialized, Kext
    <2>2. e(w) \in SUBSET (Essential \cup AutoEnable) /\ t \in SUBSET Traces
      BY DEF Kext
    <2> HIDE DEF e, t
    <2> QED BY <2>1, <2>2 DEF Kext
  <1>2. CallbackClose(k) \in Kext /\ CallbackClose(k).owner = Nobody
    <2> DEFINE q == SetInitialized(k, FALSE)
    <2>1. q \in Kext
      BY <1>1
    <2>2. CallbackClose(k) = [q EXCEPT !.notification = FALSE, !.owner = Nobody]
      BY DEF CallbackClose
    <2> HIDE DEF q
    <2> QED BY <2>1, <2>2 DEF Kext
  <1> QED
    BY <1>1, <1>2

\* load_remapclasses_initialize_vector
LEMMA LoadVectorTyped ==
  ASSUME NEW k \in Kext, NEW v \in Vectors
  PROVE  LET r == LoadVector(k, v)
         IN  /\ r \in Kext /\ r.owner = k.owner /\ r.notification = k.notification
             /\ r.classes = Loaded(v) /\ r.workspace = k.workspace
  <1> DEFINE q == SetInitialized(k, FALSE)
             c == Loaded(v)
  <1>1. /\ q \in Kext /\ q.owner = k.owner /\ q.notification = k.notification
        /\ q.workspace = k.workspace
    BY SetInitializedTyped
  <1>2. LoadVector(k, v) = [q EXCEPT !.classes = c, !.enabled = {}]
    BY DEF LoadVector, Loaded
  <1>3. c \in Vectors \cup {<<>>}
    BY DEF Loaded
  <1> HIDE DEF q, c
  <1>4. LET r == [q EXCEPT !.classes = c, !.enabled = {}]
        IN  /\ r \in Kext /\ r.owner = q.owner /\ r.notification = q.notification
            /\ r.classes = c /\ r.workspace = q.workspace
    BY <1>1, <1>3 DEF Kext
  <1> QED
    BY <1>1, <1>2, <1>4 DEF c

\* set_config with the settings of a server: they are in sync when it has the classes.
LEMMA SetConfigSynced ==
  ASSUME NEW k \in Kext, NEW x \in Server, x.auto, NEW y,
         y.xml = x.xml, y.prefs = x.prefs, Len(x.xml) = Len(k.classes)
  PROVE  LET r == SetConfig(k, x.xml, On(x))
         IN  /\ r \in Kext /\ r.owner = k.owner /\ r.notification = k.notification
             /\ r.classes = k.classes /\ r.workspace = k.workspace
             /\ r.initialized = k.initialized
             /\ EssentialSynced(r, y) /\ EnabledSynced(r, y)
  <1> DEFINE e == On(x) \cap (Essential \cup AutoEnable)
             c == {i \in DOMAIN x.xml : x.xml[i] \in On(x)}
             r == [k EXCEPT !.essential = e, !.enabled = c]
  <1>1. SetConfig(k, x.xml, On(x)) = r
    BY DEF SetConfig
  <1>2. x.xml \in Vectors
    BY DEF Server
  <1>3. DOMAIN x.xml \subseteq Nat
    BY <1>2, VectorFacts
  <1>4. On(x) = x.prefs \cup AutoEnable
    BY DEF On
  <1>6. /\ r \in Kext /\ r.owner = k.owner /\ r.notification = k.notification
        /\ r.classes = k.classes /\ r.workspace = k.workspace /\ r.initialized = k.initialized
        /\ r.essential = e /\ r.enabled = c
    <2>1. e \in SUBSET (Essential \cup AutoEnable) /\ c \in SUBSET Nat
      BY <1>3
    <2>2. r = [k EXCEPT !.essential = e, !.enabled = c]
      OBVIOUS
    <2> HIDE DEF e, c, r
    <2> QED BY <2>1, <2>2 DEF Kext
  <1>5. EssentialSynced(r, y) /\ EnabledSynced(r, y)
    <2>1. r.essential = e /\ r.enabled = c
      BY <1>6
    <2>2. \A i \in DOMAIN x.xml : i \in c <=> x.xml[i] \in x.prefs
      BY <1>2, <1>4, VectorFacts
    <2>3. \A n \in Essential \ AutoEnable : n \in e <=> n \in x.prefs
      BY <1>4
    <2>4. AutoEnable \subseteq e /\ e \subseteq Essential \cup AutoEnable /\ c \subseteq DOMAIN x.xml
      BY <1>4
    <2> HIDE DEF e, c, r
    <2> QED BY <2>1, <2>2, <2>3, <2>4 DEF EssentialSynced, EnabledSynced
  <1> QED
    BY <1>1, <1>5, <1>6

\* The extension r is k, but for the setting n, which is on or off.
OneSet(k, r, v, n, on) ==
    LET known == Indexes(v, n) \cap DOMAIN k.classes
    IN  /\ r \in Kext /\ r.owner = k.owner /\ r.notification = k.notification
        /\ r.classes = k.classes /\ r.workspace = k.workspace
        /\ r.initialized = k.initialized
        /\ n \in Essential \cup AutoEnable =>
              /\ r.essential = IF on THEN k.essential \cup {n} ELSE k.essential \ {n}
              /\ r.enabled = k.enabled
        /\ n \notin Essential \cup AutoEnable =>
              /\ r.essential = k.essential
              /\ r.enabled = IF on THEN k.enabled \cup known ELSE k.enabled \ known

\* set_config_one, for an essential setting and for the setting of a class.
LEMMA SetConfigOneTyped ==
  ASSUME NEW k \in Kext, NEW v \in Vectors, NEW n, NEW S
  PROVE  OneSet(k, SetConfigOne(k, v, n, n \in S), v, n, n \in S)
  <1> DEFINE on == n \in S
             known == Indexes(v, n) \cap DOMAIN k.classes
             e == IF on THEN k.essential \cup {n} ELSE k.essential \ {n}
             c == IF on THEN k.enabled \cup known ELSE k.enabled \ known
             r == SetConfigOne(k, v, n, on)
  <1>1. known \subseteq Nat
    BY VectorFacts DEF Indexes
  <1>2. k.essential \in SUBSET (Essential \cup AutoEnable) /\ k.enabled \in SUBSET Nat
    BY DEF Kext
  <1>3. CASE n \in Essential \cup AutoEnable
    <2>1. r = [k EXCEPT !.essential = e]
      BY <1>3 DEF SetConfigOne, Kext
    <2>2. e \in SUBSET (Essential \cup AutoEnable)
      BY <1>2, <1>3
    <2> HIDE DEF e
    <2>3. /\ r \in Kext /\ r.owner = k.owner /\ r.notification = k.notification
          /\ r.classes = k.classes /\ r.workspace = k.workspace
          /\ r.initialized = k.initialized /\ r.essential = e /\ r.enabled = k.enabled
      BY <2>1, <2>2 DEF Kext
    <2> QED BY <1>3, <2>3 DEF e, OneSet
  <1>4. CASE n \notin Essential \cup AutoEnable
    <2>1. r = [k EXCEPT !.enabled = c]
      BY <1>4 DEF SetConfigOne, Kext
    <2>2. c \in SUBSET Nat
      BY <1>1, <1>2
    <2> HIDE DEF c
    <2>3. /\ r \in Kext /\ r.owner = k.owner /\ r.notification = k.notification
          /\ r.classes = k.classes /\ r.workspace = k.workspace
          /\ r.initialized = k.initialized /\ r.essential = k.essential /\ r.enabled = c
      BY <2>1, <2>2 DEF Kext
    <2> QED BY <1>4, <2>3 DEF c, OneSet
  <1> QED
    BY <1>3, <1>4

-----------------------------------------------------------------------------
(* The calls *)

\* A call is known by its operation.
LEMMA CallKinds ==
  ASSUME NEW c \in Calls
  PROVE  /\ c.op \in {"close", "open", "vector", "config", "initialized", "workspace"} => c = Call(c.op)
         /\ c.op = "one" => c = SetOne(c.name) /\ c.name \in Names \cup AutoEnable
         /\ c.op = "get" => c = GetEnabled(c.index)
  <1>1. \/ \E op \in {"close", "open", "vector", "config", "initialized", "workspace"} : c = Call(op)
        \/ \E n \in Names \cup AutoEnable : c = SetOne(n)
        \/ \E i \in UNION {DOMAIN v : v \in Vectors} : c = GetEnabled(i)
    BY DEF Calls
  <1>2. CASE \E op \in {"close", "open", "vector", "config", "initialized", "workspace"} : c = Call(op)
    BY <1>2, Ops
  <1>3. CASE \E n \in Names \cup AutoEnable : c = SetOne(n)
    BY <1>3, Ops
  <1>4. CASE \E i \in UNION {DOMAIN v : v \in Vectors} : c = GetEnabled(i)
    BY <1>4, Ops
  <1> QED
    BY <1>1, <1>2, <1>3, <1>4

\* What is left of a block when its first call is made.
LEMMA PopTodo ==
  ASSUME NEW t \in Seq(Calls), t # <<>>, NEW owns, TodoOK(t, owns)
  PROVE  /\ Head(t) \in Calls /\ Tail(t) \in Seq(Calls)
         /\ \A c : In(c, t) <=> c = Head(t) \/ In(c, Tail(t))
         /\ ~In(Call("vector"), Tail(t))
         /\ Head(t).op = "vector" => In(Call("config"), Tail(t)) /\ In(Call("initialized"), Tail(t))
         /\ Head(t).op = "open" => Tail(t) = <<>> /\ ~owns
         /\ Head(t).op # "close" => ~In(Call("open"), Tail(t))
         /\ \A o : ~o \/ Head(t).op # "close" => TodoOK(Tail(t), o)
  <1>1. /\ Head(t) \in Calls /\ Tail(t) \in Seq(Calls)
        /\ \A c : In(c, t) <=> c = Head(t) \/ In(c, Tail(t))
    BY InQueue
  <1>2. /\ Len(t) \in Nat \ {0} /\ Len(Tail(t)) = Len(t) - 1 /\ t[1] = Head(t)
        /\ \A j \in 1..Len(Tail(t)) : Tail(t)[j] = t[j + 1]
    OBVIOUS
  <1>3. ~In(Call("vector"), Tail(t))
    <2> SUFFICES ASSUME NEW j \in 1..Len(Tail(t)), Tail(t)[j] = Call("vector") PROVE FALSE
      BY DEF In
    <2>1. j + 1 \in 1..Len(t) /\ t[j + 1] = Call("vector") /\ j + 1 # 1
      BY <1>2
    <2> QED BY <2>1 DEF TodoOK
  <1>4. Head(t).op = "vector" => In(Call("config"), Tail(t)) /\ In(Call("initialized"), Tail(t))
    <2> SUFFICES ASSUME Head(t).op = "vector"
                 PROVE  In(Call("config"), Tail(t)) /\ In(Call("initialized"), Tail(t))
      OBVIOUS
    <2>1. t[1] = Call("vector") /\ 1 \in 1..Len(t)
      BY <1>1, <1>2, CallKinds
    <2>2. In(Call("config"), t) /\ In(Call("initialized"), t)
      BY <2>1 DEF TodoOK
    <2> QED BY <1>1, <2>2, Ops
  <1>5. In(Call("open"), t) =>
           \/ Head(t).op = "close" /\ Tail(t) = <<Call("open")>>
           \/ Head(t).op = "open" /\ Tail(t) = <<>> /\ ~owns
    <2>1. CASE t = <<Call("close"), Call("open")>>
      <3>1. Head(t) = Call("close") /\ Tail(t) = <<Call("open")>>
        BY <2>1
      <3> QED BY <3>1, Ops
    <2>2. CASE t = <<Call("open")>> /\ ~owns
      <3>1. Head(t) = Call("open") /\ Tail(t) = <<>>
        BY <2>2
      <3> QED BY <2>2, <3>1, Ops
    <2> QED BY <2>1, <2>2 DEF TodoOK
  <1>6. Head(t).op = "open" => Tail(t) = <<>> /\ ~owns
    <2>1. Head(t).op = "open" => In(Call("open"), t)
      BY <1>1, CallKinds
    <2> QED BY <1>5, <2>1
  <1>7. Head(t).op # "close" => ~In(Call("open"), Tail(t))
    <2>1. ~In(Call("open"), <<>>)
      BY InQueue
    <2> QED BY <1>1, <1>5, <2>1
  <1>8. ASSUME NEW o, ~o \/ Head(t).op # "close"
        PROVE  TodoOK(Tail(t), o)
    <2>1. \A j \in 1..Len(Tail(t)) : Tail(t)[j] # Call("vector")
      BY <1>3 DEF In
    <2>2. In(Call("open"), Tail(t)) => Tail(t) = <<Call("open")>> /\ ~o
      BY <1>1, <1>5, <1>7, <1>8
    <2> QED BY <2>1, <2>2 DEF TodoOK
  <1> QED
    BY <1>1, <1>3, <1>4, <1>6, <1>7, <1>8

\* A server makes its next call, and goes on as z.
LEMMA MakesFacts ==
  ASSUME SyncInv, NEW s \in Servers, NEW op, NEW z, Makes(s, op, z)
  PROVE  LET t == server[s].todo
         IN  /\ server[s] \in Server /\ server[s].proc = "up" /\ ServerOK(kext, s, server[s])
             /\ server[s].auto /\ server[s].xml \in Vectors
             /\ kext \in Kext /\ disk' \in 1..MaxVersion
             /\ t \in Seq(Calls) /\ t # <<>> /\ TodoOK(t, kext.owner = s) /\ Head(t).op = op
             /\ server' = [server EXCEPT ![s] = [z EXCEPT !.todo = Tail(t)]]
  <1> DEFINE t == server[s].todo
  <1>1. /\ server[s] \in Server /\ ServerOK(kext, s, server[s])
        /\ kext \in Kext /\ disk' \in 1..MaxVersion
    BY DEF SyncInv, Makes, InsideOnly
  <1>2. server[s].auto /\ TodoOK(t, kext.owner = s)
    BY <1>1 DEF ServerOK
  <1>3. t \in Seq(Calls) /\ server[s].xml \in Vectors
    BY <1>1 DEF Server
  <1>4. server[s].proc = "up" /\ t # <<>> /\ Head(t).op = op
    BY DEF Makes
  <1>5. server' = [server EXCEPT ![s] = [z EXCEPT !.todo = Tail(t)]]
    BY DEF Makes, Continue
  <1> QED
    BY <1>1, <1>2, <1>3, <1>4, <1>5

\* The server itself as it goes on.
LEMMA Popped ==
  ASSUME NEW x \in Server, x.todo # <<>>
  PROVE  LET y == [x EXCEPT !.todo = Tail(@)]
         IN  /\ y \in Server /\ y.todo = Tail(x.todo) /\ y.queue = x.queue /\ y.proc = x.proc
             /\ y.xml = x.xml /\ y.prefs = x.prefs /\ y.ids = x.ids /\ y.focus = x.focus
             /\ y.auto = x.auto /\ y.connect = x.connect /\ y.timer = x.timer
             /\ y.alert = x.alert /\ y.retry = x.retry
             /\ y = [x EXCEPT !.todo = Tail(x.todo)]
  <1> DEFINE u == Tail(x.todo)
             y == [x EXCEPT !.todo = u]
  <1>1. u \in Seq(Calls)
    BY DEF Server
  <1>2. [x EXCEPT !.todo = Tail(@)] = y
    BY DEF Server
  <1> HIDE DEF u
  <1>3. /\ y \in Server /\ y.todo = u /\ y.queue = x.queue /\ y.proc = x.proc
        /\ y.xml = x.xml /\ y.prefs = x.prefs /\ y.ids = x.ids /\ y.focus = x.focus
        /\ y.auto = x.auto /\ y.connect = x.connect /\ y.timer = x.timer
        /\ y.alert = x.alert /\ y.retry = x.retry
    BY <1>1 DEF Server
  <1> QED
    BY <1>2, <1>3 DEF u

\* A call that is not about the connection: what is synced has to stay synced.
LEMMA PlainCall ==
  ASSUME SyncInv, NEW s \in Servers, NEW op \in {"vector", "config", "one", "initialized", "workspace"},
         Makes(s, op, server[s]), kext' \in Kext, kext'.owner = kext.owner, kext.owner = s,
         \A y \in Server :
            /\ Synced(kext, server[s])
            /\ y.todo = Tail(server[s].todo) /\ y.queue = server[s].queue
            /\ y.xml = server[s].xml /\ y.prefs = server[s].prefs /\ y.ids = server[s].ids
            => Synced(kext', y)
  PROVE  SyncInv'
  <1> DEFINE x == server[s]
             t == x.todo
             y == [x EXCEPT !.todo = Tail(t)]
  <1>1. /\ x \in Server /\ x.proc = "up" /\ ServerOK(kext, s, x)
        /\ disk' \in 1..MaxVersion
        /\ t \in Seq(Calls) /\ t # <<>> /\ TodoOK(t, kext.owner = s) /\ Head(t).op = op
        /\ server' = [server EXCEPT ![s] = y]
    BY MakesFacts
  <1>2. /\ y \in Server /\ y.todo = Tail(t) /\ y.queue = x.queue /\ y.proc = x.proc
        /\ y.xml = x.xml /\ y.prefs = x.prefs /\ y.ids = x.ids /\ y.focus = x.focus
        /\ y.auto = x.auto /\ y.connect = x.connect /\ y.timer = x.timer
        /\ y.alert = x.alert /\ y.retry = x.retry
    BY <1>1, Popped
  <1>3. /\ TodoOK(Tail(t), kext'.owner = s) /\ ~In(Call("open"), Tail(t))
        /\ In(Call("close"), t) => In(Call("close"), Tail(t))
    <2>1. op # "close" /\ op # "open"
      OBVIOUS
    <2>2. Head(t) # Call("close")
      BY <1>1, <2>1, Ops
    <2> HIDE DEF t
    <2> QED BY <1>1, <2>1, <2>2, PopTodo
  <1>4. Synced(kext, x) => Synced(kext', y)
    BY <1>2
  <1> HIDE DEF x, y, t
  <1>5. ASSUME Serving(kext', s, y) PROVE Synced(kext', y)
    <2>1. Serving(kext, s, x)
      BY <1>2, <1>3, <1>5 DEF Serving, t
    <2> QED BY <1>1, <1>4, <2>1 DEF ServerOK
  <1>6. RetryOK(y)
    BY <1>1, <1>2, <1>3 DEF ServerOK, RetryOK
  <1>7. ServerOK(kext', s, y)
    BY <1>1, <1>2, <1>3, <1>5, <1>6 DEF ServerOK
  <1>8. \A r \in Servers \ {s} : kext'.owner # r
    OBVIOUS
  <1> QED
    BY <1>1, <1>2, <1>7, <1>8, OneServer

\* A call that the extension, or synchronized_communication, refuses.
LEMMA RefusedStep ==
  ASSUME SyncInv, NEW s \in Servers, Refused(s)
  PROVE  SyncInv'
  <1>1. PICK op \in {"vector", "config", "one", "initialized", "workspace", "get"} :
           Makes(s, op, server[s])
    BY DEF Refused
  <1>2. kext' = kext /\ kext.owner # s
    BY DEF Refused, BecomesQuietly
  <1> DEFINE x == server[s]
             t == x.todo
             y == [x EXCEPT !.todo = Tail(t)]
  <1>3. /\ x \in Server /\ x.proc = "up" /\ ServerOK(kext, s, x) /\ kext \in Kext
        /\ disk' \in 1..MaxVersion
        /\ t \in Seq(Calls) /\ t # <<>> /\ TodoOK(t, kext.owner = s) /\ Head(t).op = op
        /\ server' = [server EXCEPT ![s] = y]
    BY <1>1, MakesFacts
  <1>4. /\ y \in Server /\ y.todo = Tail(t) /\ y.queue = x.queue
        /\ y.xml = x.xml /\ y.ids = x.ids /\ y.focus = x.focus
        /\ y.auto = x.auto /\ y.timer = x.timer /\ y.retry = x.retry
    BY <1>3, Popped
  <1>5. TodoOK(Tail(t), kext.owner = s) /\ ~In(Call("open"), Tail(t))
    <2>1. op # "close"
      OBVIOUS
    <2> HIDE DEF t
    <2> QED BY <1>3, <2>1, PopTodo
  <1> HIDE DEF x, y, t
  <1>6. ServerOK(kext', s, y)
    BY <1>2, <1>3, <1>4, <1>5 DEF ServerOK, RetryOK, Serving
  <1> QED
    BY <1>2, <1>3, <1>4, <1>6, OneServer

\* What is known of the owner's next call.
LEMMA NextCall ==
  ASSUME NEW x \in Server, NEW owns, x.todo # <<>>, TodoOK(x.todo, owns),
         NEW y \in Server, y.todo = Tail(x.todo), y.queue = x.queue
  PROVE  /\ Head(x.todo) \in Calls
         /\ \A c : In(c, x.todo) <=> c = Head(x.todo) \/ In(c, y.todo)
         /\ Head(x.todo).op = "vector" => In(Call("config"), y.todo) /\ In(Call("initialized"), y.todo)
         /\ Head(x.todo).op # "vector" => (VectorWaits(x) => In(Reloaded, y.queue))
         /\ Head(x.todo).op # "vector" => (VectorWaits(x) => VectorWaits(y))
         /\ Head(x.todo).op # "config" => (ConfigWaits(x) => ConfigWaits(y))
         /\ Head(x.todo).op # "initialized" => (InitializedWaits(x) => InitializedWaits(y))
         /\ Head(x.todo).op # "workspace" => (WorkspaceWaits(x) => WorkspaceWaits(y))
         /\ Head(x.todo).op # "get" => \A i : EnabledWaits(x, i) => EnabledWaits(y, i)
         /\ In(Reloaded, y.queue) => VectorWaits(y) /\ ConfigWaits(y) /\ InitializedWaits(y)
  <1> DEFINE t == x.todo
             h == Head(t)
  <1>1. t \in Seq(Calls) /\ t # <<>> /\ TodoOK(t, owns)
    BY DEF Server
  <1>2. /\ h \in Calls /\ Tail(t) \in Seq(Calls)
        /\ \A c : In(c, t) <=> c = h \/ In(c, Tail(t))
        /\ ~In(Call("vector"), Tail(t))
        /\ h.op = "vector" => In(Call("config"), Tail(t)) /\ In(Call("initialized"), Tail(t))
    <2> HIDE DEF t
    <2> QED BY <1>1, PopTodo
  <1>3. /\ \A op : h.op # op => h # Call(op)
        /\ \A i : h.op # "get" => h # GetEnabled(i)
    BY Ops
  <1>4. y.todo = Tail(t) /\ x.todo = t /\ y.queue = x.queue
    OBVIOUS
  <1> HIDE DEF t, h
  <1>5. /\ h.op # "vector" => (VectorWaits(x) => In(Reloaded, y.queue))
        /\ In(Reloaded, y.queue) => VectorWaits(y) /\ ConfigWaits(y) /\ InitializedWaits(y)
    BY <1>2, <1>3, <1>4 DEF VectorWaits, ConfigWaits, InitializedWaits
  <1>6. /\ h.op # "config" => (ConfigWaits(x) => ConfigWaits(y))
        /\ h.op # "initialized" => (InitializedWaits(x) => InitializedWaits(y))
        /\ h.op # "workspace" => (WorkspaceWaits(x) => WorkspaceWaits(y))
    BY <1>2, <1>3, <1>4 DEF ConfigWaits, InitializedWaits, WorkspaceWaits
  <1>7. h.op # "get" => \A i : EnabledWaits(x, i) => EnabledWaits(y, i)
    BY <1>2, <1>3, <1>4 DEF EnabledWaits
  <1> QED
    BY <1>2, <1>4, <1>5, <1>6, <1>7 DEF t, h

\* send_remapclasses_initialize_vector_to_kext: what it switches off is sent next.
LEMMA SendVectorStep ==
  ASSUME SyncInv, NEW s \in Servers, SendVector(s)
  PROVE  SyncInv'
  <1> DEFINE x == server[s]
             k == LoadVector(kext, x.xml)
  <1>1. /\ Makes(s, "vector", x) /\ kext.owner = s /\ kext' = k
    BY DEF SendVector, Becomes
  <1>2. /\ x \in Server /\ x.todo # <<>> /\ TodoOK(x.todo, kext.owner = s)
        /\ Head(x.todo).op = "vector" /\ x.xml \in Vectors /\ kext \in Kext
    BY <1>1, MakesFacts
  <1>3. /\ k \in Kext /\ k.owner = kext.owner /\ k.notification = kext.notification
        /\ k.classes = Loaded(x.xml) /\ k.workspace = kext.workspace
    BY <1>2, LoadVectorTyped
  <1> HIDE DEF k
  <1>4. ASSUME NEW y \in Server, Synced(kext, x), y.todo = Tail(x.todo), y.queue = x.queue,
               y.xml = x.xml, y.ids = x.ids
        PROVE  Synced(kext', y)
    <2>1. /\ In(Call("config"), y.todo) /\ In(Call("initialized"), y.todo)
          /\ WorkspaceWaits(x) => WorkspaceWaits(y)
      <3> HIDE DEF x
      <3> QED BY <1>2, <1>4, NextCall
    <2> QED BY <1>1, <1>3, <1>4, <2>1 DEF Synced, ConfigWaits, InitializedWaits
  <1>5. kext' \in Kext /\ kext'.owner = kext.owner
    BY <1>1, <1>3
  <1> QED
    BY <1>1, <1>4, <1>5, PlainCall

\* send_config_to_kext: it is taken when the extension has the vector, and
\* otherwise the vector is still to come.
LEMMA SendConfigStep ==
  ASSUME SyncInv, NEW s \in Servers, SendConfigAll(s)
  PROVE  SyncInv'
  <1> DEFINE x == server[s]
             k == SetConfig(kext, x.xml, On(x))
  <1>1. /\ Makes(s, "config", x) /\ kext.owner = s
        /\ IF Len(x.xml) = Len(kext.classes) THEN kext' = k ELSE kext' = kext
    BY DEF SendConfigAll, Becomes, BecomesQuietly
  <1>2. /\ x \in Server /\ x.todo # <<>> /\ TodoOK(x.todo, kext.owner = s)
        /\ Head(x.todo).op = "config" /\ x.xml \in Vectors /\ kext \in Kext /\ x.auto
    BY <1>1, MakesFacts
  <1>3. ASSUME NEW y, y.xml = x.xml, y.prefs = x.prefs, Len(x.xml) = Len(kext.classes)
        PROVE  /\ k \in Kext /\ k.owner = kext.owner /\ k.notification = kext.notification
               /\ k.classes = kext.classes /\ k.workspace = kext.workspace
               /\ k.initialized = kext.initialized
               /\ EssentialSynced(k, y) /\ EnabledSynced(k, y)
    BY <1>2, <1>3, SetConfigSynced
  <1> HIDE DEF k
  <1>4. ASSUME NEW y \in Server, Synced(kext, x), y.todo = Tail(x.todo), y.queue = x.queue,
               y.xml = x.xml, y.prefs = x.prefs, y.ids = x.ids
        PROVE  Synced(kext', y)
    <2>1. /\ VectorWaits(x) => In(Reloaded, y.queue)
          /\ VectorWaits(x) => VectorWaits(y)
          /\ InitializedWaits(x) => InitializedWaits(y)
          /\ WorkspaceWaits(x) => WorkspaceWaits(y)
          /\ In(Reloaded, y.queue) => ConfigWaits(y)
      <3> HIDE DEF x
      <3> QED BY <1>2, <1>4, NextCall
    <2>2. CASE Len(x.xml) = Len(kext.classes)
      <3>1. /\ k.notification = kext.notification
            /\ k.classes = kext.classes /\ k.workspace = kext.workspace
            /\ k.initialized = kext.initialized
            /\ EssentialSynced(k, y) /\ EnabledSynced(k, y)
        BY <1>3, <1>4, <2>2
      <3>2. kext' = k
        BY <1>1, <2>2
      <3> HIDE DEF x
      <3> QED BY <1>4, <2>1, <3>1, <3>2 DEF Synced
    <2>3. CASE Len(x.xml) # Len(kext.classes)
      <3>1. kext' = kext
        BY <1>1, <2>3
      <3>2. kext.classes = Loaded(x.xml) => Len(x.xml) > MaxConfigCount
        <4>1. Len(x.xml) \in Nat /\ MaxConfigCount \in Nat
          BY <1>2, VectorFacts, SessionAssumption
        <4> QED BY <2>3, <4>1 DEF Loaded
      <3> HIDE DEF x
      <3> QED BY <1>4, <2>1, <3>1, <3>2 DEF Synced
    <2> QED BY <2>2, <2>3
  <1>5. kext' \in Kext /\ kext'.owner = kext.owner
    <2>1. CASE Len(x.xml) = Len(kext.classes)
      BY <1>1, <1>3, <2>1
    <2>2. CASE Len(x.xml) # Len(kext.classes)
      BY <1>1, <1>2, <2>2
    <2> QED BY <2>1, <2>2
  <1> QED
    BY <1>1, <1>4, <1>5, PlainCall

\* set_initialized
LEMMA SendInitializedStep ==
  ASSUME SyncInv, NEW s \in Servers, SendInitialized(s)
  PROVE  SyncInv'
  <1> DEFINE x == server[s]
             k == SetInitialized(kext, TRUE)
  <1>1. /\ Makes(s, "initialized", x) /\ kext.owner = s /\ kext' = k
    BY DEF SendInitialized, Becomes
  <1>2. /\ x \in Server /\ x.todo # <<>> /\ TodoOK(x.todo, kext.owner = s)
        /\ Head(x.todo).op = "initialized" /\ kext \in Kext
    BY <1>1, MakesFacts
  <1>3. /\ k \in Kext /\ k.owner = kext.owner /\ k.notification = kext.notification
        /\ k.classes = kext.classes /\ k.workspace = kext.workspace /\ k.initialized = TRUE
        /\ k.enabled = kext.enabled /\ k.essential = kext.essential
    BY <1>2, SetInitializedTyped
  <1> HIDE DEF k
  <1>4. ASSUME NEW y \in Server, Synced(kext, x), y.todo = Tail(x.todo), y.queue = x.queue,
               y.xml = x.xml, y.prefs = x.prefs, y.ids = x.ids
        PROVE  Synced(kext', y)
    <2>1. /\ VectorWaits(x) => VectorWaits(y)
          /\ ConfigWaits(x) => ConfigWaits(y)
          /\ WorkspaceWaits(x) => WorkspaceWaits(y)
          /\ \A i : EnabledWaits(x, i) => EnabledWaits(y, i)
          /\ \A n : In(SetOne(n), x.todo) => In(SetOne(n), y.todo)
      <3>1. \A n : SetOne(n).op # "initialized"
        BY Ops
      <3> HIDE DEF x
      <3> QED BY <1>2, <1>4, <3>1, NextCall
    <2>2. EssentialSynced(kext, x) => EssentialSynced(k, y)
      BY <1>3, <1>4, <2>1 DEF EssentialSynced
    <2>3. EnabledSynced(kext, x) => EnabledSynced(k, y)
      BY <1>3, <1>4, <2>1 DEF EnabledSynced
    <2> QED BY <1>1, <1>3, <1>4, <2>1, <2>2, <2>3 DEF Synced
  <1>5. kext' \in Kext /\ kext'.owner = kext.owner
    BY <1>1, <1>3
  <1> QED
    BY <1>1, <1>4, <1>5, PlainCall

\* send_workspacedata_to_kext
LEMMA SendWorkspaceStep ==
  ASSUME SyncInv, NEW s \in Servers, SendWorkspace(s)
  PROVE  SyncInv'
  <1> DEFINE x == server[s]
             i == x.ids
             k == [kext EXCEPT !.workspace = i]
  <1>1. /\ Makes(s, "workspace", x) /\ kext.owner = s /\ kext' = k
    BY DEF SendWorkspace, BecomesQuietly
  <1>2. /\ x \in Server /\ x.todo # <<>> /\ TodoOK(x.todo, kext.owner = s)
        /\ Head(x.todo).op = "workspace" /\ kext \in Kext
    BY <1>1, MakesFacts
  <1>3. i \in Ids
    BY <1>2 DEF Server
  <1>4. /\ k \in Kext /\ k.owner = kext.owner /\ k.notification = kext.notification
        /\ k.classes = kext.classes /\ k.workspace = i /\ k.initialized = kext.initialized
        /\ k.enabled = kext.enabled /\ k.essential = kext.essential
    <2> HIDE DEF i
    <2> QED BY <1>2, <1>3 DEF Kext
  <1> HIDE DEF k
  <1>5. ASSUME NEW y \in Server, Synced(kext, x), y.todo = Tail(x.todo), y.queue = x.queue,
               y.xml = x.xml, y.prefs = x.prefs, y.ids = x.ids
        PROVE  Synced(kext', y)
    <2>1. /\ VectorWaits(x) => VectorWaits(y)
          /\ ConfigWaits(x) => ConfigWaits(y)
          /\ InitializedWaits(x) => InitializedWaits(y)
          /\ \A j : EnabledWaits(x, j) => EnabledWaits(y, j)
          /\ \A n : In(SetOne(n), x.todo) => In(SetOne(n), y.todo)
      <3>1. \A n : SetOne(n).op # "workspace"
        BY Ops
      <3> HIDE DEF x
      <3> QED BY <1>2, <1>5, <3>1, NextCall
    <2>2. EssentialSynced(kext, x) => EssentialSynced(k, y)
      BY <1>4, <1>5, <2>1 DEF EssentialSynced
    <2>3. EnabledSynced(kext, x) => EnabledSynced(k, y)
      BY <1>4, <1>5, <2>1 DEF EnabledSynced
    <2> QED BY <1>1, <1>4, <1>5, <2>1, <2>2, <2>3 DEF Synced
  <1>6. kext' \in Kext /\ kext'.owner = kext.owner
    BY <1>1, <1>4
  <1> QED
    BY <1>1, <1>5, <1>6, PlainCall

\* The settings after set_config_one for the name n, in an extension that has the
\* vector of the server: what k has of n is right, the rest is what it was.
LEMMA OneSynced ==
  ASSUME NEW x \in Server, x.auto, NEW y, NEW n, NEW k, NEW r,
         EssentialSynced(k, x), EnabledSynced(k, x),
         y.xml = x.xml, y.prefs = x.prefs, k.classes = x.xml,
         \A i : EnabledWaits(x, i) => EnabledWaits(y, i),
         \A m : In(SetOne(m), x.todo) => m = n \/ In(SetOne(m), y.todo),
         OneSet(k, r, x.xml, n, n \in On(x))
  PROVE  EssentialSynced(r, y) /\ EnabledSynced(r, y)
  <1>1. x.xml \in Vectors
    BY DEF Server
  <1>2. \A i \in DOMAIN x.xml : x.xml[i] \notin Essential \cup AutoEnable
    BY <1>1, VectorFacts
  <1>3. n \in On(x) <=> n \in x.prefs \/ n \in AutoEnable
    BY DEF On
  <1>4. Indexes(x.xml, n) \cap DOMAIN k.classes = {i \in DOMAIN x.xml : x.xml[i] = n}
    BY DEF Indexes
  <1>5. CASE n \in Essential \cup AutoEnable
    <2>1. /\ r.essential = IF n \in On(x) THEN k.essential \cup {n} ELSE k.essential \ {n}
          /\ r.enabled = k.enabled
      BY <1>5 DEF OneSet
    <2>2. EssentialSynced(r, y)
      BY <1>3, <1>5, <2>1 DEF EssentialSynced
    <2>3. EnabledSynced(r, y)
      BY <1>2, <1>5, <2>1 DEF EnabledSynced
    <2> QED BY <2>2, <2>3
  <1>6. CASE n \notin Essential \cup AutoEnable
    <2> DEFINE known == {i \in DOMAIN x.xml : x.xml[i] = n}
    <2>1. /\ r.essential = k.essential
          /\ r.enabled = IF n \in On(x) THEN k.enabled \cup known ELSE k.enabled \ known
      BY <1>4, <1>6 DEF OneSet
    <2>2. EssentialSynced(r, y)
      BY <1>6, <2>1 DEF EssentialSynced
    <2>3. r.enabled \subseteq DOMAIN y.xml
      BY <2>1 DEF EnabledSynced
    <2>4. ASSUME NEW i \in DOMAIN y.xml
          PROVE  \/ (i \in r.enabled <=> y.xml[i] \in y.prefs)
                 \/ In(SetOne(y.xml[i]), y.todo) \/ EnabledWaits(y, i)
      <3>1. CASE x.xml[i] = n
        BY <1>3, <1>6, <2>1, <3>1
      <3>2. CASE x.xml[i] # n
        <4>1. i \in r.enabled <=> i \in k.enabled
          BY <2>1, <3>2
        <4> QED BY <3>2, <4>1 DEF EnabledSynced
      <3> QED BY <3>1, <3>2
    <2> QED BY <2>2, <2>3, <2>4 DEF EnabledSynced
  <1> QED
    BY <1>5, <1>6

\* callSetConfigOne
LEMMA SendConfigOneStep ==
  ASSUME SyncInv, NEW s \in Servers, SendConfigOne(s)
  PROVE  SyncInv'
  <1> DEFINE x == server[s]
             n == Head(x.todo).name
             known == Indexes(x.xml, n) \cap DOMAIN kext.classes
             k == SetConfigOne(kext, x.xml, n, n \in On(x))
  <1>1. /\ Makes(s, "one", x) /\ kext.owner = s
        /\ IF n \in Essential \cup AutoEnable \/ known # {} THEN kext' = k ELSE kext' = kext
    BY DEF SendConfigOne, Becomes, BecomesQuietly
  <1>2. /\ x \in Server /\ x.todo # <<>> /\ TodoOK(x.todo, kext.owner = s)
        /\ Head(x.todo).op = "one" /\ x.xml \in Vectors /\ kext \in Kext /\ x.auto
    BY <1>1, MakesFacts
  <1>3. OneSet(kext, k, x.xml, n, n \in On(x))
    BY <1>2, SetConfigOneTyped
  <1> HIDE DEF k
  <1>4. OneSet(kext, kext', x.xml, n, n \in On(x))
    <2>1. CASE n \in Essential \cup AutoEnable \/ known # {}
      BY <1>1, <1>3, <2>1
    <2>2. CASE n \notin Essential \cup AutoEnable /\ known = {}
      <3>1. kext' = kext
        BY <1>1, <2>2
      <3>2. OneSet(kext, kext, x.xml, n, n \in On(x))
        BY <1>2, <2>2 DEF OneSet
      <3> QED BY <3>1, <3>2
    <2> QED BY <2>1, <2>2
  <1>5. ASSUME NEW y \in Server, Synced(kext, x), y.todo = Tail(x.todo), y.queue = x.queue,
               y.xml = x.xml, y.prefs = x.prefs, y.ids = x.ids
        PROVE  Synced(kext', y)
    <2>1. /\ VectorWaits(x) => In(Reloaded, y.queue)
          /\ VectorWaits(x) => VectorWaits(y)
          /\ ConfigWaits(x) => ConfigWaits(y)
          /\ InitializedWaits(x) => InitializedWaits(y)
          /\ WorkspaceWaits(x) => WorkspaceWaits(y)
          /\ In(Reloaded, y.queue) => ConfigWaits(y)
          /\ \A i : EnabledWaits(x, i) => EnabledWaits(y, i)
          /\ \A c : In(c, x.todo) <=> c = Head(x.todo) \/ In(c, y.todo)
      <3> HIDE DEF x
      <3> QED BY <1>2, <1>5, NextCall
    <2>2. \A m : In(SetOne(m), x.todo) => m = n \/ In(SetOne(m), y.todo)
      BY <2>1, Ops
    <2>3. ASSUME EssentialSynced(kext, x), EnabledSynced(kext, x),
                 ~ConfigWaits(y), ~(Len(y.xml) > MaxConfigCount)
          PROVE  EssentialSynced(kext', y) /\ EnabledSynced(kext', y)
      <3>1. kext.classes = Loaded(x.xml)
        BY <1>5, <2>1, <2>3 DEF Synced
      <3>2. Loaded(x.xml) = x.xml
        <4>1. Len(x.xml) \in Nat /\ MaxConfigCount \in Nat
          BY <1>2, VectorFacts, SessionAssumption
        <4> QED BY <1>5, <2>3, <4>1 DEF Loaded
      <3>3. kext.classes = x.xml
        BY <3>1, <3>2
      <3> HIDE DEF x, n
      <3> QED BY <1>2, <1>4, <1>5, <2>1, <2>2, <2>3, <3>3, OneSynced
    <2> HIDE DEF x, n
    <2> QED BY <1>4, <1>5, <2>1, <2>3 DEF Synced, OneSet
  <1>6. kext' \in Kext /\ kext'.owner = kext.owner
    BY <1>4 DEF OneSet
  <1> QED
    BY <1>1, <1>5, <1>6, PlainCall

\* GET_CONFIG_ENABLED: the setting of one class becomes what the extension has.
LEMMA GetConfigEnabledStep ==
  ASSUME SyncInv, NEW s \in Servers, GetConfigEnabled(s)
  PROVE  SyncInv'
  <1> DEFINE x == server[s]
             t == x.todo
             i == Head(t).index
             p == IF i \notin DOMAIN x.xml THEN x.prefs
                  ELSE IF i \in kext.enabled THEN x.prefs \cup {x.xml[i]}
                       ELSE x.prefs \ {x.xml[i]}
             z == [x EXCEPT !.prefs = p]
             y == [z EXCEPT !.todo = Tail(@)]
  <1>1. /\ kext.owner = s /\ kext' = kext
        /\ Makes(s, "get", IF i \notin DOMAIN x.xml THEN x
                           ELSE [x EXCEPT !.prefs = IF i \in kext.enabled THEN @ \cup {x.xml[i]}
                                                    ELSE @ \ {x.xml[i]}])
    BY DEF GetConfigEnabled, BecomesQuietly
  <1>2. /\ x \in Server /\ x.proc = "up" /\ ServerOK(kext, s, x) /\ x.xml \in Vectors
        /\ kext \in Kext /\ disk' \in 1..MaxVersion
        /\ t \in Seq(Calls) /\ t # <<>> /\ TodoOK(t, kext.owner = s) /\ Head(t).op = "get"
    <2> DEFINE w == IF i \notin DOMAIN x.xml THEN x
                    ELSE [x EXCEPT !.prefs = IF i \in kext.enabled THEN @ \cup {x.xml[i]}
                                             ELSE @ \ {x.xml[i]}]
    <2>1. Makes(s, "get", w)
      BY <1>1
    <2> HIDE DEF w
    <2> QED BY <2>1, MakesFacts
  <1>3. Makes(s, "get", z)
    <2>1. CASE i \notin DOMAIN x.xml
      <3>1. z = x
        BY <1>2, <2>1 DEF Server
      <3> QED BY <1>1, <2>1, <3>1
    <2>2. CASE i \in DOMAIN x.xml
      <3>1. z = [x EXCEPT !.prefs = IF i \in kext.enabled THEN @ \cup {x.xml[i]}
                                    ELSE @ \ {x.xml[i]}]
        BY <1>2, <2>2 DEF Server
      <3> QED BY <1>1, <2>2, <3>1
    <2> QED BY <2>1, <2>2
  <1>4. server' = [server EXCEPT ![s] = [z EXCEPT !.todo = Tail(t)]]
    <2> HIDE DEF z
    <2> QED BY <1>3, MakesFacts
  <1>5. p \subseteq Names /\ x.prefs \subseteq Names
    BY <1>2, VectorFacts DEF Server
  <1>6. /\ z \in Server /\ z.todo = t /\ z.queue = x.queue /\ z.proc = x.proc
        /\ z.xml = x.xml /\ z.prefs = p /\ z.ids = x.ids /\ z.focus = x.focus
        /\ z.auto = x.auto /\ z.connect = x.connect /\ z.timer = x.timer
        /\ z.alert = x.alert /\ z.retry = x.retry
    <2> HIDE DEF p
    <2> QED BY <1>2, <1>5 DEF Server
  <1>7. /\ y \in Server /\ y.todo = Tail(t) /\ y.queue = x.queue /\ y.proc = x.proc
        /\ y.xml = x.xml /\ y.prefs = p /\ y.ids = x.ids /\ y.focus = x.focus
        /\ y.auto = x.auto /\ y.connect = x.connect /\ y.timer = x.timer
        /\ y.alert = x.alert /\ y.retry = x.retry
        /\ y = [z EXCEPT !.todo = Tail(t)]
    <2> HIDE DEF p, z
    <2> QED BY <1>2, <1>6, Popped
  <1>8. /\ Head(t) = GetEnabled(i)
        /\ TodoOK(Tail(t), kext.owner = s) /\ ~In(Call("open"), Tail(t))
        /\ \A c : In(c, t) <=> c = Head(t) \/ In(c, Tail(t))
    <2>1. Head(t).op # "close"
      BY <1>2
    <2>2. /\ Head(t) \in Calls /\ TodoOK(Tail(t), kext.owner = s) /\ ~In(Call("open"), Tail(t))
          /\ \A c : In(c, t) <=> c = Head(t) \/ In(c, Tail(t))
      <3> HIDE DEF t
      <3> QED BY <1>2, <2>1, PopTodo
    <2> QED BY <1>2, <2>2, CallKinds
  <1> HIDE DEF y, z
  <1>9. /\ VectorWaits(x) => In(Reloaded, y.queue)
        /\ VectorWaits(x) => VectorWaits(y)
        /\ ConfigWaits(x) => ConfigWaits(y)
        /\ InitializedWaits(x) => InitializedWaits(y)
        /\ WorkspaceWaits(x) => WorkspaceWaits(y)
        /\ In(Reloaded, y.queue) => ConfigWaits(y)
    <2>1. /\ x.todo # <<>> /\ TodoOK(x.todo, kext.owner = s) /\ Head(x.todo).op = "get"
          /\ y.todo = Tail(x.todo) /\ y.queue = x.queue
      BY <1>2, <1>7
    <2>2. x \in Server /\ y \in Server
      BY <1>2, <1>7
    <2> HIDE DEF x, t, i, p
    <2> QED BY <2>1, <2>2, NextCall
  <1>10. /\ \A j : EnabledWaits(x, j) => j = i \/ EnabledWaits(y, j)
         /\ \A m : In(SetOne(m), x.todo) => In(SetOne(m), y.todo)
         /\ In(Call("close"), x.todo) => In(Call("close"), y.todo)
    <2>1. /\ \A j : GetEnabled(j) = GetEnabled(i) => j = i
          /\ \A m : SetOne(m) # GetEnabled(i)
          /\ Call("close") # GetEnabled(i)
      BY Ops
    <2>2. (\A c : In(c, x.todo) <=> c = GetEnabled(i) \/ In(c, y.todo)) /\ y.queue = x.queue
      BY <1>7, <1>8
    <2> HIDE DEF x, t, i, p
    <2>3. \A j : EnabledWaits(x, j) => j = i \/ EnabledWaits(y, j)
      <3> SUFFICES ASSUME NEW j, EnabledWaits(x, j), j # i PROVE EnabledWaits(y, j)
        OBVIOUS
      <3>1. GetEnabled(j) # GetEnabled(i)
        BY <2>1
      <3>2. CASE In(Notify(j), x.queue)
        BY <2>2, <3>2 DEF EnabledWaits
      <3>3. CASE In(GetEnabled(j), x.todo)
        BY <2>2, <3>1, <3>3 DEF EnabledWaits
      <3> QED BY <3>2, <3>3 DEF EnabledWaits
    <2>4. \A m : In(SetOne(m), x.todo) => In(SetOne(m), y.todo)
      BY <2>1, <2>2
    <2> QED BY <2>1, <2>2, <2>3, <2>4
  <1>11. ASSUME EssentialSynced(kext, x), EnabledSynced(kext, x)
         PROVE  EssentialSynced(kext, y) /\ EnabledSynced(kext, y)
    <2>1. /\ \A j \in DOMAIN x.xml : x.xml[j] \notin Essential \cup AutoEnable
          /\ \A j, m \in DOMAIN x.xml : x.xml[j] = x.xml[m] => j = m
      BY <1>2, VectorFacts
    <2>2. EssentialSynced(kext, y)
      <3>1. ASSUME NEW e \in Essential PROVE e \in p <=> e \in x.prefs
        BY <2>1
      <3> HIDE DEF p
      <3>2. y.prefs = p /\ \A m : In(SetOne(m), x.todo) => In(SetOne(m), y.todo)
        BY <1>7, <1>10
      <3> HIDE DEF x, t, i
      <3> QED BY <1>11, <3>1, <3>2 DEF EssentialSynced
    <2>3. ASSUME NEW j \in DOMAIN x.xml
          PROVE  \/ (j \in kext.enabled <=> y.xml[j] \in y.prefs)
                 \/ In(SetOne(y.xml[j]), y.todo) \/ EnabledWaits(y, j)
      <3>1. CASE j = i
        <4>1. y.xml = x.xml /\ y.prefs = p /\ i \in DOMAIN x.xml
          BY <1>7, <3>1
        <4>2. i \in kext.enabled <=> x.xml[i] \in p
          <5> DEFINE b == x.xml[i]
          <5>1. p = IF i \in kext.enabled THEN x.prefs \cup {b} ELSE x.prefs \ {b}
            BY <4>1
          <5> HIDE DEF p, b
          <5>2. i \in kext.enabled <=> b \in p
            BY <5>1
          <5> QED BY <5>2 DEF b
        <4> HIDE DEF x, t, i, p
        <4> QED BY <3>1, <4>1, <4>2
      <3>2. CASE j # i
        <4>1. x.xml[j] \in p <=> x.xml[j] \in x.prefs
          <5> DEFINE a == x.xml[j]
                     b == x.xml[i]
          <5>1. i \in DOMAIN x.xml => a # b
            BY <2>1, <3>2
          <5>2. p = IF i \notin DOMAIN x.xml THEN x.prefs
                    ELSE IF i \in kext.enabled THEN x.prefs \cup {b} ELSE x.prefs \ {b}
            OBVIOUS
          <5> HIDE DEF p, a, b
          <5>3. a \in p <=> a \in x.prefs
            BY <5>1, <5>2
          <5> QED BY <5>3 DEF a
        <4> QED BY <1>7, <1>10, <1>11, <3>2, <4>1 DEF EnabledSynced
      <3> QED BY <3>1, <3>2
    <2> QED BY <1>7, <1>11, <2>2, <2>3 DEF EnabledSynced
  <1> HIDE DEF x, t, p, i
  <1>12. ASSUME Serving(kext, s, y) PROVE Synced(kext, y)
    <2>1. Serving(kext, s, x)
      BY <1>7, <1>10, <1>12 DEF Serving
    <2>2. Synced(kext, x)
      BY <1>2, <2>1 DEF ServerOK
    <2> QED BY <1>7, <1>9, <1>11, <2>2 DEF Synced
  <1>13. ServerOK(kext', s, y)
    BY <1>1, <1>2, <1>7, <1>8, <1>12 DEF ServerOK, RetryOK
  <1> QED
    BY <1>1, <1>2, <1>4, <1>7, <1>13, OneServer

\* Who does not own the extension has nothing to keep in sync.
LEMMA NotServing ==
  ASSUME NEW k, NEW s, NEW y, k.owner # s, y.auto, RetryOK(y), TodoOK(y.todo, FALSE),
         y.proc = "up" => y.ids = <<y.focus, y.xml>> \/ In(Workspace, y.queue)
  PROVE  ServerOK(k, s, y)
  BY DEF ServerOK, Serving, TodoOK

\* closeUserClient
LEMMA CloseStep ==
  ASSUME SyncInv, NEW s \in Servers, Close(s)
  PROVE  SyncInv'
  <1> DEFINE x == server[s]
             t == x.todo
             z == [x EXCEPT !.connect = FALSE]
             y == [z EXCEPT !.todo = Tail(@)]
  <1>1. /\ Makes(s, "close", z)
        /\ IF kext.owner = s THEN kext' = CallbackClose(kext) ELSE kext' = kext
    BY DEF Close, Becomes, BecomesQuietly
  <1>2. /\ x \in Server /\ ServerOK(kext, s, x) /\ kext \in Kext /\ disk' \in 1..MaxVersion
        /\ t \in Seq(Calls) /\ t # <<>> /\ TodoOK(t, kext.owner = s)
        /\ server' = [server EXCEPT ![s] = [z EXCEPT !.todo = Tail(t)]]
    <2>1. Makes(s, "close", z)
      BY <1>1
    <2> HIDE DEF z
    <2> QED BY <2>1, MakesFacts
  <1>3. /\ z \in Server /\ z.todo = t /\ z.queue = x.queue
        /\ z.xml = x.xml /\ z.ids = x.ids /\ z.focus = x.focus
        /\ z.auto = x.auto /\ z.timer = x.timer /\ z.retry = x.retry /\ z.proc = x.proc
    BY <1>2 DEF Server
  <1>4. /\ y \in Server /\ y.todo = Tail(t) /\ y.queue = x.queue
        /\ y.xml = x.xml /\ y.ids = x.ids /\ y.focus = x.focus
        /\ y.auto = x.auto /\ y.timer = x.timer /\ y.retry = x.retry /\ y.proc = x.proc
        /\ y = [z EXCEPT !.todo = Tail(t)]
    <2> HIDE DEF z
    <2> QED BY <1>2, <1>3, Popped
  <1>5. TodoOK(Tail(t), FALSE) /\ \A c : In(c, Tail(t)) => In(c, t)
    <2> HIDE DEF t
    <2> QED BY <1>2, PopTodo
  <1>6. kext' \in Kext /\ kext'.owner # s /\ (kext' = kext \/ kext'.owner = Nobody)
    <2>1. CallbackClose(kext) \in Kext /\ CallbackClose(kext).owner = Nobody
      BY <1>2, SetInitializedTyped
    <2> QED BY <1>1, <1>2, <2>1, SessionAssumption
  <1> HIDE DEF y, z, x, t
  <1>7. RetryOK(y)
    BY <1>2, <1>4, <1>5 DEF ServerOK, RetryOK, t
  <1>8. ServerOK(kext', s, y)
    <2>1. /\ y.auto /\ TodoOK(y.todo, FALSE) /\ y.proc = x.proc
          /\ y.proc = "up" => y.ids = <<y.focus, y.xml>> \/ In(Workspace, y.queue)
      BY <1>2, <1>4, <1>5 DEF ServerOK
    <2> QED BY <1>6, <1>7, <2>1, NotServing
  <1>9. kext' = kext \/ \A r \in Servers \ {s} : kext'.owner # r
    BY <1>6, SessionAssumption
  <1> QED
    BY <1>2, <1>4, <1>6, <1>8, <1>9, OneServer

\* What is known when a server opens the extension.
LEMMA OpenFacts ==
  ASSUME SyncInv, NEW s \in Servers,
         server[s].proc = "up", server[s].todo # <<>>, Head(server[s].todo).op = "open"
  PROVE  /\ server[s] \in Server /\ server[s].auto /\ kext \in Kext
         /\ disk \in 1..MaxVersion /\ server[s].queue \in Seq(Blocks)
         /\ server[s].ids = <<server[s].focus, server[s].xml>> \/ In(Workspace, server[s].queue)
         /\ Tail(server[s].todo) = <<>> /\ kext.owner # s
         /\ server[s].retry \in Nat /\ server[s].retry <= MaxRetry
  <1> DEFINE t == server[s].todo
  <1>1. /\ server[s] \in Server /\ server[s].auto /\ kext \in Kext
        /\ disk \in 1..MaxVersion /\ RetryOK(server[s])
        /\ server[s].ids = <<server[s].focus, server[s].xml>> \/ In(Workspace, server[s].queue)
        /\ TodoOK(t, kext.owner = s)
    BY DEF SyncInv, ServerOK
  <1>2. t \in Seq(Calls) /\ server[s].queue \in Seq(Blocks) /\ server[s].retry \in Nat
    BY <1>1, SessionAssumption DEF Server
  <1>3. /\ Head(t) \in Calls /\ Tail(t) = <<>> /\ ~(kext.owner = s)
        /\ \A c : In(c, t) <=> c = Head(t) \/ In(c, Tail(t))
    <2>1. Head(t).op = "open" /\ t # <<>>
      OBVIOUS
    <2> HIDE DEF t
    <2> QED BY <1>1, <1>2, <2>1, PopTodo
  <1>4. In(Call("open"), t)
    BY <1>3, CallKinds
  <1> QED
    BY <1>1, <1>2, <1>3, <1>4 DEF RetryOK

\* What a server has queued when it has connected.
LEMMA PostReloadedFacts ==
  ASSUME NEW x \in Server
  PROVE  LET y == PostReloaded(x)
         IN  /\ y \in Server /\ In(Reloaded, y.queue) /\ In(Workspace, y.queue)
             /\ y.todo = x.todo /\ y.auto = x.auto /\ y.proc = x.proc /\ y.xml = x.xml
             /\ y.timer = x.timer /\ y.retry = x.retry /\ y.connect = x.connect
  <1> DEFINE p == <<Block("reloaded", 0), Block("workspace", 0)>>
             q == x.queue \o p
  <1>1. x.queue \in Seq(Blocks)
    BY DEF Server
  <1>2. p \in Seq(Blocks) /\ In(Reloaded, p) /\ In(Workspace, p)
    BY BlockTypes, InShort DEF Reloaded, Workspace
  <1>3. PostReloaded(x) = [x EXCEPT !.queue = q]
    BY DEF PostReloaded
  <1> HIDE DEF p
  <1>4. q \in Seq(Blocks) /\ In(Reloaded, q) /\ In(Workspace, q)
    BY <1>1, <1>2, InConcat
  <1> HIDE DEF q
  <1> QED
    BY <1>3, <1>4 DEF Server

\* openUserClient succeeds: all that is missing is queued.
LEMMA OpenSucceedsStep ==
  ASSUME SyncInv, NEW s \in Servers, OpenSucceeds(s)
  PROVE  SyncInv'
  <1> DEFINE x == server[s]
             u == [x EXCEPT !.connect = TRUE]
             v == [u EXCEPT !.timer = FALSE]
             z == PostReloaded(v)
             y == [z EXCEPT !.todo = Tail(@)]
             k == [kext EXCEPT !.owner = s, !.notification = TRUE]
  <1>1. Makes(s, "open", z) /\ kext' = k /\ kext.owner = Nobody
    BY DEF OpenSucceeds, BecomesQuietly, Invalidate
  <1>2. server' = [server EXCEPT ![s] = [z EXCEPT !.todo = Tail(x.todo)]] /\ disk' \in 1..MaxVersion
    <2>1. Makes(s, "open", z)
      BY <1>1
    <2> HIDE DEF z
    <2> QED BY <2>1, MakesFacts
  <1>3. x.proc = "up" /\ x.todo # <<>> /\ Head(x.todo).op = "open"
    BY <1>1 DEF Makes
  <1>4. x \in Server /\ x.auto /\ kext \in Kext /\ Tail(x.todo) = <<>>
    BY <1>3, OpenFacts
  <1>5. u \in Server /\ u.todo = x.todo /\ u.auto = x.auto /\ u.connect = TRUE
    BY <1>4 DEF Server
  <1>6. /\ v \in Server /\ v.todo = x.todo /\ v.auto = x.auto /\ v.connect = TRUE
        /\ v.timer = FALSE
    <2> HIDE DEF u
    <2> QED BY <1>5 DEF Server
  <1>7. /\ z \in Server /\ z.todo = x.todo /\ z.auto = x.auto /\ z.connect = TRUE
        /\ z.timer = FALSE /\ In(Reloaded, z.queue) /\ In(Workspace, z.queue)
    <2> HIDE DEF v
    <2> QED BY <1>6, PostReloadedFacts
  <1>8. /\ y \in Server /\ y.todo = <<>> /\ y.auto = x.auto /\ y.connect = TRUE
        /\ y.timer = FALSE /\ In(Reloaded, y.queue) /\ In(Workspace, y.queue)
        /\ y = [z EXCEPT !.todo = Tail(x.todo)]
    <2>1. z \in Server /\ z.todo # <<>>
      BY <1>3, <1>7
    <2>2. Tail(z.todo) = <<>> /\ Tail(x.todo) = Tail(z.todo)
      BY <1>4, <1>7
    <2> HIDE DEF z, x
    <2>3. /\ y \in Server /\ y.todo = Tail(z.todo) /\ y.queue = z.queue
          /\ y.auto = z.auto /\ y.connect = z.connect /\ y.timer = z.timer
          /\ y = [z EXCEPT !.todo = Tail(z.todo)]
      BY <2>1, Popped
    <2> HIDE DEF y
    <2> QED BY <1>7, <2>2, <2>3
  <1>9. k \in Kext /\ k.owner = s /\ k.notification = TRUE
    BY <1>4 DEF Kext
  <1>10. y.proc # "down"
    <2>1. x.proc = "up"
      BY <1>1 DEF Makes
    <2>2. z.proc = "up"
      <3>1. v.proc = "up"
        BY <1>4, <2>1 DEF Server
      <3> HIDE DEF v
      <3> QED BY <1>6, <3>1, PostReloadedFacts
    <2> HIDE DEF z, x
    <2>3. y.proc = z.proc
      BY <1>3, <1>7, Popped
    <2> QED BY <2>2, <2>3
  <1> HIDE DEF y, k
  <1>11. ServerOK(k, s, y)
    <2>1. Synced(k, y)
      BY <1>8, <1>9 DEF Synced, VectorWaits, ConfigWaits, InitializedWaits, WorkspaceWaits
    <2>2. TodoOK(y.todo, TRUE) /\ ~In(Call("open"), y.todo)
      BY <1>8, ShortTodo
    <2> QED BY <1>4, <1>8, <1>9, <1>10, <2>1, <2>2 DEF ServerOK, RetryOK, TodoOK
  <1> QED
    BY <1>1, <1>2, <1>8, <1>9, <1>11, OneServer

\* openUserClient fails, or throws: an alert is shown, or it is retried.
LEMMA OpenFailsStep ==
  ASSUME SyncInv, NEW s \in Servers, OpenFails(s) \/ OpenThrows(s)
  PROVE  SyncInv'
  <1> DEFINE x == server[s]
  <1>1. x.proc = "up" /\ x.todo # <<>> /\ Head(x.todo).op = "open"
    BY DEF OpenFails, OpenThrows, Fails, Makes
  <1>2. /\ x \in Server /\ x.auto /\ kext \in Kext /\ Tail(x.todo) = <<>> /\ kext.owner # s
        /\ x.ids = <<x.focus, x.xml>> \/ In(Workspace, x.queue)
        /\ x.retry \in Nat /\ x.retry <= MaxRetry
    BY <1>1, OpenFacts
  <1>3. ASSUME NEW z \in Server, Makes(s, "open", z), z.todo = x.todo,
               z.auto = x.auto, z.proc = x.proc, z.ids = x.ids, z.focus = x.focus, z.xml = x.xml,
               z.queue = x.queue, z.timer => z.retry <= MaxRetry,
               NEW k \in Kext, kext' = k,
               \/ k = kext
               \/ k.owner = s /\ z.alert = TRUE /\ z.connect = TRUE
        PROVE  SyncInv'
    <2> DEFINE y == [z EXCEPT !.todo = Tail(@)]
    <2>1. /\ server' = [server EXCEPT ![s] = [z EXCEPT !.todo = Tail(x.todo)]]
          /\ disk' \in 1..MaxVersion /\ x.proc = "up"
      BY <1>3, MakesFacts
    <2>2. /\ y \in Server /\ y.todo = <<>> /\ y.auto = x.auto /\ y.connect = z.connect
          /\ y.timer = z.timer /\ y.queue = x.queue /\ y.alert = z.alert /\ y.retry = z.retry
          /\ y.ids = x.ids /\ y.focus = x.focus /\ y.xml = x.xml /\ y.proc = z.proc
          /\ y = [z EXCEPT !.todo = Tail(x.todo)]
      <3>1. z \in Server /\ z.todo # <<>>
        BY <1>1, <1>3
      <3>2. Tail(z.todo) = <<>> /\ Tail(x.todo) = Tail(z.todo)
        BY <1>2, <1>3
      <3> HIDE DEF x
      <3>3. /\ y \in Server /\ y.todo = Tail(z.todo) /\ y.queue = z.queue /\ y.proc = z.proc
            /\ y.auto = z.auto /\ y.connect = z.connect /\ y.timer = z.timer
            /\ y.alert = z.alert /\ y.retry = z.retry
            /\ y.ids = z.ids /\ y.focus = z.focus /\ y.xml = z.xml
            /\ y = [z EXCEPT !.todo = Tail(z.todo)]
        BY <3>1, Popped
      <3> HIDE DEF y
      <3> QED BY <1>3, <3>2, <3>3
    <2> HIDE DEF y, x
    <2>3. /\ TodoOK(y.todo, FALSE) /\ TodoOK(y.todo, TRUE) /\ ~In(Call("open"), y.todo)
      BY <2>2, ShortTodo
    <2>4. RetryOK(y)
      BY <1>3, <2>2, <2>3 DEF RetryOK
    <2>5. CASE k = kext
      <3>1. ServerOK(kext, s, y)
        <4>1. y.auto /\ (y.ids = <<y.focus, y.xml>> \/ In(Workspace, y.queue))
          BY <1>2, <2>2
        <4> QED BY <1>2, <2>3, <2>4, <4>1, NotServing
      <3> QED BY <1>3, <2>1, <2>2, <2>5, <3>1, OneServer
    <2>6. CASE k.owner = s /\ z.alert = TRUE /\ z.connect = TRUE
      <3>1. y.proc # "down"
        BY <1>3, <2>1, <2>2
      <3>2. ServerOK(k, s, y)
        BY <1>2, <2>2, <2>3, <2>4, <2>6, <3>1 DEF ServerOK, Serving, TodoOK
      <3> QED BY <1>3, <2>1, <2>2, <2>6, <3>2, OneServer
    <2> QED BY <1>3, <2>5, <2>6
  <1> DEFINE z1 == [x EXCEPT !.retry = @ + 1]
             z2 == [z1 EXCEPT !.alert = TRUE]
             z3 == [z2 EXCEPT !.timer = FALSE]
             z4 == [x EXCEPT !.connect = TRUE, !.alert = TRUE]
             z5 == [z4 EXCEPT !.timer = FALSE]
             k5 == [kext EXCEPT !.owner = s]
  <1>4. CASE OpenFails(s)
    <2>1. /\ Makes(s, "open", IF x.retry + 1 > MaxRetry THEN z3 ELSE z1)
          /\ kext' = kext
      BY <1>4 DEF OpenFails, Fails, BecomesQuietly, Invalidate
    <2>2. x.retry + 1 \in 0..MaxRetry + 1
      BY <1>2, SessionAssumption
    <2>3. /\ z1 \in Server /\ z1.todo = x.todo /\ z1.auto = x.auto /\ z1.proc = x.proc
          /\ z1.ids = x.ids /\ z1.focus = x.focus /\ z1.xml = x.xml /\ z1.queue = x.queue
          /\ z1.timer = x.timer /\ z1.retry = x.retry + 1
      BY <1>2, <2>2 DEF Server
    <2> HIDE DEF z1
    <2>4. /\ z3 \in Server /\ z3.todo = x.todo /\ z3.auto = x.auto /\ z3.proc = x.proc
          /\ z3.ids = x.ids /\ z3.focus = x.focus /\ z3.xml = x.xml /\ z3.queue = x.queue
          /\ z3.timer = FALSE
      BY <2>3 DEF Server
    <2> HIDE DEF z3
    <2>5. CASE x.retry + 1 > MaxRetry
      BY <1>2, <1>3, <2>1, <2>4, <2>5
    <2>6. CASE ~(x.retry + 1 > MaxRetry)
      <3>1. Makes(s, "open", z1) /\ z1.retry <= MaxRetry
        BY <1>2, <2>1, <2>2, <2>3, <2>6, SessionAssumption
      <3> QED BY <1>2, <1>3, <2>1, <2>3, <3>1
    <2> QED BY <2>5, <2>6
  <1>5. CASE OpenThrows(s)
    <2>1. Makes(s, "open", z5) /\ kext' = k5
      BY <1>5 DEF OpenThrows, BecomesQuietly, Invalidate
    <2>2. /\ z4 \in Server /\ z4.todo = x.todo /\ z4.auto = x.auto /\ z4.proc = x.proc
          /\ z4.ids = x.ids /\ z4.focus = x.focus /\ z4.xml = x.xml /\ z4.queue = x.queue
          /\ z4.alert = TRUE /\ z4.connect = TRUE
      BY <1>2 DEF Server
    <2> HIDE DEF z4
    <2>3. /\ z5 \in Server /\ z5.todo = x.todo /\ z5.auto = x.auto /\ z5.proc = x.proc
          /\ z5.ids = x.ids /\ z5.focus = x.focus /\ z5.xml = x.xml /\ z5.queue = x.queue
          /\ z5.alert = TRUE /\ z5.connect = TRUE /\ z5.timer = FALSE
      BY <2>2 DEF Server
    <2>4. k5 \in Kext /\ k5.owner = s
      BY <1>2 DEF Kext
    <2> HIDE DEF z5, k5
    <2> QED BY <1>3, <2>1, <2>3, <2>4
  <1> QED
    BY <1>4, <1>5

\* A server ends: what was queued is lost with it.
LEMMA EndedTyped ==
  ASSUME NEW x \in Server, NEW p \in {"down", "relaunching"}, NEW v \in 0..MaxVersion
  PROVE  LET y == Ended(x, p, v)
         IN  /\ y \in Server /\ y.todo = <<>> /\ y.proc = p /\ y.auto = x.auto /\ y.timer = FALSE
  <1>1. <<>> \in Seq(Blocks) /\ <<>> \in Seq(Calls) /\ 0 \in 0..MaxRetry + 1
    BY SessionAssumption
  <1> QED
    BY <1>1 DEF Ended, Server

\* A server that does not run has nothing to keep in sync.
LEMMA NotRunning ==
  ASSUME NEW k, NEW s, NEW y, y.auto, y.proc # "up", y.todo = <<>>, y.timer = FALSE,
         k.owner = s => y.proc # "down"
  PROVE  ServerOK(k, s, y)
  <1>1. TodoOK(y.todo, k.owner = s) /\ ~In(Call("open"), y.todo)
    BY ShortTodo
  <1> QED
    BY <1>1 DEF ServerOK, RetryOK, Serving

\* openUserClient with another version: the server is launched anew.
LEMMA OpenRelaunchesStep ==
  ASSUME SyncInv, NEW s \in Servers, OpenRelaunches(s)
  PROVE  SyncInv'
  <1> DEFINE x == server[s]
             y == Ended(x, "relaunching", x.version)
             k == [kext EXCEPT !.owner = s]
  <1>1. /\ server' = [server EXCEPT ![s] = y] /\ kext' = k /\ kext.owner = Nobody
        /\ disk' = disk
    BY DEF OpenRelaunches, BecomesQuietly, InsideOnly
  <1>2. x \in Server /\ kext \in Kext /\ disk \in 1..MaxVersion /\ x.auto
    BY DEF SyncInv, ServerOK
  <1>3. k \in Kext /\ k.owner = s
    BY <1>2 DEF Kext
  <1>4. y \in Server /\ y.todo = <<>> /\ y.proc = "relaunching" /\ y.auto /\ y.timer = FALSE
    <2>1. x.version \in 0..MaxVersion
      BY <1>2, SessionAssumption DEF Server
    <2> HIDE DEF x
    <2> QED BY <1>2, <2>1, EndedTyped
  <1> HIDE DEF k, y
  <1>5. ServerOK(k, s, y)
    BY <1>4, NotRunning
  <1> QED
    BY <1>1, <1>2, <1>3, <1>4, <1>5, OneServer

\* A call keeps the invariant.
LEMMA CallKeeps ==
  ASSUME SyncInv, NEW s \in Servers, CallStep(s)
  PROVE  SyncInv'
  BY RefusedStep, CloseStep, OpenSucceedsStep, OpenFailsStep, OpenRelaunchesStep, SendVectorStep,
     SendConfigStep, SendConfigOneStep, SendInitializedStep, SendWorkspaceStep, GetConfigEnabledStep
     DEF CallStep

-----------------------------------------------------------------------------
(* The servers end and start, the extension is loaded and unloaded *)

\* clientClose leaves the extension without this client.
LEMMA ClientDiesFacts ==
  ASSUME SyncInv, NEW s \in Servers, ClientDies(s)
  PROVE  /\ kext' \in Kext /\ kext'.owner # s
         /\ kext' = kext \/ \A r \in Servers \ {s} : kext'.owner # r
  <1>1. kext \in Kext
    BY DEF SyncInv
  <1>2. CallbackClose(kext) \in Kext /\ CallbackClose(kext).owner = Nobody
    BY <1>1, SetInitializedTyped
  <1>3. kext' = IF kext.owner = s THEN CallbackClose(kext) ELSE kext
    BY DEF ClientDies, Becomes, BecomesQuietly
  <1> HIDE DEF CallbackClose
  <1> QED
    BY <1>1, <1>2, <1>3, SessionAssumption

\* A server is quit, or crashes.
LEMMA EndStep ==
  ASSUME SyncInv, NEW s \in Servers, End(s)
  PROVE  SyncInv'
  <1> DEFINE x == server[s]
             y == Ended(x, "down", 0)
  <1>1. /\ server' = [server EXCEPT ![s] = y] /\ ClientDies(s) /\ disk' = disk
    BY DEF End
  <1>2. x \in Server /\ x.auto /\ disk \in 1..MaxVersion
    BY DEF SyncInv, ServerOK
  <1>3. /\ kext' \in Kext /\ kext'.owner # s
        /\ kext' = kext \/ \A r \in Servers \ {s} : kext'.owner # r
    BY <1>1, ClientDiesFacts
  <1>4. y \in Server /\ y.todo = <<>> /\ y.proc = "down" /\ y.auto /\ y.timer = FALSE
    <2>1. 0 \in 0..MaxVersion
      BY SessionAssumption
    <2> HIDE DEF x
    <2> QED BY <1>2, <2>1, EndedTyped
  <1> HIDE DEF y
  <1>5. ServerOK(kext', s, y)
    BY <1>3, <1>4, NotRunning
  <1> QED
    BY <1>1, <1>2, <1>3, <1>4, <1>5, OneServer

\* A server is started.
LEMMA LaunchStep ==
  ASSUME SyncInv, NEW s \in Servers, Launch(s)
  PROVE  SyncInv'
  <1> DEFINE x == server[s]
             y == Launched(x)
             q == <<Reloaded, Workspace>>
  <1>1. /\ server' = [server EXCEPT ![s] = y] /\ ClientDies(s) /\ disk' = disk
    BY DEF Launch, InsideOnly
  <1>2. x \in Server /\ x.auto /\ disk \in 1..MaxVersion
    BY DEF SyncInv, ServerOK
  <1>3. /\ kext' \in Kext /\ kext'.owner # s
        /\ kext' = kext \/ \A r \in Servers \ {s} : kext'.owner # r
    BY <1>1, ClientDiesFacts
  <1>4. q \in Seq(Blocks) /\ In(Workspace, q) /\ <<>> \in Seq(Calls) /\ 0 \in 0..MaxRetry + 1
    <2>1. Reloaded \in Blocks /\ Workspace \in Blocks
      BY BlockTypes DEF Reloaded, Workspace
    <2> QED BY <2>1, InShort, SessionAssumption
  <1>5. /\ y = [x EXCEPT !.proc = "up", !.version = disk, !.active = FALSE, !.connect = FALSE,
                         !.timer = FALSE, !.retry = 0, !.alert = FALSE, !.focus = 0,
                         !.ids = <<0, x.xml>>, !.queue = q, !.todo = <<>>]
    BY DEF Launched, Reloaded, Workspace
  <1> HIDE DEF q
  <1>6. <<0, x.xml>> \in Ids /\ 0 \in Focus
    BY <1>2 DEF Ids, Focus, Server
  <1> HIDE DEF y
  <1>7. y \in Server /\ y.todo = <<>> /\ y.auto = x.auto /\ y.timer = FALSE /\ In(Workspace, y.queue)
    BY <1>2, <1>4, <1>5, <1>6 DEF Server
  <1>8. ServerOK(kext', s, y)
    <2>1. TodoOK(y.todo, FALSE) /\ ~In(Call("open"), y.todo)
      BY <1>7, ShortTodo
    <2> QED BY <1>2, <1>3, <1>7, <2>1, NotServing DEF RetryOK
  <1> QED
    BY <1>1, <1>2, <1>3, <1>7, <1>8, OneServer

\* The servers stay as they are, and the extension has no owner or looks the
\* same to its owner.
LEMMA ServersStay ==
  ASSUME SyncInv, server' = server, disk' \in 1..MaxVersion, kext' \in Kext,
         \/ kext'.owner = Nobody
         \/ /\ kext'.owner = kext.owner /\ kext'.notification = kext.notification
            /\ kext'.initialized = kext.initialized /\ kext'.classes = kext.classes
            /\ kext'.enabled = kext.enabled /\ kext'.essential = kext.essential
            /\ kext'.workspace = kext.workspace
  PROVE  SyncInv'
  <1>1. server \in [Servers -> Server] /\ \A s \in Servers : ServerOK(kext, s, server[s])
    BY DEF SyncInv
  <1>2. ASSUME NEW s \in Servers PROVE ServerOK(kext', s, server[s])
    <2>1. ServerOK(kext, s, server[s])
      BY <1>1
    <2>2. CASE kext'.owner = Nobody
      <3>1. kext'.owner # s
        BY <2>2, SessionAssumption
      <3> QED BY <2>1, <3>1, NotOwner
    <2>3. CASE kext'.owner # Nobody
      BY <2>1, <2>3 DEF ServerOK, Serving, Synced, EssentialSynced, EnabledSynced
    <2> QED BY <2>2, <2>3
  <1>3. \A s \in Servers : ServerOK(kext, s, server[s])'
    BY <1>2 DEF ServerOK, Serving, Synced, EssentialSynced, EnabledSynced, VectorWaits, ConfigWaits,
         InitializedWaits, WorkspaceWaits, EnabledWaits, In, TodoOK
  <1> QED
    BY <1>1, <1>3 DEF SyncInv

\* A new extension has its type.
LEMMA NewKextTyped ==
  ASSUME disk \in 1..MaxVersion
  PROVE  /\ NewKext \in Kext /\ NewKext.owner = Nobody
         /\ \A v \in 1..MaxVersion :
               LET k == [NewKext EXCEPT !.loaded = FALSE, !.version = v]
               IN  k \in Kext /\ k.owner = Nobody
  <1>1. NewKext \in Kext /\ NewKext.owner = Nobody
    BY DEF NewKext, Kext
  <1>2. ASSUME NEW v \in 1..MaxVersion
        PROVE  LET k == [NewKext EXCEPT !.loaded = FALSE, !.version = v]
               IN  k \in Kext /\ k.owner = Nobody
    BY DEF NewKext, Kext
  <1> QED
    BY <1>1, <1>2

\* The extension is unloaded.
LEMMA UnloadStep ==
  ASSUME SyncInv, Unload
  PROVE  SyncInv'
  <1>1. disk \in 1..MaxVersion /\ kext.version \in 1..MaxVersion
    BY DEF SyncInv, Kext
  <1>2. kext' \in Kext /\ kext'.owner = Nobody
    <2>1. kext' = [NewKext EXCEPT !.loaded = FALSE, !.version = kext.version]
      BY DEF Unload
    <2> QED BY <1>1, <2>1, NewKextTyped
  <1>3. server' = server /\ disk' = disk
    BY DEF Unload
  <1> QED
    BY <1>1, <1>2, <1>3, ServersStay

\* The extension is loaded: the sessions that have registered hear of it.
LEMMA LoadStep ==
  ASSUME SyncInv, Load
  PROVE  SyncInv'
  <1> DEFINE y(s) == [server[s] EXCEPT !.queue = Append(@, Block("io", 0))]
  <1>1. /\ kext' = NewKext /\ disk' = disk
        /\ server' = [s \in Servers |-> IF server[s].active THEN y(s) ELSE server[s]]
    BY DEF Load, InsideOnly
  <1>2. /\ disk \in 1..MaxVersion /\ server \in [Servers -> Server]
        /\ \A s \in Servers : ServerOK(kext, s, server[s])
    BY DEF SyncInv
  <1>3. kext' \in Kext /\ kext'.owner = Nobody
    BY <1>1, <1>2, NewKextTyped
  <1>4. ASSUME NEW s \in Servers
        PROVE  /\ server[s] \in Server /\ y(s) \in Server
               /\ ServerOK(kext', s, server[s]) /\ ServerOK(kext', s, y(s))
    <2> DEFINE x == server[s]
               q == Append(x.queue, Block("io", 0))
    <2>1. x \in Server /\ ServerOK(kext, s, x) /\ kext'.owner # s
      BY <1>2, <1>3, SessionAssumption
    <2>2. q \in Seq(Blocks) /\ \A b : In(b, x.queue) => In(b, q)
      <3>1. x.queue \in Seq(Blocks) /\ Block("io", 0) \in Blocks
        BY <2>1, BlockTypes DEF Server
      <3> HIDE DEF x
      <3> QED BY <3>1, InAppend
    <2>3. y(s) = [x EXCEPT !.queue = q]
      OBVIOUS
    <2> HIDE DEF q, x, y
    <2>4. /\ y(s) \in Server /\ y(s).queue = q /\ y(s).todo = x.todo /\ y(s).auto = x.auto
          /\ y(s).ids = x.ids /\ y(s).focus = x.focus /\ y(s).xml = x.xml /\ y(s).proc = x.proc
          /\ y(s).timer = x.timer /\ y(s).retry = x.retry
      BY <2>1, <2>2, <2>3 DEF Server
    <2>5. ServerOK(kext', s, x)
      BY <2>1, NotOwner
    <2>6. ServerOK(kext', s, y(s))
      BY <2>1, <2>2, <2>4, <2>5 DEF ServerOK, Serving, RetryOK
    <2> QED BY <2>1, <2>4, <2>5, <2>6 DEF x
  <1> HIDE DEF y
  <1>5. server' \in [Servers -> Server]
    BY <1>1, <1>4
  <1>6. \A s \in Servers : ServerOK(kext', s, server'[s])
    BY <1>1, <1>4
  <1>7. \A s \in Servers : ServerOK(kext, s, server[s])'
    BY <1>6 DEF ServerOK, Serving, Synced, EssentialSynced, EnabledSynced, VectorWaits, ConfigWaits,
         InitializedWaits, WorkspaceWaits, EnabledWaits, In, TodoOK
  <1> QED
    BY <1>1, <1>2, <1>3, <1>5, <1>7 DEF SyncInv

-----------------------------------------------------------------------------
(* A key switches a class in the extension *)

\* The setting that is switched is in the vector of the owner, unless all of
\* them are on their way.
LEMMA SwitchedIndex ==
  ASSUME NEW k, NEW x \in Server, NEW i \in DOMAIN k.classes,
         k.classes = Loaded(x.xml) \/ VectorWaits(x),
         In(Call("vector"), x.todo) => In(Call("config"), x.todo)
  PROVE  i \in DOMAIN x.xml \/ ConfigWaits(x)
  <1>1. CASE k.classes = Loaded(x.xml)
    <2>1. DOMAIN <<>> = {}
      OBVIOUS
    <2> QED BY <1>1, <2>1 DEF Loaded
  <1>2. CASE VectorWaits(x)
    BY <1>2 DEF VectorWaits, ConfigWaits
  <1> QED
    BY <1>1, <1>2

\* The owner is notified: it will ask for the setting that was switched.
LEMMA SwitchedSynced ==
  ASSUME NEW k \in Kext, NEW x \in Server, NEW y, NEW e, NEW r, NEW i \in DOMAIN k.classes,
         Synced(k, x), In(Call("vector"), x.todo) => In(Call("config"), x.todo),
         y.todo = x.todo, y.prefs = x.prefs, y.ids = x.ids, y.xml = x.xml,
         \A b : In(b, y.queue) <=> In(b, x.queue) \/ b = Notify(i),
         e = IF i \in k.enabled THEN k.enabled \ {i} ELSE k.enabled \cup {i},
         r.notification = k.notification, r.classes = k.classes, r.initialized = k.initialized,
         r.workspace = k.workspace, r.essential = k.essential, r.enabled = e
  PROVE  Synced(r, y)
  <1>1. i \in DOMAIN x.xml \/ ConfigWaits(x)
    <2>1. k.classes = Loaded(x.xml) \/ VectorWaits(x)
      BY DEF Synced
    <2> QED BY <2>1, SwitchedIndex
  <1>2. /\ VectorWaits(x) => VectorWaits(y)
        /\ ConfigWaits(x) => ConfigWaits(y)
        /\ InitializedWaits(x) => InitializedWaits(y)
        /\ WorkspaceWaits(x) => WorkspaceWaits(y)
        /\ \A j : EnabledWaits(x, j) => EnabledWaits(y, j)
        /\ EnabledWaits(y, i)
    BY DEF VectorWaits, ConfigWaits, InitializedWaits, WorkspaceWaits, EnabledWaits
  <1>3. ASSUME i \in DOMAIN x.xml, EssentialSynced(k, x), EnabledSynced(k, x)
        PROVE  EssentialSynced(r, y) /\ EnabledSynced(r, y)
    <2>1. EssentialSynced(r, y)
      BY <1>3 DEF EssentialSynced
    <2>2. e \subseteq DOMAIN x.xml
      BY <1>3 DEF EnabledSynced
    <2>3. ASSUME NEW j \in DOMAIN x.xml
          PROVE  \/ (j \in e <=> x.xml[j] \in x.prefs)
                 \/ In(SetOne(x.xml[j]), x.todo) \/ EnabledWaits(y, j)
      <3>1. CASE j = i
        BY <1>2, <3>1
      <3>2. CASE j # i
        BY <1>2, <1>3, <3>2 DEF EnabledSynced
      <3> QED BY <3>1, <3>2
    <2>4. EnabledSynced(r, y)
      BY <2>2, <2>3 DEF EnabledSynced
    <2> QED BY <2>1, <2>4
  <1> QED
    BY <1>1, <1>2, <1>3 DEF Synced

\* VK_CONFIG, while a server has the extension open.
LEMMA OwnedToggleStep ==
  ASSUME SyncInv, ToggleByKey, kext.owner \in Servers
  PROVE  SyncInv'
  <1> DEFINE s == kext.owner
             x == server[s]
  <1>1. PICK i \in DOMAIN kext.classes :
           /\ kext' = [kext EXCEPT !.enabled = IF i \in @ THEN @ \ {i} ELSE @ \cup {i}]
           /\ server' = IF kext.notification
                        THEN [server EXCEPT ![s].queue = Append(@, Notify(i))]
                        ELSE server
    BY DEF ToggleByKey, BecomesQuietly, Notify
  <1>2. s \in Servers /\ disk' = disk
    BY DEF ToggleByKey
  <1>3. /\ kext \in Kext /\ disk \in 1..MaxVersion /\ server \in [Servers -> Server]
        /\ x \in Server /\ ServerOK(kext, s, x)
    BY <1>2 DEF SyncInv
  <1> DEFINE e == IF i \in kext.enabled THEN kext.enabled \ {i} ELSE kext.enabled \cup {i}
             k == [kext EXCEPT !.enabled = e]
             q == Append(x.queue, Notify(i))
             y == [x EXCEPT !.queue = q]
  <1>4. i \in Nat /\ i \in UNION {DOMAIN v : v \in Vectors}
    <2>1. kext.classes \in Vectors \cup {<<>>} /\ DOMAIN <<>> = {}
      BY <1>3 DEF Kext
    <2> QED BY <2>1, VectorFacts
  <1>5. e \in SUBSET Nat
    BY <1>3, <1>4 DEF Kext
  <1>6. kext' = k
    BY <1>1, <1>3 DEF Kext
  <1>7. /\ k \in Kext /\ k.owner = s /\ k.enabled = e /\ k.notification = kext.notification
        /\ k.classes = kext.classes /\ k.initialized = kext.initialized
        /\ k.workspace = kext.workspace /\ k.essential = kext.essential
    <2> HIDE DEF e
    <2> QED BY <1>3, <1>5 DEF Kext
  <1>8. q \in Seq(Blocks) /\ \A b : In(b, q) <=> In(b, x.queue) \/ b = Notify(i)
    <2>1. x.queue \in Seq(Blocks) /\ Notify(i) \in Blocks
      BY <1>3, <1>4, BlockTypes DEF Server
    <2> HIDE DEF x
    <2> QED BY <2>1, InAppend
  <1>9. kext.notification => server' = [server EXCEPT ![s] = y]
    BY <1>1, <1>2, <1>3 DEF Server
  <1> HIDE DEF k, q, s, x
  <1>10. /\ y \in Server /\ y.queue = q /\ y.todo = x.todo /\ y.auto = x.auto
         /\ y.ids = x.ids /\ y.focus = x.focus /\ y.xml = x.xml /\ y.proc = x.proc
         /\ y.timer = x.timer /\ y.retry = x.retry /\ y.prefs = x.prefs
         /\ y.alert = x.alert /\ y.connect = x.connect
    BY <1>3, <1>8 DEF Server
  <1> HIDE DEF y, e
  <1>11. CASE kext.notification
    <2>1. Serving(k, s, y) => Serving(kext, s, x)
      BY <1>7, <1>10 DEF Serving, s
    <2>2. ASSUME Serving(kext, s, x) PROVE Synced(k, y)
      <3>1. Synced(kext, x) /\ (In(Call("vector"), x.todo) => In(Call("config"), x.todo))
        BY <1>3, <2>2 DEF ServerOK, TodoOK, In
      <3>2. e = IF i \in kext.enabled THEN kext.enabled \ {i} ELSE kext.enabled \cup {i}
        BY DEF e
      <3> QED BY <1>3, <1>7, <1>8, <1>10, <3>1, <3>2, SwitchedSynced
    <2>3. ServerOK(k, s, y)
      BY <1>3, <1>7, <1>8, <1>10, <2>1, <2>2 DEF ServerOK, RetryOK, s
    <2>4. \A r \in Servers \ {s} : k.owner # r
      BY <1>7
    <2> QED BY <1>2, <1>3, <1>6, <1>7, <1>9, <1>10, <1>11, <2>3, <2>4, OneServer
  <1>12. CASE ~kext.notification
    <2>1. server' = server
      BY <1>1, <1>12
    <2>2. ~Serving(kext, s, x)
      BY <1>3, <1>12 DEF ServerOK, Synced
    <2>3. ServerOK(k, s, x)
      BY <1>3, <1>7, <2>2 DEF ServerOK, Serving, s
    <2>4. server' = [server EXCEPT ![s] = x]
      BY <1>3, <2>1 DEF x
    <2>5. \A r \in Servers \ {s} : k.owner # r
      BY <1>7
    <2> QED BY <1>2, <1>3, <1>6, <1>7, <2>3, <2>4, <2>5, OneServer
  <1> QED
    BY <1>11, <1>12

\* VK_CONFIG, of an event that waited at the close: nobody is notified.
LEMMA ToggleStep ==
  ASSUME SyncInv, IInv, ToggleByKey
  PROVE  SyncInv'
  <1>1. kext \in Kext /\ disk \in 1..MaxVersion
    BY DEF SyncInv
  <1>2. CASE kext.owner = Nobody
    <2>1. ~kext.notification
      BY <1>2, HookedHasOwner
    <2>2. PICK i \in DOMAIN kext.classes :
             kext' = [kext EXCEPT !.enabled = IF i \in @ THEN @ \ {i} ELSE @ \cup {i}]
      BY DEF ToggleByKey, BecomesQuietly
    <2>3. server' = server /\ disk' = disk
      BY <2>1 DEF ToggleByKey
    <2> DEFINE e == IF i \in kext.enabled THEN kext.enabled \ {i} ELSE kext.enabled \cup {i}
    <2>4. e \in SUBSET Nat
      <3>1. kext.classes \in Vectors \cup {<<>>} /\ DOMAIN <<>> = {}
        BY <1>1 DEF Kext
      <3>2. i \in Nat
        BY <3>1, VectorFacts
      <3> QED BY <1>1, <3>2 DEF Kext
    <2>5. kext' = [kext EXCEPT !.enabled = e]
      BY <2>2, <1>1 DEF Kext
    <2> HIDE DEF e
    <2>6. kext' \in Kext /\ kext'.owner = Nobody
      BY <1>1, <1>2, <2>4, <2>5 DEF Kext
    <2> QED BY <1>1, <2>3, <2>6, ServersStay
  <1>3. CASE kext.owner # Nobody
    BY <1>1, <1>3, OwnedToggleStep DEF Kext
  <1> QED
    BY <1>2, <1>3

-----------------------------------------------------------------------------
(* Every step keeps the invariant *)

\* A step of the users and of the servers.
LEMMA ServerKeeps ==
  ASSUME SyncInv, NEW s \in Servers, ServerStep(s) \/ UserStep(s)
  PROVE  SyncInv'
  BY MainThreadStep, CallKeeps, EndStep, LaunchStep DEF ServerStep, UserStep

\* What leaves the extension and the servers alone, but for what a user locks.
LEMMA OtherStep ==
  ASSUME SyncInv,
         SwitchUser \/ Take \/ Use \/ Drain \/ Upgrade \/ ProgressTimer \/ UNCHANGED vars
           \/ \E d \in Devices : DeviceStep(d)
  PROVE  SyncInv'
  <1>1. kext \in Kext /\ disk \in 1..MaxVersion
    BY DEF SyncInv
  <1>2. CASE Use
    <2>1. Traces \in SUBSET Traces
      OBVIOUS
    <2> DEFINE k == [kext EXCEPT !.traces = Traces]
    <2>2. /\ k \in Kext /\ k.owner = kext.owner /\ k.notification = kext.notification
          /\ k.initialized = kext.initialized /\ k.classes = kext.classes
          /\ k.enabled = kext.enabled /\ k.essential = kext.essential
          /\ k.workspace = kext.workspace
      BY <1>1, <2>1 DEF Kext
    <2>3. server' = server /\ disk' = disk /\ kext' = k
      BY <1>2 DEF Use, BecomesQuietly, InsideOnly
    <2> HIDE DEF k
    <2> QED BY <1>1, <2>2, <2>3, ServersStay
  <1>3. CASE \/ SwitchUser \/ Take \/ Drain \/ Upgrade \/ ProgressTimer \/ UNCHANGED vars
             \/ \E d \in Devices : DeviceStep(d)
    <2>1. server' = server /\ kext' = kext
      BY <1>3 DEF SwitchUser, Take, Drain, Upgrade, ProgressTimer, vars, DeviceStep, Connect,
           Disconnect, Overwrite, DriverSets, BecomesQuietly
    <2>2. disk' = disk \/ (disk < MaxVersion /\ disk' = disk + 1)
      BY <1>3 DEF SwitchUser, Take, Drain, Upgrade, ProgressTimer, vars, DeviceStep, Connect,
           Disconnect, Overwrite, DriverSets, InsideOnly
    <2>3. disk' \in 1..MaxVersion
      BY <1>1, <2>2, SessionAssumption
    <2> QED BY <1>1, <2>1, <2>3, ServersStay
  <1> QED
    BY <1>2, <1>3

\* SyncInv is inductive, relative to the invariant of the devices.
LEMMA SyncStep ==
  ASSUME SyncInv, IInv, [Next]_vars
  PROVE  SyncInv'
  BY ServerKeeps, ToggleStep, UnloadStep, LoadStep, OtherStep DEF Next

\* No server owns the extension at the start.
LEMMA SyncInit ==
  ASSUME Init
  PROVE  SyncInv
  <1> DEFINE x == [proc |-> "up", version |-> 1, previous |-> 0, active |-> FALSE,
                   connect |-> FALSE, timer |-> FALSE, retry |-> 0, alert |-> FALSE,
                   prefs |-> {}, auto |-> TRUE, xml |-> InitialVector, focus |-> 0,
                   ids |-> <<0, InitialVector>>, queue |-> <<>>, todo |-> <<>>]
  <1>1. disk \in 1..MaxVersion
    BY SessionAssumption DEF Init
  <1>2. kext \in Kext /\ kext.owner = Nobody
    BY <1>1, NewKextTyped DEF Init
  <1>3. x \in Server
    <2>1. InitialVector \in Vectors /\ 0 \in Focus /\ <<0, InitialVector>> \in Ids
      BY VectorsAssumption DEF Focus, Ids
    <2>2. 1 \in 1..MaxVersion /\ 0 \in 0..MaxVersion /\ 0 \in 0..MaxRetry + 1
      BY SessionAssumption
    <2> QED BY <2>1, <2>2 DEF Server
  <1>4. ASSUME NEW s \in Servers PROVE ServerOK(kext, s, x)
    <2>1. TodoOK(x.todo, FALSE) /\ ~In(Call("open"), x.todo)
      BY ShortTodo
    <2>2. kext.owner # s
      BY <1>2, SessionAssumption
    <2>3. x.auto /\ RetryOK(x) /\ x.ids = <<x.focus, x.xml>>
      BY <2>1 DEF RetryOK
    <2> HIDE DEF x
    <2> QED BY <2>1, <2>2, <2>3, NotServing
  <1>5. server = [s \in Servers |-> x]
    BY DEF Init
  <1> HIDE DEF x
  <1> QED
    BY <1>1, <1>2, <1>3, <1>4, <1>5 DEF SyncInv

\* The types of what is around the servers and the extension.
Around ==
    console \in Servers \cup {Nobody} /\ budget \in [Kinds -> Nat] /\ progressTimer \in BOOLEAN

LEMMA AroundStep ==
  ASSUME Around, [Next]_vars
  PROVE  Around'
  <1>1. ASSUME NEW kind \in Kinds, Event(kind)
        PROVE  budget' \in [Kinds -> Nat]
    <2>1. budget[kind] \in Nat /\ budget[kind] > 0 /\ budget' = [budget EXCEPT ![kind] = @ - 1]
      BY <1>1 DEF Around, Event
    <2>2. budget[kind] - 1 \in Nat
      BY <2>1
    <2> QED BY <2>1, <2>2 DEF Around
  <1>2. {"switch", "reload", "select", "set", "wake", "focus", "toggle", "end", "upgrade",
         "unload", "plug", "unplug", "overwrite", "take"} \subseteq Kinds
    BY DEF Kinds
  <1>3. ASSUME UNCHANGED vars \/ ProgressTimer \/ Use \/ Drain \/ Load
        PROVE  Around'
    BY <1>3 DEF vars, ProgressTimer, RefreshInProgressDevices, Use, Drain, Load, InitializeAll, Around,
         BecomesQuietly, RefreshNone, InsideOnly
  <1>4. ASSUME NEW s \in Servers, ServerStep(s)
        PROVE  Around'
    <2>1. UNCHANGED <<console, budget, progressTimer>>
      BY <1>4 DEF ServerStep, BlockStep, CallStep, Poll, Retry, RunIONotification, RunReloaded,
           RunListChanged, RunWorkspace, RunWake, RunNotification, Takes, Refused, Close,
           OpenSucceeds, OpenFails, Fails, OpenThrows, OpenRelaunches, SendVector, SendConfigAll,
           SendConfigOne, SendInitialized, SendWorkspace, GetConfigEnabled, Launch, ClientDies,
           Makes, Becomes, BecomesQuietly, RefreshAll, RefreshNone, InsideOnly, ServersOnly
    <2> QED BY <2>1 DEF Around
  <1>5. ASSUME NEW s \in Servers, UserStep(s)
        PROVE  Around'
    <2>1. UNCHANGED <<console, progressTimer>>
      BY <1>5 DEF UserStep, ReloadXML, SelectConfig, EditConfigList, ClearAllValues, SetValue, Wake,
           ChangeFocus, End, ClientDies, Becomes, BecomesQuietly, RefreshAll, RefreshNone
    <2>2. \E kind \in Kinds : Event(kind)
      BY <1>2, <1>5 DEF UserStep, ReloadXML, SelectConfig, EditConfigList, ClearAllValues, SetValue,
           Wake, ChangeFocus, End
    <2> QED BY <1>1, <2>1, <2>2 DEF Around
  <1>6. ASSUME NEW d \in Devices, DeviceStep(d)
        PROVE  Around'
    <2>1. UNCHANGED console /\ progressTimer' \in BOOLEAN
      BY <1>6 DEF DeviceStep, Connect, Disconnect, Overwrite, DriverSets, PushBack, Erase,
           OverwriteAction, SetAction, Around, InsideOnly
    <2>2. UNCHANGED budget \/ \E kind \in Kinds : Event(kind)
      BY <1>2, <1>6 DEF DeviceStep, Connect, Disconnect, Overwrite, DriverSets, InsideOnly
    <2> QED BY <1>1, <2>1, <2>2 DEF Around
  <1>7. ASSUME SwitchUser \/ Take \/ ToggleByKey \/ Upgrade \/ Unload
        PROVE  Around'
    <2>1. console' \in Servers \cup {Nobody} /\ progressTimer' \in BOOLEAN
      BY <1>7 DEF SwitchUser, Take, ToggleByKey, Upgrade, Unload, TerminateAll, BecomesQuietly,
           RefreshNone, Around
    <2>2. \E kind \in Kinds : Event(kind)
      BY <1>2, <1>7 DEF SwitchUser, Take, ToggleByKey, Upgrade, Unload
    <2> QED BY <1>1, <2>1, <2>2 DEF Around
  <1> QED
    BY <1>3, <1>4, <1>5, <1>6, <1>7 DEF Next

-----------------------------------------------------------------------------
(* The extension in sync: the theorems *)

\* Both invariants hold in every behaviour.
LEMMA SyncInvariance == Spec => [](SyncInv /\ Around)
  <1>1. Init => SyncInv /\ Around
    <2> SUFFICES ASSUME Init PROVE SyncInv /\ Around
      OBVIOUS
    <2>1. console \in Servers \cup {Nobody}
      BY SessionAssumption DEF Init
    <2>2. budget \in [Kinds -> Nat] /\ progressTimer \in BOOLEAN
      BY ScenariosAssumption DEF Init
    <2> QED BY <2>1, <2>2, SyncInit DEF Around
  <1>2. SyncInv /\ Around /\ IInv /\ [Next]_vars => (SyncInv /\ Around)'
    BY SyncStep, AroundStep
  <1> QED
    BY <1>1, <1>2, Invariance, PTL DEF Spec

\* The extension, the servers and the devices have their types: no count of
\* retries passes MaxRetry + 1, no index leaves the vectors, no queue or block
\* holds anything but its kinds.
THEOREM TypeCorrect == Spec => []TypeOK
  <1>1. SyncInv /\ Around /\ IInv => TypeOK
    BY DEF SyncInv, Around, IInv, DevOK, ItemOK, WaitingOK, TypeOK
  <1> QED
    BY <1>1, SyncInvariance, Invariance, PTL

\* Nothing is missing when nothing waits.
LEMMA IdleInSync ==
  ASSUME SyncInv, NEW s \in Servers, kext.owner = s, Idle(s)
  PROVE  InSync(s)
  <1> DEFINE x == server[s]
  <1>1. /\ x \in Server /\ ServerOK(kext, s, x) /\ x.proc = "up"
        /\ x.todo = <<>> /\ x.queue = <<>> /\ ~x.timer /\ ~x.alert
    BY DEF SyncInv, Idle, MainThread
  <1>2. x.xml \in Vectors /\ Len(x.xml) \in Nat
    BY <1>1, VectorFacts DEF Server
  <1> HIDE DEF x
  <1>3. \A b : ~In(b, x.todo) /\ ~In(b, x.queue)
    BY <1>1, ShortTodo
  <1>4. Synced(kext, x) /\ x.ids = <<x.focus, x.xml>>
    BY <1>1, <1>3 DEF ServerOK, Serving
  <1>5. /\ kext.notification /\ kext.initialized /\ kext.classes = Loaded(x.xml)
        /\ kext.workspace = <<x.focus, x.xml>>
        /\ \/ EssentialSynced(kext, x) /\ EnabledSynced(kext, x)
           \/ Len(x.xml) > MaxConfigCount
    BY <1>3, <1>4 DEF Synced, VectorWaits, ConfigWaits, InitializedWaits, WorkspaceWaits
  <1>6. CASE Len(x.xml) > MaxConfigCount
    BY <1>2, <1>5, <1>6, SessionAssumption DEF InSync, Loaded, x
  <1>7. CASE ~(Len(x.xml) > MaxConfigCount)
    <2>1. kext.classes = x.xml
      BY <1>2, <1>5, <1>7, SessionAssumption DEF Loaded
    <2>2. kext.enabled = {i \in DOMAIN x.xml : x.xml[i] \in x.prefs}
      BY <1>3, <1>5, <1>7 DEF EnabledSynced, EnabledWaits
    <2>3. kext.essential = AutoEnable \cup (x.prefs \cap Essential)
      BY <1>3, <1>5, <1>7 DEF EssentialSynced
    <2> QED BY <1>5, <1>7, <2>1, <2>2, <2>3 DEF InSync, x
  <1> QED
    BY <1>6, <1>7

\* Once the owner of the extension has worked off its queue, the extension has
\* the vector, the settings and the workspace of this server, and has remapping
\* switched on: whatever was changed, lost, queued or switched by a key while
\* the connection was made, and whoever owned the extension before.
THEOREM SettledInSyncHolds == Spec => []SettledInSync
  <1>1. SyncInv => SettledInSync
    BY IdleInSync DEF SettledInSync
  <1> QED
    BY <1>1, SyncInvariance, PTL
=============================================================================
