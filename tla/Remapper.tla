------------------------------ MODULE Remapper ------------------------------
(***************************************************************************)
(* RemapClass, RemapClassManager and Core: what happens to one event after *)
(* another from the front of EventInputQueue (doFire), and the timers of   *)
(* the remap functions between them.  Everything runs under the global     *)
(* lock, so that every handler is one step.  The state of the kernel       *)
(* extension is the record kext (see RemapOutput, KeyToKey and RemapFunc   *)
(* for its fields); here are                                               *)
(*   active            RemapClass::ActiveItems: how often an item is in it *)
(*   loaded            enabled_remapclasses_                               *)
(*   workspace, device, elapsed, lastPressed, lastReleased                 *)
(*                     what the filters read from CommonData               *)
(*   keys              pressingPhysicalKeysCountAll                        *)
(*   items             the items of the configuration, during a step       *)
(*   walk              no entry of prepareTargetItems_ was removed when    *)
(*                     prepare had just stored it as the next one, and     *)
(*                     none was added by a press                           *)
(* Many configurations are explored in one run: conf is the one in use.    *)
(* The delay of EventInputQueue, consumer keys, SimultaneousKeyPresses and *)
(* the keys of PointingRelativeToScroll are not part of this module.       *)
(***************************************************************************)
EXTENDS RemapProcessor

CONSTANT MaxActive   \* how often a key is pressed while one item stays in ActiveItems

ASSUME KeysAssumption ==
    \A c \in DOMAIN Configurations :
        /\ IsFiniteSet(Configurations[c].keys)
        /\ \A k \in Configurations[c].keys :
              k.code.t \in {"key", "mod", "button"} /\ k.code = Code(k.code.t, k.code.v)

VARIABLES
    conf,   \* the configuration in use, never changed
    held,   \* keys and buttons held down; CapsLock while it is switched on
    kext    \* the kernel extension

vars == <<conf, held, kext>>

Configuration == Configurations[conf]

Ids(c) == {<<i, p>> : i \in DOMAIN Items[c], p \in {"ITEM"}}
            \cup UNION {{<<i, p>> : p \in DOMAIN Items[c][i].parts} : i \in DOMAIN Items[c]}

NoDelayedAction == [target |-> <<>>, on |-> FALSE, saved |-> [f \in Flags |-> 0]]

NewKext(c) ==
    [items |-> <<>>, fs |-> InitFlagStatus, bs |-> InitButtonStatus,
     out |-> [flags |-> {}, ignoreUp |-> FALSE, buttons |-> {}, down |-> <<>>],
     rep |-> [on |-> FALSE, q |-> <<>>, mine |-> {}],
     enabled |-> Configurations[c].enabled, loaded |-> Configurations[c].enabled, refresh |-> FALSE,
     lastSent |-> NoEvent, lastPressed |-> NoEvent, lastReleased |-> NoEvent, log |-> <<>>,
     pressing |-> [id \in Ids(c) |-> 0], active |-> [i \in DOMAIN Items[c] |-> 0],
     ktk |-> NoDelayedAction, lastUp |-> {},
     dpp |-> [target |-> 0, on |-> FALSE], st |-> [i \in DOMAIN Items[c] |-> NewState],
     prep |-> <<>>, drop |-> FALSE, remapped |-> FALSE, walk |-> TRUE,
     workspace |-> {}, device |-> "none", elapsed |-> 0, keys |-> 0]

-----------------------------------------------------------------------------
(* RemapClass::Item and RemapClassManager *)

Env(w) == [fs |-> w.fs, enabled |-> w.enabled, workspace |-> w.workspace, device |-> w.device,
           pressing |-> w.keys, lastPressed |-> w.lastPressed, lastReleased |-> w.lastReleased,
           lastSent |-> w.lastSent, elapsed |-> w.elapsed]

\* Item::isblocked, Item::isblocked_keyup
IsItemBlocked(w, i)      == \E f \in Item(w, i).filters : IsBlocked(f, Env(w))
IsItemBlockedKeyUp(w, i) == \E f \in Item(w, i).filters : IsBlockedKeyUp(f, Env(w))

\* isPassThroughEnabled
IsPassThroughEnabled(w) ==
    \E i \in DOMAIN w.active : /\ Item(w, i).type = "PASSTHROUGH"
                               /\ Item(w, i).class \in w.loaded \cap w.enabled
                               /\ ~IsItemBlocked(w, i)

\* The early returns of Item::remap: a release is for the items that took the
\* press, whatever was switched off in between.
Ignores(w, i, e, passThrough) ==
    CASE e.type # "UP" -> \/ passThrough /\ ~Item(w, i).ignorePassThrough
                          \/ Item(w, i).class \notin w.enabled
                          \/ IsItemBlocked(w, i)
      [] e.type = "UP" -> w.active[i] = 0 \/ IsItemBlockedKeyUp(w, i)

\* Item::remap
RemapClassItem(w, i, e, pt, late, passThrough) ==
    CASE Ignores(w, i, e, passThrough) -> w
      [] ~Ignores(w, i, e, passThrough) /\ ~Remaps(w, i, e) -> Passes(w, i, e)
      [] ~Ignores(w, i, e, passThrough) /\ Remaps(w, i, e) ->
           [RemapItem(w, i, e, pt, late) EXCEPT !.active[i] = IF e.type = "DOWN" THEN @ + 1 ELSE @ - 1]

\* RemapClassManager::remap
Remap(w, e, pt, late) ==
    LET passThrough == IsPassThroughEnabled(w)
    IN  FoldLeft(LAMBDA a, i : IF Item(w, i).class \in w.loaded THEN RemapClassItem(a, i, e, pt, late, passThrough) ELSE a,
                 w, [i \in DOMAIN w.active |-> i])

\* After entry j of the list was called.
Walked(w, list, j, e) ==
    [w EXCEPT !.walk = /\ @
                       /\ e.type = "DOWN" => ToSet(w.prep) \subseteq ToSet(list)
                       /\ j < Len(list) => Contains(w.prep, list[j + 1])]

\* RemapClassManager::prepare; a drop key among those sent drops the event.
Prepare(w, e, pt) ==
    LET Dropped(a) == [a EXCEPT !.remapped = @ \/ a.drop]
    IN  Dropped(FoldLeft(LAMBDA a, j : Walked(PrepareItem(a, w.prep[j], e, pt), w.prep, j, e),
                         [w EXCEPT !.drop = FALSE], [j \in DOMAIN w.prep |-> j]))

\* Mutant: a class that is switched off is unloaded while its items are pressed.
RefreshNow(w) == [w EXCEPT !.refresh = FALSE, !.loaded = w.enabled]

\* refresh_timer_callback
Refresh(w) ==
    [w EXCEPT !.refresh = FALSE,
              !.loaded = w.enabled \cup {Item(w, i).class : i \in {j \in DOMAIN w.active : w.active[j] > 0}}]

-----------------------------------------------------------------------------
(* Core and EventInputQueue::doFire *)

\* EventWatcher::on
WatchersOn(w) == [w EXCEPT !.st = [i \in DOMAIN @ |-> [@[i] EXCEPT !.any = w.st[i].any \/ w.st[i].observed]]]

\* The physical event type of an event in the callbacks.
PhysicalType(e) == IF e.type = "DOWN" \/ e.code.t = "scroll" THEN "DOWN" ELSE "UP"

\* ButtonStatus is set before prepare, FlagStatus only after it.
SetButtonStatus(w, e) ==
    [w EXCEPT !.bs = IF e.type = "DOWN" THEN IncreaseButtons(@, ButtonOf(e.code)) ELSE DecreaseButtons(@, ButtonOf(e.code))]

SetFlagStatus(w, e) ==
    [w EXCEPT !.fs = CASE e.code.t = "mod" -> SetKey(@, e.code.v, e.type = "DOWN")
                       [] e.code.t = "key" -> SetTemporary(@)
                       [] OTHER -> @]

\* A key nothing has remapped.
FireUnchanged(w, code, type, flags, pt) == FireKey(SetRepeat(w, code, type, flags), code, type, flags, FALSE, pt)

\* The end of the callbacks: an event that was not remapped is sent as it is.
FireUnlessRemapped(w, e, pt) ==
    CASE w.remapped -> w
      [] ~w.remapped /\ e.code.t \in {"key", "mod"} ->
           FireUnchanged(w, e.code, IF e.code.t = "mod" THEN "MODIFY" ELSE e.type, MakeFlags(w.fs), pt)
      [] ~w.remapped /\ e.code.t \in {"button", "move"} ->
           FireRelativePointer(w, pt, MakeButtons(w.bs), e.type = "NONE")
      [] ~w.remapped /\ e.code.t = "scroll" -> FireScrollWheel(w, pt)

\* remap_KeyboardEventCallback, remap_RelativePointerEventCallback (for a
\* button or a move of the cursor) and remap_ScrollWheelEventCallback
RemapEvent(w, e, pt, late) ==
    FireUnlessRemapped(Remap(SetFlagStatus(Prepare(SetButtonStatus(w, e), e, pt), e), e, pt, late), e, pt)

\* PressDownKeys::clear sends the release of every key that is still down.
ClearDown(w) ==
    IF w.out.down = <<>> THEN w ELSE Sent([w EXCEPT !.out.down = <<>>], Last(w.out.down), "UP")

\* resetInternalStateIfNeeded; more tells that other events are waiting.
ResetInternalState(w, e, more) ==
    LET a == [CancelRepeat(w) EXCEPT
                 !.st = [i \in DOMAIN @ |-> [@[i] EXCEPT !.observed = FALSE]],
                 !.fs = ResetFlags(@), !.bs = InitButtonStatus, !.out.ignoreUp = FALSE]
    IN  IF e.type = "NONE" \/ w.keys # 0 \/ more THEN w
        ELSE [ClearDown(FireRelativePointer(FireCurrentModifiers(a, "UP"), "UP", {}, FALSE)) EXCEPT
                 !.pressing = [id \in DOMAIN @ |-> 0], !.active = [i \in DOMAIN @ |-> 0]]

\* setcurrent_lastpressedphysicalkey, setcurrent_lastreleasedphysicalkey
SetLastKeys(w, e) ==
    [w EXCEPT !.lastPressed = IF e.type = "DOWN" THEN [code |-> e.code, type |-> "DOWN"] ELSE @,
              !.lastReleased = IF e.type = "UP" THEN [code |-> e.code, type |-> "UP"] ELSE @]

\* EventInputQueue::doFire of event e
DoFire(w, e, late, more) ==
    LET a == IF e.type = "DOWN" \/ e.code.t = "scroll" THEN WatchersOn(w) ELSE w
        b == [a EXCEPT !.fs = IF e.type = "UP" THEN LazyDisableIfOff(@) ELSE LazyEnable(@)]
    IN  ResetInternalState(SetLastKeys(RemapEvent(b, e, PhysicalType(e), late), e), e, more)

-----------------------------------------------------------------------------
(* What nothing reads any more is forgotten at the end of a step *)

\* The types of filter the configuration has.
FilterTypes(w) == UNION {{f.type : f \in Item(w, i).filters} : i \in DOMAIN w.items}

NeedsSaved(w, i) ==
    LET s == w.st[i] IN (s.active /\ s.period = "NONE") \/ s.period = "LONG" \/ (w.dpp.on /\ w.dpp.target = i)

\* The fields of the state of an item that something still reads.
ForgetState(w, i) ==
    [w.st[i] EXCEPT !.saved = IF NeedsSaved(w, i) THEN @ ELSE NewState.saved,
                    !.up = @ /\ w.dpp.on /\ w.dpp.target = i,
                    !.any = @ /\ w.st[i].period = "LONG"]

Forget(w) ==
    LET Reads(T, x) == IF FilterTypes(w) \cap T # {} THEN x ELSE NoEvent
    IN  [w EXCEPT
            !.remapped = FALSE, !.drop = FALSE, !.device = "none", !.elapsed = 0, !.keys = 0,
            !.items = <<>>, !.log = IF Configuration.log THEN @ ELSE <<>>,
            !.lastSent = Reads({"LASTSENTEVENT"}, @),
            !.lastPressed = Reads({"LASTPRESSEDPHYSICALKEY", "ELAPSEDTIMESINCELASTPRESSED"}, @),
            !.lastReleased = Reads({"LASTRELEASEDPHYSICALKEY", "ELAPSEDTIMESINCELASTRELEASED"}, @),
            !.ktk = IF @.on THEN @ ELSE NoDelayedAction,
            !.lastUp = @ \cap ({w.ktk.target} \cup ToSet(w.prep)),
            !.dpp.target = IF w.dpp.on THEN @ ELSE 0,
            !.rep.q = IF w.rep.on THEN @ ELSE <<>>,
            !.st = [i \in DOMAIN @ |-> ForgetState(w, i)]]

-----------------------------------------------------------------------------
(* The actions *)

Init ==
    /\ conf \in DOMAIN Configurations
    /\ held = {}
    /\ kext = NewKext(conf)

\* CapsLock is not among the keys that PressingPhysicalKeys counts.
Counted(keys) == {k \in keys : k.code # Code("mod", CAPSLOCK)}

\* The world at the beginning of a step.
World == [kext EXCEPT !.items = Items[conf], !.log = <<>>]

\* One event; the temporary counts of the event before are kept for a cursor
\* move, and for all the mouse does with lazy_modifiers_with_mouse_event.
Fires(e, dev, late, elapsed, more, keys) ==
    LET retain == e.code.t = "move" \/ (e.code.t \in {"button", "scroll"} /\ Configuration.lazyMouse)
        w == [World EXCEPT !.fs = IF retain THEN @ ELSE SetTemporary(@),
                           !.device = dev, !.elapsed = elapsed, !.keys = Cardinality(Counted(keys))]
    IN  /\ held' = keys
        /\ kext' = Forget(DoFire(w, e, late, more))
        /\ UNCHANGED conf

Press(k) ==
    /\ k \notin held
    /\ \A i \in DOMAIN kext.active : kext.active[i] < MaxActive
    /\ \E late \in Configuration.late, elapsed \in Configuration.elapsed :
          Fires([code |-> k.code, type |-> "DOWN"], k.dev, late, elapsed, FALSE, held \cup {k})

Release(k) ==
    /\ k \in held
    /\ \E late \in Configuration.late, elapsed \in Configuration.elapsed, more \in Configuration.backlog :
          Fires([code |-> k.code, type |-> "UP"], k.dev, late, elapsed, more, held \ {k})

\* The wheel is turned or the cursor moved.
Pointing(t) ==
    /\ t \in Configuration.pointing
    /\ Fires([code |-> Code(t, "none"), type |-> "NONE"], "mouse", FALSE, 0, FALSE, held)

\* KeyToKey::fire_timer_callback
DelayedAction ==
    /\ kext.ktk.on
    /\ LET id == kext.ktk.target
       IN  kext' = Forget(DoDelayedAction([World EXCEPT !.ktk.on = FALSE], id,
                                          Keys(Items[conf][id[1]].parts[id[2]], "DELAYED"), FALSE))
    /\ UNCHANGED <<conf, held>>

\* The timer of DependingPressingPeriodKeyToKey
PeriodTimer ==
    /\ kext.dpp.on
    /\ kext' = Forget(FireTimer([World EXCEPT !.dpp.on = FALSE]))
    /\ UNCHANGED <<conf, held>>

\* KeyboardRepeat::fire_timer_callback, which sets its timer again
Repeat ==
    /\ kext.rep.on
    /\ kext' = Forget(FireRepeat(World))
    /\ UNCHANGED <<conf, held>>

RefreshTimer ==
    /\ kext.refresh
    /\ kext' = Forget(Refresh(World))
    /\ UNCHANGED <<conf, held>>

\* set_config_one: the user switches a class on or off.
SetConfigOne(class) ==
    /\ kext' = [kext EXCEPT !.enabled = IF class \in @ THEN @ \ {class} ELSE @ \cup {class}, !.refresh = TRUE]
    /\ UNCHANGED <<conf, held>>

\* CommonData::setcurrent_workspacedata
SetWorkspace(workspace) ==
    /\ kext.workspace # workspace
    /\ kext' = [kext EXCEPT !.workspace = workspace]
    /\ UNCHANGED <<conf, held>>

Next ==
    \/ \E k \in Configuration.keys : Press(k) \/ Release(k)
    \/ \E t \in {"scroll", "move"} : Pointing(t)
    \/ DelayedAction
    \/ PeriodTimer
    \/ Repeat
    \/ RefreshTimer
    \/ \E class \in Configuration.switched : SetConfigOne(class)
    \/ \E workspace \in Configuration.workspaces : SetWorkspace(workspace)

Spec == Init /\ [][Next]_vars
-----------------------------------------------------------------------------
(* Properties *)

\* The fields of the state and what they range over.
TypeOK ==
    /\ conf \in DOMAIN Configurations /\ held \subseteq Configuration.keys
    /\ kext.fs \in [Flags -> FlagItems]
    /\ kext.bs \in [Buttons -> Int]
    /\ kext.out.flags \subseteq Flags /\ kext.out.buttons \subseteq Buttons
    /\ kext.out.ignoreUp \in BOOLEAN
    /\ kext.pressing \in [Ids(conf) -> Nat]
    /\ kext.active \in [DOMAIN Items[conf] -> Nat]
    /\ \A i \in DOMAIN kext.prep : kext.prep[i] \in Ids(conf)
    /\ kext.ktk.on => kext.ktk.target \in Ids(conf)
    /\ kext.dpp.on => kext.dpp.target \in DOMAIN Items[conf]
    /\ \A i \in DOMAIN kext.st : /\ kext.st[i].period \in {"NONE"} \cup PeriodParts
                                 /\ kext.st[i].pressCount \in 0 .. 2

Bit(b) == IF b THEN 1 ELSE 0

\* How often a key is held, on all the keyboards.
HeldTimes(code) == Cardinality({k \in held : k.code = code})

PartIds == {id \in Ids(conf) : id[2] # "ITEM"}

\* The KeyToKey parts that are pressed.
PressedParts == {id \in PartIds : kext.pressing[id] > 0}

PartOf(id) == Items[conf][id[1]].parts[id[2]]

LastTo(id) == Last(Keys(PartOf(id), "TO"))

\* The part holds this key down while it is pressed, as one or like a modifier.
Holds(id, code) == ToModifier(PartOf(id)) /\ LastTo(id).code = code

\* What one press of a part adds to the count of a modifier, and of a button.
Contribution(id, f) ==
    LET k == PartOf(id)
    IN  Bit(f \in IncreaseFlags(k)) - Bit(f \in FlagOf(k.from))
          + IF ToModifier(k) THEN Bit(f \in FlagOf(LastTo(id).code) \cup LastTo(id).mods) - Bit(f \in Pure(k))
            ELSE 0

ButtonContribution(id, b) == Bit(Holds(id, Code("button", b))) - Bit(PartOf(id).from = Code("button", b))

\* What a DependingPressingPeriodKeyToKey itself takes away.
Withheld(i, f) ==
    kext.pressing[<<i, "ITEM">>] * Bit(f \in FlagOf(Items[conf][i].from))
      + Bit(kext.st[i].decreased /\ f \in PureFlags(Items[conf][i]))

ButtonWithheld(i, b) == kext.pressing[<<i, "ITEM">>] * Bit(Items[conf][i].from = Code("button", b))

PeriodItems == {i \in DOMAIN kext.st : Items[conf][i].type \in {"KEYOVERLAIDMODIFIER", "HOLDINGKEYTOKEY"}}

\* Modifiers are never lost or left behind: between two events the count of
\* every modifier is the number of keys held for it, changed by exactly what
\* the remap functions that are pressed have added and taken away, however
\* presses, releases, timers and the ScopedSetters of the functions
\* interleaved; the lazy counts and the buttons likewise.
CountsAccounted ==
    /\ \A f \in Flags \ {CAPSLOCK} :
          kext.fs[f].count_ = HeldTimes(Code("mod", f))
             + SumFunction([id \in PartIds |-> kext.pressing[id] * Contribution(id, f)])
             - SumFunction([i \in PeriodItems |-> Withheld(i, f)])
    /\ \A f \in Flags \ {CAPSLOCK} :
          kext.fs[f].lazy_count_ = SumFunction([id \in PartIds |-> kext.pressing[id] * Bit(Holds(id, Code("VK_LAZY", f)))])
    /\ \A b \in Buttons :
          kext.bs[b] = HeldTimes(Code("button", b))
             + SumFunction([id \in PartIds |-> kext.pressing[id] * ButtonContribution(id, b)])
             - SumFunction([i \in PeriodItems |-> ButtonWithheld(i, b)])

\* A key is held for the code: the key itself, or one remapped to it.
HasCause(code) ==
    \/ HeldTimes(code) > 0
    \/ \E id \in PressedParts : /\ Keys(PartOf(id), "TO") # <<>> /\ LastTo(id).code = code
                               /\ HeldTimes(Items[conf][id[1]].from) > 0

\* No stuck key: what is down at the output, and what repeats, is held down
\* by a key the user holds, even when filters, classes, workspaces or other
\* keys changed between the press and the release.
KeysHaveCause ==
    /\ \A code \in ToSet(kext.out.down) : HasCause(code)
    /\ kext.rep.on =>
          IF Len(kext.rep.q) = 1 /\ kext.rep.mine = {} THEN HasCause(kext.rep.q[1].code)
          ELSE \E id \in kext.rep.mine : kext.pressing[id] > 0

\* Nothing is left of an overlaid key once all keys are up: nothing but a
\* press or release of the key itself ever resets these fields.
PeriodsSettled ==
    Counted(held) = {} =>
        /\ ~kext.dpp.on
        /\ \A i \in PeriodItems : /\ ~kext.st[i].active /\ kext.st[i].period = "NONE"
                                  /\ ~kext.st[i].decreased
                                  /\ ~Contains(kext.prep, <<i, "ITEM">>)

\* prepare stores the next entry of its list before it calls an entry, which
\* may take entries off the list: never the stored one.  And a press puts no
\* entry on the list, so that the walk over those of the beginning is all; a
\* scroll may put one, which does nothing but for a press.
PrepareWalk == kext.walk

\* What a press that comes before the delayed action has to type first.
PendingKeys(k, code) ==
    LET Typed(keys) == SelectSeq([i \in DOMAIN keys |-> keys[i].code], LAMBDA c : c.t = "key")
    IN  {Typed(Tail(keys)) : keys \in {g \in ToSet(k.lists["CANCELED_BY"]) : g # <<>> /\ g[1].code = code}}
          \cup {Typed(IF k.lists["CANCELED_DEFAULT"] # <<>> THEN Keys(k, "CANCELED_DEFAULT") ELSE Keys(k, "DELAYED"))}

\* The order of typing is kept: when a key is pressed before the delayed
\* action was done, the keys of the action come before all keys of the press.
DelayedKeysFirst ==
    [][\A k \in held' \ held :
          kext.ktk.on /\ Configuration.log =>
             \E typed \in PendingKeys(PartOf(kext.ktk.target), k.code) : IsPrefix(typed, kext'.log)]_vars

ItemNumbers == UNION {DOMAIN Items[c] : c \in DOMAIN Configurations}

\* Where an item is in the table of OverlaidKeys.
Phase(i) ==
    IF i \notin PeriodItems THEN "up"
    ELSE LET s == kext.st[i]
         IN  CASE kext.pressing[<<i, "ITEM">>] = 0 -> "up"
               [] kext.pressing[<<i, "ITEM">>] > 0 /\ s.period = "NONE" ->
                    IF kext.dpp.on /\ kext.dpp.target = i THEN "waiting" ELSE "lapsed"
               [] kext.pressing[<<i, "ITEM">>] > 0 /\ s.period = "SHORT" -> "short"
               [] kext.pressing[<<i, "ITEM">>] > 0 /\ s.period = "LONG" -> IF s.active THEN "long" ELSE "used"
               [] kext.pressing[<<i, "ITEM">>] > 0 /\ s.period = "LONG_LONG" -> "longlong"

Periods == INSTANCE OverlaidKeys WITH
    OverlaidKey <- ItemNumbers,
    phase <- [i \in ItemNumbers |-> Phase(i)],
    timer <- IF kext.dpp.on THEN {kext.dpp.target} ELSE {},
    sent  <- [i \in ItemNumbers |-> IF i \in PeriodItems
                                    THEN {p \in PeriodParts : kext.pressing[<<i, p>>] > 0} ELSE {}]

\* DependingPressingPeriodKeyToKey keeps its promise: with several overlaid
\* keys on one timer, every press, release, wheel event and timer moves every
\* key through the table of OverlaidKeys, and at the output exactly the part
\* of its period is pressed.
PeriodsRefined == Periods!Spec

\* Without lock keys the lock of CapsLock is the one of the hardware.
CapsLockFollowsHardware ==
    kext.fs[CAPSLOCK].lock_count_ = Bit(HeldTimes(Code("mod", CAPSLOCK)) > 0)
=============================================================================
