----------------------------- MODULE RemapOutput -----------------------------
(***************************************************************************)
(* What a remapped event does at the output: ToEvent, FireKey,             *)
(* FireModifiers, FireRelativePointer, FireScrollWheel, KeyboardRepeat and *)
(* the virtual keys that change modifiers or the configuration.  Every     *)
(* operator maps a world w, the record of the kernel extension's state,    *)
(* to the next one.  The fields used here:                                 *)
(*   fs, bs            FlagStatus and ButtonStatus                         *)
(*   out               [flags, ignoreUp, buttons, down]: lastFlags_,       *)
(*                     isIgnorePhysicalUpEvent_, lastButtons_, the list    *)
(*                     of PressDownKeys                                    *)
(*   rep               KeyboardRepeat: timer on, queue q, and mine, the    *)
(*                     ids that hold the current repeat id                 *)
(*   enabled, refresh  the enabled items, refresh_timer_ running           *)
(*   lastSent          CommonData's last sent event                        *)
(*   log               the keys pressed at the output in this step         *)
(* A key code is a record [t, v]: t the kind of key, v the key, flag,      *)
(* button or item.  Consumer keys are in EventOutputQueue.                 *)
(***************************************************************************)
EXTENDS RemapFilter, SequencesExt, Subsequences

Code(t, v) == [t |-> t, v |-> v]
VK_NONE == Code("none", "none")
VK_PSEUDO_KEY == Code("pseudo", "pseudo")
VK_KEYTOKEY_DELAYED_ACTION_DROP_EVENT == Code("drop", "drop")

\* KeyCode::getModifierFlag and FromEvent::getPointingButton, as sets.
FlagOf(code)   == IF code.t = "mod" THEN {code.v} ELSE {}
ButtonOf(code) == IF code.t = "button" THEN {code.v} ELSE {}

\* VirtualKey::isKeyLikeModifier, ToEvent::isEventLikeModifier
IsEventLikeModifier(code) == code.t \in {"button", "VK_LAZY", "VK_CONFIG_SYNC_KEYDOWNUP"}

-----------------------------------------------------------------------------
(* FireModifiers and the push to the output queue *)

\* CommonData::setcurrent_lastsentevent
Sent(w, code, type) == [w EXCEPT !.lastSent = [code |-> code, type |-> type]]

\* The last of the modifier events that lead from one set of flags to another.
LastModifier(from, to) ==
    LET changed == IF to \ from # {} THEN to \ from ELSE from \ to
    IN  SelectLastInSeq(Modifiers, LAMBDA f : f \in changed)

\* FireModifiers::fire for a physical event of type pt.
FireModifiers(w, pt, to) ==
    IF w.out.flags = to \/ (pt = "UP" /\ w.out.ignoreUp) THEN w
    ELSE Sent([w EXCEPT !.out.flags = to, !.out.ignoreUp = @ /\ pt # "DOWN"],
              Code("mod", Modifiers[LastModifier(w.out.flags, to)]), "MODIFY")

FireCurrentModifiers(w, pt) == FireModifiers(w, pt, MakeFlags(w.fs))

\* EventOutputQueue::push of a key event; a press ends the sticky modifiers.
PushKey(w, code, type) ==
    [Sent(w, code, type) EXCEPT !.fs = IF type = "DOWN" THEN StickyClear(@) ELSE @,
                                !.log = IF type = "DOWN" THEN Append(@, code) ELSE @]

\* EventOutputQueue::push of a pointing event; moved tells that the cursor moves.
PushButtons(w, toButtons, moved) ==
    IF w.out.buttons = toButtons /\ ~moved THEN w
    ELSE [Sent(w, Code("button", "none"), "NONE") EXCEPT
             !.out.buttons = toButtons, !.fs = IF toButtons # {} THEN StickyClear(@) ELSE @]

\* FireRelativePointer::fire: modifiers change after a button is released.
FireRelativePointer(w, pt, toButtons, moved) ==
    LET a == [w EXCEPT !.out.ignoreUp = FALSE]
    IN  IF w.out.buttons \ toButtons # {}
        THEN FireCurrentModifiers(PushButtons(a, toButtons, moved), pt)
        ELSE PushButtons(FireCurrentModifiers(a, pt), toButtons, moved)

FireCurrentButtons(w, pt) == FireRelativePointer(w, pt, MakeButtons(w.bs), FALSE)

FireScrollWheel(w, pt) ==
    [Sent(FireCurrentModifiers([w EXCEPT !.out.ignoreUp = FALSE], pt), Code("scroll", "none"), "NONE") EXCEPT
        !.fs = StickyClear(@)]

-----------------------------------------------------------------------------
(* Virtual keys *)

\* The keys of VK_LOCK and VK_STICKY and the FlagStatus method of each.
FlagMethod(fs, code) ==
    CASE code.t = "VK_LOCK"                            -> LockToggle(fs, {code.v})
      [] code.t = "VK_LOCK_FORCE_ON"                   -> LockSet(fs, {code.v}, 1)
      [] code.t = "VK_LOCK_FORCE_OFF"                  -> LockSet(fs, {code.v}, 0)
      [] code.t = "VK_LOCK_ALL_FORCE_OFF"              -> LockClear(fs)
      [] code.t = "VK_NEGATIVE_LOCK"                   -> NegativeLockToggle(fs, {code.v})
      [] code.t = "VK_NEGATIVE_LOCK_FORCE_ON"          -> NegativeLockSet(fs, {code.v}, 1)
      [] code.t = "VK_NEGATIVE_LOCK_FORCE_OFF"         -> NegativeLockSet(fs, {code.v}, 0)
      [] code.t = "VK_NEGATIVE_LOCK_ALL_FORCE_OFF"     -> NegativeLockClear(fs)
      [] code.t = "VK_STICKY"                          -> StickyToggle(fs, {code.v})
      [] code.t = "VK_STICKY_FORCE_ON"                 -> StickySet(fs, {code.v}, 1)
      [] code.t = "VK_STICKY_FORCE_OFF"                -> StickySet(fs, {code.v}, 0)
      [] code.t = "VK_STICKY_ALL_FORCE_OFF"            -> StickyClear(fs)
      [] code.t = "VK_STICKY_ACTIVE_MODIFIERS_TOGGLE"    -> StickyToggle(fs, Active(fs))
      [] code.t = "VK_STICKY_ACTIVE_MODIFIERS_FORCE_ON"  -> StickySet(fs, Active(fs), 1)
      [] code.t = "VK_STICKY_ACTIVE_MODIFIERS_FORCE_OFF" -> StickySet(fs, Active(fs), 0)

FlagKeys ==
    {"VK_LOCK", "VK_LOCK_FORCE_ON", "VK_LOCK_FORCE_OFF", "VK_LOCK_ALL_FORCE_OFF",
     "VK_NEGATIVE_LOCK", "VK_NEGATIVE_LOCK_FORCE_ON", "VK_NEGATIVE_LOCK_FORCE_OFF",
     "VK_NEGATIVE_LOCK_ALL_FORCE_OFF", "VK_STICKY", "VK_STICKY_FORCE_ON", "VK_STICKY_FORCE_OFF",
     "VK_STICKY_ALL_FORCE_OFF", "VK_STICKY_ACTIVE_MODIFIERS_TOGGLE",
     "VK_STICKY_ACTIVE_MODIFIERS_FORCE_ON", "VK_STICKY_ACTIVE_MODIFIERS_FORCE_OFF"}

ConfigKeys == {"VK_CONFIG_TOGGLE", "VK_CONFIG_FORCE_ON", "VK_CONFIG_FORCE_OFF", "VK_CONFIG_SYNC_KEYDOWNUP"}

VirtualKeys == FlagKeys \cup ConfigKeys \cup {"VK_LAZY", "drop"}

\* setEnabled; the list of enabled items is refreshed by a timer.
SetEnabled(w, S) ==
    IF w.enabled = S THEN w ELSE [w EXCEPT !.enabled = S, !.refresh = TRUE]

\* VK_CONFIG::handle
HandleConfigKey(w, code, down, pt) ==
    LET i == code.v
    IN  CASE code.t = "VK_CONFIG_SYNC_KEYDOWNUP" ->
               SetEnabled(FireCurrentModifiers(w, pt), IF down THEN w.enabled \cup {i} ELSE w.enabled \ {i})
          [] code.t # "VK_CONFIG_SYNC_KEYDOWNUP" /\ ~down -> w
          [] code.t = "VK_CONFIG_TOGGLE" /\ down ->
               SetEnabled(w, IF i \in w.enabled THEN w.enabled \ {i} ELSE w.enabled \cup {i})
          [] code.t = "VK_CONFIG_FORCE_ON" /\ down -> SetEnabled(w, w.enabled \cup {i})
          [] code.t = "VK_CONFIG_FORCE_OFF" /\ down -> SetEnabled(w, w.enabled \ {i})

\* VirtualKey::handle of an event that does not come from a repetition, or does.
HandleVirtualKey(w, code, type, repeat, pt) ==
    LET down == type = "DOWN"
    IN  CASE code.t \in FlagKeys ->
               FireCurrentModifiers(IF down /\ ~repeat THEN [w EXCEPT !.fs = FlagMethod(@, code)] ELSE w, pt)
          [] code.t = "VK_LAZY" ->
               IF repeat THEN w
               ELSE [w EXCEPT !.fs = IF down THEN LazyIncrease(@, {code.v}) ELSE LazyDecrease(@, {code.v})]
          [] code.t \in ConfigKeys -> IF repeat THEN w ELSE HandleConfigKey(w, code, down, pt)
          [] code.t = "drop" -> w

-----------------------------------------------------------------------------
(* FireKey *)

\* The event is a press: for a modifier, its flag is among the event's flags.
IsKeyDown(code, type, flags) == type = "DOWN" \/ (type = "MODIFY" /\ FlagOf(code) \subseteq flags)

\* The modifiers of the event come first, except at a release.
FireKeyModifiers(w, code, type, flags, pt) ==
    IF type = "UP" THEN w
    ELSE FireModifiers([w EXCEPT !.out.ignoreUp = @ /\ ~IsKeyDown(code, type, flags)], pt, flags)

\* PressDownKeys::add and PressDownKeys::remove
KeepDown(w, code, type, repeat) ==
    IF repeat THEN w ELSE [w EXCEPT !.out.down = IF type = "DOWN" THEN Append(@, code) ELSE SelectSeq(@, LAMBDA c : c # code)]

PushUnlessModifier(w, code, type, repeat) ==
    IF type = "MODIFY" THEN w ELSE KeepDown(PushKey(w, code, type), code, type, repeat)

\* FireKey::fire
FireKey(w, code, type, flags, repeat, pt) ==
    CASE code.t \in VirtualKeys -> Sent(HandleVirtualKey(w, code, type, repeat, pt), code, type)
      [] code \in {VK_NONE, VK_PSEUDO_KEY} -> w
      [] OTHER -> PushUnlessModifier(FireKeyModifiers(w, code, type, flags, pt), code, type, repeat)

-----------------------------------------------------------------------------
(* KeyboardRepeat *)

\* Every cancel and every start takes a new repeat id.
CancelRepeat(w) == [w EXCEPT !.rep = [on |-> FALSE, q |-> <<>>, mine |-> {}]]

CancelRepeatIf(ends, w) == IF ends THEN CancelRepeat(w) ELSE w

StartRepeat(w, owners) == [w EXCEPT !.rep.on = TRUE, !.rep.mine = owners]

\* primitive_add
AddRepeat(w, code, type, flags) ==
    IF code = VK_NONE THEN w
    ELSE [w EXCEPT !.rep.q = Append(@, [code |-> code, type |-> type, flags |-> flags])]

\* KeyboardRepeat::set
SetRepeat(w, code, type, flags) ==
    CASE code = VK_NONE -> w
      [] code # VK_NONE /\ type = "MODIFY" -> CancelRepeat(w)
      [] code # VK_NONE /\ type = "UP" ->
           IF Len(w.rep.q) = 1 /\ w.rep.q[1].code = code THEN CancelRepeat(w) ELSE w
      [] code # VK_NONE /\ type = "DOWN" ->
           StartRepeat(AddRepeat(CancelRepeat(w), code, type, flags), {})

\* KeyboardRepeat::fire_timer_callback: the flags are those of the press.
FireRepeat(w) ==
    FoldLeft(LAMBDA a, e : IF e.type = "BUTTONS" THEN FireRelativePointer(a, "DOWN", e.flags, FALSE)
                           ELSE FireKey(a, e.code, e.type, e.flags, Len(w.rep.q) = 1, "DOWN"),
             w, w.rep.q)

-----------------------------------------------------------------------------
(* ToEvent *)

ToEvent(code) == [code |-> code, mods |-> {}]

\* add_to_keyrepeat of fire
SetRepeatIf(addToRepeat, w, code, type, flags) == IF addToRepeat THEN SetRepeat(w, code, type, flags) ELSE w

\* fire of a key
FireToKey(w, code, type, flags, pt, addToRepeat) ==
    SetRepeatIf(addToRepeat, FireKey(w, code, type, flags, FALSE, pt), code, type, flags)

\* fire
Fire(w, to, type, pt, addToRepeat) ==
    IF to.code.t = "button"
    THEN FireCurrentButtons([w EXCEPT !.bs = IF type = "DOWN" THEN IncreaseButtons(@, {to.code.v})
                                                              ELSE DecreaseButtons(@, {to.code.v})], pt)
    ELSE FireToKey(w, to.code, type, MakeFlags(w.fs), pt, addToRepeat)

\* add_to_keyrepeat of fire_downup
AddRepeatIf(addToRepeat, w, code, type, flags) == IF addToRepeat THEN AddRepeat(w, code, type, flags) ELSE w

\* The press or the release of fire_downup once FlagStatus and ButtonStatus
\* have changed, remembered for the repetition if there is one.
FireOne(w, code, type, flags, pt, addToRepeat) ==
    AddRepeatIf(addToRepeat,
                IF type = "BUTTONS" THEN FireCurrentButtons(w, pt) ELSE FireKey(w, code, type, flags, FALSE, pt),
                code, type, IF type = "BUTTONS" THEN MakeButtons(w.bs) ELSE flags)

\* FlagStatus and ButtonStatus at the press and the release of fire_downup.
ChangeStatus(w, code, down) ==
    IF down THEN [w EXCEPT !.fs = Increase(@, FlagOf(code)), !.bs = IncreaseButtons(@, ButtonOf(code))]
            ELSE [w EXCEPT !.fs = Decrease(@, FlagOf(code)), !.bs = DecreaseButtons(@, ButtonOf(code))]

FireHalf(w, code, down, flags, pt, addToRepeat) ==
    LET type == CASE code.t = "button" -> "BUTTONS" [] code.t = "mod" -> "MODIFY"
                  [] OTHER -> IF down THEN "DOWN" ELSE "UP"
    IN  FireOne(w, code, type, IF code.t = "mod" THEN MakeFlags(w.fs) ELSE flags, pt, addToRepeat)

\* fire_downup; the flags of a key's release are those of its press.
FireDownUp(w, to, pt, addToRepeat) ==
    FoldLeft(LAMBDA a, down : FireHalf(ChangeStatus(a, to.code, down), to.code, down, MakeFlags(w.fs), pt, addToRepeat),
             w, <<TRUE, FALSE>>)
=============================================================================
