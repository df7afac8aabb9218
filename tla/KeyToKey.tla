------------------------------ MODULE KeyToKey ------------------------------
(***************************************************************************)
(* KeyToKey, the remap function every other one is built from: one key to  *)
(* a sequence of keys, with keys before and after it, modifiers it adds    *)
(* and a delayed action that the next key press cancels.                   *)
(* A KeyToKey is built by add from the numbers of the configuration, here  *)
(* tokens [d, v] of kind d "code", "flag" or "option"; the result k is a   *)
(* constant, and its state is kept in the world w under an id:             *)
(*   pressing    PressingFromEvents: how often each FromEvent is in it     *)
(*   ktk         the delayed action: target_, timer on, saved, the sums of *)
(*               flagStatusForDelayedActionKeys_                           *)
(*   lastUp      the ids whose lastPhysicalEventType_ is UP                *)
(*   prep        prepareTargetItems_, in order                             *)
(*   drop        needToDrop of VK_KEYTOKEY_DELAYED_ACTION_DROP_EVENT       *)
(*   remapped    RemapParams::isremapped                                   *)
(* An event e is [code, type], type DOWN, UP, or NONE for a cursor move or *)
(* a scroll; pt is its physical event type.                                *)
(***************************************************************************)
EXTENDS RemapOutput

ListNames == {"TO", "BEFORE", "AFTER", "DELAYED", "CANCELED_DEFAULT", "CANCELED_BY", "INCREASE"}

NewKeyToKey == [from |-> VK_NONE, fromFlags |-> {}, lists |-> [n \in ListNames |-> <<>>],
                current |-> "TO", repeat |-> TRUE, index |-> 0]

\* getCurrentToEvent: the last of the lists of the current kind.
CurrentToEvent(k) == IF k.lists[k.current] = <<>> THEN <<>> ELSE Last(k.lists[k.current])

SetCurrentToEvent(k, keys) ==
    [k EXCEPT !.lists[k.current] = IF @ = <<>> THEN <<keys>> ELSE Append(Front(@), keys)]

PushToEvent(k, code) == SetCurrentToEvent(k, Append(CurrentToEvent(k), ToEvent(code)))

AddCode(k, code) ==
    [(IF k.index = 0 THEN [k EXCEPT !.from = code] ELSE PushToEvent(k, code)) EXCEPT !.index = @ + 1]

AddFlag(k, flag) ==
    LET keys == CurrentToEvent(k)
    IN  CASE k.index = 0 -> k
          [] k.index = 1 -> [k EXCEPT !.fromFlags = @ \cup {flag}]
          [] k.index > 1 /\ keys = <<>> -> k
          [] k.index > 1 /\ keys # <<>> ->
               SetCurrentToEvent(k, [keys EXCEPT ![Len(keys)].mods = @ \cup {flag}])

AddOption(k, option) ==
    CASE option = "NOREPEAT" -> [k EXCEPT !.repeat = FALSE]
      [] option = "KEYTOKEY_BEFORE_KEYDOWN" -> [k EXCEPT !.current = "BEFORE"]
      [] option = "KEYTOKEY_AFTER_KEYUP" ->
           [k EXCEPT !.current = "AFTER", !.lists["AFTER"] = Append(@, <<ToEvent(VK_NONE)>>)]
      [] option = "KEYTOKEY_DELAYED_ACTION" -> [k EXCEPT !.current = "DELAYED"]
      [] option = "KEYTOKEY_DELAYED_ACTION_CANCELED_DEFAULT" -> [k EXCEPT !.current = "CANCELED_DEFAULT"]
      [] option = "KEYTOKEY_DELAYED_ACTION_CANCELED_BY" ->
           [k EXCEPT !.current = "CANCELED_BY", !.lists["CANCELED_BY"] = Append(@, <<>>)]
      [] option = "KEYTOKEY_INCREASE_MODIFIER_FLAGS" -> PushToEvent([k EXCEPT !.current = "INCREASE"], VK_NONE)
      [] OTHER -> k

\* KeyToKey::add
AddToken(k, token) ==
    CASE token.d = "code" -> AddCode(k, token.v)
      [] token.d = "flag" -> AddFlag(k, token.v)
      [] token.d = "option" -> AddOption(k, token.v)

\* clearToKeys
ClearToKeys(k) ==
    [k EXCEPT !.lists = [n \in ListNames |-> <<>>], !.current = "TO", !.index = IF @ > 1 THEN 1 ELSE @]

Keys(k, name) == IF k.lists[name] = <<>> THEN <<>> ELSE k.lists[name][1]

\* pureFromModifierFlags_
Pure(k) == k.fromFlags \ FlagOf(k.from)

IncreaseFlags(k) == IF Keys(k, "INCREASE") = <<>> THEN {} ELSE Last(Keys(k, "INCREASE")).mods

HasDelayedAction(k) == \E n \in {"DELAYED", "CANCELED_DEFAULT", "CANCELED_BY"} : k.lists[n] # <<>>

LikeModifier(to) == FlagOf(to.code) # {} \/ IsEventLikeModifier(to.code)

\* isLastToEventModifierKeyOrLikeModifier
ToModifier(k) == Keys(k, "TO") # <<>> /\ LikeModifier(Last(Keys(k, "TO")))

-----------------------------------------------------------------------------
(* FromEvent *)

\* changePressingState succeeds: a press with the flags, or a release of a
\* press that was taken.
IsTarget(w, id, from, fromFlags, e) ==
    /\ e.code = from
    /\ IF e.type = "DOWN" THEN IsOn(w.fs, fromFlags) ELSE w.pressing[id] > 0

ChangePressingState(w, id, e) ==
    [w EXCEPT !.pressing[id] = IF e.type = "DOWN" THEN @ + 1 ELSE @ - 1]

-----------------------------------------------------------------------------
(* The list of functions to prepare *)

UnregisterPrepareTargetItem(w, id) == [w EXCEPT !.prep = Subsequence(@, {n \in DOMAIN @ : @[n] # id})]

RegisterPrepareTargetItem(w, id) == [UnregisterPrepareTargetItem(w, id) EXCEPT !.prep = Append(@, id)]

-----------------------------------------------------------------------------
(* remap *)

TemporarilyOn(w, F)  == [w EXCEPT !.fs = TemporaryIncrease(@, F)]
TemporarilyOff(w, F) == [w EXCEPT !.fs = TemporaryDecrease(@, F)]

\* Keys pressed and released one after the other, each with its modifiers.
FireEach(w, keys, pt, addToRepeat) ==
    FoldLeft(LAMBDA a, to : TemporarilyOff(FireDownUp(TemporarilyOn(a, to.mods), to, pt, addToRepeat), to.mods),
             w, keys)

\* The from key leaves FlagStatus and ButtonStatus while it is remapped.
TakeFrom(w, k) ==
    [w EXCEPT !.fs = Increase(Decrease(@, FlagOf(k.from)), IncreaseFlags(k)),
              !.bs = DecreaseButtons(@, ButtonOf(k.from))]

GiveBackFrom(w, k) ==
    [w EXCEPT !.fs = Decrease(Increase(@, FlagOf(k.from)), IncreaseFlags(k)),
              !.bs = IncreaseButtons(@, ButtonOf(k.from))]

\* Mutant: the delayed action is not put on the list of what a press prepares.
ArmDelayedActionOnly(w, id, k) ==
    IF HasDelayedAction(k)
    THEN [w EXCEPT !.ktk = [target |-> id, on |-> TRUE, saved |-> Sums(Decrease(w.fs, Pure(k)))]]
    ELSE w

ArmDelayedAction(w, id, k) ==
    IF HasDelayedAction(k)
    THEN RegisterPrepareTargetItem(
             [w EXCEPT !.ktk = [target |-> id, on |-> TRUE, saved |-> Sums(Decrease(w.fs, Pure(k)))]], id)
    ELSE w

FireBefore(w, k, pt) ==
    TemporarilyOn(FireEach(TemporarilyOff(w, Pure(k)), Keys(k, "BEFORE"), pt, FALSE), Pure(k))

\* The modifiers of a last to key that is one, or is like one, follow the press.
ModifierDown(fs, to, pure) == Decrease(Increase(fs, FlagOf(to.code) \cup to.mods), pure)
ModifierUp(fs, to, pure)   == Increase(Decrease(fs, FlagOf(to.code) \cup to.mods), pure)

\* FlagStatus at the press or release of a single to key.
SingleFlags(fs, k, to, down) ==
    LET pure == Pure(k)
    IN  CASE ~LikeModifier(to) -> TemporaryIncrease(TemporaryDecrease(fs, pure), to.mods)
          [] LikeModifier(to) /\ down -> ModifierDown(fs, to, pure)
          [] LikeModifier(to) /\ ~down ->
               TemporaryIncrease(TemporaryDecrease(ModifierUp(fs, to, pure), pure), to.mods)

\* Mutant: the release of a modifier forgets the flags that came with it.
FireSingleForget(w, k, to, down, pt) ==
    LET type == IF FlagOf(to.code) # {} THEN "MODIFY" ELSE IF down THEN "DOWN" ELSE "UP"
        bare == IF down \/ ~LikeModifier(to) THEN to ELSE [to EXCEPT !.mods = {}]
    IN  Fire([w EXCEPT !.fs = SingleFlags(@, k, bare, down)], to, type, pt, TRUE)

\* One to key; without repetition a press ends the one that runs.
FireSingle(w, k, to, down, pt) ==
    LET type == IF FlagOf(to.code) # {} THEN "MODIFY" ELSE IF down THEN "DOWN" ELSE "UP"
        addToRepeat == ~down \/ k.repeat
    IN  CancelRepeatIf(~addToRepeat, Fire([w EXCEPT !.fs = SingleFlags(@, k, to, down)], to, type, pt, addToRepeat))

\* The last of several to keys, after the others were typed.
HoldLast(w, id, k, last, pt) ==
    LET held == [TemporarilyOn(w, Pure(k)) EXCEPT !.fs = ModifierDown(@, last, Pure(k))]
    IN  CASE IsEventLikeModifier(last.code) -> CancelRepeat(Fire(held, last, "DOWN", pt, FALSE))
          [] ~IsEventLikeModifier(last.code) /\ LikeModifier(last) -> CancelRepeat(FireCurrentModifiers(held, pt))
          [] ~LikeModifier(last) -> IF k.repeat THEN StartRepeat(w, {id}) ELSE w

\* Several to keys, pressed: all but a last modifier are typed, and repeated.
FireSequenceDown(w, id, k, to, pt) ==
    HoldLast(FireEach(TemporarilyOff(CancelRepeat(w), Pure(k)), IF LikeModifier(Last(to)) THEN Front(to) ELSE to, pt, TRUE),
             id, k, Last(to), pt)

FireSequenceUp(w, id, k, to, pt) ==
    LET last == Last(to)
        released == TemporarilyOff([w EXCEPT !.fs = ModifierUp(@, last, Pure(k))], Pure(k))
    IN  CASE IsEventLikeModifier(last.code) -> Fire(released, last, "UP", pt, FALSE)
          [] ~IsEventLikeModifier(last.code) /\ LikeModifier(last) -> FireCurrentModifiers(released, pt)
          [] ~LikeModifier(last) -> IF id \in w.rep.mine THEN CancelRepeat(w) ELSE w

FireTo(w, id, k, down, pt) ==
    LET to == Keys(k, "TO")
    IN  CASE Len(to) = 0 -> w
          [] Len(to) = 1 -> FireSingle(w, k, to[1], down, pt)
          [] Len(to) > 1 /\ down -> FireSequenceDown(w, id, k, to, pt)
          [] Len(to) > 1 /\ ~down -> FireSequenceUp(w, id, k, to, pt)

\* The list of keys is typed without the modifiers that chose it.
FireAfterKeys(w, k, keys, pt) ==
    LET F == keys[1].mods
    IN  TemporarilyOn(TemporarilyOn(
            FireEach(TemporarilyOff(TemporarilyOff(w, F), Pure(k)), Tail(keys), pt, FALSE), Pure(k)), F)

\* After a release the first list of keys whose modifiers are on.
FireAfter(w, k, down, pt) ==
    LET after == k.lists["AFTER"]
        a == [w EXCEPT !.fs = SetTemporary(@)]
        i == SelectInSeq(after, LAMBDA keys : IsOn(a.fs, keys[1].mods))
    IN  IF down \/ after = <<>> THEN w ELSE IF i = 0 THEN a ELSE FireAfterKeys(a, k, after[i], pt)

\* What comes before the to keys.
FirstPart(w, id, k, down, pt) ==
    IF down THEN FireBefore(ArmDelayedAction(TakeFrom(w, k), id, k), k, pt) ELSE GiveBackFrom(w, k)

\* KeyToKey::remap of the KeyToKey k with id id.
RemapKeyToKey(w, id, k, e, pt) ==
    IF w.remapped \/ e.type = "NONE" \/ ~IsTarget(w, id, k.from, k.fromFlags, e) THEN w
    ELSE LET a == [ChangePressingState(w, id, e) EXCEPT
                       !.remapped = TRUE,
                       !.lastUp = IF pt = "UP" THEN @ \cup {id} ELSE @ \ {id}]
             down == e.type = "DOWN"
         IN  FireAfter(FireTo(FirstPart(a, id, k, down, pt), id, k, down, pt), k, down, pt)

-----------------------------------------------------------------------------
(* The delayed action *)

\* A drop key among the keys sent drops the event that cancels the action.
Drops(w, keys) ==
    [w EXCEPT !.drop = @ \/ \E i \in DOMAIN keys : keys[i].code = VK_KEYTOKEY_DELAYED_ACTION_DROP_EVENT]

\* The keys of a delayed action, with the modifiers of the moment it was
\* armed (a ScopedSetter) without F.
FireDelayed(w, keys, F, s, pt) ==
    LET a == TemporarilyOff(Drops([w EXCEPT !.fs = EnterScope(@, s)], keys), F)
    IN  [TemporarilyOn(FireEach(a, keys, pt, FALSE), F) EXCEPT !.fs = LeaveScope(@, s)]

\* doDelayedAction; canceledBy tells that the first key is only the cause.
DoDelayedAction(w, id, keys, canceledBy) ==
    IF keys = <<>> THEN w
    ELSE FireDelayed(w, IF canceledBy THEN Tail(keys) ELSE keys, IF canceledBy THEN keys[1].mods ELSE {},
                     Scope(w.fs, w.ktk.saved), IF id \in w.lastUp THEN "UP" ELSE "DOWN")

\* KeyToKey::prepare: a press cancels the delayed action.
PrepareKeyToKey(w, id, k, e) ==
    LET a == UnregisterPrepareTargetItem(w, id)
        b == [a EXCEPT !.ktk.on = FALSE, !.fs = SetTemporary(@)]
        by == k.lists["CANCELED_BY"]
        i == SelectInSeq(by, LAMBDA keys : keys # <<>> /\ keys[1].code = e.code /\ IsOn(b.fs, keys[1].mods))
    IN  CASE e.type # "DOWN" -> w
          [] e.type = "DOWN" /\ ~w.ktk.on -> a
          [] e.type = "DOWN" /\ w.ktk.on ->
               DoDelayedAction(b, id, CASE i # 0 -> by[i]
                                        [] i = 0 /\ k.lists["CANCELED_DEFAULT"] # <<>> -> Keys(k, "CANCELED_DEFAULT")
                                        [] OTHER -> Keys(k, "DELAYED"), i # 0)
=============================================================================
