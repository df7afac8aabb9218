--------------------------- MODULE RemapProcessor ---------------------------
(***************************************************************************)
(* prepare, remap and the timer of the remap functions (see RemapFunc for  *)
(* the items and their state st[i]).  items in the world are the items of  *)
(* the configuration; late tells that the interval checker of the function *)
(* has passed its threshold when the event comes.                          *)
(***************************************************************************)
EXTENDS RemapFunc

Item(w, i) == w.items[i]
Part(w, i, p) == Item(w, i).parts[p]

NewState == [active |-> FALSE, period |-> "NONE", decreased |-> FALSE, saved |-> [f \in Flags |-> 0],
             up |-> FALSE, observed |-> FALSE, any |-> FALSE,
             interrupted |-> FALSE, pressCount |-> 0, ignore |-> FALSE]

\* call_remap_with_VK_PSEUDO_KEY on a part of item i.
Pseudo(w, i, p, type, pt) ==
    LET a == [w EXCEPT !.remapped = FALSE,
                       !.fs = IF type = "DOWN" THEN LazyEnable(@) ELSE LazyDisableIfOff(@)]
    IN  [RemapKeyToKey(a, <<i, p>>, Part(w, i, p), [code |-> VK_PSEUDO_KEY, type |-> type], pt)
            EXCEPT !.remapped = w.remapped]

\* The two calls in a row: the keys of the part are pressed and released.
PseudoDownUp(w, i, p, pt) == FoldLeft(LAMBDA x, type : Pseudo(x, i, p, type, pt), w, <<"DOWN", "UP">>)

-----------------------------------------------------------------------------
(* DependingPressingPeriodKeyToKey *)

\* PeriodMS::enabled
Enabled(item, p) ==
    CASE p = "LONG_LONG" -> item.mode = "WITH_REPEAT"
      [] p = "ONLY" -> item.mode \in {"KEYOVERLAIDMODIFIER", "WITH_REPEAT"}

PureFlags(item) == item.fromFlags \ FlagOf(item.from)

\* manipulatePureFromModifierFlags, DECREASE
DecreaseFrom(w, i) ==
    IF w.st[i].decreased THEN w
    ELSE [w EXCEPT !.st[i].decreased = TRUE, !.fs = Decrease(@, PureFlags(Item(w, i)))]

\* manipulatePureFromModifierFlags, INCREASE: the flags stay away while the
\* part holds a modifier instead.
ForceIncreaseFrom(w, i) ==
    IF w.st[i].decreased
    THEN [w EXCEPT !.st[i].decreased = FALSE, !.fs = Increase(@, PureFlags(Item(w, i)))]
    ELSE w

IncreaseFrom(w, i, p) == IF ToModifier(Part(w, i, p)) THEN w ELSE ForceIncreaseFrom(w, i)

\* A part is pressed with the modifiers of the moment its key was pressed:
\* what the ScopedSetter has to change, its constructor and its destructor.
PartScope(w, i) == Scope(DecreaseFrom(w, i).fs, w.st[i].saved)
EnterPart(w, i) == [DecreaseFrom(w, i) EXCEPT !.fs = EnterScope(@, PartScope(w, i))]
LeavePart(w, i, p, s) == IncreaseFrom([w EXCEPT !.fs = LeaveScope(@, s)], i, p)

PressPart(w, i, p, pt) == LeavePart(Pseudo(EnterPart(w, i), i, p, "DOWN", pt), i, p, PartScope(w, i))

ReleasePart(w, i, p, pt) == IncreaseFrom(Pseudo(w, i, p, "UP", pt), i, p)

\* A short press; what ended the wait is prepared for within the scope.
PressShort(w, i, e, pt) ==
    LeavePart(PrepareKeyToKey(Pseudo(EnterPart(w, i), i, "SHORT", "DOWN", pt), <<i, "SHORT">>, Part(w, i, "SHORT"), e),
              i, "SHORT", PartScope(w, i))

\* Mutant: the keys of a short press are not prepared, so that their delayed
\* action comes after the key that interrupts it.
DoKeyDownUnprepared(w, i, e, pt) ==
    LET a == [w EXCEPT !.st[i].active = FALSE, !.dpp.on = @ /\ w.dpp.target # i]
    IN  IF ~w.st[i].active THEN w
        ELSE IF w.st[i].period # "NONE" THEN a
        ELSE PressPart([a EXCEPT !.st[i].period = "SHORT"], i, "SHORT", pt)

\* Mutant: the timer is left running.
DoKeyDownTimer(w, i, e, pt) ==
    LET a == [w EXCEPT !.st[i].active = FALSE]
    IN  IF ~w.st[i].active THEN w
        ELSE IF w.st[i].period # "NONE" THEN a
        ELSE PressShort([a EXCEPT !.st[i].period = "SHORT"], i, e, pt)

\* dokeydown: what comes before the initial wait is over makes a short press.
DoKeyDown(w, i, e, pt) ==
    LET a == [w EXCEPT !.st[i].active = FALSE, !.dpp.on = @ /\ w.dpp.target # i]
    IN  IF ~w.st[i].active THEN w
        ELSE IF w.st[i].period # "NONE" THEN a
        ELSE PressShort([a EXCEPT !.st[i].period = "SHORT"], i, e, pt)

\* The key alone was pressed, in time, when its period p ends.
PressOnly(w, i, p, pt, late) ==
    IF p # "LONG" \/ ~Enabled(Item(w, i), "ONLY") \/ w.st[i].any \/ late THEN w
    ELSE LeavePart(PseudoDownUp(EnterPart(w, i), i, "ONLY", pt), i, "ONLY", PartScope(w, i))

\* dokeyup
DoKeyUp(w, i, pt, late) ==
    LET p == w.st[i].period
    IN  [(IF p = "NONE" THEN w
          ELSE PressOnly(ReleasePart([w EXCEPT !.st[i].period = "NONE"], i, p, pt), i, p, pt, late))
            EXCEPT !.st[i].observed = FALSE]

\* The wait for the very long period begins, with a repeat id of its own.
WaitLongLong(w, i) ==
    IF Enabled(Item(w, i), "LONG_LONG")
    THEN [CancelRepeat(w) EXCEPT !.rep.mine = {<<i, "ITEM">>}, !.dpp.on = TRUE]
    ELSE w

\* fire_timer_callback once the initial wait is over.
BecomeLong(w, i, pt) ==
    WaitLongLong([PressPart([w EXCEPT !.st[i].period = "LONG"], i, "LONG", pt)
                     EXCEPT !.st[i].observed = TRUE, !.st[i].any = FALSE], i)

PressLongLong(w, i, canceled, pt) ==
    IF canceled THEN [w EXCEPT !.st[i].period = "NONE"]
    ELSE PressPart([w EXCEPT !.st[i].period = "LONG_LONG"], i, "LONG_LONG", pt)

\* fire_timer_callback in the long period.
BecomeLongLong(w, i, pt) ==
    PressLongLong(ReleasePart(w, i, "LONG", pt), i, <<i, "ITEM">> \notin w.rep.mine, pt)

\* DependingPressingPeriodKeyToKey::fire_timer_callback
FireTimer(w) ==
    LET i == w.dpp.target
        pt == IF w.st[i].up THEN "UP" ELSE "DOWN"
    IN  IF i = 0 THEN w
        ELSE CASE w.st[i].period = "NONE" -> BecomeLong(w, i, pt)
               [] w.st[i].period = "LONG" -> BecomeLongLong(w, i, pt)
               [] w.st[i].period \in {"SHORT", "LONG_LONG"} -> w

PreparePeriod(w, i, e, pt) ==
    IF e.type = "DOWN" \/ (e.code.t = "scroll" /\ Item(w, i).interruptible) THEN DoKeyDown(w, i, e, pt) ELSE w

\* The key itself is taken out of FlagStatus and ButtonStatus, and given back.
TakeKey(w, code) ==
    [w EXCEPT !.bs = DecreaseButtons(@, ButtonOf(code)), !.fs = Decrease(@, FlagOf(code))]
GiveBackKey(w, code) ==
    [w EXCEPT !.bs = IncreaseButtons(@, ButtonOf(code)), !.fs = Increase(@, FlagOf(code))]

\* The modifiers are saved for the keys to come, and the wait begins.
SaveFlags(w, i) == ForceIncreaseFrom([w EXCEPT !.st[i].saved = Sums(w.fs), !.out.ignoreUp = TRUE], i)

StartWait(w, i) == IF Item(w, i).wait THEN [w EXCEPT !.dpp.on = TRUE] ELSE FireTimer(w)

\* The press of the key: the keys before it, the modifiers saved, the wait.
StartPress(w, i) ==
    [TakeKey(w, Item(w, i).from) EXCEPT !.dpp.target = i, !.st[i].active = TRUE, !.st[i].period = "NONE"]

PressPeriod(w, i, pt) ==
    RegisterPrepareTargetItem(
        StartWait(SaveFlags(Pseudo(DecreaseFrom(StartPress(w, i), i), i, "BEFORE_AFTER", "DOWN", pt), i), i),
        <<i, "ITEM">>)

\* The release: a short press is made up for, then everything is released,
\* and the keys after it are sent.
KeysAfter(w, i, pt) == ForceIncreaseFrom(Pseudo(DecreaseFrom(w, i), i, "BEFORE_AFTER", "UP", pt), i)

ReleasePeriod(w, i, e, pt, late) ==
    UnregisterPrepareTargetItem(
        KeysAfter(DoKeyUp(DoKeyDown(GiveBackKey(w, Item(w, i).from), i, e, pt), i, pt, late), i, pt), <<i, "ITEM">>)

\* DependingPressingPeriodKeyToKey::remap of a target event
RemapPeriod(w, i, e, pt, late) ==
    LET a == [ChangePressingState(w, <<i, "ITEM">>, e) EXCEPT !.remapped = TRUE, !.st[i].up = pt = "UP"]
    IN  IF e.type = "DOWN" THEN PressPeriod(a, i, pt) ELSE ReleasePeriod(a, i, e, pt, late)

-----------------------------------------------------------------------------
(* The other functions *)

RemapFrom(w, i, e, pt) == RemapKeyToKey(w, <<i, Item(w, i).main>>, Part(w, i, Item(w, i).main), e, pt)

\* Whether remap of item i returns true.
Remaps(w, i, e) ==
    /\ ~w.remapped /\ e.type # "NONE"
    /\ IsTarget(w, <<i, Item(w, i).main>>, Item(w, i).from, Item(w, i).fromFlags, e)

\* KeyDownUpToKey::prepare
PrepareDownUp(w, i, e, pt) ==
    IF e.type = "NONE" THEN w
    ELSE UnregisterPrepareTargetItem(
             IF Remaps(w, i, e)
             THEN PseudoDownUp(RemapFrom(w, i, e, pt), i, "DOWNUP", pt)
             ELSE [Pseudo(w, i, "INTERRUPTED", "DOWN", pt) EXCEPT !.st[i].interrupted = TRUE],
             <<i, "ITEM">>)

\* The release of the interrupted key.
EndInterrupted(w, i, pt) ==
    IF w.st[i].interrupted THEN Pseudo([w EXCEPT !.st[i].interrupted = FALSE], i, "INTERRUPTED", "UP", pt) ELSE w

\* A key that stays down is interrupted by the next event.
RegisterDownUp(w, i) ==
    IF w.pressing[<<i, "FROM">>] > 0
    THEN [RegisterPrepareTargetItem(w, <<i, "ITEM">>) EXCEPT !.st[i].interrupted = FALSE]
    ELSE w

\* KeyDownUpToKey::remap after the remap of its from key
RemapDownUp(w, i, pt) == RegisterDownUp(EndInterrupted(w, i, pt), i)

\* DoublePressModifier::remap after the remap of its from key
RemapDoublePress(w, i, e, pt, late) ==
    LET count == IF late THEN 0 ELSE w.st[i].pressCount
    IN  CASE e.type = "DOWN" -> [w EXCEPT !.st[i].pressCount = IF count = 0 THEN 1 ELSE 2]
          [] e.type = "UP" /\ count < 2 -> [w EXCEPT !.st[i].pressCount = count]
          [] e.type = "UP" /\ count >= 2 ->
               PseudoDownUp([w EXCEPT !.st[i].pressCount = 0, !.fs = SetTemporary(@)], i, "FIRE", pt)

\* IgnoreMultipleSameKeyPress::remap of a target event
RemapIgnore(w, i, e) ==
    LET a == ChangePressingState(w, <<i, "ITEM">>, e)
    IN  IF a.st[i].ignore THEN [a EXCEPT !.remapped = TRUE]
        ELSE [a EXCEPT !.st[i].ignore = a.pressing[<<i, "ITEM">>] = 0]

\* remap of an event that is not the item's.
Passes(w, i, e) ==
    CASE Item(w, i).type = "DOUBLEPRESSMODIFIER" /\ e.type # "NONE" -> [w EXCEPT !.st[i].pressCount = 0]
      [] Item(w, i).type = "IGNOREMULTIPLESAMEKEYPRESS" -> [w EXCEPT !.st[i].ignore = FALSE]
      [] OTHER -> w

\* The functions that first remap their key as a KeyToKey does.
AfterFrom(w, i, e, pt, late) ==
    CASE Item(w, i).type = "KEYTOKEY" -> w
      [] Item(w, i).type = "KEYDOWNUPTOKEY" -> RemapDownUp(w, i, pt)
      [] Item(w, i).type = "DOUBLEPRESSMODIFIER" -> RemapDoublePress(w, i, e, pt, late)

\* processor_->remap of a target event
RemapItem(w, i, e, pt, late) ==
    CASE Item(w, i).type \in {"KEYTOKEY", "KEYDOWNUPTOKEY", "DOUBLEPRESSMODIFIER"} ->
           AfterFrom(RemapFrom(w, i, e, pt), i, e, pt, late)
      [] Item(w, i).type \in {"KEYOVERLAIDMODIFIER", "HOLDINGKEYTOKEY"} -> RemapPeriod(w, i, e, pt, late)
      [] Item(w, i).type = "IGNOREMULTIPLESAMEKEYPRESS" -> RemapIgnore(w, i, e)

\* processor_->prepare of an entry of the list.
PrepareItem(w, id, e, pt) ==
    LET i == id[1]
    IN  CASE id[2] # "ITEM" -> PrepareKeyToKey(w, id, Part(w, i, id[2]), e)
          [] id[2] = "ITEM" /\ Item(w, i).type = "KEYDOWNUPTOKEY" -> PrepareDownUp(w, i, e, pt)
          [] id[2] = "ITEM" /\ Item(w, i).type # "KEYDOWNUPTOKEY" -> PreparePeriod(w, i, e, pt)
=============================================================================
