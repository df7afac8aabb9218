-------------------------- MODULE EventOutputQueue --------------------------
(***************************************************************************)
(* EventOutputQueue: from the remap functions to the original drivers.     *)
(* The Fire* classes turn a request ("this key, under these flags") into a *)
(* run of modifier events followed by the event itself and append it to    *)
(* queue_; fire_timer_ delivers one event per expiry, with the waits the   *)
(* window server needs.  PressDownKeys remembers what is down at the       *)
(* receiver, KeyboardRepeat presses keys again, DropKeyAfterRemap cancels  *)
(* queued events.                                                          *)
(*                                                                         *)
(* Every request is made by a timer of the one work loop, so a request, a  *)
(* repetition and a delivery exclude each other: each is one action.  The  *)
(* clients (Core's pass-through, KeyToKey, ...) may make any request; down *)
(* is what they still have to release.                                     *)
(***************************************************************************)
EXTENDS Integers, Sequences, FiniteSets, Subsequences

CONSTANTS
    Keys,          \* key codes that can be output and are not modifiers
    Keypads,       \* those of Keys that reverseNormalizeKey marks with NUMPAD
    Modifiers,     \* the modifier flags, in the order of FlagStatus
    NUMPAD,        \* ModifierFlag::NUMPAD, which has no key code
    Consumers,     \* consumer key codes
    Repeatable,    \* those of Consumers that are ConsumerKeyCode::isRepeatable
    Buttons,       \* pointing buttons
    Macros,        \* toKeys_ of KeyToKey items with two keys: pairs of [key, flags]
    Drop,          \* the __DropKeyAfterRemap__ item [key, flags, strict]
    NoKey,         \* the key of an event that has none
    wait_before_and_after_a_modifier_key_event,   \* in ms
    wait_before_and_after_a_click_event,          \* in ms
    WaitMilliseconds,                             \* of a Params_Wait
    MAX_KEYBOARDREPEATID,
    RequestFlags,  \* the flags FlagStatus may hold at a request
    MaxQueue       \* bound: events waiting when a request is made

Flags == {Modifiers[i] : i \in DOMAIN Modifiers}

ASSUME OutputAssumption ==
    /\ Modifiers \in Seq(Flags)
    /\ \A i, j \in DOMAIN Modifiers : Modifiers[i] = Modifiers[j] => i = j
    /\ NUMPAD \notin Flags /\ NoKey \notin Keys
    /\ Flags \cap Keys = {} /\ Keypads \subseteq Keys /\ Repeatable \subseteq Consumers
    /\ Keys \cap Consumers = {} /\ (Keys \cup Consumers) \cap Macros = {}
    /\ Macros \subseteq [key : Keys, flags : SUBSET Flags] \X [key : Keys, flags : SUBSET Flags]
    /\ Drop \in [key : Keys \cup {NoKey}, flags : SUBSET Flags, strict : BOOLEAN]
    /\ wait_before_and_after_a_modifier_key_event \in Nat
    /\ wait_before_and_after_a_click_event \in Nat
    /\ WaitMilliseconds \in Nat /\ MAX_KEYBOARDREPEATID \in Nat
    /\ RequestFlags \subseteq SUBSET Flags /\ MaxQueue \in Nat

VARIABLES
    out,           \* [queue, last, ignore, pressed, buttons]: queue_, lastFlags_,
                   \* isIgnorePhysicalUpEvent_, PressDownKeys::list_, lastButtons_
    timer,         \* fire_timer_: [on, ms, paced]; paced: set by fire_timer_callback
    previousButtons_,
    dropped_,      \* of the DropKeyAfterRemap item
    rep,           \* KeyboardRepeat: [source, items, on, id], for queue_, fire_timer_ and id_;
                   \* source, a history, is what was pressed to start the repetition
    keyboardRepeatID_,   \* per KeyToKey item; -1 when it does not repeat
    receiver,      \* history: [flags, keys, buttons] as the delivered events leave them
    sent,          \* history: the last delivered event
    down           \* history: the sources pressed and not yet released

vars == <<out, timer, previousButtons_, dropped_, rep, keyboardRepeatID_, receiver, sent, down>>

-----------------------------------------------------------------------------
(* Events *)

Event(class, key, isdown, flags, buttons) ==
    [class |-> class, key |-> key, down |-> isdown, flags |-> flags, buttons |-> buttons]

ModifyEvent(f, flags)      == Event("modify", f, f \in flags, flags, {})
KeyEvent(k, isdown, flags) == Event("key", k, isdown, flags, {})
PointerEvent(B)            == Event("pointer", NoKey, FALSE, {}, B)
ConsumerEvent(c, isdown)   == Event("consumer", c, isdown, {}, {})
OtherEvent(class)          == Event(class, NoKey, FALSE, {}, {})

Push(o, x) == [o EXCEPT !.queue = Append(@, x)]

-----------------------------------------------------------------------------
(* FireModifiers, FireKey, FireConsumer, FireRelativePointer, ...          *)
(* Each maps the state o before the call to the state after it.            *)

\* The flags of F in the order of FlagStatus.
ModifiersIn(F) == Subsequence(Modifiers, {i \in DOMAIN Modifiers : Modifiers[i] \in F})

\* Mutant: every event carries the final flags.
FireModifiersAtOnce(o, phys, to) ==
    LET ups   == ModifiersIn(o.last \ to)
        downs == ModifiersIn(to \ o.last)
    IN  IF o.last = to \/ (phys = "up" /\ o.ignore) THEN o
        ELSE [o EXCEPT !.last = to,
                       !.ignore = @ /\ phys = "up",
                       !.queue = @ \o [i \in DOMAIN ups |-> ModifyEvent(ups[i], to)]
                                   \o [i \in DOMAIN downs |-> ModifyEvent(downs[i], to)]]

\* Mutant: an ignored release still stores the flags.
FireModifiersStored(o, phys, to) ==
    LET ups   == ModifiersIn(o.last \ to)
        downs == ModifiersIn(to \ o.last)
        Through(s, i) == {s[j] : j \in 1..i}
    IN  IF o.last = to \/ (phys = "up" /\ o.ignore) THEN [o EXCEPT !.last = to]
        ELSE [o EXCEPT
                !.last = to,
                !.ignore = @ /\ phys = "up",
                !.queue = @ \o [i \in DOMAIN ups |-> ModifyEvent(ups[i], o.last \ Through(ups, i))]
                            \o [i \in DOMAIN downs |->
                                   ModifyEvent(downs[i], (o.last \cap to) \cup Through(downs, i))]]

\* FireModifiers::fire: first the modifiers that go up, then those that go down,
\* in the order of FlagStatus, each with the flags as they are after it.
FireModifiers(o, phys, to) ==
    LET base  == IF NUMPAD \in to THEN o.last ELSE o.last \ {NUMPAD}
        ups   == ModifiersIn(base \ to)
        downs == ModifiersIn(to \ base)
        Through(s, i) == {s[j] : j \in 1..i}
        kept  == base \ Through(ups, Len(ups))
    IN  IF o.last = to \/ (phys = "up" /\ o.ignore) THEN o
        ELSE [o EXCEPT
                !.last = to,
                !.ignore = @ /\ phys = "up",
                !.queue = @ \o [i \in DOMAIN ups |-> ModifyEvent(ups[i], base \ Through(ups, i))]
                            \o [i \in DOMAIN downs |-> ModifyEvent(downs[i], kept \cup Through(downs, i))]]

\* KeyCode::reverseNormalizeKey, as far as flags go.
ReverseNormalizeKey(k, flags) == (flags \ {NUMPAD}) \cup (IF k \in Keypads THEN {NUMPAD} ELSE {})

\* PressDownKeys::add
PressDownKeysAdd(o, k) == [o EXCEPT !.pressed = Append(@, k)]

\* Mutant: only the first entry is removed.
PressDownKeysRemoveOne(o, k) ==
    LET at == CHOOSE i \in DOMAIN o.pressed : o.pressed[i] = k /\ \A j \in 1..(i - 1) : o.pressed[j] # k
    IN  IF k \notin {o.pressed[i] : i \in DOMAIN o.pressed} THEN o
        ELSE [o EXCEPT !.pressed = SubSeq(@, 1, at - 1) \o SubSeq(@, at + 1, Len(@))]

\* PressDownKeys::remove takes out every entry of the key.
PressDownKeysRemove(o, k) ==
    [o EXCEPT !.pressed = Subsequence(@, {i \in DOMAIN @ : @[i] # k})]

\* PressDownKeys::clear
PressDownKeysClear(o) ==
    [o EXCEPT !.pressed = << >>,
              !.queue = @ \o [i \in DOMAIN o.pressed |-> KeyEvent(o.pressed[i], FALSE, {})]]

\* FireKey::fire of a press.
FireKeyDown(o, k, flags, phys, repeat) ==
    LET newflags == ReverseNormalizeKey(k, flags)
        o1 == FireModifiers([o EXCEPT !.ignore = FALSE], phys, newflags)
        o2 == Push(o1, KeyEvent(k, TRUE, newflags))
    IN  IF repeat THEN o2 ELSE PressDownKeysAdd(o2, k)

\* FireKey::fire of a release: it keeps the last modifier flags.
FireKeyUp(o, k) == PressDownKeysRemove(Push(o, KeyEvent(k, FALSE, o.last)), k)

\* FireKey::fire of a modifier key: only modifier events.
FireKeyModify(o, f, flags, phys) ==
    FireModifiers([o EXCEPT !.ignore = @ /\ f \notin flags], phys, flags)

\* ToEvent::fire_downup of a key.
FireDownUp(o, k, flags, phys) == FireKeyUp(FireKeyDown(o, k, flags, phys, FALSE), k)

\* FireConsumer::fire
FireConsumer(o, c, isdown, flags, phys) ==
    Push(FireModifiers([o EXCEPT !.ignore = @ /\ ~isdown], phys, flags), ConsumerEvent(c, isdown))

\* Mutant: lastButtons_ is not stored.
FireRelativePointerForgets(o, B, moved, flags, phys) ==
    LET o1 == FireModifiers([o EXCEPT !.ignore = FALSE], phys, flags)
    IN  IF o1.buttons # B \/ moved THEN Push(o1, PointerEvent(B)) ELSE o1

\* FireRelativePointer::fire: when a button is released its event comes before the modifiers.
FireRelativePointer(o, B, moved, flags, phys) ==
    LET released == o.buttons \ B # {}
        o0 == [o EXCEPT !.ignore = FALSE]
        o1 == IF released THEN o0 ELSE FireModifiers(o0, phys, flags)
        o2 == IF o1.buttons # B THEN Push([o1 EXCEPT !.buttons = B], PointerEvent(B)) ELSE o1
        o3 == IF moved THEN Push(o2, PointerEvent(B)) ELSE o2
    IN  IF released THEN FireModifiers(o3, phys, flags) ELSE o3

\* FireScrollWheel::fire
FireScrollWheel(o, flags) ==
    Push(FireModifiers([o EXCEPT !.ignore = FALSE], "down", flags), OtherEvent("scroll"))

\* The requests push with setTimeoutMS(0, false): the timer is set unless it is active.
Requested(o) ==
    /\ Len(out.queue) <= MaxQueue
    /\ out' = o
    /\ timer' = IF timer.on \/ o.queue = out.queue THEN timer ELSE [on |-> TRUE, ms |-> 0, paced |-> FALSE]
    /\ UNCHANGED <<previousButtons_, dropped_, receiver, sent>>

-----------------------------------------------------------------------------
(* KeyboardRepeat.  An item is a press of a key or of a consumer key, or a *)
(* "tap": the press and the release of a key, two items of the code.       *)

RepeatItem(class, key, flags) == [class |-> class, key |-> key, flags |-> flags]

\* Mutant: id_ does not wrap.
SuccIDUnbounded(id) == id + 1

\* KeyboardRepeat::succID
SuccID(id) == IF id + 1 > MAX_KEYBOARDREPEATID THEN 0 ELSE id + 1

\* Mutant: the timer stays active.
CancelRunning(r) == [r EXCEPT !.items = << >>, !.id = SuccID(@)]

\* KeyboardRepeat::cancel
Cancel(r) == [source |-> NoKey, items |-> << >>, on |-> FALSE, id |-> SuccID(r.id)]

\* KeyboardRepeat::primitive_add of the items and primitive_start.
Start(r, source, items) == [source |-> source, items |-> items, on |-> TRUE, id |-> SuccID(r.id)]

\* KeyboardRepeat::set of a release: a repetition of several keys is controlled
\* by KeyToKey and left alone; that of one key stops when this key goes up.
SetUp(r, k) ==
    IF Len(r.items) = 1 /\ r.items[1].class = "key" /\ r.items[1].key = k THEN Cancel(r) ELSE r

\* What one item of a repetition requests.  A key repeats under the flags it was
\* pressed with, a consumer key under those of FlagStatus now.
FireRepeatItem(o, x, repeat, F) ==
    CASE x.class = "key"      -> FireKeyDown(o, x.key, x.flags, "down", repeat)
      [] x.class = "tap"      -> FireDownUp(o, x.key, x.flags, "down")
      [] x.class = "consumer" -> FireConsumer(o, x.key, TRUE, F, "down")

\* KeyboardRepeat::fire_timer_callback
RepeatFire(F) ==
    /\ rep.on
    /\ LET o == FireRepeatItem(out, rep.items[1], Len(rep.items) = 1, F)
       IN  Requested(IF Len(rep.items) = 1 THEN o ELSE FireRepeatItem(o, rep.items[2], FALSE, F))
    /\ UNCHANGED <<rep, keyboardRepeatID_, down>>

-----------------------------------------------------------------------------
(* The clients' requests.  F is FlagStatus::makeFlags() at the call.       *)

\* A key goes down: passed through by Core, or the one toKeys_ of a KeyToKey
\* item, whose repetition may be disabled.
PressKey(k, F, repeats) ==
    /\ k \notin down
    /\ Requested(FireKeyDown(out, k, F, "down", FALSE))
    /\ rep' = IF repeats THEN Start(Cancel(rep), k, <<RepeatItem("key", k, F)>>) ELSE Cancel(rep)
    /\ down' = down \cup {k}
    /\ UNCHANGED keyboardRepeatID_

\* It goes up.
ReleaseKey(k) ==
    /\ k \in down
    /\ Requested(FireKeyUp(out, k))
    /\ rep' = SetUp(rep, k)
    /\ down' = down \ {k}
    /\ UNCHANGED keyboardRepeatID_

\* A modifier key goes down (it is in F) or up.
ChangeModifier(f, F) ==
    /\ Requested(FireKeyModify(out, f, F, IF f \in F THEN "down" ELSE "up"))
    /\ rep' = Cancel(rep)
    /\ UNCHANGED <<keyboardRepeatID_, down>>

\* Mutant: a consumer key that goes up leaves the repetition alone.
ChangeConsumerRepeating(c, F, isdown) ==
    /\ (c \in down) # isdown
    /\ Requested(FireConsumer(out, c, isdown, F, IF isdown THEN "down" ELSE "up"))
    /\ rep' = IF isdown /\ c \in Repeatable
              THEN Start(Cancel(rep), c, <<RepeatItem("consumer", c, F)>>)
              ELSE rep
    /\ down' = IF isdown THEN down \cup {c} ELSE down \ {c}
    /\ UNCHANGED keyboardRepeatID_

\* A consumer key goes down or up.
ChangeConsumer(c, F, isdown) ==
    /\ (c \in down) # isdown
    /\ Requested(FireConsumer(out, c, isdown, F, IF isdown THEN "down" ELSE "up"))
    /\ rep' = IF isdown /\ c \in Repeatable
              THEN Start(Cancel(rep), c, <<RepeatItem("consumer", c, F)>>)
              ELSE Cancel(rep)
    /\ down' = IF isdown THEN down \cup {c} ELSE down \ {c}
    /\ UNCHANGED keyboardRepeatID_

\* The buttons change to B, or the cursor moves, or both.
ChangePointer(B, moved, F) ==
    /\ Requested(FireRelativePointer(out, B, moved, F, IF B \ out.buttons # {} THEN "down" ELSE "up"))
    /\ UNCHANGED <<rep, keyboardRepeatID_, down>>

ScrollWheel(F) ==
    /\ Requested(FireScrollWheel(out, F))
    /\ UNCHANGED <<rep, keyboardRepeatID_, down>>

\* VK_WAIT_*
FireWait ==
    /\ Requested(Push(out, OtherEvent("wait")))
    /\ UNCHANGED <<rep, keyboardRepeatID_, down>>

\* A KeyToKey item with two toKeys_: they are pressed and released one after the
\* other, and repeat together under an id of their own.
PressMacro(m, F, repeats) ==
    /\ m \notin down
    /\ Requested(FireDownUp(FireDownUp(out, m[1].key, F \cup m[1].flags, "down"),
                            m[2].key, F \cup m[2].flags, "down"))
    /\ LET items == <<RepeatItem("tap", m[1].key, F \cup m[1].flags),
                      RepeatItem("tap", m[2].key, F \cup m[2].flags)>>
       IN  rep' = IF repeats THEN Start(Cancel(rep), m, items) ELSE [Cancel(rep) EXCEPT !.items = items]
    /\ keyboardRepeatID_' = [keyboardRepeatID_ EXCEPT ![m] = IF repeats THEN rep'.id ELSE -1]
    /\ down' = down \cup {m}

\* Its key goes up: the repetition stops if it is still the one of this item.
ReleaseMacro(m) ==
    /\ m \in down
    /\ Requested(out)
    /\ rep' = IF rep.id = keyboardRepeatID_[m] THEN Cancel(rep) ELSE rep
    /\ down' = down \ {m}
    /\ UNCHANGED keyboardRepeatID_

\* beforeKeys_, afterKeys_ and delayed actions of KeyToKey: a key is pressed and
\* released without regard to the repetition.
Tap(k, F, phys) ==
    /\ Requested(FireDownUp(out, k, F, phys))
    /\ UNCHANGED <<rep, keyboardRepeatID_, down>>

\* DependingPressingPeriodKeyToKey calls setIgnorePhysicalUpEvent(true).
IgnorePhysicalUpEvent ==
    /\ Requested([out EXCEPT !.ignore = TRUE])
    /\ UNCHANGED <<rep, keyboardRepeatID_, down>>

\* resetInternalStateIfNeeded: every key is up; F are the locked and sticky flags.
Reset(F) ==
    /\ down = {}
    /\ Requested(PressDownKeysClear(
           FireRelativePointer(FireModifiers([out EXCEPT !.ignore = FALSE], "up", F), {}, FALSE, F, "up")))
    /\ rep' = Cancel(rep)
    /\ UNCHANGED <<keyboardRepeatID_, down>>

\* Config::set_initialized, called by the user client, stops the repetition.
SetInitialized ==
    /\ rep' = Cancel(rep)
    /\ UNCHANGED <<out, timer, previousButtons_, dropped_, keyboardRepeatID_, receiver, sent, down>>

-----------------------------------------------------------------------------
(* fire_timer_callback *)

LastOf(S) == CHOOSE i \in S : \A j \in S : j <= i

\* The event is a press that DropKeyAfterRemap drops.
DropsDown(x) ==
    /\ x.class = "key" /\ x.key = Drop.key /\ x.down
    /\ Drop.flags \subseteq x.flags /\ (Drop.strict => x.flags = Drop.flags)

DropUp(x) == x.class = "key" /\ x.key = Drop.key /\ ~x.down

\* dropped_ when the scan of the queue comes to position i: a dropped press sets
\* it, a release clears it.
DroppedAt(i) ==
    LET R == {j \in 1..(i - 1) : DropsDown(out.queue[j]) \/ DropUp(out.queue[j])}
    IN  IF R = {} THEN dropped_ ELSE DropsDown(out.queue[LastOf(R)])

\* cancelEventOutputQueueItems cancels the item at position i: a press that
\* matches, or the release that comes when dropped_ is set.
Canceled(i) == DropsDown(out.queue[i]) \/ (DropUp(out.queue[i]) /\ DroppedAt(i))

\* The canceled items are deleted.
Remaining == Subsequence(out.queue, {i \in DOMAIN out.queue : ~Canceled(i)})

\* Mutant: only the clicks are waited for.
CalcDelayClick(x, buttons) ==
    IF x.class = "pointer" /\ x.buttons # buttons THEN wait_before_and_after_a_click_event ELSE 0

\* calcDelay, previousButtons_ being buttons.
CalcDelay(x, buttons) ==
    CASE x.class = "modify" -> wait_before_and_after_a_modifier_key_event
      [] x.class = "pointer" /\ x.buttons # buttons -> wait_before_and_after_a_click_event
      [] OTHER -> 0

\* What calcDelay leaves in previousButtons_.
ButtonsAfter(x, buttons) == IF x.class = "pointer" THEN x.buttons ELSE buttons

MaxDelay(v1, v2) == IF v1 > v2 THEN v1 ELSE v2

\* The least delay after an event of this class.
LeastDelay(x) ==
    CASE x.class \in {"key", "modify", "consumer"} -> 1
      [] x.class = "wait" -> WaitMilliseconds
      [] OTHER -> 0

\* ListHooked*::apply: the driver's callback takes the event.
Receive(x) ==
    CASE x.class = "modify"  -> [receiver EXCEPT !.flags = x.flags \ {NUMPAD}]
      [] x.class = "key"     -> [receiver EXCEPT !.keys = IF x.down THEN @ \cup {x.key} ELSE @ \ {x.key}]
      [] x.class = "pointer" -> [receiver EXCEPT !.buttons = x.buttons]
      [] OTHER -> receiver

Off == [on |-> FALSE, ms |-> 0, paced |-> FALSE]

\* The callback cancels every item.
AllCanceled ==
    /\ timer.on /\ Remaining = << >>
    /\ timer' = Off
    /\ out' = [out EXCEPT !.queue = << >>]
    /\ dropped_' = DroppedAt(Len(out.queue) + 1)
    /\ UNCHANGED <<previousButtons_, rep, keyboardRepeatID_, receiver, sent, down>>

\* Mutant: an event that needs no delay does not set the timer.
DeliverNoDelay ==
    /\ timer.on /\ Remaining # << >>
    /\ LET left  == Remaining
           x     == Head(left)
           rest  == Tail(left)
           b1    == ButtonsAfter(x, previousButtons_)
           after == MaxDelay(CalcDelay(x, previousButtons_), LeastDelay(x))
           ms    == IF rest = << >> THEN 0 ELSE MaxDelay(after, CalcDelay(Head(rest), b1))
       IN  /\ receiver' = Receive(x)
           /\ sent' = [class |-> x.class, click |-> x.class = "pointer" /\ x.buttons # receiver.buttons]
           /\ out' = [out EXCEPT !.queue = rest]
           /\ timer' = IF ms = 0 THEN Off ELSE [on |-> TRUE, ms |-> ms, paced |-> TRUE]
           /\ previousButtons_' = IF rest = << >> THEN b1 ELSE ButtonsAfter(Head(rest), b1)
    /\ dropped_' = DroppedAt(Len(out.queue) + 1)
    /\ UNCHANGED <<rep, keyboardRepeatID_, down>>

\* The callback delivers the first event left and sets the timer for the next.
Deliver ==
    /\ timer.on /\ Remaining # << >>
    /\ LET left  == Remaining
           x     == Head(left)
           rest  == Tail(left)
           b1    == ButtonsAfter(x, previousButtons_)
           after == MaxDelay(CalcDelay(x, previousButtons_), LeastDelay(x))
       IN  /\ receiver' = Receive(x)
           /\ sent' = [class |-> x.class, click |-> x.class = "pointer" /\ x.buttons # receiver.buttons]
           /\ out' = [out EXCEPT !.queue = rest]
           /\ IF rest = << >>
              THEN timer' = Off /\ previousButtons_' = b1
              ELSE /\ timer' = [on |-> TRUE, ms |-> MaxDelay(after, CalcDelay(Head(rest), b1)), paced |-> TRUE]
                   /\ previousButtons_' = ButtonsAfter(Head(rest), b1)
    /\ dropped_' = DroppedAt(Len(out.queue) + 1)
    /\ UNCHANGED <<rep, keyboardRepeatID_, down>>

-----------------------------------------------------------------------------
Init ==
    /\ out = [queue |-> << >>, last |-> {}, ignore |-> FALSE, pressed |-> << >>, buttons |-> {}]
    /\ timer = Off /\ previousButtons_ = {} /\ dropped_ = FALSE
    /\ rep = [source |-> NoKey, items |-> << >>, on |-> FALSE, id |-> 0]
    /\ keyboardRepeatID_ = [m \in Macros |-> -1]
    /\ receiver = [flags |-> {}, keys |-> {}, buttons |-> {}]
    /\ sent = [class |-> "none", click |-> FALSE]
    /\ down = {}

Next ==
    \/ \E k \in Keys, F \in RequestFlags, repeats \in BOOLEAN : PressKey(k, F, repeats)
    \/ \E k \in Keys : ReleaseKey(k)
    \/ \E f \in Flags, F \in RequestFlags : ChangeModifier(f, F)
    \/ \E c \in Consumers, F \in RequestFlags, isdown \in BOOLEAN : ChangeConsumer(c, F, isdown)
    \/ \E B \in SUBSET Buttons, moved \in BOOLEAN, F \in RequestFlags : ChangePointer(B, moved, F)
    \/ \E F \in RequestFlags : ScrollWheel(F) \/ Reset(F) \/ RepeatFire(F)
    \/ FireWait \/ IgnorePhysicalUpEvent
    \/ \E m \in Macros, F \in RequestFlags, repeats \in BOOLEAN : PressMacro(m, F, repeats)
    \/ \E m \in Macros : ReleaseMacro(m)
    \/ \E k \in Keys, F \in RequestFlags, phys \in {"down", "up"} : Tap(k, F, phys)
    \/ SetInitialized
    \/ AllCanceled \/ Deliver

Spec == Init /\ [][Next]_vars

-----------------------------------------------------------------------------
(* Properties *)

Classes   == {"key", "modify", "consumer", "pointer", "scroll", "wait"}
EventType ==
    {x \in [class : Classes, key : Keys \cup Flags \cup Consumers \cup {NoKey}, down : BOOLEAN,
            flags : SUBSET (Flags \cup {NUMPAD}), buttons : SUBSET Buttons] :
        (x.class = "key" => x.key \in Keys) /\ (x.class = "modify" => x.key \in Flags)}
Sources   == Keys \cup Consumers \cup Macros

\* Every variable has its type; the id of a repetition is in its range.
TypeOK ==
    /\ out \in [queue : Seq(EventType), last : SUBSET (Flags \cup {NUMPAD}), ignore : BOOLEAN,
                pressed : Seq(Keys), buttons : SUBSET Buttons]
    /\ timer \in [on : BOOLEAN, ms : Nat, paced : BOOLEAN]
    /\ previousButtons_ \subseteq Buttons /\ dropped_ \in BOOLEAN
    /\ rep \in [source : Sources \cup {NoKey},
                items : Seq([class : {"key", "tap", "consumer"}, key : Keys \cup Consumers, flags : SUBSET Flags]),
                on : BOOLEAN, id : 0..MAX_KEYBOARDREPEATID]
    /\ keyboardRepeatID_ \in [Macros -> {-1} \cup 0..MAX_KEYBOARDREPEATID]
    /\ receiver \in [flags : SUBSET Flags, keys : SUBSET Keys, buttons : SUBSET Buttons]
    /\ sent \in [class : Classes \cup {"none"}, click : BOOLEAN]
    /\ down \subseteq Sources

\* No wakeup is lost: fire_timer_ is active exactly while queue_ holds events,
\* whether a request or the callback itself set it.
TimerArmed == timer.on <=> out.queue # << >>

\* The receiver's flags when the event at position i of queue_ reaches it.
FlagsBefore(i) ==
    LET M == {j \in 1..(i - 1) : out.queue[j].class = "modify"}
    IN  IF M = {} THEN receiver.flags ELSE out.queue[LastOf(M)].flags \ {NUMPAD}

\* Along queue_ every modifier event changes exactly its own flag, every press
\* comes under the flags the receiver has then, and at the end of the queue the
\* receiver has lastFlags_: waits, repetitions, dropped keys, ignored releases
\* of modifiers and resets do not get the modifiers out of step.
FlagsInStep ==
    /\ \A i \in DOMAIN out.queue :
          LET x == out.queue[i]
              before == FlagsBefore(i)
          IN  /\ x.class = "modify" => x.flags \ {NUMPAD} = IF x.key \in before THEN before \ {x.key}
                                                                                ELSE before \cup {x.key}
              /\ x.class = "key" /\ x.down => x.flags \ {NUMPAD} = before
    /\ FlagsBefore(Len(out.queue) + 1) = out.last \ {NUMPAD}

\* Whether key k is down, and which buttons are, once the queue is delivered.
KeyAfter(k) ==
    LET S == {i \in DOMAIN out.queue : out.queue[i].class = "key" /\ out.queue[i].key = k}
    IN  IF S = {} THEN k \in receiver.keys ELSE out.queue[LastOf(S)].down

ButtonsLater ==
    LET S == {i \in DOMAIN out.queue : out.queue[i].class = "pointer"}
    IN  IF S = {} THEN receiver.buttons ELSE out.queue[LastOf(S)].buttons

\* No key gets stuck at the receiver: what is down there once the queue is
\* delivered is in PressDownKeys, for the reset to release it, or its release is
\* still to come; and PressDownKeys lists nothing that is up.  The buttons are
\* lastButtons_.
KeysInStep ==
    /\ \A k \in Keys \ {Drop.key} :
          LET listed == \E i \in DOMAIN out.pressed : out.pressed[i] = k
              isdown == KeyAfter(k)
          IN  (listed => isdown) /\ (isdown => listed \/ k \in down)
    /\ ButtonsLater = out.buttons

\* No runaway repetition: KeyboardRepeat runs only as long as the key, consumer
\* key or KeyToKey item that started it is held.
RepeatWhileHeld == rep.on => rep.source \in down /\ rep.items # << >>

\* The wait the receiver needs between two events: around a modifier, before a
\* click, a millisecond after a key, and what a wait event asks for.
WaitBetween(x, y) ==
    LET click == y.class = "pointer" /\ y.buttons # receiver.buttons
    IN  MaxDelay(IF "modify" \in {x.class, y.class} THEN wait_before_and_after_a_modifier_key_event ELSE 0,
                 MaxDelay(IF click THEN wait_before_and_after_a_click_event ELSE 0, LeastDelay(x)))

\* When fire_timer_callback left events behind, the next one comes after the
\* wait that it and the one just delivered need, whatever is pushed in between.
WaitKept ==
    timer.on /\ timer.paced /\ Remaining # << >> => timer.ms >= WaitBetween(sent, Head(Remaining))

\* "We need to wait before and after a pointing device click event": the same
\* after a click.
WaitAfterClick ==
    timer.on /\ timer.paced /\ sent.click => timer.ms >= wait_before_and_after_a_click_event
=============================================================================
