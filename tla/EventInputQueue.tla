--------------------------- MODULE EventInputQueue ---------------------------
(***************************************************************************)
(* EventInputQueue: the pipeline from the hooked hardware callbacks to the *)
(* remapper.  push_* handlers append to queue_ on driver threads; the work *)
(* loop's fire timer removes bouncing pairs, lets SimultaneousKeyPresses   *)
(* rewrite the front, counts the physical key, lets BlockUntilKeyUpHandler *)
(* hold the event back in blockedQueue_, and fires the front event.        *)
(*                                                                         *)
(* Every handler holds GlobalLock from its first line to its last, so a    *)
(* handler is one action, or a chain of actions linked by pc: while pc is  *)
(* not "idle" the lock is taken and no other handler can start.  A timer   *)
(* is the active_ flag of its TimerWrapper; it may expire whenever active. *)
(*                                                                         *)
(* Handing an event to Core::remap_* is appending it to fired; the state   *)
(* the remapper keeps (FlagStatus, PressDownKeys, ...) is represented by   *)
(* the set internal of keys it believes pressed, which                     *)
(* resetInternalStateIfNeeded clears.                                      *)
(***************************************************************************)
EXTENDS SimultaneousKeyPresses, FiniteSets

CONSTANTS
    Keyboards,       \* devices of ListHookedKeyboard and ListHookedConsumer
    Pointings,       \* devices of ListHookedPointing
    Internal,        \* the devices of type APPLE_INTERNAL
    Keys,            \* key codes, consumer key codes
    Buttons,         \* pointing buttons, in the order of their bits
    Motion,          \* what a cursor move or a wheel event is called: not a down/up event
    CapsLock,        \* the subset of Keys that is KeyCode::CAPSLOCK
    Ignored,         \* <<device, key>> pairs dropped by a device hack
    Items,           \* the sequence of __SimultaneousKeyPresses__ items
    BlockKeys,       \* the keys that have a __BlockUntilKeyUp__ item
    ignore_bouncing_events,            \* general_ignore_bouncing_events
    allow_devices_multiple_same_key,   \* general_allow_devices_multiple_same_key
    disable_internal_keyboard,         \* general_disable_internal_keyboard_if_external_keyboard_exsits
    MaxEvents,       \* bound: hardware events pushed in a behaviour
    MaxPlugs,        \* bound: device disconnections
    MaxToggles       \* bound: changes of the configuration

Devices  == Keyboards \cup Pointings
VKeys    == {Items[r].vk : r \in DOMAIN Items} \ {VK_NONE}
DownUps  == Keys \cup {Buttons[i] : i \in DOMAIN Buttons} \cup VKeys

SimultaneousItem ==
    [key1 : DownUps, key2 : DownUps, vk : DownUps \cup {VK_NONE}, strict : BOOLEAN, raw : BOOLEAN]

ASSUME ConstantsAssumption ==
    /\ Keyboards \cap Pointings = {}
    /\ Internal \subseteq Keyboards
    /\ Buttons \in Seq({Buttons[i] : i \in DOMAIN Buttons})
    /\ \A i, j \in DOMAIN Buttons : Buttons[i] = Buttons[j] => i = j
    /\ Motion \notin DownUps
    /\ CapsLock \subseteq Keys /\ BlockKeys \subseteq DownUps
    /\ Ignored \subseteq Keyboards \X Keys
    /\ Items \in Seq(SimultaneousItem)
    /\ \A r \in DOMAIN Items : Items[r].key1 # Items[r].key2
    /\ {ignore_bouncing_events, allow_devices_multiple_same_key, disable_internal_keyboard} \subseteq BOOLEAN
    /\ MaxEvents \in Nat /\ MaxPlugs \in Nat /\ MaxToggles \in Nat

VARIABLES
    attached,               \* the devices that have a ListHookedDevice::Item
    gen,                    \* incarnation of each device's Item, for the weak pointers
    held,                   \* what is physically down on a device; previousbuttons of a pointing one
    pressingPhysicalKeys,   \* per device and key, how often PressingPhysicalKeys lists it
    queue_,
    fireTimer,              \* fire_timer_ is active
    armedFor,               \* the front event fire_timer_ was armed for, when that waits for chattering
    aged,                   \* per kind of key, the newest event known to be older than the threshold
    serialNumber_,
    blockedQueue_,
    pressingEvents_,        \* records [key, ignore]
    blockingTimer,          \* blockingTimeOut_timer_ is active
    activeFromInfos,        \* SimultaneousKeyPresses::ActiveFromInfos
    activeItems,            \* per item, its SIMULTANEOUSBUTTONPRESSES entries in ActiveItems
    blockTargets,           \* keys whose __BlockUntilKeyUp__ item is enabled and not filtered out
    enabledItems,           \* items of Items that are enabled and not filtered out
    pc,                     \* where the handler that holds the lock stands
    loop,                   \* its local variables
    fired,                  \* history: the events handed to Core::remap_*
    internal,               \* keys the remapper's state holds as pressed
    lastId,                 \* history: number of events accepted from the hardware
    removed,                \* history: ids of events taken out of the queue without firing
    plugs, toggles          \* how much of the bounds is used

deviceVars == <<attached, gen, held, plugs>>
blockVars  == <<blockedQueue_, pressingEvents_, blockingTimer>>
skpVars    == <<activeFromInfos, activeItems>>
configVars == <<blockTargets, enabledItems, toggles>>
outVars    == <<fired, internal>>
timerVars  == <<fireTimer, armedFor>>
clockVars  == <<lastId, aged>>
vars == <<deviceVars, pressingPhysicalKeys, queue_, timerVars, serialNumber_, blockVars,
          skpVars, configVars, pc, loop, outVars, clockVars, removed>>

-----------------------------------------------------------------------------
(* Items, devices, physical keys *)

NoLoop == [at |-> 0, down |-> FALSE, changed |-> FALSE, dev |-> Motion, buttons |-> {}, moved |-> FALSE]

\* EventInputQueue::Item(params, ...) of an event of device d, as enqueue_ builds it.
\* id counts the events of the hardware, in the order of their time stamps ic;
\* the events up to since are older than the bouncing threshold at that moment.
NewItem(id, since, d, k, down) ==
    [id |-> id, since |-> since, key |-> k, down |-> down, dev |-> d, gen |-> gen[d],
     target |-> TRUE, replay |-> FALSE]

\* Keys and pointing buttons have a threshold of their own.
Kind(k) == IF \E i \in DOMAIN Buttons : Buttons[i] = k THEN "button" ELSE "key"

\* What since can be for an event of key k that comes now: time only advances.
\* Only the since of a press matters.
Sinces(k, down) == IF ignore_bouncing_events /\ down THEN aged[Kind(k)]..lastId ELSE {0}

\* The event (id, since) of key k is the newest one.
Advance(id, since, k) ==
    /\ lastId' = id
    /\ aged' = [aged EXCEPT ![Kind(k)] = IF since > @ THEN since ELSE @]

\* Params_Base::iskeydown returns true: the event is a press or a release.
IsDownUp(x) == x.key # Motion

\* The weak pointers that have not expired.
Live == {[dev |-> d, gen |-> gen[d]] : d \in attached}

NotArmed == [id |-> 0, kind |-> "key"]

\* setTimer: arm fire_timer_ unless it is active; a queue without a front arms
\* nothing.  With ignore_bouncing_events the time is what the front event lacks
\* to the threshold of its kind; other events than presses and releases do not wait.
SetTimer ==
    IF fireTimer \/ queue_' = << >> THEN UNCHANGED timerVars
    ELSE /\ fireTimer' = TRUE
         /\ armedFor' = IF ignore_bouncing_events /\ IsDownUp(Head(queue_'))
                        THEN [id |-> Head(queue_').id, kind |-> Kind(Head(queue_').key)]
                        ELSE NotArmed

\* Mutant: a release takes one entry of its key off, found or not.
UpdatePressingPhysicalKeysOne(x) ==
    pressingPhysicalKeys' =
        IF DevicePtr(x) \in Live /\ IsDownUp(x) /\ x.key \notin CapsLock
        THEN [pressingPhysicalKeys EXCEPT ![x.dev][x.key] = IF x.down THEN @ + 1 ELSE @ - 1]
        ELSE pressingPhysicalKeys

\* Mutant: a release takes one entry of its key off, if there is one.
UpdatePressingPhysicalKeysFirst(x) ==
    pressingPhysicalKeys' =
        IF DevicePtr(x) \in Live /\ IsDownUp(x) /\ x.key \notin CapsLock
        THEN [pressingPhysicalKeys EXCEPT ![x.dev][x.key] =
                 IF x.down THEN @ + 1 ELSE IF @ > 0 THEN @ - 1 ELSE 0]
        ELSE pressingPhysicalKeys

\* PressingPhysicalKeys::update, reached through the item's weak pointer.
UpdatePressingPhysicalKeys(x) ==
    pressingPhysicalKeys' =
        IF DevicePtr(x) \in Live /\ IsDownUp(x) /\ x.key \notin CapsLock
        THEN [pressingPhysicalKeys EXCEPT ![x.dev][x.key] =
                 CASE x.down -> @ + 1
                   [] ~x.down /\ allow_devices_multiple_same_key /\ @ > 0 -> @ - 1
                   [] OTHER -> 0]
        ELSE pressingPhysicalKeys

\* ListHookedDevice::pressingPhysicalKeysCountAll() == 0
NoPressingPhysicalKeys(ppk) == \A d \in attached : \A k \in DownUps : ppk[d][k] = 0

\* ListHookedKeyboard::isExternalDevicesConnected under the configuration that
\* disables the internal keyboard.
InternalDisabled == disable_internal_keyboard /\ \E d \in attached \cap Keyboards : d \notin Internal

\* Mutant: the counts of every keyboard are cleared.
ClearInternalAll(ppk) == [d \in Devices |-> [k \in DownUps |-> 0]]

\* ListHookedDevice::clearInternalKeyboardPressingPhysicalKeysCountAll
ClearInternal(ppk) ==
    [d \in Devices |-> IF d \in Internal THEN [k \in DownUps |-> 0] ELSE ppk[d]]

-----------------------------------------------------------------------------
(* Hardware callbacks.  A press or release changes held whatever the       *)
(* handler does with it.                                                   *)

\* push_KeyboardEventCallback, push_KeyboardSpecialEventCallback: a key of d goes
\* down or up (repeat is false, or true on a release), or repeats (a press with
\* repeat true, which is dropped).
push_KeyboardEventCallback(d, k, down, repeat) ==
    /\ pc = "idle"
    /\ d \in attached \cap Keyboards
    /\ lastId < MaxEvents
    /\ (k \in held[d]) <=> (repeat \/ ~down)
    /\ held' = [held EXCEPT ![d] = IF down THEN @ \cup {k} ELSE @ \ {k}]
    /\ pressingPhysicalKeys' =
          IF InternalDisabled THEN ClearInternal(pressingPhysicalKeys) ELSE pressingPhysicalKeys
    /\ IF (InternalDisabled /\ d \in Internal) \/ <<d, k>> \in Ignored \/ (repeat /\ down)
       THEN UNCHANGED <<queue_, timerVars, clockVars>>
       ELSE /\ \E since \in Sinces(k, down) :
                  /\ queue_' = Append(queue_, NewItem(lastId + 1, since, d, k, down))
                  /\ Advance(lastId + 1, since, k)
            /\ SetTimer
    /\ UNCHANGED <<attached, gen, plugs, serialNumber_, blockVars, skpVars, configVars, pc, loop,
                   outVars, removed>>

\* push_RelativePointerEventCallback begins: the report of device d holds the
\* set of buttons B and, if moved, a displacement.
push_RelativePointerEventCallback(d, B, moved) ==
    /\ pc = "idle"
    /\ d \in attached \cap Pointings
    /\ lastId + Len(Buttons) + 1 <= MaxEvents
    /\ B # held[d] \/ moved
    /\ pc' = "buttons"
    /\ loop' = [NoLoop EXCEPT !.at = 1, !.dev = d, !.buttons = B, !.moved = moved]
    /\ UNCHANGED <<deviceVars, pressingPhysicalKeys, queue_, timerVars, serialNumber_, blockVars,
                   skpVars, configVars, outVars, clockVars, removed>>

\* One round of its loop: button loop.at was just pressed or just released.
PushButton ==
    /\ pc = "buttons" /\ loop.at <= Len(Buttons)
    /\ LET d == loop.dev
           btn == Buttons[loop.at]
       IN  IF (btn \in loop.buttons) # (btn \in held[d])
           THEN \E since \in Sinces(btn, btn \in loop.buttons) :
                   /\ queue_' = Append(queue_, NewItem(lastId + 1, since, d, btn, btn \in loop.buttons))
                   /\ Advance(lastId + 1, since, btn)
           ELSE UNCHANGED <<queue_, clockVars>>
    /\ loop' = [loop EXCEPT !.at = @ + 1]
    /\ UNCHANGED <<deviceVars, pressingPhysicalKeys, timerVars, serialNumber_, blockVars, skpVars,
                   configVars, pc, outVars, removed>>

\* Its end: previousbuttons is stored, a displacement is an event of its own.
PushMotion ==
    /\ pc = "buttons" /\ loop.at > Len(Buttons)
    /\ held' = [held EXCEPT ![loop.dev] = loop.buttons]
    /\ IF loop.moved
       THEN /\ queue_' = Append(queue_, NewItem(lastId + 1, 0, loop.dev, Motion, FALSE))
            /\ Advance(lastId + 1, 0, Motion)
       ELSE UNCHANGED <<queue_, clockVars>>
    /\ SetTimer
    /\ pc' = "idle" /\ loop' = NoLoop
    /\ UNCHANGED <<attached, gen, plugs, pressingPhysicalKeys, serialNumber_, blockVars, skpVars,
                   configVars, outVars, removed>>

\* push_ScrollWheelEventCallback
push_ScrollWheelEventCallback(d) ==
    /\ pc = "idle"
    /\ d \in attached \cap Pointings
    /\ lastId < MaxEvents
    /\ queue_' = Append(queue_, NewItem(lastId + 1, 0, d, Motion, FALSE))
    /\ Advance(lastId + 1, 0, Motion)
    /\ SetTimer
    /\ UNCHANGED <<deviceVars, pressingPhysicalKeys, serialNumber_, blockVars, skpVars, configVars,
                   pc, loop, outVars, removed>>

-----------------------------------------------------------------------------
(* Devices come and go; the configuration changes. *)

\* gIOMatchedNotification_callback: a new Item is added to the list.
Connect(d) ==
    /\ pc = "idle" /\ d \notin attached
    /\ attached' = attached \cup {d}
    /\ UNCHANGED <<gen, held, plugs, pressingPhysicalKeys, queue_, timerVars, serialNumber_, blockVars,
                   skpVars, configVars, pc, loop, outVars, clockVars, removed>>

\* Mutant: weak pointers to the deleted Item do not expire.
DisconnectNotExpired(d) ==
    /\ pc = "idle" /\ d \in attached /\ plugs < MaxPlugs
    /\ attached' = attached \ {d}
    /\ held' = [held EXCEPT ![d] = {}]
    /\ pressingPhysicalKeys' = [pressingPhysicalKeys EXCEPT ![d] = [k \in DownUps |-> 0]]
    /\ plugs' = plugs + 1
    /\ UNCHANGED <<gen, queue_, timerVars, serialNumber_, blockVars, skpVars, configVars, pc, loop,
                   outVars, clockVars, removed>>

\* gIOTerminatedNotification_callback: the Item is deleted, with its
\* PressingPhysicalKeys; weak pointers to it expire.  Queued events stay.
Disconnect(d) ==
    /\ pc = "idle" /\ d \in attached /\ plugs < MaxPlugs
    /\ attached' = attached \ {d}
    /\ gen' = [gen EXCEPT ![d] = @ + 1]
    /\ held' = [held EXCEPT ![d] = {}]
    /\ pressingPhysicalKeys' = [pressingPhysicalKeys EXCEPT ![d] = [k \in DownUps |-> 0]]
    /\ plugs' = plugs + 1
    /\ UNCHANGED <<queue_, timerVars, serialNumber_, blockVars, skpVars, configVars, pc, loop, outVars,
                   clockVars, removed>>

\* RemapClassManager::set_config_one, or a change of what the filters look at:
\* an item starts or stops applying.
SetConfig ==
    /\ pc = "idle" /\ toggles < MaxToggles
    /\ \/ /\ \E k \in BlockKeys : blockTargets' = (blockTargets \ {k}) \cup ({k} \ blockTargets)
          /\ UNCHANGED enabledItems
       \/ /\ \E r \in DOMAIN Items : enabledItems' = (enabledItems \ {r}) \cup ({r} \ enabledItems)
          /\ UNCHANGED blockTargets
    /\ toggles' = toggles + 1
    /\ UNCHANGED <<deviceVars, pressingPhysicalKeys, queue_, timerVars, serialNumber_, blockVars,
                   skpVars, pc, loop, outVars, clockVars, removed>>

-----------------------------------------------------------------------------
(* fire_timer_callback *)

\* The timer expires: the event it was armed for has waited for the threshold.
fire_timer_callback ==
    /\ pc = "idle" /\ fireTimer
    /\ fireTimer' = FALSE /\ armedFor' = NotArmed
    /\ aged' = [aged EXCEPT ![armedFor.kind] = IF armedFor.id > @ THEN armedFor.id ELSE @]
    /\ pc' = IF ignore_bouncing_events THEN "bounce" ELSE "front"
    /\ loop' = NoLoop
    /\ UNCHANGED <<deviceVars, pressingPhysicalKeys, queue_, serialNumber_, blockVars, skpVars,
                   configVars, outVars, lastId, removed>>

\* Mutant: the press may be of any key.
BouncingPairsAnyKey ==
    {p \in (DOMAIN queue_) \X (DOMAIN queue_) :
        LET up == queue_[p[1]]
            dn == queue_[p[2]]
        IN  /\ p[1] < p[2]
            /\ IsDownUp(up) /\ ~up.down /\ dn.down
            /\ up.id > dn.since}

\* A release and a later press of the same key, whatever their devices, within
\* the threshold and without a release of the key between them.
BouncingPairs ==
    {p \in (DOMAIN queue_) \X (DOMAIN queue_) :
        LET up == queue_[p[1]]
            dn == queue_[p[2]]
        IN  /\ p[1] < p[2]
            /\ IsDownUp(up) /\ ~up.down /\ dn.key = up.key /\ dn.down
            /\ dn.since < up.id /\ up.id < dn.id
            /\ \A n \in p[1]+1 .. p[2]-1 : queue_[n].key = up.key => queue_[n].down}

\* Mutant: the press is taken out where it was before the release went.
RemoveBouncingShifted ==
    /\ pc = "bounce"
    /\ \E p \in BouncingPairs :
          /\ \A o \in BouncingPairs : p[1] < o[1] \/ (p[1] = o[1] /\ p[2] <= o[2])
          /\ queue_' = RemoveAt(RemoveAt(queue_, p[1]), p[2])
          /\ removed' = removed \cup {queue_[p[1]].id, queue_[p[2]].id}
    /\ UNCHANGED <<deviceVars, pressingPhysicalKeys, timerVars, serialNumber_, blockVars, skpVars,
                   configVars, pc, loop, outVars, clockVars>>

\* The first pair the two nested loops meet goes, and they start again.
RemoveBouncing ==
    /\ pc = "bounce"
    /\ \E p \in BouncingPairs :
          /\ \A o \in BouncingPairs : p[1] < o[1] \/ (p[1] = o[1] /\ p[2] <= o[2])
          /\ queue_' = RemoveAt(RemoveAt(queue_, p[2]), p[1])
          /\ removed' = removed \cup {queue_[p[1]].id, queue_[p[2]].id}
    /\ UNCHANGED <<deviceVars, pressingPhysicalKeys, timerVars, serialNumber_, blockVars, skpVars,
                   configVars, pc, loop, outVars, clockVars>>

\* No pair is left.
BouncingDone ==
    /\ pc = "bounce" /\ BouncingPairs = {}
    /\ pc' = "front"
    /\ UNCHANGED <<deviceVars, pressingPhysicalKeys, queue_, timerVars, serialNumber_, blockVars,
                   skpVars, configVars, loop, outVars, clockVars, removed>>

\* The head of the SimultaneousKeyPresses loop: an emptied queue ends the
\* handler, otherwise every item sees the queue, told whether the front event
\* of this round is a press.
SimultaneousRound ==
    /\ pc = "front" /\ loop.at = 0
    /\ IF queue_ = << >>
       THEN pc' = "idle" /\ UNCHANGED loop
       ELSE /\ pc' = "simultaneous"
            /\ loop' = [loop EXCEPT !.at = 1, !.down = Head(queue_).down \/ ~IsDownUp(Head(queue_)),
                                    !.changed = FALSE]
    /\ UNCHANGED <<deviceVars, pressingPhysicalKeys, queue_, timerVars, serialNumber_, blockVars,
                   skpVars, configVars, outVars, clockVars, removed>>

\* Mutant: a release is refused to an item that is not enabled any more.
RemapSimultaneousEnabled ==
    /\ pc = "simultaneous" /\ loop.at <= Len(Items)
    /\ LET r == loop.at
           res == RemapSimultaneousKeyPresses(r, Items[r], queue_, activeFromInfos, Live, serialNumber_)
       IN  IF r \in enabledItems /\ res.result # "NOT_CHANGED"
           THEN /\ queue_' = res.queue
                /\ activeFromInfos' = res.active
                /\ removed' = removed \cup res.removed
                /\ loop' = [loop EXCEPT !.at = @ + 1, !.changed = TRUE]
                /\ UNCHANGED activeItems
           ELSE /\ loop' = [loop EXCEPT !.at = @ + 1]
                /\ UNCHANGED <<queue_, skpVars, removed>>
    /\ UNCHANGED <<deviceVars, pressingPhysicalKeys, timerVars, serialNumber_, blockVars, configVars,
                   pc, outVars, clockVars>>

\* RemapClass::Item::remap_SimultaneousKeyPresses of the item loop.at.
remap_SimultaneousKeyPresses ==
    /\ pc = "simultaneous" /\ loop.at <= Len(Items)
    /\ LET r == loop.at
           called == IF loop.down THEN r \in enabledItems ELSE activeItems[r] > 0
           res == RemapSimultaneousKeyPresses(r, Items[r], queue_, activeFromInfos, Live, serialNumber_)
       IN  IF called /\ res.result # "NOT_CHANGED"
           THEN /\ queue_' = res.queue
                /\ activeFromInfos' = res.active
                /\ activeItems' =
                      [activeItems EXCEPT ![r] =
                          CASE res.result # "APPLIED" -> @
                            [] loop.down -> @ + 1
                            [] OTHER -> @ - 1]
                /\ removed' = removed \cup res.removed
                /\ loop' = [loop EXCEPT !.at = @ + 1, !.changed = TRUE]
           ELSE /\ loop' = [loop EXCEPT !.at = @ + 1]
                /\ UNCHANGED <<queue_, skpVars, removed>>
    /\ UNCHANGED <<deviceVars, pressingPhysicalKeys, timerVars, serialNumber_, blockVars, configVars,
                   pc, outVars, clockVars>>

\* All items were asked: once more if one of them changed the queue.
SimultaneousDone ==
    /\ pc = "simultaneous" /\ loop.at > Len(Items)
    /\ IF loop.changed
       THEN pc' = "front" /\ loop' = NoLoop
       ELSE pc' = "fire"  /\ loop' = NoLoop
    /\ UNCHANGED <<deviceVars, pressingPhysicalKeys, queue_, timerVars, serialNumber_, blockVars,
                   skpVars, configVars, outVars, clockVars, removed>>

-----------------------------------------------------------------------------
(* Firing the front event: doFire, resetInternalStateIfNeeded *)

KeyOf(x) == [dev |-> x.dev, gen |-> x.gen, key |-> x.key]

\* Mutant: the reset does not look at the physical keys.
NeedsResetAnyKeys(rest) == rest = << >> /\ blockedQueue_' = << >>

\* resetInternalStateIfNeeded clears: every key is released, both queues are empty.
NeedsReset(rest) ==
    NoPressingPhysicalKeys(pressingPhysicalKeys') /\ rest = << >> /\ blockedQueue_' = << >>

\* doFire on the queue q, which is not empty.
DoFire(q) ==
    LET p == Head(q)
        reset == IsDownUp(p) /\ NeedsReset(Tail(q))
    IN  /\ queue_' = Tail(q)
        /\ fired' = Append(fired, p)
        /\ internal' = CASE reset -> {}
                         [] ~reset /\ ~IsDownUp(p) -> internal
                         [] ~reset /\ IsDownUp(p) /\ p.down -> internal \cup {KeyOf(p)}
                         [] OTHER -> internal \ {KeyOf(p)}
        /\ activeFromInfos' = IF reset THEN {} ELSE activeFromInfos
        /\ activeItems' = IF reset THEN [r \in DOMAIN Items |-> 0] ELSE activeItems

\* What every branch of the last part of fire_timer_callback does, besides setTimer.
FireFront ==
    /\ pc = "fire" /\ queue_ # << >>
    /\ serialNumber_' = serialNumber_ + 1
    /\ UpdatePressingPhysicalKeys(Head(queue_))
    /\ pc' = "idle" /\ loop' = NoLoop
    /\ UNCHANGED <<deviceVars, configVars, clockVars, removed>>

(* BlockUntilKeyUpHandler::doBlockUntilKeyUp *)

FrontItem == Head(queue_)

\* Replayed events and events that are neither press nor release pass.
Passes == FrontItem.replay \/ ~IsDownUp(FrontItem)

\* pressingEvents_ after the front event is accounted for.
PressingEvents ==
    {e \in pressingEvents_ : e.key # FrontItem.key}
      \cup (IF FrontItem.down THEN {[key |-> FrontItem.key, ignore |-> FALSE]} ELSE {})

NeedToBlock ==
    \/ \E e \in PressingEvents : ~e.ignore /\ e.key \in blockTargets
    \/ FrontItem.key \in blockTargets

\* endBlocking: the blocked events b go to the front of q, marked as replayed.
Replayed(b) == [i \in DOMAIN b |-> [b[i] EXCEPT !.replay = TRUE]]

IgnoreAll(pe) == {[key |-> e.key, ignore |-> TRUE] : e \in pe}

\* isOrphanKeyUpEventExistsInBlockedQueue
OrphanKeyUpInBlockedQueue ==
    \E i \in DOMAIN blockedQueue_ :
        /\ ~blockedQueue_[i].down
        /\ \A j \in 1..i : ~(blockedQueue_[j].key = blockedQueue_[i].key /\ blockedQueue_[j].down)

\* isTargetDownEventInBlockedQueue
DownInBlockedQueue(k) == \E i \in DOMAIN blockedQueue_ : blockedQueue_[i].key = k /\ blockedQueue_[i].down

\* Mutant: Case 2 puts the release first.
LastDownFirst(k) == 0

\* Case 2 puts the release behind the last press of its key, or first.
LastDown(k) ==
    IF DownInBlockedQueue(k)
    THEN CHOOSE i \in DOMAIN blockedQueue_ :
            /\ blockedQueue_[i].key = k /\ blockedQueue_[i].down
            /\ \A j \in DOMAIN blockedQueue_ : blockedQueue_[j].key = k /\ blockedQueue_[j].down => j <= i
    ELSE 0

\* Mutant: Case 2 moves the release and does not end the blocking.
ReleaseBlockingKeyKept ==
    /\ FireFront /\ ~Passes /\ NeedToBlock
    /\ ~FrontItem.down /\ FrontItem.key \in blockTargets
    /\ pressingEvents_' = PressingEvents
    /\ blockedQueue_' = InsertAt(blockedQueue_, LastDown(FrontItem.key) + 1, FrontItem)
    /\ blockingTimer' = TRUE
    /\ queue_' = Tail(queue_)
    /\ SetTimer
    /\ UNCHANGED <<skpVars, outVars>>

FirePassing ==
    /\ FireFront /\ Passes
    /\ UNCHANGED blockVars
    /\ DoFire(queue_)
    /\ SetTimer

FireUnblocked ==
    /\ FireFront /\ ~Passes /\ ~NeedToBlock
    /\ pressingEvents_' = PressingEvents
    /\ blockedQueue_' = << >> /\ blockingTimer' = FALSE
    /\ DoFire(Replayed(blockedQueue_) \o queue_)
    /\ SetTimer

\* Case 2: the release of a blocking key.
ReleaseBlockingKey ==
    /\ FireFront /\ ~Passes /\ NeedToBlock
    /\ ~FrontItem.down /\ FrontItem.key \in blockTargets
    /\ pressingEvents_' = PressingEvents
    /\ blockedQueue_' = << >> /\ blockingTimer' = FALSE
    /\ DoFire(Replayed(InsertAt(blockedQueue_, LastDown(FrontItem.key) + 1, FrontItem)) \o Tail(queue_))
    /\ SetTimer

\* Case 1: another key is tapped while a blocking key is held.
ReleaseTappedKey ==
    /\ FireFront /\ ~Passes /\ NeedToBlock
    /\ ~FrontItem.down /\ FrontItem.key \notin blockTargets
    /\ ~OrphanKeyUpInBlockedQueue /\ DownInBlockedQueue(FrontItem.key)
    /\ pressingEvents_' = IgnoreAll(PressingEvents)
    /\ blockedQueue_' = << >> /\ blockingTimer' = FALSE
    /\ DoFire(Replayed(Append(blockedQueue_, FrontItem)) \o Tail(queue_))
    /\ SetTimer

\* Mutant: the blocked event is not copied.
BlockLost ==
    /\ FireFront /\ ~Passes /\ NeedToBlock
    /\ FrontItem.down \/ (FrontItem.key \notin blockTargets
                        /\ (OrphanKeyUpInBlockedQueue \/ ~DownInBlockedQueue(FrontItem.key)))
    /\ pressingEvents_' = PressingEvents
    /\ queue_' = Tail(queue_)
    /\ SetTimer
    /\ UNCHANGED <<blockedQueue_, blockingTimer, skpVars, outVars>>

\* Mutant: blocking sets no timeout.
BlockNoTimeout ==
    /\ FireFront /\ ~Passes /\ NeedToBlock
    /\ FrontItem.down \/ (FrontItem.key \notin blockTargets
                        /\ (OrphanKeyUpInBlockedQueue \/ ~DownInBlockedQueue(FrontItem.key)))
    /\ pressingEvents_' = PressingEvents
    /\ blockedQueue_' = Append(blockedQueue_, FrontItem)
    /\ queue_' = Tail(queue_)
    /\ SetTimer
    /\ UNCHANGED <<blockingTimer, skpVars, outVars>>

\* Otherwise the event is held back.
Block ==
    /\ FireFront /\ ~Passes /\ NeedToBlock
    /\ FrontItem.down \/ (FrontItem.key \notin blockTargets
                        /\ (OrphanKeyUpInBlockedQueue \/ ~DownInBlockedQueue(FrontItem.key)))
    /\ pressingEvents_' = PressingEvents
    /\ blockedQueue_' = Append(blockedQueue_, FrontItem) /\ blockingTimer' = TRUE
    /\ queue_' = Tail(queue_)
    /\ SetTimer
    /\ UNCHANGED <<skpVars, outVars>>

\* Mutant: the timeout replays the blocked events and sets no timer.
BlockingTimeOutNoTimer ==
    /\ pc = "idle" /\ blockingTimer
    /\ blockingTimer' = FALSE
    /\ queue_' = Replayed(blockedQueue_) \o queue_
    /\ blockedQueue_' = << >>
    /\ pressingEvents_' = IgnoreAll(pressingEvents_)
    /\ UNCHANGED <<deviceVars, pressingPhysicalKeys, timerVars, serialNumber_, skpVars, configVars, pc,
                   loop, outVars, clockVars, removed>>

\* blockingTimeOut_timer_callback
blockingTimeOut_timer_callback ==
    /\ pc = "idle" /\ blockingTimer
    /\ blockingTimer' = FALSE
    /\ queue_' = Replayed(blockedQueue_) \o queue_
    /\ blockedQueue_' = << >>
    /\ pressingEvents_' = IgnoreAll(pressingEvents_)
    /\ SetTimer
    /\ UNCHANGED <<deviceVars, pressingPhysicalKeys, serialNumber_, skpVars, configVars, pc, loop,
                   outVars, clockVars, removed>>

-----------------------------------------------------------------------------
Init ==
    /\ attached = Devices
    /\ gen = [d \in Devices |-> 0]
    /\ held = [d \in Devices |-> {}]
    /\ pressingPhysicalKeys = [d \in Devices |-> [k \in DownUps |-> 0]]
    /\ queue_ = << >> /\ fireTimer = FALSE /\ armedFor = NotArmed /\ serialNumber_ = 0
    /\ blockedQueue_ = << >> /\ pressingEvents_ = {} /\ blockingTimer = FALSE
    /\ activeFromInfos = {} /\ activeItems = [r \in DOMAIN Items |-> 0]
    /\ blockTargets = BlockKeys /\ enabledItems = DOMAIN Items
    /\ pc = "idle" /\ loop = NoLoop
    /\ fired = << >> /\ internal = {}
    /\ lastId = 0 /\ aged = [kind \in {"key", "button"} |-> 0] /\ removed = {}
    /\ plugs = 0 /\ toggles = 0

HardwareNext ==
    \/ \E d \in Keyboards, k \in Keys, down, repeat \in BOOLEAN : push_KeyboardEventCallback(d, k, down, repeat)
    \/ \E d \in Pointings, B \in SUBSET {Buttons[i] : i \in DOMAIN Buttons}, moved \in BOOLEAN :
          push_RelativePointerEventCallback(d, B, moved)
    \/ \E d \in Pointings : push_ScrollWheelEventCallback(d)
    \/ \E d \in Devices : Connect(d) \/ Disconnect(d)
    \/ SetConfig

\* The steps of a handler that already holds the lock.
HandlerNext ==
    \/ PushButton \/ PushMotion
    \/ RemoveBouncing \/ BouncingDone
    \/ SimultaneousRound \/ remap_SimultaneousKeyPresses \/ SimultaneousDone
    \/ FirePassing \/ FireUnblocked \/ ReleaseBlockingKey \/ ReleaseTappedKey \/ Block

TimerNext == fire_timer_callback \/ blockingTimeOut_timer_callback

Next == HardwareNext \/ HandlerNext \/ TimerNext

\* A handler that holds the lock runs to its end, and the work loop calls every
\* timer that stays active.
Fairness ==
    /\ WF_vars(HandlerNext)
    /\ WF_vars(fire_timer_callback)
    /\ WF_vars(blockingTimeOut_timer_callback)

Spec     == Init /\ [][Next]_vars
FairSpec == Spec /\ Fairness

-----------------------------------------------------------------------------
(* Properties *)

ItemType == [id : Nat, since : Nat, key : DownUps \cup {Motion}, down : BOOLEAN, dev : Devices, gen : Nat,
             target : BOOLEAN, replay : BOOLEAN]
PtrType  == [dev : Devices, gen : Nat]
LoopType == [at : Nat, down : BOOLEAN, changed : BOOLEAN, dev : Devices \cup {Motion},
             buttons : SUBSET DownUps, moved : BOOLEAN]

ActiveType == [item : DOMAIN Items, key : DownUps, device : PtrType, front : PtrType, serial : Nat]
KindType == {"key", "button"}

DeviceTypeOK ==
    /\ attached \subseteq Devices
    /\ gen \in [Devices -> Nat]
    /\ held \in [Devices -> SUBSET DownUps]
    /\ plugs \in Nat
CountTypeOK   == pressingPhysicalKeys \in [Devices -> [DownUps -> Nat]]
QueueTypeOK   == queue_ \in Seq(ItemType)
TimerTypeOK   == fireTimer \in BOOLEAN /\ armedFor \in [id : Nat, kind : KindType]
BlockTypeOK   ==
    /\ blockedQueue_ \in Seq(ItemType)
    /\ pressingEvents_ \subseteq [key : DownUps, ignore : BOOLEAN]
    /\ blockingTimer \in BOOLEAN
SkpTypeOK     == activeFromInfos \subseteq ActiveType /\ activeItems \in [DOMAIN Items -> Nat]
ConfigTypeOK  == blockTargets \subseteq BlockKeys /\ enabledItems \subseteq DOMAIN Items /\ toggles \in Nat
HandlerTypeOK ==
    /\ pc \in {"idle", "buttons", "bounce", "front", "simultaneous", "fire"}
    /\ loop \in LoopType
    /\ pc = "buttons" => loop.dev \in Devices
    /\ pc \in {"buttons", "simultaneous"} => loop.at > 0
OutTypeOK     == fired \in Seq(ItemType) /\ internal \subseteq [dev : Devices, gen : Nat, key : DownUps]
ClockTypeOK   == lastId \in Nat /\ aged \in [KindType -> Nat]

\* Every variable has its type, and a handler that holds the lock has the
\* local variables it needs.
TypeOK ==
    /\ DeviceTypeOK /\ CountTypeOK /\ QueueTypeOK /\ TimerTypeOK /\ BlockTypeOK /\ SkpTypeOK
    /\ ConfigTypeOK /\ HandlerTypeOK /\ OutTypeOK /\ ClockTypeOK
    /\ serialNumber_ \in Nat /\ removed \subseteq Nat

\* No wakeup is lost: whenever no handler runs, a waiting event has its timer,
\* fire_timer_ for queue_ (armed by setTimer at the end of every handler), and
\* blockingTimeOut_timer_ runs exactly while blockedQueue_ holds events.
TimersArmed ==
    /\ pc = "idle" /\ queue_ # << >> => fireTimer
    /\ blockingTimer <=> blockedQueue_ # << >>

\* blockedQueue_ holds events only while a press that is not ignored explains
\* it: when the last such key is released, or all are ignored, it is emptied.
BlockedWhilePressing ==
    blockedQueue_ # << >> => \E e \in pressingEvents_ : ~e.ignore

\* What is still to be fired, in the order it will be.
Pipeline == blockedQueue_ \o queue_

SameKey(x, y) == x.dev = y.dev /\ x.key = y.key /\ x.id > 0 /\ y.id > 0

\* BlockUntilKeyUp reorders events of different keys only: on one device the
\* presses and releases of one key keep the order of the hardware.
KeyOrder ==
    /\ \A i, j \in DOMAIN Pipeline :
          i < j /\ SameKey(Pipeline[i], Pipeline[j]) => Pipeline[i].id < Pipeline[j].id
    /\ \A i \in DOMAIN fired, j \in DOMAIN Pipeline :
          SameKey(fired[i], Pipeline[j]) => fired[i].id < Pipeline[j].id
    /\ \A i, j \in DOMAIN fired : i < j /\ SameKey(fired[i], fired[j]) => fired[i].id < fired[j].id

Ids(s) == {s[i].id : i \in DOMAIN s}
NoDuplicate(s) == \A i, j \in DOMAIN s : i # j /\ s[i].id > 0 => s[i].id # s[j].id

\* Every event accepted from the hardware is in exactly one place: still queued
\* or blocked, fired, or taken out by the bouncing filter or by
\* SimultaneousKeyPresses.  None is lost, none is delivered twice.
Conservation ==
    /\ 1..lastId = (Ids(Pipeline) \cup Ids(fired) \cup removed) \ {0}
    /\ NoDuplicate(Pipeline) /\ NoDuplicate(fired)
    /\ Ids(Pipeline) \cap Ids(fired) \subseteq {0}
    /\ (Ids(Pipeline) \cup Ids(fired)) \cap removed \subseteq {0}

\* Every event that came in has been dealt with.
Quiet == pc = "idle" /\ Pipeline = << >>

\* The device's key is one the pipeline reports: hardware CapsLock is not
\* counted, a device hack or the disabled internal keyboard drops the others.
Reported(d, k) ==
    /\ k \notin CapsLock /\ <<d, k>> \notin Ignored
    /\ ~(d \in Internal /\ disable_internal_keyboard)

Ptr(d) == [dev |-> d, gen |-> gen[d]]

\* When the pipeline is quiet, what the remapper believes pressed is what is
\* down on the connected devices: such a key is in the internal state, or an
\* active __SimultaneousKeyPresses__ item stands for it; a key that is up is
\* in neither.  Bouncing, blocking and resets leave no key stuck or forgotten.
Settled ==
    Quiet => \A d \in attached : \A k \in DownUps \ VKeys :
        Reported(d, k) =>
            (k \in held[d] <=> \/ [dev |-> d, gen |-> gen[d], key |-> k] \in internal
                              \/ \E e \in activeFromInfos : e.device = Ptr(d) /\ e.key = k)

\* When the pipeline is quiet, a virtual key is down on a connected device as
\* long as a key that was pressed for it is, and no longer.
VirtualKeysSettled ==
    Quiet => \A d \in attached : \A k \in VKeys :
        [dev |-> d, gen |-> gen[d], key |-> k] \in internal
          <=> \E e \in activeFromInfos : e.front = Ptr(d) /\ e.device \in Live /\ Items[e.item].vk = k

\* A press that comes within the bouncing threshold of the key's release is
\* never handed on after that release.
BouncingIgnored ==
    \A i, j \in DOMAIN fired :
        i < j /\ SameKey(fired[i], fired[j]) /\ ~fired[i].down /\ fired[j].down
          => fired[i].id <= fired[j].since

\* The event a step fired, if it fired one.
FiredNow == IF Len(fired') > Len(fired) THEN {fired'[Len(fired')]} ELSE {}

\* The step fired a press or a release and nothing waits any more.
FiredLast == (\E x \in FiredNow : IsDownUp(x)) /\ queue_' = << >> /\ blockedQueue_' = << >>

\* "Reset if all keys are released and EventInputQueue is empty.", one way:
\* the internal state is reset only when no reported key is down on any
\* connected device.
ResetOnlyWhenReleased ==
    [][FiredLast /\ NeedsReset(queue_')
         => \A d \in attached : \A k \in held[d] : ~Reported(d, k)]_vars

\* The other way: when nothing is down on any device the last event resets,
\* and the remapper holds no key as pressed.
ResetWhenReleased ==
    [][FiredLast /\ (\A d \in Devices : held[d] = {})
         => NeedsReset(queue_') /\ internal' = {}]_vars

\* Every event accepted from the hardware is eventually fired or taken out.
EventuallyHandled ==
    \A i \in 1..MaxEvents : (lastId >= i) ~> (i \notin Ids(Pipeline))
=============================================================================
