# A TLA+ model of Karabiner

Karabiner (`src/src/core/kext/`) sits between the HID drivers of OS X and the
window system: it replaces the drivers' event callbacks, queues every keyboard,
consumer-key and pointing event, remaps it and hands the result to the original
callback. A server application per user (`src/src/core/server/`) opens the kernel
extension while its user is at the console and sends it what to do. This directory
models the two queues through which every event passes, the remapping between
them, and the servers with the kernel extension they share; TLC checks the models
on small instances and TLAPS proves the theorems listed below.

All paths below are relative to `src/src/core/kext/` unless they begin with `src/`.

## 1. The system

    drivers ──callback──> ListHooked*  ──push_*──> EventInputQueue.queue_
                                                     │ fire_timer_
                      bouncing filter, SimultaneousKeyPresses, PressingPhysicalKeys
                                                     │
                              BlockUntilKeyUpHandler.blockedQueue_ ⟲ timeout
                                                     │ doFire
                        Core::remap_* ─> RemapClassManager ─> RemapFunc/*
                                                     │ Fire* requests
              KeyboardRepeat ⟲ ──> EventOutputQueue.queue_ <── PressDownKeys, reset
                                                     │ fire_timer_, one event per expiry
                                    ListHooked*::apply ─> original driver callback

    SessionObserver ─> AppDelegate ─> ClientForKernelspace ─> UserClient_userspace
                                                     │ one connection at a time
       UserClient_kext ─> Config, RemapClassManager ─> ListHooked*::refreshAll

Driver callbacks run on threads of their own; all timers run on one work loop.
`GlobalLock` is taken by every callback, timer, notification and user-client call,
and given up only around the call of the original driver callback
(`ListHookedKeyboard.cpp:259`).

| Component | State | Operations | What makes it correct |
|---|---|---|---|
| `EventInputQueue` | `queue_`, `fire_timer_`, `serialNumber_` | `push_*`, `setTimer`, `fire_timer_callback`, `doFire`, `resetInternalStateIfNeeded` | no event lost, doubled or left without a timer; a key's events in order; reset exactly when all is released |
| `BlockUntilKeyUpHandler` | `blockedQueue_`, `pressingEvents_`, timer | `doBlockUntilKeyUp`, `endBlocking`, timeout | events are blocked only as long as a press explains it; releases do not overtake presses |
| `SimultaneousKeyPresses` | `ActiveFromInfos` | `remapSimultaneousKeyPresses` | the virtual key is down as long as one of its keys |
| `PressingPhysicalKeys`, `ListHookedDevice` | pressed keys per device, device list, weak pointers | `update`, `clear`, matched/terminated notification | counts follow the devices through unplugging and the disabled internal keyboard |
| `EventOutputQueue`, `Fire*` | `queue_`, `fire_timer_`, `lastFlags_`, `isIgnorePhysicalUpEvent_`, `lastButtons_`, `previousButtons_` | `Fire*::fire`, `push`, `fire_timer_callback`, `calcDelay` | the receiver's modifiers, keys and buttons follow the requests; the waits are kept |
| `PressDownKeys` | `list_` | `add`, `remove`, `clear` | whatever is down at the receiver can be released |
| `KeyboardRepeat` | `queue_`, `fire_timer_`, `id_` | `set`, `cancel`, `primitive_*`, timer | no repetition outlives its key |
| `DropKeyAfterRemap` | `dropped_` | `cancelEventOutputQueueItems` | press and release are dropped together |
| `FlagStatus`, `ButtonStatus` | counters per modifier: count, temporary, lock, negative lock, sticky, lazy | `increase`, `decrease`, `temporary_*`, `lock_*`, `sticky_*`, `lazy_*`, `reset` | counters return to zero; locks and stickies survive a reset |
| `KeyToKey` | `keyboardRepeatID_`, delayed-action timer | `remap` | symmetric changes of `FlagStatus` on press and release |
| `DependingPressingPeriodKeyToKey` | static `fire_timer_`, `target_`; `active_`, `periodtype_` | `remap`, timer, `dokeydown`, `dokeyup` | each press gets exactly one of its short/long actions, undone on release |
| `RemapClass`, `RemapClassManager`, filters | items, `ActiveItems`, enabled list, refresh timer | `remap_*`, `set_config`, `load_remapclasses_initialize_vector` | an item that took a press sees its release, even when disabled meanwhile |
| `GlobalLock`, `TimerWrapper`, `Core` | lock, `active_` flags, start/stop order | `ScopedLock`, `ScopedUnlock`, `terminate` | no callback runs on freed state |
| `UserClient_kext`, `Config` | owner, `initialized` | `open`, `close`, `set_initialized` | a vanished client leaves no device hooked and no lock, sticky or repetition, but for what events taken before still bring |
| `ListHooked*` | event actions of a device and the originals | `push_back`, `erase`, `refresh`, `replaceEventAction`, `restoreEventAction`, timer | an original is never lost; exactly the wanted devices are hooked |
| server application | session state, connection, retry timer, preferences, compiled XML | poll, connect, retry, send, notifications, relaunch | whoever is at the console is served, with all settings, in the end |
| `xml_compiler`, user interface, command-line tools | — | — | outside of this model (section 7) |

What is hard here: hardware callbacks, two kinds of timers and configuration
changes interleave; a queue is rewritten in the middle by four mechanisms that do
not know of each other; timeouts race releases; devices disappear with events in
flight; counters decide about a global reset; several remap functions share one timer
and one set of counters; processes crash, are switched away or replaced by another
version between two calls. `PROJECT.json` lists the hazards at
their lines and the properties aimed at each; lesser ones are described in section 6.

## 2. Modules

| Module | Contents |
|---|---|
| `SimultaneousKeyPresses` | pure operators: what an item does to the front of the queue and to `ActiveFromInfos` |
| `EventInputQueue` | the input pipeline: devices, `queue_`, bouncing filter, blocking, firing, reset |
| `EventInputQueueProofs` | lemmas on the queue operators; `TypeCorrect`, `TimersArmedTheorem`, `BlockedWhilePressingTheorem`, `ConservationTheorem`, `KeyOrderFixedConfig`, `KeyOrderPlainInput`, `SettledHolds`, `ResetOnlyWhenReleasedHolds`, `ResetWhenReleasedHolds` |
| `Subsequences` | pure operators: the elements of a sequence at some of its positions, in their order |
| `SubsequencesProofs` | lemmas about them |
| `EventOutputQueue` | the output queue with `Fire*`, `PressDownKeys`, `KeyboardRepeat`, `DropKeyAfterRemap` |
| `EventOutputQueueProofs` | what delivering a queue makes of the receiver, what each request does to that; `TypeCorrect`, `NoLostTimer`, `ModifiersInStep`, `NothingStuck`, `NoRunaway`, `WaitsKept` |
| `FlagStatus` | the counters of modifiers and buttons, each method a function from states to states |
| `RemapFilter` | the conditions under which an item leaves a press alone |
| `RemapOutput` | what a remapped key does at the output: `Fire*`, `KeyboardRepeat`, virtual keys |
| `KeyToKey` | `KeyToKey`: `add`, `prepare`, `remap`, delayed actions |
| `RemapFunc`, `RemapProcessor` | the functions built from it: their construction; their `prepare`, `remap` and timer |
| `Remapper` | the state machine over these: `RemapClass`, `RemapClassManager`, `Core`, `doFire`, the timers |
| `FoldProofs` | an invariant of the body of a loop is one of the fold that models the loop |
| `RemapFuncProofs` | lemmas: what the functions of `FlagStatus` to `RemapProcessor` keep, and what of the counts is left when the pressed keys are taken off |
| `RemapperProofs` | the same of `prepare` and `remap`, of one event and of each action; `TypesKept`, `NothingLeftBehind`, `CountsKept` |
| `PrepareProofs` | what each function does to the list of `prepare`; `WalkKept` |
| `OverlaidKeys` | abstract: the table of `DependingPressingPeriodKeyToKey.hpp` |
| `HookedDevices` | the hooked devices: event actions, lists, refreshes |
| `Session` | kernel extension, servers, console, installed version, events from outside |
| `Ownership` | abstract: what the kernel extension promises to the users of a computer |
| `SessionProofs` | `OriginalKeptHolds`, `HookedAreWantedHolds`, `OwnershipRefinedHolds`, `TypeCorrect`, `SettledInSyncHolds` |
| `MCEventInputQueue`, `MCEventOutputQueue`, `MCRemapper`, `MCSession` | values of the constants for TLC |

`FlagStatus` to `Remapper` extend each other in this order; `Session` extends
`HookedDevices`. The three state machines `EventInputQueue`, `Remapper` and
`EventOutputQueue` are the pipeline of section 1 cut at its two interfaces: what one
hands over (`fired`, the requests) is arbitrary input to the next.

### EventInputQueue

A handler holds `GlobalLock` from its first to its last line. Short handlers are
one action; `push_RelativePointerEventCallback` and `fire_timer_callback`, which
contain loops, are chains of actions: `pc` tells where the handler stands, and
while it is not `"idle"` no other handler can start.

| Actions | Code |
|---|---|
| `push_KeyboardEventCallback`, `push_ScrollWheelEventCallback`, `push_RelativePointerEventCallback` → `PushButton`* → `PushMotion` | the `push_*` handlers; keyboard-special events share the first |
| `Connect`, `Disconnect` | matched and terminated notification: list items appear and are deleted |
| `SetConfig` | an item is enabled or disabled, or a filter changes its mind |
| `fire_timer_callback` → (`RemoveBouncing`* `BouncingDone`) → (`SimultaneousRound` `remap_SimultaneousKeyPresses`* `SimultaneousDone`)* → one of `FirePassing`, `FireUnblocked`, `ReleaseBlockingKey`, `ReleaseTappedKey`, `Block` | `EventInputQueue::fire_timer_callback`, `doBlockUntilKeyUp`, `doFire`, `resetInternalStateIfNeeded` |
| `blockingTimeOut_timer_callback` | the blocking timeout |

Abstractions.

- Time is not a clock. An event carries its number `id` in the order of the time
  stamps and, for a press, `since`: the events up to `since` are older than the
  bouncing threshold at that moment. `since` is chosen nondeterministically, but
  never runs backwards, and an expired `fire_timer_` proves that the event it was
  armed for has aged. Time stamps are taken as different, as those of the 64-bit
  tick counter are, so the unsigned difference of `EventInputQueue.cpp:508` is
  small exactly when the release is the older event.
- Handing an event to `Core::remap_*` appends it to `fired`. The remapper's state
  is the set `internal` of keys it believes pressed.
- A weak pointer is a device and its incarnation; `PressingPhysicalKeys::list_` is
  a count per key.
- Items of `SimultaneousKeyPresses` have two keys and no from-flags.
- Virtual keys and raw copies, which the queue inserts itself, are not matched by
  the bouncing filter (`id` 0, or no `since` of their own).
- `ActiveItems` is a count of `SIMULTANEOUSBUTTONPRESSES` entries per item.

### EventOutputQueue

Everything that requests output runs on the work loop, so a request, a repetition
and a delivery exclude each other even while `apply` has given up the lock:
each is one action.

| Actions | Code |
|---|---|
| `PressKey`, `ReleaseKey`, `ChangeModifier`, `ChangeConsumer`, `ChangePointer`, `ScrollWheel`, `FireWait` | `Core::remap_*` passing an event through, or a `KeyToKey` item with one key: `Fire*::fire` and `KeyboardRepeat::set` |
| `PressMacro`, `ReleaseMacro`, `Tap` | `KeyToKey` with two keys, before/after keys, delayed actions |
| `RepeatFire` | `KeyboardRepeat::fire_timer_callback` |
| `Reset` | the part of `resetInternalStateIfNeeded` that reaches the output queue |
| `IgnorePhysicalUpEvent` | `setIgnorePhysicalUpEvent` |
| `SetInitialized` | `Config::set_initialized` cancelling the repetition |
| `Deliver`, `AllCanceled` | `EventOutputQueue::fire_timer_callback`, `calcDelay`, `DropKeyAfterRemap` |

Abstractions.

- `FlagStatus::makeFlags()` at a request is an arbitrary member of `RequestFlags`;
  whatever `FlagStatus` does is covered by that choice.
- The timer is whether it is active and the milliseconds it was set to; `paced`
  tells a wait set by the callback from the 0 ms of a request.
- The original driver's state is `receiver`: the modifiers, keys and buttons as the
  delivered events leave them. `sent`, `down` and `rep.source` are histories too:
  the last delivered event, what the clients still have to release, and what
  started the repetition.
- Not here: keys taken out by `VirtualKey::handle`, the clearing of sticky flags by
  `push`, pointing buttons in a repetition, the serial numbers of
  `CancelEventOutputQueueItemsHelper` (every event is a target), and the conditions of
  `RemapClass.cpp:102-125` on the item that cancels (it is enabled, and no filter or pass-through
  leaves the event alone).

### Remapper

Everything runs under the global lock, so a handler is one action. The state is the record
`kext`; its fields are described in `RemapOutput`, `KeyToKey`, `RemapFunc` and `Remapper`,
where they are used. Operators map one such record to the next, in the order of the calls
in the code.

| Actions | Code |
|---|---|
| `Press`, `Release`, `Pointing` | `EventInputQueue::doFire` for one event: `EventWatcher`, lazy modifiers, `prepare`, `Core::remap_*`, passing through what is not remapped, `resetInternalStateIfNeeded` |
| `DelayedAction` | `KeyToKey::fire_timer_callback` |
| `PeriodTimer` | `DependingPressingPeriodKeyToKey::fire_timer_callback` |
| `Repeat` | `KeyboardRepeat::fire_timer_callback` |
| `RefreshTimer`, `SetConfigOne` | `RemapClassManager` |
| `SetWorkspace` | `CommonData::setcurrent_workspacedata` |

Abstractions.

- An item of a configuration is the sequence of tokens of its `<autogen>`; the `add` methods
  are modelled, so that options and separators mean what the code makes of them.
- Durations: an item has an initial wait or none; an event is before or after the threshold
  of the single press; the times that filters compare are small numbers. Timers fire at any time.
- What reaches the output is `out` and `log`: the keys that are down, the last flags and
  buttons, the keys pressed in this step. The queue behind it is `EventOutputQueue`.
- `Forget` resets, at the end of a step, what no later step reads.
- Consumer keys are left to `EventOutputQueue`.

### Session

The main thread of a server runs the blocks of the main queue (`queue`); a block makes its
calls one after the other (`todo`), and everything but this thread may move in between. A
call into the kernel extension is one step, under its global lock.

| Actions | Code |
|---|---|
| `Poll` | `SessionObserver`'s timer, with `AppDelegate`'s blocks for an active and an inactive session |
| `Retry`, `OpenSucceeds`, `OpenFails`, `OpenThrows`, `OpenRelaunches`, `Close` | `ClientForKernelspace`'s timer, `UserClient_userspace`'s connecting and closing, `UserClient_kext`'s `callback_open` and `callback_close` |
| `RunIONotification`, `RunReloaded`, `RunListChanged`, `RunWorkspace`, `RunWake`, `RunNotification` | the blocks |
| `SendVector`, `SendConfigAll`, `SendConfigOne`, `SendInitialized`, `SendWorkspace`, `GetConfigEnabled`, `Refused` | the synchronized communications, both sides |
| `ReloadXML`, `SelectConfig`, `EditConfigList`, `ClearAllValues`, `SetValue`, `Wake`, `ChangeFocus` | what a user does |
| `Take`, `Use`, `ToggleByKey`, `Drain` | the pipeline of events: one is pushed into `EventInputQueue`, one is remapped, to a lock or repetition or to a class that is switched (`VK_CONFIG`), queues and timers are empty |
| `SwitchUser`, `End`, `Launch`, `Upgrade`, `Unload`, `Load` | user switching, quitting and crashing, relaunching, upgrading, unloading and loading the extension |
| `Connect`, `Disconnect`, `DriverSets`, `Overwrite`, `ProgressTimer` | `ListHookedDevice`: `push_back`, `erase`, the drivers, the timer |

Abstractions.

- A `remapclasses_initialize_vector` is the sequence of its class names; a vector longer than
  `MaxConfigCount` stands for every one that the kernel extension refuses.
- The events that were taken and are not yet remapped, in a callback that still waits for the global lock, in
  `queue_`, in `blockedQueue_` or for a timer of the remap functions, are one flag, `waiting`. It is set
  only by the driver of a hooked device, which calls Karabiner's callback; neither `callback_close` nor
  `set_initialized` clears it, and what waits is remapped whether or not anybody has the extension
  open. Unloading clears it (`Core::stop` terminates the queues and timers).
- The blocks of the two timers may run before any other block; a block that finds no
  connection makes no calls.
- The conflicts that `EnvironmentChecker` reports, `general.keep_notsave_at_wake`, the count of
  relaunches and the waiting of modal alerts are left out. A relaunched server keeps `auto`, although the
  preferences manager drops the settings that are not saved: its first reloaded block sets them again.
- Initially both servers are launched and idle, a keyboard is listed, the mouse is unplugged.
  Another driver only overwrites Karabiner's own callback.

### Refinements

`Remapper!PeriodsRefined`: `Remapper` implements `OverlaidKeys`. An item's phase is read off
`pressing`, `periodtype_`, `active_` and the timer; what is pressed at the output must be what
the phase says. `Session!OwnershipRefined`: `Session` implements `Ownership`, with owner and
`initialized` as they are, the hooked devices computed from the event actions, and all
traces but negative locks (section 6). `Ownership` promises that the owner's going gives the devices back and ends
locks and repetitions in the same step, that nothing is taken without an owner, and that a new lock or
repetition comes only from an event taken before. It does not promise that there is none without an
owner: what still waits at the close is remapped afterwards (section 6).

### Mutants

In all modules definitions marked "Mutant" are faulty variants of the definition
that follows them. They are used by no specification; `PROJECT.json` pairs each with
a property that it breaks.

## 3. Runs

| Run | Result | Instance | Shows |
|---|---|---|---|
| `EIQ_block` | passes | 1 keyboard, a blocking key and another key, 8 events, 1 configuration change | no lost wakeup, no lost or doubled event, per-key order, reset exactly when all is released, every event is handled |
| `EIQ_bouncing` | passes | 1 keyboard, 2 keys, bouncing filter, multiple same keys allowed, 8 events | no event lost, no key stuck or forgotten, reset exactly when all is released |
| `EIQ_devices` | passes | internal and external keyboard, a blocking key, caps lock, a key dropped by a device hack, 4 events, 1 unplugging | on connected keyboards no key is stuck or forgotten |
| `EIQ_simultaneous` | passes | a keyboard, a mouse, 2 items sharing a key, one with a mouse button, 7 events, 1 configuration change | a virtual key is down exactly while a key pressed for it is; no event lost |
| `EIQ_chatter` | `ResetOnlyWhenReleased` violated | a blocking key and the bouncing filter, 7 events | section 6 |
| `EOQ_keys` | passes | key, dropped Tab, two-key macro, 2 modifiers | timer armed, flags, keys and repetition in step |
| `EOQ_clicks` | passes | keypad key, repeating consumer key, button, wheel, waits, 2 modifiers | types, the same with pointing events, and `WaitKept` |
| `EOQ_wait` | `WaitAfterClick` violated | key and button | section 6 |
| `REM` | passes (42 000 states) | 12 configurations: sequences, keys before and after, delayed actions, overlaid and holding keys, double presses, virtual keys, buttons, filters | counts accounted for, no stuck key or repetition, typing order, nothing left of an overlaid key, refinement of `OverlaidKeys` |
| `REM_caps` | `CapsLockFollowsHardware` violated | a holding key and CapsLock | section 6 |
| `SES` | passes (369 000 states) | 2 users, a keyboard and a mouse, 16 scenarios of events from outside | originals kept, hooked devices wanted, settled servers in sync, refinement of `Ownership`, `Handover` |
| `SES_progress` | `MissingActionsInProgress` violated | as `SES` | section 6 |

Properties of `EventInputQueue`: `TypeOK`, `TimersArmed`, `BlockedWhilePressing`,
`KeyOrder`, `Conservation`, `Settled`, `VirtualKeysSettled`, the action properties
`ResetOnlyWhenReleased` and `ResetWhenReleased`, and the liveness property
`EventuallyHandled`. Properties of `EventOutputQueue`: `TypeOK`, `TimerArmed`,
`FlagsInStep`, `KeysInStep`, `RepeatWhileHeld`, `WaitKept`. Properties of `Remapper`:
`TypeOK`, `CountsAccounted`, `KeysHaveCause`, `PeriodsSettled`, `PrepareWalk`, the action
property `DelayedKeysFirst`, `PeriodsRefined`. Properties of `Session`: `TypeOK`,
`OriginalKept`, `HookedAreWanted`, `SettledInSync`, `OwnershipRefined` and the liveness property
`Handover`. Each is explained where it is defined.

### Bounds

- `MaxEvents`, `MaxPlugs`, `MaxToggles` bound a behaviour of `EventInputQueue`. The
  shortest story about blocking needs four events (press the blocking key, press
  and release another, release); eight allow the same keys to go through two such
  rounds. A virtual key needs four events too; the other three let the second
  item, the button or a motion interfere (a pointing report may take two). One
  unplugging is enough for every combination of a dead pointer with a queued or
  blocked event. `fired` only grows, so the bound on events is also what keeps the
  state space finite. The four passing instances were also simulated at random with 14
  to 16 events, four unpluggings and four configuration changes, without a violation:
  they do not hold just because the bound is reached first. What does fail, with the
  filter and blocking combined or with chords on two keyboards, is in section 6.
- `EventOutputQueue` has no bound on the number of requests: its runs cover
  behaviours of any length. `MaxQueue` bounds the events waiting when a request is
  made, the queue itself grows to that plus what one request pushes (at most seven events in
  `EOQ_keys`). Two modifiers that are held both or not at all make every change
  a run of two modifier events, which is what order can go wrong in;
  `MAX_KEYBOARDREPEATID` is small so that the ids wrap around at once. Random simulation with
  `MaxQueue` 8, all four sets of flags and ids up to 3 found no violation either.
- The waits 4, 3 and 2 ms differ from each other and from the least delay of 1 ms, so
  that a confusion of two of them is seen.
- `Remapper` has no bound on the number of events either. `MaxActive` bounds how often keys
  are pressed while one item stays in `ActiveItems`, which only grows while keys overlap;
  3 is one more than the presses that the functions tell apart (first, second, more). A
  configuration has 3 to 5 keys and 1 to 5 items, each chosen so that its items share keys
  or modifiers.
- In `SES` a vector of one class is taken and one of two is refused (`MaxConfigCount` 1);
  `MaxRetry` is 1 (120 in the code), so that giving up is as near as success; `MaxVersion` 2
  allows one upgrade. Each scenario is a budget of two to four events from outside, of kinds that
  interfere: two user switches and a crash, an upgrade with an unload and a crash, a key that
  switches a class during a reload, and so on. `take` bounds how often an event comes into the empty
  pipeline; one such event may be remapped, locked and drained before or after any step of the others.
  Polling, retrying, queued blocks and calls are not bounded.
- The runs of `EventInputQueue` and `EventOutputQueue` set `CHECK_DEADLOCK FALSE`: when
  nobody types, nothing happens. `REM` and `SES` check for deadlock.
- No symmetry reduction is used.

### Fairness

`FairSpec` assumes weak fairness of the steps of a handler that holds the lock
(it runs to its end and waits for nothing) and of the two timer callbacks (the work
loop calls a timer that stays active). Nothing is assumed of the hardware, the
devices or the configuration. `EventuallyHandled` needs the second assumption for
both timers: an event in `blockedQueue_` may have nothing but the timeout to free it.

`Session!Spec` assumes weak fairness of a server's two periodic timers (`Poll`, `Retry`), of its
main thread (`BlockStep`, `CallStep`: a run loop that runs what is queued, a call that
returns), and of the start of a process that relaunches itself. Nothing is assumed of users,
upgrades, devices, crashes, or of the start of a server that was quit. `Handover` needs all of
them: the user at the console may be waiting for the other server's poll to close its connection.

## 4. Proofs

### EventInputQueue

For all constants that satisfy `ConstantsAssumption`, which only says what kind of
object each constant is (keyboards and pointing devices are disjoint, the bits of a report are
different buttons, the two keys of an item differ, ...):

- `TypeCorrect`: `Spec => []TypeOK`. `TypeOK` is inductive;
  it includes that a handler in progress has valid local variables, without which the
  button loop could index outside of `Buttons`. The proof goes part by part (devices,
  counts, queue, timers, blocking, ...), one step per action. Below it are lemmas about
  the queue operations (`RemoveAt`, `InsertAt`, `\o`, the marking of replayed events), and
  about the results of `SimultaneousKeyPresses`: `ApplyDown` and `ApplyUp` use `CHOOSE` to
  find the scanned positions and the oldest active entry, so the lemmas show that a
  non-empty set of numbers in question has a least and a greatest member, and that the
  two positions removed are different and inside the queue.
- `TimersArmedTheorem`: `Spec => []TimersArmed`. Inductive as it
  stands, from the fact that every handler that leaves events in `queue_` ends in
  `setTimer`, that handlers which do not are never interrupted (`pc`), and that
  `blockedQueue_` and its timer change together. It needs no type information.
- `BlockedWhilePressingTheorem`: `Spec => []BlockedWhilePressing`.
  An event is blocked only if some press that is not ignored is a blocking key *now*, or is
  itself one; both paths that ignore all presses also empty `blockedQueue_`, and a release
  that leaves no such press does not block. The configuration may change at any moment.
- `ConservationTheorem`: `Spec => []Conservation`. `Conservation` is stated of lists of ids;
  the proof uses the equivalent `Accounts`, which says of `fired`, `blockedQueue_`, `queue_`
  and `removed` one by one that they are disjoint and without doubles, and together make up
  the events accepted. Every step moves ids between two of the four (`AccountsPush`,
  `AccountsTake`, `AccountsFire`, `AccountsBlock`, `AccountsReplay`). `Takes(q, t, M)` is what the
  bouncing filter and `SimultaneousKeyPresses` may do: `t` is `q` without the ids `M`.
- `KeyOrderFixedConfig` and `KeyOrderPlainInput`: `Spec => []KeyOrder`, each under hypotheses
  without which it is false. `KeyOrder` is not inductive: a blocked event that is replayed
  goes to the front of `queue_`, and the events that overtake blocked ones must be known to be
  of other keys. `Line` says that `fired`, `blockedQueue_`, `queue_` form one line that
  is ordered per device and key, that replayed events stand in front of those of the hardware,
  and that none stands behind a blocked event, so that a replayed event is only fired
  while nothing of the hardware is blocked. A step then changes the line at its end, or takes events
  out (`Thins`), or is the release of a blocking key, which case 2 of `doBlockUntilKeyUp` puts
  behind the last blocked press of its key: in front of a release of that key which is
  blocked behind that press. `OvertakesNone` says that there is none, and the two theorems differ in
  the reason. While the configuration stays (`MaxToggles = 0`, or no blocking keys) releases of
  blocking keys are never blocked. When it changes, a release may have been
  blocked as that of an ordinary key; for plain input (no items, no bouncing filter, no
  disabled internal keyboard) the events accepted of a key of a device alternate, so a press follows
  it, and that press is blocked, too. `Alternates` is this invariant, with what is held on the
  devices and how far the loop over a report has come. `EIQ_devices` is an instance of the first
  theorem and `EIQ_block` of the second. Where both hypotheses fail TLC finds the order violated:
  a configuration change with the bouncing filter over two keyboards or with a disabled
  internal keyboard, or raw copies of keys on two keyboards.
- `SettledHolds`, `ResetOnlyWhenReleasedHolds` and `ResetWhenReleasedHolds`: `Spec => []Settled`,
  `Spec => ResetOnlyWhenReleased` and `Spec => ResetWhenReleased`, for any keyboards, mice, blocking
  keys, unplugging, timeouts and configuration changes, but without items and without the bouncing
  filter. `Settled` is about an empty pipeline, so the invariant `Follows` says how hardware, counts and
  remapper are linked while it is not empty. The link is `Pressed(S, p, k)`: the newest event, by id, that the set
  `S` holds of key `k` since the device `p` was connected is a press. With all events accepted it
  is what the hardware holds (`HeldPressed`); with those handed on it is what the remapper
  believes (`InternalPressed`); and a key none of whose events is in `queue_` is counted as long as its newest
  event, blocked or handed on, is a press (`Counts`). A blocked event needs the last form: it is counted already and goes
  back to `queue_`, where the key is not spoken of until it comes to the front again. That
  the newest event of a key is the last one handed on is `KeyOrder`, so the invariants of the first three theorems
  on the order are used, and with them their hypothesis (`~disable_internal_keyboard \/ MaxToggles = 0 \/
  BlockKeys = {}`). A reset empties the remapper's keys while nothing is counted, so that
  nothing is pressed there. Without the hypotheses the properties are false: with the bouncing
  filter (`EIQ_chatter`), with multiple same keys for `ResetWhenReleased` (section 6), and with a
  disabled internal keyboard, whose releases are dropped while its counts stay.

### EventOutputQueue

For all constants that satisfy `OutputAssumption`: any keys, consumer keys and macros (disjoint, since
they name what is held), modifiers, buttons, flags requested and delays, and one optional
`DropKeyAfterRemap` item. `MaxQueue` may be any number.

- `TypeCorrect`, `NoLostTimer` (`TimerArmed`), `ModifiersInStep` (`FlagsInStep`), `NothingStuck`
  (`KeysInStep`) and `NoRunaway` (`RepeatWhileHeld`) follow from one invariant `IInv`. Three of the
  properties are not inductive. What the receiver has after the queue is delivered is in step
  with what Karabiner believes (`InStep`), but a request pushes several events, so each `Fire*` is
  shown to lead from one such state to the next (`Leads(o, p, D, E)`: with `D` held before
  and `E` after, whatever the receiver is), and requests are compositions of these
  (`LeadsOn`). `RepeatWhileHeld` needs to know what is being repeated (`RepeatsHeld`): the
  source is a held key whose only item is that key, or a held macro whose
  `keyboardRepeatID_` is the id of the repetition; only then the release of the source cancels it.
- A canceled event is left out of the queue, which is `Subsequence` in the model: the positions
  kept, in their order, defined by counting. Its lemmas (first element, append,
  what is left when the head goes) are proved by induction in the form of a least counterexample: a
  non-empty set of naturals has a smallest member.
- `WaitsKept`: `Drop.key = NoKey => Spec => []WaitKept`, written with `ASSUME`. Its invariant
  `WaitInv` says what `previousButtons_` means: the receiver's buttons, or, once the callback has
  looked at the next event, those that event brings; then the timer was set for it.
  With a `DropKeyAfterRemap` item and more than one event waiting the property is false: the item may cancel, between the
  setting of the timer and its expiry, the event the wait was for.

### Remapper

For all constants that satisfy `ConfigurationsAssumption` and `KeysAssumption`: any configurations of
items built from any tokens, any finite sets of keys on any devices, any filters and classes, and any
`MaxActive`. The first says that a configuration is a list of items of the types
modelled, each with a list of tokens; the second that a key is a key code, a modifier or a button.

- `TypesKept`: `Spec => []TypeOK`. Its invariant `TypeInv` says of the kext that it is `Sound`: a world
  (`IsWorld`) with the types of all fields, whose timers have targets that exist, and whose list for
  `prepare` has only entries of functions that have a `prepare`. It holds in every state the handlers pass
  through, not only between steps.
- `CountsKept`: `Spec => [](Sole(conf) => CountsAccounted)`. `FlagStatus` and `ButtonStatus` are changed
  at many places of `KeyToKey`, `DependingPressingPeriodKeyToKey` and `Core`; the theorem says that
  each change is undone. The proof reads the counts as a balance: `SameExcess(w, v)` says that from `w`
  to `v` each count changed exactly as much as what the pressed functions add and withhold. Every
  function is shown to keep it (`Goes` for what only sends; `Turned`, `Turns` for a press or release, which
  changes the count and the number of presses together; `Works`, `Ticks` for the periods, which take
  modifiers away and give them back), then each action: the timers, refreshes and settings count nothing
  (`Quiet`), an event is counted once (`Feeds`), by `FlagStatus::set` or by the function that takes it but not
  by both, and a reset (`Resets`) takes everything to zero. `Follows` is the invariant: what is left over is the
  keys that are held.
- `NothingLeftBehind`: `Spec => [](Sole(conf) => PeriodsSettled)`. A reset (`resetInternalStateIfNeeded`)
  empties `ActiveItems` and the counters but not the static timer nor the state of the periods, so the theorem is
  that there is nothing to empty. Two invariants: `Tidy`, an item that waits, is in a period, took its
  modifiers or is on the list of `prepare` is pressed, and a running timer is that of an item that
  waits; `Balanced`, an item is pressed no more often than keys are held that could have pressed it,
  and while it is pressed its class stays loaded, whatever is switched off. `CountsKept` needs them,
  too: a reset while an item had taken its modifiers would leave them taken.
- `WalkKept`: `Spec => []PrepareWalk`. `RemapClassManager::prepare` walks along a list of which the entries it calls
  take entries off, and keeps a pointer to the next one. Only one call can hurt: `prepare` of an item that
  waits sends its short press, and a press takes the `KeyToKey` of the short part off the
  list; were that the stored entry, the walk would go on from freed memory. So `WalkInv` says `Unarmed`: the short press
  of an item that waits is not on the list. It is put there by the release that
  ends the waiting or by a scroll that interrupts it; the press that starts the next waiting comes after a `prepare`, and this
  called every entry and took every `KeyToKey` off (`Clear`). Each entry is called once, because `prepare` never calls
  an entry that is gone and nothing is listed twice (`Single`). `Touches(w, v, T)` tells for every
  remap function which entries may change: its own; for a press of an overlaid key all of its
  parts but the short one. For `KeyDownUpToKey` one must know that its parts have no delayed action, whatever its tokens are:
  `DownUpPlain`, by the fold over them.

`Sole(conf)` says that the key of an overlaid or holding key is the key of no other item and is not
CapsLock. Both are needed. With two items of one key that differ in their device filters, a
release may be taken by an item that did not take the press, and the other one stays pressed when everything is
reset. CapsLock does not count as a key that is held, so a reset may come while it is. All
configurations of `REM` satisfy it.

Two things made these proofs possible, although they are about folds over the keys of an item and the items of a
configuration. A fold of the community modules is a recursive function on sets of positions, which exists because the sets
are finite; `FoldProofs` shows this once by a least counterexample, for any body and any relation that
each step of the body keeps, and is instantiated for each loop. And the sums of `CountsAccounted`
are over all functions of a configuration: when one of them changes by `n`, so does the sum.

### Session

For all constants that satisfy `DevicesAssumption`, `SessionAssumption`, `VectorsAssumption` and
`ScenariosAssumption`: any number of users, devices, vectors, settings, retries, versions and scenarios.
Vectors name each class once (`src/src/lib/xml_compiler/src/xml_compiler+remapclasses_initialize_vector.cpp:55`
refuses a class that was added before) and no class has the name of an essential
setting; a vector of any length is possible, since `MaxConfigCount` is any natural number.

- `OriginalKeptHolds`, `HookedAreWantedHolds` and `OwnershipRefinedHolds`:
  `Spec => []OriginalKept`, `Spec => []HookedAreWanted`, `Spec => OwnershipRefined`. None is
  inductive alone. The invariant `IInv` adds that hooked devices are listed (or the
  refresh of a release would pass them over), that an extension without an owner is switched off
  and notifies nobody, and that one that is not loaded has no owner and no event that waits. The
  proof has three layers: lemmas on one item (`replaceEventAction`, `restoreEventAction`, `refresh`)
  and on lists; lemmas on the calls, which say what becomes of owner, `initialized` and
  traces; and one step per action, which sorts every action into one of seven kinds
  (`Configured`, `Switched`, `Taken`, `Used`, `Drained`, `Acquired`, `Released`). `OwnershipStep` shows that each kind is a
  step of `Ownership` or a stutter. The servers' state plays no role for these three: they hold
  whatever the servers send, and in whatever order.
- `SettledInSyncHolds` and `TypeCorrect`: `Spec => []SettledInSync`,
  `Spec => []TypeOK`. The first is about a server with nothing left to do, so that the
  invariant must say what is left to do in all other states. `SyncInv` does: for each of the
  things the extension has (vector, settings, `initialized`, workspace, each class that is on) it is
  what its owner has, or the call that makes it so is in the block that is running (`todo`), or
  the block that makes this call is in the owner's queue. With it goes the shape of `todo`: a
  vector is the first call of its block and settings and `initialized` follow, so that the
  classes a settings call meets are those of the same compilation; a connection that exists is not opened again; a
  server that is running has looked up its workspace or will (`TodoOK`, `ServerOK`). The proof has
  lemmas on queues of blocks and calls, one on each kind of call, one on each kind of block
  and one step per action. `TypeOK` follows with the types of what surrounds the servers.

### Only model-checked

- `EventuallyHandled` and `Handover`: liveness under fairness is out of the prover's reach.
- `VirtualKeysSettled` of `EventInputQueue`, and `Settled`, `ResetOnlyWhenReleased` and
  `ResetWhenReleased` with items or with the bouncing filter: they hold for the instances of
  the runs and fail for others (section 6): two chords of one item, two keyboards
  with the same key. A theorem would need hypotheses on which keys are pressed together.
- `KeysHaveCause`, `DelayedKeysFirst` and `PeriodsRefined` of `Remapper`: they are about what is at the output, in
  which order it came there and by which of the keys of an item. The contracts above say what the
  functions count, not which code each one sends.
- `PeriodsSettled` and `CountsAccounted` for configurations in which an overlaid key is not `Sole`.

## 5. Correspondence with the code

`PROJECT.json` maps every definition to the lines it models. Definitions keep the names of the
source: `push_KeyboardEventCallback`, `fire_timer_callback`, `blockingTimeOut_timer_callback`,
`queue_`, `blockedQueue_`, `pressingEvents_`, `FireModifiers`, `PressDownKeys*`, `CalcDelay`.

## 6. Where code and comments disagree

Runs with an expected violation:

- `EIQ_chatter`. The release of a blocking key is counted in `PressingPhysicalKeys` when it comes
  to the front (`Classes/EventInputQueue.cpp:613`) and put back by `endBlocking`. In
  `queue_` it is still a candidate for the bouncing filter, which may remove it with the next
  press of the key (line 526): the key is then held and not counted. The release of another
  key resets the internal state under it, against "Reset if all keys are released and
  EventInputQueue is empty." (line 733).
- `EOQ_wait`. `calcDelay` is asked about an event as the next one and again as the front;
  the first call stores its buttons in `previousButtons_`, so the second sees no click. "We need
  to wait before and after a pointing device click event" (`Classes/EventOutputQueue.cpp:88`)
  holds before a click only, unless the queue was empty when the click was pushed.
- `REM_caps`. A `ScopedSetter` (`Classes/FlagStatus.hpp:98`) increases and later decreases the
  modifiers; for CapsLock increasing switches the lock and decreasing does nothing. A held
  overlaid or holding key that remembers CapsLock switches it on again when it is released after the
  user switched CapsLock off: against "we need remember the status of CapsLock"
  (`Classes/FlagStatus.cpp:59`) and the test of `ScopedSetter` (`src/Tests/kext/FlagStatus/test.cpp:704`).
- `SES_progress`. `replaceEventAction` writes `inProgress_` for each of the two actions, so the
  second hides that the first is missing (`Classes/ListHookedKeyboard.cpp:151`), and only `push_back`
  and the timer itself start the timer. `Classes/ListHookedDevice.hpp:57` says such a device is
  marked and the timer runs until it is not; here it stays without a hook.

Other corners met while modelling. Of `EventInputQueue` and `EventOutputQueue`, reproducible by
changing the constants of a run:

- A blocked press is counted, replayed, and then merged by `SimultaneousKeyPresses`, which also
  takes its release out of the queue: the count stays (`Keys` `{a, b}`, `BlockKeys` `{a}`, `OneItem`,
  `MaxEvents` 4, `ResetWhenReleased`). The comment of `Classes/EventInputQueue.cpp:620` says blocking
  comes second to keep the two apart.
- A bouncing pair is matched by key code alone: two keyboards, one key,
  `ignore_bouncing_events`, `MaxEvents` 4 violate `ResetWhenReleased`.
- A press is counted before it is known whether it is blocked
  (`Classes/EventInputQueue.cpp:613`), and again when it is replayed. Normally the release removes
  all entries of its key; with `general_allow_devices_multiple_same_key` it removes one
  (`Classes/PressingPhysicalKeys.cpp:45`), and the state is not reset though nothing is held
  (`BlockKeys` `{s}`, `MaxEvents` 4, `ResetWhenReleased`).
- `BouncingIgnored` is violated with one key and `MaxEvents` 5: after a pair is removed at the
  front, the next event fires at once, without having waited for its own threshold.
- Unplugging a keyboard whose keys formed a virtual key that is attributed to another
  keyboard leaves the virtual key pressed (2 keyboards, `OneItem`, `MaxPlugs` 1,
  `ResetWhenReleased`).
- With `raw`, the copies of the two presses are attributed to the keyboard of the front
  event; pressed on two keyboards, the other's release does not match.
- Two chords of the same item at once on two keyboards are paired crosswise, since the scan does
  not look at the keyboards; the first pair released resets the state while the other keys are
  held (2 keyboards, `OneItem`, `MaxEvents` 6, `Settled`).
- A key of the internal keyboard that is still queued when an external keyboard is connected is
  pressed afterwards; its release is dropped, and the next key event of any keyboard clears it.
- After a modifier that was the last event of the output queue no wait follows
  (`Classes/EventOutputQueue.cpp:200`).
- `DropKeyAfterRemap` scans the whole queue at every expiry: with flags in its
  condition, a press behind an earlier kept release makes the next scan drop that
  release (`MaxQueue` 3).
- `NUMPAD` stays in modifier events when both the last and the new flags contain it
  (`Classes/EventOutputQueue.cpp:231`).
- A keyboard unplugged while its key repeats: the repetition goes on until the next event
  (`Core.cpp:128`). The presses of a repetition are not in `PressDownKeys`, so a key that
  was tapped by another item meanwhile is not released by the reset.
- The release of a `KeyToKey` item whose last key is a modifier does not cancel a repetition
  started meanwhile (`RemapFunc/KeyToKey.cpp:418`).

Of the remap functions:

- An overlaid key whose timer finds that the repetition was canceled is neither short nor long:
  it waits without a timer (`DependingPressingPeriodKeyToKey.cpp:512-521`; the phase `lapsed` of
  `OverlaidKeys`, which the table of the header does not have).
- The same overlaid key on two keyboards is one function with one state, moved by the presses
  and releases of both; a keyboard unplugged while such a key is held leaves its state as it
  is. Neither is in the configurations of `REM`.
- A delayed action that comes after all keys are up uses the modifiers saved at the press
  (`KeyToKey.cpp:484-512`).
- A press that a delayed action drops (`needToDrop`) is released later without having been pressed.
- `KeyDownUpToKey::prepare` leaves its entry in `ActiveItems`, and
  `needClearInterruptedToKeys_` is never reset.
- `KeyOverlaidModifier::add` does not accept `UNINTERRUPTIBLE_BY_SCROLL_WHEEL`.

Of the session:

- `callback_close` (`UserClient_kext.cpp:242-247`) and `Config::set_initialized` (`Config.cpp:66-88`) clear the
  keyboard state and stop the repetition, but leave `EventInputQueue::queue_`, `blockedQueue_`, the timers of
  delayed actions and periods and the loaded classes as they are, and nothing between `fire_timer_callback` and
  `Core::remap_*` asks `get_initialized`. A press that was queued or blocked when its server closed
  is remapped afterwards, with the classes of the former owner, and can set a lock or start a
  repetition while no device is hooked and nobody owns the extension. It lasts until the next owner's
  vector or `set_initialized`, or, when the press still waits then, comes only after that.
- Negative locks survive `set_initialized` (`Config.cpp:71`), and with it the change of the user:
  `Ownership` is about the other traces.
- `set_initialized` is sent although the vector or the settings were refused
  (`ClientForKernelspace.m:105`): the extension then runs without classes, as `InSync` says.
- A notification that a class was switched carries an index; after a reload in between the
  server reads another class's state under it (`ClientForKernelspace.m:36`). The server then sends
  everything again, so that both agree in the end, on the wrong setting.
- When the versions do not match twice, the exception leaves the provider open
  (`UserClient_userspace.m:96`): nobody else can connect until this server polls that its session
  is inactive.
- An `IONotification` block queued before a session became inactive still starts the retries
  of that session (`AppDelegate.m:198`); the next poll does not end them.

## 7. Not modelled

- `ScopedUnlock` around the driver's callback, the order inside start and stop,
  `TimerWrapper::initialize` and `terminate`, device identifiers and types, the LED timer.
- `DropAllKeys`, `ForceNumLockOn`, `ScrollWheelToKey` and the functions of pointing devices,
  whose state is deltas and momentum; items of `SimultaneousKeyPresses` with three and more keys.
- Virtual modifiers, locks of buttons, mouse keys, and virtual keys that only send something
  (input sources, URLs, multi-touch, `IOHIKeyboard`).
- Status messages.
- `xml_compiler`: string processing from XML to bytecode, sequential, no state between
  calls. The windows, status bar and preference pane: Cocoa user interface.
- The bridge headers, command-line tools, vendor code, test applications.

## 8. Plan

1. Theorems: `KeysHaveCause` for configurations whose items send different keys.
2. The remaining remap functions and virtual keys in `RemapFunc` and `RemapOutput`.
3. `ScopedUnlock`: deliveries of `EventOutputQueue` in two steps, with user clients and
   devices in between.
