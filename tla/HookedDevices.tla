--------------------------- MODULE HookedDevices ---------------------------
(***************************************************************************)
(* ListHookedDevice with ListHookedKeyboard, ListHookedConsumer and        *)
(* ListHookedPointing: Karabiner receives the events of a device by        *)
(* putting its own callback into the device's event actions, and keeps     *)
(* what was there to call it, and to put it back.  A keyboard and a        *)
(* pointing device have two actions, a consumer device has one.  Right     *)
(* after a device was connected they may be null; the driver sets them a   *)
(* little later, and another driver (Logitech's) may overwrite them at any *)
(* time.  A matched keyboard is pushed to the keyboard and to the consumer *)
(* list, and the name of the device decides which of its two items ever    *)
(* replaces anything: there is one item per device here.  Which devices    *)
(* are wanted is a matter of the configuration (see Session!Wanted).       *)
(***************************************************************************)
EXTENDS Naturals, FiniteSetsExt

CONSTANTS
    Devices,
    Keyboards,   \* the devices in the lists of keyboards and consumers; others point
    ActionCount  \* how many actions a device has

ASSUME DevicesAssumption ==
    Keyboards \subseteq Devices /\ ActionCount \in [Devices -> {1, 2}]

VARIABLES
    dev,            \* the devices with their items
    progressTimer   \* refreshInProgressDevices_timer_ is running

\* What an event action is: null, the driver's, another driver's, Karabiner's.
EventAction == {"null", "driver", "other", "hook"}

Item(d) == [plugged : BOOLEAN, listed : BOOLEAN, inProgress : BOOLEAN,
            action : [1..ActionCount[d] -> EventAction],
            orig : [1..ActionCount[d] -> EventAction]]

NoActions(d) == [i \in 1..ActionCount[d] |-> "null"]

Unplugged(d) == [plugged |-> FALSE, listed |-> FALSE, inProgress |-> FALSE,
                 action |-> NoActions(d), orig |-> NoActions(d)]

\* A device that has just been connected, with the actions a.
Plugged(d, listed, a) == [plugged |-> TRUE, listed |-> listed, inProgress |-> FALSE,
                          action |-> a, orig |-> NoActions(d)]

-----------------------------------------------------------------------------
(* Item *)

\* Karabiner's callback is put in the place of the actions S.  Every action
\* that is not Karabiner's yet writes inProgress_, the last of them decides.
ReplaceActions(x, S) ==
    LET missing == {i \in DOMAIN x.action : x.action[i] # "hook"}
    IN  [x EXCEPT !.action = [i \in DOMAIN @ |-> IF i \in S THEN "hook" ELSE @[i]],
                  !.orig = [i \in DOMAIN @ |-> IF i \in S THEN x.action[i] ELSE @[i]],
                  !.inProgress = IF missing = {} THEN @ ELSE x.action[Max(missing)] = "null"]

\* Mutant: Karabiner's own callback is replaced, too.
ReplaceAgain(x) == ReplaceActions(x, {i \in DOMAIN x.action : x.action[i] # "null"})

\* replaceEventAction: the actions that are set, and not to Karabiner's.
ReplaceEventAction(x) ==
    ReplaceActions(x, {i \in DOMAIN x.action : x.action[i] \notin {"null", "hook"}})

\* restoreEventAction leaves alone what another driver has put there.
RestoreEventAction(x) ==
    [x EXCEPT !.action = [i \in DOMAIN @ |-> IF @[i] = "hook" THEN x.orig[i] ELSE @[i]],
              !.orig = [i \in DOMAIN @ |-> "null"]]

\* Item::refresh
RefreshItem(x, wanted) ==
    CASE ~x.listed -> x
      [] x.listed /\ wanted -> ReplaceEventAction(x)
      [] x.listed /\ ~wanted -> RestoreEventAction(x)

-----------------------------------------------------------------------------
(* The lists *)

\* The devices whose lists are refreshed when the list of d is.
SameList(d) == IF d \in Keyboards THEN Keyboards ELSE Devices \ Keyboards

\* refresh of the lists that hold the devices S
Refresh(ds, S, wanted) ==
    [d \in Devices |-> IF d \in S THEN RefreshItem(ds[d], d \in wanted) ELSE ds[d]]

\* refreshAll
RefreshAll(wanted) == dev' = Refresh(dev, Devices, wanted) /\ UNCHANGED progressTimer

RefreshNone == UNCHANGED <<dev, progressTimer>>

\* isInProgress
InProgress(ds) == {d \in Devices : ds[d].listed /\ ds[d].inProgress}

\* A device is connected: its actions may be missing still.  Without the
\* kernel extension nothing takes note of it (Core's matched callbacks).
PushBack(d, loaded, wanted) ==
    /\ ~dev[d].plugged
    /\ \E a \in [1..ActionCount[d] -> {"null", "driver"}] :
          LET ds == [dev EXCEPT ![d] = Plugged(d, loaded, a)]
          IN  IF loaded
              THEN dev' = Refresh(ds, SameList(d), wanted) /\ progressTimer' = TRUE
              ELSE dev' = ds /\ UNCHANGED progressTimer

\* A device is disconnected: its item is deleted, the others are refreshed.
Erase(d, loaded, wanted) ==
    /\ dev[d].plugged
    /\ dev' = IF loaded
              THEN Refresh([dev EXCEPT ![d] = Unplugged(d)], SameList(d), wanted)
              ELSE [dev EXCEPT ![d] = Unplugged(d)]
    /\ UNCHANGED progressTimer

\* refreshInProgressDevices_timer_callback
RefreshInProgressDevices(wanted) ==
    /\ progressTimer
    /\ dev' = Refresh(dev, UNION {SameList(d) : d \in InProgress(dev)}, wanted)
    /\ progressTimer' = (InProgress(dev') # {})

\* The driver of a device sets an action that was missing.
SetAction(d, i) ==
    /\ dev[d].plugged /\ dev[d].action[i] = "null"
    /\ dev' = [dev EXCEPT ![d].action[i] = "driver"]
    /\ UNCHANGED progressTimer

\* Another driver puts its callback in the place of Karabiner's.
OverwriteAction(d, i) ==
    /\ dev[d].plugged /\ dev[d].action[i] = "hook"
    /\ dev' = [dev EXCEPT ![d].action[i] = "other"]
    /\ UNCHANGED progressTimer

\* Core::start and the matching notifications: all devices are pushed.
InitializeAll(wanted) ==
    /\ dev' = Refresh([d \in Devices |-> [dev[d] EXCEPT !.listed = dev[d].plugged]], Devices, wanted)
    /\ progressTimer' = \E d \in Devices : dev[d].plugged

\* terminateAll: every item is deleted, and restores its device.
TerminateAll ==
    /\ dev' = [d \in Devices |-> [RestoreEventAction(dev[d]) EXCEPT !.listed = FALSE,
                                                                      !.inProgress = FALSE]]
    /\ progressTimer' = FALSE

\* The devices that Karabiner receives events from.
Hooked == {d \in Devices : \E i \in 1..ActionCount[d] : dev[d].action[i] = "hook"}

-----------------------------------------------------------------------------
(* Properties *)

\* Where Karabiner's callback is installed the action that was there before
\* is known, and is not Karabiner's own: every event that is passed on goes
\* to it, and a device that is restored without it is dead (or its events
\* come back for ever).  This is kept while other drivers overwrite actions
\* and while the lists are refreshed again and again.
OriginalKept ==
    \A d \in Devices : \A i \in 1..ActionCount[d] :
        dev[d].action[i] = "hook" => dev[d].orig[i] \in {"driver", "other"}
=============================================================================
