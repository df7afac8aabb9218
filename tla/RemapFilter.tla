----------------------------- MODULE RemapFilter -----------------------------
(***************************************************************************)
(* The filters of a remap item: conditions on the world outside the item   *)
(* under which its key presses are left alone.  A filter is a record       *)
(* [type, isnot, targets]; isnot tells the _NOT types from the _ONLY ones, *)
(* and for the types that compare with a number _LESSTHAN from             *)
(* _GREATERTHAN.  The world is a record [fs, enabled, workspace, device,   *)
(* pressing, lastPressed, lastReleased, lastSent, elapsed].                *)
(***************************************************************************)
EXTENDS FlagStatus

\* No key was pressed, released or sent yet.
NoEvent == [code |-> [t |-> "none", v |-> "none"], type |-> "NONE"]

\* The filters on CommonData's workspace: front application, window name,
\* input source and role of the focused element, each by its id.
ApplicationMatches(f, env)   == f.type = "APPLICATION" /\ f.targets \cap env.workspace # {}
WindowNameMatches(f, env)    == f.type = "WINDOWNAME" /\ f.targets \cap env.workspace # {}
InputSourceMatches(f, env)   == f.type = "INPUTSOURCE" /\ f.targets \cap env.workspace # {}
UIElementRoleMatches(f, env) == f.type = "UIELEMENTROLE" /\ f.targets \cap env.workspace # {}

\* ConfigFilter: one of the items is enabled.
ConfigMatches(f, env) == f.type = "CONFIG" /\ f.targets \cap env.enabled # {}

\* DeviceFilter: the event comes from one of the devices.
DeviceMatches(f, env) == f.type = "DEVICE" /\ env.device \in f.targets

LastPressedMatches(f, env)  == f.type = "LASTPRESSEDPHYSICALKEY" /\ env.lastPressed.code \in f.targets
LastReleasedMatches(f, env) == f.type = "LASTRELEASEDPHYSICALKEY" /\ env.lastReleased.code \in f.targets

\* ModifierFilter: one of the target lists that is not empty applies.
ModifierMatches(f, env) ==
    /\ f.type \in {"MODIFIER", "MODIFIER_LOCKED", "MODIFIER_STUCK"}
    /\ \E F \in f.targets \ {{}} :
          \/ f.type = "MODIFIER" /\ IsOn(env.fs, F)
          \/ f.type = "MODIFIER_LOCKED" /\ IsLocked(env.fs, F)
          \/ f.type = "MODIFIER_STUCK" /\ IsStuck(env.fs, F)

\* LastSentEventFilter: a target of event type NONE matches any type.
LastSentMatches(f, env) ==
    /\ f.type = "LASTSENTEVENT"
    /\ \E target \in f.targets : /\ target.code = env.lastSent.code
                                 /\ target.type \in {env.lastSent.type, "NONE"}

\* Whether one of the targets is there.
Matches(f, env) ==
    \/ ApplicationMatches(f, env) \/ WindowNameMatches(f, env)
    \/ InputSourceMatches(f, env) \/ UIElementRoleMatches(f, env)
    \/ ConfigMatches(f, env)
    \/ DeviceMatches(f, env)
    \/ ModifierMatches(f, env)
    \/ LastPressedMatches(f, env) \/ LastReleasedMatches(f, env) \/ LastSentMatches(f, env)

\* The event a filter looks back at; without one it does not block.
LooksBackAt(f, env) ==
    CASE f.type \in {"LASTPRESSEDPHYSICALKEY", "ELAPSEDTIMESINCELASTPRESSED"} -> env.lastPressed
      [] f.type \in {"LASTRELEASEDPHYSICALKEY", "ELAPSEDTIMESINCELASTRELEASED"} -> env.lastReleased
      [] f.type = "LASTSENTEVENT" -> env.lastSent

LooksBack(f) ==
    f.type \in {"LASTPRESSEDPHYSICALKEY", "LASTRELEASEDPHYSICALKEY", "LASTSENTEVENT",
                "ELAPSEDTIMESINCELASTPRESSED", "ELAPSEDTIMESINCELASTRELEASED"}

\* The filters with a number: blocked at the number itself either way.
OutOfBounds(f, current) ==
    \E n \in f.targets : IF f.isnot THEN n <= current ELSE n >= current

PressingPhysicalKeysBlocked(f, env)      == f.type = "PRESSINGPHYSICALKEYS" /\ OutOfBounds(f, env.pressing)
ElapsedSinceLastPressedBlocked(f, env)   == f.type = "ELAPSEDTIMESINCELASTPRESSED" /\ OutOfBounds(f, env.elapsed)
ElapsedSinceLastReleasedBlocked(f, env)  == f.type = "ELAPSEDTIMESINCELASTRELEASED" /\ OutOfBounds(f, env.elapsed)

\* The types that compare with a number.
HasBound(f) == f.type \in {"PRESSINGPHYSICALKEYS", "ELAPSEDTIMESINCELASTPRESSED", "ELAPSEDTIMESINCELASTRELEASED"}

\* RemapFilterBase::isblocked
IsBlocked(f, env) ==
    /\ LooksBack(f) => LooksBackAt(f, env) # NoEvent
    /\ IF HasBound(f)
       THEN \/ PressingPhysicalKeysBlocked(f, env)
            \/ ElapsedSinceLastPressedBlocked(f, env)
            \/ ElapsedSinceLastReleasedBlocked(f, env)
       ELSE Matches(f, env) = f.isnot

\* RemapFilterBase::isblocked_keyup: only the device of a release matters.
IsBlockedKeyUp(f, env) == f.type = "DEVICE" /\ IsBlocked(f, env)
=============================================================================
