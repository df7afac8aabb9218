------------------------ MODULE MCEventOutputQueue ------------------------
(* Instances of EventOutputQueue for TLC. *)
EXTENDS EventOutputQueue, TLC

CONSTANTS a, tab, shift, command

\* Modifiers in the order of FlagStatus.
TwoModifiers == <<command, shift>>

\* No modifier is held, or both are.
NoneOrBoth == {{}, {command, shift}}

\* A KeyToKey item to a and then shift-a.
OneMacro == {<<[key |-> a, flags |-> {}], [key |-> a, flags |-> {shift}]>>}

\* __DropKeyAfterRemap__ of Tab under any modifiers.
DropTab == [key |-> tab, flags |-> {}, strict |-> FALSE]

\* No __DropKeyAfterRemap__ item.
DropNothing == [key |-> NoKey, flags |-> {}, strict |-> FALSE]
=============================================================================
