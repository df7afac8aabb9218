---------------------------- MODULE OverlaidKeys ----------------------------
(***************************************************************************)
(* What DependingPressingPeriodKeyToKey promises, the table at the head of *)
(* DependingPressingPeriodKeyToKey.hpp as a specification: a key that is   *)
(* held waits (1), is long (2) and then perhaps very long (3); another     *)
(* press ends the wait with the short keys and makes (4) impossible.       *)
(* Remapper implements it, with Remapper!PeriodsRefined.  One thing is     *)
(* from the code and not from the table: a key is lapsed when its timer    *)
(* finds that the repetition was canceled.  It then waits without a timer. *)
(***************************************************************************)
CONSTANT OverlaidKey

VARIABLES
    phase,   \* where each key is in the table
    timer,   \* the keys that the one timer is running for, at most one
    sent     \* the parts of each key that are pressed at the output

Phases == {"up", "waiting", "short", "long", "used", "longlong", "lapsed"}

Pressed(p) ==
    CASE p = "short" -> {"SHORT"}
      [] p \in {"long", "used"} -> {"LONG"}
      [] p = "longlong" -> {"LONG_LONG"}
      [] p \in {"up", "waiting", "lapsed"} -> {}

Interrupted(p) ==
    CASE p \in {"waiting", "lapsed"} -> "short"
      [] p = "long" -> "used"
      [] OTHER -> p

\* The keys of S become what Do makes of them.
Become(S, Do(_)) ==
    /\ phase' = [k \in OverlaidKey |-> IF k \in S THEN Do(phase[k]) ELSE phase[k]]
    /\ sent' = [k \in OverlaidKey |-> Pressed(phase'[k])]

Init ==
    /\ phase = [k \in OverlaidKey |-> "up"]
    /\ timer = {}
    /\ sent = [k \in OverlaidKey |-> {}]

\* A key is pressed, with or without an initial wait; all others are interrupted.
Press(k) ==
    /\ phase[k] = "up"
    /\ \E p \in {"waiting", "long"} :
          /\ phase' = [j \in OverlaidKey |-> IF j = k THEN p ELSE Interrupted(phase[j])]
          /\ timer' = {k} \/ (p = "long" /\ timer' = {})
    /\ sent' = [j \in OverlaidKey |-> Pressed(phase'[j])]

\* Some other key is pressed.
Interrupt == Become(OverlaidKey, Interrupted) /\ timer' = {}

\* The wheel is turned: keys may be uninterruptible by it.
Scroll == \E S \in SUBSET OverlaidKey : Become(S, Interrupted) /\ timer' = timer \ S

Release(k) ==
    /\ phase[k] # "up"
    /\ Become({k}, LAMBDA p : "up")
    /\ timer' = timer \ {k}

\* The timer fires.
Expire(k) ==
    /\ timer = {k}
    /\ \/ phase[k] = "waiting" /\ Become({k}, LAMBDA p : "long") /\ timer' \in {{}, {k}}
       \/ phase[k] = "long" /\ Become({k}, LAMBDA p : "longlong") /\ timer' = {}
       \/ phase[k] = "long" /\ Become({k}, LAMBDA p : "lapsed") /\ timer' = {}

Next ==
    \/ Interrupt
    \/ Scroll
    \/ \E k \in OverlaidKey : Press(k) \/ Release(k) \/ Expire(k)

Spec == Init /\ [][Next]_<<phase, timer, sent>>
=============================================================================
