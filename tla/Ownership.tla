----------------------------- MODULE Ownership -----------------------------
(***************************************************************************)
(* What UserClient_kext promises to the users of one computer: at most one *)
(* of them owns the kernel extension at a time, no event is taken unless   *)
(* the owner has asked for it, and with the owner goes, in the same step,  *)
(* everything that was done to the devices and to the keyboard state.      *)
(* The events that were taken before and still wait in a queue or for a    *)
(* timer do not go with him: they are remapped later, whoever is the owner *)
(* then, if anybody.  What they leave lasts until remapping is switched    *)
(* the next time.  Session implements this, with Session!OwnershipRefined. *)
(***************************************************************************)
CONSTANTS Users, Nobody, Things, Traces

VARIABLES
    owner,         \* who has opened the kernel extension
    initialized,   \* remapping is on
    hooked,        \* the things whose events are taken
    waiting,       \* events have been taken that are not remapped yet
    traces         \* locked modifiers, running repetitions

vars == <<owner, initialized, hooked, waiting, traces>>

Init == owner = Nobody /\ initialized = FALSE /\ hooked = {} /\ waiting = FALSE /\ traces = {}

Acquire(u) ==
    /\ owner = Nobody
    /\ owner' = u
    /\ UNCHANGED <<initialized, hooked, waiting, traces>>

\* Remapping is switched on or off, from a clean state.
Switch ==
    /\ owner # Nobody
    /\ initialized' \in BOOLEAN
    /\ hooked' \in IF initialized' THEN SUBSET Things ELSE {{}}
    /\ traces' = {}
    /\ UNCHANGED <<owner, waiting>>

\* Devices come and go, the owner changes the configuration.
Hook ==
    /\ initialized
    /\ hooked' \in SUBSET Things
    /\ UNCHANGED <<owner, initialized, waiting, traces>>

\* The hooked devices are used.
Take ==
    /\ hooked # {}
    /\ waiting' = TRUE
    /\ UNCHANGED <<owner, initialized, hooked, traces>>

\* What was taken is remapped.
Use ==
    /\ waiting
    /\ traces' \in SUBSET Traces
    /\ UNCHANGED <<owner, initialized, hooked, waiting>>

Drain ==
    /\ waiting
    /\ waiting' = FALSE
    /\ UNCHANGED <<owner, initialized, hooked, traces>>

Release ==
    /\ owner # Nobody
    /\ owner' = Nobody /\ initialized' = FALSE /\ hooked' = {} /\ traces' = {}
    /\ waiting' \in {waiting, FALSE}

\* The kernel extension is unloaded, by whom nobody owns.
Clear ==
    /\ owner = Nobody
    /\ traces' = {} /\ waiting' = FALSE
    /\ UNCHANGED <<owner, initialized, hooked>>

Next == Switch \/ Hook \/ Take \/ Use \/ Drain \/ Release \/ Clear \/ \E u \in Users : Acquire(u)

Spec == Init /\ [][Next]_vars
=============================================================================
