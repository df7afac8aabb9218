------------------------- MODULE MCEventInputQueue -------------------------
(* Instances of EventInputQueue for TLC. *)
EXTENDS EventInputQueue, TLC

CONSTANTS a, b, fn, builtin, vk1, vk2, button1

\* No __SimultaneousKeyPresses__ item.
NoItems == << >>

\* a and b pressed together become the virtual key vk1.
OneItem == <<[key1 |-> a, key2 |-> b, vk |-> vk1, strict |-> FALSE, raw |-> FALSE]>>

\* Two items that share b, one with a pointing button.
TwoItems == <<[key1 |-> a, key2 |-> b, vk |-> vk1, strict |-> FALSE, raw |-> FALSE],
              [key1 |-> b, key2 |-> button1, vk |-> vk2, strict |-> TRUE, raw |-> FALSE]>>

\* No pointing button, one pointing button.
NoButtons == << >>
OneButton == <<button1>>

\* The internal keyboard's fn is dropped by a device hack.
FnIgnored == {<<builtin, fn>>}
=============================================================================
