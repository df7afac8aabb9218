----------------------------- MODULE MCSession -----------------------------
(***************************************************************************)
(* Small instances of Session.                                             *)
(***************************************************************************)
EXTENDS Session

MCVectors     == {<<"a">>, <<"b">>, <<"a", "b">>}
MCInitial     == <<"a">>
MCActionCount == [d \in Devices |-> 2]
MCConfigLists == {{}, {"a", "x"}}
MCExcluded    == [e \in Essential |-> Devices]

\* Every kind of event, around the moves that it interferes with.
Scenario(f) == [k \in Kinds |-> IF k \in DOMAIN f THEN f[k] ELSE 0]

MCScenarios ==
    {Scenario([switch |-> 2, end |-> 1]),
     Scenario([switch |-> 1, end |-> 1, take |-> 2]),
     Scenario([switch |-> 1, unload |-> 1]),
     Scenario([unload |-> 1, take |-> 2]),
     Scenario([switch |-> 1, toggle |-> 1, reload |-> 1, take |-> 1]),
     Scenario([switch |-> 1, focus |-> 1, reload |-> 1]),
     Scenario([switch |-> 1, upgrade |-> 1, end |-> 1]),
     Scenario([upgrade |-> 1, unload |-> 1, end |-> 1]),
     Scenario([switch |-> 1, select |-> 1]),
     Scenario([select |-> 1, plug |-> 1]),
     Scenario([switch |-> 1, overwrite |-> 1, set |-> 1]),
     Scenario([wake |-> 1, focus |-> 1]),
     Scenario([toggle |-> 1, wake |-> 1, select |-> 1, take |-> 1]),
     Scenario([reload |-> 1, set |-> 1]),
     Scenario([plug |-> 2, unplug |-> 1, overwrite |-> 1, take |-> 1]),
     Scenario([plug |-> 1, unplug |-> 1, unload |-> 1])}
=============================================================================
