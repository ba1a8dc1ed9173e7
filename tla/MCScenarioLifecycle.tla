------------------------- MODULE MCScenarioLifecycle -------------------------
(* Instances of ScenarioLifecycle for TLC. *)
EXTENDS ScenarioLifecycle, TLC

CONSTANTS s1, s2, d1, d2, pump, line

AllConfigs == {pump, line}
MembersOfAll == (pump :> {d1}) @@ (line :> {d1, d2})

Interchangeable == Permutations({s1, s2})
=============================================================================
