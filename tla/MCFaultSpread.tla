---------------------------- MODULE MCFaultSpread ----------------------------
(* Instances of FaultSpread for TLC. *)
EXTENDS FaultSpread

OneMachine == <<"press">>
TwoMachines == <<"press", "oven">>
=============================================================================
