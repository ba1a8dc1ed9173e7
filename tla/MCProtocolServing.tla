-------------------------- MODULE MCProtocolServing --------------------------
(* Instances of ProtocolServing for TLC. *)
EXTENDS ProtocolServing

CONSTANTS d1, d2, s1, s2
=============================================================================
