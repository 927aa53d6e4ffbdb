----------------------------- MODULE MechanismMC -----------------------------
(* A small clock: 20 ticks a turn, drives of 3 ticks, one tick of slack.   *)
EXTENDS Mechanism
=============================================================================
