---------------------------- MODULE EjectContract ----------------------------
(***************************************************************************)
(* What the eject coordinator promises (src/include/rdx_mount/             *)
(* rdx_hardware.h, docs/reference/firmware-behavior.md): a request is      *)
(* decided once, an accepted request is counted exactly once and is then   *)
(* never cancelled, and the motor is started for accepted requests and,    *)
(* once, for homing after boot.                                            *)
(***************************************************************************)
EXTENDS Naturals

CONSTANT CountWrap   \* the load counter is modelled modulo this

VARIABLES
  phase,    \* "none", "requested", "accepted", "moving"
  count,    \* accepted requests, modulo CountWrap
  booted    \* the foreground loop has been entered

vars == <<phase, count, booted>>

Init == phase = "none" /\ count = 0 /\ booted = FALSE

Request ==
  /\ phase = "none"
  /\ phase' = "requested"
  /\ UNCHANGED <<count, booted>>

(* The only place where a request may be given up.                         *)
Drop ==
  /\ booted /\ phase = "requested"
  /\ phase' = "none"
  /\ UNCHANGED <<count, booted>>

Accept ==
  /\ booted /\ phase = "requested"
  /\ phase' = "accepted"
  /\ count' = (count + 1) % CountWrap
  /\ UNCHANGED booted

Move ==
  /\ phase = "accepted"
  /\ phase' = "moving"
  /\ UNCHANGED <<count, booted>>

Boot ==
  /\ ~booted
  /\ booted' = TRUE
  /\ phase' \in {phase, "moving"}
  /\ UNCHANGED count

Finish ==
  /\ phase = "moving"
  /\ phase' = "none"
  /\ UNCHANGED <<count, booted>>

Next == Request \/ Drop \/ Accept \/ Move \/ Boot \/ Finish

Safe == Init /\ [][Next]_vars
Spec == Safe /\ WF_vars(Drop \/ Accept)

=============================================================================
