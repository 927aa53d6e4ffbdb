-------------------------- MODULE MechanismContract --------------------------
(***************************************************************************)
(* What the mechanism controller promises to the rest of the firmware      *)
(* (src/include/rdx_mount/rdx_mechanism.h): motion begins on request,      *)
(* power is applied only between the start of a motion and its end, and    *)
(* one outcome is published per motion, after power has been removed.      *)
(***************************************************************************)
VARIABLES
  moving,    \* rdx_mechanism_is_active()
  powered,   \* PWM1 runs
  outcome    \* the event the last motion returned

vars == <<moving, powered, outcome>>

Init == moving = FALSE /\ powered = FALSE /\ outcome = "none"

(* A start is accepted; the last outcome is of no more interest.           *)
Accept ==
  /\ ~moving
  /\ outcome' = "none"
  /\ UNCHANGED <<moving, powered>>

Begin ==
  /\ ~moving /\ outcome = "none"
  /\ moving' = TRUE
  /\ UNCHANGED <<powered, outcome>>

ApplyPower ==
  /\ moving /\ ~powered
  /\ powered' = TRUE
  /\ UNCHANGED <<moving, outcome>>

RemovePower ==
  /\ powered
  /\ powered' = FALSE
  /\ UNCHANGED <<moving, outcome>>

End ==
  /\ moving /\ ~powered
  /\ moving' = FALSE
  /\ outcome' \in {"succeeded", "failed"}
  /\ UNCHANGED powered

Next == Accept \/ Begin \/ ApplyPower \/ RemovePower \/ End

Safe == Init /\ [][Next]_vars
Spec == Safe /\ WF_vars(RemovePower)

=============================================================================
