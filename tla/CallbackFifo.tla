---------------------------- MODULE CallbackFifo ----------------------------
(***************************************************************************)
(* What the ATA callback queue promises: callbacks are served once each,   *)
(* in the order in which they were queued, or discarded by a reset, which  *)
(* may leave its own error callback behind.  A reset may also lose the     *)
(* place of the server; nothing is promised then until the next one.       *)
(***************************************************************************)
EXTENDS Sequences

VARIABLES fifo, lost

vars == <<fifo, lost>>

Kinds == {"command", "error", "none"}

Init == fifo = <<>> /\ lost = FALSE

Enqueue == ~lost /\ (\E k \in Kinds : fifo' = Append(fifo, k)) /\ lost' = lost
Serve   == ~lost /\ fifo # <<>> /\ fifo' = Tail(fifo) /\ lost' = lost
Flush   == fifo' \in {<<>>, <<"error">>} /\ lost' = FALSE
Lose    == fifo' = <<>> /\ lost' = TRUE

Next == Enqueue \/ Serve \/ Flush \/ Lose

Safe == Init /\ [][Next]_vars
Spec == Safe /\ WF_vars(Serve)

=============================================================================
