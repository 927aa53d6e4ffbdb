------------------------------ MODULE FlashMC ------------------------------
(* Three units in two sectors: a chunk may end inside the first, between    *)
(* the withheld word and the rest, or across the sectors.  One image that   *)
(* is not known stands for all that are not.                                *)
EXTENDS FlashRecords

MCSectors == <<{1, 2}, {3}>>
MCImages == {Compatible, Custom, "unknown"}
=============================================================================
