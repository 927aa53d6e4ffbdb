------------------------------ MODULE WindowMC ------------------------------
(* A window of four units and a ring of two blocks: transfers shorter than  *)
(* a block, as long as the window, and longer than window, ring and entry.  *)
EXTENDS WrapWindow

MCLengths == {1, 4, 9, 11}
=============================================================================
