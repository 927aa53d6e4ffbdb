------------------------------ MODULE PanelMC ------------------------------
(* Three entries: the two that reconnect and the one that resets.           *)
EXTENDS DockPanel
=============================================================================
