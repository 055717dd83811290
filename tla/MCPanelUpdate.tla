----------------------------- MODULE MCPanelUpdate -----------------------------
(* Two updates, two restores of the panel's store, and two faults or deaths. *)
EXTENDS PanelUpdate
=============================================================================
