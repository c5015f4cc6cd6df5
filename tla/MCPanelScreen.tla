----------------------------- MODULE MCPanelScreen -----------------------------
(* Instances of PanelScreen for TLC. *)
EXTENDS PanelScreen

(* Severities as notifications_registry.h numbers them: normal 1, alert 2, *)
(* alarm 4.                                                                *)
MCLevel == {1, 2, 4}
==============================================================================
