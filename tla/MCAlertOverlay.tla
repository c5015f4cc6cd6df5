---------------------------- MODULE MCAlertOverlay ----------------------------
(* Instances of AlertOverlay for TLC. *)
EXTENDS AlertOverlay, TLC

Symmetry == Permutations(Path)
==============================================================================
