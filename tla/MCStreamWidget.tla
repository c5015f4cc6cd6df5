----------------------------- MODULE MCStreamWidget -----------------------------
(* Instances of StreamWidget for TLC. *)
EXTENDS StreamWidget, TLC

Sessions == Permutations(Session)
Symmetry == Sessions \cup Permutations(Widget)
==============================================================================
