--------------------------- MODULE MCAnchorWatch ---------------------------
(***************************************************************************)
(* Instances of AnchorWatch for TLC: a track of four points and swings     *)
(* enough to fill and wrap it.                                             *)
(***************************************************************************)
EXTENDS AnchorWatch
=============================================================================
