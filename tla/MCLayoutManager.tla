---------------------------- MODULE MCLayoutManager ----------------------------
(* Instances for TLC of what a server sets going on a panel: the layouts   *)
(* of LayoutManager, the readings of SubjectFeed, with a quiet path and a  *)
(* lively one, and WakeDiscovery.  They share the connect alone, so a      *)
(* behaviour is of one of them.                                            *)
EXTENDS LayoutManager, SubjectFeed, WakeDiscovery

CONSTANTS depth, switch, wind, dflt, gauges, slider, mixed, foreign

W(p, k, c) == [path |-> p, kind |-> k, checked |-> c]

(* The default's label and toggle, a layout with another path, a slider on *)
(* the toggle's path, a toggle and a slider on one path, and a layout of   *)
(* another firmware: a value on the toggle's path and an unknown widget.   *)
MCWidgets ==
  [l \in {dflt, gauges, slider, mixed, foreign} |->
     CASE l = dflt    -> <<W(depth, "Float", TRUE), W(switch, "Int", TRUE)>>
       [] l = gauges  -> <<W(wind, "Float", TRUE), W(depth, "Float", TRUE)>>
       [] l = slider  -> <<W(switch, "Float", FALSE)>>
       [] l = mixed   -> <<W(switch, "Int", TRUE), W(switch, "Float", FALSE)>>
       [] l = foreign -> <<W(switch, "Float", TRUE), W(wind, "Unbuildable", FALSE)>>]

VARIABLE part

netVars == <<part, vars, feedVars, wakeVars>>

NetInit ==
  /\ part \in {"layout", "feed", "wake"}
  /\ Init /\ FeedInit /\ WakeInit
  /\ part # "layout" => store = None

NetNext ==
  /\ UNCHANGED part
  /\ \/ part = "layout" /\ Next /\ UNCHANGED <<feedVars, wakeVars>>
     \/ part = "feed" /\ FeedNext /\ UNCHANGED <<vars, wakeVars>>
     \/ part = "wake" /\ WakeNext /\ UNCHANGED <<vars, feedVars>>

(* A part that a behaviour is not of has nothing to be fair about. *)
NetSpec ==
  /\ NetInit /\ [][NetNext]_netVars
  /\ part = "feed" => FeedFairness
  /\ part = "wake" => WakeFairness

(* In every state of the stream and of wake discovery the types are right, *)
(* the subjects at rest, and the wake host a server that has answered.     *)
NetInv == FeedInv /\ WakeInv
==============================================================================
