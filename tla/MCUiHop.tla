-------------------------------- MODULE MCUiHop --------------------------------
(* Instances for TLC of what the UI task does for others: UiHop's lambdas, *)
(* and the timers of UiTimers.  A round of the task drains its queue and   *)
(* then runs its timers, under one lock, and neither touches what the      *)
(* other keeps: a behaviour is of one of them.                             *)
EXTENDS UiHop, UiTimers

VARIABLE part

uiVars == <<part, vars, timerVars>>

UiInit == part \in {"hop", "timers"} /\ Init /\ TimerInit

UiNext ==
  /\ UNCHANGED part
  /\ \/ part = "hop" /\ Next /\ UNCHANGED timerVars
     \/ part = "timers" /\ TimerNext /\ UNCHANGED vars

UiSpec == UiInit /\ [][UiNext]_uiVars /\ WF_vars(Httpd)
==============================================================================
