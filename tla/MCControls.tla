------------------------------ MODULE MCControls ------------------------------
(***************************************************************************)
(* Instances for TLC of the widgets of a page: BoundControl's toggle and   *)
(* slider, BrightnessControl, ButtonWidget, ZoneDisplay and VoiceControl.  *)
(* They share the UI task and nothing else, so a behaviour has a page with *)
(* one of them, and the others stay as they began.                         *)
(***************************************************************************)
EXTENDS BoundControl, BrightnessControl, ButtonWidget, ZoneDisplay, VoiceControl, TLC

CONSTANTS horn, dropHere, raise, engaged, idle, hornPath

PathOfMC == (horn :> hornPath) @@ (dropHere :> DropHere) @@ (raise :> AnchorPath)
PressMC == (horn :> engaged) @@ (dropHere :> Absent) @@ (raise :> Null)
ReleaseMC == (horn :> idle) @@ (dropHere :> Absent) @@ (raise :> Absent)

Zone(l, u, s) == [lower |-> l, upper |-> u, state |-> s]
ZoneListsMC ==
  { <<>>,
    <<Zone(0, 2, "alarm"), Zone(2, 3, "normal")>>,
    <<Zone(2, 3, "nominal"), Zone(0, 2, "warn")>>,
    <<Zone(1, 1, "alert"), Zone(2, 2, "nominal"), Zone(3, 3, "emergency")>>,
    <<Zone(1, 3, "normal"), Zone(3, 3, "alarm")>> }

VARIABLE page

controlVars == <<page, boundVars, brightnessVars, buttonVars, zoneVars, voiceVars>>

ControlsInit ==
  /\ page \in {"bound", "brightness", "button", "zones", "voice"}
  /\ BoundInit /\ BrightnessInit /\ ButtonInit /\ ZoneInit /\ VoiceInit
  /\ page # "bound" => kind = "toggle"
  /\ page # "brightness" => setting = 40
  /\ page # "zones" => reading = 1

ControlsNext ==
  /\ UNCHANGED page
  /\ \/ /\ page = "bound" /\ BoundNext
        /\ UNCHANGED <<brightnessVars, buttonVars, zoneVars, voiceVars>>
     \/ /\ page = "brightness" /\ BrightnessNext
        /\ UNCHANGED <<boundVars, buttonVars, zoneVars, voiceVars>>
     \/ /\ page = "button" /\ ButtonNext
        /\ UNCHANGED <<boundVars, brightnessVars, zoneVars, voiceVars>>
     \/ /\ page = "zones" /\ ZoneNext
        /\ UNCHANGED <<boundVars, brightnessVars, buttonVars, voiceVars>>
     \/ /\ page = "voice" /\ VoiceNext
        /\ UNCHANGED <<boundVars, brightnessVars, buttonVars, zoneVars>>

ControlsSpec == ControlsInit /\ [][ControlsNext]_controlVars /\ BoundFairness

\* In every state of a bound widget, of a tile with zones and of the voice
\* settings the types are right, a finger keeps its knob and the last word
\* stands, the tint is that of the zones, and what was set survives.
ControlsInv == BoundInv /\ ZoneInv /\ VoiceInv
=============================================================================
