--------------------------- MODULE BrightnessControl ---------------------------
(***************************************************************************)
(* The cockpit.brightness setting and its two writers: the configuration   *)
(* API on the httpd task, whose change is posted to the UI task, and the   *)
(* on-panel @brightness slider, which previews while it is dragged and     *)
(* writes when it is released, on the UI task, where post() runs at once.  *)
(* The idle dimmer is seen from here only as dimming and waking.           *)
(***************************************************************************)
EXTENDS Integers, Sequences

CONSTANTS
  Pct,         (* values of the setting                                      *)
  DimLevel,    (* dim_pct_ *)
  MaxPosted    (* bound: API writes whose lambda the UI task did not run yet *)

ASSUME BrightnessAssumption == Pct \subseteq Nat /\ DimLevel \in Nat /\ MaxPosted \in Nat

VARIABLES
  on,             (* on_ of the dimmer *)
  on_brightness,  (* on_brightness_pct_ *)
  backlight,      (* what set_brightness() was last told *)
  setting,        (* cockpit.brightness in the configuration store *)
  posted,         (* on_config_changed lambdas in the UI queue *)
  knob,           (* the slider's value *)
  dragging,       (* BrightnessCtx::dragging *)
  cut,            (* the backlight shows the preview of a drag that the      *)
                  (* deletion of its slider cut short                        *)
  writer          (* history: who wrote the setting last *)

brightnessVars == <<on, on_brightness, backlight, setting, posted, knob, dragging, cut, writer>>

BrightnessTypeOK ==
  /\ on \in BOOLEAN
  /\ on_brightness \in Pct
  /\ backlight \in Pct \cup {DimLevel}
  /\ setting \in Pct
  /\ posted \in Seq(Pct)
  /\ knob \in Pct
  /\ dragging \in BOOLEAN
  /\ cut \in BOOLEAN
  /\ writer \in {"api", "slider"}

(* panel_up(): the stored setting is in force. *)
BrightnessInit ==
  /\ setting \in Pct
  /\ on = TRUE
  /\ on_brightness = setting
  /\ backlight = setting
  /\ posted = <<>>
  /\ knob = setting
  /\ dragging = FALSE
  /\ cut = FALSE
  /\ writer = "api"

------------------------------------------------------------------------------
(* Mutant: a dimmed panel forgets the new level. *)
SetOnBrightnessIfLit(v) ==
  /\ on_brightness' = IF on THEN v ELSE on_brightness
  /\ backlight' = IF on THEN v ELSE backlight
  /\ cut' = (cut /\ ~on)

(* IdleDimmer::set_on_brightness() *)
SetOnBrightness(v) ==
  /\ on_brightness' = v
  /\ backlight' = IF on THEN v ELSE backlight
  /\ cut' = (cut /\ ~on)

(* A finger on the glass is activity: no dimming during a drag. *)
Dim ==
  /\ on /\ ~dragging
  /\ on' = FALSE
  /\ backlight' = DimLevel
  /\ cut' = FALSE
  /\ UNCHANGED <<on_brightness, setting, posted, knob, dragging, writer>>

(* What the backlight returns to. *)
WakeLevel == on_brightness

WakeUp ==
  /\ ~on
  /\ on' = TRUE
  /\ backlight' = WakeLevel
  /\ UNCHANGED <<on_brightness, setting, posted, knob, dragging, cut, writer>>

(* The API stores a new value; the subscriber reads it back and posts. *)
ApiWrites(v) ==
  /\ v # setting
  /\ Len(posted) < MaxPosted
  /\ setting' = v
  /\ posted' = Append(posted, v)
  /\ writer' = "api"
  /\ UNCHANGED <<on, on_brightness, backlight, knob, dragging, cut>>

(* drain_queue(): the dimmer's lambda, and the slider's subject behind it. *)
RunPosted ==
  /\ posted # <<>>
  /\ SetOnBrightness(Head(posted))
  /\ posted' = Tail(posted)
  /\ knob' = IF dragging THEN knob ELSE Head(posted)
  /\ UNCHANGED <<on, setting, dragging, writer>>

(* PRESSING.  On a dark panel the wake overlay takes the touch. *)
Press ==
  /\ on /\ ~dragging
  /\ dragging' = TRUE
  /\ UNCHANGED <<on, on_brightness, backlight, setting, posted, knob, cut, writer>>

(* VALUE_CHANGED: preview. *)
Drag(v) ==
  /\ dragging
  /\ knob' = v
  /\ backlight' = v
  /\ cut' = FALSE
  /\ UNCHANGED <<on, on_brightness, setting, posted, dragging, writer>>

(* The subscribers of a changed value, run inside the write. *)
Commit ==
  IF knob # setting THEN SetOnBrightness(knob)
                    ELSE UNCHANGED <<on_brightness, backlight, cut>>

(* RELEASED or PRESS_LOST. *)
Release ==
  /\ dragging
  /\ dragging' = FALSE
  /\ setting' = knob
  /\ writer' = IF knob # setting THEN "slider" ELSE writer
  /\ Commit
  /\ UNCHANGED <<on, posted, knob>>

(* LayoutManager::apply(): the panel wakes, the old slider is deleted      *)
(* without another event, a new one starts from the setting.               *)
Swap ==
  /\ on' = TRUE
  /\ backlight' = IF on THEN backlight ELSE WakeLevel
  /\ cut' = (cut \/ (dragging /\ backlight # on_brightness))
  /\ dragging' = FALSE
  /\ knob' = setting
  /\ UNCHANGED <<on_brightness, setting, posted, writer>>

BrightnessNext ==
  \/ Dim
  \/ WakeUp
  \/ \E v \in Pct : ApiWrites(v)
  \/ RunPosted
  \/ Press
  \/ \E v \in Pct : Drag(v)
  \/ Release
  \/ Swap

BrightnessSpec == BrightnessInit /\ [][BrightnessNext]_brightnessVars

------------------------------------------------------------------------------
(* LastApiWriteWins: when the API wrote the setting last, its value is in  *)
(* force or the last one under way to the UI task, whatever drags, dims    *)
(* and layouts came between.                                               *)
LastApiWriteWins ==
  writer = "api" =>
    setting = IF posted = <<>> THEN on_brightness ELSE posted[Len(posted)]

(* BacklightAccountedFor: a dark panel has the dim level.  A lit one that  *)
(* nobody is dragging on, and that no deleted slider left in a preview,    *)
(* has the dimmer's level or, once the queue is empty, that of the setting *)
(* a release confirmed.                                                    *)
BacklightAccountedFor ==
  /\ ~on => backlight = DimLevel /\ ~dragging
  /\ on /\ ~dragging /\ ~cut =>
       backlight = on_brightness \/ (posted = <<>> => backlight = setting)

(* BrightnessInv: in every state the types are right, the last write of the API is   *)
(* in force or on its way, and the backlight has a reason for its level.   *)
BrightnessInv == BrightnessTypeOK /\ LastApiWriteWins /\ BacklightAccountedFor

(* What the header says and the code does not do. *)

(* BrightnessFollowsSetting: with nothing under way, the level the dimmer  *)
(* restores is the setting.  idle_dimmer.h:31-34.                          *)
BrightnessFollowsSetting == posted = <<>> => on_brightness = setting
==============================================================================
