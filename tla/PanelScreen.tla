------------------------------ MODULE PanelScreen ------------------------------
(***************************************************************************)
(* The glass and the backlight: the idle dimmer, the four overlays that    *)
(* share the screen (connection-lost banner, alert, listening badge,       *)
(* tap-to-wake) and the alarm display as AlertPanel specifies it           *)
(* (AlertOverlay implements that specification, see AlertOverlayProofs).   *)
(* Where the brightness comes from is BrightnessControl's business; the    *)
(* slider's preview writes to the backlight past the dimmer.               *)
(*                                                                         *)
(* Everything here runs on the UI task, except ModeDelta, an atomic store  *)
(* by the stream task.                                                     *)
(***************************************************************************)
EXTENDS Integers

CONSTANTS
  Path, None,      (* notification paths; no alarm / no acknowledgement      *)
  Level, Quiet,    (* severities; the highest one that is not an alarm       *)
  Timeout,         (* idle_timeout_sec values of the layouts, 0 is "never"   *)
  DimPct,          (* idle_dim_pct values of the layouts                     *)
  Pct              (* values of the cockpit.brightness setting               *)

ASSUME PanelAssumption ==
  /\ Timeout \subseteq Nat
  /\ \E t \in Timeout : \A u \in Timeout : u <= t
  /\ Level \subseteq Int
  /\ Quiet \in Level
  /\ None \notin Path
  /\ None \notin Level

VARIABLES
  level, silenced, threshold, display,   (* the alarm display: AlertPanel    *)
  escalation,      (* last_change_was_escalation_ of the registry            *)
  on,              (* on_ *)
  on_brightness,   (* on_brightness_pct_ *)
  dim_pct,         (* dim_pct_ *)
  idle_timeout,    (* idle_timeout_sec_ *)
  inactive,        (* lv_display_get_inactive_time(), in whole seconds       *)
  mode,            (* state_ of SunState *)
  backlight,       (* what set_brightness() was last told                    *)
  visible,         (* overlays that are not hidden, the alert's apart        *)
  above,           (* z-order: <<x, y>> when overlay x lies above overlay y  *)
  stirred,         (* history: the alert was rebuilt since the panel went dark *)
  previewed        (* history: the last to set the backlight was the slider  *)

alarmVars == <<level, silenced, threshold, display>>
configVars == <<on_brightness, dim_pct, idle_timeout>>
zVars == <<visible, above, stirred>>
lightVars == <<backlight, previewed>>
vars == <<alarmVars, escalation, on, configVars, inactive, mode, lightVars, zVars>>

Panel == INSTANCE AlertPanel

Overlay == {"lost", "alert", "mic", "wake"}

MaxInactive == CHOOSE t \in Timeout : \A u \in Timeout : u <= t

TypeOK ==
  /\ Panel!TypeOK
  /\ escalation \in BOOLEAN
  /\ on \in BOOLEAN
  /\ on_brightness \in Pct
  /\ dim_pct \in DimPct
  /\ idle_timeout \in Timeout
  /\ inactive \in 0 .. MaxInactive
  /\ mode \in {"unknown", "day", "night"}
  /\ backlight \in Pct \cup DimPct
  /\ visible \subseteq Overlay \ {"alert"}
  /\ above \subseteq Overlay \X Overlay
  /\ stirred \in BOOLEAN
  /\ previewed \in BOOLEAN

(* panel_up() has run: the overlays were created in this order, the stored *)
(* or default layout is applied, and cockpit.brightness is in force.       *)
Init ==
  /\ Panel!Init
  /\ escalation = FALSE
  /\ on = TRUE
  /\ on_brightness \in Pct
  /\ backlight = on_brightness
  /\ dim_pct \in DimPct
  /\ idle_timeout \in Timeout
  /\ inactive = 0
  /\ mode = "unknown"
  /\ visible = {}
  /\ above = {<<"alert", "lost">>, <<"mic", "lost">>, <<"mic", "alert">>,
              <<"wake", "lost">>, <<"wake", "alert">>, <<"wake", "mic">>}
  /\ stirred = FALSE
  /\ previewed = FALSE

------------------------------------------------------------------------------
(* lv_obj_move_foreground(). *)
MovedToFront(z, o) ==
  {pair \in z : pair[2] # o} \cup {<<o, x>> : x \in Overlay \ {o}}

(* Display::set_brightness(), called by the dimmer. *)
Backlight(v) == backlight' = v /\ previewed' = FALSE

(* wake_overlay().hide() and the backlight up; nothing when already on. *)
TurnOn ==
  /\ on' = TRUE
  /\ visible' = IF on THEN visible ELSE visible \ {"wake"}
  /\ IF on THEN UNCHANGED lightVars ELSE Backlight(on_brightness)

(* wake_overlay().show(), and the backlight down. *)
TurnOff ==
  /\ on' = FALSE
  /\ visible' = visible \cup {"wake"}
  /\ above' = IF "wake" \in visible THEN above ELSE MovedToFront(above, "wake")
  /\ stirred' = FALSE
  /\ Backlight(dim_pct)

KeepPower == UNCHANGED <<on, visible, lightVars>>

(* IdleDimmer::wake() *)
Wake == inactive' = 0 /\ TurnOn

(* Mutant: touch is not looked at. *)
ShouldBeOnByDayOnly == idle_timeout = 0 \/ mode # "night"

ShouldBeOn ==
  idle_timeout = 0 \/ mode # "night" \/ inactive < idle_timeout

(* The poll's period, up to the longest time a layout can ask for. *)
AnotherSecond ==
  IF inactive < MaxInactive THEN inactive + 1 ELSE inactive

(* The dimmer's 1 Hz poll. *)
Poll ==
  /\ \/ ShouldBeOn /\ TurnOn /\ UNCHANGED <<above, stirred>>
     \/ ~ShouldBeOn /\ on /\ TurnOff
     \/ ~ShouldBeOn /\ ~on /\ KeepPower /\ UNCHANGED <<above, stirred>>
  /\ inactive' = AnotherSecond
  /\ UNCHANGED <<alarmVars, escalation, configVars, mode>>

------------------------------------------------------------------------------
(* The registry's observers, in the order they were registered: the alert  *)
(* overlay rebuilds, raising itself to the front, then the dimmer wakes if *)
(* the last change was an escalation.                                      *)

(* Mutant: only an alarm that is on screen wakes the panel. *)
WakeIfShown ==
  IF escalation' /\ display' # None THEN Wake
                                   ELSE KeepPower /\ UNCHANGED inactive

WakeIfEscalation ==
  IF escalation' THEN Wake ELSE KeepPower /\ UNCHANGED inactive

(* rebuild() lifts the alert, shown or not. *)
AlertToFront == above' = MovedToFront(above, "alert") /\ stirred' = TRUE

AlertFires ==
  /\ AlertToFront
  /\ WakeIfEscalation
  /\ UNCHANGED <<configVars, mode>>

(* An alarm is raised, grows, shrinks, clears or gets a new text. *)
AlarmDelta(p, l) ==
  /\ display' \in Path \cup {None}
  /\ Panel!Change(p, l)
  /\ escalation' = (l > Quiet /\ l > level[p])
  /\ AlertFires

(* A tap on ACK.  The tap itself is activity, and reaches the button only  *)
(* when the wake overlay does not lie above the alert.                     *)
TapAck ==
  /\ "wake" \in visible => <<"alert", "wake">> \in above
  /\ display' \in Path \cup {None}
  /\ Panel!Silence
  /\ UNCHANGED escalation
  /\ AlertToFront
  /\ inactive' = 0
  /\ IF escalation THEN TurnOn ELSE KeepPower
  /\ UNCHANGED <<configVars, mode>>

(* Any other tap on the panel. *)
Touch ==
  /\ inactive' = 0
  /\ UNCHANGED <<alarmVars, escalation, on, configVars, mode, lightVars, zVars>>

(* LayoutManager::apply(): the alert block, then the display block. *)
ApplyLayout(t, timeout, dim) ==
  /\ display' \in Path \cup {None}
  /\ Panel!Configure(t)
  /\ AlertToFront
  /\ idle_timeout' = timeout
  /\ dim_pct' = dim
  /\ Wake
  /\ UNCHANGED <<escalation, mode, on_brightness>>

(* SunState::set_mode(), on the stream task. *)
ModeDelta(m) ==
  /\ mode' = m
  /\ UNCHANGED <<alarmVars, escalation, on, configVars, inactive, lightVars, zVars>>

------------------------------------------------------------------------------
(* The other overlays. *)

KeepButZ ==
  UNCHANGED <<alarmVars, escalation, on, configVars, inactive, mode, lightVars, stirred>>

(* show_sk_lost(): moved to the front on every call. *)
StreamLost ==
  /\ visible' = visible \cup {"lost"}
  /\ above' = MovedToFront(above, "lost")
  /\ KeepButZ

StreamBack ==
  /\ visible' = visible \ {"lost"}
  /\ UNCHANGED above
  /\ KeepButZ

(* MicOverlay::set_visible() by its 100 ms poll. *)
Listening ==
  /\ "mic" \notin visible
  /\ visible' = visible \cup {"mic"}
  /\ above' = MovedToFront(above, "mic")
  /\ KeepButZ

NotListening ==
  /\ visible' = visible \ {"mic"}
  /\ UNCHANGED above
  /\ KeepButZ

------------------------------------------------------------------------------
(* Mutant: the hardware is set even while the panel is dimmed. *)
SetOnBrightnessAlways(v) == on_brightness' = v /\ Backlight(v)

(* IdleDimmer::set_on_brightness(), for whoever changed the setting. *)
SetOnBrightness(v) ==
  /\ on_brightness' = v
  /\ IF on THEN Backlight(v) ELSE UNCHANGED lightVars

BrightnessSet(v) ==
  /\ SetOnBrightness(v)
  /\ UNCHANGED <<alarmVars, escalation, on, dim_pct, idle_timeout, inactive,
                 mode, zVars>>

(* A drag of the @brightness slider shows each value on the panel itself,  *)
(* past the dimmer.  The wake overlay keeps a finger off the slider of a   *)
(* dark panel.  Released, the slider writes the setting (BrightnessSet, or *)
(* nothing if it is the old one); deleted in the drag, it writes nothing.  *)
Preview(v) ==
  /\ "wake" \notin visible
  /\ backlight' = v /\ previewed' = TRUE
  /\ inactive' = 0
  /\ UNCHANGED <<alarmVars, escalation, on, configVars, mode, zVars>>

Next ==
  \/ Poll
  \/ \E p \in Path, l \in Level : AlarmDelta(p, l)
  \/ TapAck
  \/ Touch
  \/ \E t \in Level \cup {None}, timeout \in Timeout, dim \in DimPct :
       ApplyLayout(t, timeout, dim)
  \/ \E m \in {"day", "night"} : ModeDelta(m)
  \/ StreamLost
  \/ StreamBack
  \/ Listening
  \/ NotListening
  \/ \E v \in Pct : BrightnessSet(v) \/ Preview(v)

Spec == Init /\ [][Next]_vars

(* The LVGL timer that polls goes on firing. *)
FairSpec == Spec /\ WF_vars(Poll)

------------------------------------------------------------------------------
(* DarkIsCovered: the panel is dark exactly while the wake overlay lies    *)
(* over the layout, so that no touch reaches a widget nobody can see; and  *)
(* the backlight of a dark panel is the layout's dim level, that of a lit  *)
(* one the setting, unless the slider has shown a value since the dimmer   *)
(* last wrote: across layouts, brightness changes, lit or dark, and drags, *)
(* also one cut short.                                                     *)
DarkIsCovered ==
  /\ ~on <=> "wake" \in visible
  /\ ~on => backlight = dim_pct
  /\ on /\ ~previewed => backlight = on_brightness

(* WakeTakesTheTap: the ACK button of a dark panel is under the wake       *)
(* overlay, so that the tap that wakes the panel silences nothing, unless  *)
(* the alert was rebuilt in the dark (alert_overlay.cpp:175).              *)
WakeTakesTheTap == ~on /\ ~stirred => <<"wake", "alert">> \in above

(* Inv: in every state the types are right and a dark panel is covered,    *)
(* whatever the overlays and the dimmer did before.                        *)
Inv == TypeOK /\ DarkIsCovered /\ WakeTakesTheTap

(* RaisedAlarmIsSeen: a step that raises an alarm or makes it worse leaves *)
(* the panel lit, and the alert, if it shows one, above every other        *)
(* overlay.  So does a layout that brings an alert onto the screen.        *)
RaisedAlarmIsSeen ==
  [][(escalation' /\ level' # level) \/ threshold' # threshold =>
       /\ on'
       /\ display' # None =>
            \A o \in Overlay \ {"alert"} : <<"alert", o>> \in above']_vars

(* DarkOnlyAtNight: by day, or before the server said which it is, a panel *)
(* that went dark is lit again.                                            *)
DarkOnlyAtNight == (mode # "night") ~> (on \/ mode = "night")

(* TouchWakes: a touch lights a dark panel, at night too.                  *)
TouchWakes == (~on /\ inactive = 0) ~> on

(* DarkEnds: both, the day and a touch, end the dark.                      *)
DarkEnds == DarkOnlyAtNight /\ TouchWakes

------------------------------------------------------------------------------
(* What the comments and the README say and the code does not do. *)

(* AlarmAboveWake: the wake overlay stays below an alert on screen.        *)
(* wake_overlay.h:10-11, wake_overlay.cpp:36-38.                           *)
AlarmAboveWake ==
  display # None /\ "wake" \in visible => <<"alert", "wake">> \in above

(* AlarmAboveBanner: an alert covers the connection-lost banner and the    *)
(* listening badge.  status_overlay.cpp:58-61, mic_overlay.cpp:113-115.    *)
AlarmAboveBanner ==
  display # None =>
    \A o \in visible \cap {"lost", "mic"} : <<"alert", o>> \in above

(* WakeTapOnlyWakes: the tap that wakes the panel triggers no button.      *)
(* wake_overlay.h:7-10.                                                    *)
WakeTapOnlyWakes ==
  [][(\E p \in Path : silenced[p] = None /\ silenced'[p] # None) => on]_vars

(* WakeRespectsMinState: a notification below min_state leaves a dark      *)
(* panel dark.  README.md:160.                                             *)
WakeRespectsMinState ==
  [][~on /\ on' /\ level' # level =>
       \E p \in Path :
         level'[p] # level[p] /\ threshold # None /\ level'[p] >= threshold]_vars
==============================================================================
