--------------------------- MODULE PanelScreenProofs ---------------------------
(***************************************************************************)
(* Proofs about PanelScreen, for any alarms, severities, layouts and       *)
(* brightness values: a dark panel is covered and its ACK button with it,  *)
(* and an alarm that is raised is seen.                                    *)
(***************************************************************************)
EXTENDS PanelScreen, TLAPS

(* The parts of Inv that a step disturbs together: what the dimmer keeps,  *)
(* and the z-order.                                                        *)
PowerOK ==
  /\ on \in BOOLEAN
  /\ backlight \in Pct \cup DimPct
  /\ previewed \in BOOLEAN
  /\ visible \subseteq Overlay \ {"alert"}
  /\ DarkIsCovered

ZOK ==
  /\ above \subseteq Overlay \X Overlay
  /\ stirred \in BOOLEAN
  /\ WakeTakesTheTap

RestOK ==
  /\ Panel!TypeOK
  /\ escalation \in BOOLEAN
  /\ on_brightness \in Pct
  /\ dim_pct \in DimPct
  /\ idle_timeout \in Timeout
  /\ inactive \in 0 .. MaxInactive
  /\ mode \in {"unknown", "day", "night"}

LEMMA InvParts == Inv <=> PowerOK /\ ZOK /\ RestOK
BY DEF Inv, TypeOK, PowerOK, ZOK, RestOK

LEMMA InvPartsNext == Inv' <=> PowerOK' /\ ZOK' /\ RestOK'
BY DEF Inv, TypeOK, PowerOK, ZOK, RestOK, Overlay, Panel!TypeOK, DarkIsCovered,
       WakeTakesTheTap, MaxInactive

LEMMA LongestTimeout ==
  /\ MaxInactive \in Nat
  /\ 0 \in 0 .. MaxInactive
<1>1. PICK t \in Timeout : \A u \in Timeout : u <= t
  BY PanelAssumption
<1>2. MaxInactive \in Timeout
  BY <1>1 DEF MaxInactive
<1> QED
  BY <1>2, PanelAssumption

(* Moving one overlay to the front keeps a z-order, and puts it above      *)
(* every other overlay.                                                    *)
LEMMA FrontIsAbove ==
  ASSUME NEW z \in SUBSET (Overlay \X Overlay), NEW o \in Overlay
  PROVE  /\ MovedToFront(z, o) \in SUBSET (Overlay \X Overlay)
         /\ \A x \in Overlay \ {o} : <<o, x>> \in MovedToFront(z, o)
         /\ \A x, y \in Overlay : <<x, y>> \in z /\ y # o => <<x, y>> \in MovedToFront(z, o)
BY DEF MovedToFront

LEMMA Initially == Init => Inv
<1> SUFFICES ASSUME Init PROVE Inv
  OBVIOUS
<1>1. PowerOK
  BY DEF Init, PowerOK, DarkIsCovered
<1>2. ZOK
  <2>1. above \subseteq Overlay \X Overlay
    BY DEF Init, Overlay
  <2>2. on = TRUE /\ stirred = FALSE
    BY DEF Init
  <2> QED
    BY <2>1, <2>2 DEF ZOK, WakeTakesTheTap
<1>3. Panel!TypeOK
  BY PanelAssumption DEF Init, Panel!Init, Panel!TypeOK
<1> QED
  BY <1>1, <1>2, <1>3, LongestTimeout, InvParts DEF Init, RestOK

------------------------------------------------------------------------------
(* The dimmer. *)

LEMMA TurnOnKeeps ==
  ASSUME Inv, TurnOn, on_brightness' \in Pct, on => on_brightness' = on_brightness,
         ~on => on_brightness' = on_brightness
  PROVE  PowerOK' /\ on'
BY DEF Inv, TypeOK, TurnOn, Backlight, lightVars, PowerOK, DarkIsCovered, Overlay

(* Another dim level is no matter to a panel that is lit. *)
LEMMA KeepPowerKeeps ==
  ASSUME Inv, KeepPower, UNCHANGED <<on_brightness, dim_pct>>
  PROVE  PowerOK'
BY DEF Inv, TypeOK, KeepPower, lightVars, PowerOK, DarkIsCovered, Overlay

(* While the panel is lit the z-order is free. *)
LEMMA LitOrStirred ==
  ASSUME above' \subseteq Overlay \X Overlay, stirred' \in BOOLEAN, on' \/ stirred'
  PROVE  ZOK'
BY DEF ZOK, WakeTakesTheTap, Overlay

LEMMA AlertLifted ==
  ASSUME Inv, AlertToFront
  PROVE  /\ ZOK'
         /\ \A o \in Overlay \ {"alert"} : <<"alert", o>> \in above'
<1>1. "alert" \in Overlay /\ above \in SUBSET (Overlay \X Overlay)
  BY DEF Overlay, Inv, TypeOK
<1>2. above' = MovedToFront(above, "alert") /\ stirred' = TRUE
  BY DEF AlertToFront
<1>3. above' \in SUBSET (Overlay \X Overlay)
      /\ \A o \in Overlay \ {"alert"} : <<"alert", o>> \in above'
  BY <1>1, <1>2, FrontIsAbove
<1> QED
  BY <1>2, <1>3, LitOrStirred

(* Lifting the banner or the badge does not come between the wake overlay  *)
(* and the alert.                                                          *)
LEMMA OtherLifted ==
  ASSUME Inv, NEW o \in {"lost", "mic"}, above' = MovedToFront(above, o),
         UNCHANGED <<on, stirred>>
  PROVE  ZOK'
<1>1. o \in Overlay /\ "wake" \in Overlay /\ "alert" \in Overlay /\ o # "alert"
  BY DEF Overlay
<1>2. above \in SUBSET (Overlay \X Overlay)
  BY DEF Inv, TypeOK
<1>3. /\ above' \in SUBSET (Overlay \X Overlay)
      /\ <<"wake", "alert">> \in above => <<"wake", "alert">> \in above'
  BY <1>1, <1>2, FrontIsAbove
<1> QED
  BY <1>3 DEF Inv, TypeOK, ZOK, WakeTakesTheTap, Overlay

LEMMA TurnOffKeeps ==
  ASSUME Inv, TurnOff, on, UNCHANGED <<on_brightness, dim_pct>>
  PROVE  PowerOK' /\ ZOK'
<1>1. on' = FALSE /\ stirred' = FALSE /\ "wake" \notin visible
  BY DEF TurnOff, Inv, DarkIsCovered
<1>2. PowerOK'
  BY <1>1 DEF TurnOff, Backlight, Inv, TypeOK, PowerOK, DarkIsCovered, Overlay
<1>3. above' = MovedToFront(above, "wake")
  BY <1>1 DEF TurnOff
<1>4. above \in SUBSET (Overlay \X Overlay) /\ "wake" \in Overlay
      /\ "alert" \in Overlay \ {"wake"}
  BY DEF Inv, TypeOK, Overlay
<1>5. above' \in SUBSET (Overlay \X Overlay) /\ <<"wake", "alert">> \in above'
  BY <1>3, <1>4, FrontIsAbove
<1> QED
  BY <1>1, <1>2, <1>5 DEF ZOK, WakeTakesTheTap, Overlay

LEMMA PollKeeps ==
  ASSUME Inv, Poll
  PROVE  Inv'
<1>1. UNCHANGED <<alarmVars, escalation, configVars, mode>>
      /\ inactive' = AnotherSecond
  BY DEF Poll
<1>2. inactive' \in 0 .. MaxInactive
  BY <1>1, LongestTimeout DEF AnotherSecond, Inv, TypeOK
<1>3. RestOK'
  BY <1>1, <1>2 DEF RestOK, Inv, TypeOK, alarmVars, configVars, Panel!TypeOK, MaxInactive
<1>4. UNCHANGED <<on_brightness, dim_pct>> /\ on_brightness \in Pct
  BY <1>1 DEF configVars, Inv, TypeOK
<1>5. CASE TurnOn /\ UNCHANGED <<above, stirred>>
  <2>1. PowerOK' /\ on'
    BY <1>4, <1>5, TurnOnKeeps
  <2>2. ZOK'
    BY <1>5, <2>1, LitOrStirred DEF Inv, TypeOK
  <2> QED
    BY <1>3, <2>1, <2>2, InvPartsNext
<1>6. CASE on /\ TurnOff
  BY <1>3, <1>4, <1>6, TurnOffKeeps, InvPartsNext
<1>7. CASE KeepPower /\ UNCHANGED <<above, stirred>>
  <2>1. PowerOK'
    BY <1>4, <1>7, KeepPowerKeeps
  <2>2. ZOK'
    BY <1>7 DEF ZOK, WakeTakesTheTap, Inv, TypeOK, KeepPower, Overlay
  <2> QED
    BY <1>3, <2>1, <2>2, InvPartsNext
<1> QED
  BY <1>5, <1>6, <1>7 DEF Poll

------------------------------------------------------------------------------
(* The alert. *)

LEMMA ChangeTyped ==
  ASSUME Panel!TypeOK, NEW p \in Path, NEW l \in Level,
         Panel!Change(p, l), display' \in Path \cup {None}
  PROVE  Panel!TypeOK'
BY DEF Panel!TypeOK, Panel!Change

LEMMA SilenceTyped ==
  ASSUME Panel!TypeOK, Panel!Silence, display' \in Path \cup {None}
  PROVE  Panel!TypeOK'
BY DEF Panel!TypeOK, Panel!Silence

LEMMA AlarmDeltaKeeps ==
  ASSUME Inv, NEW p \in Path, NEW l \in Level, AlarmDelta(p, l)
  PROVE  Inv'
<1>1. /\ Panel!TypeOK'
      /\ escalation' \in BOOLEAN
      /\ UNCHANGED <<configVars, mode>>
      /\ AlertToFront /\ WakeIfEscalation
  BY ChangeTyped DEF AlarmDelta, AlertFires, Inv, TypeOK
<1>2. UNCHANGED <<on_brightness, dim_pct>> /\ on_brightness \in Pct
  BY <1>1 DEF configVars, Inv, TypeOK
<1>3. CASE escalation'
  <2>1. TurnOn /\ inactive' = 0
    BY <1>1, <1>3 DEF WakeIfEscalation, Wake
  <2>2. RestOK'
    BY <1>1, <2>1, LongestTimeout DEF RestOK, Inv, TypeOK, configVars, MaxInactive
  <2> QED
    BY <1>1, <1>2, <2>1, <2>2, TurnOnKeeps, AlertLifted, InvPartsNext
<1>4. CASE ~escalation'
  <2>1. KeepPower /\ inactive' = inactive
    BY <1>1, <1>4 DEF WakeIfEscalation
  <2>2. RestOK'
    BY <1>1, <2>1 DEF RestOK, Inv, TypeOK, configVars, MaxInactive
  <2> QED
    BY <1>1, <1>2, <2>1, <2>2, KeepPowerKeeps, AlertLifted, InvPartsNext
<1> QED
  BY <1>3, <1>4

LEMMA TapAckKeeps ==
  ASSUME Inv, TapAck
  PROVE  Inv'
<1>1. /\ Panel!TypeOK'
      /\ UNCHANGED <<escalation, configVars, mode>>
      /\ inactive' = 0 /\ AlertToFront
  BY SilenceTyped DEF TapAck, Inv, TypeOK
<1>2. UNCHANGED <<on_brightness, dim_pct>> /\ on_brightness \in Pct
  BY <1>1 DEF configVars, Inv, TypeOK
<1>3. RestOK'
  BY <1>1, LongestTimeout DEF RestOK, Inv, TypeOK, configVars, MaxInactive
<1>4. PowerOK'
  BY <1>2, TurnOnKeeps, KeepPowerKeeps DEF TapAck
<1> QED
  BY <1>1, <1>3, <1>4, AlertLifted, InvPartsNext

LEMMA ApplyLayoutKeeps ==
  ASSUME Inv, NEW t \in Level \cup {None}, NEW timeout \in Timeout, NEW dim \in DimPct,
         ApplyLayout(t, timeout, dim)
  PROVE  Inv'
<1>1. /\ Panel!Configure(t) /\ display' \in Path \cup {None}
      /\ UNCHANGED <<escalation, mode, on_brightness>>
      /\ idle_timeout' = timeout /\ dim_pct' = dim
      /\ inactive' = 0 /\ TurnOn /\ AlertToFront
  BY DEF ApplyLayout, Wake
<1>2. Panel!TypeOK'
  BY <1>1 DEF Inv, TypeOK, Panel!TypeOK, Panel!Configure
<1>3. RestOK'
  BY <1>1, <1>2, LongestTimeout DEF RestOK, Inv, TypeOK, MaxInactive
<1>4. PowerOK'
  BY <1>1, TurnOnKeeps DEF Inv, TypeOK
<1> QED
  BY <1>1, <1>3, <1>4, AlertLifted, InvPartsNext

------------------------------------------------------------------------------
(* Touches, the day, the other overlays and the brightness. *)

LEMMA QuietKeeps ==
  ASSUME Inv, Touch \/ \E m \in {"day", "night"} : ModeDelta(m)
  PROVE  Inv'
<1>1. /\ UNCHANGED <<alarmVars, escalation, on, configVars, lightVars, zVars>>
      /\ inactive' \in 0 .. MaxInactive
      /\ mode' \in {"unknown", "day", "night"}
  BY LongestTimeout DEF Touch, ModeDelta, Inv, TypeOK
<1>2. RestOK'
  BY <1>1 DEF RestOK, Inv, TypeOK, alarmVars, configVars, Panel!TypeOK, MaxInactive
<1>3. PowerOK' /\ ZOK'
  BY <1>1 DEF PowerOK, ZOK, Inv, TypeOK, DarkIsCovered, WakeTakesTheTap,
              configVars, lightVars, zVars, Overlay
<1> QED
  BY <1>2, <1>3, InvPartsNext

LEMMA OverlaysKeep ==
  ASSUME Inv, StreamLost \/ StreamBack \/ Listening \/ NotListening
  PROVE  Inv'
<1>1. KeepButZ
  BY DEF StreamLost, StreamBack, Listening, NotListening
<1>2. RestOK'
  BY <1>1 DEF KeepButZ, RestOK, Inv, TypeOK, alarmVars, configVars, Panel!TypeOK, MaxInactive
<1>3. /\ visible' \subseteq Overlay \ {"alert"}
      /\ "wake" \in visible' <=> "wake" \in visible
  BY DEF StreamLost, StreamBack, Listening, NotListening, Inv, TypeOK, Overlay
<1>4. PowerOK'
  BY <1>1, <1>3 DEF KeepButZ, PowerOK, Inv, TypeOK, DarkIsCovered, configVars, lightVars, Overlay
<1>5. UNCHANGED <<on, stirred>>
  BY <1>1 DEF KeepButZ
<1>6. \A o \in {"lost", "mic"} : above' = MovedToFront(above, o) => ZOK'
  BY <1>5, OtherLifted
<1>7. above' = above => ZOK'
  BY <1>5 DEF ZOK, WakeTakesTheTap, Inv, TypeOK, Overlay
<1>8. ZOK'
  BY <1>6, <1>7 DEF StreamLost, StreamBack, Listening, NotListening
<1> QED
  BY <1>2, <1>4, <1>8, InvPartsNext

LEMMA BrightnessSetKeeps ==
  ASSUME Inv, NEW v \in Pct, BrightnessSet(v)
  PROVE  Inv'
<1>1. /\ UNCHANGED <<alarmVars, escalation, on, dim_pct, idle_timeout, inactive, mode, zVars>>
      /\ on_brightness' = v
      /\ IF on THEN Backlight(v) ELSE UNCHANGED lightVars
  BY DEF BrightnessSet, SetOnBrightness
<1>2. RestOK'
  BY <1>1 DEF RestOK, Inv, TypeOK, alarmVars, Panel!TypeOK, MaxInactive
<1>3. PowerOK' /\ ZOK'
  BY <1>1 DEF Backlight, lightVars, PowerOK, ZOK, Inv, TypeOK, DarkIsCovered,
              WakeTakesTheTap, zVars, Overlay
<1> QED
  BY <1>2, <1>3, InvPartsNext

LEMMA PreviewKeeps ==
  ASSUME Inv, NEW v \in Pct, Preview(v)
  PROVE  Inv'
<1>1. /\ UNCHANGED <<alarmVars, escalation, on, configVars, mode, zVars>>
      /\ backlight' = v /\ previewed' = TRUE /\ inactive' = 0
      /\ on
  BY DEF Preview, Inv, DarkIsCovered
<1>2. RestOK'
  BY <1>1, LongestTimeout DEF RestOK, Inv, TypeOK, alarmVars, configVars, Panel!TypeOK, MaxInactive
<1>3. PowerOK' /\ ZOK'
  BY <1>1 DEF PowerOK, ZOK, Inv, TypeOK, DarkIsCovered, WakeTakesTheTap,
              configVars, zVars, Overlay
<1> QED
  BY <1>2, <1>3, InvPartsNext

LEMMA StutterKeeps ==
  ASSUME Inv, UNCHANGED vars
  PROVE  Inv'
BY DEF Inv, TypeOK, Panel!TypeOK, DarkIsCovered, WakeTakesTheTap, Overlay, MaxInactive,
       vars, alarmVars, configVars, lightVars, zVars

LEMMA StepKeeps ==
  ASSUME Inv, [Next]_vars
  PROVE  Inv'
BY PollKeeps, AlarmDeltaKeeps, TapAckKeeps, ApplyLayoutKeeps, QuietKeeps, OverlaysKeep,
   BrightnessSetKeeps, PreviewKeeps, StutterKeeps DEF Next

(* Whatever the alarms, the finger, the stream, the microphone, the        *)
(* layouts and the brightness do (idle_dimmer.cpp, alert_overlay.cpp,      *)
(* wake_overlay.cpp, status_overlay.cpp, mic_overlay.cpp), a dark panel is *)
(* covered and at the layout's dim level, a lit one at the setting or at   *)
(* what the slider showed last, and the tap that wakes a dark panel meets  *)
(* the wake overlay before an ACK button nobody rebuilt.                   *)
THEOREM DarkStaysCovered == Spec => []Inv
<1>1. Init => Inv
  BY Initially
<1>2. Inv /\ [Next]_vars => Inv'
  BY StepKeeps
<1> QED
  BY <1>1, <1>2, PTL DEF Spec

------------------------------------------------------------------------------
(* The step that raises an alarm, or brings another threshold, lights the  *)
(* panel and lifts the alert.                                              *)
RaiseIsSeen ==
  (escalation' /\ level' # level) \/ threshold' # threshold =>
    /\ on'
    /\ display' # None =>
         \A o \in Overlay \ {"alert"} : <<"alert", o>> \in above'

LEMMA StepSees ==
  ASSUME Inv, [Next]_vars
  PROVE  RaiseIsSeen
<1>1. ASSUME NEW p \in Path, NEW l \in Level, AlarmDelta(p, l)
      PROVE  RaiseIsSeen
  <2>1. threshold' = threshold
    BY <1>1 DEF AlarmDelta, Panel!Change
  <2>2. escalation' => on'
    BY <1>1 DEF AlarmDelta, AlertFires, WakeIfEscalation, Wake, TurnOn
  <2>3. AlertToFront
    BY <1>1 DEF AlarmDelta, AlertFires
  <2> QED
    BY <2>1, <2>2, <2>3, AlertLifted DEF RaiseIsSeen
<1>2. ASSUME NEW t \in Level \cup {None}, NEW timeout \in Timeout, NEW dim \in DimPct,
             ApplyLayout(t, timeout, dim)
      PROVE  RaiseIsSeen
  <2>1. on' /\ AlertToFront
    BY <1>2 DEF ApplyLayout, Wake, TurnOn
  <2> QED
    BY <2>1, AlertLifted DEF RaiseIsSeen
<1>3. CASE TapAck
  BY <1>3 DEF TapAck, Panel!Silence, RaiseIsSeen
<1>4. CASE UNCHANGED alarmVars
  BY <1>4 DEF alarmVars, RaiseIsSeen
<1>5. \/ \E p \in Path, l \in Level : AlarmDelta(p, l)
      \/ \E t \in Level \cup {None}, timeout \in Timeout, dim \in DimPct :
           ApplyLayout(t, timeout, dim)
      \/ TapAck
      \/ UNCHANGED alarmVars
  BY DEF Next, Poll, Touch, ModeDelta, StreamLost, StreamBack, Listening, NotListening,
         KeepButZ, BrightnessSet, Preview, vars
<1> QED
  BY <1>1, <1>2, <1>3, <1>4, <1>5

(* Every step of every behaviour that raises an alarm, and every layout    *)
(* with another threshold, leaves the panel lit and the alert above all    *)
(* else (idle_dimmer.cpp's observer of the registry, alert_overlay.cpp's   *)
(* rebuild()).                                                             *)
THEOREM AlarmsAreSeen == Spec => RaisedAlarmIsSeen
<1>1. Inv /\ [Next]_vars => [RaiseIsSeen]_vars
  BY StepSees
<1>2. Spec => []Inv
  BY DarkStaysCovered
<1> QED
  BY <1>1, <1>2, PTL DEF Spec, RaisedAlarmIsSeen, RaiseIsSeen
================================================================================
