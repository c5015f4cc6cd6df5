---------------------------- MODULE BoundControl ----------------------------
(***************************************************************************)
(* The two widgets that write the path they show: the toggle and the       *)
(* slider of main/jlp/widgets/widget_factory.cpp, over put_bool/put_float  *)
(* of main/jlp/net/sk_put.cpp and the subject of                           *)
(* main/jlp/subject_registry.cpp.                                          *)
(*                                                                         *)
(* A gesture moves the widget at once and sends a PUT; the server accepts  *)
(* or rejects it, publishes what changed, and the delta drives the widget. *)
(* Only the toggle has a reconcile timer; the slider ignores the subject   *)
(* while it is dragged.  PUTs and deltas travel in order, the operator's   *)
(* gestures, new layouts and the server's other clients come at any time,  *)
(* and a PUT may not even be handed over.                                  *)
(***************************************************************************)
EXTENDS Naturals, Sequences

CONSTANTS
  Kinds,        \* the widgets: "toggle", "slider" or both
  Levels,       \* the readings of the path
  BoolEcho,     \* the server publishes this path as true and false
  Rejected,     \* kinds whose PUTs the server may reject
  MaxGestures,  \* bound: taps and drags
  MaxOthers     \* bound: changes by other clients

ASSUME KindAssumption == Kinds \subseteq {"toggle", "slider"} /\ Rejected \subseteq Kinds
ASSUME LevelsAssumption == {0, 1} \subseteq Levels /\ Levels \subseteq Nat
ASSUME BoundsAssumption == MaxGestures \in Nat /\ MaxOthers \in Nat

VARIABLES
  kind,      \* what the widget is
  value,     \* the server's reading
  puts,      \* PUTs under way
  deltas,    \* deltas under way, up to the UI task's queue
  sub,       \* the subject
  shown,     \* the switch's CHECKED state, the knob's position
  finger,    \* history: where the finger holds the knob
  sliding,  \* SliderCtx::dragging
  timer,     \* TogglePressCtx::reconcile is armed
  unsent,    \* history: the last drag ended without a PUT
  astray,    \* history: and its knob is still where the finger left it
  gestures, others

boundVars == <<kind, value, puts, deltas, sub, shown, finger, sliding, timer,
               unsent, astray, gestures, others>>
dragHistory == <<unsent, astray>>

BoundTypeOK ==
  /\ kind \in Kinds
  /\ {value, sub, finger} \subseteq Levels
  /\ shown \in IF kind = "toggle" THEN {0, 1} ELSE Levels
  /\ puts \in Seq(Levels) /\ deltas \in Seq(Levels)
  /\ {sliding, timer, unsent, astray} \subseteq BOOLEAN
  /\ gestures \in 0 .. MaxGestures /\ others \in 0 .. MaxOthers

BoundInit ==
  /\ kind \in Kinds
  /\ value = 0 /\ sub = 0 /\ shown = 0 /\ finger = 0
  /\ puts = <<>> /\ deltas = <<>>
  /\ sliding = FALSE /\ timer = FALSE /\ unsent = FALSE /\ astray = FALSE
  /\ gestures = 0 /\ others = 0

-----------------------------------------------------------------------------
\* The server's reading becomes v; what changed is published.
Publish(v) ==
  /\ value' = v
  /\ deltas' = IF v = value THEN deltas ELSE Append(deltas, v)

\* on_update: strtol of "true" is 0, the number's text gives the number.
Decoded(v) == IF kind = "toggle" /\ BoolEcho THEN 0 ELSE v

\* What the widget shows of a subject: off for 0 and on for anything else, or
\* the knob's position.
Face(v) == IF kind = "toggle" /\ v # 0 THEN 1 ELSE v

\* Another client changes the reading.
Other(v) ==
  /\ others < MaxOthers
  /\ v # value
  /\ others' = others + 1
  /\ Publish(v)
  /\ UNCHANGED <<kind, puts, sub, shown, finger, sliding, timer, dragHistory, gestures>>

\* put_bool() and put_float(): what espos_sk_put() does not take is logged only.
SendPut(v) == puts' = Append(puts, v)
PutDropped == UNCHANGED puts

\* Mutant: a tap lets LVGL's flip stand.
TapNoTimer ==
  /\ kind = "toggle" /\ gestures < MaxGestures
  /\ gestures' = gestures + 1
  /\ shown' = 1 - shown
  /\ SendPut(IF sub = 0 THEN 1 ELSE 0) \/ PutDropped
  /\ UNCHANGED <<kind, value, deltas, sub, finger, sliding, timer, dragHistory, others>>

\* LV_EVENT_CLICKED of the switch, which LVGL has flipped: the opposite of the
\* subject is PUT and the reconcile timer starts afresh.
Tap ==
  /\ kind = "toggle" /\ gestures < MaxGestures
  /\ gestures' = gestures + 1
  /\ shown' = 1 - shown
  /\ SendPut(IF sub = 0 THEN 1 ELSE 0) \/ PutDropped
  /\ timer' = TRUE
  /\ UNCHANGED <<kind, value, deltas, sub, finger, sliding, dragHistory, others>>

\* 500 ms after the last tap the switch takes the subject's state.
Reconcile ==
  /\ timer
  /\ shown' = Face(sub)
  /\ timer' = FALSE
  /\ UNCHANGED <<kind, value, puts, deltas, sub, finger, sliding, dragHistory, gestures,
                 others>>

\* LV_EVENT_PRESSING: the finger takes the knob, and moves it.
Slide(v) ==
  /\ kind = "slider"
  /\ sliding \/ gestures < MaxGestures
  /\ ~(sliding /\ v = shown)
  /\ gestures' = IF sliding THEN gestures ELSE gestures + 1
  /\ sliding' = TRUE
  /\ shown' = v /\ finger' = v
  /\ UNCHANGED <<kind, value, puts, deltas, sub, timer, dragHistory, others>>

\* LV_EVENT_RELEASED or LV_EVENT_PRESS_LOST: one PUT of where the knob is.  A
\* PUT that is dropped leaves the knob where it is.
LetGo ==
  /\ sliding
  /\ sliding' = FALSE
  /\ \/ SendPut(shown) /\ unsent' = FALSE /\ astray' = FALSE
     \/ PutDropped /\ unsent' = TRUE /\ astray' = TRUE
  /\ UNCHANGED <<kind, value, deltas, sub, shown, finger, timer, gestures, others>>

\* A layout swap deletes the widget, its timer and the drag with it, and sends
\* nothing; its successor takes the subject, which stays.
RebuildBound ==
  /\ shown' = Face(sub)
  /\ sliding' = FALSE /\ timer' = FALSE
  /\ unsent' = (unsent \/ sliding) /\ astray' = FALSE
  /\ UNCHANGED <<kind, value, puts, deltas, sub, finger, gestures, others>>

\* The server's answer goes to the log only (on_done).
Answer ==
  /\ puts # <<>>
  /\ puts' = Tail(puts)
  /\ \/ Publish(Head(puts))
     \/ kind \in Rejected /\ UNCHANGED <<value, deltas>>
  /\ UNCHANGED <<kind, sub, shown, finger, sliding, timer, dragHistory, gestures, others>>

\* The subject takes the delta.  LVGL may leave the observers of an unchanged
\* subject alone; the slider's observer returns while the knob is dragged.
Delta ==
  /\ deltas # <<>>
  /\ deltas' = Tail(deltas)
  /\ sub' = Decoded(Head(deltas))
  /\ \/ sliding /\ UNCHANGED <<shown, astray>>
     \/ ~sliding /\ shown' = Face(sub') /\ astray' = FALSE
     \/ sub' = sub /\ UNCHANGED <<shown, astray>>
  /\ UNCHANGED <<kind, value, puts, finger, sliding, timer, unsent, gestures, others>>

BoundNext ==
  \/ \E v \in Levels : Other(v) \/ Slide(v)
  \/ Tap \/ Reconcile \/ LetGo \/ RebuildBound \/ Answer \/ Delta

\* The operator lets go, PUTs are answered, deltas arrive, the timer runs.
BoundFairness ==
  /\ WF_boundVars(LetGo) /\ WF_boundVars(Answer)
  /\ WF_boundVars(Delta) /\ WF_boundVars(Reconcile)

BoundSpec == BoundInit /\ [][BoundNext]_boundVars /\ BoundFairness

-----------------------------------------------------------------------------
(***************************************************************************)
(* Properties.                                                             *)
(***************************************************************************)

\* However echoes, other clients and answers fall into a drag, the knob stays
\* under the finger: "an in-flight SK echo can't fight the gesture".
KnobUnderFinger == sliding => shown = finger

\* With no other client, a server that accepts and nothing under way, the
\* server holds what the last drag left under the finger, and nothing of what it
\* passed on the way, unless its PUT could not be handed over or the slider was
\* deleted in the drag; the drags cut short before it leave nothing behind.
LastWordStands ==
  (kind = "slider" /\ kind \notin Rejected /\ others = 0 /\ gestures > 0 /\ ~sliding
     /\ ~unsent /\ puts = <<>> /\ deltas = <<>>) => value = finger

\* In every state the types are right, a drag has its knob, and the last drag
\* its reading.
BoundInv == BoundTypeOK /\ KnobUnderFinger /\ LastWordStands

\* Left alone, the widget ends on the server's reading, whatever was tapped or
\* dragged before the echoes arrived, whatever the server made of the PUTs and
\* whenever the layout was swapped; only a slider whose last PUT was dropped
\* waits for the next delta or layout.
ShowsTruthInTheEnd ==
  <>[](IF kind = "toggle" THEN (shown = 0) = (value = 0) ELSE astray \/ shown = value)
=============================================================================
