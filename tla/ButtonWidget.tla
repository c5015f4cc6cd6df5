---------------------------- MODULE ButtonWidget ----------------------------
(***************************************************************************)
(* The button of main/jlp/widgets/widget_factory.cpp: a PUT when it is     *)
(* pressed, at once or after a hold, and another when it is let go; and    *)
(* the "@drop_here" button, whose press starts a task of its own           *)
(* (main/jlp/net/drop_here.cpp) that asks the server where the boat is and *)
(* drops the anchor there.                                                 *)
(*                                                                         *)
(* One finger.  LVGL learns where it is when the UI task reads the touch   *)
(* controller, so what LVGL takes for pressed lags behind the finger.      *)
(***************************************************************************)
EXTENDS Naturals

CONSTANTS
  Buttons,     \* the buttons of a page
  PathOf,      \* bind of each button: a path, or DropHere
  PressOf,     \* press_value of each button, Absent when it has none
  ReleaseOf,   \* release_value of each button, Absent when it has none
  Held,        \* the buttons with hold_ms
  HoldTicks,   \* hold_ms
  Paths,       \* paths of the server
  DropHere,    \* "@drop_here"
  AnchorPath,  \* "navigation.anchor.position"
  Null,        \* the value null; no anchor is down
  Absent,      \* a value the layout does not give
  NoButton,    \* the finger is on no button
  Drops,       \* bound: drop tasks at once
  MaxFix       \* bound: positions of the boat

ASSUME ButtonAssumption ==
  /\ Held \subseteq Buttons /\ NoButton \notin Buttons
  /\ PathOf \in [Buttons -> Paths \cup {DropHere}]
  /\ AnchorPath \in Paths /\ DropHere \notin Paths
ASSUME HoldAssumption == HoldTicks \in Nat \ {0} /\ MaxFix \in Nat \ {0}
\* What a button sends is no position of the boat.
ASSUME ValueAssumption ==
  /\ Null \notin 1 .. MaxFix
  /\ \A b \in Buttons : PressOf[b] \notin 1 .. MaxFix /\ ReleaseOf[b] \notin 1 .. MaxFix

VARIABLES
  touch,     \* where the finger is
  pressed,   \* the button LVGL holds as pressed
  pending,   \* the buttons with a hold_timer
  age,       \* ticks since the hold timer was started, 0 when there is none
  fired,     \* ButtonCtx::press_fired
  sent,      \* history: momentary buttons that sent a press last
  lost,      \* history: those whose press ended without a RELEASED
  rested,    \* history: ticks the finger rested where it is, or was
  late,      \* history: during this press the UI task missed a move of the finger
  drop,      \* drop_task: "idle", "get", or the fix it is about to PUT
  server,    \* the server's value of each path
  fix,       \* the boat's position, as a count of its moves
  wish,      \* history: what the anchor was last sent, or the fix of the moment of a DROP
  crossed    \* history: since the wish a drop failed, or was under way before it

handVars == <<touch, rested, late>>
widgetVars == <<pressed, pending, age, fired, sent, lost>>
anchorVars == <<drop, server, fix, wish, crossed>>
buttonVars == <<handVars, widgetVars, anchorVars>>

\* The buttons that let go with a PUT of their own.
Momentary ==
  {b \in Buttons : PathOf[b] # DropHere /\ ReleaseOf[b] \notin {Absent, PressOf[b]}}

ButtonTypeOK ==
  /\ {touch, pressed} \subseteq Buttons \cup {NoButton}
  /\ pending \subseteq Held /\ sent \subseteq Momentary /\ lost \subseteq Momentary
  /\ age \in 0 .. HoldTicks /\ rested \in 0 .. HoldTicks
  /\ fired \in [Buttons -> BOOLEAN]
  /\ late \in BOOLEAN /\ crossed \in BOOLEAN
  /\ fix \in 1 .. MaxFix
  /\ drop \in [Drops -> ({"idle", "get"} \X {0}) \cup ({"put"} \X (1 .. MaxFix))]
  /\ DOMAIN server = Paths

ButtonInit ==
  /\ touch = NoButton /\ rested = 0 /\ late = FALSE
  /\ pressed = NoButton /\ pending = {} /\ age = 0
  /\ fired = [b \in Buttons |-> FALSE]
  /\ sent = {} /\ lost = {}
  /\ drop = [d \in Drops |-> <<"idle", 0>>]
  /\ server = [p \in Paths |-> Null]
  /\ fix = 1 /\ wish = Null /\ crossed = FALSE

\* The drop tasks under way.
Busy == {d \in Drops : drop[d][1] # "idle"}

-----------------------------------------------------------------------------
(* The finger, the clock and the boat. *)

\* The finger comes down, perhaps before LVGL saw that it had left.
TouchDown(b) ==
  /\ touch = NoButton
  /\ pressed \in {NoButton, b}
  /\ touch' = b /\ rested' = 0
  /\ late' = (pressed # NoButton)
  /\ UNCHANGED <<widgetVars, anchorVars>>

TouchUp ==
  /\ touch # NoButton
  /\ touch' = NoButton
  /\ UNCHANGED <<rested, late, widgetVars, anchorVars>>

\* Time passes.  The UI task is late when it does not know yet that the finger
\* has left.
Tick ==
  /\ rested' = IF touch # NoButton /\ rested < HoldTicks THEN rested + 1 ELSE rested
  /\ age' = IF pending # {} /\ age < HoldTicks THEN age + 1 ELSE age
  /\ late' = (late \/ (pressed # NoButton /\ touch = NoButton))
  /\ UNCHANGED <<touch, pressed, pending, fired, sent, lost, anchorVars>>

Sail ==
  /\ fix < MaxFix
  /\ fix' = fix + 1
  /\ UNCHANGED <<drop, server, wish, crossed, handVars, widgetVars>>

-----------------------------------------------------------------------------
(* PUTs. *)

\* put_json_value() of a button's value, which the server takes.
Put(b, v) ==
  /\ sent' = IF v = PressOf[b] THEN sent \cup ({b} \cap Momentary) ELSE sent \ {b}
  /\ server' = [server EXCEPT ![PathOf[b]] = v]
  /\ IF PathOf[b] = AnchorPath
       THEN wish' = v /\ crossed' = (Busy # {})
       ELSE UNCHANGED <<wish, crossed>>
  /\ UNCHANGED <<drop, fix>>

\* drop_anchor_here(): a task per press, or a line in the log.
DropAnchorHere ==
  /\ wish' = fix
  /\ \/ /\ \E d \in Drops \ Busy : drop' = [drop EXCEPT ![d] = <<"get", 0>>]
        /\ crossed' = (Busy # {})
     \/ UNCHANGED drop /\ crossed' = TRUE
  /\ UNCHANGED <<sent, server, fix>>

\* button_fire().  "@drop_here" acts on the press alone; a value the layout
\* does not give is not sent.
ButtonFire(b, v, isPress) ==
  IF PathOf[b] = DropHere
    THEN IF isPress THEN DropAnchorHere ELSE UNCHANGED <<sent, anchorVars>>
  ELSE IF v = Absent THEN UNCHANGED <<sent, anchorVars>>
  ELSE Put(b, v)

-----------------------------------------------------------------------------
(* The widget's events. *)

\* LV_EVENT_PRESSED: LVGL sees the finger on a button.
Pressed(b) ==
  /\ touch = b /\ pressed = NoButton
  /\ pressed' = b
  /\ IF b \in Held
       THEN /\ pending' = pending \cup {b} /\ age' = 0
            /\ fired' = [fired EXCEPT ![b] = FALSE]
            /\ UNCHANGED <<sent, anchorVars>>
       ELSE /\ fired' = [fired EXCEPT ![b] = TRUE]
            /\ ButtonFire(b, PressOf[b], TRUE)
            /\ UNCHANGED <<pending, age>>
  /\ UNCHANGED <<lost, handVars>>

\* The hold timer runs.  LVGL may run it before it reads the touch controller.
HoldElapsed(b) ==
  /\ b \in pending /\ age >= HoldTicks
  /\ ButtonFire(b, PressOf[b], TRUE)
  /\ fired' = [fired EXCEPT ![b] = TRUE]
  /\ pending' = pending \ {b} /\ age' = 0
  /\ UNCHANGED <<pressed, lost, handVars>>

\* Mutant: the hold timer survives its release.
ReleasedUncancelled(b) ==
  /\ pressed = b /\ touch = NoButton
  /\ pressed' = NoButton
  /\ IF b \notin pending /\ fired[b]
       THEN lost' = lost \ {b} /\ ButtonFire(b, ReleaseOf[b], FALSE)
       ELSE UNCHANGED <<lost, sent, anchorVars>>
  /\ rested' = 0 /\ late' = FALSE
  /\ UNCHANGED <<touch, pending, age, fired>>

\* Mutant: a hold that has fired is taken for one that was cancelled.
ReleasedHeld(b) ==
  /\ pressed = b /\ touch = NoButton
  /\ pressed' = NoButton
  /\ pending' = pending \ {b} /\ age' = 0
  /\ IF b \notin Held /\ fired[b]
       THEN lost' = lost \ {b} /\ ButtonFire(b, ReleaseOf[b], FALSE)
       ELSE UNCHANGED <<lost, sent, anchorVars>>
  /\ rested' = 0 /\ late' = FALSE
  /\ UNCHANGED <<touch, fired>>

\* LV_EVENT_RELEASED: a pending hold is cancelled without a PUT.
Released(b) ==
  /\ pressed = b /\ touch = NoButton
  /\ pressed' = NoButton
  /\ pending' = pending \ {b} /\ age' = 0
  /\ IF b \notin pending /\ fired[b]
       THEN lost' = lost \ {b} /\ ButtonFire(b, ReleaseOf[b], FALSE)
       ELSE UNCHANGED <<lost, sent, anchorVars>>
  /\ rested' = 0 /\ late' = FALSE
  /\ UNCHANGED <<touch, fired>>

\* LV_EVENT_PRESS_LOST: the finger has left the button; no PUT either way.
PressLost(b) ==
  /\ pressed = b
  /\ pressed' = NoButton /\ touch' = NoButton
  /\ pending' = pending \ {b} /\ age' = 0
  /\ lost' = lost \cup ({b} \cap sent)
  /\ rested' = 0 /\ late' = FALSE
  /\ UNCHANGED <<fired, sent, anchorVars>>

\* LV_EVENT_DELETE: a layout swap builds the page anew.  What the old buttons
\* sent stands.
Rebuild ==
  /\ pending' = {} /\ age' = 0
  /\ fired' = [b \in Buttons |-> FALSE]
  /\ lost' = lost \cup ({pressed} \cap sent)
  /\ pressed' = NoButton /\ touch' = NoButton
  /\ rested' = 0 /\ late' = FALSE
  /\ UNCHANGED <<sent, anchorVars>>

-----------------------------------------------------------------------------
(* drop_task(). *)

\* espos_sk_get_value() answers with the boat's position, or with nothing that
\* can be used.
PositionRead(d) ==
  /\ drop[d][1] = "get"
  /\ \/ drop' = [drop EXCEPT ![d] = <<"put", fix>>] /\ UNCHANGED crossed
     \/ drop' = [drop EXCEPT ![d] = <<"idle", 0>>] /\ crossed' = TRUE
  /\ UNCHANGED <<server, fix, wish, handVars, widgetVars>>

\* put_position()
PositionPut(d) ==
  /\ drop[d][1] = "put"
  /\ server' = [server EXCEPT ![AnchorPath] = drop[d][2]]
  /\ drop' = [drop EXCEPT ![d] = <<"idle", 0>>]
  /\ UNCHANGED <<fix, wish, crossed, handVars, widgetVars>>

ButtonNext ==
  \/ \E b \in Buttons :
       \/ TouchDown(b)
       \/ Pressed(b)
       \/ HoldElapsed(b)
       \/ Released(b)
       \/ PressLost(b)
  \/ TouchUp
  \/ Tick
  \/ Sail
  \/ Rebuild
  \/ \E d \in Drops : PositionRead(d) \/ PositionPut(d)

ButtonSpec == ButtonInit /\ [][ButtonNext]_buttonVars

-----------------------------------------------------------------------------
(***************************************************************************)
(* Properties.                                                             *)
(***************************************************************************)

\* A momentary button whose press was the last thing it sent is under the
\* finger still, or its press ended in a way that raises no RELEASED.
ReleaseFollowsPress == \A b \in sent : pressed = b \/ b \in lost

\* A button with a hold acts only after the finger rested on it for all of the
\* hold, unless the UI task was too late to see it leave.
HoldIsHeld ==
  [][\A b \in Held :
       ~fired[b] /\ fired'[b] => late \/ (rested >= HoldTicks /\ pressed = b)]_buttonVars

\* Once the drops under way are done the anchor is as the last gesture asked:
\* up after a RAISE, down where the boat was since the press after a DROP.
\* Not so when a drop failed, or one begun before the gesture was under way.
AnchorAsAsked ==
  Busy = {} /\ ~crossed =>
    IF wish \in 1 .. MaxFix THEN server[AnchorPath] \in wish .. fix
                            ELSE server[AnchorPath] = wish

\* In every state the types are right, a press is followed by its release, and
\* the anchor is as asked.
ButtonInv == ButtonTypeOK /\ ReleaseFollowsPress /\ AnchorAsAsked

-----------------------------------------------------------------------------
(***************************************************************************)
(* What the comments say and the code does not do.                         *)
(***************************************************************************)

\* "PRESS_LOST handled like RELEASED" (widget_factory.cpp:1859).
LostLikeReleased == \A b \in sent : pressed = b

\* "Releasing during a pending hold cancels the press timer with no PUT"
\* (widget_factory.cpp:1698-1699), also when the UI task is late.
EarlyReleaseCancels ==
  [][\A b \in Held : ~fired[b] /\ fired'[b] => rested >= HoldTicks]_buttonVars
=============================================================================
