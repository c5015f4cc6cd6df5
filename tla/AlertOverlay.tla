----------------------------- MODULE AlertOverlay -----------------------------
(***************************************************************************)
(* The alarm path of the panel, end to end: alarm sources and the Signal K *)
(* server, the stream and the UI queue that carry deltas in order, the     *)
(* notifications registry, the alert overlay with its chime, and the       *)
(* operator's ACK that travels back to the server and returns as an echo.  *)
(*                                                                         *)
(* Everything from a delta's arrival on the UI task to the end of the      *)
(* observers it fires is one step, as it is one posted lambda in the code  *)
(* (on_notification -> apply -> fire_observers -> on_change -> rebuild).   *)
(***************************************************************************)
EXTENDS NotificationsRegistry, Sequences, FiniteSets

CONSTANTS
  SourceStates,  (* severities the alarm sources use                        *)
  MinStates,     (* min_state values the layouts carry                      *)
  TapGuard,      (* the 500 ms pop-under-finger guard, in ticks             *)
  MaxInbox,      (* bound: deltas between the server and the registry       *)
  Lossy          (* whether an ACK or the stream can be lost on the way     *)

ASSUME EnvironmentAssumption ==
  /\ IsFiniteSet(Path)
  /\ SourceStates \subseteq NotState
  /\ MinStates \subseteq NotState
  /\ MinStates # {}
  /\ TapGuard \in Nat
  /\ MaxInbox \in Nat
  /\ Lossy \in BOOLEAN

VARIABLES
  enabled,     (* enabled_ *)
  min_state,   (* min_state_ *)
  shown,       (* current_path_ and the labels; None while root_ is hidden *)
  shown_at,    (* age of shown_at_, saturating at TapGuard *)
  chime,       (* the tone this step asked the chime for, or None *)
  server,      (* per path: the value the server holds, and who set it *)
  inbox,       (* deltas sent by the server, not yet applied on the UI task *)
  acks,        (* ACK deltas on their way to the server *)
  linked,      (* the Signal K stream is connected *)
  cleared_by,  (* history: whose clear the registry applied last, per path *)
  ack_sent_at  (* history: age of an ACK whose echo was not applied yet    *)

overlayVars == <<enabled, min_state, shown, shown_at>>
serverVars  == <<server, inbox, acks, linked>>
vars == <<registryVars, overlayVars, chime, serverVars, cleared_by, ack_sent_at>>

(* A value on a notifications path, None standing for JSON null. *)
Value == Notification \cup {None}

Cause == {"source", "echo"}

ASSUME NoneIsNoCause == None \notin Cause

Delta == [path : Path, value : Value, cause : Cause]

Shown == [path : Path, state : NotState, message : Message \cup {NoText}]

ASSUME NothingShownAssumption == None \notin Shown

OverlayTypeOK ==
  /\ enabled \in BOOLEAN
  /\ min_state \in NotState
  /\ shown \in Shown \cup {None}
  /\ shown_at \in 0 .. TapGuard
  /\ chime \in NotState \cup {None}
  /\ server \in [Path -> [value : Value, cause : Cause]]
  /\ inbox \in Seq(Delta)
  /\ acks \in SUBSET Path
  /\ linked \in BOOLEAN
  /\ cleared_by \in [Path -> Cause \cup {None}]
  /\ ack_sent_at \in [Path -> (0 .. SelfClearWindow) \cup {None}]

TypeOK == RegistryTypeOK /\ OverlayTypeOK

Init ==
  /\ RegistryInit
  /\ enabled \in BOOLEAN
  /\ min_state \in MinStates
  /\ shown = None
  /\ shown_at = TapGuard
  /\ chime = None
  /\ server = [p \in Path |-> [value |-> None, cause |-> "source"]]
  /\ inbox = <<>>
  /\ acks = {}
  /\ linked = TRUE
  /\ cleared_by = [p \in Path |-> None]
  /\ ack_sent_at = [p \in Path |-> None]

------------------------------------------------------------------------------
(* AlertOverlay::rebuild() and the observer that calls it. *)

(* What rebuild() may put on screen. *)
Showable == {p \in MostSevere : enabled /\ map[p].state >= min_state}

Content(p) ==
  [path |-> p, state |-> map[p].state, message |-> map[p].message]

Showing(p) == shown # None /\ shown.path = p

(* Reads the registry and the settings as this step leaves them. *)
Rebuild ==
  \/ /\ Showable' = {}
     /\ shown' = None
     /\ UNCHANGED shown_at
  \/ \E p \in Showable' :
       /\ shown' = Content(p)'
       /\ shown_at' = IF Showing(p) THEN shown_at ELSE 0

(* Mutant: an acknowledged path may beep. *)
ChimeAskedDespiteAck(p) ==
  /\ enabled
  /\ last_change_was_escalation
  /\ last_escalation_wants_sound
  /\ Showable # {}

(* Mutant: only the alarm on screen may beep. *)
ChimeAskedIfOnScreen(p) ==
  /\ enabled
  /\ last_change_was_escalation
  /\ last_escalation_wants_sound
  /\ ~is_acknowledged(p)
  /\ p \in Showable

(* The alert overlay's on_change callback, fired for a change of path p. *)
ChimeAsked(p) ==
  /\ enabled
  /\ last_change_was_escalation
  /\ last_escalation_wants_sound
  /\ ~is_acknowledged(p)
  /\ Showable # {}

OnChange(p) ==
  /\ \/ /\ ChimeAsked(p)'
        /\ \E q \in Showable' : chime' = map'[q].state
     \/ /\ ~ChimeAsked(p)'
        /\ chime' = None
  /\ Rebuild

NoChangeFired == chime' = None /\ UNCHANGED <<shown, shown_at>>

------------------------------------------------------------------------------
(* The panel's steps. *)

ClearedBy(d) == IF IsAlerting(d.value) THEN None ELSE d.cause

(* The lambda on_notification() posted, run by the UI task. *)
Deliver ==
  /\ inbox # <<>>
  /\ inbox' = Tail(inbox)
  /\ UNCHANGED <<enabled, min_state, server, acks, linked>>
  /\ \E d \in {Head(inbox)} :
       /\ Apply(d.path, d.value)
       /\ IF Fires(d.path, d.value) THEN OnChange(d.path) ELSE NoChangeFired
       /\ cleared_by' = [cleared_by EXCEPT ![d.path] = ClearedBy(d)]
       /\ ack_sent_at' =
            [ack_sent_at EXCEPT ![d.path] = IF d.cause = "echo" THEN None ELSE @]

(* A tap on ACK that the pop-under-finger guard lets through. *)
TapAck ==
  /\ shown # None
  /\ shown_at = TapGuard
  /\ UNCHANGED <<enabled, min_state, server, inbox, linked, cleared_by>>
  /\ \E p \in {shown.path} :
       LET sent == WantsServerAck(p) /\ linked IN
         /\ Acknowledge(p, sent)
         /\ OnChange(p)
         /\ acks' = IF sent THEN acks \cup {p} ELSE acks
         /\ ack_sent_at' =
              [ack_sent_at EXCEPT ![p] = IF sent THEN 0 ELSE @]

(* LayoutManager::apply() hands the overlay the new layout's block. *)
Configure ==
  /\ enabled' \in BOOLEAN
  /\ min_state' \in MinStates
  /\ UNCHANGED <<registryVars, serverVars, cleared_by, ack_sent_at>>
  /\ Rebuild
  /\ chime' = None

Tick ==
  /\ AgeStamps
  /\ shown_at' = IF shown_at = TapGuard THEN shown_at ELSE shown_at + 1
  /\ chime' = None
  /\ ack_sent_at' =
       [p \in Path |-> Older(ack_sent_at[p], SelfClearWindow)]
  /\ UNCHANGED <<enabled, min_state, shown, serverVars, cleared_by>>

------------------------------------------------------------------------------
(* The server and the alarm sources.  The server forwards every delta on a *)
(* notifications path to a connected panel, in order, and sends what it    *)
(* holds when the panel (re)subscribes.                                    *)

Outside ==
  /\ UNCHANGED <<registryVars, overlayVars, cleared_by, ack_sent_at>>
  /\ chime' = None

Broadcast(p, v, cause) ==
  /\ server' = [server EXCEPT ![p] = [value |-> v, cause |-> cause]]
  /\ IF linked
       THEN /\ Len(inbox) < MaxInbox
            /\ inbox' =
                 Append(inbox, [path |-> p, value |-> v, cause |-> cause])
       ELSE UNCHANGED inbox

ClearedValue == [state |-> Normal, message |-> NoText, wants_sound |-> FALSE]

(* A source raises, changes, repeats or clears its alarm. *)
SourceSays(p, v) ==
  /\ Broadcast(p, v, "source")
  /\ UNCHANGED <<acks, linked>>
  /\ Outside

SourceValue ==
  {n \in Notification : n.state \in SourceStates} \cup {ClearedValue, None}

(* The server takes our ACK delta: the path turns normal for everyone. *)
ServerTakesAck(p) ==
  /\ p \in acks
  /\ acks' = acks \ {p}
  /\ Broadcast(p, ClearedValue, "echo")
  /\ UNCHANGED linked
  /\ Outside

(* An ACK that was handed to the stream never reaches the server. *)
LoseAck(p) ==
  /\ Lossy
  /\ p \in acks
  /\ acks' = acks \ {p}
  /\ UNCHANGED <<server, inbox, linked>>
  /\ Outside

StreamDown ==
  /\ Lossy
  /\ linked
  /\ linked' = FALSE
  /\ acks' = {}
  /\ inbox' = <<>>
  /\ UNCHANGED server
  /\ Outside

Snapshot(p) ==
  [path |-> p, value |-> server[p].value, cause |-> server[p].cause]

StreamUp ==
  /\ ~linked
  /\ linked' = TRUE
  /\ \E order \in [1 .. Cardinality(Path) -> Path] :
       /\ \A p \in Path : \E i \in DOMAIN order : order[i] = p
       /\ inbox' = [i \in DOMAIN order |-> Snapshot(order[i])]
  /\ UNCHANGED <<server, acks>>
  /\ Outside

Next ==
  \/ Deliver
  \/ TapAck
  \/ Configure
  \/ Tick
  \/ \E p \in Path, v \in SourceValue : SourceSays(p, v)
  \/ \E p \in Path : ServerTakesAck(p)
  \/ \E p \in Path : LoseAck(p)
  \/ StreamDown
  \/ StreamUp

Spec == Init /\ [][Next]_vars

(* The UI task drains its queue; nothing makes a source speak, an operator *)
(* tap, an ACK arrive or the stream reconnect.                             *)
FairSpec == Spec /\ WF_vars(Deliver)

------------------------------------------------------------------------------
(* OverlayInSync: after every UI-task step the overlay shows exactly what  *)
(* the registry and the layout ask for: one of the most severe pending     *)
(* alarms at or above min_state, with its current severity and text, or    *)
(* nothing when there is none.  rebuild() runs only when an observer fires *)
(* or a layout is applied, so this says no early return of apply() skips a *)
(* change the operator should see.                                         *)
OverlayInSync ==
  IF Showable = {} THEN shown = None
                   ELSE \E p \in Showable : shown = Content(p)

(* AckCoversAlarm: what was acknowledged was an alarm, and it is never     *)
(* above the severity it was acknowledged at, whatever sequence of raises, *)
(* clears, echoes and repeats led there: no escalation stays hidden behind *)
(* an old ACK.                                                             *)
AckCoversAlarm ==
  \A p \in Path :
    acked[p] # None => /\ acked[p] >= Alert
                       /\ map[p] # None => map[p].state <= acked[p]

(* ChimeOnlyForFreshAlarm: the panel beeps only in a step that leaves an   *)
(* alarm of that very severity on screen and that raised a path which is   *)
(* not acknowledged; silence otherwise (clears, ACKs, edits, layouts).     *)
ChimeOnlyForFreshAlarm ==
  [][chime' # None =>
       /\ shown' # None
       /\ shown'.state = chime'
       /\ \E p \in Path :
            /\ acked'[p] = None
            /\ IsAlerting(map'[p])
            /\ map'[p].wants_sound
            /\ map'[p].state > PreviousState(p)]_vars

(* NoMissedChime: an unacknowledged alarm that asks for sound, appears or  *)
(* worsens and is at or above min_state always beeps, also when it is not  *)
(* the alarm on screen.                                                    *)
NoMissedChime ==
  [][\A p \in Path :
       (/\ enabled
        /\ acked'[p] = None
        /\ IsAlerting(map'[p])
        /\ map'[p].state > PreviousState(p)
        /\ map'[p].wants_sound
        /\ map'[p].state >= min_state)
         => chime' # None]_vars

(* GenuineClearRearms: once the source's own clear is what the registry    *)
(* applied last, and none of our ACKs for the path is still on its way out *)
(* or back, the path is no longer acknowledged, so that the same alarm     *)
(* coming back later pops up again.                                        *)
EchoUnderway(p) ==
  \/ p \in acks
  \/ \E i \in 1 .. Len(inbox) : inbox[i].path = p /\ inbox[i].cause = "echo"

GenuineClearRearms ==
  \A p \in Path :
    cleared_by[p] = "source" /\ ~EchoUnderway(p) => acked[p] = None

------------------------------------------------------------------------------
(* What the comments say and the code does not do. *)

(* EchoKeepsAck: the clear that comes back for our own ACK, inside the     *)
(* window, leaves the ACK in place while the alarm has not been cleared by *)
(* anyone else.  notifications_registry.h:193-195.                         *)
EchoKeepsAck ==
  [][\A p \in Path :
       (/\ inbox # <<>>
        /\ inbox' = Tail(inbox)
        /\ Head(inbox).path = p
        /\ Head(inbox).cause = "echo"
        /\ ack_sent_at[p] \notin {None, SelfClearWindow}
        /\ IsAlerting(map[p]))
         => acked'[p] = acked[p]]_vars

(* ReassertsOnlyIfNeverCleared: a path is only marked as re-asserting when *)
(* no clear of its source's own came between our echo and the new alarm.   *)
(* notifications_registry.cpp:16-19.                                       *)
ReassertsOnlyIfNeverCleared ==
  [][\A p \in reasserting' \ reasserting : cleared_by[p] = "echo"]_vars

(* BelowThresholdStaysSilent: an escalation below min_state does not beep. *)
(* alert_overlay.cpp:149-150.                                              *)
BelowThresholdStaysSilent ==
  [][chime' # None =>
       \E p \in Path :
         /\ IsAlerting(map'[p])
         /\ map'[p].state > PreviousState(p)
         /\ map'[p].state >= min_state]_vars

(* AckIsNoEscalation: observers fired by an ACK are not told that the      *)
(* change was an escalation.  notifications_registry.cpp:41-42.            *)
AckIsNoEscalation ==
  [][(\E p \in Path : acked[p] = None /\ acked'[p] # None)
       => ~last_change_was_escalation']_vars

------------------------------------------------------------------------------
(* The alarm display refines AlertPanel: the registry's level, its acks as *)
(* silences, and the overlay as the display.                               *)
Panel == INSTANCE AlertPanel WITH
  Level     <- NotState,
  Quiet     <- Normal,
  level     <- [p \in Path |-> IF map[p] = None THEN Normal ELSE map[p].state],
  silenced  <- acked,
  threshold <- IF enabled THEN min_state ELSE None,
  display   <- IF shown = None THEN None ELSE shown.path

(* PanelSpec: what AlertPanel promises is what this code does. *)
PanelSpec == Panel!Spec

(* AlarmReachesOperator: an alarm the server goes on holding, at a         *)
(* severity the layout shows and over a stream that in the end stays up,   *)
(* is on screen (itself or a worse one) again and again unless it is       *)
(* acknowledged, however often the stream dropped on the way.  (Not "for   *)
(* good": while deltas are under way a layout may raise min_state above    *)
(* the severity the panel still believes in.)                              *)
HeldAlarm(p) ==
  /\ IsAlerting(server[p].value)
  /\ enabled
  /\ server[p].value.state >= min_state

AlarmReachesOperator ==
  \A p \in Path :
    <>[](HeldAlarm(p) /\ linked) => []<>(acked[p] # None \/ shown # None)
==============================================================================
