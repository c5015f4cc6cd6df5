------------------------ MODULE NotificationsRegistry ------------------------
(***************************************************************************)
(* The registry of live `notifications.*` paths                            *)
(* (main/jlp/notifications_registry.{h,cpp}): what the panel knows of each *)
(* alarm, which ones the operator acknowledged here, and the bookkeeping   *)
(* that tells the echo of our own ACK from a clear by the alarm's source.  *)
(*                                                                         *)
(* All of it is touched on the UI task only, so each operation is one      *)
(* step.  The module has no Next of its own: AlertOverlay composes it with *)
(* the observers it calls and with the server that feeds it.               *)
(*                                                                         *)
(* The two time stamps are kept as ages (ticks since the stamp, saturating *)
(* at the window that reads them): `now - stamp < window` is all the code  *)
(* ever asks of them.                                                      *)
(***************************************************************************)
EXTENDS Integers

CONSTANTS
  Path,             (* notification paths, after the "notifications." prefix *)
  Message,          (* alarm texts                                           *)
  NoText,           (* the empty message                                     *)
  None,             (* no entry / no stamp / nothing shown                   *)
  SelfClearWindow,  (* kSelfClearWindowUs, in ticks                          *)
  ReassertWindow    (* kReassertWindowUs, in ticks                           *)

(* enum class NotState, ordered by severity. *)
Nominal   == 0
Normal    == 1
Alert     == 2
Warn      == 3
Alarm     == 4
Emergency == 5
NotState  == Nominal .. Emergency

(* struct Notification, without the path it is filed under. *)
Notification ==
  [state : NotState, message : Message \cup {NoText}, wants_sound : BOOLEAN]

ASSUME WindowsAssumption == SelfClearWindow \in Nat /\ ReassertWindow \in Nat

ASSUME NoneAssumption ==
  /\ None \notin Path
  /\ None \notin Int
  /\ None \notin Notification

VARIABLES
  map,                         (* map_: the last value applied per path       *)
  acked,                       (* acked_: severity the path was acked at      *)
  self_cleared,                (* self_cleared_: age of our un-echoed ACK     *)
  ack_clear_echo_at,           (* ack_clear_echo_at_: age of the echo's clear *)
  reasserting,                 (* reasserting_: sources that never let go     *)
  last_change_was_escalation,
  last_escalation_wants_sound

registryVars ==
  <<map, acked, self_cleared, ack_clear_echo_at, reasserting,
    last_change_was_escalation, last_escalation_wants_sound>>

RegistryTypeOK ==
  /\ map \in [Path -> Notification \cup {None}]
  /\ acked \in [Path -> NotState \cup {None}]
  /\ self_cleared \in [Path -> (0 .. SelfClearWindow) \cup {None}]
  /\ ack_clear_echo_at \in [Path -> (0 .. ReassertWindow) \cup {None}]
  /\ reasserting \in SUBSET Path
  /\ last_change_was_escalation \in BOOLEAN
  /\ last_escalation_wants_sound \in BOOLEAN

RegistryInit ==
  /\ map = [p \in Path |-> None]
  /\ acked = [p \in Path |-> None]
  /\ self_cleared = [p \in Path |-> None]
  /\ ack_clear_echo_at = [p \in Path |-> None]
  /\ reasserting = {}
  /\ last_change_was_escalation = FALSE
  /\ last_escalation_wants_sound = FALSE

------------------------------------------------------------------------------
(* most_severe(): the candidates it may return.  map_ is an unordered map  *)
(* scanned with a strict >, so among equally severe entries any one wins.  *)

IsAlerting(n) == n # None /\ n.state >= Alert

Pending == {p \in Path : acked[p] = None /\ IsAlerting(map[p])}

MostSevere ==
  {p \in Pending : \A q \in Pending : map[q].state <= map[p].state}

is_acknowledged(p) == acked[p] # None

------------------------------------------------------------------------------
(* take_self_clear(): is this clear the echo of our ACK?  The mark is      *)
(* consumed whether or not it is still fresh.                              *)
IsOurEcho(p) == self_cleared[p] # None /\ self_cleared[p] < SelfClearWindow

(* Mutant: the mark outlives the clear it was for. *)
take_self_clear_keeps_mark(p) == UNCHANGED self_cleared

take_self_clear(p) == self_cleared' = [self_cleared EXCEPT ![p] = None]

(* Mutant: a repeat is told by its text alone. *)
NoChangeByText(p, n) == map[p] # None /\ map[p].message = n.message

NoChange(p, n) ==
  /\ map[p] # None
  /\ map[p].state = n.state
  /\ map[p].message = n.message

(* A null value: the path is gone. *)
ApplyNull(p) ==
  /\ acked' = IF IsOurEcho(p) THEN acked ELSE [acked EXCEPT ![p] = None]
  /\ take_self_clear(p)
  /\ map' = [map EXCEPT ![p] = None]
  /\ last_change_was_escalation' = FALSE
  /\ last_escalation_wants_sound' = FALSE
  /\ UNCHANGED <<ack_clear_echo_at, reasserting>>

(* A nominal or normal value: the condition cleared; the entry stays. *)
ApplyClear(p, n) ==
  /\ n.state < Alert
  /\ acked' = IF IsOurEcho(p) THEN acked ELSE [acked EXCEPT ![p] = None]
  /\ ack_clear_echo_at' = IF IsOurEcho(p)
                            THEN [ack_clear_echo_at EXCEPT ![p] = 0]
                            ELSE ack_clear_echo_at
  /\ take_self_clear(p)
  /\ map' = IF NoChange(p, n) THEN map ELSE [map EXCEPT ![p] = n]
  /\ last_change_was_escalation' = FALSE
  /\ last_escalation_wants_sound' = FALSE
  /\ UNCHANGED reasserting

(* Raised again within the window of our echo: the source never let go. *)
Reasserts(p) ==
  ack_clear_echo_at[p] # None /\ ack_clear_echo_at[p] < ReassertWindow

(* What the stored severity was, as the escalation test reads it. *)
PreviousState(p) == IF map[p] = None THEN Normal ELSE map[p].state

(* Raised above the level it was acknowledged at: the ack is void. *)
(* Mutant: an acknowledgement is never outgrown. *)
OutgrowsAckNever(p, n) == FALSE

OutgrowsAck(p, n) == acked[p] # None /\ n.state > acked[p]

(* alert or worse. *)
ApplyAlert(p, n) ==
  /\ n.state >= Alert
  /\ self_cleared' = [self_cleared EXCEPT ![p] = None]
  /\ reasserting' = IF Reasserts(p) THEN reasserting \cup {p} ELSE reasserting
  /\ ack_clear_echo_at' = [ack_clear_echo_at EXCEPT ![p] = None]
  /\ acked' = IF OutgrowsAck(p, n) THEN [acked EXCEPT ![p] = None] ELSE acked
  /\ IF NoChange(p, n)
       THEN /\ map' = map
            /\ last_change_was_escalation' = FALSE
            /\ last_escalation_wants_sound' = FALSE
       ELSE /\ map' = [map EXCEPT ![p] = n]
            /\ last_change_was_escalation' = (n.state > PreviousState(p))
            /\ last_escalation_wants_sound' =
                 (n.state > PreviousState(p) /\ n.wants_sound)

(* NotificationsRegistry::apply().  v is None for a null value. *)
Apply(p, v) ==
  IF v = None THEN ApplyNull(p) ELSE ApplyClear(p, v) \/ ApplyAlert(p, v)

(* Whether that apply() ends in fire_observers(). *)
(* Mutant: a new text for the same severity fires nobody. *)
FiresOnStateOnly(p, v) ==
  IF v = None \/ map[p] = None THEN map[p] # None \/ v # None
                               ELSE map[p].state # v.state

Fires(p, v) == IF v = None THEN map[p] # None ELSE ~NoChange(p, v)

------------------------------------------------------------------------------
(* acknowledge(), followed by what its caller does with the result: `sent` *)
(* is whether put_notification_ack() handed the ACK to the stream.  The    *)
(* two flags keep the value the last apply() gave them.                    *)

WantsServerAck(p) == p \notin reasserting

Acknowledge(p, sent) ==
  /\ map[p] # None
  /\ sent => WantsServerAck(p)
  /\ acked' = [acked EXCEPT ![p] = map[p].state]
  /\ self_cleared' =
       [self_cleared EXCEPT ![p] = IF sent THEN 0
                                   ELSE IF WantsServerAck(p) THEN None ELSE @]
  /\ UNCHANGED <<map, ack_clear_echo_at, reasserting,
                 last_change_was_escalation, last_escalation_wants_sound>>

------------------------------------------------------------------------------
(* One tick of esp_timer, as the two windows see it. *)
Older(age, window) == IF age = None \/ age = window THEN age ELSE age + 1

AgeStamps ==
  /\ self_cleared' =
       [p \in Path |-> Older(self_cleared[p], SelfClearWindow)]
  /\ ack_clear_echo_at' =
       [p \in Path |-> Older(ack_clear_echo_at[p], ReassertWindow)]
  /\ UNCHANGED <<map, acked, reasserting,
                 last_change_was_escalation, last_escalation_wants_sound>>
==============================================================================
