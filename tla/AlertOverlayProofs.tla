-------------------------- MODULE AlertOverlayProofs --------------------------
(***************************************************************************)
(* Proofs about AlertOverlay for any set of paths, any messages, windows   *)
(* and settings, any inbox bound, with and without loss.                   *)
(***************************************************************************)
EXTENDS AlertOverlay, FiniteSetTheorems, TLAPS

(* The registry's operations keep its types. *)
LEMMA ApplyType ==
  ASSUME RegistryTypeOK, NEW p \in Path, NEW v \in Value, Apply(p, v)
  PROVE  RegistryTypeOK'
<1>1. CASE v = None
  BY <1>1, NoneAssumption, WindowsAssumption
     DEF RegistryTypeOK, Apply, ApplyNull, take_self_clear
<1>2. CASE v # None
  <2>1. v \in Notification
    BY <1>2 DEF Value
  <2>2. CASE ApplyClear(p, v)
    <3>1. map' \in [Path -> Notification \cup {None}]
      BY <2>1, <2>2 DEF RegistryTypeOK, ApplyClear
    <3>2. acked' \in [Path -> NotState \cup {None}]
      BY <2>2 DEF RegistryTypeOK, ApplyClear
    <3>3. self_cleared' \in [Path -> (0 .. SelfClearWindow) \cup {None}]
      BY <2>2 DEF RegistryTypeOK, ApplyClear, take_self_clear
    <3>4. ack_clear_echo_at' \in [Path -> (0 .. ReassertWindow) \cup {None}]
      BY <2>2, WindowsAssumption DEF RegistryTypeOK, ApplyClear
    <3>5. QED
      BY <2>2, <3>1, <3>2, <3>3, <3>4 DEF RegistryTypeOK, ApplyClear
  <2>3. CASE ApplyAlert(p, v)
    <3>1. map' \in [Path -> Notification \cup {None}]
      BY <2>1, <2>3 DEF RegistryTypeOK, ApplyAlert
    <3>2. acked' \in [Path -> NotState \cup {None}]
      BY <2>3 DEF RegistryTypeOK, ApplyAlert
    <3>3. self_cleared' \in [Path -> (0 .. SelfClearWindow) \cup {None}]
      BY <2>3 DEF RegistryTypeOK, ApplyAlert
    <3>4. ack_clear_echo_at' \in [Path -> (0 .. ReassertWindow) \cup {None}]
      BY <2>3 DEF RegistryTypeOK, ApplyAlert
    <3>5. /\ last_change_was_escalation' \in BOOLEAN
          /\ last_escalation_wants_sound' \in BOOLEAN
      <4>1. \A a, b : (a /\ b) \in BOOLEAN
        OBVIOUS
      <4>2. \A a, b : (a > b) \in BOOLEAN
        OBVIOUS
      <4>3. QED BY <2>3, <4>1, <4>2, Zenon DEF ApplyAlert
    <3>6. reasserting' \in SUBSET Path
      BY <2>3 DEF RegistryTypeOK, ApplyAlert
    <3>7. QED
      BY <3>1, <3>2, <3>3, <3>4, <3>5, <3>6 DEF RegistryTypeOK
  <2>4. QED BY <1>2, <2>2, <2>3 DEF Apply
<1>3. QED BY <1>1, <1>2

LEMMA AcknowledgeType ==
  ASSUME RegistryTypeOK, NEW p \in Path, NEW sent \in BOOLEAN,
         Acknowledge(p, sent)
  PROVE  RegistryTypeOK'
<1>1. map[p].state \in NotState
  BY DEF RegistryTypeOK, Acknowledge, Notification
<1>2. QED
  BY <1>1, NoneAssumption, WindowsAssumption DEF RegistryTypeOK, Acknowledge

(* Ages stay within the window that saturates them. *)
LEMMA OlderType ==
  ASSUME NEW w \in Nat, NEW a \in (0 .. w) \cup {None}
  PROVE  Older(a, w) \in (0 .. w) \cup {None}
BY NoneAssumption DEF Older

LEMMA AgeType ==
  ASSUME RegistryTypeOK, AgeStamps
  PROVE  RegistryTypeOK'
BY OlderType, WindowsAssumption DEF RegistryTypeOK, AgeStamps

(* What rebuild() puts on screen is well-typed whenever the registry is. *)
LEMMA RebuildType ==
  ASSUME RegistryTypeOK', enabled' \in BOOLEAN, shown_at \in 0 .. TapGuard,
         Rebuild
  PROVE  /\ shown' \in Shown \cup {None}
         /\ shown_at' \in 0 .. TapGuard
<1>1. CASE shown' = None /\ shown_at' = shown_at
  BY <1>1
<1>2. ASSUME NEW p \in Showable',
             shown' = Content(p)',
             shown_at' = IF Showing(p) THEN shown_at ELSE 0
      PROVE  shown' \in Shown /\ shown_at' \in 0 .. TapGuard
  <2>1. p \in Path /\ map'[p] \in Notification
    BY <1>2 DEF Showable, MostSevere, Pending, IsAlerting, RegistryTypeOK
  <2>2. QED
    BY <1>2, <2>1, EnvironmentAssumption DEF Content, Shown, Notification
<1>3. QED BY <1>1, <1>2 DEF Rebuild

LEMMA OnChangeType ==
  ASSUME RegistryTypeOK', enabled' \in BOOLEAN, shown_at \in 0 .. TapGuard,
         NEW p \in Path, OnChange(p)
  PROVE  /\ shown' \in Shown \cup {None}
         /\ shown_at' \in 0 .. TapGuard
         /\ chime' \in NotState \cup {None}
<1>1. chime' \in NotState \cup {None}
  <2>1. ASSUME NEW q \in Showable', chime' = map'[q].state
        PROVE  chime' \in NotState
    BY <2>1 DEF Showable, MostSevere, Pending, IsAlerting, RegistryTypeOK,
                Notification
  <2>2. QED BY <2>1 DEF OnChange
<1>2. QED BY <1>1, RebuildType DEF OnChange

(* The values the environment puts under way are well-typed. *)
LEMMA ClearedValueType == ClearedValue \in Notification
BY DEF ClearedValue, Notification, NotState, Nominal, Normal, Emergency

LEMMA BroadcastType ==
  ASSUME TypeOK, NEW p \in Path, NEW v \in Value, NEW c \in Cause,
         Broadcast(p, v, c)
  PROVE  /\ server' \in [Path -> [value : Value, cause : Cause]]
         /\ inbox' \in Seq(Delta)
<1>1. server' \in [Path -> [value : Value, cause : Cause]]
  BY DEF TypeOK, OverlayTypeOK, Broadcast
<1>2. inbox' \in Seq(Delta)
  <2>1. [path |-> p, value |-> v, cause |-> c] \in Delta
    BY DEF Delta
  <2>2. inbox \in Seq(Delta)
    BY DEF TypeOK, OverlayTypeOK
  <2>3. CASE linked
    BY <2>1, <2>2, <2>3 DEF Broadcast
  <2>4. CASE ~linked
    BY <2>2, <2>4 DEF Broadcast
  <2>5. QED BY <2>3, <2>4
<1>3. QED BY <1>1, <1>2

------------------------------------------------------------------------------
LEMMA TypeInit == Init => TypeOK
<1> SUFFICES ASSUME Init PROVE TypeOK
  OBVIOUS
<1>1. RegistryTypeOK
  BY DEF Init, RegistryInit, RegistryTypeOK
<1>2. inbox \in Seq(Delta)
  BY DEF Init
<1>3. server \in [Path -> [value : Value, cause : Cause]]
  BY DEF Init, Value, Cause
<1>4. min_state \in NotState /\ shown_at \in 0 .. TapGuard
  BY EnvironmentAssumption DEF Init
<1>5. QED
  BY <1>1, <1>2, <1>3, <1>4 DEF Init, TypeOK, OverlayTypeOK

(* A step outside the panel keeps the panel's own types. *)
LEMMA OutsideType ==
  ASSUME TypeOK, Outside,
         server' \in [Path -> [value : Value, cause : Cause]],
         inbox' \in Seq(Delta), acks' \in SUBSET Path, linked' \in BOOLEAN
  PROVE  TypeOK'
BY DEF TypeOK, RegistryTypeOK, OverlayTypeOK, Outside, registryVars, overlayVars

LEMMA TypeStep == TypeOK /\ [Next]_vars => TypeOK'
<1> SUFFICES ASSUME TypeOK, [Next]_vars PROVE TypeOK'
  OBVIOUS
<1> USE DEF TypeOK
<1>1. CASE Deliver
  <2>1. PICK d \in {Head(inbox)} :
          /\ Apply(d.path, d.value)
          /\ IF Fires(d.path, d.value) THEN OnChange(d.path) ELSE NoChangeFired
          /\ cleared_by' = [cleared_by EXCEPT ![d.path] = ClearedBy(d)]
          /\ ack_sent_at' = [ack_sent_at EXCEPT
                               ![d.path] = IF d.cause = "echo" THEN None ELSE @]
    BY <1>1 DEF Deliver
  <2>2. inbox \in Seq(Delta) /\ inbox # <<>>
    BY <1>1 DEF Deliver, OverlayTypeOK
  <2>3. d \in Delta /\ inbox' \in Seq(Delta)
    BY <1>1, <2>1, <2>2 DEF Deliver
  <2>4. d.path \in Path /\ d.value \in Value /\ d.cause \in Cause
    BY <2>3 DEF Delta
  <2>5. RegistryTypeOK'
    BY <2>1, <2>4, ApplyType
  <2>6. UNCHANGED <<enabled, min_state, server, acks, linked>>
    BY <1>1 DEF Deliver
  <2>7. /\ shown' \in Shown \cup {None}
        /\ shown_at' \in 0 .. TapGuard
        /\ chime' \in NotState \cup {None}
    <3>1. CASE Fires(d.path, d.value)
      BY <2>1, <2>4, <2>5, <2>6, <3>1, OnChangeType DEF OverlayTypeOK
    <3>2. CASE ~Fires(d.path, d.value)
      BY <2>1, <3>2 DEF NoChangeFired, OverlayTypeOK
    <3>3. QED BY <3>1, <3>2
  <2>8. cleared_by' \in [Path -> Cause \cup {None}]
    BY <2>1, <2>4 DEF OverlayTypeOK, ClearedBy
  <2>9. ack_sent_at' \in [Path -> (0 .. SelfClearWindow) \cup {None}]
    BY <2>1, <2>4 DEF OverlayTypeOK
  <2>10. QED
    BY <2>3, <2>5, <2>6, <2>7, <2>8, <2>9 DEF OverlayTypeOK
<1>2. CASE TapAck
  <2>1. PICK p \in {shown.path} :
          LET sent == WantsServerAck(p) /\ linked IN
            /\ Acknowledge(p, sent)
            /\ OnChange(p)
            /\ acks' = IF sent THEN acks \cup {p} ELSE acks
            /\ ack_sent_at' =
                 [ack_sent_at EXCEPT ![p] = IF sent THEN 0 ELSE @]
    BY <1>2 DEF TapAck
  <2>2. p \in Path
    BY <1>2, <2>1 DEF TapAck, OverlayTypeOK, Shown
  <2>3. RegistryTypeOK'
    BY <2>1, <2>2, AcknowledgeType DEF OverlayTypeOK, WantsServerAck
  <2>4. UNCHANGED <<enabled, min_state, server, inbox, linked, cleared_by>>
    BY <1>2 DEF TapAck
  <2>5. /\ shown' \in Shown \cup {None}
        /\ shown_at' \in 0 .. TapGuard
        /\ chime' \in NotState \cup {None}
    BY <2>1, <2>2, <2>3, <2>4, OnChangeType DEF OverlayTypeOK
  <2>6. acks' \in SUBSET Path
    BY <2>1, <2>2 DEF OverlayTypeOK
  <2>7. ack_sent_at' \in [Path -> (0 .. SelfClearWindow) \cup {None}]
    BY <2>1, <2>2, WindowsAssumption DEF OverlayTypeOK
  <2>8. QED
    BY <2>3, <2>4, <2>5, <2>6, <2>7 DEF OverlayTypeOK
<1>3. CASE Configure
  <2>1. RegistryTypeOK'
    BY <1>3 DEF Configure, RegistryTypeOK, registryVars
  <2>2. /\ enabled' \in BOOLEAN
        /\ min_state' \in NotState
        /\ chime' = None
        /\ UNCHANGED <<server, inbox, acks, linked, cleared_by, ack_sent_at>>
    BY <1>3, EnvironmentAssumption DEF Configure, serverVars
  <2>3. shown' \in Shown \cup {None} /\ shown_at' \in 0 .. TapGuard
    BY <1>3, <2>1, <2>2, RebuildType DEF Configure, OverlayTypeOK
  <2>4. QED
    BY <2>1, <2>2, <2>3 DEF OverlayTypeOK
<1>4. CASE Tick
  <2>1. RegistryTypeOK'
    BY <1>4, AgeType DEF Tick
  <2>2. shown_at' \in 0 .. TapGuard
    BY <1>4, EnvironmentAssumption DEF Tick, OverlayTypeOK
  <2>3. ack_sent_at' \in [Path -> (0 .. SelfClearWindow) \cup {None}]
    BY <1>4, OlderType, WindowsAssumption DEF Tick, OverlayTypeOK
  <2>4. QED
    BY <1>4, <2>1, <2>2, <2>3 DEF Tick, serverVars, OverlayTypeOK
<1>5. ASSUME NEW p \in Path, NEW v \in SourceValue, SourceSays(p, v)
      PROVE  TypeOK'
  <2>1. v \in Value /\ "source" \in Cause
    BY ClearedValueType DEF SourceValue, Value, Cause
  <2>2. Broadcast(p, v, "source") /\ Outside /\ UNCHANGED <<acks, linked>>
    BY <1>5 DEF SourceSays
  <2>3. /\ server' \in [Path -> [value : Value, cause : Cause]]
        /\ inbox' \in Seq(Delta)
    BY <2>1, <2>2, BroadcastType
  <2>4. QED BY <2>2, <2>3, OutsideType DEF OverlayTypeOK
<1>6. ASSUME NEW p \in Path, ServerTakesAck(p)
      PROVE  TypeOK'
  <2>1. ClearedValue \in Value /\ "echo" \in Cause
    BY ClearedValueType DEF Value, Cause
  <2>2. /\ Broadcast(p, ClearedValue, "echo")
        /\ Outside
        /\ acks' = acks \ {p}
        /\ UNCHANGED linked
    BY <1>6 DEF ServerTakesAck
  <2>3. /\ server' \in [Path -> [value : Value, cause : Cause]]
        /\ inbox' \in Seq(Delta)
    BY <2>1, <2>2, BroadcastType
  <2>4. acks' \in SUBSET Path
    BY <2>2 DEF OverlayTypeOK
  <2>5. QED BY <2>2, <2>3, <2>4, OutsideType DEF OverlayTypeOK
<1>7. ASSUME NEW p \in Path, LoseAck(p)
      PROVE  TypeOK'
  <2>1. /\ Outside
        /\ acks' = acks \ {p}
        /\ UNCHANGED <<server, inbox, linked>>
    BY <1>7 DEF LoseAck
  <2>2. acks' \in SUBSET Path
    BY <2>1 DEF OverlayTypeOK
  <2>3. QED BY <2>1, <2>2, OutsideType DEF OverlayTypeOK
<1>8. CASE StreamDown
  <2>1. inbox' \in Seq(Delta)
    BY <1>8 DEF StreamDown
  <2>2. QED BY <1>8, <2>1, OutsideType DEF StreamDown, OverlayTypeOK
<1>9. CASE StreamUp
  <2>1. PICK order \in [1 .. Cardinality(Path) -> Path] :
          inbox' = [i \in DOMAIN order |-> Snapshot(order[i])]
    BY <1>9 DEF StreamUp
  <2>2. Cardinality(Path) \in Nat
    BY EnvironmentAssumption, FS_CardinalityType
  <2>3. \A p \in Path : Snapshot(p) \in Delta
    BY DEF Snapshot, Delta, OverlayTypeOK
  <2>4. inbox' \in [1 .. Cardinality(Path) -> Delta]
    BY <2>1, <2>3
  <2>5. inbox' \in Seq(Delta)
    BY <2>2, <2>4
  <2>6. QED BY <1>9, <2>5, OutsideType DEF StreamUp, OverlayTypeOK
<1>10. CASE UNCHANGED vars
  BY <1>10 DEF RegistryTypeOK, OverlayTypeOK, vars, registryVars, overlayVars,
               serverVars
<1>11. QED
  BY <1>1, <1>2, <1>3, <1>4, <1>5, <1>6, <1>7, <1>8, <1>9, <1>10 DEF Next

(* TypeCorrect: every reachable state of the alarm path is well-typed. *)
THEOREM TypeCorrect == Spec => []TypeOK
BY TypeInit, TypeStep, PTL DEF Spec

------------------------------------------------------------------------------
(* The inductive invariant.  OverlayInSync alone is not inductive: when    *)
(* apply() returns early because neither severity nor text changed, the    *)
(* overlay is not rebuilt, and only AckCoversAlarm says that the ACK was   *)
(* not voided on the way to that return.                                   *)
IInv == TypeOK /\ OverlayInSync /\ AckCoversAlarm

LEMMA SafetyInit == Init => OverlayInSync /\ AckCoversAlarm
BY DEF Init, RegistryInit, OverlayInSync, AckCoversAlarm, Showable, MostSevere,
       Pending, IsAlerting

(* rebuild() always leaves the overlay in sync. *)
LEMMA RebuildSyncs == Rebuild => OverlayInSync'
BY DEF Rebuild, OverlayInSync

(* An overlay left alone stays in sync while nothing it reads changes. *)
LEMMA SyncKept ==
  ASSUME OverlayInSync,
         UNCHANGED <<map, enabled, min_state, shown>>,
         Pending' = Pending
  PROVE  OverlayInSync'
<1>1. Showable' = Showable
  BY DEF Showable, MostSevere
<1>2. \A p : Content(p)' = Content(p)
  BY DEF Content
<1>3. QED BY <1>1, <1>2 DEF OverlayInSync

(* An apply() that fires no observer changes nothing the overlay reads. *)
LEMMA SilentApply ==
  ASSUME RegistryTypeOK, AckCoversAlarm, NEW p \in Path, NEW v \in Value,
         Apply(p, v), ~Fires(p, v)
  PROVE  map' = map /\ Pending' = Pending
<1>1. CASE v = None
  <2>1. map[p] = None /\ map' = [map EXCEPT ![p] = None]
    BY <1>1 DEF Fires, Apply, ApplyNull
  <2>2. map' = map
    BY <2>1 DEF RegistryTypeOK
  <2>3. \A q \in Path : q # p => acked'[q] = acked[q]
    BY <1>1 DEF Apply, ApplyNull, RegistryTypeOK
  <2>4. QED BY <2>1, <2>2, <2>3 DEF Pending, IsAlerting
<1>2. CASE v # None
  <2>1. NoChange(p, v) /\ v \in Notification
    BY <1>2 DEF Fires, Value
  <2>2. CASE ApplyClear(p, v)
    <3>1. map' = map /\ map[p].state < Alert
      BY <2>1, <2>2 DEF ApplyClear, NoChange
    <3>2. \A q \in Path : q # p => acked'[q] = acked[q]
      BY <2>2 DEF ApplyClear, RegistryTypeOK
    <3>3. ~IsAlerting(map[p])
      BY <2>1, <3>1 DEF IsAlerting, Notification, NotState, Alert, Nominal,
                        Emergency, NoChange
    <3>4. QED BY <3>1, <3>2, <3>3 DEF Pending
  <2>3. CASE ApplyAlert(p, v)
    <3>1. map' = map
      BY <2>1, <2>3 DEF ApplyAlert
    <3>2. ~OutgrowsAck(p, v)
      BY <2>1, NoneAssumption
         DEF OutgrowsAck, AckCoversAlarm, NoChange, RegistryTypeOK,
             Notification, NotState, Nominal, Emergency
    <3>3. acked' = acked
      BY <2>3, <3>2 DEF ApplyAlert
    <3>4. QED BY <3>1, <3>3 DEF Pending
  <2>4. QED BY <1>2, <2>2, <2>3 DEF Apply
<1>3. QED BY <1>1, <1>2

(* apply() never leaves an alarm above the level it was acknowledged at. *)
LEMMA ApplyKeepsCover ==
  ASSUME RegistryTypeOK, AckCoversAlarm, NEW p \in Path, NEW v \in Value,
         Apply(p, v)
  PROVE  AckCoversAlarm'
<1> USE DEF Alert, Nominal, Emergency, NotState
<1>0. \A q \in Path : acked[q] # None => acked[q] \in NotState
  BY DEF RegistryTypeOK
<1>1. CASE v = None
  BY <1>1 DEF Apply, ApplyNull, AckCoversAlarm, RegistryTypeOK
<1>2. CASE v # None
  <2>1. v \in Notification
    BY <1>2 DEF Value
  <2>2. v.state \in NotState
    BY <2>1 DEF Notification
  <2>3. CASE ApplyClear(p, v)
    <3>1. \A q \in Path : acked'[q] # None => acked'[q] = acked[q]
      BY <2>3 DEF ApplyClear, RegistryTypeOK
    <3>2. \A q \in Path : q # p => map'[q] = map[q]
      BY <2>3 DEF ApplyClear, RegistryTypeOK
    <3>3. map'[p] = v \/ map'[p] = map[p]
      BY <2>3 DEF ApplyClear, RegistryTypeOK
    <3>4. v.state < Alert
      BY <2>3 DEF ApplyClear
    <3>5. QED
      BY <1>0, <2>2, <3>1, <3>2, <3>3, <3>4 DEF AckCoversAlarm
  <2>4. CASE ApplyAlert(p, v)
    <3>1. \A q \in Path : acked'[q] # None => acked'[q] = acked[q]
      BY <2>4 DEF ApplyAlert, RegistryTypeOK
    <3>2. \A q \in Path : q # p => map'[q] = map[q]
      BY <2>4 DEF ApplyAlert, RegistryTypeOK
    <3>3. map'[p] = v \/ map'[p] = map[p]
      BY <2>4 DEF ApplyAlert, RegistryTypeOK
    <3>4. acked'[p] # None => v.state <= acked[p]
      BY <1>0, <2>2, <2>4 DEF ApplyAlert, OutgrowsAck, RegistryTypeOK
    <3>5. QED
      BY <1>0, <2>2, <3>1, <3>2, <3>3, <3>4 DEF AckCoversAlarm
  <2>5. QED BY <1>2, <2>3, <2>4 DEF Apply
<1>3. QED BY <1>1, <1>2

(* What is on screen can be acknowledged: it is an alarm of the registry. *)
LEMMA ShownIsAlerting ==
  ASSUME OverlayInSync, shown # None
  PROVE  /\ shown.path \in Path
         /\ IsAlerting(map[shown.path])
BY DEF OverlayInSync, Showable, MostSevere, Pending, Content

LEMMA SafetyStep == IInv /\ [Next]_vars => OverlayInSync' /\ AckCoversAlarm'
<1> SUFFICES ASSUME IInv, [Next]_vars
             PROVE  OverlayInSync' /\ AckCoversAlarm'
  OBVIOUS
<1> USE DEF IInv, TypeOK
<1>1. CASE Deliver
  <2>1. PICK d \in {Head(inbox)} :
          /\ Apply(d.path, d.value)
          /\ IF Fires(d.path, d.value) THEN OnChange(d.path) ELSE NoChangeFired
    BY <1>1 DEF Deliver
  <2>2. d.path \in Path /\ d.value \in Value
    <3>1. inbox \in Seq(Delta) /\ inbox # <<>>
      BY <1>1 DEF Deliver, OverlayTypeOK
    <3>2. d \in Delta
      BY <2>1, <3>1
    <3>3. QED BY <3>2 DEF Delta
  <2>3. AckCoversAlarm'
    BY <2>1, <2>2, ApplyKeepsCover
  <2>4. CASE Fires(d.path, d.value)
    BY <2>1, <2>3, <2>4, RebuildSyncs DEF OnChange
  <2>5. CASE ~Fires(d.path, d.value)
    <3>1. map' = map /\ Pending' = Pending
      BY <2>1, <2>2, <2>5, SilentApply
    <3>2. UNCHANGED <<enabled, min_state, shown>>
      BY <1>1, <2>1, <2>5 DEF Deliver, NoChangeFired
    <3>3. QED BY <2>3, <3>1, <3>2, SyncKept
  <2>6. QED BY <2>4, <2>5
<1>2. CASE TapAck
  <2>1. PICK p \in {shown.path} :
          LET sent == WantsServerAck(p) /\ linked IN
            Acknowledge(p, sent) /\ OnChange(p)
    BY <1>2 DEF TapAck
  <2>2. p \in Path /\ IsAlerting(map[p])
    BY <1>2, <2>1, ShownIsAlerting DEF TapAck
  <2>3. OverlayInSync'
    BY <2>1, RebuildSyncs DEF OnChange
  <2>4. map' = map /\ acked' = [acked EXCEPT ![p] = map[p].state]
    BY <2>1 DEF Acknowledge
  <2>5. map[p] \in Notification
    BY <2>2 DEF IsAlerting, RegistryTypeOK
  <2>6. AckCoversAlarm'
    BY <2>2, <2>4, <2>5
       DEF AckCoversAlarm, IsAlerting, RegistryTypeOK, Notification, NotState,
           Nominal, Emergency
  <2>7. QED BY <2>3, <2>6
<1>3. CASE Configure
  BY <1>3, RebuildSyncs DEF Configure, registryVars, AckCoversAlarm
<1>4. CASE Tick
  <2>1. UNCHANGED <<map, acked, enabled, min_state, shown>>
    BY <1>4 DEF Tick, AgeStamps
  <2>2. Pending' = Pending
    BY <2>1 DEF Pending
  <2>3. QED BY <2>1, <2>2, SyncKept DEF AckCoversAlarm
<1>5. ASSUME Outside
      PROVE  OverlayInSync' /\ AckCoversAlarm'
  BY <1>5, SyncKept
     DEF Outside, registryVars, overlayVars, AckCoversAlarm, Pending
<1>6. ASSUME UNCHANGED vars
      PROVE  OverlayInSync' /\ AckCoversAlarm'
  BY <1>6, SyncKept
     DEF vars, registryVars, overlayVars, AckCoversAlarm, Pending
<1>7. QED
  BY <1>1, <1>2, <1>3, <1>4, <1>5, <1>6
     DEF Next, SourceSays, ServerTakesAck, LoseAck, StreamDown, StreamUp

LEMMA Inductive == Spec => []IInv
<1>1. Init => IInv
  BY TypeInit, SafetyInit DEF IInv
<1>2. IInv /\ [Next]_vars => IInv'
  BY TypeStep, SafetyStep DEF IInv
<1>3. QED BY <1>1, <1>2, PTL DEF Spec

(* OverlayAlwaysInSync: the overlay is never stale, for any set of alarms. *)
THEOREM OverlayAlwaysInSync == Spec => []OverlayInSync
BY Inductive, PTL DEF IInv

(* NoEscalationHidden: no ACK ever hides an alarm that has grown past it. *)
THEOREM NoEscalationHidden == Spec => []AckCoversAlarm
BY Inductive, PTL DEF IInv

------------------------------------------------------------------------------
(* Refinement of AlertPanel. *)

LevelOf(v) == IF v = None THEN Normal ELSE v.state

(* The abstract panel would show what rebuild() would show. *)
LEMMA SameShowable ==
  ASSUME RegistryTypeOK, min_state \in NotState
  PROVE  Panel!Showable = Showable
<1>1. Panel!Loud = Pending
  <2>1. ASSUME NEW p \in Path
        PROVE  LevelOf(map[p]) > Normal <=> IsAlerting(map[p])
    <3>1. CASE map[p] = None
      BY <3>1 DEF LevelOf, IsAlerting, Normal
    <3>2. CASE map[p] # None
      <4>1. map[p].state \in NotState
        BY <3>2 DEF RegistryTypeOK, Notification
      <4>2. QED
        BY <3>2, <4>1
           DEF LevelOf, IsAlerting, NotState, Nominal, Normal, Alert, Emergency
    <3>3. QED BY <3>1, <3>2
  <2>2. QED BY <2>1 DEF Panel!Loud, Pending, LevelOf
<1>2. \A p \in Pending : map[p] # None
  BY DEF Pending, IsAlerting
<1>3. Panel!Worst = MostSevere
  BY <1>1, <1>2 DEF Panel!Worst, MostSevere, Pending
<1>4. \A p \in MostSevere : p \in Path /\ map[p] # None
  BY <1>2 DEF MostSevere, Pending
<1>5. min_state # None
  BY NoneAssumption DEF NotState
<1>6. QED BY <1>3, <1>4, <1>5 DEF Panel!Showable, Showable

LEMMA SyncIsRight ==
  ASSUME RegistryTypeOK, min_state \in NotState, OverlayInSync
  PROVE  Panel!DisplayRight
<1>1. Panel!Showable = Showable
  BY SameShowable
<1>2. CASE Showable = {}
  BY <1>1, <1>2 DEF OverlayInSync, Panel!DisplayRight
<1>3. CASE Showable # {}
  <2>1. PICK p \in Showable : shown = Content(p)
    BY <1>3 DEF OverlayInSync
  <2>2. shown.path = p /\ shown # None
    <3>1. p \in Path /\ map[p] # None
      BY DEF Showable, MostSevere, Pending, IsAlerting
    <3>2. Content(p) \in Shown
      BY <3>1 DEF Content, Shown, RegistryTypeOK, Notification
    <3>3. QED BY <2>1, <3>1, <3>2, NothingShownAssumption DEF Content
  <2>3. QED BY <1>1, <1>3, <2>1, <2>2 DEF Panel!DisplayRight
<1>4. QED BY <1>2, <1>3

(* A delta of path p with value v is a Change of the abstract panel. *)
LEMMA ApplyIsChange ==
  ASSUME RegistryTypeOK, AckCoversAlarm, NEW p \in Path, NEW v \in Value,
         Apply(p, v), UNCHANGED <<enabled, min_state>>, Panel!DisplayRight'
  PROVE  \E l \in NotState : Panel!Change(p, l)
<1> DEFINE lvl == [q \in Path |-> LevelOf(map[q])]
<1>1. LevelOf(v) \in NotState
  BY DEF LevelOf, Value, Notification, NotState, Nominal, Normal, Emergency
<1>2. lvl' = [lvl EXCEPT ![p] = LevelOf(v)]
  <2>1. \A q \in Path : q # p => map'[q] = map[q]
    BY DEF Apply, ApplyNull, ApplyClear, ApplyAlert, RegistryTypeOK
  <2>2. LevelOf(map'[p]) = LevelOf(v)
    <3>1. CASE v = None
      BY <3>1 DEF Apply, ApplyNull, RegistryTypeOK, LevelOf
    <3>2. CASE v # None
      <4>1. map'[p] = v \/ (map'[p] = map[p] /\ NoChange(p, v))
        BY <3>2 DEF Apply, ApplyClear, ApplyAlert, RegistryTypeOK
      <4>2. QED BY <3>2, <4>1 DEF NoChange, LevelOf
    <3>3. QED BY <3>1, <3>2
  <2>3. QED BY <2>1, <2>2 DEF LevelOf
<1>3. \/ acked[p] # None /\ LevelOf(v) <= acked[p] /\ acked' = acked
      \/ acked' = [acked EXCEPT ![p] = None]
  <2>1. acked' = acked \/ acked' = [acked EXCEPT ![p] = None]
    BY DEF Apply, ApplyNull, ApplyClear, ApplyAlert
  <2>2. CASE acked[p] = None
    BY <2>1, <2>2 DEF RegistryTypeOK
  <2>3. CASE acked[p] # None /\ acked' = acked
    <3>1. acked[p] \in NotState /\ acked[p] >= Alert
      BY <2>3 DEF RegistryTypeOK, AckCoversAlarm
    <3>2. CASE LevelOf(v) < Alert
      BY <1>1, <2>3, <3>1, <3>2
         DEF NotState, Alert, Nominal, Emergency
    <3>3. CASE v # None /\ ApplyAlert(p, v)
      <4>1. acked' # [acked EXCEPT ![p] = None]
        BY <2>3 DEF RegistryTypeOK
      <4>2. ~OutgrowsAck(p, v)
        BY <3>3, <4>1 DEF ApplyAlert
      <4>3. QED
        BY <1>1, <2>3, <3>1, <3>3, <4>2
           DEF OutgrowsAck, LevelOf, NotState, Nominal, Emergency
    <3>4. QED
      BY <3>2, <3>3 DEF Apply, ApplyClear, LevelOf, Normal, Alert
  <2>4. QED BY <2>1, <2>2, <2>3
<1>4. Panel!Change(p, LevelOf(v))
  BY <1>2, <1>3 DEF Panel!Change, LevelOf
<1>5. QED BY <1>1, <1>4

LEMMA PanelInit == Init => Panel!Init
<1> SUFFICES ASSUME Init PROVE Panel!Init
  OBVIOUS
<1>1. (IF enabled THEN min_state ELSE None) \in NotState \cup {None}
  BY EnvironmentAssumption DEF Init
<1>2. \A p \in Path : map[p] = None /\ acked[p] = None
  BY DEF Init, RegistryInit
<1>3. acked = [p \in Path |-> None] /\ shown = None
  BY DEF Init, RegistryInit
<1>4. QED BY <1>1, <1>2, <1>3 DEF Panel!Init

(* Every step of the alarm path is a step of the abstract panel, or leaves *)
(* all of it as it is.                                                     *)
LEMMA PanelStep == IInv /\ IInv' /\ [Next]_vars => [Panel!Next]_(Panel!vars)
<1> SUFFICES ASSUME IInv, IInv', [Next]_vars
             PROVE  [Panel!Next]_(Panel!vars)
  OBVIOUS
<1> USE DEF IInv, TypeOK
<1>0. Panel!DisplayRight'
  <2>1. RegistryTypeOK' /\ (min_state \in NotState)' /\ OverlayInSync'
    BY DEF OverlayTypeOK
  <2>2. QED BY <2>1, SyncIsRight, PTL
<1>1. CASE Deliver
  <2>1. PICK d \in {Head(inbox)} : Apply(d.path, d.value)
    BY <1>1 DEF Deliver
  <2>2. d.path \in Path /\ d.value \in Value
    <3>1. inbox \in Seq(Delta) /\ inbox # <<>>
      BY <1>1 DEF Deliver, OverlayTypeOK
    <3>2. d \in Delta
      BY <2>1, <3>1
    <3>3. QED BY <3>2 DEF Delta
  <2>3. UNCHANGED <<enabled, min_state>>
    BY <1>1 DEF Deliver
  <2>4. QED BY <1>0, <2>1, <2>2, <2>3, ApplyIsChange DEF Panel!Next
<1>2. CASE TapAck
  <2>1. PICK p \in {shown.path} :
          Acknowledge(p, WantsServerAck(p) /\ linked)
    BY <1>2 DEF TapAck
  <2>2. shown # None /\ UNCHANGED <<enabled, min_state>>
    BY <1>2 DEF TapAck
  <2>3. p \in Path /\ map[p] # None
    BY <2>1, <2>2, ShownIsAlerting DEF IsAlerting
  <2>4. map' = map /\ acked' = [acked EXCEPT ![p] = map[p].state]
    BY <2>1 DEF Acknowledge
  <2>5. p # None
    BY <2>3, NoneAssumption
  <2>6. Panel!Silence
    BY <1>0, <2>1, <2>2, <2>3, <2>4, <2>5 DEF Panel!Silence
  <2>7. QED BY <2>6 DEF Panel!Next
<1>3. CASE Configure
  <2>1. map' = map /\ acked' = acked
    BY <1>3 DEF Configure, registryVars
  <2>2. (IF enabled' THEN min_state' ELSE None) \in NotState \cup {None}
    BY DEF OverlayTypeOK
  <2>3. Panel!Configure(IF enabled' THEN min_state' ELSE None)
    BY <1>0, <2>1 DEF Panel!Configure
  <2>4. QED BY <2>2, <2>3 DEF Panel!Next
<1>4. ASSUME UNCHANGED <<map, acked, enabled, min_state, shown>>
      PROVE  UNCHANGED Panel!vars
  BY <1>4 DEF Panel!vars
<1>5. CASE Tick
  BY <1>4, <1>5 DEF Tick, AgeStamps
<1>6. CASE Outside
  BY <1>4, <1>6 DEF Outside, registryVars, overlayVars
<1>7. CASE UNCHANGED vars
  BY <1>4, <1>7 DEF vars, registryVars, overlayVars
<1>8. QED
  BY <1>1, <1>2, <1>3, <1>5, <1>6, <1>7
     DEF Next, SourceSays, ServerTakesAck, LoseAck, StreamDown, StreamUp

(* Refines: the alarm path implements AlertPanel - the worst alarm nobody  *)
(* silenced is on screen, only a tap on it silences it, and an alarm that  *)
(* outgrows its silence is heard again.                                    *)
THEOREM Refines == Spec => PanelSpec
BY PanelInit, PanelStep, Inductive, PTL DEF Spec, PanelSpec, Panel!Spec

------------------------------------------------------------------------------
(* The tone, when there is one, is the severity rebuild() puts on screen. *)
LEMMA ChimeMatchesScreen ==
  ASSUME RegistryTypeOK', NEW p \in Path, OnChange(p), chime' # None
  PROVE  ChimeAsked(p)' /\ shown' # None /\ shown'.state = chime'
<1>1. ChimeAsked(p)' /\ \E q \in Showable' : chime' = map'[q].state
  BY DEF OnChange
<1>2. PICK q \in Showable' : chime' = map'[q].state
  BY <1>1
<1>3. PICK r \in Showable' : shown' = Content(r)'
  BY <1>2 DEF OnChange, Rebuild
<1>4. \A s \in Showable' : s \in Path /\ map'[s] \in Notification
  BY DEF Showable, MostSevere, Pending, IsAlerting, RegistryTypeOK
<1>5. map'[q].state = map'[r].state
  <2>1. map'[q].state <= map'[r].state /\ map'[r].state <= map'[q].state
    BY <1>2, <1>3 DEF Showable, MostSevere
  <2>2. map'[q].state \in NotState /\ map'[r].state \in NotState
    BY <1>2, <1>3, <1>4 DEF Notification
  <2>3. QED BY <2>1, <2>2 DEF NotState, Nominal, Emergency
<1>6. shown' \in Shown
  BY <1>3, <1>4 DEF Content, Shown, Notification
<1>7. QED
  BY <1>1, <1>2, <1>3, <1>5, <1>6, NothingShownAssumption DEF Content

(* The flag the chime reads is set only by an apply() that raised its path *)
(* and asked for sound.                                                    *)
LEMMA EscalationIsFresh ==
  ASSUME RegistryTypeOK, NEW p \in Path, NEW v \in Value, Apply(p, v),
         last_change_was_escalation', last_escalation_wants_sound'
  PROVE  /\ IsAlerting(map'[p])
         /\ map'[p].wants_sound
         /\ map'[p].state > PreviousState(p)
<1>1. v # None
  BY DEF Apply, ApplyNull
<1>2. ApplyAlert(p, v)
  BY <1>1 DEF Apply, ApplyClear
<1>3. /\ map' = [map EXCEPT ![p] = v]
      /\ v.state > PreviousState(p)
      /\ v.wants_sound
      /\ v.state >= Alert
  BY <1>2 DEF ApplyAlert
<1>4. map'[p] = v
  BY <1>3 DEF RegistryTypeOK
<1>5. QED BY <1>1, <1>3, <1>4 DEF IsAlerting

LEMMA ChimeStep ==
  ASSUME IInv, IInv', [Next]_vars, vars' # vars, chime' # None
  PROVE  /\ shown' # None
         /\ shown'.state = chime'
         /\ \E p \in Path :
              /\ acked'[p] = None
              /\ IsAlerting(map'[p])
              /\ map'[p].wants_sound
              /\ map'[p].state > PreviousState(p)
<1> USE DEF IInv, TypeOK
<1>1. CASE Deliver
  <2>1. PICK d \in {Head(inbox)} :
          /\ Apply(d.path, d.value)
          /\ IF Fires(d.path, d.value) THEN OnChange(d.path) ELSE NoChangeFired
    BY <1>1 DEF Deliver
  <2>2. d.path \in Path /\ d.value \in Value
    <3>1. inbox \in Seq(Delta) /\ inbox # <<>>
      BY <1>1 DEF Deliver, OverlayTypeOK
    <3>2. d \in Delta
      BY <2>1, <3>1
    <3>3. QED BY <3>2 DEF Delta
  <2>3. OnChange(d.path)
    BY <2>1 DEF NoChangeFired
  <2>4. /\ ChimeAsked(d.path)'
        /\ shown' # None
        /\ shown'.state = chime'
    BY <2>2, <2>3, ChimeMatchesScreen
  <2>5. /\ last_change_was_escalation'
        /\ last_escalation_wants_sound'
        /\ acked'[d.path] = None
    BY <2>4 DEF ChimeAsked, is_acknowledged
  <2>6. QED BY <2>1, <2>2, <2>4, <2>5, EscalationIsFresh
<1>2. CASE TapAck
  <2>1. PICK p \in {shown.path} :
          LET sent == WantsServerAck(p) /\ linked IN
            Acknowledge(p, sent) /\ OnChange(p)
    BY <1>2 DEF TapAck
  <2>2. p \in Path /\ map[p] \in Notification
    BY <1>2, <2>1, ShownIsAlerting DEF TapAck, IsAlerting, RegistryTypeOK
  <2>3. acked'[p] = map[p].state /\ map[p].state \in NotState
    BY <2>1, <2>2 DEF Acknowledge, RegistryTypeOK, Notification
  <2>4. acked'[p] # None
    BY <2>3, NoneAssumption DEF NotState
  <2>5. acked'[p] = None
    BY <2>1, <2>2, ChimeMatchesScreen DEF ChimeAsked, is_acknowledged
  <2>6. QED BY <2>4, <2>5
<1>3. QED
  BY <1>1, <1>2
     DEF Next, Configure, Tick, Outside, SourceSays, ServerTakesAck, LoseAck,
         StreamDown, StreamUp

(* ChimeTruthful: whenever the panel beeps, it beeps for an alarm that was *)
(* just raised, wants sound and is not acknowledged, in the tone of the    *)
(* alarm on screen.                                                        *)
THEOREM ChimeTruthful == Spec => ChimeOnlyForFreshAlarm
<1>1. IInv /\ IInv' /\ [Next]_vars =>
        [chime' # None =>
           /\ shown' # None
           /\ shown'.state = chime'
           /\ \E p \in Path :
                /\ acked'[p] = None
                /\ IsAlerting(map'[p])
                /\ map'[p].wants_sound
                /\ map'[p].state > PreviousState(p)]_vars
  BY ChimeStep
<1>2. QED BY <1>1, Inductive, PTL DEF Spec, ChimeOnlyForFreshAlarm

(* Among the pending alarms one is the most severe, since there are six    *)
(* severities only.                                                        *)
LEMMA WorstExists ==
  ASSUME NEW P, NEW m, NEW p \in P, \A q \in P : m[q].state \in Alert .. Emergency
  PROVE  \E q \in P : /\ m[p].state <= m[q].state
                      /\ \A r \in P : m[r].state <= m[q].state
<1> DEFINE At(k) == \E q \in P : m[q].state = k
<1>1. ASSUME NEW k \in Alert .. Emergency, At(k),
             \A j \in Alert .. Emergency : j > k => ~At(j)
      PROVE  \E q \in P : \A r \in P : m[r].state <= m[q].state
  <2>1. PICK q \in P : m[q].state = k
    BY <1>1
  <2>2. \A r \in P : m[r].state <= m[q].state
    BY <1>1, <2>1 DEF Alert, Emergency
  <2> QED
    BY <2>2
<1>2. At(2) \/ At(3) \/ At(4) \/ At(5)
  BY DEF Alert, Emergency
<1> HIDE DEF At
<1> QED
  <2>1. \E k \in 2 .. 5 : At(k) /\ \A j \in 2 .. 5 : j > k => ~At(j)
    <3>1. CASE At(5)
      BY <3>1
    <3>2. CASE ~At(5) /\ At(4)
      BY <3>2
    <3>3. CASE ~At(5) /\ ~At(4) /\ At(3)
      BY <3>3
    <3>4. CASE ~At(5) /\ ~At(4) /\ ~At(3) /\ At(2)
      BY <3>4
    <3> QED
      BY <1>2, <3>1, <3>2, <3>3, <3>4
  <2> QED
    BY <1>1, <2>1 DEF Alert, Emergency

LEMMA NoMissStep ==
  ASSUME IInv, IInv', [Next]_vars, NEW p \in Path, enabled, acked'[p] = None,
         IsAlerting(map'[p]), map'[p].state > PreviousState(p), map'[p].wants_sound,
         map'[p].state >= min_state
  PROVE  chime' # None
<1> USE DEF IInv, TypeOK
<1>1. map' # map
  <2> SUFFICES ASSUME map' = map
               PROVE  FALSE
    OBVIOUS
  <2>1. map[p] # None /\ map[p] \in Notification
    BY DEF IsAlerting, RegistryTypeOK
  <2>2. map[p].state \in Int
    BY <2>1 DEF Notification, NotState, Nominal, Emergency
  <2> QED
    BY <2>1, <2>2 DEF PreviousState
<1>2. Deliver
  BY <1>1 DEF Next, TapAck, Acknowledge, Configure, Tick, AgeStamps, Outside, SourceSays,
              ServerTakesAck, LoseAck, StreamDown, StreamUp, vars, registryVars
<1>3. PICK d \in {Head(inbox)} :
        /\ Apply(d.path, d.value)
        /\ IF Fires(d.path, d.value) THEN OnChange(d.path) ELSE NoChangeFired
  BY <1>2 DEF Deliver
<1>4. d.path \in Path /\ d.value \in Value
  <2>1. inbox \in Seq(Delta) /\ inbox # <<>>
    BY <1>2 DEF Deliver, OverlayTypeOK
  <2>2. d \in Delta
    BY <1>3, <2>1
  <2> QED
    BY <2>2 DEF Delta
<1>5. d.path = p
  <2> SUFFICES ASSUME d.path # p
               PROVE  FALSE
    OBVIOUS
  <2>1. map'[p] = map[p]
    BY <1>3, <1>4 DEF Apply, ApplyNull, ApplyClear, ApplyAlert, RegistryTypeOK
  <2>2. map[p] # None /\ map[p].state \in Int
    BY <2>1 DEF IsAlerting, RegistryTypeOK, Notification, NotState, Nominal, Emergency
  <2> QED
    BY <2>1, <2>2 DEF PreviousState
<1>6. d.value # None /\ ApplyAlert(p, d.value) /\ ~NoChange(p, d.value)
  <2>1. d.value # None
    BY <1>3, <1>5 DEF Apply, ApplyNull, IsAlerting, RegistryTypeOK
  <2>2. ~NoChange(p, d.value)
    <3> SUFFICES ASSUME NoChange(p, d.value)
                 PROVE  FALSE
      OBVIOUS
    <3>1. map' = map
      BY <1>3, <1>5, <2>1 DEF Apply, ApplyClear, ApplyAlert
    <3> QED
      BY <1>1, <3>1
  <2>3. ~ApplyClear(p, d.value)
    <3> SUFFICES ASSUME ApplyClear(p, d.value)
                 PROVE  FALSE
      OBVIOUS
    <3>1. map'[p] = d.value /\ d.value.state < Alert
      BY <1>4, <2>2 DEF ApplyClear, RegistryTypeOK
    <3>2. d.value.state \in Int
      BY <2>1, <1>4 DEF Value, Notification, NotState, Nominal, Emergency
    <3> QED
      BY <3>1, <3>2 DEF IsAlerting, Alert
  <2> QED
    BY <1>3, <1>5, <2>1, <2>2, <2>3 DEF Apply
<1>7. map'[p] = d.value /\ last_change_was_escalation' /\ last_escalation_wants_sound'
  <2>1. map'[p] = d.value
    BY <1>6 DEF ApplyAlert, RegistryTypeOK
  <2> QED
    BY <1>6, <2>1 DEF ApplyAlert
<1>8. OnChange(p)
  BY <1>3, <1>5, <1>6 DEF Fires
<1>9. enabled' /\ min_state' = min_state /\ min_state \in NotState
  BY <1>2 DEF Deliver, OverlayTypeOK
<1>10. p \in Pending'
  BY DEF Pending
<1>11. \A q \in Pending' : map'[q] \in Notification /\ map'[q].state \in Alert .. Emergency
  BY DEF Pending, IsAlerting, RegistryTypeOK, Notification, NotState, Nominal, Alert, Emergency
<1>12. PICK q \in MostSevere' : map'[p].state <= map'[q].state
  <2>1. PICK q \in Pending' : /\ map'[p].state <= map'[q].state
                              /\ \A r \in Pending' : map'[r].state <= map'[q].state
    BY <1>10, <1>11, WorstExists
  <2> QED
    BY <2>1 DEF MostSevere
<1>13. q \in Showable'
  <2>1. map'[p].state \in Int /\ map'[q].state \in Int /\ min_state \in Int
    BY <1>9, <1>10, <1>11, <1>12 DEF MostSevere, NotState, Nominal, Alert, Emergency
  <2> QED
    BY <1>9, <1>12, <2>1 DEF Showable
<1>14. ChimeAsked(p)'
  BY <1>7, <1>9, <1>13 DEF ChimeAsked, is_acknowledged
<1>15. PICK r \in Showable' : chime' = map'[r].state
  BY <1>8, <1>14 DEF OnChange
<1>16. chime' \in NotState
  BY <1>15 DEF Showable, MostSevere, Pending, IsAlerting, RegistryTypeOK, Notification
<1> QED
  BY <1>16, NoneAssumption DEF NotState

(* AlarmsAreHeard: an alarm that is not acknowledged, asks for sound and   *)
(* appears or worsens at or above min_state always makes the panel beep,   *)
(* also when another alarm is on screen (alert_overlay.cpp:141-160).       *)
THEOREM AlarmsAreHeard == Spec => NoMissedChime
<1>1. IInv /\ IInv' /\ [Next]_vars =>
        [\A p \in Path :
           (/\ enabled
            /\ acked'[p] = None
            /\ IsAlerting(map'[p])
            /\ map'[p].state > PreviousState(p)
            /\ map'[p].wants_sound
            /\ map'[p].state >= min_state)
             => chime' # None]_vars
  BY NoMissStep
<1>2. QED BY <1>1, Inductive, PTL DEF Spec, NoMissedChime

------------------------------------------------------------------------------
(* When nothing is lost: a mark that waits for an echo stands for one that *)
(* is under way, and a path whose clear was applied last is not alerting.  *)
Rearms ==
  /\ linked
  /\ \A p \in Path : self_cleared[p] # None => EchoUnderway(p)
  /\ \A p \in Path : cleared_by[p] # None => ~IsAlerting(map[p])
  /\ GenuineClearRearms

(* Every apply() consumes the mark, and leaves other paths alone; a clear  *)
(* that is not taken for our echo takes the ACK with it.                   *)
LEMMA ApplyTakesMark ==
  ASSUME RegistryTypeOK, NEW p \in Path, NEW v \in Value, Apply(p, v)
  PROVE  /\ self_cleared'[p] = None
         /\ \A q \in Path \ {p} : /\ self_cleared'[q] = self_cleared[q]
                                  /\ acked'[q] = acked[q] /\ map'[q] = map[q]
         /\ ~IsAlerting(v) => /\ ~IsAlerting(map[p])'
                              /\ self_cleared[p] = None => acked'[p] = None
<1>1. CASE v = None
  BY <1>1 DEF Apply, ApplyNull, take_self_clear, IsOurEcho, IsAlerting, RegistryTypeOK
<1>2. CASE v # None /\ ApplyClear(p, v)
  <2>1. v \in Notification /\ v.state < Alert
    BY <1>2 DEF Value, ApplyClear
  <2>2. map'[p] = v \/ (NoChange(p, v) /\ map'[p] = map[p])
    BY <1>2 DEF ApplyClear, RegistryTypeOK
  <2>3. ~IsAlerting(map'[p])
    BY <2>1, <2>2 DEF NoChange, IsAlerting, Notification, NotState, Alert, Nominal, Emergency
  <2>4. /\ self_cleared'[p] = None
        /\ \A q \in Path \ {p} : /\ self_cleared'[q] = self_cleared[q]
                                 /\ acked'[q] = acked[q] /\ map'[q] = map[q]
        /\ self_cleared[p] = None => acked'[p] = None
    BY <1>2 DEF ApplyClear, take_self_clear, IsOurEcho, RegistryTypeOK
  <2> QED
    BY <2>3, <2>4
<1>3. CASE v # None /\ ApplyAlert(p, v)
  BY <1>3 DEF ApplyAlert, IsAlerting, RegistryTypeOK
<1> QED
  BY <1>1, <1>2, <1>3 DEF Apply

(* A delta that leaves the queue takes away an echo of its own path only.  *)
LEMMA EchoLeaves ==
  ASSUME TypeOK, inbox # <<>>, inbox' = Tail(inbox), acks' = acks, NEW q \in Path,
         EchoUnderway(q)
  PROVE  EchoUnderway(q)' \/ (Head(inbox).path = q /\ Head(inbox).cause = "echo")
<1>1. inbox \in Seq(Delta)
  BY DEF TypeOK, OverlayTypeOK
<1>2. /\ Len(inbox') = Len(inbox) - 1 /\ Len(inbox) \in Nat \ {0} /\ Head(inbox) = inbox[1]
      /\ \A i \in 2 .. Len(inbox) : i - 1 \in 1 .. Len(inbox') /\ inbox'[i - 1] = inbox[i]
  BY <1>1
<1>3. CASE q \in acks
  BY <1>3 DEF EchoUnderway
<1>4. ASSUME NEW i \in 1 .. Len(inbox), inbox[i].path = q, inbox[i].cause = "echo"
      PROVE  EchoUnderway(q)' \/ (Head(inbox).path = q /\ Head(inbox).cause = "echo")
  <2>1. CASE i = 1
    BY <1>2, <1>4, <2>1
  <2>2. CASE i # 1
    <3>1. i - 1 \in 1 .. Len(inbox') /\ inbox'[i - 1] = inbox[i]
      BY <1>2, <2>2
    <3>2. inbox'[i - 1].path = q /\ inbox'[i - 1].cause = "echo"
      BY <1>4, <3>1
    <3> QED
      BY <3>1, <3>2 DEF EchoUnderway
  <2> QED
    BY <2>1, <2>2
<1> QED
  BY <1>3, <1>4 DEF EchoUnderway

(* What is broadcast comes on top of what was under way.                   *)
LEMMA EchoStays ==
  ASSUME TypeOK, linked, NEW p \in Path, NEW v \in Value, NEW cause \in Cause,
         Broadcast(p, v, cause), NEW q \in Path, EchoUnderway(q),
         q \in acks => q \in acks' \/ (q = p /\ cause = "echo")
  PROVE  EchoUnderway(q)'
<1> DEFINE e == [path |-> p, value |-> v, cause |-> cause]
<1>1. inbox \in Seq(Delta) /\ e \in Delta
  BY DEF TypeOK, OverlayTypeOK, Delta
<1>2. inbox' = Append(inbox, e)
  BY DEF Broadcast
<1>3. e.path = p /\ e.cause = cause
  OBVIOUS
<1> HIDE DEF e
<1>4. /\ Len(inbox') = Len(inbox) + 1 /\ Len(inbox) \in Nat /\ inbox'[Len(inbox) + 1] = e
      /\ \A i \in 1 .. Len(inbox) : inbox'[i] = inbox[i]
  BY <1>1, <1>2
<1>5. CASE q \in acks /\ q \notin acks'
  <2>1. Len(inbox) + 1 \in 1 .. Len(inbox')
    BY <1>4
  <2> QED
    BY <1>3, <1>4, <1>5, <2>1 DEF EchoUnderway
<1>6. CASE q \in acks'
  BY <1>6 DEF EchoUnderway
<1>7. ASSUME NEW i \in 1 .. Len(inbox), inbox[i].path = q, inbox[i].cause = "echo"
      PROVE  EchoUnderway(q)'
  <2>1. i \in 1 .. Len(inbox')
    BY <1>4
  <2> QED
    BY <1>4, <1>7, <2>1 DEF EchoUnderway
<1> QED
  BY <1>5, <1>6, <1>7 DEF EchoUnderway

(* A step that touches neither the registry nor the history.               *)
LEMMA RearmsKept ==
  ASSUME Rearms, linked', UNCHANGED <<map, acked, cleared_by>>,
         \A p \in Path : /\ self_cleared'[p] # None => self_cleared[p] # None
                         /\ EchoUnderway(p) => EchoUnderway(p)'
  PROVE  Rearms'
BY DEF Rearms, GenuineClearRearms, IsAlerting

LEMMA RearmsStep ==
  ASSUME ~Lossy, IInv, Rearms, [Next]_vars
  PROVE  Rearms'
<1> USE DEF IInv
<1>0. TypeOK /\ RegistryTypeOK /\ linked
  BY DEF TypeOK, Rearms
<1>1. CASE Deliver
  <2>0. /\ inbox # <<>> /\ inbox' = Tail(inbox) /\ acks' = acks /\ linked' = linked
        /\ \E d \in {Head(inbox)} :
             /\ Apply(d.path, d.value)
             /\ cleared_by' = [cleared_by EXCEPT ![d.path] = ClearedBy(d)]
    BY <1>1 DEF Deliver
  <2>1. PICK d \in {Head(inbox)} :
          /\ Apply(d.path, d.value)
          /\ cleared_by' = [cleared_by EXCEPT ![d.path] = ClearedBy(d)]
    BY <2>0
  <2>2. d \in Delta
    <3>1. inbox \in Seq(Delta)
      BY <1>0 DEF TypeOK, OverlayTypeOK
    <3> QED
      BY <2>0, <2>1, <3>1
  <2>3. d.path \in Path /\ d.value \in Value /\ d.cause \in Cause
    BY <2>2 DEF Delta
  <2>4. /\ self_cleared'[d.path] = None
        /\ \A q \in Path \ {d.path} : /\ self_cleared'[q] = self_cleared[q]
                                      /\ acked'[q] = acked[q] /\ map'[q] = map[q]
        /\ ~IsAlerting(d.value) => /\ ~IsAlerting(map[d.path])'
                                   /\ self_cleared[d.path] = None => acked'[d.path] = None
    BY <1>0, <2>1, <2>3, ApplyTakesMark
  <2>5. /\ cleared_by'[d.path] = ClearedBy(d)
        /\ \A q \in Path \ {d.path} : cleared_by'[q] = cleared_by[q]
    BY <1>0, <2>1, <2>3 DEF TypeOK, OverlayTypeOK
  <2>6. \A q \in Path : EchoUnderway(q) => EchoUnderway(q)' \/ (d.path = q /\ d.cause = "echo")
    BY <1>0, <2>1, <2>0, EchoLeaves
  <2>7. \A q \in Path : self_cleared'[q] # None => EchoUnderway(q)'
    BY <2>4, <2>6 DEF Rearms
  <2>8. \A q \in Path : cleared_by'[q] # None => ~IsAlerting(map[q])'
    <3>1. cleared_by'[d.path] # None => ~IsAlerting(map[d.path])'
      BY <2>4, <2>5 DEF ClearedBy
    <3>2. \A q \in Path \ {d.path} : cleared_by'[q] # None => ~IsAlerting(map[q])'
      BY <2>4, <2>5 DEF Rearms, IsAlerting
    <3> QED
      BY <3>1, <3>2
  <2>9. GenuineClearRearms'
    <3>1. ASSUME cleared_by'[d.path] = "source", ~EchoUnderway(d.path)'
          PROVE  acked'[d.path] = None
      <4>1. ~IsAlerting(d.value) /\ d.cause = "source"
        BY <2>5, <3>1, NoneIsNoCause DEF ClearedBy, Cause
      <4>2. ~EchoUnderway(d.path)
        BY <2>3, <2>6, <3>1, <4>1
      <4>3. self_cleared[d.path] = None
        BY <2>3, <4>2 DEF Rearms
      <4> QED
        BY <2>4, <4>1, <4>3
    <3>2. ASSUME NEW q \in Path \ {d.path}, cleared_by'[q] = "source", ~EchoUnderway(q)'
          PROVE  acked'[q] = None
      BY <2>4, <2>5, <2>6, <3>2 DEF Rearms, GenuineClearRearms
    <3> QED
      BY <3>1, <3>2 DEF GenuineClearRearms
  <2> QED
    BY <1>0, <2>0, <2>7, <2>8, <2>9 DEF Rearms
<1>2. CASE TapAck
  <2>1. PICK p \in {shown.path} :
          LET sent == WantsServerAck(p) /\ linked IN
            Acknowledge(p, sent) /\ acks' = IF sent THEN acks \cup {p} ELSE acks
    BY <1>2 DEF TapAck
  <2>2. p \in Path /\ IsAlerting(map[p])
    BY <1>2, <2>1, ShownIsAlerting DEF TapAck
  <2>3. UNCHANGED <<inbox, linked, cleared_by, map>>
    BY <1>2, <2>1 DEF TapAck, Acknowledge
  <2>4. \A q \in Path : EchoUnderway(q) => EchoUnderway(q)'
    BY <2>1, <2>3 DEF EchoUnderway
  <2>5. \A q \in Path \ {p} : acked'[q] = acked[q] /\ self_cleared'[q] = self_cleared[q]
    BY <1>0, <2>1 DEF Acknowledge, RegistryTypeOK
  <2>6. self_cleared'[p] # None => EchoUnderway(p)'
    <3>1. CASE WantsServerAck(p)
      BY <1>0, <2>1, <3>1 DEF EchoUnderway
    <3>2. CASE ~WantsServerAck(p)
      <4>1. self_cleared'[p] = self_cleared[p]
        BY <1>0, <2>1, <2>2, <3>2 DEF Acknowledge, RegistryTypeOK
      <4> QED
        BY <2>2, <2>4, <4>1 DEF Rearms
    <3> QED
      BY <3>1, <3>2
  <2>7. cleared_by[p] = None
    BY <2>2 DEF Rearms
  <2>8. GenuineClearRearms'
    BY <2>3, <2>4, <2>5, <2>7, NoneIsNoCause DEF Cause, Rearms, GenuineClearRearms
  <2> QED
    BY <1>0, <2>2, <2>3, <2>4, <2>5, <2>6, <2>8 DEF Rearms, IsAlerting
<1>3. CASE Configure
  BY <1>0, <1>3, RearmsKept DEF Configure, registryVars, serverVars, EchoUnderway
<1>4. CASE Tick
  <2>1. \A p \in Path : self_cleared'[p] # None => self_cleared[p] # None
    BY <1>4 DEF Tick, AgeStamps, Older
  <2> QED
    BY <1>0, <1>4, <2>1, RearmsKept DEF Tick, AgeStamps, serverVars, EchoUnderway
<1>5. ASSUME NEW p \in Path, NEW v \in SourceValue, SourceSays(p, v)
      PROVE  Rearms'
  <2>1. v \in Value /\ "source" \in Cause
    BY ClearedValueType DEF SourceValue, Value, Cause
  <2>2. Broadcast(p, v, "source") /\ UNCHANGED <<acks, linked>>
        /\ UNCHANGED <<map, acked, self_cleared, cleared_by>>
    BY <1>5 DEF SourceSays, Outside, registryVars
  <2>3. \A q \in Path : EchoUnderway(q) => EchoUnderway(q)'
    BY <1>0, <2>1, <2>2, EchoStays
  <2> QED
    BY <1>0, <2>2, <2>3, RearmsKept
<1>6. ASSUME NEW p \in Path, ServerTakesAck(p)
      PROVE  Rearms'
  <2>1. ClearedValue \in Value /\ "echo" \in Cause
    BY ClearedValueType DEF Value, Cause
  <2>2. /\ Broadcast(p, ClearedValue, "echo") /\ acks' = acks \ {p} /\ UNCHANGED linked
        /\ UNCHANGED <<map, acked, self_cleared, cleared_by>>
    BY <1>6 DEF ServerTakesAck, Outside, registryVars
  <2>3. \A q \in Path : EchoUnderway(q) => EchoUnderway(q)'
    BY <1>0, <2>1, <2>2, EchoStays
  <2> QED
    BY <1>0, <2>2, <2>3, RearmsKept
<1>7. CASE UNCHANGED vars
  BY <1>0, <1>7, RearmsKept DEF vars, registryVars, serverVars, EchoUnderway
<1> QED
  BY <1>0, <1>1, <1>2, <1>3, <1>4, <1>5, <1>6, <1>7 DEF Next, LoseAck, StreamDown, StreamUp

(* ClearsRearm: when neither ACKs nor the stream are lost, the source's    *)
(* own clear always takes the ACK away, whatever taps, clears and echoes   *)
(* overlap, so that the same alarm pops up when it comes back              *)
(* (notifications_registry.cpp:68-99).                                     *)
THEOREM ClearsRearm ==
  ASSUME ~Lossy
  PROVE  Spec => []GenuineClearRearms
<1>1. Init => Rearms
  BY NoneIsNoCause
     DEF Cause, Init, RegistryInit, Rearms, GenuineClearRearms, EchoUnderway, IsAlerting
<1>2. IInv /\ Rearms /\ [Next]_vars => Rearms'
  BY RearmsStep
<1>3. Rearms => GenuineClearRearms
  BY DEF Rearms
<1> QED
  BY <1>1, <1>2, <1>3, Inductive, PTL DEF Spec
==============================================================================
