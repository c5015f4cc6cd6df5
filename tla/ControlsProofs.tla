---------------------------- MODULE ControlsProofs ----------------------------
(***************************************************************************)
(* Proofs about the widgets of a page, for every value of the constants:   *)
(* BrightnessControl, ButtonWidget, BoundControl, ZoneDisplay and          *)
(* VoiceControl, each on its own, and then the page of MCControls that     *)
(* has one of them.                                                        *)
(***************************************************************************)
EXTENDS MCControls, SequenceTheorems, WellFoundedInduction, TLAPS

-----------------------------------------------------------------------------
(* Queues and naturals. *)

(* The last element of a queue that loses its head. *)
LEMMA LastOfTail ==
  ASSUME NEW S, NEW q \in Seq(S), q # <<>>
  PROVE  /\ Head(q) \in S
         /\ Tail(q) \in Seq(S)
         /\ Tail(q) = <<>> => Head(q) = q[Len(q)]
         /\ Tail(q) # <<>> => Tail(q)[Len(Tail(q))] = q[Len(q)]
<1>1. Len(q) \in Nat \ {0} /\ Head(q) = q[1] /\ Head(q) \in S
  OBVIOUS
<1>2. /\ Tail(q) \in Seq(S)
      /\ Len(Tail(q)) = Len(q) - 1
      /\ \A i \in 1 .. Len(q) - 1 : Tail(q)[i] = q[i + 1]
  OBVIOUS
<1>3. Tail(q) = <<>> => Len(q) = 1
  BY <1>1, <1>2, EmptySeq
<1>4. Tail(q) # <<>> => Len(q) - 1 \in 1 .. Len(q) - 1
  BY <1>1, <1>2, EmptySeq
<1> QED
  BY <1>1, <1>2, <1>3, <1>4

LEMMA LastOfAppend ==
  ASSUME NEW S, NEW q \in Seq(S), NEW v \in S
  PROVE  /\ Append(q, v) \in Seq(S)
         /\ Append(q, v) # <<>>
         /\ Append(q, v)[Len(Append(q, v))] = v
  OBVIOUS

(* Of the elements of q that are in C the last one is in P; there is none. *)
LastIn(q, C, P) ==
  \A i \in 1 .. Len(q) :
    q[i] \in C /\ (\A j \in 1 .. Len(q) : j > i => q[j] \notin C) => q[i] \in P
NoneIn(q, C) == \A i \in 1 .. Len(q) : q[i] \notin C

LEMMA LastOfNone ==
  ASSUME NEW C, NEW P
  PROVE  LastIn(<<>>, C, P) /\ NoneIn(<<>>, C)
BY DEF LastIn, NoneIn

LEMMA LastAppended ==
  ASSUME NEW S, NEW q \in Seq(S), NEW e \in S, NEW C, NEW P, NEW r, r = Append(q, e)
  PROVE  /\ r \in Seq(S)
         /\ e \in C => ~NoneIn(r, C)
         /\ e \in C /\ e \in P => LastIn(r, C, P)
         /\ e \notin C => (NoneIn(r, C) <=> NoneIn(q, C))
         /\ e \notin C => (LastIn(r, C, P) <=> LastIn(q, C, P))
<1>1. /\ Len(q) \in Nat /\ Len(r) = Len(q) + 1 /\ r[Len(r)] = e
      /\ r \in Seq(S)
      /\ \A i \in 1 .. Len(q) : r[i] = q[i]
  OBVIOUS
<1>2. 1 .. Len(r) = (1 .. Len(q)) \cup {Len(r)} /\ \A i \in 1 .. Len(q) : i < Len(r)
  BY <1>1
<1>3. e \in C => ~NoneIn(r, C)
  BY <1>1, <1>2 DEF NoneIn
<1>4. e \in C /\ e \in P => LastIn(r, C, P)
  BY <1>1, <1>2 DEF LastIn
<1>5. e \notin C => (NoneIn(r, C) <=> NoneIn(q, C))
  BY <1>1, <1>2 DEF NoneIn
<1>6. ASSUME e \notin C, LastIn(r, C, P) PROVE LastIn(q, C, P)
  BY <1>1, <1>2, <1>6 DEF LastIn
<1>7. ASSUME e \notin C, LastIn(q, C, P) PROVE LastIn(r, C, P)
  <2> SUFFICES ASSUME NEW i \in 1 .. Len(r), r[i] \in C,
                      \A j \in 1 .. Len(r) : j > i => r[j] \notin C
               PROVE  r[i] \in P
    BY DEF LastIn
  <2>1. i \in 1 .. Len(q)
    BY <1>1, <1>2, <1>7
  <2>2. \A j \in 1 .. Len(q) : j > i => q[j] \notin C
    BY <1>1, <1>2
  <2> QED
    BY <1>1, <1>7, <2>1, <2>2 DEF LastIn
<1> QED
  BY <1>1, <1>3, <1>4, <1>5, <1>6, <1>7

LEMMA LastTaken ==
  ASSUME NEW S, NEW q \in Seq(S), q # <<>>, NEW C, NEW P, NEW r, r = Tail(q), NEW e, e = Head(q)
  PROVE  /\ r \in Seq(S) /\ e \in S
         /\ LastIn(q, C, P) => LastIn(r, C, P)
         /\ LastIn(q, C, P) /\ e \in C /\ NoneIn(r, C) => e \in P
         /\ e \notin C /\ NoneIn(r, C) => NoneIn(q, C)
<1>1. /\ Len(q) \in Nat \ {0} /\ Len(r) = Len(q) - 1 /\ e = q[1] /\ e \in S
      /\ r \in Seq(S)
      /\ \A i \in 1 .. Len(r) : r[i] = q[i + 1]
  OBVIOUS
<1>2. \A j \in 2 .. Len(q) : j - 1 \in 1 .. Len(r) /\ q[j] = r[j - 1]
  BY <1>1
<1>3. ASSUME LastIn(q, C, P) PROVE LastIn(r, C, P)
  <2> SUFFICES ASSUME NEW i \in 1 .. Len(r), r[i] \in C,
                      \A j \in 1 .. Len(r) : j > i => r[j] \notin C
               PROVE  r[i] \in P
    BY DEF LastIn
  <2>1. i + 1 \in 1 .. Len(q) /\ q[i + 1] = r[i]
    BY <1>1
  <2>2. ASSUME NEW j \in 1 .. Len(q), j > i + 1 PROVE q[j] \notin C
    <3>1. j - 1 \in 1 .. Len(r) /\ j - 1 > i /\ q[j] = r[j - 1]
      BY <1>1, <1>2, <2>2
    <3> QED
      BY <3>1
  <2>3. \A j \in 1 .. Len(q) : j > i + 1 => q[j] \notin C
    BY <2>2
  <2> QED
    BY <1>3, <2>1, <2>3 DEF LastIn
<1>4. ASSUME LastIn(q, C, P), e \in C, NoneIn(r, C) PROVE e \in P
  <2>1. ASSUME NEW j \in 1 .. Len(q), j > 1 PROVE q[j] \notin C
    <3>1. j - 1 \in 1 .. Len(r) /\ q[j] = r[j - 1]
      BY <1>1, <1>2, <2>1
    <3> QED
      BY <1>4, <3>1 DEF NoneIn
  <2> QED
    BY <1>1, <1>4, <2>1 DEF LastIn
<1>5. ASSUME e \notin C, NoneIn(r, C) PROVE NoneIn(q, C)
  BY <1>1, <1>2, <1>5 DEF NoneIn
<1> QED
  BY <1>1, <1>3, <1>4, <1>5

(* A set of naturals has a least one. *)
LEMMA LeastNatural ==
  ASSUME NEW T, T \subseteq Nat, T # {}
  PROVE  \E n \in T : \A m \in T : n <= m
<1> DEFINE R == OpToRel(<, Nat)
<1>1. PICK n \in T : \A m \in T : ~(<<m, n>> \in R)
  <2>1. IsWellFoundedOn(R, Nat)
    BY NatLessThanWellFounded
  <2> HIDE DEF R
  <2> QED
    BY <2>1, WFMin
<1>2. \A m \in T : ~(m < n)
  BY <1>1 DEF OpToRel
<1> QED
  BY <1>2

-----------------------------------------------------------------------------
(* BrightnessControl. *)

(* What BacklightAccountedFor becomes while a finger is on the slider: the *)
(* backlight may also show the preview, which is where the knob stands.    *)
PreviewIsKnob ==
  on /\ ~cut =>
    \/ backlight = on_brightness
    \/ posted = <<>> => backlight = setting
    \/ dragging /\ backlight = knob

BrightnessIInv == BrightnessTypeOK /\ LastApiWriteWins /\ BacklightAccountedFor /\ PreviewIsKnob

LEMMA BrightnessInitially == BrightnessInit => BrightnessIInv
<1> SUFFICES ASSUME BrightnessInit PROVE BrightnessIInv
  OBVIOUS
<1>1. <<>> \in Seq(Pct)
  OBVIOUS
<1>2. BrightnessTypeOK
  BY <1>1 DEF BrightnessInit, BrightnessTypeOK
<1>3. LastApiWriteWins /\ BacklightAccountedFor /\ PreviewIsKnob
  BY DEF BrightnessInit, LastApiWriteWins, BacklightAccountedFor, PreviewIsKnob
<1> QED
  BY <1>2, <1>3 DEF BrightnessIInv

LEMMA BrightnessStep == BrightnessIInv /\ [BrightnessNext]_brightnessVars => BrightnessIInv'
<1> SUFFICES ASSUME BrightnessIInv, [BrightnessNext]_brightnessVars PROVE BrightnessIInv'
  OBVIOUS
<1> USE BrightnessAssumption DEF BrightnessIInv, BrightnessTypeOK, LastApiWriteWins, BacklightAccountedFor, PreviewIsKnob
<1>1. CASE Dim
  BY <1>1 DEF Dim
<1>2. CASE WakeUp
  BY <1>2 DEF WakeUp, WakeLevel
<1>3. ASSUME NEW v \in Pct, ApiWrites(v) PROVE BrightnessIInv'
  BY <1>3, LastOfAppend DEF ApiWrites
<1>4. CASE RunPosted
  <2>1. posted \in Seq(Pct) /\ posted # <<>>
    BY <1>4 DEF RunPosted
  <2>2. /\ Head(posted) \in Pct
        /\ Tail(posted) \in Seq(Pct)
        /\ Tail(posted) = <<>> => Head(posted) = posted[Len(posted)]
        /\ Tail(posted) # <<>> => Tail(posted)[Len(Tail(posted))] = posted[Len(posted)]
    BY <2>1, LastOfTail
  <2>3. BrightnessTypeOK'
    BY <1>4, <2>2 DEF RunPosted, SetOnBrightness
  <2>4. LastApiWriteWins'
    BY <1>4, <2>2 DEF RunPosted, SetOnBrightness
  <2>5. BacklightAccountedFor'
    BY <1>4, <2>2 DEF RunPosted, SetOnBrightness
  <2>6. PreviewIsKnob'
    BY <1>4, <2>2 DEF RunPosted, SetOnBrightness
  <2> QED
    BY <2>3, <2>4, <2>5, <2>6
<1>5. CASE Press
  BY <1>5 DEF Press
<1>6. ASSUME NEW v \in Pct, Drag(v) PROVE BrightnessIInv'
  BY <1>6 DEF Drag
<1>7. CASE Release
  BY <1>7 DEF Release, Commit, SetOnBrightness
<1>8. CASE Swap
  BY <1>8 DEF Swap, WakeLevel
<1>9. CASE UNCHANGED brightnessVars
  BY <1>9 DEF brightnessVars
<1> QED
  BY <1>1, <1>2, <1>3, <1>4, <1>5, <1>6, <1>7, <1>8, <1>9 DEF BrightnessNext

(* Whatever drags, dims, wakes and layouts come between, the value the API *)
(* wrote last is in force or the last one in the queue; and the backlight  *)
(* is accounted for.                                                       *)
THEOREM ApiWriteReachesPanel == BrightnessSpec => []BrightnessInv
<1>1. BrightnessIInv => BrightnessInv
  BY DEF BrightnessIInv, BrightnessInv
<1> QED
  BY <1>1, BrightnessInitially, BrightnessStep, PTL DEF BrightnessSpec

-----------------------------------------------------------------------------
(* ButtonWidget. *)

\* A hold is pending only under the finger, and a press that was sent and whose
\* press is not over is one that has fired.
Holding ==
  /\ \A b \in pending : pressed = b
  /\ \A b \in sent : b \notin lost => pressed = b /\ fired[b] /\ b \notin pending

\* What AnchorAsAsked becomes while drops are under way: a DROP's task carries a
\* position of the boat since the wish, and after anything else there is none.
Anchored ==
  ~crossed =>
    IF wish \in 1 .. MaxFix
      THEN /\ wish <= fix
           /\ \A d \in Drops : drop[d][1] = "put" => drop[d][2] \in wish .. fix
           /\ Busy = {} => server[AnchorPath] \in wish .. fix
      ELSE Busy = {} /\ server[AnchorPath] = wish

ServerOK == server = [p \in Paths |-> server[p]]

ButtonIInv == ButtonTypeOK /\ ServerOK /\ Holding /\ Anchored

LEMMA ButtonIInvImplies == ButtonIInv => ButtonInv
BY DEF ButtonIInv, ButtonInv, Holding, ReleaseFollowsPress, Anchored, AnchorAsAsked

LEMMA DropsTyped ==
  ASSUME ButtonTypeOK, NEW d \in Drops
  PROVE  /\ drop[d][1] \in {"idle", "get", "put"}
         /\ drop[d][1] = "put" => drop[d][2] \in 1 .. MaxFix
         /\ d \in Busy <=> drop[d][1] # "idle"
BY DEF ButtonTypeOK, Busy

LEMMA ButtonInitially == ButtonInit => ButtonIInv
<1> SUFFICES ASSUME ButtonInit PROVE ButtonIInv
  OBVIOUS
<1>1. ButtonTypeOK
  <2>1. 1 \in 1 .. MaxFix /\ 0 \in 0 .. HoldTicks
    BY HoldAssumption
  <2>2. drop \in [Drops -> ({"idle", "get"} \X {0}) \cup ({"put"} \X (1 .. MaxFix))]
    BY DEF ButtonInit
  <2>3. DOMAIN server = Paths /\ fired \in [Buttons -> BOOLEAN]
    BY DEF ButtonInit
  <2> QED
    BY <2>1, <2>2, <2>3 DEF ButtonInit, ButtonTypeOK
<1>2. Busy = {}
  BY DEF ButtonInit, Busy
<1>3. Anchored
  BY <1>2, ButtonAssumption, ValueAssumption DEF ButtonInit, Anchored
<1>4. ServerOK /\ Holding
  BY DEF ButtonInit, ServerOK, Holding
<1> QED
  BY <1>1, <1>3, <1>4 DEF ButtonIInv

-----------------------------------------------------------------------------
\* What stays typed and anchored when a button sends one of its values.
AnchorTypes ==
  /\ sent \subseteq Momentary /\ crossed \in BOOLEAN /\ fix \in 1 .. MaxFix
  /\ drop \in [Drops -> ({"idle", "get"} \X {0}) \cup ({"put"} \X (1 .. MaxFix))]
  /\ DOMAIN server = Paths

LEMMA PutKeeps ==
  ASSUME ButtonIInv, NEW b \in Buttons, NEW v, v \notin 1 .. MaxFix,
         PathOf[b] # DropHere, Put(b, v)
  PROVE  /\ AnchorTypes' /\ ServerOK' /\ Anchored'
         /\ sent' = IF v = PressOf[b] THEN sent \cup ({b} \cap Momentary) ELSE sent \ {b}
<1>1. PathOf[b] \in Paths
  BY ButtonAssumption
<1>2. /\ ServerOK' /\ DOMAIN server' = Paths
      /\ server'[PathOf[b]] = v
      /\ \A p \in Paths \ {PathOf[b]} : server'[p] = server[p]
  BY <1>1 DEF Put, ServerOK, ButtonIInv, ButtonTypeOK
<1>3. UNCHANGED <<drop, fix>> /\ Busy' = Busy
  BY DEF Put, Busy
<1>4. AnchorTypes'
  <2>1. crossed' \in BOOLEAN
    BY DEF Put, ButtonIInv, ButtonTypeOK
  <2>2. sent' \subseteq Momentary'
    BY DEF Put, ButtonIInv, ButtonTypeOK, Momentary
  <2> QED
    BY <1>2, <1>3, <2>1, <2>2 DEF ButtonIInv, ButtonTypeOK, AnchorTypes
<1>5. Anchored'
  <2>1. CASE PathOf[b] = AnchorPath
    <3>1. wish' = v /\ (~crossed' => Busy = {})
      BY <2>1 DEF Put
    <3> QED
      BY <3>1, <2>1, <1>2, <1>3 DEF Anchored
  <2>2. CASE PathOf[b] # AnchorPath
    <3>1. UNCHANGED <<wish, crossed>> /\ server'[AnchorPath] = server[AnchorPath]
      BY <2>2, <1>2, ButtonAssumption DEF Put
    <3> QED
      BY <3>1, <1>3 DEF Anchored, ButtonIInv
  <2> QED
    BY <2>1, <2>2
<1> QED
  BY <1>2, <1>4, <1>5 DEF Put

LEMMA DropKeeps ==
  ASSUME ButtonIInv, DropAnchorHere
  PROVE  AnchorTypes' /\ ServerOK' /\ Anchored' /\ sent' = sent
<1>1. wish' = fix /\ UNCHANGED <<sent, server, fix>>
  BY DEF DropAnchorHere
<1>2. CASE \E d \in Drops \ Busy : /\ drop' = [drop EXCEPT ![d] = <<"get", 0>>]
                                   /\ crossed' = (Busy # {})
  <2>1. PICK d \in Drops \ Busy : drop' = [drop EXCEPT ![d] = <<"get", 0>>]
                                  /\ crossed' = (Busy # {})
    BY <1>2
  <2>2. /\ drop'[d] = <<"get", 0>>
        /\ \A e \in Drops \ {d} : drop'[e] = drop[e]
        /\ drop' \in [Drops -> ({"idle", "get"} \X {0}) \cup ({"put"} \X (1 .. MaxFix))]
    BY <2>1 DEF ButtonIInv, ButtonTypeOK
  <2>3. drop'[d][1] = "get" /\ d \in Busy'
    BY <2>2 DEF Busy
  <2>4. Anchored'
    <3>1. ~crossed' => Busy = {}
      BY <2>1
    <3>2. Busy = {} => \A e \in Drops : drop'[e][1] # "put"
      BY <2>2, <2>3 DEF Busy
    <3>3. wish' \in 1 .. MaxFix /\ wish' <= fix'
      BY <1>1, HoldAssumption DEF ButtonIInv, ButtonTypeOK
    <3>4. Busy' # {}
      BY <2>3
    <3> QED
      BY <3>1, <3>2, <3>3, <3>4 DEF Anchored
  <2> QED
    BY <1>1, <2>1, <2>2, <2>4 DEF AnchorTypes, ServerOK, ButtonIInv, ButtonTypeOK, Momentary
<1>3. CASE drop' = drop /\ crossed' = TRUE
  BY <1>1, <1>3 DEF AnchorTypes, ServerOK, Anchored, ButtonIInv, ButtonTypeOK, Momentary
<1> QED
  BY <1>2, <1>3 DEF DropAnchorHere

LEMMA FireKeeps ==
  ASSUME ButtonIInv, NEW b \in Buttons, NEW v, v \notin 1 .. MaxFix,
         NEW isPress \in BOOLEAN, ButtonFire(b, v, isPress)
  PROVE  /\ AnchorTypes' /\ ServerOK' /\ Anchored'
         /\ sent' \subseteq sent \cup {b}
         /\ v = ReleaseOf[b] /\ ~isPress => b \notin sent'
<1>1. sent \subseteq Momentary
  BY DEF ButtonIInv, ButtonTypeOK
<1>2. CASE UNCHANGED <<sent, anchorVars>> /\ (PathOf[b] = DropHere \/ v = Absent)
  <2>1. AnchorTypes' /\ ServerOK' /\ Anchored'
    BY <1>2 DEF anchorVars, AnchorTypes, ServerOK, Anchored, Busy, ButtonIInv, ButtonTypeOK, Momentary
  <2> QED
    BY <1>1, <1>2, <2>1 DEF Momentary
<1>3. CASE isPress /\ PathOf[b] = DropHere /\ DropAnchorHere
  BY <1>3, DropKeeps
<1>4. CASE PathOf[b] # DropHere /\ Put(b, v)
  <2>1. AnchorTypes' /\ ServerOK' /\ Anchored'
        /\ sent' = IF v = PressOf[b] THEN sent \cup ({b} \cap Momentary) ELSE sent \ {b}
    BY <1>4, PutKeeps
  <2> QED
    BY <1>1, <2>1 DEF Momentary
<1> QED
  BY <1>2, <1>3, <1>4 DEF ButtonFire

-----------------------------------------------------------------------------
(* The finger, the clock and the boat. *)

\* The types of what the finger and the widget keep.
WidgetTypes ==
  /\ {touch, pressed} \subseteq Buttons \cup {NoButton}
  /\ pending \subseteq Held /\ lost \subseteq Momentary
  /\ age \in 0 .. HoldTicks /\ rested \in 0 .. HoldTicks
  /\ fired \in [Buttons -> BOOLEAN]
  /\ late \in BOOLEAN

LEMMA TypesTogether == ButtonTypeOK <=> AnchorTypes /\ WidgetTypes
BY DEF ButtonTypeOK, AnchorTypes, WidgetTypes

LEMMA TypesTogetherNext == ButtonTypeOK' <=> AnchorTypes' /\ WidgetTypes'
BY DEF ButtonTypeOK, AnchorTypes, WidgetTypes, Momentary

\* A step that leaves the anchor and what was sent alone keeps what is said of
\* them.
LEMMA AnchorAlone ==
  ASSUME ButtonIInv, UNCHANGED <<sent, anchorVars>>
  PROVE  AnchorTypes' /\ ServerOK' /\ Anchored'
BY DEF ButtonIInv, ButtonTypeOK, AnchorTypes, ServerOK, Anchored, Busy, anchorVars, Momentary

\* A pending hold is of the button LVGL holds as pressed, so there is at most one.
LEMMA OneHold ==
  ASSUME ButtonIInv
  PROVE  /\ pressed = NoButton => pending = {} /\ sent \subseteq lost
         /\ \A b \in Buttons : pressed = b =>
              pending \subseteq {b} /\ sent \subseteq lost \cup {b}
BY ButtonAssumption DEF ButtonIInv, ButtonTypeOK, Holding, Momentary

LEMMA HandKeeps ==
  ASSUME ButtonIInv,
         \/ \E b \in Buttons : TouchDown(b)
         \/ TouchUp
         \/ Tick
  PROVE  ButtonIInv'
<1>1. UNCHANGED <<pressed, pending, fired, sent, lost, anchorVars>>
  BY DEF TouchDown, TouchUp, Tick, widgetVars
<1>2. WidgetTypes /\ WidgetTypes'
  <2>1. WidgetTypes
    BY TypesTogether DEF ButtonIInv
  <2>2. 0 \in 0 .. HoldTicks
    BY HoldAssumption
  <2>3. CASE \E b \in Buttons : TouchDown(b)
    BY <2>1, <2>2, <2>3 DEF TouchDown, WidgetTypes, widgetVars, Momentary
  <2>4. CASE TouchUp
    BY <2>1, <2>4 DEF TouchUp, WidgetTypes, widgetVars, Momentary
  <2>5. CASE Tick
    <3>1. age' \in 0 .. HoldTicks /\ rested' \in 0 .. HoldTicks
      BY <2>1, <2>5, HoldAssumption DEF Tick, WidgetTypes
    <3>2. late' \in BOOLEAN
      BY <2>1, <2>5 DEF Tick, WidgetTypes
    <3> QED
      BY <2>1, <2>5, <3>1, <3>2 DEF Tick, WidgetTypes, Momentary
  <2> QED
    BY <2>1, <2>3, <2>4, <2>5
<1>3. AnchorTypes' /\ ServerOK' /\ Anchored'
  BY <1>1, AnchorAlone
<1>4. Holding'
  BY <1>1 DEF ButtonIInv, Holding
<1> QED
  BY <1>2, <1>3, <1>4, TypesTogetherNext DEF ButtonIInv

LEMMA SailKeeps ==
  ASSUME ButtonIInv, Sail
  PROVE  ButtonIInv'
<1>1. /\ fix' \in 1 .. MaxFix /\ fix' = fix + 1 /\ fix \in 1 .. MaxFix
      /\ UNCHANGED <<drop, server, wish, crossed, handVars, widgetVars>>
  BY HoldAssumption DEF Sail, ButtonIInv, ButtonTypeOK
<1>2. ButtonTypeOK'
  BY <1>1 DEF ButtonIInv, ButtonTypeOK, handVars, widgetVars, Momentary
<1>3. Busy' = Busy
  BY <1>1 DEF Busy
<1>4. Anchored'
  <2>1. \A w \in 1 .. MaxFix : w <= fix => w <= fix' /\ w .. fix \subseteq w .. fix'
    BY <1>1, HoldAssumption
  <2> QED
    BY <1>1, <1>3, <2>1 DEF ButtonIInv, Anchored
<1>5. Holding' /\ ServerOK'
  BY <1>1 DEF ButtonIInv, Holding, ServerOK, widgetVars
<1> QED
  BY <1>2, <1>4, <1>5 DEF ButtonIInv

-----------------------------------------------------------------------------
(* The widget's events. *)

LEMMA NoFix ==
  ASSUME NEW b \in Buttons
  PROVE  PressOf[b] \notin 1 .. MaxFix /\ ReleaseOf[b] \notin 1 .. MaxFix
BY ValueAssumption

LEMMA PressedKeeps ==
  ASSUME ButtonIInv, NEW b \in Buttons, Pressed(b)
  PROVE  ButtonIInv'
<1>1. pressed' = b /\ pending = {} /\ sent \subseteq lost /\ UNCHANGED <<lost, handVars>>
  BY OneHold DEF Pressed
<1>2. CASE b \in Held
  <2>1. /\ pending' = pending \cup {b} /\ age' = 0
        /\ fired' = [fired EXCEPT ![b] = FALSE]
        /\ UNCHANGED <<sent, anchorVars>>
    BY <1>2 DEF Pressed
  <2>2. WidgetTypes'
    BY <1>1, <1>2, <2>1, TypesTogether, HoldAssumption
       DEF ButtonIInv, WidgetTypes, handVars, Momentary
  <2>3. Holding'
    BY <1>1, <2>1 DEF Holding
  <2> QED
    BY <2>1, <2>2, <2>3, AnchorAlone, TypesTogetherNext DEF ButtonIInv
<1>3. CASE b \notin Held
  <2>1. /\ fired' = [fired EXCEPT ![b] = TRUE] /\ UNCHANGED <<pending, age>>
        /\ ButtonFire(b, PressOf[b], TRUE)
    BY <1>3 DEF Pressed
  <2>2. AnchorTypes' /\ ServerOK' /\ Anchored' /\ sent' \subseteq sent \cup {b}
    BY <2>1, FireKeeps, NoFix
  <2>3. WidgetTypes' /\ fired'[b] = TRUE
    BY <1>1, <2>1, TypesTogether DEF ButtonIInv, WidgetTypes, handVars, Momentary
  <2>4. Holding'
    BY <1>1, <2>1, <2>2, <2>3 DEF Holding
  <2> QED
    BY <2>2, <2>3, <2>4, TypesTogetherNext DEF ButtonIInv
<1> QED
  BY <1>2, <1>3

LEMMA HoldElapsedKeeps ==
  ASSUME ButtonIInv, NEW b \in Buttons, HoldElapsed(b)
  PROVE  ButtonIInv'
<1>1. pressed = b
  BY DEF HoldElapsed, ButtonIInv, Holding
<1>2. pending \subseteq {b} /\ sent \subseteq lost \cup {b}
  BY <1>1, OneHold
<1>3. /\ fired' = [fired EXCEPT ![b] = TRUE] /\ pending' = pending \ {b} /\ age' = 0
      /\ ButtonFire(b, PressOf[b], TRUE)
      /\ UNCHANGED <<pressed, lost, handVars>>
  BY DEF HoldElapsed
<1>4. AnchorTypes' /\ ServerOK' /\ Anchored' /\ sent' \subseteq sent \cup {b}
  BY <1>3, FireKeeps, NoFix
<1>5. WidgetTypes' /\ fired'[b] = TRUE
  BY <1>3, TypesTogether, HoldAssumption DEF ButtonIInv, WidgetTypes, handVars, Momentary
<1>6. Holding'
  BY <1>1, <1>2, <1>3, <1>4, <1>5 DEF Holding
<1> QED
  BY <1>4, <1>5, <1>6, TypesTogetherNext DEF ButtonIInv

LEMMA ReleasedKeeps ==
  ASSUME ButtonIInv, NEW b \in Buttons, Released(b)
  PROVE  ButtonIInv'
<1>1. pressed = b /\ pending \subseteq {b} /\ sent \subseteq lost \cup {b}
  BY OneHold DEF Released
<1>2. /\ pressed' = NoButton /\ pending' = {} /\ age' = 0
      /\ rested' = 0 /\ late' = FALSE /\ UNCHANGED <<touch, fired>>
  BY <1>1 DEF Released
<1>4. /\ {touch', NoButton} \subseteq Buttons \cup {NoButton} /\ lost \subseteq Momentary
      /\ pending' \subseteq Held /\ age' \in 0 .. HoldTicks /\ rested' \in 0 .. HoldTicks
      /\ fired' \in [Buttons -> BOOLEAN] /\ late' \in BOOLEAN
  <2>1. 0 \in 0 .. HoldTicks
    BY HoldAssumption
  <2>2. touch' \in Buttons \cup {NoButton} /\ fired' \in [Buttons -> BOOLEAN]
    BY <1>2 DEF ButtonIInv, ButtonTypeOK
  <2> QED
    BY <1>2, <2>1, <2>2 DEF ButtonIInv, ButtonTypeOK
<1>3. CASE b \notin pending /\ fired[b]
  <2>1. lost' = lost \ {b} /\ ButtonFire(b, ReleaseOf[b], FALSE)
    BY <1>3 DEF Released
  <2>2. AnchorTypes' /\ ServerOK' /\ Anchored' /\ sent' \subseteq sent \cup {b} /\ b \notin sent'
    BY <2>1, FireKeeps, NoFix
  <2>3. WidgetTypes'
    BY <1>2, <1>4, <2>1 DEF WidgetTypes, Momentary
  <2>4. Holding'
    BY <1>1, <1>2, <2>1, <2>2 DEF Holding
  <2> QED
    BY <2>2, <2>3, <2>4, TypesTogetherNext DEF ButtonIInv
<1>5. CASE ~(b \notin pending /\ fired[b])
  <2>1. UNCHANGED <<lost, sent, anchorVars>>
    BY <1>5 DEF Released
  <2>2. WidgetTypes'
    BY <1>2, <1>4, <2>1 DEF WidgetTypes, Momentary
  <2>3. sent \subseteq lost
    BY <1>1, <1>5 DEF ButtonIInv, Holding
  <2>4. Holding'
    BY <1>2, <2>1, <2>3 DEF Holding
  <2> QED
    BY <2>1, <2>2, <2>4, AnchorAlone, TypesTogetherNext DEF ButtonIInv
<1> QED
  BY <1>3, <1>5

\* The press ends without a RELEASED: the finger slides off, or the page is
\* built anew.
LEMMA EndsSilently ==
  ASSUME ButtonIInv, (\E b \in Buttons : PressLost(b)) \/ Rebuild
  PROVE  ButtonIInv'
<1>1. /\ pressed' = NoButton /\ touch' = NoButton /\ age' = 0
      /\ rested' = 0 /\ late' = FALSE /\ UNCHANGED <<sent, anchorVars>>
      /\ lost' = lost \cup ({pressed} \cap sent)
  BY DEF PressLost, Rebuild
<1>2. pending' = {}
  BY OneHold DEF PressLost, Rebuild
<1>3. fired' \in [Buttons -> BOOLEAN]
  BY DEF PressLost, Rebuild, ButtonIInv, ButtonTypeOK
<1>4. WidgetTypes'
  <2>1. 0 \in 0 .. HoldTicks /\ lost \subseteq Momentary /\ sent \subseteq Momentary
    BY HoldAssumption DEF ButtonIInv, ButtonTypeOK
  <2> QED
    BY <1>1, <1>2, <1>3, <2>1 DEF WidgetTypes, Momentary
<1>5. Holding'
  <2>1. \A b \in sent : b \in lost \/ pressed = b
    BY DEF ButtonIInv, Holding
  <2> QED
    BY <1>1, <1>2, <2>1 DEF Holding
<1> QED
  BY <1>1, <1>4, <1>5, AnchorAlone, TypesTogetherNext DEF ButtonIInv

-----------------------------------------------------------------------------
(* drop_task(). *)

LEMMA PositionReadKeeps ==
  ASSUME ButtonIInv, NEW d \in Drops, PositionRead(d)
  PROVE  ButtonIInv'
<1>1. UNCHANGED <<server, fix, wish, handVars, widgetVars>> /\ drop[d][1] = "get"
  BY DEF PositionRead
<1>2. fix \in 1 .. MaxFix /\ d \in Busy
  BY <1>1, DropsTyped DEF ButtonIInv, ButtonTypeOK
<1>3. CASE drop' = [drop EXCEPT ![d] = <<"put", fix>>] /\ UNCHANGED crossed
  <2>1. /\ drop'[d] = <<"put", fix>>
        /\ \A e \in Drops \ {d} : drop'[e] = drop[e]
        /\ drop' \in [Drops -> ({"idle", "get"} \X {0}) \cup ({"put"} \X (1 .. MaxFix))]
    BY <1>2, <1>3 DEF ButtonIInv, ButtonTypeOK
  <2>2. drop'[d][1] = "put" /\ drop'[d][2] = fix
    BY <2>1
  <2>3. Busy' # {} /\ Busy # {}
    BY <1>2, <2>2 DEF Busy
  <2>4. Anchored'
    <3>1. \A w \in 1 .. MaxFix : w <= fix => fix \in w .. fix
      BY <1>2, HoldAssumption
    <3> QED
      BY <1>1, <1>3, <2>1, <2>2, <2>3, <3>1 DEF ButtonIInv, Anchored
  <2>5. ButtonTypeOK'
    BY <1>1, <1>3, <2>1 DEF ButtonIInv, ButtonTypeOK, handVars, widgetVars, Momentary
  <2> QED
    BY <1>1, <2>4, <2>5 DEF ButtonIInv, Holding, ServerOK, widgetVars
<1>4. CASE drop' = [drop EXCEPT ![d] = <<"idle", 0>>] /\ crossed' = TRUE
  <2>1. drop' \in [Drops -> ({"idle", "get"} \X {0}) \cup ({"put"} \X (1 .. MaxFix))]
    BY <1>4 DEF ButtonIInv, ButtonTypeOK
  <2>2. ButtonTypeOK'
    BY <1>1, <1>4, <2>1 DEF ButtonIInv, ButtonTypeOK, handVars, widgetVars, Momentary
  <2>3. Anchored'
    BY <1>4 DEF Anchored
  <2> QED
    BY <1>1, <2>2, <2>3 DEF ButtonIInv, Holding, ServerOK, widgetVars
<1> QED
  BY <1>3, <1>4 DEF PositionRead

LEMMA PositionPutKeeps ==
  ASSUME ButtonIInv, NEW d \in Drops, PositionPut(d)
  PROVE  ButtonIInv'
<1>1. /\ drop[d][1] = "put" /\ UNCHANGED <<fix, wish, crossed, handVars, widgetVars>>
      /\ server' = [server EXCEPT ![AnchorPath] = drop[d][2]]
      /\ drop' = [drop EXCEPT ![d] = <<"idle", 0>>]
  BY DEF PositionPut
<1>2. d \in Busy /\ drop[d][2] \in 1 .. MaxFix
  BY <1>1, DropsTyped DEF ButtonIInv
<1>3. /\ drop'[d] = <<"idle", 0>>
      /\ \A e \in Drops \ {d} : drop'[e] = drop[e]
      /\ drop' \in [Drops -> ({"idle", "get"} \X {0}) \cup ({"put"} \X (1 .. MaxFix))]
  BY <1>1 DEF ButtonIInv, ButtonTypeOK
<1>4. /\ server'[AnchorPath] = drop[d][2] /\ ServerOK' /\ DOMAIN server' = Paths
  BY <1>1, ButtonAssumption DEF ButtonIInv, ButtonTypeOK, ServerOK
<1>5. ButtonTypeOK'
  BY <1>1, <1>3, <1>4 DEF ButtonIInv, ButtonTypeOK, handVars, widgetVars, Momentary
<1>6. Anchored'
  <2>1. drop'[d][1] = "idle"
    BY <1>3
  <2>2. \A e \in Drops : drop'[e][1] = "put" => drop[e][1] = "put" /\ drop'[e][2] = drop[e][2]
    BY <1>3, <2>1
  <2> QED
    BY <1>1, <1>2, <1>4, <2>2 DEF ButtonIInv, Anchored
<1> QED
  BY <1>1, <1>4, <1>5, <1>6 DEF ButtonIInv, Holding, widgetVars

-----------------------------------------------------------------------------
LEMMA ButtonStep ==
  ASSUME ButtonIInv, [ButtonNext]_buttonVars
  PROVE  ButtonIInv'
<1>1. CASE (\E b \in Buttons : TouchDown(b)) \/ TouchUp \/ Tick
  BY <1>1, HandKeeps
<1>2. CASE Sail
  BY <1>2, SailKeeps
<1>3. CASE \E b \in Buttons : Pressed(b) \/ HoldElapsed(b) \/ Released(b)
  BY <1>3, PressedKeeps, HoldElapsedKeeps, ReleasedKeeps
<1>4. CASE (\E b \in Buttons : PressLost(b)) \/ Rebuild
  BY <1>4, EndsSilently
<1>5. CASE \E d \in Drops : PositionRead(d) \/ PositionPut(d)
  BY <1>5, PositionReadKeeps, PositionPutKeeps
<1>6. CASE UNCHANGED buttonVars
  BY <1>6 DEF buttonVars, handVars, widgetVars, anchorVars, ButtonIInv, ButtonTypeOK,
              ServerOK, Holding, Anchored, Busy, Momentary
<1> QED
  BY <1>1, <1>2, <1>3, <1>4, <1>5, <1>6 DEF ButtonNext

\* In every behaviour of the buttons and of drop_task() (widget_factory.cpp,
\* drop_here.cpp) the types are right, a momentary press that is the last thing
\* its button sent is still under the finger or was lost, and with the drops
\* done the anchor is as the last gesture asked.
THEOREM ButtonsKeepTheirWord == ButtonSpec => []ButtonInv
<1>1. ButtonInit => ButtonIInv
  BY ButtonInitially
<1>2. ButtonIInv /\ [ButtonNext]_buttonVars => ButtonIInv'
  BY ButtonStep
<1>3. ButtonIInv => ButtonInv
  BY ButtonIInvImplies
<1> QED
  BY <1>1, <1>2, <1>3, PTL DEF ButtonSpec

(* What HoldIsHeld needs: a hold under way has lasted no longer than the finger *)
(* has rested, unless the UI task is behind the finger.                         *)
HoldIsRested == pending # {} => late \/ age <= rested

LEMMA HoldIsRestedStep ==
  ASSUME ButtonIInv, HoldIsRested, [ButtonNext]_buttonVars
  PROVE  HoldIsRested'
<1>0. /\ age \in Nat /\ rested \in Nat /\ age <= HoldTicks /\ rested <= HoldTicks
      /\ late \in BOOLEAN /\ HoldTicks \in Nat /\ NoButton \notin Buttons
      /\ pending \subseteq Held /\ Held \subseteq Buttons
  BY HoldAssumption, ButtonAssumption DEF ButtonIInv, ButtonTypeOK
<1>1. pending # {} => pressed # NoButton
  BY <1>0 DEF ButtonIInv, Holding
<1>2. ASSUME NEW b \in Buttons, TouchDown(b) PROVE HoldIsRested'
  BY <1>1, <1>2 DEF TouchDown, HoldIsRested, widgetVars
<1>3. CASE TouchUp
  <2>1. UNCHANGED <<late, rested, age, pending>>
    BY <1>3 DEF TouchUp, widgetVars
  <2> QED
    BY <2>1 DEF HoldIsRested
<1>4. CASE Tick
  <2> SUFFICES ASSUME pending # {}, ~late' PROVE age' <= rested'
    BY <1>4 DEF Tick, HoldIsRested
  <2>1. ~late /\ touch # NoButton
    BY <1>1, <1>4 DEF Tick
  <2>2. age <= rested
    BY <2>1 DEF HoldIsRested
  <2>3. /\ rested' = IF rested < HoldTicks THEN rested + 1 ELSE rested
        /\ age' = IF age < HoldTicks THEN age + 1 ELSE age
    BY <1>4, <2>1 DEF Tick
  <2> QED
    BY <1>0, <2>2, <2>3
<1>5. ASSUME NEW b \in Buttons, Pressed(b) PROVE HoldIsRested'
  <2>1. b \in Held => age' = 0 /\ rested' = rested
    BY <1>5 DEF Pressed, handVars
  <2>2. b \notin Held => pending' = {}
    BY <1>1, <1>5 DEF Pressed
  <2> QED
    BY <1>0, <2>1, <2>2 DEF HoldIsRested
<1>6. ASSUME NEW b \in Buttons, HoldElapsed(b) PROVE HoldIsRested'
  BY <1>0, <1>6 DEF HoldElapsed, HoldIsRested, handVars
<1>7. ASSUME NEW b \in Buttons, Released(b) \/ PressLost(b) PROVE HoldIsRested'
  <2>1. pending' = {}
    BY <1>7 DEF Released, PressLost, ButtonIInv, Holding
  <2> QED
    BY <2>1 DEF HoldIsRested
<1>8. CASE Rebuild
  BY <1>8 DEF Rebuild, HoldIsRested
<1>9. CASE Sail \/ \E d \in Drops : PositionRead(d) \/ PositionPut(d)
  BY <1>9 DEF Sail, PositionRead, PositionPut, HoldIsRested, handVars, widgetVars
<1>10. CASE UNCHANGED buttonVars
  BY <1>10 DEF buttonVars, handVars, widgetVars, HoldIsRested
<1> QED
  BY <1>2, <1>3, <1>4, <1>5, <1>6, <1>7, <1>8, <1>9, <1>10 DEF ButtonNext

LEMMA HoldFires ==
  ASSUME ButtonIInv, HoldIsRested, [ButtonNext]_buttonVars,
         NEW b \in Held, ~fired[b], fired'[b]
  PROVE  late \/ (rested >= HoldTicks /\ pressed = b)
<1>0. fired \in [Buttons -> BOOLEAN] /\ b \in Buttons /\ rested \in Nat /\ age \in Nat /\ HoldTicks \in Nat
  BY HoldAssumption, ButtonAssumption DEF ButtonIInv, ButtonTypeOK
<1>1. PICK c \in Buttons : Pressed(c) \/ HoldElapsed(c)
  <2>1. fired' # fired /\ fired' # [d \in Buttons |-> FALSE]
    BY <1>0
  <2> QED
    BY <2>1 DEF ButtonNext, buttonVars, handVars, widgetVars, TouchDown, Released, PressLost,
                TouchUp, Tick, Sail, Rebuild, PositionRead, PositionPut
<1>2. CASE Pressed(c)
  <2>1. c \in Held => fired' = [fired EXCEPT ![c] = FALSE]
    BY <1>2 DEF Pressed
  <2>2. c \notin Held => fired' = [fired EXCEPT ![c] = TRUE]
    BY <1>2 DEF Pressed
  <2> QED
    BY <1>0, <2>1, <2>2
<1>3. CASE HoldElapsed(c)
  <2>1. c = b
    BY <1>0, <1>3 DEF HoldElapsed
  <2>2. pressed = b /\ (late \/ age <= rested) /\ age >= HoldTicks
    BY <1>3, <2>1 DEF HoldElapsed, ButtonIInv, Holding, HoldIsRested
  <2> QED
    BY <1>0, <2>2
<1> QED
  BY <1>1, <1>2, <1>3

\* A button with hold_ms acts only after the finger rested on it for all of the
\* hold, unless the UI task was late to see it leave (widget_factory.cpp).
THEOREM HoldsAreHeld == ButtonSpec => HoldIsHeld
<1>1. ButtonInit => ButtonIInv /\ HoldIsRested
  BY ButtonInitially DEF ButtonInit, HoldIsRested
<1>2. ButtonIInv /\ HoldIsRested /\ [ButtonNext]_buttonVars => ButtonIInv' /\ HoldIsRested'
  BY ButtonStep, HoldIsRestedStep
<1>3. ButtonIInv /\ HoldIsRested /\ [ButtonNext]_buttonVars =>
        [\A b \in Held : ~fired[b] /\ fired'[b] => late \/ (rested >= HoldTicks /\ pressed = b)]_buttonVars
  BY HoldFires
<1> QED
  BY <1>1, <1>2, <1>3, PTL DEF ButtonSpec, HoldIsHeld

-----------------------------------------------------------------------------
(* BoundControl. *)

(* Only a slider is dragged, and only a toggle is reconciled. *)
OwnHandlers == (sliding => kind = "slider") /\ (timer => kind = "toggle")

(* What LastWordStands becomes while PUTs are under way: the last of them is *)
(* where the finger left the knob.                                           *)
LastPutIsFinger ==
  (kind = "slider" /\ kind \notin Rejected /\ others = 0 /\ gestures > 0 /\ ~sliding
     /\ ~unsent) =>
    IF puts = <<>> THEN value = finger ELSE puts[Len(puts)] = finger

BoundIInv == BoundTypeOK /\ KnobUnderFinger /\ OwnHandlers /\ LastPutIsFinger

LEMMA BoundIInvImplies == BoundIInv => BoundInv
BY DEF BoundIInv, BoundInv, LastPutIsFinger, LastWordStands

LEMMA BoundInitially == BoundInit => BoundIInv
<1> SUFFICES ASSUME BoundInit PROVE BoundIInv
  OBVIOUS
<1>1. {value, sub, finger} \subseteq Levels /\ kind \in Kinds
  BY LevelsAssumption DEF BoundInit
<1>2. shown \in IF kind = "toggle" THEN {0, 1} ELSE Levels
  BY LevelsAssumption DEF BoundInit
<1>3. gestures \in 0 .. MaxGestures /\ others \in 0 .. MaxOthers
  BY BoundsAssumption DEF BoundInit
<1>4. BoundTypeOK
  <2>1. puts = <<>> /\ deltas = <<>>
    BY DEF BoundInit
  <2>2. puts \in Seq(Levels) /\ deltas \in Seq(Levels)
    BY <2>1
  <2>3. {sliding, timer, unsent, astray} \subseteq BOOLEAN
    BY DEF BoundInit
  <2> QED
    BY <1>1, <1>2, <1>3, <2>2, <2>3 DEF BoundTypeOK
<1> QED
  BY <1>4 DEF BoundInit, BoundIInv, KnobUnderFinger, OwnHandlers, LastPutIsFinger

LEMMA Published ==
  ASSUME BoundTypeOK, NEW v \in Levels, Publish(v)
  PROVE  value' = v /\ deltas' \in Seq(Levels)
BY LastOfAppend DEF BoundTypeOK, Publish

LEMMA FaceTyped ==
  ASSUME NEW v \in Levels, kind \in Kinds
  PROVE  /\ Decoded(v) \in Levels
         /\ Face(v) \in IF kind = "toggle" THEN {0, 1} ELSE Levels
BY LevelsAssumption DEF Decoded, Face

LEMMA BoundStep == BoundIInv /\ [BoundNext]_boundVars => BoundIInv'
<1> SUFFICES ASSUME BoundIInv, [BoundNext]_boundVars PROVE BoundIInv'
  OBVIOUS
<1> USE KindAssumption, LevelsAssumption, BoundsAssumption DEF BoundIInv, dragHistory
<1>1. ASSUME NEW v \in Levels, Other(v) PROVE BoundIInv'
  <2>1. deltas' \in Seq(Levels) /\ value' = v
    BY <1>1, Published DEF Other
  <2>2. BoundTypeOK'
    BY <1>1, <2>1 DEF BoundTypeOK, Other
  <2>3. others' # 0
    BY <1>1 DEF Other, BoundTypeOK
  <2> QED
    BY <1>1, <2>2, <2>3 DEF Other, KnobUnderFinger, OwnHandlers, LastPutIsFinger
<1>2. ASSUME NEW v \in Levels, Slide(v) PROVE BoundIInv'
  <2>1. BoundTypeOK'
    BY <1>2 DEF BoundTypeOK, Slide
  <2> QED
    BY <1>2, <2>1 DEF Slide, KnobUnderFinger, OwnHandlers, LastPutIsFinger
<1>3. CASE Tap
  <2>1. puts' \in Seq(Levels)
    <3>1. PICK v \in Levels : v = IF sub = 0 THEN 1 ELSE 0
      OBVIOUS
    <3>2. SendPut(v) \/ PutDropped
      BY <1>3, <3>1 DEF Tap
    <3> QED
      BY <3>2, LastOfAppend DEF SendPut, PutDropped, BoundTypeOK
  <2>2. BoundTypeOK'
    BY <1>3, <2>1 DEF BoundTypeOK, Tap
  <2> QED
    BY <1>3, <2>2 DEF Tap, KnobUnderFinger, OwnHandlers, LastPutIsFinger
<1>4. CASE Reconcile
  <2>1. shown' \in IF kind = "toggle" THEN {0, 1} ELSE Levels
    BY <1>4, FaceTyped DEF Reconcile, BoundTypeOK
  <2>2. BoundTypeOK'
    BY <1>4, <2>1 DEF BoundTypeOK, Reconcile
  <2> QED
    BY <1>4, <2>2 DEF Reconcile, KnobUnderFinger, OwnHandlers, LastPutIsFinger
<1>5. CASE LetGo
  <2>1. kind = "slider" /\ shown = finger /\ shown \in Levels
    BY <1>5 DEF LetGo, KnobUnderFinger, OwnHandlers, BoundTypeOK
  <2>2. CASE SendPut(shown) /\ unsent' = FALSE /\ astray' = FALSE
    <3>1. puts' \in Seq(Levels) /\ puts' # <<>> /\ puts'[Len(puts')] = shown
      BY <2>1, <2>2, LastOfAppend DEF SendPut, BoundTypeOK
    <3>2. BoundTypeOK'
      BY <1>5, <2>2, <3>1 DEF BoundTypeOK, LetGo
    <3> QED
      BY <1>5, <2>1, <3>1, <3>2 DEF LetGo, KnobUnderFinger, OwnHandlers, LastPutIsFinger
  <2>3. CASE PutDropped /\ unsent' = TRUE /\ astray' = TRUE
    <3>1. BoundTypeOK'
      BY <1>5, <2>3 DEF BoundTypeOK, LetGo, PutDropped
    <3> QED
      BY <1>5, <2>3, <3>1 DEF LetGo, KnobUnderFinger, OwnHandlers, LastPutIsFinger
  <2> QED
    BY <1>5, <2>2, <2>3 DEF LetGo
<1>6. CASE Answer
  <2>1. /\ puts \in Seq(Levels) /\ puts # <<>> /\ Head(puts) \in Levels /\ puts' \in Seq(Levels)
        /\ puts' = <<>> => Head(puts) = puts[Len(puts)]
        /\ puts' # <<>> => puts'[Len(puts')] = puts[Len(puts)]
    BY <1>6, LastOfTail DEF Answer, BoundTypeOK
  <2>2. CASE Publish(Head(puts))
    <3>1. value' = Head(puts) /\ deltas' \in Seq(Levels)
      BY <2>1, <2>2, Published
    <3>2. BoundTypeOK'
      BY <1>6, <2>1, <3>1 DEF BoundTypeOK, Answer
    <3> QED
      BY <1>6, <2>1, <3>1, <3>2 DEF Answer, KnobUnderFinger, OwnHandlers, LastPutIsFinger
  <2>3. CASE kind \in Rejected /\ UNCHANGED <<value, deltas>>
    <3>1. BoundTypeOK'
      BY <1>6, <2>1, <2>3 DEF BoundTypeOK, Answer
    <3> QED
      BY <1>6, <2>3, <3>1 DEF Answer, KnobUnderFinger, OwnHandlers, LastPutIsFinger
  <2> QED
    BY <1>6, <2>2, <2>3 DEF Answer
<1>7. CASE Delta
  <2>1. Head(deltas) \in Levels /\ deltas' \in Seq(Levels)
    BY <1>7, LastOfTail DEF Delta, BoundTypeOK
  <2>2. sub' \in Levels
    BY <1>7, <2>1, FaceTyped DEF Delta, BoundTypeOK
  <2>3. shown' \in IF kind = "toggle" THEN {0, 1} ELSE Levels
    BY <1>7, <2>2, FaceTyped DEF Delta, BoundTypeOK, Face
  <2>4. BoundTypeOK'
    BY <1>7, <2>1, <2>2, <2>3 DEF BoundTypeOK, Delta
  <2>5. sliding => shown' = shown
    BY <1>7 DEF Delta
  <2> QED
    BY <1>7, <2>4, <2>5 DEF Delta, KnobUnderFinger, OwnHandlers, LastPutIsFinger
<1>8. CASE RebuildBound
  <2>1. shown' \in IF kind = "toggle" THEN {0, 1} ELSE Levels
    BY <1>8, FaceTyped DEF RebuildBound, BoundTypeOK
  <2>2. BoundTypeOK'
    BY <1>8, <2>1 DEF BoundTypeOK, RebuildBound
  <2> QED
    BY <1>8, <2>2 DEF RebuildBound, KnobUnderFinger, OwnHandlers, LastPutIsFinger, BoundTypeOK
<1>9. CASE UNCHANGED boundVars
  BY <1>9 DEF boundVars, BoundTypeOK, KnobUnderFinger, OwnHandlers, LastPutIsFinger
<1> QED
  BY <1>1, <1>2, <1>3, <1>4, <1>5, <1>6, <1>7, <1>8, <1>9 DEF BoundNext

\* Whatever echoes, foreign writes and answers fall into a drag, the knob stays
\* under the finger; and once all is quiet, a server that accepts a slider's
\* PUTs and hears of no other client holds what the last drag left, unless its
\* PUT was dropped or the slider deleted in it, whatever happened to the others.
THEOREM BoundSafe == BoundSpec => []BoundInv
BY BoundInitially, BoundStep, BoundIInvImplies, PTL DEF BoundSpec

-----------------------------------------------------------------------------
(* ZoneDisplay. *)

ZoneRows == [lower : Nat, upper : Nat, state : STRING]

LEMMA ZoneListTyped ==
  ASSUME NEW zs \in ZoneLists
  PROVE  /\ Len(zs) \in Nat /\ DOMAIN zs = 1 .. Len(zs)
         /\ \A i \in DOMAIN zs : /\ zs[i].lower \in Nat /\ zs[i].upper \in Nat
                                  /\ zs[i].lower <= zs[i].upper
<1>1. zs \in Seq(ZoneRows)
  BY ZoneListsAssumption DEF ZoneRows
<1>2. \A i \in DOMAIN zs : zs[i] \in ZoneRows
  BY <1>1
<1> QED
  BY <1>1, <1>2, ZoneListsAssumption DEF ZoneRows

(* match() finds a zone if one accepts the reading, and then the first. *)
LEMMA MatchIsFirst ==
  ASSUME NEW zs \in ZoneLists, NEW v \in Nat
  PROVE  IF \E i \in DOMAIN zs : Accepts(zs, i, v)
           THEN /\ Match(zs, v) \in DOMAIN zs /\ Match(zs, v) # 0
                /\ Accepts(zs, Match(zs, v), v)
                /\ \A j \in DOMAIN zs : Accepts(zs, j, v) => Match(zs, v) <= j
           ELSE Match(zs, v) = 0
<1> DEFINE hits == {i \in DOMAIN zs : Accepts(zs, i, v)}
<1>1. CASE hits = {}
  BY <1>1 DEF Match
<1>2. CASE hits # {}
  <2>1. hits \subseteq Nat
    BY ZoneListTyped
  <2>2. PICK n \in hits : \A j \in hits : n <= j
    BY <1>2, <2>1, LeastNatural
  <2> DEFINE m == CHOOSE i \in hits : \A j \in hits : i <= j
  <2>3. m \in hits /\ \A j \in hits : m <= j
    BY <2>2
  <2>4. Match(zs, v) = m
    BY <1>2 DEF Match
  <2> QED
    BY <1>2, <2>3, <2>4, ZoneListTyped
<1> QED
  BY <1>1, <1>2

(* Where no point is hidden by the top edge, match() finds a zone the reading *)
(* belongs to, if there is one.                                               *)
LEMMA MatchIsWanted ==
  ASSUME NEW zs \in ZoneLists, NEW v \in Nat, ~Hidden(zs, v)
  PROVE  IF Wanted(zs, v) = {} THEN Match(zs, v) = 0
         ELSE Match(zs, v) # 0 /\ Match(zs, v) \in Wanted(zs, v)
<1> DEFINE D == DOMAIN zs
           m == Match(zs, v)
           spans(i) == zs[i].lower <= v /\ v < zs[i].upper
           point(i) == zs[i].lower = v /\ zs[i].upper = v
           ends(i) == zs[i].upper = v /\ TopEdge(zs, v)
<1>1. /\ D \subseteq Nat
      /\ \A i \in D : zs[i].lower \in Nat /\ zs[i].upper \in Nat /\ zs[i].lower <= zs[i].upper
  BY ZoneListTyped
<1>2. \A i \in D : Accepts(zs, i, v) <=> spans(i) \/ point(i) \/ (ends(i) /\ zs[i].lower # v)
  BY <1>1 DEF Accepts, IsPoint
<1>3. Wanted(zs, v) = IF \E i \in D : spans(i) \/ point(i)
                        THEN {i \in D : spans(i) \/ point(i)} ELSE {i \in D : ends(i)}
  BY DEF Wanted
<1>4. \A i \in D : ends(i) => \A j \in D : ~spans(j)
  BY <1>1 DEF TopEdge
<1>5. CASE \E i \in D : Accepts(zs, i, v)
  <2>1. /\ m \in D /\ m # 0 /\ Accepts(zs, m, v)
        /\ \A j \in D : Accepts(zs, j, v) => m <= j
    BY <1>5, MatchIsFirst
  <2>2. CASE spans(m) \/ point(m)
    BY <1>3, <2>1, <2>2
  <2>3. CASE ends(m) /\ zs[m].lower # v
    <3>1. ASSUME NEW j \in D, point(j) PROVE FALSE
      <4>1. m <= j /\ m # j
        BY <1>2, <2>1, <2>3, <3>1
      <4> QED
        BY <1>1, <2>1, <2>3, <3>1, <4>1 DEF Hidden, IsPoint
    <3> QED
      BY <1>3, <1>4, <2>1, <2>3, <3>1
  <2> QED
    BY <1>2, <2>1, <2>2, <2>3
<1>6. CASE ~\E i \in D : Accepts(zs, i, v)
  <2>1. m = 0
    BY <1>6, MatchIsFirst
  <2>2. \A i \in D : ~spans(i) /\ ~point(i)
    BY <1>2, <1>6
  <2>3. \A i \in D : ~ends(i)
    <3> SUFFICES ASSUME NEW i \in D, ends(i) PROVE FALSE
      OBVIOUS
    <3>1. zs[i].lower = v
      BY <1>2, <1>6
    <3> QED
      BY <2>2, <3>1
  <2> QED
    BY <1>3, <2>1, <2>2, <2>3
<1> QED
  BY <1>5, <1>6

-----------------------------------------------------------------------------
(* The inductive invariant. *)

Jobs == [kind : {"delta"}, v : Readings] \cup [kind : {"meta"}, m : Metas]
          \cup [kind : {"seed"}, m : Metas, v : Readings]

WithZones == {job \in Jobs : job.kind # "delta" /\ job.m.zones # <<>>}
WithDesc == {job \in Jobs : job.kind # "delta" /\ job.m.desc}
WithValue == {job \in Jobs : job.kind # "meta"}
ZonesOf(m) == {job \in Jobs : job.kind # "delta" /\ job.m.zones = m.zones}
ValueOf(r) == {job \in Jobs : job.kind # "meta" /\ job.v = r}

UnderWayTyped ==
  /\ lambdas \in Seq(Jobs)
  /\ seed.at \in {"idle", "value", "post"}
  /\ seed.at # "idle" => seed.m \in Metas
  /\ seed.at = "post" => seed.v \in Readings

\* A tile that is there was painted from what the registry holds now.
TileIsPainted == tile = NoTile \/ tile = Painted(zones, described, level)

\* What a seed carries is what the server has, unless that changed since.
SeedIsFresh ==
  ~behind => /\ seed.at # "idle" => seed.m = meta
             /\ seed.at = "post" => seed.v = reading

\* The last zones under way are the server's, and so are those on the panel if
\* there are none; and so for the value and the description.
ZonesComing ==
  ~behind /\ meta.zones # <<>> =>
    /\ LastIn(lambdas, WithZones, ZonesOf(meta))
    /\ NoneIn(lambdas, WithZones) => zones = meta.zones
ValueComing ==
  ~behind => /\ LastIn(lambdas, WithValue, ValueOf(reading))
             /\ NoneIn(lambdas, WithValue) => level \in {0, reading}
DescComing == meta.desc /\ NoneIn(lambdas, WithDesc) => described

ZoneIInv ==
  /\ ZoneTypeOK /\ UnderWayTyped /\ TileIsPainted /\ SeedIsFresh
  /\ ZonesComing /\ ValueComing /\ DescComing

LEMMA ZoneIInvImplies == ZoneIInv => ZoneInv
<1> SUFFICES ASSUME ZoneIInv PROVE ZoneInv
  OBVIOUS
<1> USE DEF ZoneIInv
<1>1. TintIsTrue
  <2>1. zones \in ZoneLists /\ level \in Nat
    BY ReadingsAssumption DEF ZoneTypeOK
  <2>2. tile.on => tile.bg = Tint(zones, level) /\ tile.named = described
    BY DEF TileIsPainted, NoTile, Painted
  <2>3. ASSUME ~Hidden(zones, level)
        PROVE  IF Wanted(zones, level) = {} THEN Tint(zones, level) = Fallback
               ELSE Tint(zones, level) \in {Color(zones[i].state) : i \in Wanted(zones, level)}
    BY <2>1, <2>3, MatchIsWanted DEF Tint
  <2> QED
    BY <2>2, <2>3 DEF TintIsTrue
<1>2. ZonesSettle
  <2> SUFFICES ASSUME lambdas = <<>>, seed.at = "idle", ~behind
               PROVE  /\ meta.zones # <<>> => zones = meta.zones
                      /\ reports > 0 /\ level # 0 => level = reading
                      /\ meta.desc => described
    BY DEF ZonesSettle
  <2>1. NoneIn(lambdas, WithZones) /\ NoneIn(lambdas, WithValue) /\ NoneIn(lambdas, WithDesc)
    BY DEF NoneIn
  <2> QED
    BY <2>1 DEF ZonesComing, ValueComing, DescComing
<1> QED
  BY <1>1, <1>2 DEF ZoneInv

LEMMA ZoneInitially == ZoneInit => ZoneIInv
<1> SUFFICES ASSUME ZoneInit PROVE ZoneIInv
  OBVIOUS
<1> USE DEF ZoneInit
<1>1. ZoneTypeOK
  <2>1. meta \in Metas /\ zones \in ZoneLists
    BY ReadingsAssumption DEF Metas
  <2>2. reports \in 0 .. MaxReports
    BY ReadingsAssumption
  <2> QED
    BY <2>1, <2>2 DEF ZoneTypeOK
<1>2. UnderWayTyped /\ TileIsPainted /\ SeedIsFresh
  BY DEF UnderWayTyped, TileIsPainted, SeedIsFresh, NoSeed
<1>3. /\ LastIn(lambdas, WithValue, ValueOf(reading))
  BY DEF LastIn
<1> QED
  BY <1>1, <1>2, <1>3 DEF ZoneIInv, ZonesComing, ValueComing, DescComing

LEMMA ReportStep ==
  ASSUME ZoneIInv, NEW v \in Readings, NEW m \in Metas, Report(v, m)
  PROVE  ZoneIInv'
<1> USE DEF ZoneIInv
<1>1. lambdas \in Seq(Jobs)
  BY DEF UnderWayTyped
<1>2. CASE v # reading /\ reading' = v /\ UNCHANGED meta
           /\ lambdas' = Append(lambdas, [kind |-> "delta", v |-> v])
  <2> DEFINE e == [kind |-> "delta", v |-> v]
  <2>1. e \in Jobs /\ e \notin WithZones /\ e \notin WithDesc /\ e \in WithValue /\ e \in ValueOf(v)
    BY DEF Jobs, WithZones, WithDesc, WithValue, ValueOf
  <2> HIDE DEF e
  <2>2. lambdas' = Append(lambdas, e)
    BY <1>2 DEF e
  <2>3. ZoneTypeOK' /\ UnderWayTyped'
    BY <1>1, <1>2, <2>1, <2>2, LastAppended, ReadingsAssumption DEF ZoneTypeOK, UnderWayTyped, Report
  <2>4. ZonesComing'
    BY <1>1, <1>2, <2>1, <2>2, LastAppended DEF ZonesComing, Report
  <2>5. ValueComing'
    BY <1>1, <1>2, <2>1, <2>2, LastAppended DEF ValueComing, Report
  <2>6. DescComing'
    BY <1>1, <1>2, <2>1, <2>2, LastAppended DEF DescComing, Report
  <2> QED
    BY <2>3, <2>4, <2>5, <2>6 DEF TileIsPainted, SeedIsFresh, Report
<1>3. CASE m # meta /\ meta' = m /\ UNCHANGED reading
           /\ lambdas' = Append(lambdas, [kind |-> "meta", m |-> m])
  <2> DEFINE e == [kind |-> "meta", m |-> m]
  <2>1. /\ e \in Jobs /\ e \in ZonesOf(m) /\ e \notin WithValue
        /\ e \in WithZones <=> m.zones # <<>>
        /\ e \in WithDesc <=> m.desc
    BY DEF Jobs, WithZones, WithDesc, WithValue, ZonesOf
  <2> HIDE DEF e
  <2>2. lambdas' = Append(lambdas, e)
    BY <1>3 DEF e
  <2>3. ZoneTypeOK' /\ UnderWayTyped'
    BY <1>1, <1>3, <2>1, <2>2, LastAppended, ReadingsAssumption DEF ZoneTypeOK, UnderWayTyped, Report
  <2>4. ZonesComing'
    BY <1>1, <1>3, <2>1, <2>2, LastAppended DEF ZonesComing, Report
  <2>5. ValueComing'
    BY <1>1, <1>3, <2>1, <2>2, LastAppended DEF ValueComing, Report
  <2>6. DescComing'
    BY <1>1, <1>3, <2>1, <2>2, LastAppended DEF DescComing, Report
  <2> QED
    BY <2>3, <2>4, <2>5, <2>6 DEF TileIsPainted, SeedIsFresh, Report
<1> QED
  BY <1>2, <1>3 DEF Report

LEMMA PostSeedStep == ZoneIInv /\ PostSeed => ZoneIInv'
<1> SUFFICES ASSUME ZoneIInv, PostSeed PROVE ZoneIInv'
  OBVIOUS
<1> USE DEF ZoneIInv
<1> DEFINE e == [kind |-> "seed", m |-> seed.m, v |-> seed.v]
<1>1. lambdas \in Seq(Jobs) /\ seed.m \in Metas /\ seed.v \in Readings
  BY DEF UnderWayTyped, PostSeed
<1>2. /\ e \in Jobs /\ e \in WithValue /\ e \in ValueOf(seed.v) /\ e \in ZonesOf(seed.m)
      /\ e \in WithZones <=> seed.m.zones # <<>>
      /\ e \in WithDesc <=> seed.m.desc
  BY <1>1 DEF Jobs, WithZones, WithDesc, WithValue, ZonesOf, ValueOf
<1>3. ~behind => seed.m = meta /\ seed.v = reading
  BY DEF SeedIsFresh, PostSeed
<1> HIDE DEF e
<1>4. lambdas' = Append(lambdas, e)
  BY DEF e, PostSeed
<1>5. ZoneTypeOK'
  BY DEF ZoneTypeOK, PostSeed
<1>6. UnderWayTyped'
  BY <1>1, <1>2, <1>4, LastAppended DEF UnderWayTyped, PostSeed, NoSeed
<1>7. ZonesComing'
  BY <1>1, <1>2, <1>3, <1>4, LastAppended DEF ZonesComing, PostSeed
<1>8. ValueComing'
  BY <1>1, <1>2, <1>3, <1>4, LastAppended DEF ValueComing, PostSeed
<1>9. DescComing'
  BY <1>1, <1>2, <1>4, LastAppended DEF DescComing, PostSeed
<1> QED
  BY <1>5, <1>6, <1>7, <1>8, <1>9 DEF TileIsPainted, SeedIsFresh, PostSeed, NoSeed

LEMMA RunLambdaStep == ZoneIInv /\ RunLambda => ZoneIInv'
<1> SUFFICES ASSUME ZoneIInv, RunLambda PROVE ZoneIInv'
  OBVIOUS
<1> USE DEF ZoneIInv
<1>1. lambdas \in Seq(Jobs) /\ lambdas # <<>>
  BY DEF UnderWayTyped, RunLambda
<1>2. PICK e \in {Head(lambdas)} : TRUE
  OBVIOUS
<1>3. e = Head(lambdas) /\ lambdas' = Tail(lambdas) /\ e \in Jobs /\ lambdas' \in Seq(Jobs)
  BY <1>1, <1>2, LastTaken DEF RunLambda
<1>4. /\ UNCHANGED <<reading, meta, reports, seed, behind>>
      /\ e.kind # "delta" => /\ e.m \in Metas
                             /\ described' = (described \/ e.m.desc)
                             /\ zones' = IF e.m.zones # <<>> THEN e.m.zones ELSE zones
      /\ e.kind = "delta" => UNCHANGED <<zones, described>>
      /\ e.kind # "meta" => e.v \in Readings /\ level' = e.v
      /\ e.kind = "meta" => level' = level
  <2>1. e.kind # "delta" => e.m \in Metas
    BY <1>3 DEF Jobs
  <2>2. e.kind # "meta" => e.v \in Readings
    BY <1>3 DEF Jobs
  <2>3. e.kind # "delta" => /\ described' = (described \/ e.m.desc)
                            /\ zones' = IF e.m.zones # <<>> THEN e.m.zones ELSE zones
    BY <1>3 DEF RunLambda, ApplyMeta
  <2>4. /\ e.kind = "delta" => UNCHANGED <<zones, described>>
        /\ e.kind # "meta" => level' = e.v
        /\ e.kind = "meta" => level' = level
    BY <1>3 DEF RunLambda, ApplyMeta, Jobs
  <2> QED
    BY <2>1, <2>2, <2>3, <2>4 DEF RunLambda
<1>5. TileIsPainted'
  <2>1. CASE e.kind = "meta"
    <3>1. tile' = IF tile.on /\ (e.m.desc \/ e.m.zones # <<>>)
                  THEN Painted(zones', described', level') ELSE tile
      BY <1>3, <2>1 DEF RunLambda, ApplyMeta
    <3>2. ~e.m.desc /\ e.m.zones = <<>> => zones' = zones /\ (described' <=> described)
      BY <1>4, <2>1
    <3>3. described \in BOOLEAN /\ described' \in BOOLEAN /\ e.m.desc \in BOOLEAN
      BY <1>4, <2>1 DEF ZoneTypeOK, Metas
    <3>4. ~e.m.desc /\ e.m.zones = <<>> => UNCHANGED <<zones, described, level>>
      BY <1>4, <2>1, <3>2, <3>3
    <3>5. CASE tile.on /\ (e.m.desc \/ e.m.zones # <<>>)
      BY <3>1, <3>5 DEF TileIsPainted
    <3>6. CASE tile.on /\ ~e.m.desc /\ e.m.zones = <<>>
      BY <3>1, <3>4, <3>6 DEF TileIsPainted
    <3>7. CASE ~tile.on
      BY <3>1, <3>7 DEF TileIsPainted, Painted
    <3> QED
      BY <3>5, <3>6, <3>7
  <2>2. CASE e.kind # "meta"
    BY <1>3, <2>2 DEF RunLambda, TileIsPainted, NoTile, Painted
  <2> QED
    BY <2>1, <2>2
<1>6. ZoneTypeOK'
  BY <1>3, <1>4 DEF ZoneTypeOK, Metas, Jobs
<1>7. UnderWayTyped' /\ SeedIsFresh'
  BY <1>3, <1>4 DEF UnderWayTyped, SeedIsFresh
<1>8. ZonesComing'
  <2>1. e \in WithZones <=> e.kind # "delta" /\ e.m.zones # <<>>
    BY <1>3 DEF WithZones
  <2>2. e \in ZonesOf(meta) => e.m.zones = meta.zones
    BY DEF ZonesOf
  <2> QED
    BY <1>1, <1>3, <1>4, <2>1, <2>2, LastTaken DEF ZonesComing
<1>9. ValueComing'
  <2>1. e \in WithValue <=> e.kind # "meta"
    BY <1>3 DEF WithValue
  <2>2. e \in ValueOf(reading) => e.v = reading
    BY DEF ValueOf
  <2> QED
    <3>1. /\ LastIn(lambdas, WithValue, ValueOf(reading)) => LastIn(lambdas', WithValue, ValueOf(reading))
          /\ LastIn(lambdas, WithValue, ValueOf(reading)) /\ e \in WithValue /\ NoneIn(lambdas', WithValue)
               => e \in ValueOf(reading)
          /\ e \notin WithValue /\ NoneIn(lambdas', WithValue) => NoneIn(lambdas, WithValue)
      BY <1>1, <1>3, LastTaken
    <3> QED
      BY <1>4, <2>1, <2>2, <3>1 DEF ValueComing
<1>10. DescComing'
  <2>1. e \in WithDesc <=> e.kind # "delta" /\ e.m.desc
    BY <1>3 DEF WithDesc
  <2> QED
    <3>1. e \notin WithDesc /\ NoneIn(lambdas', WithDesc) => NoneIn(lambdas, WithDesc)
      BY <1>1, <1>3, LastTaken
    <3>2. e \in WithDesc => described'
      BY <1>4, <2>1
    <3>3. described => described'
      BY <1>4, <2>1
    <3> QED
      BY <1>4, <3>1, <3>2, <3>3 DEF DescComing
<1> QED
  BY <1>5, <1>6, <1>7, <1>8, <1>9, <1>10

LEMMA ZoneStep == ZoneIInv /\ [ZoneNext]_zoneVars => ZoneIInv'
<1> SUFFICES ASSUME ZoneIInv, [ZoneNext]_zoneVars PROVE ZoneIInv'
  OBVIOUS
<1> USE DEF ZoneIInv
<1>1. ASSUME NEW v \in Readings, NEW m \in Metas, Report(v, m) PROVE ZoneIInv'
  BY <1>1, ReportStep
<1>2. CASE FetchMeta
  <2>1. ZonesComing' /\ ValueComing' /\ DescComing'
    BY <1>2 DEF FetchMeta, ZonesComing, ValueComing, DescComing
  <2> QED
    BY <1>2, <2>1 DEF FetchMeta, ZoneTypeOK, UnderWayTyped, TileIsPainted, SeedIsFresh
<1>3. CASE FetchValue
  <2>1. ZonesComing' /\ ValueComing' /\ DescComing'
    BY <1>3 DEF FetchValue, ZonesComing, ValueComing, DescComing
  <2> QED
    BY <1>3, <2>1 DEF FetchValue, ZoneTypeOK, UnderWayTyped, TileIsPainted, SeedIsFresh
<1>4. CASE PostSeed
  BY <1>4, PostSeedStep
<1>5. CASE RunLambda
  BY <1>5, RunLambdaStep
<1>6. CASE BuildTile \/ DeleteTile
  BY <1>6 DEF BuildTile, DeleteTile, ZoneTypeOK, UnderWayTyped, TileIsPainted, SeedIsFresh,
              ZonesComing, ValueComing, DescComing
<1>7. CASE UNCHANGED zoneVars
  BY <1>7 DEF zoneVars, ZoneTypeOK, UnderWayTyped, TileIsPainted, SeedIsFresh,
              ZonesComing, ValueComing, DescComing
<1> QED
  BY <1>1, <1>2, <1>3, <1>4, <1>5, <1>6, <1>7 DEF ZoneNext

\* For any lists of zones and readings, however meta, seeds, values and page
\* swaps interleave: a tile has the color of a zone its reading lies in, by the
\* zones held now, and what has settled is what the server has.
THEOREM ZonesSafe == ZoneSpec => []ZoneInv
BY ZoneInitially, ZoneStep, ZoneIInvImplies, PTL DEF ZoneSpec

-----------------------------------------------------------------------------
(* VoiceControl. *)

Flags == {"spk_muted", "mic_muted"}

LEMMA SettingsAreFunctions ==
  ASSUME NEW s
  PROVE  s \in Settings <=> /\ s = [key \in Keys |-> s[key]]
                            /\ s["spk_muted"] \in BOOLEAN
                            /\ s["mic_muted"] \in BOOLEAN
                            /\ s["volume"] \in Volumes
BY DEF Settings, Keys

LEMMA SettingChanged ==
  ASSUME NEW s \in Settings, NEW key \in Keys, NEW v, NEW t, t = [s EXCEPT ![key] = v]
  PROVE  \A k \in Keys : t[k] = IF k = key THEN v ELSE s[k]
BY DEF Settings, Keys

LEMMA VolumeIsKey == "volume" \in Keys
BY DEF Keys

LEMMA FlagChanged ==
  ASSUME NEW s \in Settings, NEW key \in Flags, NEW v \in BOOLEAN, NEW t,
         t = [s EXCEPT ![key] = v]
  PROVE  t \in Settings
BY DEF Settings, Flags

LEMMA VolumeChanged ==
  ASSUME NEW s \in Settings, NEW v \in Volumes, NEW t, t = [s EXCEPT !["volume"] = v]
  PROVE  t \in Settings
BY DEF Settings

\* The two switches, as build_speaker_switch() and build_mic_switch() leave them.
LEMMA SwitchesTyped ==
  ASSUME NEW a \in BOOLEAN, NEW b \in BOOLEAN
  PROVE  [spk_muted |-> a, mic_muted |-> b] \in [Flags -> BOOLEAN]
BY DEF Flags

\* While a gesture is at its write no finger is on a slider, and what is to be
\* written is what the gesture asked for.
AtItsWrite ==
  /\ writing # {} => grabbed = NoSlider
  /\ \A key \in writing : setting_of[key] = asked[key]

VoiceIInv == VoiceInv /\ AtItsWrite

\* The settings as three variables would have them.
LEMMA VoiceTyped ==
  ASSUME VoiceTypeOK
  PROVE  /\ setting_of \in Settings /\ stored \in Settings /\ asked \in Settings
         /\ setting_of["spk_muted"] \in BOOLEAN /\ setting_of["mic_muted"] \in BOOLEAN
         /\ setting_of["volume"] \in Volumes
         /\ Flags \subseteq Keys /\ "volume" \in Keys /\ "volume" \notin Flags
BY SettingsAreFunctions DEF VoiceTypeOK, Flags, Keys

LEMMA VoiceInitially == VoiceInit => VoiceIInv
<1> SUFFICES ASSUME VoiceInit PROVE VoiceIInv
  OBVIOUS
<1>1. VoiceTypeOK
  <2>1. setting_of \in Settings
    BY VolumeAssumption DEF Settings, VoiceInit
  <2>2. switches \in [Flags -> BOOLEAN]
    BY SwitchesTyped DEF VoiceInit
  <2> QED
    BY <2>1, <2>2, VolumeAssumption DEF VoiceTypeOK, Flags, VoiceInit
<1>2. SettingsSurvive /\ TalkNeedsFinger /\ AtItsWrite
  <2>1. stored = asked /\ setting_of = asked /\ writing = {} /\ ptt = FALSE
    BY DEF VoiceInit
  <2>2. SettingsSurvive
    BY <2>1 DEF SettingsSurvive
  <2>3. TalkNeedsFinger
    BY <2>1 DEF TalkNeedsFinger
  <2>4. AtItsWrite
    BY <2>1 DEF AtItsWrite
  <2> QED
    BY <2>2, <2>3, <2>4
<1>3. WidgetsAgree
  <2>1. switches = [spk_muted |-> ~setting_of.spk_muted, mic_muted |-> ~setting_of.mic_muted]
    BY DEF VoiceInit
  <2>2. switches = [key \in Flags |-> ~setting_of[key]]
    BY <2>1 DEF Flags
  <2> QED
    BY <2>2 DEF WidgetsAgree, VoiceInit, Flags
<1> QED
  BY <1>1, <1>2, <1>3 DEF VoiceIInv, VoiceInv

LEMMA FlipStep ==
  ASSUME VoiceIInv, NEW key \in Flags, Flip(key)
  PROVE  VoiceIInv'
<1> USE DEF VoiceIInv, VoiceInv
<1> DEFINE v == switches[key]
<1>0. v \in BOOLEAN
  BY DEF VoiceTypeOK, Flags
<1>1. key \in Keys /\ key # "volume"
  BY DEF Flags, Keys
<1>2. /\ setting_of' \in Settings
      /\ \A k \in Keys : setting_of'[k] = IF k = key THEN v ELSE setting_of[k]
  <2>1. setting_of' = [setting_of EXCEPT ![key] = v] /\ setting_of \in Settings
    BY VoiceTyped DEF Flip
  <2>2. setting_of' \in Settings
    BY <1>0, <2>1, FlagChanged
  <2> QED
    BY <1>1, <2>1, <2>2, SettingChanged
<1>3. /\ asked' \in Settings
      /\ \A k \in Keys : asked'[k] = IF k = key THEN v ELSE asked[k]
  <2>1. asked' = [asked EXCEPT ![key] = v] /\ asked \in Settings
    BY VoiceTyped DEF Flip
  <2>2. asked' \in Settings
    BY <1>0, <2>1, FlagChanged
  <2> QED
    BY <1>1, <2>1, <2>2, SettingChanged
<1>4. driver' \in [enabled : BOOLEAN, volume : Volumes]
  BY <1>0 DEF Flip, VoiceTypeOK
<1>5. VoiceTypeOK'
  BY <1>1, <1>2, <1>3, <1>4 DEF VoiceTypeOK, Flip, Flags, Keys
<1>6. SettingsSurvive'
  BY <1>1, <1>2, <1>3 DEF SettingsSurvive, Flip, Idle, Keys
<1>7. TalkNeedsFinger'
  BY <1>1, <1>2 DEF TalkNeedsFinger, Flip, Idle, Keys, Flags
<1>8. switches' = [k \in Flags |-> ~setting_of'[k]]
  BY <1>1, <1>2 DEF WidgetsAgree, Flip, Flags, Keys, VoiceTypeOK
<1>9. driver' = [enabled |-> ~setting_of'["spk_muted"], volume |-> setting_of'["volume"]]
  <2>1. CASE key = "spk_muted"
    BY <2>1, <1>1, <1>2 DEF WidgetsAgree, Flip, Keys
  <2>2. CASE key = "mic_muted"
    BY <2>2, <1>1, <1>2 DEF WidgetsAgree, Flip, Keys
  <2> QED
    BY <2>1, <2>2 DEF Flags
<1>10. \A k \in Sliders : mover' \in {NoSlider, k} => knobs'[k] = setting_of'["volume"]
  BY <1>1, <1>2 DEF WidgetsAgree, Flip, Keys
<1>11. WidgetsAgree'
  BY <1>8, <1>9, <1>10 DEF WidgetsAgree, Flags
<1>12. AtItsWrite'
  BY <1>1, <1>2, <1>3 DEF AtItsWrite, Flip, Idle
<1> QED
  BY <1>5, <1>6, <1>7, <1>11, <1>12

LEMMA SweepStep ==
  ASSUME VoiceIInv, NEW k \in Sliders, NEW v \in Volumes, Sweep(k, v)
  PROVE  VoiceIInv'
<1> USE DEF VoiceIInv, VoiceInv
<1>1. k # NoSlider /\ writing = {}
  BY SliderAssumption DEF Sweep, AtItsWrite
<1>2. /\ setting_of' \in Settings
      /\ \A key \in Keys : setting_of'[key] = IF key = "volume" THEN v ELSE setting_of[key]
  <2>1. setting_of' = [setting_of EXCEPT !["volume"] = v] /\ setting_of \in Settings
    BY VoiceTyped DEF Sweep
  <2>2. setting_of' \in Settings
    BY <2>1, VolumeChanged
  <2>3. \A key \in Keys : setting_of'[key] = IF key = "volume" THEN v ELSE setting_of[key]
    BY <2>1, VolumeIsKey, SettingChanged
  <2> QED
    BY <2>2, <2>3
<1>3. knobs' \in [Sliders -> Volumes] /\ knobs'[k] = v
  BY DEF Sweep, VoiceTypeOK
<1>4. driver' = [enabled |-> ~setting_of["spk_muted"], volume |-> v]
  BY DEF Sweep, WidgetsAgree
<1>5. VoiceTypeOK'
  BY <1>2, <1>3, <1>4, VoiceTyped DEF VoiceTypeOK, Sweep
<1>6. SettingsSurvive'
  BY <1>1, <1>2 DEF SettingsSurvive, Sweep
<1>7. TalkNeedsFinger' /\ AtItsWrite'
  BY <1>1, <1>2 DEF TalkNeedsFinger, AtItsWrite, Sweep, Keys
<1>8. switches' = [key \in Flags |-> ~setting_of'[key]]
  BY <1>2 DEF WidgetsAgree, Sweep, Flags, Keys
<1>9. \A j \in Sliders : mover' \in {NoSlider, j} => knobs'[j] = setting_of'["volume"]
  BY <1>1, <1>2, <1>3 DEF Sweep, Keys
<1>10. WidgetsAgree'
  BY <1>2, <1>4, <1>8, <1>9 DEF WidgetsAgree, Sweep, Flags, Keys
<1> QED
  BY <1>5, <1>6, <1>7, <1>10

LEMMA CommitStep == VoiceIInv /\ CommitVolume => VoiceIInv'
<1> SUFFICES ASSUME VoiceIInv, CommitVolume PROVE VoiceIInv'
  OBVIOUS
<1> USE DEF VoiceIInv, VoiceInv
<1> DEFINE v == knobs[grabbed]
<1>1. grabbed \in Sliders /\ writing = {} /\ v \in Volumes /\ grabbed # NoSlider
  BY SliderAssumption DEF CommitVolume, AtItsWrite, VoiceTypeOK
<1>2. /\ setting_of' \in Settings
      /\ \A key \in Keys : setting_of'[key] = IF key = "volume" THEN v ELSE setting_of[key]
  <2>1. setting_of' = [setting_of EXCEPT !["volume"] = v] /\ setting_of \in Settings
    BY VoiceTyped DEF CommitVolume
  <2>2. setting_of' \in Settings
    BY <1>1, <2>1, VolumeChanged
  <2>3. \A key \in Keys : setting_of'[key] = IF key = "volume" THEN v ELSE setting_of[key]
    BY <2>1, VolumeIsKey, SettingChanged
  <2> QED
    BY <2>2, <2>3
<1>3. /\ asked' \in Settings
      /\ \A key \in Keys : asked'[key] = IF key = "volume" THEN v ELSE asked[key]
  <2>1. asked' = [asked EXCEPT !["volume"] = v] /\ asked \in Settings
    BY VoiceTyped DEF CommitVolume
  <2>2. asked' \in Settings
    BY <1>1, <2>1, VolumeChanged
  <2>3. \A key \in Keys : asked'[key] = IF key = "volume" THEN v ELSE asked[key]
    BY <2>1, VolumeIsKey, SettingChanged
  <2> QED
    BY <2>2, <2>3
<1>4. driver' = [enabled |-> ~setting_of["spk_muted"], volume |-> v]
  BY DEF CommitVolume, WidgetsAgree
<1>5. VoiceTypeOK'
  BY <1>1, <1>2, <1>3, <1>4, VoiceTyped DEF VoiceTypeOK, CommitVolume
<1>6. SettingsSurvive'
  BY <1>1, <1>2, <1>3 DEF SettingsSurvive, CommitVolume
<1>7. TalkNeedsFinger' /\ AtItsWrite'
  BY <1>1, <1>2, <1>3 DEF TalkNeedsFinger, AtItsWrite, CommitVolume, Keys
<1>8. switches' = [key \in Flags |-> ~setting_of'[key]]
  BY <1>2 DEF WidgetsAgree, CommitVolume, Flags, Keys
<1>9. \A j \in Sliders : mover' \in {NoSlider, j} => knobs'[j] = setting_of'["volume"]
  BY <1>1, <1>2 DEF CommitVolume, Keys
<1>10. WidgetsAgree'
  BY <1>2, <1>4, <1>8, <1>9 DEF WidgetsAgree, CommitVolume, Flags, Keys
<1> QED
  BY <1>5, <1>6, <1>7, <1>10

LEMMA StoreStep ==
  ASSUME VoiceIInv, NEW key \in Keys, Store(key)
  PROVE  VoiceIInv'
<1> USE DEF VoiceIInv, VoiceInv
<1>1. setting_of[key] = asked[key] /\ grabbed = NoSlider
  BY DEF Store, AtItsWrite
<1>3. CASE stored' = [stored EXCEPT ![key] = setting_of[key]] /\ torn' = torn \ {key}
  <2>0. stored \in Settings
    BY VoiceTyped
  <2>1. stored' \in Settings
    <3>1. CASE key = "volume"
      <4>1. stored' = [stored EXCEPT !["volume"] = setting_of["volume"]]
        BY <1>3, <3>1
      <4> QED
        BY VoiceTyped, <4>1, VolumeChanged
    <3>2. CASE key \in Flags
      <4>1. setting_of[key] \in BOOLEAN
        BY <3>2, VoiceTyped DEF Flags
      <4> QED
        BY <1>3, <2>0, <3>2, <4>1, FlagChanged
    <3> QED
      BY <3>1, <3>2 DEF Keys, Flags
  <2>2. \A k \in Keys : stored'[k] = IF k = key THEN setting_of[key] ELSE stored[k]
    BY <1>3, <2>0, SettingChanged
  <2>3. VoiceTypeOK'
    BY <1>3, <2>1 DEF VoiceTypeOK, Store
  <2>4. SettingsSurvive'
    BY <1>1, <1>3, <2>2 DEF SettingsSurvive, Store
  <2> QED
    BY <2>3, <2>4 DEF TalkNeedsFinger, WidgetsAgree, AtItsWrite, Store
<1>4. CASE torn' = torn \cup {key} /\ UNCHANGED stored
  BY <1>4 DEF VoiceTypeOK, SettingsSurvive, TalkNeedsFinger, WidgetsAgree, AtItsWrite, Store
<1> QED
  BY <1>3, <1>4 DEF Store

LEMMA NewPageStep == VoiceIInv /\ NewPage => VoiceIInv'
<1> SUFFICES ASSUME VoiceIInv, NewPage PROVE VoiceIInv'
  OBVIOUS
<1> USE DEF VoiceIInv, VoiceInv
<1>1. VoiceTypeOK'
  <2>1. switches' \in [Flags -> BOOLEAN] /\ knobs' \in [Sliders -> Volumes]
    BY VoiceTyped, SwitchesTyped DEF NewPage, Build
  <2> QED
    BY <2>1, VoiceTyped DEF VoiceTypeOK, NewPage, Build, Keys, Flags
<1>2. SettingsSurvive'
  BY DEF SettingsSurvive, NewPage, Build
<1>3. WidgetsAgree'
  <2>1. switches' = [key \in Flags |-> ~setting_of[key]]
    BY DEF NewPage, Build, Flags
  <2> QED
    BY <2>1 DEF WidgetsAgree, NewPage, Build, Flags
<1> QED
  BY <1>1, <1>2, <1>3 DEF TalkNeedsFinger, AtItsWrite, NewPage, Build

LEMMA PowerLossStep == VoiceIInv /\ PowerLoss => VoiceIInv'
<1> SUFFICES ASSUME VoiceIInv, PowerLoss PROVE VoiceIInv'
  OBVIOUS
<1> USE DEF VoiceIInv, VoiceInv
<1>0. stored["spk_muted"] \in BOOLEAN /\ stored["mic_muted"] \in BOOLEAN /\ stored["volume"] \in Volumes
  BY VoiceTyped, SettingsAreFunctions
<1>1. VoiceTypeOK'
  <2>1. switches' \in [Flags -> BOOLEAN] /\ knobs' \in [Sliders -> Volumes]
    BY <1>0, SwitchesTyped DEF PowerLoss, Build
  <2>2. driver' \in [enabled : BOOLEAN, volume : Volumes]
    BY <1>0 DEF PowerLoss
  <2> QED
    BY <2>1, <2>2, VoiceTyped DEF VoiceTypeOK, PowerLoss, Build, Keys, Flags
<1>2. SettingsSurvive'
  BY DEF SettingsSurvive, PowerLoss, Build
<1>3. WidgetsAgree'
  <2>1. switches' = [key \in Flags |-> ~stored[key]]
    BY DEF PowerLoss, Build, Flags
  <2> QED
    BY <2>1 DEF WidgetsAgree, PowerLoss, Build, Flags
<1> QED
  BY <1>1, <1>2, <1>3 DEF TalkNeedsFinger, AtItsWrite, PowerLoss, Build

LEMMA VoiceStep == VoiceIInv /\ [VoiceNext]_voiceVars => VoiceIInv'
<1> SUFFICES ASSUME VoiceIInv, [VoiceNext]_voiceVars PROVE VoiceIInv'
  OBVIOUS
<1>1. ASSUME NEW key \in {"spk_muted", "mic_muted"}, Flip(key) PROVE VoiceIInv'
  BY <1>1, FlipStep DEF Flags
<1>2. ASSUME NEW k \in Sliders, Grab(k) PROVE VoiceIInv'
  BY <1>2 DEF VoiceIInv, VoiceInv, VoiceTypeOK, SettingsSurvive, TalkNeedsFinger, WidgetsAgree,
              AtItsWrite, Grab, Idle
<1>3. ASSUME NEW k \in Sliders, NEW v \in Volumes, Sweep(k, v) PROVE VoiceIInv'
  BY <1>3, SweepStep
<1>4. CASE CommitVolume
  BY <1>4, CommitStep
<1>5. ASSUME NEW key \in Keys, Store(key) PROVE VoiceIInv'
  BY <1>5, StoreStep
<1>6. CASE TalkPressed
  BY <1>6, VoiceTyped DEF VoiceIInv, VoiceInv, VoiceTypeOK, SettingsSurvive, TalkNeedsFinger, WidgetsAgree,
              AtItsWrite, TalkPressed, Idle
<1>7. CASE TalkReleased
  BY <1>7 DEF VoiceIInv, VoiceInv, VoiceTypeOK, SettingsSurvive, TalkNeedsFinger, WidgetsAgree,
              AtItsWrite, TalkReleased
<1>8. CASE NewPage
  BY <1>8, NewPageStep
<1>9. CASE PowerLoss
  BY <1>9, PowerLossStep
<1>10. CASE UNCHANGED voiceVars
  BY <1>10 DEF voiceVars, VoiceIInv, VoiceInv, VoiceTypeOK, SettingsSurvive, TalkNeedsFinger, WidgetsAgree,
              AtItsWrite
<1> QED
  BY <1>1, <1>2, <1>3, <1>4, <1>5, <1>6, <1>7, <1>8, <1>9, <1>10 DEF VoiceNext

\* For any levels and sliders, with failing NVS writes and a loss of power at any
\* step: what was set survives, push-to-talk is on only under a finger and never
\* muted, and widgets, setting and driver agree.
THEOREM VoiceSafe == VoiceSpec => []VoiceInv
<1>1. VoiceIInv => VoiceInv
  BY DEF VoiceIInv
<1> QED
  BY VoiceInitially, VoiceStep, <1>1, PTL DEF VoiceSpec

-----------------------------------------------------------------------------
(* The page. *)

PageIInv == BrightnessIInv /\ ButtonIInv /\ BoundIInv /\ ZoneIInv /\ VoiceIInv

LEMMA PageInitially == ControlsInit => PageIInv
BY BrightnessInitially, ButtonInitially, BoundInitially, ZoneInitially, VoiceInitially
   DEF ControlsInit, PageIInv

\* A step of the page is a step of each widget, or leaves it alone.
LEMMA PageSteps ==
  ASSUME [ControlsNext]_controlVars
  PROVE  /\ [BrightnessNext]_brightnessVars /\ [ButtonNext]_buttonVars
         /\ [BoundNext]_boundVars /\ [ZoneNext]_zoneVars /\ [VoiceNext]_voiceVars
BY DEF ControlsNext, controlVars

LEMMA PageStep == PageIInv /\ [ControlsNext]_controlVars => PageIInv'
BY PageSteps, BrightnessStep, ButtonStep, BoundStep, ZoneStep, VoiceStep DEF PageIInv

\* On every page, with any widget of widget_factory.cpp the project models, any
\* constants and any number of steps: the types are right; the API's brightness
\* reaches the panel; a press is let go and a hold held; a finger keeps its knob and the last
\* word stands; the tint is that of the zones; what was set survives.
THEOREM ControlsSafe == ControlsSpec => [](BrightnessInv /\ ButtonInv /\ ControlsInv) /\ HoldIsHeld
<1>1. PageIInv => BrightnessInv /\ ButtonInv /\ ControlsInv
  BY ButtonIInvImplies, BoundIInvImplies, ZoneIInvImplies
     DEF PageIInv, BrightnessIInv, BrightnessInv, VoiceIInv, ControlsInv
<1>2. ControlsInit => HoldIsRested
  BY DEF ControlsInit, ButtonInit, HoldIsRested
<1>3. PageIInv /\ HoldIsRested /\ [ControlsNext]_controlVars => HoldIsRested'
  BY PageSteps, HoldIsRestedStep DEF PageIInv
<1>4. PageIInv /\ HoldIsRested /\ [ControlsNext]_controlVars =>
        [\A b \in Held : ~fired[b] /\ fired'[b] => late \/ (rested >= HoldTicks /\ pressed = b)]_buttonVars
  BY PageSteps, HoldFires DEF PageIInv
<1> QED
  BY PageInitially, PageStep, <1>1, <1>2, <1>3, <1>4, PTL DEF ControlsSpec, HoldIsHeld
=============================================================================
