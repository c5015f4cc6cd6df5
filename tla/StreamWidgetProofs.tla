--------------------------- MODULE StreamWidgetProofs ---------------------------
(***************************************************************************)
(* Proofs about StreamWidget for any widgets, sessions and bounds: there   *)
(* is one session at a time, a widget that started one owns it, and what   *)
(* is on screen lies in memory that session holds.                         *)
(***************************************************************************)
EXTENDS StreamWidget, TLAPS

(* The types the argument rests on.                                        *)
Types ==
  /\ alive \subseteq Widget /\ visible \subseteq alive /\ started \subseteq alive
  /\ ui.at \in {"idle", "check", "publish", "pause"}
  /\ ui = [at |-> ui.at, w |-> ui.w, tick |-> ui.tick]
  /\ holder \in Session \cup {None}
  /\ DOMAIN pc = Session /\ DOMAIN owner = Session
  /\ running \in [Session -> BOOLEAN]

(* A handler that is to start a session works for a widget that exists.    *)
StartsForAlive == ui.at \in {"check", "publish"} => ui.w \in alive

(* Only a session that was told to stop takes the way out.                 *)
EndsStopped == \A s \in Session : pc[s] = "ending" => ~running[s]

IInv == Types /\ StartsForAlive /\ EndsStopped /\ OneDecoder /\ StartedOwns

(* A published session is the only one, and belongs to who asked for it.   *)
LEMMA PublishOne ==
  ASSUME IInv, NEW o, Publish(o)
  PROVE  /\ started = {}
         /\ holder' \in Session /\ owner'[holder'] = o /\ running'[holder']
         /\ OneDecoder' /\ EndsStopped'
         /\ DOMAIN pc' = Session /\ DOMAIN owner' = Session
         /\ running' \in [Session -> BOOLEAN]
<1>1. PICK s \in Session :
        /\ pc[s] = "none"
        /\ holder' = s
        /\ pc' = [pc EXCEPT ![s] = "connect"]
        /\ owner' = [owner EXCEPT ![s] = o]
        /\ running' = [running EXCEPT ![s] = TRUE]
  BY DEF Publish
<1>2. holder = None /\ \A q \in Session : ~Live(q)
  BY NoneAssumption DEF Publish, MayPublish, IInv, OneDecoder
<1>3. started = {}
  BY <1>2 DEF IInv, StartedOwns
<1>4. OneDecoder'
  BY <1>1, <1>2 DEF OneDecoder, Live, IInv, Types
<1>5. EndsStopped'
  BY <1>1 DEF EndsStopped, IInv, Types
<1> QED
  BY <1>1, <1>3, <1>4, <1>5 DEF IInv, Types

(* A step of a task that neither ends nor begins one leaves g_state right. *)
LEMMA TaskKeeps ==
  ASSUME IInv, NEW s \in Session, NEW at \in {"loop", "recv", "decode", "callback", "wait", "ack",
                                              "connect", "ending"},
         Live(s), pc' = [pc EXCEPT ![s] = at], at = "ending" => ~running[s],
         UNCHANGED <<alive, visible, started, ui, holder, owner, running>>
  PROVE  IInv'
<1>1. OneDecoder'
  BY DEF IInv, OneDecoder, Live, Types
<1>2. EndsStopped'
  BY DEF IInv, EndsStopped, Types
<1>3. StartedOwns' /\ StartsForAlive' /\ Types'
  BY DEF IInv, StartedOwns, StartsForAlive, Types
<1> QED
  BY <1>1, <1>2, <1>3 DEF IInv

(* Sessions untouched, the rest of the invariant is about widgets.         *)
LEMMA SessionsKept ==
  ASSUME IInv, UNCHANGED <<holder, pc, owner, running>>
  PROVE  OneDecoder' /\ EndsStopped'
BY DEF IInv, OneDecoder, Live, EndsStopped

(* Stopping a session keeps g_state and who is on the way out.             *)
LEMMA StopKept ==
  ASSUME IInv, Stop, UNCHANGED <<holder, pc, owner>>
  PROVE  OneDecoder' /\ EndsStopped' /\ running' \in [Session -> BOOLEAN]
<1>1. OneDecoder'
  BY DEF IInv, OneDecoder, Live
<1>2. EndsStopped' /\ running' \in [Session -> BOOLEAN]
  BY DEF IInv, EndsStopped, Stop, Types
<1> QED
  BY <1>1, <1>2

LEMMA UiKeeps ==
  ASSUME IInv, NEW w \in Widget, UiStep(w)
  PROVE  IInv'
<1>1. CASE Show(w)
  <2>1. Types' /\ StartsForAlive'
    BY <1>1 DEF Show, sessionVars, IInv, Types, StartsForAlive
  <2>2. StartedOwns'
    BY <1>1 DEF Show, sessionVars, IInv, StartedOwns
  <2> QED
    BY <1>1, <2>1, <2>2, SessionsKept DEF Show, sessionVars, IInv
<1>2. CASE Tick(w)
  <2>1. started' \subseteq started /\ w \in alive
    BY <1>2 DEF Tick, IInv, Types
  <2>2. ui' = [at |-> IF w \in started' THEN "pause" ELSE "check", w |-> w, tick |-> TRUE]
    BY <1>2 DEF Tick
  <2>3. UNCHANGED <<alive, visible, holder, pc, owner, running>>
    BY <1>2 DEF Tick, sessionVars
  <2>4. Types' /\ StartsForAlive'
    BY <2>1, <2>2, <2>3 DEF IInv, Types, StartsForAlive
  <2>5. StartedOwns'
    BY <2>1, <2>3 DEF IInv, StartedOwns
  <2> QED
    BY <2>3, <2>4, <2>5, SessionsKept DEF IInv
<1>3. CASE Hide(w)
  <2>1. CASE w \in started
    <3>1. started' = {}
      BY <1>3, <2>1 DEF Hide, Stops, IInv, StartedOwns
    <3>2. Stop
      BY <1>3, <2>1 DEF Hide, Stops
    <3>3. OneDecoder' /\ EndsStopped' /\ running' \in [Session -> BOOLEAN]
      BY <1>3, <3>2, StopKept DEF Hide
    <3> QED
      BY <1>3, <3>1, <3>3 DEF Hide, IInv, Types, StartsForAlive, StartedOwns
  <2>2. CASE w \notin started
    <3>1. UNCHANGED <<holder, pc, owner, running, alive, started, ui>> /\ visible' \subseteq visible
      BY <1>3, <2>2 DEF Hide, Stops
    <3> QED
      BY <3>1, SessionsKept DEF IInv, Types, StartsForAlive, StartedOwns
  <2> QED
    BY <2>1, <2>2
<1> QED
  BY <1>1, <1>2, <1>3 DEF UiStep

LEMMA HandlerKeeps ==
  ASSUME IInv, Handler
  PROVE  IInv'
<1>1. CASE TryStart
  <2>1. UNCHANGED <<alive, visible, started, holder, pc, owner, running>>
    BY <1>1 DEF TryStart, widgetVars, sessionVars
  <2>2. ui' \in {[ui EXCEPT !.at = at] : at \in {"publish", "pause", "idle"}}
    BY <1>1 DEF TryStart, AfterStart
  <2>3. ui.at = "check"
    BY <1>1 DEF TryStart
  <2>4. Types' /\ StartsForAlive'
    BY <2>1, <2>2, <2>3 DEF IInv, Types, StartsForAlive
  <2> QED
    BY <2>1, <2>4, SessionsKept DEF IInv, StartedOwns
<1>2. CASE Started
  <2>1. UNCHANGED <<alive, visible>> /\ ui.at = "publish" /\ ui.w \in alive
    BY <1>2 DEF Started, IInv, StartsForAlive
  <2>2. ui' \in {[ui EXCEPT !.at = at] : at \in {"pause", "idle"}}
    BY <1>2 DEF Started, AfterStart
  <2>3. CASE Publish(ui.w) /\ started' = started \cup {ui.w}
    <3>1. started' = {ui.w}
      BY <2>3, PublishOne
    <3>2. StartedOwns'
      BY <2>3, <3>1, PublishOne, NoneAssumption DEF StartedOwns
    <3>3. Types' /\ StartsForAlive'
      BY <2>1, <2>2, <2>3, <3>1, PublishOne DEF IInv, Types, StartsForAlive
    <3> QED
      BY <2>3, <3>2, <3>3, PublishOne DEF IInv
  <2>4. CASE UNCHANGED <<holder, pc, sessionVars, buf, started>>
    <3>1. Types' /\ StartsForAlive'
      BY <2>1, <2>2, <2>4 DEF IInv, Types, StartsForAlive, sessionVars
    <3> QED
      BY <2>4, <3>1, SessionsKept DEF IInv, StartedOwns, sessionVars
  <2> QED
    BY <1>2, <2>3, <2>4 DEF Started
<1>3. CASE SetPaused
  <2>1. UNCHANGED <<alive, visible, started, holder, pc, owner, running>>
    BY <1>3 DEF SetPaused, widgetVars
  <2>2. ui' = [ui EXCEPT !.at = "idle"]
    BY <1>3 DEF SetPaused
  <2>3. Types' /\ StartsForAlive'
    BY <2>1, <2>2 DEF IInv, Types, StartsForAlive
  <2> QED
    BY <2>1, <2>3, SessionsKept DEF IInv, StartedOwns
<1> QED
  BY <1>1, <1>2, <1>3 DEF Handler

LEMMA LayoutKeeps ==
  ASSUME IInv, NEW W \in SUBSET Widget, NewLayout(W)
  PROVE  IInv'
<1>1. alive' = W /\ started' = {} /\ visible' = {} /\ UNCHANGED <<ui, holder, pc, owner>>
  BY DEF NewLayout, TicksLeft
<1>2. ui.at = "idle" /\ (Stop \/ UNCHANGED running)
  BY DEF NewLayout, Idle
<1>3. OneDecoder' /\ EndsStopped' /\ running' \in [Session -> BOOLEAN]
  BY <1>1, <1>2, StopKept, SessionsKept DEF IInv, Types
<1>4. Types' /\ StartsForAlive' /\ StartedOwns'
  BY <1>1, <1>2, <1>3 DEF IInv, Types, StartsForAlive, StartedOwns
<1> QED
  BY <1>3, <1>4 DEF IInv

LEMMA SoakKeeps ==
  ASSUME IInv, SoakStart \/ SoakStarted \/ SoakStop
  PROVE  IInv'
<1>0. UNCHANGED <<alive, visible, started, ui>>
  BY DEF SoakStart, SoakStarted, SoakStop, widgetVars
<1>1. CASE Publish(soak)
  BY <1>0, <1>1, PublishOne DEF IInv, Types, StartsForAlive, StartedOwns
<1>2. CASE UNCHANGED <<holder, pc, owner, running>>
  BY <1>0, <1>2, SessionsKept DEF IInv, Types, StartsForAlive, StartedOwns
<1>3. CASE SoakStop
  <2>1. started = {}
    <3> SUFFICES ASSUME NEW w \in started
                 PROVE  FALSE
      OBVIOUS
    <3>1. owner[holder] = w /\ w \in Widget
      BY DEF IInv, StartedOwns, Types
    <3> QED
      BY <1>3, <3>1, NoneAssumption DEF SoakStop
  <2>2. OneDecoder' /\ EndsStopped' /\ running' \in [Session -> BOOLEAN]
    BY <1>3, StopKept DEF SoakStop
  <2> QED
    BY <1>0, <1>3, <2>1, <2>2 DEF SoakStop, IInv, Types, StartsForAlive, StartedOwns
<1> QED
  BY <1>1, <1>2, <1>3 DEF SoakStart, SoakStarted, sessionVars

LEMMA TaskKeepsAll ==
  ASSUME IInv, NEW s \in Session, Task(s)
  PROVE  IInv'
<1> USE DEF Quiet, widgetVars, sessionVars, Goes
<1>1. CASE Connect(s)
  BY <1>1, TaskKeeps DEF Connect, Live
<1>2. CASE Loop(s)
  BY <1>2, TaskKeeps DEF Loop, Live
<1>3. CASE Receive(s)
  <2>1. PICK at \in {"decode", "ack", "connect"} : pc' = [pc EXCEPT ![s] = at]
    BY <1>3 DEF Receive
  <2> QED
    BY <1>3, <2>1, TaskKeeps DEF Receive, Live
<1>4. CASE Decode(s)
  BY <1>4, TaskKeeps DEF Decode, Live
<1>5. CASE Callback(s)
  BY <1>5, TaskKeeps DEF Callback, Live
<1>6. CASE Rendered(s)
  BY <1>6, TaskKeeps DEF Rendered, Live
<1>7. CASE Ack(s)
  BY <1>7, TaskKeeps DEF Ack, Live
<1>8. CASE End(s)
  <2>1. holder = s /\ ~running[s]
    BY <1>8 DEF End, IInv, OneDecoder, EndsStopped, Live
  <2>2. started = {}
    BY <2>1 DEF IInv, StartedOwns
  <2>3. holder' = None /\ pc' = [pc EXCEPT ![s] = "free"]
    BY <1>8, <2>1 DEF End, HolderAfter
  <2>4. OneDecoder'
    BY <2>1, <2>3, NoneAssumption DEF IInv, OneDecoder, Live, Types
  <2>5. UNCHANGED <<alive, visible, started, ui, owner, running>>
    BY <1>8 DEF End
  <2> QED
    BY <2>2, <2>3, <2>4, <2>5 DEF IInv, Types, StartsForAlive, StartedOwns, EndsStopped
<1>9. CASE Free(s)
  <2>1. holder # s /\ UNCHANGED <<alive, visible, started, ui, holder, running>>
    BY <1>9 DEF Free, IInv, OneDecoder, Live
  <2>2. pc' = [pc EXCEPT ![s] = "none"] /\ owner' = [owner EXCEPT ![s] = None] /\ pc[s] = "free"
    BY <1>9 DEF Free
  <2>3. OneDecoder' /\ EndsStopped'
    BY <2>1, <2>2 DEF IInv, OneDecoder, EndsStopped, Live, Types
  <2>4. StartedOwns'
    BY <2>1, <2>2 DEF IInv, StartedOwns, Types
  <2> QED
    BY <2>1, <2>2, <2>3, <2>4 DEF IInv, Types, StartsForAlive
<1> QED
  BY <1>1, <1>2, <1>3, <1>4, <1>5, <1>6, <1>7, <1>8, <1>9 DEF Task

LEMMA Inductive == Spec => []IInv
<1>1. Init => IInv
  BY NoneAssumption
     DEF Init, IInv, Types, StartsForAlive, EndsStopped, OneDecoder, Live, StartedOwns
<1>2. ASSUME IInv, [Next]_vars
      PROVE  IInv'
  <2>1. CASE RunLambda \/ Talk \/ UNCHANGED vars
    <3>1. UNCHANGED <<alive, visible, started, ui, holder, pc, owner, running>>
      BY <2>1 DEF RunLambda, Talk, vars, widgetVars, sessionVars
    <3> QED
      BY <1>2, <3>1, SessionsKept DEF IInv, Types, StartsForAlive, StartedOwns
  <2> QED
    BY <1>2, <2>1, UiKeeps, HandlerKeeps, LayoutKeeps, SoakKeeps, TaskKeepsAll DEF Next
<1> QED
  BY <1>1, <1>2, PTL DEF Spec

(* OneSession: whoever starts and stops the client, there is never a       *)
(* second session beside the one g_state points to, and none is lost.      *)
THEOREM OneSession == Spec => []OneDecoder
BY Inductive, PTL DEF IInv

(* OwnersKeepTheirSession: a widget's session is running and its own until *)
(* the widget itself stops it.                                             *)
THEOREM OwnersKeepTheirSession == Spec => []StartedOwns
BY Inductive, PTL DEF IInv

------------------------------------------------------------------------------
(* The frame on screen.                                                    *)

Frame == [w : Widget, px : Session \X Buffer, current : BOOLEAN, late : BOOLEAN]

(* A widget that was deleted shows nothing.                                *)
GoneShowNothing == \A w \in Widget : w \notin alive => shown[w] = None

(* A session is the widget's own, and has not been told to stop.           *)
Own(w, s) == holder = s /\ owner[s] = w /\ running[s]

(* Images, and the frames that will still be shown, lie in such a session. *)
ShownLive ==
  \A w \in Widget \ stray, s \in Session, b \in Buffer : shown[w] = <<s, b>> => Own(w, s)

ToBeShown(f) == f.current /\ ~f.late /\ f.w \in alive

QueueLive == \A i \in 1 .. Len(queue) : ToBeShown(queue[i]) => Own(queue[i].w, queue[i].px[1])

Pictures == GoneShowNothing /\ ShownLive /\ QueueLive

(* While no frame was kept waiting too long there is at most one on its    *)
(* way: its session waits until it was shown.                              *)

(* An image points into the buffer written next exactly between its being  *)
(* shown and the flip.                                                     *)
ShownIsOld ==
  \A w \in Widget \ stray, s \in Session, b \in Buffer :
    shown[w] = <<s, b>> => (b = buf[s] <=> pc[s] = "wait" /\ Len(queue) = 0)

(* A session that waits has its frame queued, or shown and render_sem      *)
(* given; a frame that is no longer current finds no picture.              *)
OneOnItsWay ==
  /\ (\A s \in Session : pc[s] # "wait") => Len(queue) = 0 /\ sem = {}
  /\ \A s \in Session : pc[s] = "wait" =>
       /\ owner[s] \in Widget
       /\ \/ Len(queue) = 0 /\ sem = {owner[s]}
          \/ /\ sem = {} /\ Len(queue) = 1
             /\ queue[1].w = owner[s] /\ queue[1].px = <<s, buf[s]>>
             /\ ~queue[1].current => shown[owner[s]] = None

Frames == stalls = 0 => ShownIsOld /\ OneOnItsWay

(* The queue's three operations.                                           *)
LEMMA HeadTail ==
  ASSUME NEW S, NEW q \in Seq(S), q # <<>>
  PROVE  Head(q) = q[1] /\ q[1] \in S /\ Tail(q) \in Seq(S) /\ Len(Tail(q)) = Len(q) - 1
         /\ Len(q) \in Nat \ {0}
OBVIOUS

LEMMA Appended ==
  ASSUME NEW S, NEW q \in Seq(S), NEW e \in S
  PROVE  Append(q, e) \in Seq(S) /\ Len(Append(q, e)) = Len(q) + 1
         /\ Append(q, e)[Len(q) + 1] = e
OBVIOUS

LEMMA Dropped ==
  ASSUME NEW w, queue \in Seq(Frame), DropFrames(w)
  PROVE  /\ queue' \in Seq(Frame) /\ Len(queue') = Len(queue)
         /\ \A i \in 1 .. Len(queue) : queue'[i] = [queue[i] EXCEPT !.current = @ /\ queue[i].w # w]
<1> DEFINE N == Len(queue)
<1>1. N \in Nat /\ DOMAIN queue = 1 .. N /\ \A i \in 1 .. N : queue[i] \in Frame
  OBVIOUS
<1>2. queue' = [i \in 1 .. N |-> [queue[i] EXCEPT !.current = @ /\ queue[i].w # w]]
  BY <1>1 DEF DropFrames
<1>3. \A i \in 1 .. N : queue'[i] = [queue[i] EXCEPT !.current = @ /\ queue[i].w # w]
  BY <1>2
<1>4. \A i \in 1 .. N : [queue[i] EXCEPT !.current = @ /\ queue[i].w # w] \in Frame
  <2> TAKE i \in 1 .. N
  <2>1. /\ queue[i].w \in Widget /\ queue[i].px \in Session \X Buffer
        /\ queue[i].late \in BOOLEAN /\ (queue[i].current /\ queue[i].w # w) \in BOOLEAN
    BY <1>1 DEF Frame
  <2>2. [queue[i] EXCEPT !.current = @ /\ queue[i].w # w]
          = [w |-> queue[i].w, px |-> queue[i].px,
             current |-> (queue[i].current /\ queue[i].w # w), late |-> queue[i].late]
    BY <1>1 DEF Frame
  <2> QED
    BY <2>1, <2>2 DEF Frame
<1>5. queue' \in [1 .. N -> Frame]
  BY <1>2, <1>4
<1>6. queue' \in Seq(Frame) /\ Len(queue') = N
  BY <1>1, <1>5
<1> QED
  BY <1>3, <1>6

LEMMA Flips == \A b \in Buffer : Flip(b) \in Buffer /\ Flip(b) # b
BY DEF Buffer, Flip

LEMMA QueueTyped == TypeOK => queue \in Seq(Frame)
BY DEF TypeOK, Frame

(* What one step leaves of the types.                                      *)
LEMMA TypesKept ==
  ASSUME TypeOK, IInv, [Next]_vars
  PROVE  TypeOK'
<1> USE DEF TypeOK, Owner
<1>0. 0 \in Buffer /\ queue \in Seq(Frame)
  BY QueueTyped DEF Buffer
<1>1. ASSUME NEW o \in Owner, Publish(o)
      PROVE  /\ holder' \in Session
             /\ pc' \in [Session -> {"none", "connect", "loop", "recv", "decode", "callback",
                                     "wait", "ack", "ending", "free"}]
             /\ owner' \in [Session -> Owner \cup {None}]
             /\ running' \in [Session -> BOOLEAN] /\ paused' \in [Session -> BOOLEAN]
             /\ buf' \in [Session -> Buffer]
  BY <1>0, <1>1 DEF Publish
<1>2. ASSUME Stop
      PROVE  running' \in [Session -> BOOLEAN]
  BY <1>2 DEF Stop
<1>3. ASSUME NEW w \in Widget, UiStep(w)
      PROVE  TypeOK'
  <2>1. CASE Show(w)
    BY <2>1 DEF Show, image, sessionVars, counters
  <2>2. CASE Tick(w)
    BY <2>2 DEF Tick, image, sessionVars, counters
  <2>3. CASE Hide(w)
    <3>1. running' \in [Session -> BOOLEAN]
      BY <2>3, <1>2 DEF Hide
    <3>2. DropFrames(w) => queue' \in Seq(Frame)
      BY <1>0, Dropped
    <3>3. w \in started =>
            /\ DropFrames(w) /\ shown' = [shown EXCEPT ![w] = None] /\ stray' = stray \ {w}
            /\ started' = started \ {w} /\ visible' = visible \ {w}
      BY <2>3 DEF Hide, Stops
    <3>4. w \notin started =>
            visible' = visible \ {w} /\ UNCHANGED <<running, started, queue, shown, stray>>
      BY <2>3 DEF Hide, Stops, image
    <3>5. UNCHANGED <<alive, sem, ui, soaking, voice, holder, pc, owner, paused, buf, stalls,
                      fails, talks>>
      BY <2>3 DEF Hide, counters
    <3>6. CASE w \in started
      BY <3>1, <3>2, <3>3, <3>5, <3>6 DEF Frame
    <3>7. CASE w \notin started
      BY <3>4, <3>5, <3>7
    <3> QED
      BY <3>6, <3>7
  <2> QED
    BY <1>3, <2>1, <2>2, <2>3 DEF UiStep
<1>4. CASE TryStart
  <2>1. ui' \in [at : {"idle", "check", "publish", "pause"}, w : Widget, tick : BOOLEAN]
    BY <1>4 DEF TryStart, AfterStart
  <2>2. fails' \in 0 .. MaxFails
    BY <1>4, BoundAssumption DEF TryStart
  <2> QED
    BY <1>4, <2>1, <2>2 DEF TryStart, widgetVars, image, sessionVars
<1>5. CASE Started
  <2>1. ui' \in [at : {"idle", "check", "publish", "pause"}, w : Widget, tick : BOOLEAN]
    BY <1>5 DEF Started, AfterStart
  <2>2. ui.w \in Owner
    OBVIOUS
  <2>3. CASE Publish(ui.w) /\ started' = started \cup {ui.w}
    <3>1. ui.w \in alive
      BY <1>5 DEF Started, IInv, StartsForAlive
    <3> QED
      BY <1>5, <1>1, <2>1, <2>2, <2>3, <3>1 DEF Started, image, counters
  <2> QED
    BY <1>5, <2>1, <2>3 DEF Started, image, counters, sessionVars
<1>6. CASE SetPaused
  BY <1>6 DEF SetPaused, Pause, widgetVars, image, counters
<1>7. CASE RunLambda
  <2>1. queue # <<>> /\ Head(queue) \in Frame
        /\ Tail(queue) \in Seq(Frame)
    BY <1>7, <1>0, HeadTail DEF RunLambda
  <2>2. Head(queue).w \in Widget /\ Head(queue).px \in Session \X Buffer
    BY <2>1 DEF Frame
  <2>3. shown' \in [Widget -> (Session \X Buffer) \cup {None}] /\ stray' \subseteq Widget
    <3>1. \/ /\ shown' = [shown EXCEPT ![Head(queue).w] = Head(queue).px]
             /\ stray' \in {stray \cup {Head(queue).w}, stray \ {Head(queue).w}}
          \/ shown' = shown /\ stray' = stray
      BY <1>7 DEF RunLambda, image
    <3> QED
      BY <2>2, <3>1
  <2>4. sem' \subseteq Widget /\ queue' = Tail(queue)
    BY <1>7, <2>2 DEF RunLambda
  <2>5. UNCHANGED <<widgetVars, ui, soaking, voice, holder, pc, sessionVars, buf, counters>>
    BY <1>7 DEF RunLambda
  <2> QED
    BY <2>1, <2>3, <2>4, <2>5 DEF Frame, widgetVars, sessionVars, counters
<1>8. ASSUME NEW W \in SUBSET Widget, NewLayout(W)
      PROVE  TypeOK'
  BY <1>8, <1>2 DEF NewLayout, TicksLeft, counters
<1>9. CASE SoakStart
  BY <1>9 DEF SoakStart, widgetVars, image, sessionVars, counters
<1>10. CASE SoakStarted
  BY <1>10, <1>1 DEF SoakStarted, widgetVars, image, sessionVars, counters
<1>11. CASE SoakStop
  BY <1>11, <1>2 DEF SoakStop, widgetVars, image, counters
<1>12. ASSUME NEW s \in Session, Task(s)
       PROVE  TypeOK'
  <2> USE DEF Quiet, widgetVars, image, sessionVars, counters, Goes
  <2>1. CASE Connect(s) \/ Loop(s) \/ Receive(s) \/ Ack(s)
    BY <2>1 DEF Connect, Loop, Receive, Ack
  <2>2. CASE Decode(s)
    <3>1. buf' \in [Session -> Buffer]
      BY <2>2, Flips DEF Decode
    <3> QED
      BY <2>2, <3>1 DEF Decode
  <2>3. CASE Callback(s)
    <3>1. CASE owner[s] \in alive
      <4>1. owner[s] \in Widget /\ <<s, buf[s]>> \in Session \X Buffer
        BY <3>1
      <4>2. [w |-> owner[s], px |-> <<s, buf[s]>>, current |-> TRUE, late |-> ~running[s]]
              \in Frame
        BY <4>1 DEF Frame
      <4>3. queue' = Append(queue, [w |-> owner[s], px |-> <<s, buf[s]>>, current |-> TRUE,
                                    late |-> ~running[s]])
        BY <2>3, <3>1 DEF Callback
      <4>4. queue' \in Seq(Frame)
        BY <4>2, <4>3, <1>0, Appended
      <4> QED
        BY <2>3, <3>1, <4>4 DEF Callback, Frame
    <3>2. CASE owner[s] \notin alive
      <4>1. buf' \in [Session -> Buffer] /\ UNCHANGED queue
        BY <2>3, <3>2, Flips DEF Callback
      <4>2. pc' = [pc EXCEPT ![s] = "ack"]
        BY <2>3, <3>2 DEF Callback
      <4>3. UNCHANGED <<widgetVars, image, ui, soaking, voice, holder, sessionVars, fails, talks,
                        sem, stalls>>
        BY <2>3 DEF Callback
      <4> QED
        BY <4>1, <4>2, <4>3
    <3> QED
      BY <3>1, <3>2
  <2>4. CASE Rendered(s)
    <3>1. sem' \subseteq Widget /\ stalls' \in 0 .. MaxStalls
      BY <2>4, BoundAssumption DEF Rendered
    <3>2. buf' \in [Session -> Buffer]
      BY <2>4, Flips DEF Rendered
    <3> QED
      BY <2>4, <3>1, <3>2 DEF Rendered
  <2>5. CASE End(s)
    BY <2>5 DEF End, HolderAfter
  <2>6. CASE Free(s)
    <3>1. buf' \in [Session -> Buffer]
      BY <1>0, <2>6 DEF Free
    <3> QED
      BY <2>6, <3>1 DEF Free
  <2> QED
    BY <1>12, <2>1, <2>2, <2>3, <2>4, <2>5, <2>6 DEF Task
<1>13. CASE Talk
  BY <1>13, BoundAssumption DEF Talk, widgetVars, image, sessionVars
<1>14. CASE UNCHANGED vars
  BY <1>14 DEF vars, widgetVars, image, sessionVars, counters
<1> QED
  BY <1>3, <1>4, <1>5, <1>6, <1>7, <1>8, <1>9, <1>10, <1>11, <1>12, <1>13, <1>14
     DEF Next, Handler

(* Two sessions never wait at once.                                        *)
LEMMA OneWaits ==
  ASSUME IInv, NEW s \in Session, NEW t \in Session, Live(s), Live(t)
  PROVE  s = t
BY DEF IInv, OneDecoder

LEMMA NoneIsNoFrame == \A s \in Session, b \in Buffer : None # <<s, b>>
BY NoneAssumption DEF Buffer

(* A step that moves no frame and ends no widget's own session.            *)
LEMMA PicturesKept ==
  ASSUME TypeOK, Pictures, UNCHANGED <<alive, shown, stray, queue>>,
         \A w \in Widget, s \in Session : Own(w, s) => Own(w, s)'
  PROVE  Pictures'
<1>1. GoneShowNothing'
  BY DEF Pictures, GoneShowNothing
<1>2. ShownLive'
  <2> SUFFICES ASSUME NEW w \in Widget \ stray, NEW s \in Session, NEW b \in Buffer,
                      shown[w] = <<s, b>>
               PROVE  Own(w, s)'
    BY DEF ShownLive
  <2> QED
    BY DEF Pictures, ShownLive
<1>3. QueueLive'
  <2>1. ASSUME NEW i \in 1 .. Len(queue), ToBeShown(queue[i])
        PROVE  /\ holder' = queue[i].px[1] /\ owner'[queue[i].px[1]] = queue[i].w
               /\ running'[queue[i].px[1]]
    <3>1. queue[i] \in Frame
      BY QueueTyped
    <3>2. queue[i].w \in Widget /\ queue[i].px[1] \in Session
      BY <3>1 DEF Frame
    <3>3. PICK w \in Widget, s \in Session : w = queue[i].w /\ s = queue[i].px[1]
      BY <3>2
    <3>4. Own(w, s)
      BY <2>1, <3>3 DEF Pictures, QueueLive
    <3>5. Own(w, s)'
      BY <3>4
    <3> QED
      BY <3>3, <3>5 DEF Own
  <2>2. alive' = alive /\ queue' = queue
    OBVIOUS
  <2> QED
    BY ONLY <2>1, <2>2 DEF QueueLive, ToBeShown, Own
<1> QED
  BY <1>1, <1>2, <1>3 DEF Pictures

LEMMA PublishPictures ==
  ASSUME TypeOK, Pictures, NEW o, Publish(o), UNCHANGED <<alive, image, queue>>
  PROVE  Pictures'
<1>1. \A w \in Widget, s \in Session : ~Own(w, s)
  BY NoneAssumption DEF Publish, MayPublish, Own
<1> QED
  BY <1>1, PicturesKept DEF image

LEMMA HidePictures ==
  ASSUME TypeOK, IInv, Pictures, NEW w \in Widget, Hide(w)
  PROVE  Pictures'
<1>1. UNCHANGED <<alive, holder, owner>>
  BY DEF Hide
<1>2. CASE w \notin started
  <2>1. UNCHANGED <<running, queue, shown, stray>>
    BY <1>2 DEF Hide, Stops, image
  <2> QED
    BY <1>1, <2>1, PicturesKept DEF Own
<1>3. CASE w \in started
  <2>1. DropFrames(w) /\ shown' = [shown EXCEPT ![w] = None] /\ stray' = stray \ {w}
    BY <1>3 DEF Hide, Stops
  <2>2. \A v \in Widget : shown'[v] = IF v = w THEN None ELSE shown[v]
    BY <2>1 DEF TypeOK
  <2>3. \A v \in Widget \ {w}, s \in Session : ~Own(v, s)
    BY <1>3 DEF Own, IInv, StartedOwns
  <2>4. GoneShowNothing'
    BY <1>1, <2>2 DEF Pictures, GoneShowNothing
  <2>5. ShownLive'
    BY <2>1, <2>2, <2>3, NoneIsNoFrame DEF Pictures, ShownLive
  <2>6. QueueLive'
    <3>1. /\ Len(queue') = Len(queue)
          /\ \A i \in 1 .. Len(queue) :
               queue'[i] = [queue[i] EXCEPT !.current = @ /\ queue[i].w # w]
      BY <2>1, QueueTyped, Dropped
    <3> SUFFICES ASSUME NEW i \in 1 .. Len(queue), queue'[i].current, ~queue'[i].late,
                        queue'[i].w \in alive'
                 PROVE  FALSE
      BY <3>1 DEF QueueLive, ToBeShown
    <3>2. queue[i] \in Frame
      BY QueueTyped
    <3>3. /\ queue'[i].w = queue[i].w /\ queue'[i].late = queue[i].late
          /\ queue'[i].current = (queue[i].current /\ queue[i].w # w)
      BY <3>1, <3>2 DEF Frame
    <3>4. ToBeShown(queue[i]) /\ queue[i].w # w
      BY <1>1, <3>3 DEF ToBeShown
    <3>5. Own(queue[i].w, queue[i].px[1])
      BY <3>4 DEF Pictures, QueueLive
    <3>6. queue[i].w \in Widget /\ queue[i].px[1] \in Session
      BY <3>2 DEF Frame
    <3> QED
      BY <2>3, <3>4, <3>5, <3>6
  <2> QED
    BY <2>4, <2>5, <2>6 DEF Pictures
<1> QED
  BY <1>2, <1>3

(* A new layout: no picture is left, and no frame waits for a new widget.  *)
LEMMA LayoutPictures ==
  ASSUME TypeOK, NEW W \in SUBSET Widget, NewLayout(W)
  PROVE  Pictures'
<1>1. /\ alive' = W /\ queue' = queue /\ \A w \in Widget : shown'[w] = None
      /\ \A i \in DOMAIN queue : queue[i].w \notin W
  BY DEF NewLayout, Unused
<1>2. DOMAIN queue = 1 .. Len(queue)
  BY QueueTyped
<1>3. GoneShowNothing' /\ ShownLive'
  BY <1>1, NoneIsNoFrame DEF GoneShowNothing, ShownLive
<1>4. QueueLive'
  BY <1>1, <1>2 DEF QueueLive, ToBeShown
<1> QED
  BY <1>3, <1>4 DEF Pictures

LEMMA LambdaPictures ==
  ASSUME TypeOK, Pictures, RunLambda
  PROVE  Pictures'
<1> DEFINE f == Head(queue)
<1>1. UNCHANGED <<alive, holder, owner, running>> /\ queue # <<>> /\ queue' = Tail(queue)
  BY DEF RunLambda, widgetVars, sessionVars
<1>2. f = queue[1] /\ f \in Frame /\ Len(queue) \in Nat \ {0} /\ Len(queue') = Len(queue) - 1
      /\ \A i \in 1 .. Len(queue') : queue'[i] = queue[i + 1]
  BY <1>1, QueueTyped, HeadTail
<1>3. \A w \in Widget, s \in Session : Own(w, s)' <=> Own(w, s)
  BY <1>1 DEF Own
<1>4. QueueLive'
  <2> SUFFICES ASSUME NEW i \in 1 .. Len(queue'), ToBeShown(queue[i + 1])
               PROVE  Own(queue[i + 1].w, queue[i + 1].px[1])
    BY <1>1, <1>2 DEF QueueLive, ToBeShown, Own
  <2>1. i + 1 \in 1 .. Len(queue)
    BY <1>2
  <2> QED
    BY <2>1 DEF Pictures, QueueLive
<1>5. CASE f.w \in alive /\ f.current
  <2>1. /\ shown' = [shown EXCEPT ![f.w] = f.px]
        /\ stray' = IF f.late THEN stray \cup {f.w} ELSE stray \ {f.w}
    BY <1>5 DEF RunLambda
  <2>2. \A w \in Widget : shown'[w] = IF w = f.w THEN f.px ELSE shown[w]
    BY <2>1 DEF TypeOK
  <2>3. GoneShowNothing'
    BY <1>1, <1>5, <2>2 DEF Pictures, GoneShowNothing
  <2>4. ShownLive'
    <3> SUFFICES ASSUME NEW w \in Widget \ stray', NEW s \in Session, NEW b \in Buffer,
                        shown'[w] = <<s, b>>
                 PROVE  Own(w, s)
      BY <1>3 DEF ShownLive
    <3>1. CASE w = f.w
      <4>1. ~f.late /\ f.px = <<s, b>> /\ 1 \in 1 .. Len(queue)
        BY <1>2, <2>1, <2>2, <3>1
      <4>2. ToBeShown(queue[1]) /\ queue[1].px[1] = s /\ queue[1].w = w
        BY <1>2, <1>5, <3>1, <4>1 DEF ToBeShown
      <4> QED
        BY <4>1, <4>2 DEF Pictures, QueueLive
    <3>2. CASE w # f.w
      <4>1. w \notin stray
        BY <2>1, <3>2
      <4> QED
        BY <2>2, <3>2, <4>1 DEF Pictures, ShownLive
    <3> QED
      BY <3>1, <3>2
  <2> QED
    BY <1>4, <2>3, <2>4 DEF Pictures
<1>6. CASE ~(f.w \in alive /\ f.current)
  <2>1. UNCHANGED <<shown, stray>>
    BY <1>6 DEF RunLambda, image
  <2> QED
    BY <1>1, <1>3, <1>4, <2>1 DEF Pictures, GoneShowNothing, ShownLive
<1> QED
  BY <1>5, <1>6

(* The callback marks what it posts after a stop.                          *)
LEMMA CallbackPictures ==
  ASSUME TypeOK, IInv, Pictures, NEW s \in Session, Callback(s)
  PROVE  Pictures'
<1>1. pc[s] = "callback" /\ UNCHANGED <<alive, shown, stray, holder, owner, running>>
  BY DEF Callback, Quiet, widgetVars, image, sessionVars
<1>2. holder = s
  BY <1>1 DEF IInv, OneDecoder, Live
<1>3. CASE owner[s] \notin alive
  <2>1. queue' = queue
    BY <1>3 DEF Callback
  <2> QED
    BY <1>1, <2>1, PicturesKept DEF Own
<1>4. CASE owner[s] \in alive
  <2> DEFINE e == [w |-> owner[s], px |-> <<s, buf[s]>>, current |-> TRUE, late |-> ~running[s]]
  <2>1. queue' = Append(queue, e)
    BY <1>4 DEF Callback
  <2>2. e \in Frame
    BY <1>4 DEF TypeOK, Frame
  <2>3. ToBeShown(e) => Own(e.w, e.px[1])
    BY <1>2 DEF ToBeShown, Own
  <2> HIDE DEF e
  <2>4. /\ Len(queue) \in Nat /\ Len(queue') = Len(queue) + 1 /\ queue'[Len(queue) + 1] = e
        /\ \A i \in 1 .. Len(queue) : queue'[i] = queue[i]
    BY <2>1, <2>2, QueueTyped, Appended
  <2>5. QueueLive'
    <3> SUFFICES ASSUME NEW i \in 1 .. Len(queue'), ToBeShown(queue'[i])
                 PROVE  Own(queue'[i].w, queue'[i].px[1])
      BY <1>1 DEF QueueLive, ToBeShown, Own
    <3>1. CASE i \in 1 .. Len(queue)
      BY <2>4, <3>1 DEF Pictures, QueueLive
    <3>2. CASE i = Len(queue) + 1
      BY <2>3, <2>4, <3>2
    <3> QED
      BY <2>4, <3>1, <3>2
  <2>6. GoneShowNothing' /\ ShownLive'
    BY <1>1 DEF Pictures, GoneShowNothing, ShownLive, Own
  <2> QED
    BY <2>5, <2>6 DEF Pictures
<1> QED
  BY <1>3, <1>4

(* The way out of a session: no widget owns it any more.                   *)
LEMMA EndPictures ==
  ASSUME TypeOK, IInv, Pictures, NEW s \in Session, End(s) \/ Free(s)
  PROVE  Pictures'
<1>1. UNCHANGED <<alive, shown, stray, queue, running>>
  BY DEF End, Free, widgetVars, image, sessionVars
<1>2. CASE End(s)
  <2>1. holder = s /\ ~running[s]
    BY <1>2 DEF End, IInv, OneDecoder, EndsStopped, Live
  <2>2. \A w \in Widget, t \in Session : ~Own(w, t)
    BY <2>1 DEF Own
  <2> QED
    BY <1>1, <2>2, PicturesKept
<1>3. CASE Free(s)
  <2>1. holder # s /\ holder' = holder /\ \A t \in Session \ {s} : owner'[t] = owner[t]
    BY <1>3 DEF Free, IInv, OneDecoder, Live, TypeOK
  <2>2. \A w \in Widget, t \in Session : Own(w, t) => Own(w, t)'
    BY <1>1, <2>1 DEF Own
  <2> QED
    BY <1>1, <2>2, PicturesKept
<1> QED
  BY <1>2, <1>3

LEMMA PicturesStep ==
  ASSUME TypeOK, IInv, Pictures, [Next]_vars
  PROVE  Pictures'
<1> USE DEF widgetVars, image, sessionVars
<1>0. ASSUME UNCHANGED <<alive, shown, stray, queue, holder, owner, running>>
      PROVE  Pictures'
  BY <1>0, PicturesKept DEF Own
<1>1. ASSUME NEW w \in Widget, UiStep(w)
      PROVE  Pictures'
  BY <1>0, <1>1, HidePictures DEF UiStep, Show, Tick
<1>2. CASE TryStart \/ SetPaused \/ SoakStart \/ Talk
  BY <1>0, <1>2 DEF TryStart, SetPaused, SoakStart, Talk
<1>3. CASE Started
  BY <1>0, <1>3, PublishPictures DEF Started
<1>4. CASE SoakStarted
  BY <1>0, <1>4, PublishPictures DEF SoakStarted
<1>5. CASE SoakStop
  <2>1. \A w \in Widget, s \in Session : ~Own(w, s)
    BY <1>5, NoneAssumption DEF SoakStop, Own
  <2> QED
    BY <1>5, <2>1, PicturesKept DEF SoakStop
<1>6. ASSUME NEW s \in Session,
             Connect(s) \/ Loop(s) \/ Receive(s) \/ Decode(s) \/ Rendered(s) \/ Ack(s)
      PROVE  Pictures'
  <2>1. UNCHANGED <<alive, shown, stray, queue, holder, owner, running>>
    BY <1>6 DEF Connect, Loop, Receive, Decode, Rendered, Ack, Quiet
  <2> QED
    BY <1>0, <2>1
<1>7. ASSUME NEW s \in Session, Task(s)
      PROVE  Pictures'
  BY <1>6, <1>7, CallbackPictures, EndPictures DEF Task
<1>8. CASE UNCHANGED vars
  BY <1>0, <1>8 DEF vars
<1> QED
  BY <1>1, <1>2, <1>3, <1>4, <1>5, <1>7, <1>8, LambdaPictures, LayoutPictures
     DEF Next, Handler

(* A step that moves no frame, and brings no session to its wait or into   *)
(* being, keeps the frames right.                                          *)
LEMMA FramesKept ==
  ASSUME Frames, UNCHANGED <<shown, stray, sem, queue, owner, buf, stalls>>,
         \A s \in Session : pc'[s] = "wait" <=> pc[s] = "wait"
  PROVE  Frames'
<1>2. ASSUME ShownIsOld
      PROVE  ShownIsOld'
  <2> SUFFICES ASSUME NEW w \in Widget \ stray, NEW s \in Session, NEW b \in Buffer,
                      shown[w] = <<s, b>>
               PROVE  b = buf'[s] <=> pc'[s] = "wait" /\ Len(queue') = 0
    BY DEF ShownIsOld
  <2>1. b = buf[s] <=> pc[s] = "wait" /\ Len(queue) = 0
    BY <1>2 DEF ShownIsOld
  <2> QED
    BY <2>1
<1>3. ASSUME OneOnItsWay
      PROVE  OneOnItsWay'
  <2>1. (\A s \in Session : pc'[s] # "wait") => Len(queue') = 0 /\ sem' = {}
    BY <1>3 DEF OneOnItsWay
  <2>2. ASSUME NEW s \in Session, pc'[s] = "wait"
        PROVE  /\ owner'[s] \in Widget
               /\ \/ Len(queue') = 0 /\ sem' = {owner'[s]}
                  \/ /\ sem' = {} /\ Len(queue') = 1
                     /\ queue'[1].w = owner'[s] /\ queue'[1].px = <<s, buf'[s]>>
                     /\ ~queue'[1].current => shown'[owner'[s]] = None
    BY <1>3, <2>2 DEF OneOnItsWay
  <2> QED
    BY <2>1, <2>2 DEF OneOnItsWay
<1> QED
  BY <1>2, <1>3 DEF Frames

(* A new session: only a stray picture may be in its memory already.       *)
LEMMA PublishFrames ==
  ASSUME TypeOK, Pictures, Frames, NEW o, Publish(o),
         UNCHANGED <<image, sem, queue, stalls>>
  PROVE  Frames'
<1>1. PICK s \in Session :
        /\ pc[s] = "none"
        /\ pc' = [pc EXCEPT ![s] = "connect"]
        /\ owner' = [owner EXCEPT ![s] = o]
        /\ buf' = [buf EXCEPT ![s] = 0]
  BY DEF Publish
<1>2. \A w \in Widget \ stray, t \in Session, b \in Buffer : shown[w] # <<t, b>>
  BY NoneAssumption DEF Publish, MayPublish, Pictures, ShownLive, Own
<1>3. \A t \in Session \ {s} : pc'[t] = pc[t] /\ owner'[t] = owner[t] /\ buf'[t] = buf[t]
  BY <1>1 DEF TypeOK
<1>4. pc'[s] = "connect"
  BY <1>1 DEF TypeOK
<1>5. shown' = shown /\ stray' = stray /\ sem' = sem /\ queue' = queue /\ stalls' = stalls
  BY DEF image
<1>6. ShownIsOld'
  BY <1>2, <1>5 DEF ShownIsOld
<1>7. OneOnItsWay => OneOnItsWay'
  BY <1>1, <1>3, <1>4, <1>5 DEF OneOnItsWay
<1> QED
  BY <1>5, <1>6, <1>7 DEF Frames

(* Hiding: the picture goes, and the frame on its way is current no more.  *)
LEMMA HideFrames ==
  ASSUME TypeOK, IInv, Frames, NEW w \in Widget, Hide(w)
  PROVE  Frames'
<1>1. UNCHANGED <<alive, sem, pc, owner, buf, stalls>>
  BY DEF Hide, counters
<1>2. CASE w \notin started
  <2>1. UNCHANGED <<queue, shown, stray>>
    BY <1>2 DEF Hide, Stops, image
  <2> QED
    BY <1>1, <2>1, FramesKept
<1>3. CASE w \in started
  <2>1. DropFrames(w) /\ shown' = [shown EXCEPT ![w] = None] /\ stray' = stray \ {w}
    BY <1>3 DEF Hide, Stops
  <2>2. \A v \in Widget : shown'[v] = IF v = w THEN None ELSE shown[v]
    BY <2>1 DEF TypeOK
  <2>3. /\ Len(queue') = Len(queue)
        /\ \A i \in 1 .. Len(queue) : queue'[i] = [queue[i] EXCEPT !.current = @ /\ queue[i].w # w]
    BY <2>1, QueueTyped, Dropped
  <2>5. ShownIsOld => ShownIsOld'
    <3> SUFFICES ASSUME ShownIsOld, NEW v \in Widget \ stray', NEW s \in Session,
                        NEW b \in Buffer, shown'[v] = <<s, b>>
                 PROVE  b = buf'[s] <=> pc'[s] = "wait" /\ Len(queue') = 0
      BY DEF ShownIsOld
    <3>1. None # <<s, b>>
      BY NoneIsNoFrame
    <3>2. shown[v] = <<s, b>> /\ v \notin stray
      BY <2>1, <2>2, <3>1
    <3> QED
      BY <1>1, <2>3, <3>2 DEF ShownIsOld
  <2>6. OneOnItsWay => OneOnItsWay'
    <3> SUFFICES ASSUME OneOnItsWay
                 PROVE  OneOnItsWay'
      OBVIOUS
    <3>1. (\A s \in Session : pc'[s] # "wait") => Len(queue') = 0 /\ sem' = {}
      BY <1>1, <2>3 DEF OneOnItsWay
    <3>2. ASSUME NEW s \in Session, pc'[s] = "wait"
          PROVE  /\ owner'[s] \in Widget
                 /\ \/ Len(queue') = 0 /\ sem' = {owner'[s]}
                    \/ /\ sem' = {} /\ Len(queue') = 1
                       /\ queue'[1].w = owner'[s] /\ queue'[1].px = <<s, buf'[s]>>
                       /\ ~queue'[1].current => shown'[owner'[s]] = None
      <4>1. pc[s] = "wait" /\ owner[s] \in Widget
        BY <1>1, <3>2 DEF OneOnItsWay
      <4>2. CASE Len(queue) = 0 /\ sem = {owner[s]}
        BY <1>1, <2>3, <4>1, <4>2
      <4>3. CASE /\ sem = {} /\ Len(queue) = 1
                 /\ queue[1].w = owner[s] /\ queue[1].px = <<s, buf[s]>>
                 /\ ~queue[1].current => shown[owner[s]] = None
        <5>1. queue[1] \in Frame
          <6>1. queue \in Seq(Frame) /\ 1 \in 1 .. Len(queue)
            BY <4>3, QueueTyped
          <6> QED
            BY <6>1
        <5>2. queue'[1] = [queue[1] EXCEPT !.current = @ /\ queue[1].w # w]
          BY <2>3, <4>3
        <5>3. /\ queue'[1].w = queue[1].w /\ queue'[1].px = queue[1].px
              /\ queue'[1].current = (queue[1].current /\ queue[1].w # w)
          BY <5>1, <5>2 DEF Frame
        <5> QED
          BY <1>1, <2>2, <2>3, <4>1, <4>3, <5>3
      <4> QED
        BY <4>1, <4>2, <4>3 DEF OneOnItsWay
    <3> QED
      BY <3>1, <3>2 DEF OneOnItsWay
  <2> QED
    BY <1>1, <2>5, <2>6 DEF Frames
<1> QED
  BY <1>2, <1>3

(* A new layout: no picture is left, and no name is used again.            *)
LEMMA LayoutFrames ==
  ASSUME TypeOK, IInv, Frames, NEW W \in SUBSET Widget, NewLayout(W)
  PROVE  Frames'
<1>1. /\ UNCHANGED <<sem, queue, pc, owner, buf, stalls>>
      /\ \A w \in Widget : shown'[w] = None
  BY DEF NewLayout, counters
<1>2. ShownIsOld'
  BY <1>1, NoneIsNoFrame DEF ShownIsOld
<1>3. OneOnItsWay => OneOnItsWay'
  BY <1>1 DEF OneOnItsWay
<1> QED
  BY <1>1, <1>2, <1>3 DEF Frames

(* The frame is shown and its session may flip; nothing is queued then.    *)
LEMMA LambdaFrames ==
  ASSUME TypeOK, IInv, Pictures, Frames, RunLambda
  PROVE  Frames'
<1> DEFINE f == Head(queue)
<1>0. UNCHANGED <<alive, pc, owner, buf, stalls>>
  BY DEF RunLambda, widgetVars, sessionVars, counters
<1>1. /\ queue # <<>> /\ queue' = Tail(queue) /\ sem' = sem \cup {f.w}
      /\ IF f.w \in alive /\ f.current
         THEN /\ shown' = [shown EXCEPT ![f.w] = f.px]
              /\ stray' = IF f.late THEN stray \cup {f.w} ELSE stray \ {f.w}
         ELSE shown' = shown /\ stray' = stray
  BY DEF RunLambda, image
<1>2. f = queue[1] /\ f \in Frame /\ Len(queue') = Len(queue) - 1 /\ Len(queue) \in Nat \ {0}
  BY <1>1, QueueTyped, HeadTail
<1> SUFFICES ASSUME stalls = 0, ShownIsOld, OneOnItsWay
             PROVE  ShownIsOld' /\ OneOnItsWay'
  BY <1>0 DEF Frames
<1>3. PICK s \in Session : pc[s] = "wait"
  BY <1>2 DEF OneOnItsWay
<1>4. /\ owner[s] \in Widget /\ sem = {} /\ Len(queue) = 1
      /\ f.w = owner[s] /\ f.px = <<s, buf[s]>>
      /\ ~f.current => shown[owner[s]] = None
  BY <1>2, <1>3 DEF OneOnItsWay
<1>5. sem' = {owner[s]} /\ Len(queue') = 0
  BY <1>1, <1>2, <1>4
<1>6. \A t \in Session : pc[t] = "wait" => t = s
  BY <1>3, OneWaits DEF Live
<1>7. holder = s
  BY <1>3 DEF IInv, OneDecoder, Live
<1>8. ShownIsOld'
  <2> SUFFICES ASSUME NEW w \in Widget \ stray', NEW t \in Session, NEW b \in Buffer,
                      shown'[w] = <<t, b>>
               PROVE  b = buf'[t] <=> pc'[t] = "wait" /\ Len(queue') = 0
    BY DEF ShownIsOld
  <2>1. CASE w = owner[s] /\ w \in alive /\ f.current
    <3>1. shown'[w] = <<s, buf[s]>>
      BY <1>1, <1>4, <2>1 DEF TypeOK
    <3> QED
      BY <1>0, <1>3, <1>5, <3>1
  <2>2. CASE ~(w = owner[s] /\ w \in alive /\ f.current)
    <3>1. shown[w] = <<t, b>> /\ w \notin stray
      BY <1>1, <1>4, <2>2 DEF TypeOK
    <3>2. holder = t /\ owner[t] = w
      BY <3>1 DEF Pictures, ShownLive, Own
    <3>3. shown[w] = None
      BY <1>4, <1>7, <2>2, <3>2 DEF Pictures, GoneShowNothing
    <3> QED
      BY <3>1, <3>3, NoneIsNoFrame
  <2> QED
    BY <2>1, <2>2
<1>9. OneOnItsWay'
  BY <1>0, <1>3, <1>4, <1>5, <1>6 DEF OneOnItsWay
<1> QED
  BY <1>8, <1>9

(* A flip while the image does not point to the other buffer.              *)
LEMMA FlipFrames ==
  ASSUME TypeOK, IInv, Frames, NEW s \in Session, Live(s), pc' = [pc EXCEPT ![s] = "ack"],
         buf' = [buf EXCEPT ![s] = Flip(@)], stalls = 0,
         UNCHANGED <<shown, stray, queue, owner, stalls>>,
         Len(queue) = 0, sem' = {},
         \A w \in Widget \ stray : \A b \in Buffer : shown[w] = <<s, b>> => b = buf[s]
  PROVE  Frames'
<1>1. /\ pc'[s] = "ack" /\ buf'[s] = Flip(buf[s]) /\ buf[s] \in Buffer
      /\ \A t \in Session \ {s} : pc'[t] = pc[t] /\ buf'[t] = buf[t]
  BY DEF TypeOK
<1>2. \A t \in Session : pc'[t] # "wait"
  BY <1>1, OneWaits DEF Live
<1>4. ASSUME ShownIsOld
      PROVE  ShownIsOld'
  <2> SUFFICES ASSUME NEW w \in Widget \ stray, NEW t \in Session, NEW b \in Buffer,
                      shown[w] = <<t, b>>
               PROVE  b = buf'[t] <=> pc'[t] = "wait" /\ Len(queue') = 0
    BY DEF ShownIsOld
  <2>1. pc[t] = "wait" => t = s
    BY OneWaits DEF Live
  <2>2. b = buf[t] <=> pc[t] = "wait" /\ Len(queue) = 0
    BY <1>4 DEF ShownIsOld
  <2>3. t = s => b # buf'[s]
    BY <1>1, Flips
  <2>4. t # s => b # buf'[t]
    BY <1>1, <2>1, <2>2
  <2> QED
    BY <1>2, <2>3, <2>4
<1>5. OneOnItsWay'
  BY <1>2 DEF OneOnItsWay
<1> QED
  BY <1>4, <1>5 DEF Frames

LEMMA CallbackFrames ==
  ASSUME TypeOK, IInv, Pictures, Frames, NEW s \in Session, Callback(s)
  PROVE  Frames'
<1>0. pc[s] = "callback" /\ UNCHANGED <<alive, shown, stray, owner, sem, stalls>>
  BY DEF Callback, Quiet, widgetVars, image, sessionVars
<1> SUFFICES ASSUME stalls = 0, ShownIsOld, OneOnItsWay
             PROVE  Frames'
  BY <1>0 DEF Frames
<1>1. \A t \in Session : pc[t] = "wait" => FALSE
  BY <1>0, OneWaits DEF Live
<1>2. Len(queue) = 0 /\ sem = {}
  BY <1>1 DEF OneOnItsWay
<1>3. CASE owner[s] \notin alive
  <2>1. pc' = [pc EXCEPT ![s] = "ack"] /\ buf' = [buf EXCEPT ![s] = Flip(@)] /\ UNCHANGED queue
    BY <1>3 DEF Callback, Goes
  <2>2. \A w \in Widget \ stray : \A b \in Buffer : shown[w] # <<s, b>>
    <3> SUFFICES ASSUME NEW w \in Widget \ stray, NEW b \in Buffer, shown[w] = <<s, b>>
                 PROVE  FALSE
      OBVIOUS
    <3>1. owner[s] = w
      BY DEF Pictures, ShownLive, Own
    <3> QED
      BY <1>3, <3>1, NoneIsNoFrame DEF Pictures, GoneShowNothing
  <2> QED
    BY <1>0, <1>2, <2>1, <2>2, FlipFrames DEF Live
<1>4. CASE owner[s] \in alive
  <2> DEFINE e == [w |-> owner[s], px |-> <<s, buf[s]>>, current |-> TRUE, late |-> ~running[s]]
  <2>1. queue' = Append(queue, e) /\ pc' = [pc EXCEPT ![s] = "wait"] /\ UNCHANGED buf
    BY <1>4 DEF Callback, Goes
  <2>2. owner[s] \in Widget /\ e \in Frame
    BY <1>4 DEF TypeOK, Frame
  <2>3. Len(queue') = 1 /\ queue'[1] = e
    <3> HIDE DEF e
    <3> QED
      BY <1>2, <2>1, <2>2, QueueTyped, Appended
  <2>4. pc'[s] = "wait" /\ \A t \in Session \ {s} : pc'[t] = pc[t]
    BY <2>1 DEF TypeOK
  <2>6. ShownIsOld'
    <3> SUFFICES ASSUME NEW w \in Widget \ stray, NEW t \in Session, NEW b \in Buffer,
                        shown[w] = <<t, b>>
                 PROVE  b = buf'[t] <=> pc'[t] = "wait" /\ Len(queue') = 0
      BY <1>0 DEF ShownIsOld
    <3>1. b # buf[t]
      BY <1>1 DEF ShownIsOld
    <3> QED
      BY <2>1, <2>3, <3>1
  <2>7. OneOnItsWay'
    <3>1. \A t \in Session : pc'[t] = "wait" => t = s
      BY <1>1, <2>4
    <3>2. queue'[1].w = owner'[s] /\ queue'[1].px = <<s, buf'[s]>> /\ queue'[1].current
      BY <1>0, <2>1, <2>3
    <3> QED
      BY <1>0, <1>2, <2>2, <2>3, <2>4, <3>1, <3>2 DEF OneOnItsWay
  <2> QED
    BY <2>6, <2>7 DEF Frames
<1> QED
  BY <1>3, <1>4

LEMMA RenderedFrames ==
  ASSUME TypeOK, IInv, Frames, NEW s \in Session, Rendered(s)
  PROVE  Frames'
<1>0. /\ pc[s] = "wait" /\ UNCHANGED <<shown, stray, owner, queue>>
      /\ pc' = [pc EXCEPT ![s] = "ack"] /\ buf' = [buf EXCEPT ![s] = Flip(@)]
  BY DEF Rendered, Quiet, Goes, image, sessionVars
<1>1. CASE stalls' = stalls + 1
  BY <1>1 DEF TypeOK, Frames
<1>2. CASE /\ owner[s] \in sem /\ sem' = sem \ {owner[s]} /\ UNCHANGED stalls
  <2> SUFFICES ASSUME stalls = 0, ShownIsOld, OneOnItsWay
               PROVE  Frames'
    BY <1>2 DEF Frames
  <2>1. sem = {owner[s]} /\ Len(queue) = 0
    BY <1>0, <1>2 DEF OneOnItsWay
  <2>2. \A w \in Widget \ stray : \A b \in Buffer : shown[w] = <<s, b>> => b = buf[s]
    BY <1>0, <2>1 DEF ShownIsOld
  <2> QED
    BY <1>0, <1>2, <2>1, <2>2, FlipFrames DEF Live
<1> QED
  BY <1>1, <1>2 DEF Rendered

LEMMA DecodeFrames ==
  ASSUME TypeOK, IInv, Pictures, Frames, NEW s \in Session, Decode(s)
  PROVE  Frames'
<1>0. pc[s] = "decode" /\ UNCHANGED <<shown, stray, owner, sem, queue, stalls>>
  BY DEF Decode, Quiet, image, sessionVars
<1>1. CASE UNCHANGED buf
  <2>1. pc' = [pc EXCEPT ![s] = "ack"] \/ pc' = [pc EXCEPT ![s] = "callback"]
    BY DEF Decode, Goes
  <2>2. \A t \in Session : pc'[t] = "wait" <=> pc[t] = "wait"
    BY <1>0, <2>1 DEF TypeOK
  <2> QED
    BY <1>0, <1>1, <2>2, FramesKept
<1>2. CASE owner[s] = soak /\ Goes(s, "ack") /\ buf' = [buf EXCEPT ![s] = Flip(@)]
  <2> SUFFICES ASSUME stalls = 0, ShownIsOld, OneOnItsWay
               PROVE  Frames'
    BY <1>0 DEF Frames
  <2>1. \A t \in Session : pc[t] # "wait"
    BY <1>0, OneWaits DEF Live
  <2>2. Len(queue) = 0 /\ sem = {}
    BY <2>1 DEF OneOnItsWay
  <2>3. \A w \in Widget \ stray : \A b \in Buffer : shown[w] # <<s, b>>
    BY <1>2, NoneAssumption DEF Pictures, ShownLive, Own
  <2> QED
    BY <1>0, <1>2, <2>2, <2>3, FlipFrames DEF Live, Goes
<1> QED
  BY <1>1, <1>2 DEF Decode

(* A session's buffers are freed; only a stray picture may be in them.     *)
LEMMA FreeFrames ==
  ASSUME TypeOK, IInv, Pictures, Frames, NEW s \in Session, Free(s)
  PROVE  Frames'
<1>0. /\ UNCHANGED <<shown, stray, sem, queue, stalls>> /\ pc[s] = "free"
      /\ pc' = [pc EXCEPT ![s] = "none"]
      /\ owner' = [owner EXCEPT ![s] = None] /\ buf' = [buf EXCEPT ![s] = 0]
  BY DEF Free, Goes, image, counters
<1>1. /\ UNCHANGED <<shown, stray, sem, queue, stalls>> /\ pc[s] = "free"
      /\ \A t \in Session \ {s} : pc'[t] = pc[t] /\ owner'[t] = owner[t] /\ buf'[t] = buf[t]
  BY <1>0 DEF TypeOK
<1>2. pc'[s] = "none"
  BY <1>0 DEF TypeOK
<1>3. \A w \in Widget \ stray : \A b \in Buffer : shown[w] # <<s, b>>
  BY <1>1 DEF Pictures, ShownLive, Own, IInv, OneDecoder, Live
<1>4. ShownIsOld => ShownIsOld'
  BY <1>1, <1>3 DEF ShownIsOld
<1>5. OneOnItsWay => OneOnItsWay'
  BY <1>1, <1>2 DEF OneOnItsWay
<1> QED
  BY <1>1, <1>4, <1>5 DEF Frames

LEMMA FramesStep ==
  ASSUME TypeOK, IInv, Pictures, Frames, [Next]_vars
  PROVE  Frames'
<1> USE DEF widgetVars, image, sessionVars, counters
<1>1. ASSUME NEW w \in Widget, UiStep(w)
      PROVE  Frames'
  <2>1. CASE Show(w) \/ Tick(w)
    BY <2>1, FramesKept DEF Show, Tick
  <2> QED
    BY <1>1, <2>1, HideFrames DEF UiStep
<1>2. CASE TryStart
  BY <1>2, FramesKept DEF TryStart
<1>3. CASE Started
  <2>1. CASE Publish(ui.w)
    BY <1>3, <2>1, PublishFrames DEF Started
  <2>2. CASE UNCHANGED <<holder, pc, sessionVars, buf, started>>
    BY <1>3, <2>2, FramesKept DEF Started
  <2> QED
    BY <1>3, <2>1, <2>2 DEF Started
<1>4. CASE SetPaused
  BY <1>4, FramesKept DEF SetPaused
<1>5. CASE SoakStart \/ SoakStop
  BY <1>5, FramesKept DEF SoakStart, SoakStop
<1>6. CASE SoakStarted
  <2>1. CASE Publish(soak)
    BY <1>6, <2>1, PublishFrames DEF SoakStarted
  <2>2. CASE UNCHANGED <<holder, pc, sessionVars, buf>>
    BY <1>6, <2>2, FramesKept DEF SoakStarted
  <2> QED
    BY <1>6, <2>1, <2>2 DEF SoakStarted
<1>7. CASE Talk
  BY <1>7, FramesKept DEF Talk
<1>8. ASSUME NEW s \in Session, Connect(s) \/ Loop(s) \/ Receive(s) \/ Ack(s) \/ End(s)
      PROVE  Frames'
  <2>1. UNCHANGED <<shown, stray, sem, queue, owner, buf, stalls>>
    BY <1>8 DEF Connect, Loop, Receive, Ack, End, Quiet
  <2>2. PICK at \in {"loop", "ending", "recv", "decode", "ack", "connect", "free"} :
          pc' = [pc EXCEPT ![s] = at]
    BY <1>8 DEF Connect, Loop, Receive, Ack, End, Goes
  <2>3. pc[s] \notin {"none", "wait"}
    BY <1>8 DEF Connect, Loop, Receive, Ack, End
  <2>4. \A t \in Session : pc'[t] = "wait" <=> pc[t] = "wait"
    BY <2>2, <2>3 DEF TypeOK
  <2> QED
    BY <2>1, <2>4, FramesKept
<1>9. ASSUME NEW s \in Session, Task(s)
      PROVE  Frames'
  BY <1>8, <1>9, DecodeFrames, CallbackFrames, RenderedFrames, FreeFrames DEF Task
<1>10. CASE UNCHANGED vars
  BY <1>10, FramesKept DEF vars
<1> QED
  BY <1>1, <1>2, <1>3, <1>4, <1>5, <1>6, <1>7, <1>9, <1>10, LambdaFrames, LayoutFrames
     DEF Next, Handler

(* ScreenUndisturbed: a frame on screen lies in its widget's own running   *)
(* session, whoever gave memory back and got it again, and while the UI    *)
(* task keeps up the decoder never writes into it, nor into one on its way *)
(* there (stream_client.h:19-21); all but the frame of a session that was  *)
(* told to stop while it decoded.                                          *)
THEOREM ScreenUndisturbed == Spec => []Inv
<1>1. Init => TypeOK /\ Pictures /\ Frames
  <2>1. Init => TypeOK
    <3> SUFFICES ASSUME Init
                 PROVE  TypeOK
      OBVIOUS
    <3>1. PICK w \in Widget : alive = {w} /\ ui = [at |-> "idle", w |-> w, tick |-> FALSE]
      BY DEF Init
    <3>2. ui \in [at : {"idle", "check", "publish", "pause"}, w : Widget, tick : BOOLEAN]
      BY <3>1
    <3>3. alive \subseteq Widget /\ visible \subseteq alive /\ started \subseteq alive
      BY <3>1 DEF Init
    <3>4. queue \in Seq([w : Widget, px : Session \X Buffer, current : BOOLEAN, late : BOOLEAN])
      BY DEF Init
    <3>5. stalls \in 0 .. MaxStalls /\ fails \in 0 .. MaxFails /\ talks \in 0 .. MaxTalks
      <4>1. stalls = 0 /\ fails = 0 /\ talks = 0
        BY DEF Init
      <4> QED
        BY <4>1, BoundAssumption
    <3>6. /\ shown \in [Widget -> (Session \X Buffer) \cup {None}] /\ sem \subseteq Widget
          /\ soaking \in BOOLEAN /\ voice \in BOOLEAN /\ holder \in Session \cup {None}
      BY DEF Init
    <3>7. /\ pc \in [Session -> {"none", "connect", "loop", "recv", "decode", "callback", "wait",
                                 "ack", "ending", "free"}]
          /\ owner \in [Session -> Owner \cup {None}]
          /\ running \in [Session -> BOOLEAN] /\ paused \in [Session -> BOOLEAN]
          /\ buf \in [Session -> Buffer] /\ stray \subseteq Widget
      BY DEF Init, Buffer
    <3> QED
      BY <3>2, <3>3, <3>4, <3>5, <3>6, <3>7 DEF TypeOK
  <2>2. Init => Pictures
    BY NoneIsNoFrame DEF Init, Pictures, GoneShowNothing, ShownLive, QueueLive
  <2>3. Init => Frames
    BY NoneIsNoFrame DEF Init, Frames, ShownIsOld, OneOnItsWay
  <2> QED
    BY <2>1, <2>2, <2>3
<1>2. TypeOK /\ IInv /\ Pictures /\ Frames /\ [Next]_vars => TypeOK' /\ Pictures' /\ Frames'
  BY TypesKept, PicturesStep, FramesStep
<1>3. ASSUME TypeOK, IInv, Frames
      PROVE  FrameStable
  <2> SUFFICES ASSUME stalls = 0, NEW s \in Session, pc[s] = "decode"
               PROVE  /\ \A w \in Widget \ stray : shown[w] # <<s, buf[s]>>
                      /\ Len(queue) = 0
    BY QueueTyped DEF FrameStable
  <2>1. \A t \in Session : pc[t] # "wait"
    BY <1>3, OneWaits DEF Live
  <2>2. buf[s] \in Buffer
    BY <1>3 DEF TypeOK
  <2> QED
    BY <1>3, <2>1, <2>2 DEF Frames, ShownIsOld, OneOnItsWay
<1>4. ASSUME TypeOK, Pictures
      PROVE  PixelsLive
  <2> SUFFICES ASSUME NEW w \in Widget \ stray, shown[w] # None
               PROVE  Own(w, shown[w][1])
    BY DEF PixelsLive, Own
  <2>1. PICK s \in Session, b \in Buffer : shown[w] = <<s, b>>
    BY <1>4 DEF TypeOK
  <2> QED
    BY <1>4, <2>1 DEF Pictures, ShownLive
<1>5. TypeOK /\ IInv /\ Pictures /\ Frames => Inv
  BY <1>3, <1>4 DEF Inv
<1> QED
  BY <1>1, <1>2, <1>5, Inductive, PTL DEF Spec
==============================================================================
