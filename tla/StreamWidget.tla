------------------------------ MODULE StreamWidget ------------------------------
(***************************************************************************)
(* The remote-view widget and the MJPEG client behind it.  The UI task     *)
(* shows and hides widgets, a 250 ms tick of each visible one retries a    *)
(* start and hands the voice pause on, and runs the lambdas that put a     *)
(* decoded frame on screen; the httpd task starts and stops the            *)
(* /stream_soak diagnostic; each session of the client has a task of its   *)
(* own that connects, decodes, calls back and acknowledges, and frees its  *)
(* buffers when it ends.  A session stands for its State, its task and its *)
(* two decode buffers.  The epoch of a widget is kept as a mark on the     *)
(* lambdas posted under it.  A session's memory is given back when it ends *)
(* and may serve a later one, whoever still points into it.  Statistics,   *)
(* the placeholder's text and the touch packets are left out.              *)
(***************************************************************************)
EXTENDS Integers, Sequences, FiniteSets

CONSTANTS
  Widget, Session, None,
  soak,      (* the owner of a diagnostic session *)
  MaxStalls, (* bound: frames the UI task keeps waiting for over 2 s *)
  MaxFails,  (* bound: starts that fail for want of a host or of memory *)
  MaxTalks,  (* bound: exchanges with the voice satellite *)
  MaxEvents  (* bound: stalls, failed starts and exchanges together *)

ASSUME NoneAssumption ==
  /\ None \notin Widget /\ None \notin Session /\ None \notin Session \X (0 .. 1)
  /\ None # soak /\ soak \notin Widget
ASSUME BoundAssumption ==
  MaxStalls \in Nat /\ MaxFails \in Nat /\ MaxTalks \in Nat /\ MaxEvents \in Nat

Owner == Widget \cup {soak}
Buffer == 0 .. 1

VARIABLES
  alive,    (* widgets that exist (StreamShared::alive) *)
  visible,  (* StreamCtx::visible *)
  started,  (* StreamCtx::started *)
  shown,    (* shown[w]: the buffer lv_image's src points into, or None *)
  sem,      (* widgets whose render_sem has been given *)
  queue,    (* frame lambdas on the UI queue *)
  ui,       (* where the UI task is, and for which widget *)
  soaking,  (* the httpd task has allocated a State it did not publish yet *)
  voice,    (* the satellite listens or speaks, or did 2 s ago *)
  holder,   (* g_state *)
  pc, owner, running, paused, buf, (* of each session *)
  stray,    (* history: widgets that show a frame posted after its stop *)
  stalls, fails, talks (* bounds *)

widgetVars == <<alive, visible, started>>
sessionVars == <<owner, running, paused>>
counters == <<stalls, fails, talks>>
image == <<shown, stray>>
vars == <<widgetVars, image, sem, queue, ui, soaking, voice, holder, pc, sessionVars, buf,
          counters>>

TypeOK ==
  /\ alive \subseteq Widget /\ visible \subseteq alive /\ started \subseteq alive
  /\ shown \in [Widget -> (Session \X Buffer) \cup {None}]
  /\ sem \subseteq Widget
  /\ queue \in Seq([w : Widget, px : Session \X Buffer, current : BOOLEAN, late : BOOLEAN])
  /\ ui \in [at : {"idle", "check", "publish", "pause"}, w : Widget, tick : BOOLEAN]
  /\ soaking \in BOOLEAN /\ voice \in BOOLEAN
  /\ holder \in Session \cup {None}
  /\ pc \in [Session -> {"none", "connect", "loop", "recv", "decode", "callback", "wait",
                         "ack", "ending", "free"}]
  /\ owner \in [Session -> Owner \cup {None}]
  /\ running \in [Session -> BOOLEAN] /\ paused \in [Session -> BOOLEAN]
  /\ buf \in [Session -> Buffer] /\ stray \subseteq Widget
  /\ stalls \in 0 .. MaxStalls /\ fails \in 0 .. MaxFails /\ talks \in 0 .. MaxTalks

(* One widget, on a screen that is not the active one.                     *)
Init ==
  /\ \E w \in Widget : alive = {w} /\ ui = [at |-> "idle", w |-> w, tick |-> FALSE]
  /\ visible = {} /\ started = {} /\ shown = [w \in Widget |-> None]
  /\ sem = {} /\ queue = <<>> /\ soaking = FALSE /\ voice = FALSE /\ holder = None
  /\ pc = [s \in Session |-> "none"] /\ owner = [s \in Session |-> None]
  /\ running = [s \in Session |-> FALSE] /\ paused = [s \in Session |-> FALSE]
  /\ buf = [s \in Session |-> 0] /\ stray = {}
  /\ stalls = 0 /\ fails = 0 /\ talks = 0

MayHappen == stalls + fails + talks < MaxEvents

------------------------------------------------------------------------------
(* The client's interface, each critical section under g_mux.              *)

(* Mutant: whatever there is, the new State becomes g_state. *)
MayPublishAnyway == TRUE

(* The second look at g_state, after the buffers were allocated. *)
MayPublish == holder = None

(* stream_client_start() publishes its State and spawns the task.  Its     *)
(* memory may be that of an earlier session.                               *)
Publish(o) ==
  /\ MayPublish
  /\ \E s \in Session :
       /\ pc[s] = "none"
       /\ holder' = s
       /\ pc' = [pc EXCEPT ![s] = "connect"]
       /\ owner' = [owner EXCEPT ![s] = o]
       /\ running' = [running EXCEPT ![s] = TRUE]
       /\ paused' = [paused EXCEPT ![s] = FALSE]
       /\ buf' = [buf EXCEPT ![s] = 0]

(* stream_client_stop(): a flag, whoever the client works for. *)
Stop == running' = IF holder = None THEN running ELSE [running EXCEPT ![holder] = FALSE]

(* stream_client_stats().running *)
ClientRuns == holder # None /\ running[holder]

------------------------------------------------------------------------------
(* The UI task.                                                            *)

Idle == ui.at = "idle"

(* The last step of a handler: a tick goes on to the pause. *)
AfterStart == ui' = [ui EXCEPT !.at = IF ui.tick THEN "pause" ELSE "idle"]

(* stream_set_visible(true) and the start it tries. *)
Show(w) ==
  /\ Idle /\ w \in alive \ visible
  /\ visible' = visible \cup {w}
  /\ ui' = [at |-> IF w \in started THEN "idle" ELSE "check", w |-> w, tick |-> FALSE]
  /\ UNCHANGED <<alive, started, image, sem, queue, soaking, voice, holder, pc, sessionVars,
                 buf, counters>>

(* stream_watch_tick(): `started` follows the client. *)
Tick(w) ==
  /\ Idle /\ w \in visible
  /\ started' = IF ClientRuns THEN started ELSE started \ {w}
  /\ ui' = [at |-> IF w \in started' THEN "pause" ELSE "check", w |-> w, tick |-> TRUE]
  /\ UNCHANGED <<alive, visible, image, sem, queue, soaking, voice, holder, pc, sessionVars,
                 buf, counters>>

(* stream_try_start(): the client is free, busy, or out of reach. *)
TryStart ==
  /\ ui.at = "check"
  /\ \/ /\ holder = None
        /\ ui' = [ui EXCEPT !.at = "publish"]
        /\ UNCHANGED fails
     \/ holder # None /\ AfterStart /\ UNCHANGED fails
     \/ MayHappen /\ fails < MaxFails /\ fails' = fails + 1 /\ AfterStart
  /\ UNCHANGED <<widgetVars, image, sem, queue, soaking, voice, holder, pc, sessionVars, buf,
                 stalls, talks>>

(* Mutant: the widget does not look whether the start succeeded. *)
StartedAnyway ==
  /\ ui.at = "publish"
  /\ Publish(ui.w) \/ (~MayPublish /\ UNCHANGED <<holder, pc, sessionVars, buf>>)
  /\ started' = started \cup {ui.w}
  /\ AfterStart
  /\ UNCHANGED <<alive, visible, image, sem, queue, soaking, voice, counters>>

Started ==
  /\ ui.at = "publish"
  /\ \/ Publish(ui.w) /\ started' = started \cup {ui.w}
     \/ /\ ~MayPublish
        /\ UNCHANGED <<holder, pc, sessionVars, buf, started>>
  /\ AfterStart
  /\ UNCHANGED <<alive, visible, image, sem, queue, soaking, voice, counters>>

(* Mutant: the tick only ever pauses. *)
PauseKept(s) == voice \/ paused[s]

Pause(s) == voice

(* The end of a tick: the voice pause, whoever the client works for. *)
SetPaused ==
  /\ ui.at = "pause"
  /\ paused' = IF holder = None THEN paused ELSE [paused EXCEPT ![holder] = Pause(holder)]
  /\ ui' = [ui EXCEPT !.at = "idle"]
  /\ UNCHANGED <<widgetVars, image, sem, queue, soaking, voice, holder, pc, owner, running,
                 buf, counters>>

(* Only what the widget started is stopped. *)
Stops(w) == w \in started

(* The epoch moves on: no frame of the queue is current any more. *)
DropFrames(w) ==
  queue' = [i \in DOMAIN queue |->
              [queue[i] EXCEPT !.current = @ /\ queue[i].w # w]]

(* stream_set_visible(false), which cancels the tick and stops. *)
Hide(w) ==
  /\ Idle /\ w \in visible
  /\ visible' = visible \ {w}
  /\ IF Stops(w)
     THEN /\ Stop
          /\ started' = started \ {w}
          /\ DropFrames(w)
          /\ shown' = [shown EXCEPT ![w] = None] /\ stray' = stray \ {w}
     ELSE UNCHANGED <<running, started, queue, image>>
  /\ UNCHANGED <<alive, sem, ui, soaking, voice, holder, pc, owner, paused, buf, counters>>

(* Nothing of an earlier widget of that name is left. *)
Unused(w) ==
  /\ w \notin alive \cup sem
  /\ \A i \in DOMAIN queue : queue[i].w # w
  /\ \A s \in Session : owner[s] = w => pc[s] = "none"

(* Every tick of the old layout is cancelled. *)
TicksLeft == {}

(* A layout swap: new widgets are built, the old ones deleted. *)
NewLayout(W) ==
  /\ Idle
  /\ \A w \in W : Unused(w)
  /\ alive' = W /\ visible' = TicksLeft /\ started' = {}
  /\ shown' = [w \in Widget |-> None] /\ stray' = {}
  /\ IF started # {} THEN Stop ELSE UNCHANGED running
  /\ UNCHANGED <<sem, queue, ui, soaking, voice, holder, pc, owner, paused, buf, counters>>

(* A frame lambda: the image points to the frame, or is left alone. *)
RunLambda ==
  /\ Idle /\ queue # <<>>
  /\ LET f == Head(queue) IN
     /\ IF f.w \in alive /\ f.current
        THEN /\ shown' = [shown EXCEPT ![f.w] = f.px]
             /\ stray' = IF f.late THEN stray \cup {f.w} ELSE stray \ {f.w}
        ELSE UNCHANGED image
     /\ sem' = sem \cup {f.w}
  /\ queue' = Tail(queue)
  /\ UNCHANGED <<widgetVars, ui, soaking, voice, holder, pc, sessionVars, buf, counters>>

------------------------------------------------------------------------------
(* The httpd task: /stream_soak.                                           *)

SoakStart ==
  /\ ~soaking /\ holder = None
  /\ soaking' = TRUE
  /\ UNCHANGED <<widgetVars, image, sem, queue, ui, voice, holder, pc, sessionVars, buf,
                 counters>>

SoakStarted ==
  /\ soaking /\ soaking' = FALSE
  /\ \/ Publish(soak)
     \/ ~MayPublish /\ UNCHANGED <<holder, pc, sessionVars, buf>>
  /\ UNCHANGED <<widgetVars, image, sem, queue, ui, voice, counters>>

(* stream_client_stop_diagnostic() *)
SoakStop ==
  /\ holder # None /\ owner[holder] = soak /\ running[holder]
  /\ Stop
  /\ UNCHANGED <<widgetVars, image, sem, queue, ui, soaking, voice, holder, pc, owner, paused,
                 buf, counters>>

------------------------------------------------------------------------------
(* The task of session s.                                                  *)

Goes(s, at) == pc' = [pc EXCEPT ![s] = at]

Quiet == UNCHANGED <<widgetVars, image, ui, soaking, voice, holder, sessionVars, fails, talks>>

(* connect_to_server() and the backoff, which ends early on a stop. *)
Connect(s) ==
  /\ pc[s] = "connect"
  /\ \/ running[s] /\ Goes(s, "loop")
     \/ ~running[s] /\ Goes(s, "ending")
  /\ Quiet /\ UNCHANGED <<sem, queue, buf, stalls>>

Loop(s) ==
  /\ pc[s] = "loop"
  /\ Goes(s, IF running[s] THEN "recv" ELSE "ending")
  /\ Quiet /\ UNCHANGED <<sem, queue, buf, stalls>>

(* The last recv() of a frame may end after a stop: read_exact() asks for  *)
(* `running` before each recv() only.  A frame of another size is          *)
(* acknowledged and dropped; bad framing, a timeout and a peer that is     *)
(* gone end the connection.                                                *)
Receive(s) ==
  /\ pc[s] = "recv"
  /\ pc' \in {[pc EXCEPT ![s] = at] : at \in {"decode", "ack", "connect"}}
  /\ Quiet /\ UNCHANGED <<sem, queue, buf, stalls>>

(* Mutant: the frame just handed out is overwritten by the next. *)
FlipNot(b) == b

(* The two output buffers alternate. *)
Flip(b) == 1 - b

(* The decoder is done with the buffer; a diagnostic has no callback and a *)
(* frame that did not decode is acknowledged all the same.                 *)
Decode(s) ==
  /\ pc[s] = "decode"
  /\ \/ Goes(s, "ack") /\ UNCHANGED buf
     \/ owner[s] = soak /\ Goes(s, "ack") /\ buf' = [buf EXCEPT ![s] = Flip(@)]
     \/ owner[s] # soak /\ Goes(s, "callback") /\ UNCHANGED buf
  /\ Quiet /\ UNCHANGED <<sem, queue, stalls>>

(* The callback posts the frame under the epoch it finds now, be it that   *)
(* the session was told to stop before (`late`).                           *)
Callback(s) ==
  /\ pc[s] = "callback"
  /\ IF owner[s] \in alive
     THEN /\ queue' = Append(queue, [w |-> owner[s], px |-> <<s, buf[s]>>, current |-> TRUE,
                                     late |-> ~running[s]])
          /\ Goes(s, "wait") /\ UNCHANGED buf
     ELSE /\ Goes(s, "ack") /\ buf' = [buf EXCEPT ![s] = Flip(@)]
          /\ UNCHANGED queue
  /\ Quiet /\ UNCHANGED <<sem, stalls>>

(* render_sem is taken, or 2 s have passed and the UI task is still busy.  *)
Rendered(s) ==
  /\ pc[s] = "wait"
  /\ \/ owner[s] \in sem /\ sem' = sem \ {owner[s]} /\ UNCHANGED stalls
     \/ /\ owner[s] \notin sem /\ MayHappen /\ stalls < MaxStalls
        /\ stalls' = stalls + 1 /\ UNCHANGED sem
  /\ Goes(s, "ack") /\ buf' = [buf EXCEPT ![s] = Flip(@)]
  /\ Quiet /\ UNCHANGED queue

(* Mutant: a stop is noticed after the pause only. *)
AckWaits(s) ==
  /\ pc[s] = "ack" /\ ~paused[s]
  /\ \/ Goes(s, IF running[s] THEN "loop" ELSE "ending")
     \/ running[s] /\ Goes(s, "connect")
  /\ Quiet /\ UNCHANGED <<sem, queue, buf, stalls>>

(* ack_frame() waits the pause out, if nobody stops it; a send may fail. *)
Ack(s) ==
  /\ pc[s] = "ack"
  /\ \/ ~running[s] /\ Goes(s, "ending")
     \/ running[s] /\ ~paused[s] /\ Goes(s, "loop")
     \/ running[s] /\ ~paused[s] /\ Goes(s, "connect")
  /\ Quiet /\ UNCHANGED <<sem, queue, buf, stalls>>

(* Mutant: g_state is left to the next start. *)
HolderKept(s) == holder

HolderAfter(s) == IF holder = s THEN None ELSE holder

(* The way out: g_state first, then the buffers. *)
End(s) ==
  /\ pc[s] = "ending"
  /\ holder' = HolderAfter(s)
  /\ Goes(s, "free")
  /\ UNCHANGED <<widgetVars, image, sem, queue, ui, soaking, voice, sessionVars, buf, counters>>

Free(s) ==
  /\ pc[s] = "free"
  /\ Goes(s, "none")
  /\ owner' = [owner EXCEPT ![s] = None] /\ paused' = [paused EXCEPT ![s] = FALSE]
  /\ buf' = [buf EXCEPT ![s] = 0]
  /\ UNCHANGED <<widgetVars, image, sem, queue, ui, soaking, voice, holder, running, counters>>

(* The satellite (espOS). *)
Talk ==
  /\ \/ ~voice /\ MayHappen /\ talks < MaxTalks /\ talks' = talks + 1
     \/ voice /\ UNCHANGED talks
  /\ voice' = ~voice
  /\ UNCHANGED <<widgetVars, image, sem, queue, ui, soaking, holder, pc, sessionVars, buf,
                 stalls, fails>>

------------------------------------------------------------------------------

UiStep(w) == Show(w) \/ Tick(w) \/ Hide(w)
Handler == TryStart \/ Started \/ SetPaused
Task(s) ==
  \/ Connect(s) \/ Loop(s) \/ Receive(s) \/ Decode(s) \/ Callback(s)
  \/ Rendered(s) \/ Ack(s) \/ End(s) \/ Free(s)

Next ==
  \/ \E w \in Widget : UiStep(w)
  \/ Handler \/ RunLambda
  \/ \E W \in SUBSET Widget : NewLayout(W)
  \/ SoakStart \/ SoakStarted \/ SoakStop
  \/ \E s \in Session : Task(s)
  \/ Talk

Spec == Init /\ [][Next]_vars

(* The UI task goes round its queue and its timers, every task of the      *)
(* client gets to run (recv and send time out after 10 s), and people and  *)
(* the satellite stop talking.                                             *)
Fairness ==
  /\ WF_vars(Handler) /\ SF_vars(RunLambda)
  /\ \A w \in Widget : SF_vars(Tick(w))
  /\ \A s \in Session : WF_vars(Task(s))
  /\ WF_vars(voice /\ Talk)

FairSpec == Spec /\ Fairness

------------------------------------------------------------------------------
(* OneDecoder: at most one session is not on its way out, and it is the    *)
(* one g_state points to, whoever starts and stops in between              *)
(* (stream_client.h:51-52, "Singleton by design").                         *)
Live(s) == pc[s] \notin {"none", "free"}

OneDecoder == \A s \in Session : Live(s) <=> holder = s

(* StartedOwns: a widget that believes it started a session has a running  *)
(* one of its own, so neither another widget nor the diagnostic takes the  *)
(* stream from it (widget_factory.cpp:2942-2943, 2962-2966).               *)
StartedOwns ==
  \A w \in started : holder # None /\ owner[holder] = w /\ running[holder]

(* PixelsLive: the frame on screen lies in memory its widget's own running *)
(* session still holds (widget_factory.cpp:2947-2950), however often       *)
(* sessions were stopped, restarted and given each other's memory; all but *)
(* the frame of a session that was told to stop while it decoded.          *)
PixelsLive ==
  \A w \in Widget \ stray : shown[w] # None =>
    /\ holder = shown[w][1]
    /\ owner[holder] = w /\ running[holder]

(* FrameStable: the decoder never writes into the frame on screen, nor     *)
(* into one that is still to be shown (stream_client.h:19-21), as long as  *)
(* the UI task has kept no frame waiting over 2 s; all but such a frame.   *)
FrameStable ==
  stalls = 0 =>
    \A s \in Session : pc[s] = "decode" =>
      /\ \A w \in Widget \ stray : shown[w] # <<s, buf[s]>>
      /\ \A i \in DOMAIN queue : queue[i].current => queue[i].px # <<s, buf[s]>>

(* Inv: in every state the types are right and the frame on screen is live *)
(* and left alone.                                                         *)
Inv == TypeOK /\ PixelsLive /\ FrameStable

(* WidgetStreams: a visible widget gets the client in the end, whatever    *)
(* session still winds down, unless the diagnostic has it                  *)
(* (stream_client.h:56-57, widget_factory.cpp:2938).                       *)
WidgetStreams ==
  \A w \in Widget :
    (w \in visible) ~> (w \in started \/ w \notin visible
                        \/ (holder # None /\ owner[holder] = soak))

(* SessionEnds: a session that was told to stop lets go of g_state, paused *)
(* or not (stream_client.cpp:404-411).                                     *)
SessionEnds == (holder # None /\ ~running[holder]) ~> (holder = None)

(* PictureResumes: a widget's pause ends when the satellite is done, or    *)
(* its session is told to stop (stream_client.cpp:247-250).                *)
Paused == holder # None /\ paused[holder] /\ running[holder]

PictureResumes == (Paused /\ owner[holder] # soak) ~> ~Paused

(* PictureComes: a widget that is shown streams in the end, and resumes    *)
(* when a voice pause is over.                                             *)
PictureComes == WidgetStreams /\ PictureResumes


(* What the comments say and the code does not do. *)

(* NoFreedPixels: the image of a widget on screen does not point into      *)
(* buffers that were freed.  widget_factory.cpp:2854-2857, 2947-2950.      *)
NoFreedPixels == \A w \in visible : shown[w] # None => pc[shown[w][1]] # "none"

(* TokenIsItsFrames: render_sem answers the wait of a frame when that      *)
(* frame has left the queue, also after a wait that ran out: "the          *)
(* semaphore paces us to the UI task's queue drain".                       *)
(* widget_factory.cpp:2907-2909, 2935-2936.                                *)
TokenIsItsFrames ==
  \A s \in Session : pc[s] = "wait" /\ owner[s] \in sem =>
    \A i \in DOMAIN queue : queue[i].px # <<s, buf[s]>>

(* PauseEnds: a session is paused while the satellite is active, not       *)
(* afterwards.  stream_client.cpp:44-49.                                   *)
PauseEnds == Paused ~> ~Paused
==============================================================================
