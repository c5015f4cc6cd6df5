------------------------------ MODULE UiTimers ------------------------------
(***************************************************************************)
(* ui::after(), ui::every() and ui::cancel() of                            *)
(* components/cockpit_hal/src/ui.cpp: LVGL timers behind handles.          *)
(*                                                                         *)
(* All of it runs under s_lvgl_lock, which the UI task also holds while it *)
(* runs callbacks: an operation is one step, and while a callback runs,    *)
(* what starts and cancels timers is the callback.  Memory and handles are *)
(* used again: a timer is known by the address LVGL gave it, and the       *)
(* handle counter wraps.                                                   *)
(***************************************************************************)
EXTENDS Naturals

CONSTANTS
  Clients,     \* the callers of every() and after(), each with one timer at a time
  Addresses,   \* bound: addresses of LVGL timers
  LastHandle,  \* the greatest handle; after it comes 0
  NoClient, NoTimer

\* No client and no timer are none of them, and 0 is no handle.
ASSUME TimerAssumption ==
  /\ NoClient \notin Clients /\ NoTimer \notin Addresses
  /\ LastHandle \in Nat \ {0}

VARIABLES
  timers,   \* the LVGL timers, each with its TimerCtx and its client
  s_timers, \* the map from handles to timers
  s_next_handle,
  kept,     \* the handle each client keeps, 0 for none
  running   \* timer_cb(): the timer it was called with, and its copies of TimerCtx

timerVars == <<timers, s_timers, s_next_handle, kept, running>>

Handles == 1 .. LastHandle
TimerCtx == [client : Clients, handle : Handles, once : BOOLEAN]
Dead == [client |-> NoClient]
Idle == [t |-> NoTimer]

TimerTypeOK ==
  /\ timers \in [Addresses -> TimerCtx \cup {Dead}]
  /\ s_timers \in [Handles -> Addresses \cup {NoTimer}]
  /\ s_next_handle \in 0 .. LastHandle
  /\ kept \in [Clients -> 0 .. LastHandle]
  /\ running \in [t : Addresses, client : Clients, handle : Handles, once : BOOLEAN] \cup {Idle}

TimerInit ==
  /\ timers = [t \in Addresses |-> Dead]
  /\ s_timers = [h \in Handles |-> NoTimer]
  /\ s_next_handle = 1
  /\ kept = [c \in Clients |-> 0]
  /\ running = Idle

Live == {t \in Addresses : timers[t] # Dead}

\* A one-shot whose callback runs: LVGL will not call it again.
Spent(t) == running.t = t /\ running.once

\* The timer a client waits for.
Armed(c) == {t \in Live : timers[t].client = c /\ ~Spent(t)}

-----------------------------------------------------------------------------
\* The handles from n on, 0 left out, and n's turn among them.
Turn(n, h) == IF h >= n THEN h - n ELSE h + LastHandle + 1 - n

\* Mutant: a handle that is live is given out again.
TakesNext(n, h) == \A g \in Handles : Turn(n, h) <= Turn(n, g)

\* The do loop of make_timer(): h is the first from n on that is free.
FirstFree(n, h) ==
  /\ s_timers[h] = NoTimer
  /\ \A g \in Handles : s_timers[g] = NoTimer => Turn(n, h) <= Turn(n, g)

\* make_timer().  after() drops the handle.
MakeTimer(c, once) ==
  /\ Armed(c) = {}
  /\ \E t \in Addresses \ Live, h \in Handles :
       /\ FirstFree(s_next_handle, h)
       /\ timers' = [timers EXCEPT ![t] = [client |-> c, handle |-> h, once |-> once]]
       /\ s_timers' = [s_timers EXCEPT ![h] = t]
       /\ s_next_handle' = IF h = LastHandle THEN 0 ELSE h + 1
       /\ kept' = [kept EXCEPT ![c] = IF once THEN 0 ELSE h]
  /\ UNCHANGED running

\* cancel(), by the client that keeps the handle; it forgets it.
Cancel(c) ==
  /\ kept[c] # 0
  /\ LET t == s_timers[kept[c]] IN
       IF t = NoTimer THEN UNCHANGED <<timers, s_timers>>
       ELSE /\ timers' = [timers EXCEPT ![t] = Dead]
            /\ s_timers' = [s_timers EXCEPT ![kept[c]] = NoTimer]
  /\ kept' = [kept EXCEPT ![c] = 0]
  /\ UNCHANGED <<s_next_handle, running>>

\* lv_timer_handler() calls timer_cb() of a timer that is due.
Fire(t) ==
  /\ running = Idle /\ t \in Live
  /\ running' = [t |-> t, client |-> timers[t].client, handle |-> timers[t].handle,
                 once |-> timers[t].once]
  /\ UNCHANGED <<timers, s_timers, s_next_handle, kept>>

\* Mutant: timer_cb() does not ask if its timer is a one-shot.
ReturnDeletes ==
  /\ running # Idle
  /\ LET h == running.handle IN
       IF s_timers[h] = NoTimer THEN UNCHANGED <<timers, s_timers>>
       ELSE /\ s_timers' = [s_timers EXCEPT ![h] = NoTimer]
            /\ timers' = [timers EXCEPT ![running.t] = Dead]
  /\ running' = Idle
  /\ UNCHANGED <<s_next_handle, kept>>

\* The callable returns, and timer_cb() goes on with its copies.
Return ==
  /\ running # Idle
  /\ LET h == running.handle IN
       IF s_timers[h] = NoTimer \/ ~running.once THEN UNCHANGED <<timers, s_timers>>
       ELSE /\ s_timers' = [s_timers EXCEPT ![h] = NoTimer]
            /\ timers' = [timers EXCEPT ![running.t] = Dead]
  /\ running' = Idle
  /\ UNCHANGED <<s_next_handle, kept>>

TimerNext ==
  \/ \E c \in Clients :
       \/ \E once \in BOOLEAN : MakeTimer(c, once)
       \/ Cancel(c)
  \/ \E t \in Addresses : Fire(t)
  \/ Return

TimerSpec == TimerInit /\ [][TimerNext]_timerVars

-----------------------------------------------------------------------------
(***************************************************************************)
(* Properties.                                                             *)
(***************************************************************************)

TimerKind(c) ==
  IF Armed(c) = {} THEN "off"
  ELSE IF \E t \in Armed(c) : timers[t].once THEN "once" ELSE "every"

TimersOf == INSTANCE TimerService WITH
  Client <- Clients,
  armed <- [c \in Clients |-> TimerKind(c)],
  calling <- IF running = Idle THEN NoClient ELSE running.client

\* Behind recycled handles and addresses the timers are a timer service: a
\* one-shot runs once, a periodic timer until it is cancelled, also when a
\* callback cancels its own timer or starts another, and no client's timer is
\* another's to lose.
TimersServe == TimersOf!Spec

\* The map and the timers agree, a client keeps the handle of its periodic
\* timer as long as it lives, and the handle a callback returns to is free, or
\* its own, or of another timer that is no business of a one-shot's.
TimersMatch ==
  /\ \A t \in Live : s_timers[timers[t].handle] = t
  /\ \A h \in Handles : s_timers[h] # NoTimer =>
       s_timers[h] \in Live /\ timers[s_timers[h]].handle = h
  /\ \A c \in Clients : kept[c] # 0 =>
       /\ s_timers[kept[c]] # NoTimer
       /\ timers[s_timers[kept[c]]].client = c
       /\ ~timers[s_timers[kept[c]]].once
  /\ \A t \in Live : ~timers[t].once => kept[timers[t].client] = timers[t].handle
  /\ running # Idle /\ running.once =>
       timers[running.t] = [client |-> running.client, handle |-> running.handle, once |-> TRUE]

\* In every state the types are right and the timers match.
TimerInv == TimerTypeOK /\ TimersMatch
=============================================================================
