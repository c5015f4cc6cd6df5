---------------------------- MODULE TimerService ----------------------------
(***************************************************************************)
(* What cockpit_hal::ui promises of its timers: a client's one-shot runs   *)
(* once, its periodic timer until it is cancelled, no callback runs within *)
(* another, and what one client does leaves the others' timers alone.      *)
(***************************************************************************)
CONSTANTS Client, NoClient

VARIABLES
  armed,   \* each client's timer: "off", "once" or "every"
  calling  \* the client whose callback runs

Init == armed = [c \in Client |-> "off"] /\ calling = NoClient

Start(c, k) ==
  /\ armed[c] = "off"
  /\ armed' = [armed EXCEPT ![c] = k]
  /\ UNCHANGED calling

Stop(c) ==
  /\ armed[c] = "every"
  /\ armed' = [armed EXCEPT ![c] = "off"]
  /\ UNCHANGED calling

Fire(c) ==
  /\ calling = NoClient /\ armed[c] # "off"
  /\ calling' = c
  /\ armed' = [armed EXCEPT ![c] = IF @ = "once" THEN "off" ELSE @]

Return == calling # NoClient /\ calling' = NoClient /\ UNCHANGED armed

Next ==
  \/ \E c \in Client :
       \/ \E k \in {"once", "every"} : Start(c, k)
       \/ Stop(c)
       \/ Fire(c)
  \/ Return

Spec == Init /\ [][Next]_<<armed, calling>>
=============================================================================
