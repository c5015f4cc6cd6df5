------------------------------ MODULE PushService ------------------------------
(***************************************************************************)
(* What POST /layout promises a client, without saying how: pushes start   *)
(* in the order they were made, one at a time; each is applied, refused or *)
(* dropped before it started; and what the client is told agrees with that *)
(* for good, whatever happens later.                                       *)
(***************************************************************************)
EXTENDS Integers

CONSTANTS Push, None

VARIABLES
  fate,   (* what became of each push *)
  told    (* what its client was told *)

vars == <<fate, told>>

Fates == {"unborn", "waiting", "started", "applied", "refused", "dropped"}
Answers == {None, "ok", "refused", "not_applied", "still_running"}

TypeOK == fate \in [Push -> Fates] /\ told \in [Push -> Answers]

Init == fate = [r \in Push |-> "unborn"] /\ told = [r \in Push |-> None]

Become(r, f) == fate' = [fate EXCEPT ![r] = f]

Submit(r) == fate[r] = "unborn" /\ Become(r, "waiting") /\ UNCHANGED told

Start(r) ==
  /\ fate[r] = "waiting"
  /\ \A q \in Push : fate[q] = "started" \/ fate[q] = "waiting" => q >= r
  /\ Become(r, "started")
  /\ UNCHANGED told

Finish(r, f) == fate[r] = "started" /\ Become(r, f) /\ UNCHANGED told

(* Nobody waits for it any longer, and its client knows. *)
Drop(r) ==
  /\ fate[r] = "waiting"
  /\ Become(r, "dropped")
  /\ told' = [told EXCEPT ![r] = "not_applied"]

Truthful(f) ==
  CASE f = "started" -> {"still_running"}
    [] f = "applied" -> {"ok", "still_running"}
    [] f = "refused" -> {"refused", "still_running"}
    [] OTHER -> {}

Tell(r, a) ==
  /\ told[r] = None
  /\ a \in Truthful(fate[r])
  /\ told' = [told EXCEPT ![r] = a]
  /\ UNCHANGED fate

Next ==
  \E r \in Push :
    \/ Submit(r) \/ Start(r) \/ Drop(r)
    \/ \E f \in {"applied", "refused"} : Finish(r, f)
    \/ \E a \in Answers : Tell(r, a)

Spec == Init /\ [][Next]_vars
==============================================================================
