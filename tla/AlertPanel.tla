------------------------------ MODULE AlertPanel ------------------------------
(***************************************************************************)
(* What the alarm display promises the operator, without saying how:       *)
(* the most severe alarm nobody silenced is on screen, it can only be      *)
(* silenced by a tap on it, and an alarm that grows past the level it was  *)
(* silenced at is no longer silenced.                                      *)
(***************************************************************************)
EXTENDS Integers

CONSTANTS Path, None, Level, Quiet

VARIABLES
  level,      (* severity of each alarm, Quiet or below when there is none *)
  silenced,   (* severity each alarm was silenced at, or None              *)
  threshold,  (* the least severity worth showing                          *)
  display     (* the alarm on screen, or None                              *)

vars == <<level, silenced, threshold, display>>

TypeOK ==
  /\ level \in [Path -> Level]
  /\ silenced \in [Path -> Level \cup {None}]
  /\ threshold \in Level \cup {None}
  /\ display \in Path \cup {None}

Loud == {p \in Path : silenced[p] = None /\ level[p] > Quiet}

Worst == {p \in Loud : \A q \in Loud : level[q] <= level[p]}

(* threshold = None: the display is switched off. *)
Showable == {p \in Worst : threshold # None /\ level[p] >= threshold}

DisplayRight == IF Showable = {} THEN display = None ELSE display \in Showable

Init ==
  /\ level = [p \in Path |-> Quiet]
  /\ silenced = [p \in Path |-> None]
  /\ threshold \in Level \cup {None}
  /\ display = None

(* The alarm changes.  Its silence may be lifted, and must be when the     *)
(* alarm outgrows it; no other alarm's silence is touched.                 *)
Change(p, l) ==
  /\ level' = [level EXCEPT ![p] = l]
  /\ \/ silenced[p] # None /\ l <= silenced[p] /\ UNCHANGED silenced
     \/ silenced' = [silenced EXCEPT ![p] = None]
  /\ UNCHANGED threshold
  /\ DisplayRight'

(* The operator silences the alarm on screen, at the level it shows. *)
Silence ==
  /\ display # None
  /\ silenced' = [silenced EXCEPT ![display] = level[display]]
  /\ UNCHANGED <<level, threshold>>
  /\ DisplayRight'

(* A new layout brings its own threshold. *)
Configure(t) ==
  /\ threshold' = t
  /\ UNCHANGED <<level, silenced>>
  /\ DisplayRight'

Next ==
  \/ \E p \in Path, l \in Level : Change(p, l)
  \/ Silence
  \/ \E t \in Level \cup {None} : Configure(t)

Spec == Init /\ [][Next]_vars
==============================================================================
