---------------------------- MODULE MCAudioPort ----------------------------
(***************************************************************************)
(* Instances for TLC of the speaker and the microphones: AudioPort, and    *)
(* the ClipQueue in front of its audio task, whose queue of four places    *)
(* fills, evicts and drains with six clips.  A behaviour is of one of      *)
(* them: what the queue sees of the port is that a reply holds the codec.  *)
(***************************************************************************)
EXTENDS AudioPort, ClipQueue, TLC

CONSTANTS mic, wake  \* the push-to-talk pipeline and the wake engine

\* A panel with two live microphones: the wake engine has its own handle.
DualHandles == (mic :> "mono") @@ (wake :> "wake")

\* A panel whose wake engine listens on the mono handle.
MonoHandles == (wake :> "mono")

\* Only the wake engine, on its own handle.
WakeHandles == (wake :> "wake")

\* Wake engine and pipeline both on the mono handle.
SharedHandles == (mic :> "mono") @@ (wake :> "mono")

VARIABLE part

soundVars == <<part, vars, clipVars>>

SoundInit == part \in {"port", "clips"} /\ Init /\ ClipInit

SoundNext ==
  /\ UNCHANGED part
  /\ \/ part = "port" /\ Next /\ UNCHANGED clipVars
     \/ part = "clips" /\ ClipNext /\ UNCHANGED vars

\* A behaviour of the queue has nothing to be fair about.
SoundSpec == SoundInit /\ [][SoundNext]_soundVars /\ (part = "port" => Fairness)
=============================================================================
