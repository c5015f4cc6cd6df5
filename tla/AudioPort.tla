----------------------------- MODULE AudioPort -----------------------------
(***************************************************************************)
(* The shared audio port of components/cockpit_hal/src/waveshare_audio.cpp:*)
(* one full-duplex I2S port carries the speaker codec (`codec_') and two   *)
(* microphone handles, `mono' (codec_in_, speech to text) and `wake'       *)
(* (codec_in2_, the two-channel wake feed).                                *)
(*                                                                         *)
(* Tasks: the audio task (one chime at a time), the voice task (one spoken *)
(* reply: begin_stream .. end_stream), the capture consumers (start, read, *)
(* stop), the HTTP server (/mic_gain, /mic_probe4) and whoever mutes the   *)
(* speaker.  A region under a mutex that never waits inside is one action; *)
(* the waits -- draining a reader, taking the codec -- are where the code  *)
(* can be interleaved and are separate actions.                            *)
(*                                                                         *)
(* The voice satellite that drives the port is another repository's; what  *)
(* is assumed of it is the operator MayStart.                              *)
(***************************************************************************)
EXTENDS Naturals, FiniteSets

CONSTANTS
  Consumers,      \* tasks that start, read and stop a capture
  HandleOf,       \* HandleOf[c]: the capture handle c uses
  StreamRates,    \* the sample rates a reply may arrive at
  Native,         \* kSampleRate
  MaxGainCalls,   \* bound: calls of /mic_gain
  Upsets,         \* what may go wrong around the port, out of Upset
  MaxKinds,       \* bound: different upsets in one behaviour
  None

Handles == {"mono", "wake"}
Rates == StreamRates \cup {Native}

\* A clock or codec that fails, a read that outlasts its 200 ms drain, a capture
\* started against the satellite's discipline, a call of /mic_gain.
Upset == {"failed", "late", "rude", "gain"}

ASSUME HandlesAssumption == HandleOf \in [Consumers -> Handles] /\ IsFiniteSet(Consumers)
ASSUME RatesAssumption == StreamRates \subseteq Nat \ {0} /\ Native \in Nat \ {0}
ASSUME GainAssumption == MaxGainCalls \in Nat
ASSUME NamesAssumption ==
  /\ {"httpd", "reclock"} \cap Consumers = {}
  /\ None \notin Consumers \cup {"httpd", "reclock", "audio", "voice", "probe"}
ASSUME UpsetsAssumption == Upsets \subseteq Upset /\ MaxKinds \in Nat

VARIABLES
  codec_mutex,    \* who holds it: None, "audio", "voice" or "probe"
  voice,          \* the voice task's place in begin_stream .. end_stream
  voiceRate,      \* the reply's sample rate
  rc,             \* apply_rate in progress: [pc, rate, ok, retry, had]
  streaming_, enabled_, amp, open_rate_,
  codec,          \* rate the speaker codec is open at, 0 when closed
  clock,          \* rate the I2S port is clocked at
  users, capturing, reading, suspended,
  open,           \* the handle's codec device is open
  cap_mutex,      \* who waits inside the handle's capture mutex
  rx,             \* the shared receive channel is enabled
  consumer,       \* "stopped", "started" or "draining" its stop
  reader,         \* "out", "claimed" or "in" of record_pcm
  gain, gainCalls,
  upsets          \* history: what has gone wrong so far

codecVars == <<codec_mutex, voice, voiceRate, rc, streaming_, open_rate_, codec, clock>>
muteVars == <<enabled_, amp>>
handleVars == <<users, capturing, open, suspended, cap_mutex, rx>>
readVars == <<reading, reader, upsets>>
clientVars == <<consumer, gain, gainCalls>>
vars == <<codecVars, muteVars, handleVars, readVars, clientVars>>

Steps == {"off", "suspend_mono", "drain_mono", "suspend_wake", "drain_wake",
          "switch", "resume_mono", "resume_wake", "done"}
SuspendStep == [h \in Handles |-> IF h = "mono" THEN "suspend_mono" ELSE "suspend_wake"]
DrainStep == [h \in Handles |-> IF h = "mono" THEN "drain_mono" ELSE "drain_wake"]
ResumeStep == [h \in Handles |-> IF h = "mono" THEN "resume_mono" ELSE "resume_wake"]
AfterSuspend == [h \in Handles |-> IF h = "mono" THEN "suspend_wake" ELSE "switch"]
AfterResume == [h \in Handles |-> IF h = "mono" THEN "resume_wake" ELSE "done"]

Idle == [pc |-> "off", rate |-> Native, ok |-> TRUE, retry |-> FALSE, had |-> {}]

TypeOK ==
  /\ codec_mutex \in {None, "audio", "voice", "probe"}
  /\ voice \in {"idle", "waiting", "begin", "streaming", "ending"}
  /\ voiceRate \in Rates
  /\ rc \in [pc : Steps, rate : Rates, ok : BOOLEAN, retry : BOOLEAN,
             had : SUBSET Handles]
  /\ {streaming_, enabled_, amp, rx} \subseteq BOOLEAN
  /\ {open_rate_, codec} \subseteq Rates \cup {0}
  /\ clock \in Rates
  /\ users \in [Handles -> 0 .. (Cardinality(Consumers) + MaxGainCalls)]
  /\ {capturing, reading, open, suspended} \subseteq [Handles -> BOOLEAN]
  /\ cap_mutex \in [Handles -> Consumers \cup {None, "httpd", "reclock"}]
  /\ consumer \in [Consumers -> {"stopped", "started", "draining"}]
  /\ reader \in [Consumers -> {"out", "claimed", "in"}]
  /\ gain \in {"idle", "draining", "stopped"}
  /\ gainCalls \in 0 .. MaxGainCalls
  /\ upsets \subseteq Upsets

\* After init(): the codec open at the native rate, the port clocked, no mic.
Init ==
  /\ codec_mutex = None /\ voice = "idle" /\ voiceRate = Native /\ rc = Idle
  /\ streaming_ = FALSE /\ enabled_ = TRUE /\ amp = TRUE
  /\ open_rate_ = Native /\ codec = Native /\ clock = Native
  /\ users = [h \in Handles |-> 0]
  /\ capturing = [h \in Handles |-> FALSE]
  /\ reading = [h \in Handles |-> FALSE]
  /\ suspended = [h \in Handles |-> FALSE]
  /\ open = [h \in Handles |-> FALSE]
  /\ cap_mutex = [h \in Handles |-> None]
  /\ rx = TRUE
  /\ consumer = [c \in Consumers |-> "stopped"]
  /\ reader = [c \in Consumers |-> "out"]
  /\ gain = "idle" /\ gainCalls = 0
  /\ upsets = {}

\* Things go wrong in up to MaxKinds ways in one behaviour, each as often as it
\* likes.
MayGo(u) == u \in Upsets /\ Cardinality(upsets \cup {u}) <= MaxKinds

-----------------------------------------------------------------------------
(***************************************************************************)
(* Full-duplex arbitration of esp_codec_dev, as the code relies on it: the *)
(* two directions of the port may not be open at different rates.          *)
(***************************************************************************)
SpeakerFits(rate) == rate = Native \/ \A h \in Handles : ~open[h]
MicFits == codec \in {0, Native}

\* The outcomes of an open: fitting ones succeed, or fail with the hardware.
Outcomes(fits) == {fits} \cup (IF MayGo("failed") THEN {FALSE} ELSE {})

\* An open that fits and fails is noted.
Noted(fits, ok) == IF fits /\ ~ok THEN {"failed"} ELSE {}

-----------------------------------------------------------------------------
(***************************************************************************)
(* apply_rate, by the task that holds codec_mutex.                         *)
(***************************************************************************)

\* Lines 433-456: the codec is closed, then each capture is suspended.
StartReclock(rate, retry) ==
  /\ codec' = 0
  /\ rc' = [pc |-> "suspend_mono", rate |-> rate, ok |-> FALSE, retry |-> retry, had |-> {}]

\* suspend_capture_for_reclock: an open capture is flagged off before its drain.
Suspend(h) ==
  /\ rc.pc = SuspendStep[h]
  /\ cap_mutex[h] = None
  /\ \/ /\ capturing[h]
        /\ capturing' = [capturing EXCEPT ![h] = FALSE]
        /\ cap_mutex' = [cap_mutex EXCEPT ![h] = "reclock"]
        /\ rc' = [rc EXCEPT !.pc = DrainStep[h]]
     \/ /\ ~capturing[h]
        /\ rc' = [rc EXCEPT !.pc = AfterSuspend[h]]
        /\ UNCHANGED <<capturing, cap_mutex>>
  /\ UNCHANGED <<codec_mutex, voice, voiceRate, streaming_, open_rate_, codec, clock,
                 muteVars, users, open, suspended, rx, readVars, clientVars>>

\* Mutant: the device is closed without waiting for its reader.
SuspendCloseNow(h) ==
  /\ rc.pc = DrainStep[h]
  /\ open' = [open EXCEPT ![h] = FALSE]
  /\ rx' = FALSE
  /\ suspended' = [suspended EXCEPT ![h] = TRUE]
  /\ cap_mutex' = [cap_mutex EXCEPT ![h] = None]
  /\ rc' = [rc EXCEPT !.pc = AfterSuspend[h]]
  /\ UNCHANGED <<codec_mutex, voice, voiceRate, streaming_, open_rate_, codec, clock,
                 muteVars, users, capturing, readVars, clientVars>>

\* The reader has left: the device is closed and the suspension remembered.
SuspendClose(h) ==
  /\ rc.pc = DrainStep[h]
  /\ ~reading[h]
  /\ open' = [open EXCEPT ![h] = FALSE]
  /\ rx' = FALSE
  /\ suspended' = [suspended EXCEPT ![h] = TRUE]
  /\ cap_mutex' = [cap_mutex EXCEPT ![h] = None]
  /\ rc' = [rc EXCEPT !.pc = AfterSuspend[h]]
  /\ UNCHANGED <<codec_mutex, voice, voiceRate, streaming_, open_rate_, codec, clock,
                 muteVars, users, capturing, readVars, clientVars>>

\* The reader is still in after 200 ms: the capture is left running.
SuspendSkip(h) ==
  /\ MayGo("late")
  /\ rc.pc = DrainStep[h]
  /\ reading[h]
  /\ upsets' = upsets \cup {"late"}
  /\ capturing' = [capturing EXCEPT ![h] = TRUE]
  /\ cap_mutex' = [cap_mutex EXCEPT ![h] = None]
  /\ rc' = [rc EXCEPT !.pc = AfterSuspend[h]]
  /\ UNCHANGED <<codec_mutex, voice, voiceRate, streaming_, open_rate_, codec, clock,
                 muteVars, users, open, suspended, rx, reading, reader, clientVars>>

\* Mutant: the suspensions are dropped instead of taken back.
AfterSwitchForgets(ok) ==
  /\ rc' = [rc EXCEPT !.pc = "done", !.ok = ok]
  /\ suspended' = [h \in Handles |-> FALSE]

\* maybe_resume_capture: only the native rate takes the suspensions back.
AfterSwitch(ok) ==
  IF rc.rate = Native
  THEN /\ rc' = [rc EXCEPT !.pc = "resume_mono", !.ok = ok,
                           !.had = {h \in Handles : suspended[h]}]
       /\ suspended' = [h \in Handles |-> FALSE]
  ELSE /\ rc' = [rc EXCEPT !.pc = "done", !.ok = ok]
       /\ UNCHANGED suspended

\* Lines 457-478: cycle the transmit channel at the new clock, reopen the codec.
Switch ==
  /\ rc.pc = "switch"
  /\ rx' = FALSE
  /\ \E clocked \in Outcomes(TRUE), opened \in Outcomes(SpeakerFits(rc.rate)) :
       /\ clock' = IF clocked THEN rc.rate ELSE clock
       /\ codec' = IF clocked /\ opened THEN rc.rate ELSE codec
       /\ open_rate_' = IF clocked /\ opened THEN rc.rate ELSE open_rate_
       /\ AfterSwitch(clocked /\ opened)
       /\ upsets' = upsets \cup Noted(TRUE, clocked)
                           \cup Noted(clocked /\ SpeakerFits(rc.rate), opened)
  /\ UNCHANGED <<codec_mutex, voice, voiceRate, streaming_, muteVars, users, capturing,
                 open, cap_mutex, reading, reader, clientVars>>

\* resume_capture_after_reclock: reopen what was suspended and is still wanted.
Wanted(h) == h \in rc.had /\ ~capturing[h] /\ users[h] > 0

Resume(h) ==
  /\ rc.pc = ResumeStep[h]
  /\ h \in rc.had => cap_mutex[h] = None
  /\ rc' = [rc EXCEPT !.pc = AfterResume[h]]
  /\ \/ /\ ~Wanted(h)
        /\ UNCHANGED <<open, capturing, rx, upsets>>
     \/ /\ Wanted(h)
        /\ rx' = TRUE
        /\ \E ok \in Outcomes(MicFits) :
             /\ open' = [open EXCEPT ![h] = ok]
             /\ capturing' = [capturing EXCEPT ![h] = ok]
             /\ upsets' = upsets \cup Noted(MicFits, ok)
  /\ UNCHANGED <<codec_mutex, voice, voiceRate, streaming_, open_rate_, codec, clock,
                 muteVars, users, suspended, cap_mutex, reading, reader, clientVars>>

\* ensure_rate: a failed switch falls back to the native rate, once.
FallBack ==
  /\ rc.pc = "done"
  /\ ~rc.ok /\ ~rc.retry
  /\ voice # "ending"
  /\ StartReclock(Native, TRUE)
  /\ UNCHANGED <<codec_mutex, voice, voiceRate, streaming_, open_rate_, clock,
                 muteVars, handleVars, readVars, clientVars>>

\* ensure_rate is through: nothing to switch, or no fallback left to try.
Settled ==
  \/ rc.pc = "off"
  \/ /\ rc.pc = "done"
     /\ rc.ok \/ rc.retry \/ voice = "ending"

RateReached == rc.pc = "off" \/ (rc.ok /\ ~rc.retry)

\* open_rate_ = 0 when even the fallback failed.
SettledRate == IF rc.pc = "done" /\ ~rc.ok /\ rc.retry THEN 0 ELSE open_rate_

Reclock ==
  \/ \E h \in Handles : Suspend(h) \/ SuspendClose(h) \/ SuspendSkip(h) \/ Resume(h)
  \/ Switch
  \/ FallBack

-----------------------------------------------------------------------------
(***************************************************************************)
(* The audio task: take the codec, go to the native rate, write the clip.  *)
(***************************************************************************)
ChimeTake ==
  /\ codec_mutex = None
  /\ codec_mutex' = "audio"
  /\ \/ open_rate_ # Native /\ StartReclock(Native, FALSE)
     \/ open_rate_ = Native /\ UNCHANGED <<codec, rc>>
  /\ UNCHANGED <<voice, voiceRate, streaming_, open_rate_, clock, muteVars, handleVars,
                 readVars, clientVars>>

ChimeGive ==
  /\ codec_mutex = "audio"
  /\ Settled
  /\ codec_mutex' = None
  /\ rc' = Idle
  /\ open_rate_' = SettledRate
  /\ UNCHANGED <<voice, voiceRate, streaming_, codec, clock, muteVars, handleVars,
                 readVars, clientVars>>

-----------------------------------------------------------------------------
(***************************************************************************)
(* The voice task: one reply, from begin_stream to end_stream.             *)
(***************************************************************************)

\* Lines 515-522: a muted or already streaming board refuses.
BeginStream(rate) ==
  /\ voice = "idle"
  /\ enabled_ /\ ~streaming_
  /\ voice' = "waiting"
  /\ voiceRate' = rate
  /\ UNCHANGED <<codec_mutex, rc, streaming_, open_rate_, codec, clock, muteVars,
                 handleVars, readVars, clientVars>>

\* Mutant: the reply is not asked for its rate.
BeginTakeAnyRate ==
  /\ voice = "waiting"
  /\ codec_mutex = None
  /\ codec_mutex' = "voice"
  /\ voice' = "begin"
  /\ UNCHANGED <<voiceRate, rc, streaming_, open_rate_, codec, clock, muteVars,
                 handleVars, readVars, clientVars>>

BeginTake ==
  /\ voice = "waiting"
  /\ codec_mutex = None
  /\ codec_mutex' = "voice"
  /\ voice' = "begin"
  /\ \/ voiceRate # open_rate_ /\ StartReclock(voiceRate, FALSE)
     \/ voiceRate = open_rate_ /\ UNCHANGED <<codec, rc>>
  /\ UNCHANGED <<voiceRate, streaming_, open_rate_, clock, muteVars, handleVars,
                 readVars, clientVars>>

\* Lines 525-528: the rate is reached; the codec stays held for the whole reply.
BeginOk ==
  /\ voice = "begin"
  /\ Settled /\ RateReached
  /\ voice' = "streaming"
  /\ streaming_' = TRUE
  /\ amp' = TRUE
  /\ rc' = Idle
  /\ UNCHANGED <<codec_mutex, voiceRate, open_rate_, codec, clock, enabled_, handleVars,
                 readVars, clientVars>>

\* Lines 529-531: begin_stream gives the codec back and reports failure.
BeginFail ==
  /\ voice = "begin"
  /\ Settled /\ ~RateReached
  /\ voice' = "idle"
  /\ codec_mutex' = None
  /\ rc' = Idle
  /\ open_rate_' = SettledRate
  /\ UNCHANGED <<voiceRate, streaming_, codec, clock, muteVars, handleVars, readVars,
                 clientVars>>

EndStream ==
  /\ voice = "streaming"
  /\ streaming_' = FALSE
  /\ voice' = "ending"
  /\ \/ open_rate_ # Native /\ StartReclock(Native, FALSE)
     \/ open_rate_ = Native /\ UNCHANGED <<codec, rc>>
  /\ UNCHANGED <<codec_mutex, voiceRate, open_rate_, clock, muteVars, handleVars,
                 readVars, clientVars>>

\* Mutant: end_stream keeps the codec when the reclock failed.
EndGiveOnSuccess ==
  /\ voice = "ending"
  /\ Settled
  /\ voice' = "idle"
  /\ codec_mutex' = IF RateReached THEN None ELSE codec_mutex
  /\ rx' = TRUE
  /\ rc' = Idle
  /\ UNCHANGED <<voiceRate, streaming_, open_rate_, codec, clock, muteVars, users,
                 capturing, open, suspended, cap_mutex, readVars, clientVars>>

\* Whatever apply_rate returned, receive is restored and the codec given back.
EndGive ==
  /\ voice = "ending"
  /\ Settled
  /\ voice' = "idle"
  /\ codec_mutex' = None
  /\ rx' = (rx \/ rc.pc = "done")
  /\ rc' = Idle
  /\ UNCHANGED <<voiceRate, streaming_, open_rate_, codec, clock, muteVars, users,
                 capturing, open, suspended, cap_mutex, readVars, clientVars>>

\* set_enabled: the speaker mute of the panel, by the UI task.
SetEnabled(on) ==
  /\ enabled_ # on
  /\ enabled_' = on
  /\ amp' = on
  /\ UNCHANGED <<codecVars, handleVars, readVars, clientVars>>

-----------------------------------------------------------------------------
(***************************************************************************)
(* Captures.  start_capture and stop_capture are the same code for the two *)
(* handles; the refcount is theirs, the device opens and closes at 0 <-> 1.*)
(***************************************************************************)
StartCapture(h, how) ==
  /\ cap_mutex[h] = None
  /\ \/ /\ users[h] > 0
        /\ users' = [users EXCEPT ![h] = @ + 1]
        /\ upsets' = upsets \cup how
        /\ UNCHANGED <<capturing, open, rx>>
     \/ /\ users[h] = 0
        /\ \E ok \in Outcomes(MicFits) :
             /\ users' = [users EXCEPT ![h] = IF ok THEN 1 ELSE 0]
             /\ open' = [open EXCEPT ![h] = ok]
             /\ capturing' = [capturing EXCEPT ![h] = ok]
             /\ rx' = (rx \/ ok)
             /\ upsets' = upsets \cup how \cup Noted(MicFits, ok)
  /\ UNCHANGED <<suspended, cap_mutex>>

LastUser(h) == users[h] = 1 /\ capturing[h]

\* Up to the drain: the last user clears the flag and waits inside the mutex.
StopCapture(h, who) ==
  /\ cap_mutex[h] = None
  /\ users' = [users EXCEPT ![h] = IF @ > 0 THEN @ - 1 ELSE 0]
  /\ capturing' = [capturing EXCEPT ![h] = @ /\ ~LastUser(h)]
  /\ cap_mutex' = [cap_mutex EXCEPT ![h] = IF LastUser(h) THEN who ELSE None]
  /\ UNCHANGED <<open, suspended, rx>>

\* After the drain -- or at its deadline -- the device is closed.
StopClose(h, who) ==
  /\ cap_mutex[h] = who
  /\ ~reading[h] \/ MayGo("late")
  /\ upsets' = IF reading[h] THEN upsets \cup {"late"} ELSE upsets
  /\ open' = [open EXCEPT ![h] = FALSE]
  /\ cap_mutex' = [cap_mutex EXCEPT ![h] = None]
  /\ rx' = TRUE
  /\ UNCHANGED <<users, capturing, suspended>>

\* The satellite starts no capture while it speaks, and lets go of one handle
\* before it takes the other.
MayStart(c) ==
  /\ voice = "idle"
  /\ \A d \in Consumers : HandleOf[d] # HandleOf[c] => consumer[d] = "stopped"

Start(c) ==
  /\ consumer[c] = "stopped"
  /\ MayStart(c) \/ MayGo("rude")
  /\ StartCapture(HandleOf[c], IF MayStart(c) THEN {} ELSE {"rude"})
  /\ consumer' = [consumer EXCEPT ![c] = "started"]
  /\ UNCHANGED <<codecVars, muteVars, reading, reader, gain, gainCalls>>

Stop(c) ==
  /\ consumer[c] = "started"
  /\ StopCapture(HandleOf[c], c)
  /\ consumer' = [consumer EXCEPT
                    ![c] = IF LastUser(HandleOf[c]) THEN "draining" ELSE "stopped"]
  /\ UNCHANGED <<codecVars, muteVars, readVars, gain, gainCalls>>

StopEnd(c) ==
  /\ consumer[c] = "draining"
  /\ StopClose(HandleOf[c], c)
  /\ consumer' = [consumer EXCEPT ![c] = "stopped"]
  /\ UNCHANGED <<codecVars, muteVars, reading, reader, gain, gainCalls>>

\* record_pcm: claim the read, then look whether the capture is on.
ReadClaim(c) ==
  /\ reader[c] = "out"
  /\ consumer[c] # "stopped"
  /\ reading' = [reading EXCEPT ![HandleOf[c]] = TRUE]
  /\ reader' = [reader EXCEPT ![c] = "claimed"]
  /\ UNCHANGED <<codecVars, muteVars, handleVars, upsets, clientVars>>

ReadCheck(c) ==
  /\ reader[c] = "claimed"
  /\ reader' = [reader EXCEPT ![c] = IF capturing[HandleOf[c]] THEN "in" ELSE "out"]
  /\ reading' = [reading EXCEPT ![HandleOf[c]] = @ /\ capturing[HandleOf[c]]]
  /\ UNCHANGED <<codecVars, muteVars, handleVars, upsets, clientVars>>

ReadEnd(c) ==
  /\ reader[c] = "in"
  /\ reader' = [reader EXCEPT ![c] = "out"]
  /\ reading' = [reading EXCEPT ![HandleOf[c]] = FALSE]
  /\ UNCHANGED <<codecVars, muteVars, handleVars, upsets, clientVars>>

-----------------------------------------------------------------------------
(***************************************************************************)
(* The HTTP server: /mic_gain cycles the mono capture, /mic_probe4 opens   *)
(* handles of its own on the port while it holds the codec.                *)
(***************************************************************************)
GainStop ==
  /\ gain = "idle"
  /\ gainCalls < MaxGainCalls
  /\ MayGo("gain")
  /\ gainCalls' = gainCalls + 1
  /\ upsets' = upsets \cup {"gain"}
  /\ StopCapture("mono", "httpd")
  /\ gain' = IF LastUser("mono") THEN "draining" ELSE "stopped"
  /\ UNCHANGED <<codecVars, muteVars, reading, reader, consumer>>

GainClose ==
  /\ gain = "draining"
  /\ StopClose("mono", "httpd")
  /\ gain' = "stopped"
  /\ UNCHANGED <<codecVars, muteVars, reading, reader, consumer, gainCalls>>

GainStart ==
  /\ gain = "stopped"
  /\ StartCapture("mono", {})
  /\ gain' = "idle"
  /\ UNCHANGED <<codecVars, muteVars, reading, reader, consumer, gainCalls>>

ProbeTake ==
  /\ codec_mutex = None
  /\ \A c \in Consumers : consumer[c] = "stopped"  \* the satellite is paused first
  /\ codec_mutex' = "probe"
  /\ rx' = FALSE
  /\ UNCHANGED <<voice, voiceRate, rc, streaming_, open_rate_, codec, clock, muteVars,
                 users, capturing, open, suspended, cap_mutex, readVars, clientVars>>

ProbeGive ==
  /\ codec_mutex = "probe"
  /\ codec_mutex' = None
  /\ rx' = TRUE
  /\ UNCHANGED <<voice, voiceRate, rc, streaming_, open_rate_, codec, clock, muteVars,
                 users, capturing, open, suspended, cap_mutex, readVars, clientVars>>

-----------------------------------------------------------------------------
Voice == BeginTake \/ BeginOk \/ BeginFail \/ EndGive

Next ==
  \/ Reclock
  \/ ChimeTake \/ ChimeGive
  \/ \E rate \in StreamRates : BeginStream(rate)
  \/ Voice
  \/ EndStream
  \/ \E on \in BOOLEAN : SetEnabled(on)
  \/ \E c \in Consumers :
       \/ Start(c) \/ Stop(c) \/ StopEnd(c)
       \/ ReadClaim(c) \/ ReadCheck(c) \/ ReadEnd(c)
  \/ GainStop \/ GainClose \/ GainStart
  \/ ProbeTake \/ ProbeGive

(***************************************************************************)
(* Every bounded wait ends: a read brings its samples, a drain meets its   *)
(* reader or its deadline, a clip and a probe end.  A FreeRTOS mutex goes  *)
(* to its longest-waiting task, so a task that waits for the codec, or for *)
(* a handle during a reclock, gets its turn (SF).                          *)
(***************************************************************************)
Holder == ChimeGive \/ ProbeGive \/ BeginOk \/ BeginFail \/ EndGive
Drained(h) ==
  \/ h = "mono" /\ GainClose
  \/ \E c \in Consumers : HandleOf[c] = h /\ StopEnd(c)
Read(c) == ReadCheck(c) \/ ReadEnd(c)

Fairness ==
  /\ SF_vars(Reclock) /\ SF_vars(BeginTake)
  /\ WF_vars(Holder) /\ \A h \in Handles : SF_vars(Drained(h))
  /\ \A c \in Consumers : WF_vars(Read(c))

Spec == Init /\ [][Next]_vars
FairSpec == Spec /\ Fairness

-----------------------------------------------------------------------------
(***************************************************************************)
(* Properties.                                                             *)
(***************************************************************************)

\* A capture device is never closed while a task is blocked reading it, unless
\* the drain met its deadline: esp_codec_dev is not safe for a concurrent read
\* and close (waveshare_audio.h:130-134), which is why reading_ is claimed
\* before the flag is looked at and drained after it is cleared.
NoCloseUnderRead ==
  [][\A c \in Consumers :
       open[HandleOf[c]] /\ ~open'[HandleOf[c]] /\ "late" \notin upsets'
         => reader[c] # "in"]_vars

\* A reply is played by the task that holds the codec, on a codec and a port
\* clock both at the reply's rate (the "pipe" tone of apply_rate's comment), as
\* long as no clock and no codec has failed.
StreamAtItsRate ==
  streaming_ /\ "failed" \notin upsets =>
    codec_mutex = "voice" /\ codec = voiceRate /\ clock = voiceRate

\* While nothing goes wrong no consumer is ever inside a read with the port
\* clocked at another rate than capture_rate() reports (end_stream, 582-586).
SamplesAreNative ==
  upsets = {} => \A c \in Consumers : reader[c] = "in" => clock = Native

\* Both ways the port runs at the rate its user asked for: the reply's for the
\* reply, capture_rate() for every reader.
RatesAgree == StreamAtItsRate /\ SamplesAreNative

\* Whenever the codec is free, every consumer that started a capture has it:
\* a reply must give the microphone back, also one whose reader outlasted the
\* drain, and one consumer's stop must not take it from the other
\* (waveshare_audio.h:120-127).
MicComesBack ==
  codec_mutex = None /\ upsets \subseteq {"late"} =>
    \A c \in Consumers : consumer[c] = "started" => capturing[HandleOf[c]]

\* Whenever the codec is free, an open capture reads an enabled channel: opens,
\* closes, reclocks, probes and gain changes all take rx_chan_ down, and nothing
\* but these paths ever puts it back (restore_rx_channel).  One gain change does
\* not break this; without the premise it does not hold (ReceiveRestored).
ReceiveUp ==
  codec_mutex = None /\ upsets \subseteq {"gain"} /\ gainCalls <= 1 =>
    ((\E h \in Handles : capturing[h]) => rx)

\* The mono and the two-channel handle are never open at once, whatever fails
\* and however late a reader is (waveshare_audio.h:142-145).
NeverBothOpen ==
  upsets \subseteq {"failed", "late"} => ~(open["mono"] /\ open["wake"])

\* In every state the types are right, an open capture has its channel, one
\* microphone handle is open at a time, and each direction runs at its rate.
Inv == TypeOK /\ ReceiveUp /\ NeverBothOpen /\ RatesAgree

\* begin_stream returns, with the codec or refused, and end_stream gives it back,
\* whatever chimes, probes, failures and slow readers are in the way.
CodecChangesHands ==
  /\ voice = "waiting" ~> voice \in {"idle", "streaming"}
  /\ voice = "ending" ~> codec_mutex = None

-----------------------------------------------------------------------------
(***************************************************************************)
(* What the comments say and the code does not do.                         *)
(***************************************************************************)

\* Outside a reclock the remembered rate is the one the codec is open at, or 0
\* (apply_rate's contract, lines 430-432): ensure_rate trusts it blindly.
\* Broken once the native reclock of end_stream has failed.
OpenRateHonest == rc.pc = "off" /\ open_rate_ # 0 => codec = open_rate_

\* Whatever takes the shared receive channel down is undone once the codec is
\* free (restore_rx_channel, lines 770-788).  Broken by a begin_stream that fails
\* with a capture open, as only end_stream restores the channel (lines 529-531):
\* a reader that outlasts the drains of both its reclocks, or two gain changes.
ReceiveRestored ==
  codec_mutex = None /\ "failed" \notin upsets /\ (\E h \in Handles : capturing[h]) => rx

\* A muted speaker keeps its amplifier off (set_enabled, lines 377-382).
\* Broken by a mute while begin_stream waits for the codec.
MutedIsQuiet == ~enabled_ => ~amp
=============================================================================
