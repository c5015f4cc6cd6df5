---------------------------- MODULE VoiceControl ----------------------------
(***************************************************************************)
(* The panel's own audio settings, main/jlp/audio/voice_control.cpp, and   *)
(* the widgets over them in main/jlp/widgets/widget_factory.cpp: the       *)
(* speaker and mic switches, the volume slider, the push-to-talk button.   *)
(* They keep their settings in NVS; a widget takes its state from          *)
(* VoiceControl when it is built and never again.                          *)
(*                                                                         *)
(* Everything is on the UI task; the power may go between what a gesture   *)
(* does at once and its write to NVS.                                      *)
(***************************************************************************)
EXTENDS Naturals

CONSTANTS
  Volumes,       \* levels of the volume slider
  FirstVolume,   \* volume_ of a fresh device
  Sliders,       \* volume sliders of a page: nothing limits them to one
  NoSlider,
  MaxPowerLoss   \* bound: power losses

ASSUME VolumeAssumption == FirstVolume \in Volumes /\ Volumes \subseteq 0 .. 100
ASSUME SliderAssumption == NoSlider \notin Sliders /\ MaxPowerLoss \in Nat

VARIABLES
  setting_of,  \* VoiceControl: speaker_muted_, mic_muted_ and volume_
  driver,      \* AudioDriver: enabled, and its volume
  stored,      \* NVS
  writing,     \* the keys a gesture has still to write
  switches,    \* CHECKED of the two switches
  knobs,       \* the sliders' values
  grabbed,     \* the slider under the finger
  talking,     \* the push-to-talk button is pressed
  ptt,         \* what the satellite was last told by set_ptt_held()
  losses,
  asked,       \* history: the settings the last gestures asked for
  torn,        \* history: keys whose last gesture did not get to NVS
  mover        \* history: the slider that set the level last on this page

voiceVars == <<setting_of, driver, stored, writing, switches, knobs, grabbed,
               talking, ptt, losses, asked, torn, mover>>

Keys == {"spk_muted", "mic_muted", "volume"}
Settings == [spk_muted : BOOLEAN, mic_muted : BOOLEAN, volume : Volumes]

\* The widgets of a page, as they are built.
Build(s) ==
  /\ switches' = [spk_muted |-> ~s.spk_muted, mic_muted |-> ~s.mic_muted]
  /\ knobs' = [k \in Sliders |-> s.volume]
  /\ grabbed' = NoSlider /\ talking' = FALSE /\ mover' = NoSlider

VoiceInit ==
  /\ setting_of = [spk_muted |-> FALSE, mic_muted |-> FALSE, volume |-> FirstVolume]
  /\ stored = setting_of /\ asked = setting_of
  /\ driver = [enabled |-> TRUE, volume |-> FirstVolume]
  /\ writing = {} /\ torn = {}
  /\ switches = [spk_muted |-> TRUE, mic_muted |-> TRUE]
  /\ knobs = [k \in Sliders |-> FirstVolume]
  /\ grabbed = NoSlider /\ talking = FALSE /\ mover = NoSlider
  /\ ptt = FALSE /\ losses = 0

\* The finger is free, and no gesture is at its write.
Idle == writing = {} /\ grabbed = NoSlider /\ ~talking

-----------------------------------------------------------------------------
\* set_speaker_muted() and set_mic_muted() from VALUE_CHANGED of their switch,
\* up to store_flag_set().
Flip(key) ==
  /\ Idle
  /\ switches' = [switches EXCEPT ![key] = ~@]
  /\ setting_of' = [setting_of EXCEPT ![key] = switches[key]]
  /\ asked' = [asked EXCEPT ![key] = switches[key]]
  /\ writing' = {key}
  /\ IF key = "spk_muted"
       THEN driver' = [driver EXCEPT !.enabled = ~switches[key]] /\ UNCHANGED ptt
       ELSE ptt' = (ptt /\ ~switches[key]) /\ UNCHANGED driver
  /\ UNCHANGED <<stored, knobs, grabbed, talking, losses, torn, mover>>

\* The finger comes down on a volume slider.
Grab(k) ==
  /\ Idle
  /\ grabbed' = k
  /\ UNCHANGED <<setting_of, driver, stored, writing, switches, knobs, talking, ptt,
                 losses, asked, torn, mover>>

\* VALUE_CHANGED of a volume slider: heard at once, not written.
Sweep(k, v) ==
  /\ grabbed = k
  /\ v # knobs[k]
  /\ mover' = k
  /\ knobs' = [knobs EXCEPT ![k] = v]
  /\ setting_of' = [setting_of EXCEPT !.volume = v]
  /\ driver' = [driver EXCEPT !.volume = v]
  /\ UNCHANGED <<stored, writing, switches, grabbed, talking, ptt, losses, asked, torn>>

\* RELEASED or PRESS_LOST: up to store_u8_set().
CommitVolume ==
  /\ grabbed # NoSlider
  /\ grabbed' = NoSlider /\ mover' = grabbed
  /\ setting_of' = [setting_of EXCEPT !.volume = knobs[grabbed]]
  /\ driver' = [driver EXCEPT !.volume = knobs[grabbed]]
  /\ asked' = [asked EXCEPT !.volume = knobs[grabbed]]
  /\ writing' = {"volume"}
  /\ UNCHANGED <<stored, switches, knobs, talking, ptt, losses, torn>>

\* store_flag_set(), store_u8_set(): a write that fails is a line in the log.
Store(key) ==
  /\ key \in writing
  /\ \/ /\ stored' = [stored EXCEPT ![key] = setting_of[key]]
        /\ torn' = torn \ {key}
     \/ torn' = torn \cup {key} /\ UNCHANGED stored
  /\ writing' = writing \ {key}
  /\ UNCHANGED <<setting_of, driver, switches, knobs, grabbed, talking, ptt, losses, asked, mover>>

\* PRESSED of the push-to-talk button: a muted mic ignores it.
TalkPressed ==
  /\ Idle
  /\ talking' = TRUE
  /\ ptt' = (ptt \/ ~setting_of.mic_muted)
  /\ UNCHANGED <<setting_of, driver, stored, writing, switches, knobs, grabbed, losses, asked, torn, mover>>

\* RELEASED or PRESS_LOST.
TalkReleased ==
  /\ talking
  /\ talking' = FALSE /\ ptt' = FALSE
  /\ UNCHANGED <<setting_of, driver, stored, writing, switches, knobs, grabbed, losses, asked, torn, mover>>

\* A layout swap: the old widgets go without another event but DELETE, where
\* the push-to-talk button lets go.
NewPage ==
  /\ writing = {}
  /\ Build(setting_of)
  /\ ptt' = FALSE
  /\ torn' = IF setting_of.volume = asked.volume THEN torn ELSE torn \cup {"volume"}
  /\ UNCHANGED <<setting_of, driver, stored, writing, losses, asked>>

\* The power goes and comes back: init(), and a page.
PowerLoss ==
  /\ losses < MaxPowerLoss
  /\ losses' = losses + 1
  /\ setting_of' = stored
  /\ driver' = [enabled |-> ~stored.spk_muted, volume |-> stored.volume]
  /\ Build(stored)
  /\ ptt' = FALSE
  /\ torn' = torn \cup writing
  /\ writing' = {}
  /\ UNCHANGED <<stored, asked>>

VoiceNext ==
  \/ \E key \in {"spk_muted", "mic_muted"} : Flip(key)
  \/ \E k \in Sliders : Grab(k) \/ \E v \in Volumes : Sweep(k, v)
  \/ CommitVolume
  \/ \E key \in Keys : Store(key)
  \/ TalkPressed \/ TalkReleased
  \/ NewPage
  \/ PowerLoss

VoiceSpec == VoiceInit /\ [][VoiceNext]_voiceVars

-----------------------------------------------------------------------------
(***************************************************************************)
(* Properties.                                                             *)
(***************************************************************************)

VoiceTypeOK ==
  /\ {setting_of, stored, asked} \subseteq Settings
  /\ driver \in [enabled : BOOLEAN, volume : Volumes]
  /\ writing \subseteq Keys /\ torn \subseteq Keys
  /\ switches \in [{"spk_muted", "mic_muted"} -> BOOLEAN]
  /\ knobs \in [Sliders -> Volumes]
  /\ {grabbed, mover} \subseteq Sliders \cup {NoSlider}
  /\ talking \in BOOLEAN /\ ptt \in BOOLEAN

\* Through pages and power losses a setting is what the last gesture asked
\* for, and so is what the next boot restores, unless that gesture did not get
\* to NVS: its write failed, the power went, or the page went under the drag.
SettingsSurvive ==
  \A key \in Keys \ (torn \cup writing) :
    /\ stored[key] = asked[key]
    /\ grabbed = NoSlider \/ key # "volume" => setting_of[key] = asked[key]

\* The satellite hears push-to-talk only under a finger, never while muted.
TalkNeedsFinger == ptt => talking /\ ~setting_of.mic_muted

\* What the page shows and the driver does is what is set; of two sliders the
\* one used last shows the level.
WidgetsAgree ==
  /\ switches = [key \in {"spk_muted", "mic_muted"} |-> ~setting_of[key]]
  /\ driver = [enabled |-> ~setting_of.spk_muted, volume |-> setting_of.volume]
  /\ \A k \in Sliders : mover \in {NoSlider, k} => knobs[k] = setting_of.volume

\* In every state the types are right, settings survive, push-to-talk has its
\* finger and the widgets agree.
VoiceInv == VoiceTypeOK /\ SettingsSurvive /\ TalkNeedsFinger /\ WidgetsAgree

-----------------------------------------------------------------------------
(***************************************************************************)
(* What the comments say and the code does not do.                         *)
(***************************************************************************)

\* "a helm turned down before a reboot should not come back at the driver
\* default" (voice_control.cpp:86-87), also when a page goes under the drag.
VolumeSurvives ==
  [][losses' > losses /\ writing = {} /\ grabbed = NoSlider
       => setting_of'.volume = setting_of.volume]_voiceVars
=============================================================================
