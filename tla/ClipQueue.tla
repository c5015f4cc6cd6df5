----------------------------- MODULE ClipQueue -----------------------------
(***************************************************************************)
(* The clip queue of components/cockpit_hal/src/waveshare_audio.cpp.       *)
(* play_pcm (a chime, disposable) and play_cue (the wake feedback, not to  *)
(* be dropped for a chime) append to a FreeRTOS queue without blocking;    *)
(* the audio task takes one clip at a time and plays it if it gets the     *)
(* codec in time.  Each queue call is atomic, a sequence of them is not:   *)
(* a full queue makes a cue receive, send and send again, and the chimes   *)
(* of the UI and HTTP tasks and the audio task run in between.             *)
(***************************************************************************)
EXTENDS Naturals, Sequences, SequencesExt

CONSTANTS
  Depth,         \* kQueueDepth
  MaxClips       \* bound: clips enqueued in a behaviour

Clips == 1 .. MaxClips
NoClip == 0

ASSUME SizesAssumption == Depth \in Nat \ {0} /\ MaxClips \in Nat

VARIABLES
  queue,      \* the clips queued, oldest first
  cues,       \* the clips that are cues
  fate,       \* where each clip is, or how it ended
  caller,     \* the cue caller's place in enqueue()
  ours, old,  \* its clip and the one it received back
  playing,    \* the clip the audio task holds
  replying  \* a spoken reply holds the codec

clipVars == <<queue, cues, fate, caller, ours, old, playing, replying>>

Fates == {"new", "held", "queued", "playing", "played", "freed", "lost"}

ClipTypeOK ==
  /\ queue \in Seq(Clips) /\ Len(queue) <= Depth
  /\ cues \subseteq Clips
  /\ fate \in [Clips -> Fates]
  /\ caller \in {"idle", "evict", "resend", "send"}
  /\ {ours, old, playing} \subseteq Clips \cup {NoClip}
  /\ replying \in BOOLEAN

ClipInit ==
  /\ queue = <<>> /\ cues = {} /\ fate = [c \in Clips |-> "new"]
  /\ caller = "idle" /\ ours = NoClip /\ old = NoClip
  /\ playing = NoClip /\ replying = FALSE

Room == Len(queue) < Depth

\* The lowest clip not used yet.
Fresh(c) == fate[c] = "new" /\ \A d \in 1 .. c - 1 : fate[d] # "new"

\* xQueueSend(queue_, c, 0): append, or fail at once with the given fate.
Send(c, failed) ==
  /\ queue' = IF Room THEN Append(queue, c) ELSE queue
  /\ fate' = [fate EXCEPT ![c] = IF Room THEN "queued" ELSE failed]

\* play_pcm, by the UI or an HTTP task at any moment: a chime that finds the
\* queue full is freed.
Chime(c) ==
  /\ Fresh(c)
  /\ ~replying
  /\ Send(c, "freed")
  /\ UNCHANGED <<cues, caller, ours, old, playing, replying>>

\* play_cue: a cue that finds the queue full goes on to evict.
Cue(c) ==
  /\ caller = "idle"
  /\ Fresh(c)
  /\ ~replying
  /\ cues' = cues \cup {c}
  /\ Send(c, "held")
  /\ caller' = IF Room THEN "idle" ELSE "evict"
  /\ ours' = IF Room THEN NoClip ELSE c
  /\ UNCHANGED <<old, playing, replying>>

\* Mutant: the oldest clip is evicted whatever it is.
CueEvictAny ==
  /\ caller = "evict"
  /\ caller' = "send"
  /\ \/ queue = <<>> /\ UNCHANGED <<queue, fate>>
     \/ /\ queue # <<>>
        /\ queue' = Tail(queue)
        /\ fate' = [fate EXCEPT ![Head(queue)] = "freed"]
  /\ UNCHANGED <<cues, ours, old, playing, replying>>

\* xQueueReceive: the oldest clip comes out; a chime is freed, a cue is kept.
CueEvict ==
  /\ caller = "evict"
  /\ \/ /\ queue = <<>>
        /\ caller' = "send"
        /\ UNCHANGED <<queue, fate, old>>
     \/ /\ queue # <<>>
        /\ queue' = Tail(queue)
        /\ \/ /\ Head(queue) \in cues
              /\ caller' = "resend"
              /\ old' = Head(queue)
              /\ fate' = [fate EXCEPT ![Head(queue)] = "held"]
           \/ /\ Head(queue) \notin cues
              /\ caller' = "send"
              /\ fate' = [fate EXCEPT ![Head(queue)] = "freed"]
              /\ UNCHANGED old
  /\ UNCHANGED <<cues, ours, playing, replying>>

\* The kept cue is sent again, its result unread; the new one is dropped.
CueResend ==
  /\ caller = "resend"
  /\ queue' = IF Room THEN Append(queue, old) ELSE queue
  /\ fate' = [fate EXCEPT ![old] = IF Room THEN "queued" ELSE "lost", ![ours] = "freed"]
  /\ caller' = "idle" /\ ours' = NoClip /\ old' = NoClip
  /\ UNCHANGED <<cues, playing, replying>>

\* The cue takes the place it made, if it is still there.
CueSendAgain ==
  /\ caller = "send"
  /\ Send(ours, "freed")
  /\ caller' = "idle" /\ ours' = NoClip
  /\ UNCHANGED <<cues, old, playing, replying>>

\* Mutant: the audio task takes the newest clip.
TakeNewest ==
  /\ playing = NoClip
  /\ queue # <<>>
  /\ playing' = Last(queue)
  /\ queue' = Front(queue)
  /\ fate' = [fate EXCEPT ![Last(queue)] = "playing"]
  /\ UNCHANGED <<cues, caller, ours, old, replying>>

\* The audio task takes the oldest clip ...
Take ==
  /\ playing = NoClip
  /\ queue # <<>>
  /\ playing' = Head(queue)
  /\ queue' = Tail(queue)
  /\ fate' = [fate EXCEPT ![Head(queue)] = "playing"]
  /\ UNCHANGED <<cues, caller, ours, old, replying>>

\* ... and plays it, or gives it up when a reply holds the codec too long
\* (50 ms for a chime, 400 ms for a cue).
Play ==
  /\ playing # NoClip
  /\ fate' = [fate EXCEPT ![playing] = IF replying THEN "freed" ELSE "played"]
  /\ playing' = NoClip
  /\ UNCHANGED <<queue, cues, caller, ours, old, replying>>

\* begin_stream and end_stream, as far as the queue is concerned.
Reply ==
  /\ replying' = ~replying
  /\ UNCHANGED <<queue, cues, fate, caller, ours, old, playing>>

ClipNext ==
  \/ \E c \in Clips : Chime(c) \/ Cue(c)
  \/ CueEvict \/ CueResend \/ CueSendAgain
  \/ Take \/ Play \/ Reply

ClipSpec == ClipInit /\ [][ClipNext]_clipVars

-----------------------------------------------------------------------------
(***************************************************************************)
(* Properties.                                                             *)
(***************************************************************************)

\* Every clip is exactly where its fate says: a buffer in the queue or in a
\* task's hands is not freed, and none is in two places (malloc and free of
\* enqueue() and run()).
BuffersAccounted ==
  /\ \A i, j \in DOMAIN queue : queue[i] = queue[j] => i = j
  /\ \A c \in Clips :
       /\ fate[c] = "queued" <=> c \in ToSet(queue)
       /\ fate[c] = "held" <=> c \in {ours, old}
       /\ fate[c] = "playing" <=> c = playing

\* Chimes sound in the order they were raised.
ChimesInOrder ==
  \A c, d \in Clips \ cues :
    c < d /\ fate[d] \in {"playing", "played"} => fate[c] # "queued"

\* In every state the types are right, every clip's buffer is in one place, and
\* no chime has overtaken an earlier one.
ClipInv == ClipTypeOK /\ BuffersAccounted /\ ChimesInOrder

\* An earlier cue has, or had, the place in the queue that cue c asked for.
EarlierCueHas(c) ==
  \E d \in cues : d < c /\ fate'[d] \in {"queued", "playing", "played"}

\* A chime raised after cue c took the last place, the one the eviction made.
TakenByLaterChime(c) ==
  queue # <<>> /\ Last(queue) \notin cues /\ Last(queue) > c

\* The cue caller gives up a cue, its own or the one it received back, only to an
\* earlier cue, or to a chime that another task raised between the eviction and
\* the second send: no other clip ever takes a cue's place.
CueYields ==
  [][\A c \in cues : fate[c] = "held" /\ fate'[c] \in {"freed", "lost"} =>
       EarlierCueHas(c) \/ TakenByLaterChime(c)]_clipVars

\* A cue that is queued leaves the queue to be played or to be sent again, and a
\* cue that is played is given up only to a reply that holds the codec.
QueuedCueIsPlayed ==
  [][\A c \in cues : fate[c] \in {"queued", "playing"} =>
       /\ fate'[c] # "lost"
       /\ fate'[c] = "freed" => fate[c] = "playing" /\ replying]_clipVars

\* A cue sounds, whatever tasks raise chimes meanwhile: it gives way to earlier
\* cues and to a chime that crosses its own eviction, and once it is queued only a
\* reply that holds the codec too long takes it.
CuesSound == CueYields /\ QueuedCueIsPlayed

-----------------------------------------------------------------------------
(***************************************************************************)
(* What a comment says and the code does not do.                           *)
(***************************************************************************)

\* A burst of chimes is never what silences a cue: a cue is dropped for an
\* earlier cue only (enqueue(), lines 354-357).  Broken by a chime of another task
\* that takes the place the cue's eviction has just made.
CueYieldsOnlyToCue ==
  [][\A c \in cues :
       fate[c] = "held" /\ fate'[c] \in {"freed", "lost"} => EarlierCueHas(c)]_clipVars
=============================================================================
