-------------------------- MODULE AudioPortProofs --------------------------
(***************************************************************************)
(* Proofs about ClipQueue and AudioPort for any depth of the queue, any    *)
(* number of clips and any consumers.                                      *)
(***************************************************************************)
EXTENDS MCAudioPort, SequenceTheorems, FiniteSetTheorems, TLAPS

-----------------------------------------------------------------------------
(* Queues without repetition, increasing on the elements in N. *)
NoTwice(q) == \A i, j \in 1 .. Len(q) : q[i] = q[j] => i = j
Rising(q, N) ==
  \A i, j \in 1 .. Len(q) : i < j /\ q[i] \in N /\ q[j] \in N => q[i] < q[j]

LEMMA SetOfAppended ==
  ASSUME NEW S, NEW q \in Seq(S), NEW e \in S
  PROVE  ToSet(Append(q, e)) = ToSet(q) \cup {e}
<1> DEFINE r == Append(q, e)
<1>1. /\ Len(q) \in Nat /\ Len(r) = Len(q) + 1 /\ r[Len(r)] = e
      /\ \A i \in 1 .. Len(q) : r[i] = q[i]
      /\ DOMAIN q = 1 .. Len(q) /\ DOMAIN r = 1 .. Len(r)
  OBVIOUS
<1> HIDE DEF r
<1>2. 1 .. Len(r) = (1 .. Len(q)) \cup {Len(r)}
  BY <1>1
<1>3. ToSet(r) = ToSet(q) \cup {e}
  BY <1>1, <1>2 DEF ToSet
<1> QED
  BY <1>3 DEF r

LEMMA QueueAppended ==
  ASSUME NEW S, NEW q \in Seq(S), NEW e \in S, e \notin ToSet(q), NoTwice(q),
         NEW r, r = Append(q, e)
  PROVE  /\ r \in Seq(S) /\ Len(r) = Len(q) + 1
         /\ ToSet(r) = ToSet(q) \cup {e}
         /\ NoTwice(r)
<1>1. /\ Len(q) \in Nat /\ Len(r) = Len(q) + 1 /\ r[Len(r)] = e /\ r \in Seq(S)
      /\ \A i \in 1 .. Len(q) : r[i] = q[i]
      /\ DOMAIN q = 1 .. Len(q) /\ DOMAIN r = 1 .. Len(r)
  OBVIOUS
<1>2. 1 .. Len(r) = (1 .. Len(q)) \cup {Len(r)}
  BY <1>1
<1>3. ToSet(r) = ToSet(q) \cup {e}
  BY SetOfAppended
<1>4. \A i \in 1 .. Len(q) : q[i] # e
  BY <1>1 DEF ToSet
<1>5. NoTwice(r)
  BY <1>1, <1>2, <1>4 DEF NoTwice
<1> QED
  BY <1>1, <1>3, <1>5

LEMMA QueueRises ==
  ASSUME NEW S, NEW q \in Seq(S), NEW e \in S, NEW N, Rising(q, N),
         e \in N => \A x \in ToSet(q) \cap N : x < e,
         NEW r, r = Append(q, e)
  PROVE  Rising(r, N)
<1>1. /\ Len(q) \in Nat /\ Len(r) = Len(q) + 1 /\ r[Len(r)] = e
      /\ \A i \in 1 .. Len(q) : r[i] = q[i]
      /\ DOMAIN q = 1 .. Len(q)
  OBVIOUS
<1>2. \A i \in 1 .. Len(q) : q[i] \in ToSet(q)
  BY <1>1 DEF ToSet
<1> SUFFICES ASSUME NEW i \in 1 .. Len(r), NEW j \in 1 .. Len(r), i < j, r[i] \in N, r[j] \in N
             PROVE  r[i] < r[j]
  BY DEF Rising
<1>3. i \in 1 .. Len(q)
  BY <1>1
<1>4. CASE j \in 1 .. Len(q)
  BY <1>1, <1>3, <1>4 DEF Rising
<1>5. CASE j \notin 1 .. Len(q)
  <2>1. j = Len(r)
    BY <1>1, <1>5
  <2> QED
    BY <1>1, <1>2, <1>3, <2>1
<1> QED
  BY <1>4, <1>5

LEMMA QueueTaken ==
  ASSUME NEW S, NEW q \in Seq(S), q # <<>>, NoTwice(q), NEW r, r = Tail(q), NEW e, e = Head(q)
  PROVE  /\ r \in Seq(S) /\ Len(r) = Len(q) - 1 /\ Len(q) \in Nat \ {0}
         /\ e \in S /\ e \in ToSet(q)
         /\ ToSet(r) = ToSet(q) \ {e}
         /\ NoTwice(r)
<1>1. /\ Len(q) \in Nat \ {0} /\ Len(r) = Len(q) - 1 /\ e = q[1] /\ e \in S
      /\ r \in Seq(S)
      /\ \A i \in 1 .. Len(r) : r[i] = q[i + 1] /\ i + 1 \in 1 .. Len(q)
      /\ DOMAIN q = 1 .. Len(q) /\ DOMAIN r = 1 .. Len(r)
  OBVIOUS
<1>2. \A j \in 2 .. Len(q) : j - 1 \in 1 .. Len(r) /\ q[j] = r[j - 1]
  BY <1>1
<1>3. \A i \in 1 .. Len(r) : r[i] # e
  <2> SUFFICES ASSUME NEW i \in 1 .. Len(r), r[i] = e
               PROVE  FALSE
    OBVIOUS
  <2>1. q[i + 1] = q[1] /\ i + 1 \in 1 .. Len(q) /\ 1 \in 1 .. Len(q)
    BY <1>1
  <2>2. i + 1 = 1
    BY <2>1 DEF NoTwice
  <2> QED
    BY <2>2
<1>4. ToSet(r) \subseteq ToSet(q) \ {e}
  BY <1>1, <1>3 DEF ToSet
<1>5. ToSet(q) \ {e} \subseteq ToSet(r)
  <2> SUFFICES ASSUME NEW j \in 1 .. Len(q), q[j] # e
               PROVE  q[j] \in ToSet(r)
    BY <1>1 DEF ToSet
  <2>1. j \in 2 .. Len(q)
    BY <1>1
  <2> QED
    BY <1>1, <1>2, <2>1 DEF ToSet
<1>6. NoTwice(r)
  <2> SUFFICES ASSUME NEW i \in 1 .. Len(r), NEW j \in 1 .. Len(r), r[i] = r[j]
               PROVE  i = j
    BY DEF NoTwice
  <2>1. i + 1 = j + 1
    BY <1>1 DEF NoTwice
  <2> QED
    BY <2>1
<1>7. e \in ToSet(q)
  BY <1>1 DEF ToSet
<1> QED
  BY <1>1, <1>4, <1>5, <1>6, <1>7

LEMMA QueueStillRises ==
  ASSUME NEW S, NEW q \in Seq(S), q # <<>>, NEW N, Rising(q, N),
         NEW r, r = Tail(q), NEW e, e = Head(q)
  PROVE  /\ Rising(r, N)
         /\ e \in N => \A x \in ToSet(r) \cap N : e < x
<1>1. /\ Len(q) \in Nat \ {0} /\ Len(r) = Len(q) - 1 /\ e = q[1]
      /\ \A i \in 1 .. Len(r) : r[i] = q[i + 1] /\ i + 1 \in 1 .. Len(q)
      /\ DOMAIN r = 1 .. Len(r)
  OBVIOUS
<1>2. Rising(r, N)
  <2> SUFFICES ASSUME NEW i \in 1 .. Len(r), NEW j \in 1 .. Len(r), i < j, r[i] \in N, r[j] \in N
               PROVE  r[i] < r[j]
    BY DEF Rising
  <2>1. i + 1 < j + 1
    OBVIOUS
  <2> QED
    BY <1>1, <2>1 DEF Rising
<1>3. ASSUME e \in N, NEW x \in ToSet(r) \cap N
      PROVE  e < x
  <2>1. PICK i \in 1 .. Len(r) : x = r[i]
    BY <1>1 DEF ToSet
  <2>2. 1 < i + 1 /\ 1 \in 1 .. Len(q)
    BY <1>1
  <2> QED
    BY <1>1, <1>3, <2>1, <2>2 DEF Rising
<1> QED
  BY <1>2, <1>3

-----------------------------------------------------------------------------
(* ClipQueue. *)

(* Clips are numbered in the order they are raised, a cue is one from then *)
(* on, and the chimes in the queue stand in that order.                    *)
UsedInOrder ==
  /\ \A c, d \in Clips : d < c /\ fate[c] # "new" => fate[d] # "new"
  /\ \A c \in cues : fate[c] # "new"
  /\ Rising(queue, Clips \ cues)

(* What the cue caller holds at each of its places. *)
CallerHolds ==
  /\ caller = "idle" <=> ours = NoClip
  /\ caller # "idle" => ours \in cues
  /\ caller = "resend" => old \in cues /\ old # ours
  /\ caller # "resend" => old = NoClip

(* The cue on its way is the latest cue, and the place it has made is      *)
(* there until a chime raised after it takes it.                           *)
PlaceKept ==
  caller # "idle" =>
    /\ \A d \in cues : d <= ours
    /\ caller \in {"send", "resend"} => Room \/ TakenByLaterChime(ours)

ClipIInv == ClipInv /\ UsedInOrder /\ CallerHolds /\ PlaceKept

(* What an action needs of the state before it. *)
LEMMA ClipFacts ==
  ASSUME ClipIInv
  PROVE  /\ queue \in Seq(Clips) /\ Len(queue) \in Nat /\ Len(queue) <= Depth
         /\ NoTwice(queue)
         /\ fate \in [Clips -> Fates] /\ cues \subseteq Clips /\ Clips \subseteq Nat
         /\ NoClip \notin Clips /\ Depth \in Nat \ {0}
         /\ \A c \in Clips : /\ fate[c] = "queued" <=> c \in ToSet(queue)
                             /\ fate[c] = "held" <=> c \in {ours, old}
                             /\ fate[c] = "playing" <=> c = playing
<1>1. queue \in Seq(Clips) /\ DOMAIN queue = 1 .. Len(queue) /\ Len(queue) \in Nat
  BY DEF ClipIInv, ClipInv, ClipTypeOK
<1>2. NoTwice(queue)
  BY <1>1 DEF ClipIInv, ClipInv, BuffersAccounted, NoTwice
<1>3. Clips \subseteq Nat /\ NoClip \notin Clips
  BY DEF Clips, NoClip
<1> QED
  BY <1>1, <1>2, <1>3, SizesAssumption DEF ClipIInv, ClipInv, BuffersAccounted, ClipTypeOK

(* xQueueSend of a clip that is not queued. *)
LEMMA Sent ==
  ASSUME ClipIInv, NEW c \in Clips, c \notin ToSet(queue), NEW failed \in Fates,
         Send(c, failed)
  PROVE  /\ queue' \in Seq(Clips) /\ Len(queue') <= Depth /\ NoTwice(queue')
         /\ fate' \in [Clips -> Fates]
         /\ fate'[c] = IF Room THEN "queued" ELSE failed
         /\ c \in ToSet(queue') <=> Room
         /\ \A d \in Clips \ {c} : /\ fate'[d] = fate[d]
                                   /\ d \in ToSet(queue') <=> d \in ToSet(queue)
         /\ ToSet(queue') \subseteq ToSet(queue) \cup {c}
<1> DEFINE f == IF Room THEN "queued" ELSE failed
<1>1. f \in Fates
  BY DEF Fates
<1>2. fate' = [fate EXCEPT ![c] = f]
  BY DEF Send
<1> HIDE DEF f
<1>3. /\ fate' \in [Clips -> Fates] /\ fate'[c] = f
      /\ \A d \in Clips \ {c} : fate'[d] = fate[d]
  BY <1>1, <1>2, ClipFacts
<1>4. CASE Room
  <2>1. queue' = Append(queue, c)
    BY <1>4 DEF Send
  <2>2. /\ queue' \in Seq(Clips) /\ Len(queue') = Len(queue) + 1 /\ NoTwice(queue')
        /\ ToSet(queue') = ToSet(queue) \cup {c}
    <3>1. queue \in Seq(Clips) /\ NoTwice(queue)
      BY ClipFacts
    <3>2. queue' \in Seq(Clips) /\ Len(queue') = Len(queue) + 1
      BY <2>1, <3>1, QueueAppended
    <3>3. NoTwice(queue')
      BY <2>1, <3>1, QueueAppended
    <3>4. ToSet(queue') = ToSet(queue) \cup {c}
      BY <2>1, <3>1, SetOfAppended
    <3> QED
      BY <3>2, <3>3, <3>4
  <2>3. Len(queue') <= Depth
    BY <1>4, <2>2, ClipFacts DEF Room
  <2> QED
    BY <1>3, <1>4, <2>2, <2>3 DEF f
<1>5. CASE ~Room
  <2>1. queue' = queue
    BY <1>5 DEF Send
  <2> QED
    BY <1>3, <1>5, <2>1, ClipFacts DEF f
<1> QED
  BY <1>4, <1>5

LEMMA SentRises ==
  ASSUME ClipIInv, NEW c \in Clips, NEW failed, Send(c, failed), NEW N,
         Rising(queue, N), c \in N => \A x \in ToSet(queue) \cap N : x < c
  PROVE  Rising(queue', N)
<1>1. CASE Room
  <2>1. queue' = Append(queue, c)
    BY <1>1 DEF Send
  <2> QED
    BY <2>1, ClipFacts, QueueRises
<1>2. CASE ~Room
  BY <1>2 DEF Send
<1> QED
  BY <1>1, <1>2

(* The head of the queue is taken out and given another fate.              *)
LEMMA Received ==
  ASSUME ClipIInv, queue # <<>>, NEW e, e = Head(queue), queue' = Tail(queue),
         NEW f \in Fates, fate' = [fate EXCEPT ![e] = f]
  PROVE  /\ queue' \in Seq(Clips) /\ Len(queue') < Depth /\ Len(queue') <= Depth
         /\ NoTwice(queue')
         /\ e \in Clips /\ fate[e] = "queued" /\ e \in ToSet(queue) /\ e \notin ToSet(queue')
         /\ fate' \in [Clips -> Fates] /\ fate'[e] = f
         /\ \A d \in Clips \ {e} : /\ fate'[d] = fate[d]
                                   /\ d \in ToSet(queue') <=> d \in ToSet(queue)
         /\ \A N : Rising(queue, N) =>
                     Rising(queue', N) /\ (e \in N => \A x \in ToSet(queue') \cap N : e < x)
<1>1. /\ queue' \in Seq(Clips) /\ Len(queue') = Len(queue) - 1 /\ Len(queue) \in Nat \ {0}
      /\ e \in Clips /\ e \in ToSet(queue) /\ ToSet(queue') = ToSet(queue) \ {e}
      /\ NoTwice(queue')
  BY ClipFacts, QueueTaken
<1>2. Len(queue') < Depth /\ Len(queue') <= Depth
  BY <1>1, ClipFacts
<1>3. fate' \in [Clips -> Fates] /\ fate'[e] = f /\ \A d \in Clips \ {e} : fate'[d] = fate[d]
  BY <1>1, ClipFacts
<1>4. fate[e] = "queued"
  BY <1>1, ClipFacts
<1>5. ASSUME NEW N, Rising(queue, N)
      PROVE  Rising(queue', N) /\ (e \in N => \A x \in ToSet(queue') \cap N : e < x)
  BY <1>5, ClipFacts, QueueStillRises
<1> QED
  BY <1>1, <1>2, <1>3, <1>4, <1>5

LEMMA ClipInitially == ClipInit => ClipIInv
<1> SUFFICES ASSUME ClipInit
             PROVE  ClipIInv
  OBVIOUS
<1>1. /\ queue = <<>> /\ cues = {} /\ caller = "idle" /\ ours = NoClip /\ old = NoClip
      /\ playing = NoClip /\ replying = FALSE /\ fate = [c \in Clips |-> "new"]
  BY DEF ClipInit
<1>2. \A S : <<>> \in Seq(S)
  OBVIOUS
<1>3. queue \in Seq(Clips) /\ Len(queue) = 0 /\ DOMAIN queue = {} /\ ToSet(queue) = {}
  BY <1>1, <1>2 DEF ToSet
<1>4. fate \in [Clips -> Fates] /\ \A c \in Clips : fate[c] = "new"
  BY <1>1 DEF Fates
<1>5. ClipTypeOK
  <2>1. replying \in BOOLEAN /\ cues \subseteq Clips
    BY <1>1
  <2>2. {ours, old, playing} \subseteq Clips \cup {NoClip} /\ caller = "idle"
    BY <1>1
  <2> QED
    BY <1>3, <1>4, <2>1, <2>2, SizesAssumption DEF ClipTypeOK
<1>6. BuffersAccounted
  BY <1>1, <1>3, <1>4 DEF BuffersAccounted, Clips, NoClip
<1>7. ChimesInOrder /\ UsedInOrder
  BY <1>1, <1>3, <1>4 DEF ChimesInOrder, UsedInOrder, Rising
<1>8. CallerHolds /\ PlaceKept
  BY <1>1 DEF CallerHolds, PlaceKept
<1> QED
  BY <1>5, <1>6, <1>7, <1>8 DEF ClipIInv, ClipInv

LEMMA ChimeKeeps ==
  ASSUME ClipIInv, NEW c \in Clips, Chime(c)
  PROVE  ClipIInv'
<1>1. /\ Fresh(c) /\ Send(c, "freed")
      /\ UNCHANGED <<cues, caller, ours, old, playing, replying>>
  BY DEF Chime
<1>2. fate[c] = "new" /\ c \notin ToSet(queue) /\ c \notin cues /\ c \notin {ours, old, playing}
  BY <1>1, ClipFacts DEF Fresh, ClipIInv, UsedInOrder
<1>3. \A d \in Clips : fate[d] # "new" => d < c
  BY <1>2, ClipFacts DEF ClipIInv, UsedInOrder
<1>4. "freed" \in Fates
  BY DEF Fates
<1>5. /\ queue' \in Seq(Clips) /\ Len(queue') <= Depth /\ NoTwice(queue')
      /\ fate' \in [Clips -> Fates]
      /\ fate'[c] = IF Room THEN "queued" ELSE "freed"
      /\ c \in ToSet(queue') <=> Room
      /\ \A d \in Clips \ {c} : /\ fate'[d] = fate[d]
                                /\ d \in ToSet(queue') <=> d \in ToSet(queue)
  BY <1>1, <1>2, <1>4, Sent
<1>6. ClipTypeOK'
  BY <1>1, <1>5 DEF ClipIInv, ClipInv, ClipTypeOK
<1>7. BuffersAccounted'
  <2>1. DOMAIN queue' = 1 .. Len(queue')
    BY <1>5
  <2> QED
    BY <1>1, <1>2, <1>5, <2>1, ClipFacts DEF NoTwice, BuffersAccounted
<1>8. ChimesInOrder'
  <2> SUFFICES ASSUME NEW a \in Clips \ cues, NEW d \in Clips \ cues, a < d,
                      fate'[d] \in {"playing", "played"}
               PROVE  fate'[a] # "queued"
    BY <1>1 DEF ChimesInOrder
  <2>1. d # c /\ fate[d] = fate'[d]
    BY <1>5
  <2>2. d < c /\ a # c
    BY <1>3, <2>1, ClipFacts
  <2> QED
    BY <1>5, <2>1, <2>2 DEF ClipIInv, ClipInv, ChimesInOrder
<1>9. UsedInOrder'
  <2>1. \A x \in ToSet(queue) : x \in Clips /\ x < c
    <3>1. \A x \in ToSet(queue) : x \in Clips
      BY ClipFacts DEF ToSet
    <3> QED
      BY <1>3, <3>1, ClipFacts
  <2>2. Rising(queue', Clips \ cues)
    BY <1>1, <2>1, SentRises DEF ClipIInv, UsedInOrder
  <2>3. ASSUME NEW a \in Clips, NEW d \in Clips, d < a, fate'[a] # "new"
        PROVE  fate'[d] # "new"
    <3>1. a = c => fate'[d] # "new"
      BY <1>1, <1>5, <2>3, ClipFacts DEF Fresh, Clips
    <3>2. a # c => fate[a] # "new" /\ fate[d] # "new"
      BY <1>5, <2>3 DEF ClipIInv, UsedInOrder
    <3> QED
      BY <1>2, <1>5, <3>1, <3>2
  <2>4. \A d \in cues : fate'[d] # "new"
    BY <1>2, <1>5, ClipFacts DEF ClipIInv, UsedInOrder
  <2> QED
    BY <1>1, <2>2, <2>3, <2>4 DEF UsedInOrder
<1>10. CallerHolds'
  BY <1>1 DEF ClipIInv, CallerHolds
<1>11. PlaceKept'
  <2> SUFFICES ASSUME caller # "idle"
               PROVE  /\ \A d \in cues : d <= ours
                      /\ caller \in {"send", "resend"} =>
                           Room' \/ (queue' # <<>> /\ Last(queue') \notin cues /\ Last(queue') > ours)
    BY <1>1 DEF PlaceKept, TakenByLaterChime
  <2>1. /\ \A d \in cues : d <= ours
        /\ caller \in {"send", "resend"} => Room \/ TakenByLaterChime(ours)
    BY DEF ClipIInv, PlaceKept
  <2>2. CASE Room
    <3>1. queue' = Append(queue, c)
      BY <1>1, <2>2 DEF Send
    <3>2. queue' # <<>> /\ Last(queue') = c
      BY <3>1, ClipFacts DEF Last
    <3>3. ours \in Clips /\ fate[ours] # "new"
      BY ClipFacts DEF ClipIInv, CallerHolds
    <3>4. c > ours
      BY <1>3, <3>3, ClipFacts
    <3> QED
      BY <1>2, <2>1, <3>2, <3>4
  <2>3. CASE ~Room
    BY <1>1, <2>1, <2>3 DEF Send, TakenByLaterChime
  <2> QED
    BY <2>2, <2>3
<1> QED
  BY <1>6, <1>7, <1>8, <1>9, <1>10, <1>11 DEF ClipIInv, ClipInv

LEMMA CueKeeps ==
  ASSUME ClipIInv, NEW c \in Clips, Cue(c)
  PROVE  ClipIInv'
<1>1. /\ Fresh(c) /\ Send(c, "held") /\ caller = "idle" /\ cues' = cues \cup {c}
      /\ caller' = IF Room THEN "idle" ELSE "evict"
      /\ ours' = IF Room THEN NoClip ELSE c
      /\ UNCHANGED <<old, playing, replying>>
  BY DEF Cue
<1>2. /\ fate[c] = "new" /\ c \notin ToSet(queue) /\ c \notin cues
      /\ c \notin {ours, old, playing}
      /\ ours = NoClip /\ old = NoClip
  BY <1>1, ClipFacts DEF Fresh, ClipIInv, UsedInOrder, CallerHolds
<1>3. \A d \in Clips : fate[d] # "new" => d < c
  BY <1>2, ClipFacts DEF ClipIInv, UsedInOrder
<1>4. "held" \in Fates
  BY DEF Fates
<1>5. /\ queue' \in Seq(Clips) /\ Len(queue') <= Depth /\ NoTwice(queue')
      /\ fate' \in [Clips -> Fates]
      /\ fate'[c] = IF Room THEN "queued" ELSE "held"
      /\ c \in ToSet(queue') <=> Room
      /\ \A d \in Clips \ {c} : /\ fate'[d] = fate[d]
                                /\ d \in ToSet(queue') <=> d \in ToSet(queue)
  BY <1>1, <1>2, <1>4, Sent
<1>6. ClipTypeOK'
  BY <1>1, <1>5 DEF ClipIInv, ClipInv, ClipTypeOK
<1>7. BuffersAccounted'
  <2>1. DOMAIN queue' = 1 .. Len(queue')
    BY <1>5
  <2>2. \A d \in Clips : /\ fate'[d] = "queued" <=> d \in ToSet(queue')
                         /\ fate'[d] = "held" <=> d \in {ours', old'}
                         /\ fate'[d] = "playing" <=> d = playing'
    BY <1>1, <1>2, <1>5, ClipFacts
  <2> QED
    BY <1>5, <2>1, <2>2 DEF NoTwice, BuffersAccounted
<1>8. ChimesInOrder'
  BY <1>1, <1>5 DEF ClipIInv, ClipInv, ChimesInOrder
<1>9. UsedInOrder'
  <2>1. Rising(queue, Clips \ cues')
    BY <1>1 DEF ClipIInv, UsedInOrder, Rising
  <2>2. Rising(queue', Clips \ cues')
    BY <1>1, <2>1, SentRises
  <2>3. ASSUME NEW a \in Clips, NEW d \in Clips, d < a, fate'[a] # "new"
        PROVE  fate'[d] # "new"
    <3>1. a = c => fate'[d] # "new"
      BY <1>1, <1>5, <2>3, ClipFacts DEF Fresh, Clips
    <3>2. a # c => fate[a] # "new" /\ fate[d] # "new"
      BY <1>5, <2>3 DEF ClipIInv, UsedInOrder
    <3> QED
      BY <1>2, <1>5, <3>1, <3>2
  <2>4. \A d \in cues' : fate'[d] # "new"
    BY <1>1, <1>2, <1>5, ClipFacts DEF ClipIInv, UsedInOrder
  <2> QED
    BY <1>1, <2>2, <2>3, <2>4 DEF UsedInOrder
<1>10. CallerHolds'
  BY <1>1, <1>2, ClipFacts DEF CallerHolds
<1>11. PlaceKept'
  <2>1. \A d \in cues : d <= c
    BY <1>3, ClipFacts DEF ClipIInv, UsedInOrder
  <2>2. caller' \notin {"send", "resend"} /\ (caller' # "idle" => ours' = c)
    BY <1>1
  <2>3. \A d \in cues' : d <= c
    BY <1>1, <2>1, ClipFacts
  <2> QED
    BY <2>2, <2>3 DEF PlaceKept
<1> QED
  BY <1>6, <1>7, <1>8, <1>9, <1>10, <1>11 DEF ClipIInv, ClipInv

(* What the conjuncts about the order of the clips become when no clip is  *)
(* raised and the queue stays in order.                                    *)
LEMMA OrderKept ==
  ASSUME ClipIInv, cues' = cues, NEW S \in SUBSET Clips,
         \A d \in Clips \ S : fate'[d] = fate[d],
         \A d \in S : fate[d] # "new" /\ fate'[d] # "new",
         Rising(queue, Clips \ cues) => Rising(queue', Clips \ cues)
  PROVE  UsedInOrder'
<1>1. \A d \in Clips : fate'[d] = "new" <=> fate[d] = "new"
  OBVIOUS
<1>2. /\ \A c, d \in Clips : d < c /\ fate[c] # "new" => fate[d] # "new"
      /\ \A c \in cues : fate[c] # "new"
      /\ Rising(queue, Clips \ cues)
  BY DEF ClipIInv, UsedInOrder
<1>3. \A c, d \in Clips : d < c /\ fate'[c] # "new" => fate'[d] # "new"
  BY <1>1, <1>2
<1>4. \A c \in cues : fate'[c] # "new"
  BY <1>1, <1>2, ClipFacts
<1> QED
  BY <1>2, <1>3, <1>4 DEF UsedInOrder

LEMMA CueEvictKeeps == ClipIInv /\ CueEvict => ClipIInv'
<1> SUFFICES ASSUME ClipIInv, CueEvict
             PROVE  ClipIInv'
  OBVIOUS
<1>1. caller = "evict" /\ UNCHANGED <<cues, ours, playing, replying>>
  BY DEF CueEvict
<1>2. ours \in cues /\ ours \in Clips /\ old = NoClip /\ fate[ours] = "held"
  BY <1>1, ClipFacts DEF ClipIInv, CallerHolds
<1>3. \A d \in cues : d <= ours
  BY <1>1 DEF ClipIInv, PlaceKept
<1>4. CASE queue = <<>>
  <2>1. caller' = "send" /\ UNCHANGED <<queue, fate, old>>
    BY <1>4 DEF CueEvict
  <2>2. ClipInv'
    BY <1>1, <2>1 DEF ClipIInv, ClipInv, ClipTypeOK, BuffersAccounted, ChimesInOrder
  <2>3. UsedInOrder' /\ CallerHolds'
    BY <1>1, <1>2, <2>1 DEF ClipIInv, UsedInOrder, CallerHolds
  <2>4. Room'
    BY <1>4, <2>1, SizesAssumption DEF Room
  <2>5. PlaceKept'
    BY <1>1, <1>3, <2>4 DEF PlaceKept
  <2> QED
    BY <2>2, <2>3, <2>5 DEF ClipIInv
<1>5. CASE queue # <<>>
  <2> DEFINE e == Head(queue)
             f == IF e \in cues THEN "held" ELSE "freed"
  <2>1. /\ queue' = Tail(queue)
        /\ fate' = [fate EXCEPT ![e] = f]
        /\ caller' = IF e \in cues THEN "resend" ELSE "send"
        /\ old' = IF e \in cues THEN e ELSE old
    BY <1>5 DEF CueEvict
  <2>2. f \in Fates
    BY DEF Fates
  <2>3. e = Head(queue) /\ f = IF e \in cues THEN "held" ELSE "freed"
    OBVIOUS
  <2> HIDE DEF e, f
  <2>4. /\ queue' \in Seq(Clips) /\ Len(queue') < Depth /\ Len(queue') <= Depth
        /\ NoTwice(queue')
        /\ e \in Clips /\ fate[e] = "queued" /\ e \in ToSet(queue) /\ e \notin ToSet(queue')
        /\ fate' \in [Clips -> Fates] /\ fate'[e] = f
        /\ \A d \in Clips \ {e} : /\ fate'[d] = fate[d]
                                  /\ d \in ToSet(queue') <=> d \in ToSet(queue)
        /\ Rising(queue, Clips \ cues) => Rising(queue', Clips \ cues)
    BY <1>5, <2>1, <2>2, <2>3, Received
  <2>5. e # ours /\ e # playing
    BY <1>2, <2>4, ClipFacts
  <2>6. ClipTypeOK'
    BY <1>1, <2>1, <2>4 DEF ClipIInv, ClipInv, ClipTypeOK
  <2>7. BuffersAccounted'
    <3>1. DOMAIN queue' = 1 .. Len(queue')
      BY <2>4
    <3>2. ASSUME NEW d \in Clips
          PROVE  /\ fate'[d] = "queued" <=> d \in ToSet(queue')
                 /\ fate'[d] = "held" <=> d \in {ours', old'}
                 /\ fate'[d] = "playing" <=> d = playing'
      <4>1. CASE d = e
        BY <1>1, <1>2, <2>1, <2>3, <2>4, <2>5, <4>1, ClipFacts
      <4>2. CASE d # e
        BY <1>1, <1>2, <2>1, <2>4, <4>2, ClipFacts
      <4> QED
        BY <4>1, <4>2
    <3> QED
      BY <2>4, <3>1, <3>2 DEF NoTwice, BuffersAccounted
  <2>8. ChimesInOrder'
    <3> SUFFICES ASSUME NEW a \in Clips \ cues, NEW d \in Clips \ cues, a < d,
                        fate'[d] \in {"playing", "played"}
                 PROVE  fate'[a] # "queued"
      BY <1>1 DEF ChimesInOrder
    <3>1. d # e /\ fate[d] = fate'[d] /\ (a # e => fate'[a] = fate[a])
      BY <2>3, <2>4
    <3> QED
      BY <2>3, <2>4, <3>1 DEF ClipIInv, ClipInv, ChimesInOrder
  <2>9. UsedInOrder'
    <3>1. {e} \in SUBSET Clips /\ \A d \in {e} : fate[d] # "new" /\ fate'[d] # "new"
      BY <2>3, <2>4
    <3> QED
      BY <1>1, <2>4, <3>1, OrderKept
  <2>10. CallerHolds'
    BY <1>1, <1>2, <2>1, <2>5, ClipFacts DEF CallerHolds
  <2>11. Room'
    BY <2>4 DEF Room
  <2>12. PlaceKept'
    BY <1>1, <1>3, <2>11 DEF PlaceKept
  <2> QED
    BY <2>6, <2>7, <2>8, <2>9, <2>10, <2>12 DEF ClipIInv, ClipInv
<1> QED
  BY <1>4, <1>5

(* The fates of the two clips of a resend.                                 *)
LEMMA ResentFates ==
  ASSUME ClipIInv, CueResend
  PROVE  /\ caller = "resend"
         /\ ours \in Clips /\ old \in Clips /\ ours # old /\ ours \in cues /\ old \in cues
         /\ fate[ours] = "held" /\ fate[old] = "held"
         /\ fate' \in [Clips -> Fates]
         /\ fate'[ours] = "freed"
         /\ fate'[old] = IF Room THEN "queued" ELSE "lost"
         /\ \A d \in Clips \ {ours, old} : fate'[d] = fate[d]
<1>1. caller = "resend"
  BY DEF CueResend
<1>2. /\ ours \in Clips /\ old \in Clips /\ ours # old /\ ours \in cues /\ old \in cues
      /\ fate[ours] = "held" /\ fate[old] = "held"
  BY <1>1, ClipFacts DEF ClipIInv, CallerHolds
<1> DEFINE f == IF Room THEN "queued" ELSE "lost"
<1>3. f \in Fates /\ "freed" \in Fates
  BY DEF Fates
<1>4. fate' = [fate EXCEPT ![old] = f, ![ours] = "freed"]
  BY DEF CueResend
<1> HIDE DEF f
<1>5. /\ fate' \in [Clips -> Fates] /\ fate'[ours] = "freed" /\ fate'[old] = f
      /\ \A d \in Clips \ {ours, old} : fate'[d] = fate[d]
  BY <1>2, <1>3, <1>4, ClipFacts
<1> QED
  BY <1>1, <1>2, <1>5 DEF f

LEMMA CueResendKeeps == ClipIInv /\ CueResend => ClipIInv'
<1> SUFFICES ASSUME ClipIInv, CueResend
             PROVE  ClipIInv'
  OBVIOUS
<1>1. /\ caller' = "idle" /\ ours' = NoClip /\ old' = NoClip
      /\ queue' = IF Room THEN Append(queue, old) ELSE queue
      /\ UNCHANGED <<cues, playing, replying>>
  BY DEF CueResend
<1>2. /\ ours \in Clips /\ old \in Clips /\ ours # old /\ ours \in cues /\ old \in cues
      /\ fate[ours] = "held" /\ fate[old] = "held"
      /\ fate' \in [Clips -> Fates] /\ fate'[ours] = "freed"
      /\ fate'[old] = IF Room THEN "queued" ELSE "lost"
      /\ \A d \in Clips \ {ours, old} : fate'[d] = fate[d]
  BY ResentFates
<1>3. old \notin ToSet(queue) /\ ours \notin ToSet(queue) /\ ours # playing /\ old # playing
  BY <1>2, ClipFacts
<1>4. /\ queue' \in Seq(Clips) /\ Len(queue') <= Depth /\ NoTwice(queue')
      /\ ToSet(queue') = IF Room THEN ToSet(queue) \cup {old} ELSE ToSet(queue)
  <2>1. CASE Room
    <3>1. queue' = Append(queue, old) /\ queue \in Seq(Clips) /\ NoTwice(queue)
      BY <1>1, <2>1, ClipFacts
    <3>2. queue' \in Seq(Clips) /\ Len(queue') = Len(queue) + 1
      BY <1>2, <1>3, <3>1, QueueAppended
    <3>3. NoTwice(queue')
      BY <1>2, <1>3, <3>1, QueueAppended
    <3>4. ToSet(queue') = ToSet(queue) \cup {old}
      BY <1>2, <3>1, SetOfAppended
    <3>5. Len(queue') <= Depth
      BY <2>1, <3>2, ClipFacts DEF Room
    <3> QED
      BY <2>1, <3>2, <3>3, <3>4, <3>5
  <2>2. CASE ~Room
    BY <1>1, <2>2, ClipFacts
  <2> QED
    BY <2>1, <2>2
<1>5. ClipTypeOK'
  BY <1>1, <1>2, <1>4 DEF ClipIInv, ClipInv, ClipTypeOK
<1>6. BuffersAccounted'
  <2>1. DOMAIN queue' = 1 .. Len(queue')
    BY <1>4
  <2>2. ASSUME NEW d \in Clips
        PROVE  /\ fate'[d] = "queued" <=> d \in ToSet(queue')
               /\ fate'[d] = "held" <=> d \in {ours', old'}
               /\ fate'[d] = "playing" <=> d = playing'
    <3>1. CASE d = ours
      BY <1>1, <1>2, <1>3, <1>4, <3>1, ClipFacts
    <3>2. CASE d = old
      BY <1>1, <1>2, <1>3, <1>4, <3>2, ClipFacts
    <3>3. CASE d \notin {ours, old}
      BY <1>1, <1>2, <1>4, <3>3, ClipFacts
    <3> QED
      BY <3>1, <3>2, <3>3
  <2> QED
    BY <1>4, <2>1, <2>2 DEF NoTwice, BuffersAccounted
<1>7. ChimesInOrder'
  BY <1>1, <1>2 DEF ClipIInv, ClipInv, ChimesInOrder
<1>8. UsedInOrder'
  <2>1. ASSUME Rising(queue, Clips \ cues)
        PROVE  Rising(queue', Clips \ cues)
    <3>1. CASE Room
      <4>1. queue' = Append(queue, old) /\ queue \in Seq(Clips) /\ old \notin Clips \ cues
        BY <1>1, <1>2, <3>1, ClipFacts
      <4> QED
        BY <1>2, <2>1, <4>1, QueueRises
    <3>2. CASE ~Room
      BY <1>1, <2>1, <3>2
    <3> QED
      BY <3>1, <3>2
  <2>2. {ours, old} \in SUBSET Clips
        /\ \A d \in {ours, old} : fate[d] # "new" /\ fate'[d] # "new"
    BY <1>2
  <2> QED
    BY <1>1, <1>2, <2>1, <2>2, OrderKept
<1>9. CallerHolds' /\ PlaceKept'
  BY <1>1 DEF CallerHolds, PlaceKept
<1> QED
  BY <1>5, <1>6, <1>7, <1>8, <1>9 DEF ClipIInv, ClipInv

LEMMA CueSendAgainKeeps == ClipIInv /\ CueSendAgain => ClipIInv'
<1> SUFFICES ASSUME ClipIInv, CueSendAgain
             PROVE  ClipIInv'
  OBVIOUS
<1>1. /\ caller = "send" /\ Send(ours, "freed") /\ caller' = "idle" /\ ours' = NoClip
      /\ UNCHANGED <<cues, old, playing, replying>>
  BY DEF CueSendAgain
<1>2. ours \in cues /\ ours \in Clips /\ old = NoClip /\ fate[ours] = "held"
  BY <1>1, ClipFacts DEF ClipIInv, CallerHolds
<1>3. ours \notin ToSet(queue) /\ ours # playing
  BY <1>2, ClipFacts
<1>4. "freed" \in Fates
  BY DEF Fates
<1>5. /\ queue' \in Seq(Clips) /\ Len(queue') <= Depth /\ NoTwice(queue')
      /\ fate' \in [Clips -> Fates]
      /\ fate'[ours] = IF Room THEN "queued" ELSE "freed"
      /\ ours \in ToSet(queue') <=> Room
      /\ \A d \in Clips \ {ours} : /\ fate'[d] = fate[d]
                                   /\ d \in ToSet(queue') <=> d \in ToSet(queue)
  BY <1>1, <1>2, <1>3, <1>4, Sent
<1>6. ClipTypeOK'
  BY <1>1, <1>5 DEF ClipIInv, ClipInv, ClipTypeOK
<1>7. BuffersAccounted'
  <2>1. DOMAIN queue' = 1 .. Len(queue')
    BY <1>5
  <2>2. \A d \in Clips : /\ fate'[d] = "queued" <=> d \in ToSet(queue')
                         /\ fate'[d] = "held" <=> d \in {ours', old'}
                         /\ fate'[d] = "playing" <=> d = playing'
    BY <1>1, <1>2, <1>3, <1>5, ClipFacts
  <2> QED
    BY <1>5, <2>1, <2>2 DEF NoTwice, BuffersAccounted
<1>8. ChimesInOrder'
  BY <1>1, <1>2, <1>5 DEF ClipIInv, ClipInv, ChimesInOrder
<1>9. UsedInOrder'
  <2>1. Rising(queue, Clips \ cues) => Rising(queue', Clips \ cues)
    BY <1>1, <1>2, SentRises
  <2>2. {ours} \in SUBSET Clips /\ \A d \in {ours} : fate[d] # "new" /\ fate'[d] # "new"
    BY <1>2, <1>5
  <2> QED
    BY <1>1, <1>5, <2>1, <2>2, OrderKept
<1>10. CallerHolds' /\ PlaceKept'
  BY <1>1, <1>2 DEF CallerHolds, PlaceKept
<1> QED
  BY <1>6, <1>7, <1>8, <1>9, <1>10 DEF ClipIInv, ClipInv

LEMMA TakeKeeps == ClipIInv /\ Take => ClipIInv'
<1> SUFFICES ASSUME ClipIInv, Take
             PROVE  ClipIInv'
  OBVIOUS
<1> DEFINE e == Head(queue)
<1>1. /\ playing = NoClip /\ queue # <<>> /\ playing' = e /\ queue' = Tail(queue)
      /\ fate' = [fate EXCEPT ![e] = "playing"]
      /\ UNCHANGED <<cues, caller, ours, old, replying>>
      /\ e = Head(queue)
  BY DEF Take
<1>2. "playing" \in Fates
  BY DEF Fates
<1> HIDE DEF e
<1>3. /\ queue' \in Seq(Clips) /\ Len(queue') < Depth /\ Len(queue') <= Depth
      /\ NoTwice(queue')
      /\ e \in Clips /\ fate[e] = "queued" /\ e \in ToSet(queue) /\ e \notin ToSet(queue')
      /\ fate' \in [Clips -> Fates] /\ fate'[e] = "playing"
      /\ \A d \in Clips \ {e} : /\ fate'[d] = fate[d]
                                /\ d \in ToSet(queue') <=> d \in ToSet(queue)
      /\ \A N : Rising(queue, N) =>
                  Rising(queue', N) /\ (e \in N => \A x \in ToSet(queue') \cap N : e < x)
  BY <1>1, <1>2, Received
<1>4. ClipTypeOK'
  BY <1>1, <1>3 DEF ClipIInv, ClipInv, ClipTypeOK
<1>5. BuffersAccounted'
  <2>1. DOMAIN queue' = 1 .. Len(queue')
    BY <1>3
  <2>2. \A d \in Clips : /\ fate'[d] = "queued" <=> d \in ToSet(queue')
                         /\ fate'[d] = "held" <=> d \in {ours', old'}
                         /\ fate'[d] = "playing" <=> d = playing'
    BY <1>1, <1>3, ClipFacts
  <2> QED
    BY <1>3, <2>1, <2>2 DEF NoTwice, BuffersAccounted
<1>6. Rising(queue, Clips \ cues)
  BY DEF ClipIInv, UsedInOrder
<1>7. ChimesInOrder'
  <2> SUFFICES ASSUME NEW a \in Clips \ cues, NEW d \in Clips \ cues, a < d,
                      fate'[d] \in {"playing", "played"}, fate'[a] = "queued"
               PROVE  FALSE
    BY <1>1 DEF ChimesInOrder
  <2>1. a # e /\ fate[a] = "queued" /\ a \in ToSet(queue')
    BY <1>3, ClipFacts
  <2>2. CASE d = e
    <3>1. e < a
      BY <1>3, <1>6, <2>1, <2>2
    <3> QED
      BY <2>2, <3>1, ClipFacts
  <2>3. CASE d # e
    BY <1>3, <2>1, <2>3 DEF ClipIInv, ClipInv, ChimesInOrder
  <2> QED
    BY <2>2, <2>3
<1>8. UsedInOrder'
  <2>1. {e} \in SUBSET Clips /\ \A d \in {e} : fate[d] # "new" /\ fate'[d] # "new"
    BY <1>3
  <2> QED
    BY <1>1, <1>3, <2>1, OrderKept
<1>9. CallerHolds'
  BY <1>1 DEF ClipIInv, CallerHolds
<1>10. PlaceKept'
  <2>1. Room'
    BY <1>3 DEF Room
  <2> QED
    BY <1>1, <2>1 DEF ClipIInv, PlaceKept
<1> QED
  BY <1>4, <1>5, <1>7, <1>8, <1>9, <1>10 DEF ClipIInv, ClipInv

LEMMA PlayKeeps == ClipIInv /\ Play => ClipIInv'
<1> SUFFICES ASSUME ClipIInv, Play
             PROVE  ClipIInv'
  OBVIOUS
<1> DEFINE f == IF replying THEN "freed" ELSE "played"
<1>1. /\ playing # NoClip /\ playing' = NoClip
      /\ fate' = [fate EXCEPT ![playing] = f]
      /\ UNCHANGED <<queue, cues, caller, ours, old, replying>>
  BY DEF Play
<1>2. playing \in Clips /\ fate[playing] = "playing"
  BY <1>1, ClipFacts DEF ClipIInv, ClipInv, ClipTypeOK
<1>3. f \in {"freed", "played"} /\ f \in Fates
  BY DEF Fates
<1> HIDE DEF f
<1>4. /\ fate' \in [Clips -> Fates] /\ fate'[playing] = f
      /\ \A d \in Clips \ {playing} : fate'[d] = fate[d]
  BY <1>1, <1>2, <1>3, ClipFacts
<1>5. ClipTypeOK'
  BY <1>1, <1>4 DEF ClipIInv, ClipInv, ClipTypeOK
<1>6. BuffersAccounted'
  <2>1. ASSUME NEW d \in Clips
        PROVE  /\ fate'[d] = "queued" <=> d \in ToSet(queue)
               /\ fate'[d] = "held" <=> d \in {ours, old}
               /\ fate'[d] = "playing" <=> d = NoClip
    <3>1. CASE d = playing
      BY <1>2, <1>3, <1>4, <3>1, ClipFacts
    <3>2. CASE d # playing
      BY <1>4, <3>2, ClipFacts
    <3> QED
      BY <3>1, <3>2
  <2> QED
    BY <1>1, <2>1 DEF ClipIInv, ClipInv, BuffersAccounted
<1>7. ChimesInOrder'
  <2> SUFFICES ASSUME NEW a \in Clips \ cues, NEW d \in Clips \ cues, a < d,
                      fate'[d] \in {"playing", "played"}
               PROVE  fate'[a] # "queued"
    BY <1>1 DEF ChimesInOrder
  <2>1. fate[d] \in {"playing", "played"}
    BY <1>2, <1>4
  <2>2. fate[a] # "queued"
    BY <2>1 DEF ClipIInv, ClipInv, ChimesInOrder
  <2> QED
    BY <1>3, <1>4, <2>2
<1>8. UsedInOrder'
  <2>1. {playing} \in SUBSET Clips /\ \A d \in {playing} : fate[d] # "new" /\ fate'[d] # "new"
    BY <1>2, <1>3, <1>4
  <2> QED
    BY <1>1, <1>4, <2>1, OrderKept
<1>9. CallerHolds'
  BY <1>1 DEF ClipIInv, CallerHolds
<1>10. PlaceKept'
  BY <1>1 DEF ClipIInv, PlaceKept, Room, TakenByLaterChime
<1> QED
  BY <1>5, <1>6, <1>7, <1>8, <1>9, <1>10 DEF ClipIInv, ClipInv

LEMMA ReplyKeeps == ClipIInv /\ (Reply \/ UNCHANGED clipVars) => ClipIInv'
<1> SUFFICES ASSUME ClipIInv, Reply \/ UNCHANGED clipVars
             PROVE  ClipIInv'
  OBVIOUS
<1>1. UNCHANGED <<queue, cues, fate, caller, ours, old, playing>>
  BY DEF Reply, clipVars
<1>2. replying' \in BOOLEAN
  BY DEF Reply, clipVars, ClipIInv, ClipInv, ClipTypeOK
<1>3. ClipTypeOK'
  BY <1>1, <1>2 DEF ClipIInv, ClipInv, ClipTypeOK
<1>4. BuffersAccounted' /\ ChimesInOrder'
  BY <1>1 DEF ClipIInv, ClipInv, BuffersAccounted, ChimesInOrder
<1>5. UsedInOrder' /\ CallerHolds' /\ PlaceKept'
  BY <1>1 DEF ClipIInv, UsedInOrder, CallerHolds, PlaceKept, Room, TakenByLaterChime
<1> QED
  BY <1>3, <1>4, <1>5 DEF ClipIInv, ClipInv

LEMMA ClipStep == ClipIInv /\ [ClipNext]_clipVars => ClipIInv'
BY ChimeKeeps, CueKeeps, CueEvictKeeps, CueResendKeeps, CueSendAgainKeeps, TakeKeeps, PlayKeeps,
   ReplyKeeps
DEF ClipNext

(* One clip that was not raised before is all a chime or a cue touches.    *)
LEMMA OnlyOwnFate ==
  ASSUME ClipIInv, NEW c \in Clips, Chime(c) \/ Cue(c)
  PROVE  \A d \in cues : fate'[d] = fate[d]
<1>1. /\ fate[c] = "new"
      /\ \E failed \in Fates : fate' = [fate EXCEPT ![c] = IF Room THEN "queued" ELSE failed]
  BY DEF Chime, Cue, Fresh, Send, Fates
<1>2. c \notin cues
  BY <1>1 DEF ClipIInv, UsedInOrder
<1> QED
  BY <1>1, <1>2, ClipFacts

(* A step that ends a cue's wait, or its way to the speaker, does what the *)
(* properties of cues say.                                                 *)
CueStepSound ==
  \A c \in cues :
    /\ fate[c] = "held" /\ fate'[c] \in {"freed", "lost"} =>
         EarlierCueHas(c) \/ TakenByLaterChime(c)
    /\ fate[c] \in {"queued", "playing"} =>
         /\ fate'[c] # "lost"
         /\ fate'[c] = "freed" => fate[c] = "playing" /\ replying

LEMMA CueStep ==
  ASSUME ClipIInv, [ClipNext]_clipVars
  PROVE  CueStepSound
<1>1. CASE \A d \in cues : fate'[d] = fate[d]
  BY <1>1 DEF CueStepSound
<1>2. ASSUME NEW c \in Clips, Chime(c) \/ Cue(c)
      PROVE  CueStepSound
  BY <1>1, <1>2, OnlyOwnFate
<1>3. CASE CueEvict
  <2>1. CASE queue = <<>>
    BY <1>1, <1>3, <2>1 DEF CueEvict
  <2>2. CASE queue # <<>>
    <3> DEFINE e == Head(queue)
               f == IF e \in cues THEN "held" ELSE "freed"
    <3>1. queue' = Tail(queue) /\ fate' = [fate EXCEPT ![e] = f] /\ e = Head(queue)
      BY <1>3, <2>2 DEF CueEvict
    <3>2. f \in Fates /\ (e \in cues => f = "held")
      BY DEF Fates
    <3> HIDE DEF e, f
    <3>3. /\ e \in Clips /\ fate[e] = "queued" /\ fate'[e] = f
          /\ \A d \in Clips \ {e} : fate'[d] = fate[d]
      BY <2>2, <3>1, <3>2, Received
    <3> SUFFICES ASSUME NEW c \in cues
                 PROVE  fate'[c] = fate[c] \/ (fate[c] = "queued" /\ fate'[c] = "held")
      BY DEF CueStepSound
    <3> QED
      BY <3>2, <3>3, ClipFacts
  <2> QED
    BY <2>1, <2>2
<1>4. CASE CueResend
  <2>1. /\ caller = "resend"
        /\ ours \in Clips /\ old \in Clips /\ ours # old /\ ours \in cues /\ old \in cues
        /\ fate[ours] = "held" /\ fate[old] = "held"
        /\ fate'[ours] = "freed"
        /\ fate'[old] = IF Room THEN "queued" ELSE "lost"
        /\ \A d \in Clips \ {ours, old} : fate'[d] = fate[d]
    BY <1>4, ResentFates
  <2>2. old < ours /\ (Room \/ TakenByLaterChime(ours))
    BY <2>1, ClipFacts DEF ClipIInv, PlaceKept
  <2>3. ASSUME NEW c \in cues, c \notin {ours, old}
        PROVE  fate'[c] = fate[c]
    BY <2>1, <2>3, ClipFacts
  <2>4. CASE Room
    BY <2>1, <2>2, <2>3, <2>4 DEF CueStepSound, EarlierCueHas
  <2>5. CASE ~Room
    <3>1. queue # <<>> /\ queue \in Seq(Clips) /\ Last(queue) \notin cues /\ Last(queue) > ours
      BY <2>2, <2>5, ClipFacts DEF TakenByLaterChime
    <3>2. Last(queue) \in Nat
      BY <3>1, ClipFacts DEF Last
    <3>3. TakenByLaterChime(ours) /\ TakenByLaterChime(old)
      BY <2>1, <2>2, <3>1, <3>2, ClipFacts DEF TakenByLaterChime
    <3> QED
      BY <2>1, <2>3, <3>3 DEF CueStepSound
  <2> QED
    BY <2>4, <2>5
<1>5. CASE CueSendAgain
  <2>1. /\ caller = "send" /\ ours \in cues /\ ours \in Clips /\ fate[ours] = "held"
        /\ Send(ours, "freed")
    BY <1>5, ClipFacts DEF CueSendAgain, ClipIInv, CallerHolds
  <2>2. Room \/ TakenByLaterChime(ours)
    BY <2>1 DEF ClipIInv, PlaceKept
  <2>3. ours \notin ToSet(queue) /\ "freed" \in Fates
    BY <2>1, ClipFacts DEF Fates
  <2>4. /\ fate'[ours] = IF Room THEN "queued" ELSE "freed"
        /\ \A d \in Clips \ {ours} : fate'[d] = fate[d]
    BY <2>1, <2>3, Sent
  <2>5. ASSUME NEW c \in cues, c # ours
        PROVE  fate'[c] = fate[c]
    BY <2>4, <2>5, ClipFacts
  <2> QED
    BY <2>1, <2>2, <2>4, <2>5 DEF CueStepSound
<1>6. CASE Take
  <2> DEFINE e == Head(queue)
  <2>1. /\ queue # <<>> /\ queue' = Tail(queue) /\ fate' = [fate EXCEPT ![e] = "playing"]
        /\ e = Head(queue) /\ "playing" \in Fates
    BY <1>6 DEF Take, Fates
  <2> HIDE DEF e
  <2>2. /\ e \in Clips /\ fate[e] = "queued" /\ fate'[e] = "playing"
        /\ \A d \in Clips \ {e} : fate'[d] = fate[d]
    BY <2>1, Received
  <2> SUFFICES ASSUME NEW c \in cues
               PROVE  fate'[c] = fate[c] \/ (fate[c] = "queued" /\ fate'[c] = "playing")
    BY DEF CueStepSound
  <2> QED
    BY <2>2, ClipFacts
<1>7. CASE Play
  <2> DEFINE f == IF replying THEN "freed" ELSE "played"
  <2>1. playing \in Clips /\ fate' = [fate EXCEPT ![playing] = f] /\ fate[playing] = "playing"
    BY <1>7, ClipFacts DEF Play, ClipIInv, ClipInv, ClipTypeOK
  <2>2. f \in {"freed", "played"} /\ (f = "freed" => replying)
    OBVIOUS
  <2> HIDE DEF f
  <2>3. fate'[playing] = f /\ \A d \in Clips \ {playing} : fate'[d] = fate[d]
    BY <2>1, ClipFacts
  <2> SUFFICES ASSUME NEW c \in cues
               PROVE  \/ fate'[c] = fate[c]
                      \/ fate[c] = "playing" /\ fate'[c] = f
    BY <2>2 DEF CueStepSound
  <2> QED
    BY <2>1, <2>3, ClipFacts
<1>8. CASE Reply
  BY <1>1, <1>8 DEF Reply
<1>9. CASE UNCHANGED clipVars
  BY <1>1, <1>9 DEF clipVars
<1> QED
  BY <1>2, <1>3, <1>4, <1>5, <1>6, <1>7, <1>8, <1>9 DEF ClipNext

(* Whatever tasks raise chimes and cues at once, no buffer of enqueue() is *)
(* freed while it is queued or played, none is in two places, and chimes   *)
(* sound in the order they were raised.                                    *)
THEOREM ClipsSafe == ClipSpec => []ClipInv
<1>1. ClipIInv => ClipInv
  BY DEF ClipIInv
<1> QED
  BY <1>1, ClipInitially, ClipStep, PTL DEF ClipSpec

(* Whatever tasks raise chimes at once, a cue gives way only to an earlier *)
(* cue, or to a chime raised after it that takes the place its eviction    *)
(* made, and once it is queued it is lost only to a reply that holds the   *)
(* codec too long (play_cue and run() of waveshare_audio.cpp).             *)
THEOREM CuesAreHeard == ClipSpec => CuesSound
<1>1. ClipIInv /\ [ClipNext]_clipVars =>
        [\A c \in cues : fate[c] = "held" /\ fate'[c] \in {"freed", "lost"} =>
           EarlierCueHas(c) \/ TakenByLaterChime(c)]_clipVars
  BY CueStep DEF CueStepSound
<1>2. ClipIInv /\ [ClipNext]_clipVars =>
        [\A c \in cues : fate[c] \in {"queued", "playing"} =>
           /\ fate'[c] # "lost"
           /\ fate'[c] = "freed" => fate[c] = "playing" /\ replying]_clipVars
  BY CueStep DEF CueStepSound
<1> QED
  BY <1>1, <1>2, ClipInitially, ClipStep, PTL
  DEF ClipSpec, CuesSound, CueYields, QueuedCueIsPlayed
-----------------------------------------------------------------------------
(***************************************************************************)
(* AudioPort.  Its inductive invariant, part by part.                      *)
(***************************************************************************)

(* Every consumer reads a handle of its own.                               *)
OneReader == \A c, d \in Consumers : HandleOf[c] = HandleOf[d] => c = d

Started(h) == {c \in Consumers : HandleOf[c] = h /\ consumer[c] = "started"}

(* Steps of a reclock: after the clocks were switched; after handle h was  *)
(* suspended and before the switch; before h is resumed.                   *)
Switched == {"resume_mono", "resume_wake", "done"}
Past == [h \in Handles |-> IF h = "mono" THEN {"suspend_wake", "drain_wake", "switch"}
                                         ELSE {"switch"}]
Pending == [h \in Handles |-> IF h = "mono" THEN {"resume_mono"}
                                            ELSE {"resume_mono", "resume_wake"}]

(* TypeOK, with the users of a handle not yet counted.                     *)
Typed ==
  /\ codec_mutex \in {None, "audio", "voice", "probe"}
  /\ voice \in {"idle", "waiting", "begin", "streaming", "ending"}
  /\ voiceRate \in Rates
  /\ rc \in [pc : Steps, rate : Rates, ok : BOOLEAN, retry : BOOLEAN,
             had : SUBSET Handles]
  /\ {streaming_, enabled_, amp, rx} \subseteq BOOLEAN
  /\ {open_rate_, codec} \subseteq Rates \cup {0}
  /\ clock \in Rates
  /\ users \in [Handles -> Nat]
  /\ {capturing, reading, open, suspended} \subseteq [Handles -> BOOLEAN]
  /\ cap_mutex \in [Handles -> Consumers \cup {None, "httpd", "reclock"}]
  /\ consumer \in [Consumers -> {"stopped", "started", "draining"}]
  /\ reader \in [Consumers -> {"out", "claimed", "in"}]
  /\ gain \in {"idle", "draining", "stopped"}
  /\ gainCalls \in 0 .. MaxGainCalls
  /\ upsets \subseteq Upsets

(* Who holds the codec, and what rate the reclock under way is for.        *)
Seats ==
  /\ codec_mutex = "voice" <=> voice \in {"begin", "streaming", "ending"}
  /\ streaming_ <=> voice = "streaming"
  /\ rc.pc # "off" => codec_mutex = "audio" \/ voice \in {"begin", "ending"}
  /\ rc.pc = "off" => rc = Idle
  /\ rc.retry \/ voice = "ending" \/ codec_mutex = "audio" => rc.rate = Native
  /\ rc.pc \in {"resume_mono", "resume_wake"} => rc.rate = Native
  /\ voice = "begin" /\ ~rc.retry =>
       IF rc.pc = "off" THEN open_rate_ = voiceRate ELSE rc.rate = voiceRate
  /\ voice = "ending" \/ codec_mutex = "audio" => rc.pc # "off" \/ open_rate_ = Native

(* While no clock and no codec fails, the rate remembered is the true one, *)
(* and it is the native one unless a reply plays.                          *)
Clocked ==
  "failed" \notin upsets =>
    /\ rc.pc = "off" => codec = open_rate_ /\ clock = open_rate_
    /\ rc.pc \in Switched =>
         IF rc.ok THEN codec = rc.rate /\ clock = rc.rate /\ open_rate_ = rc.rate
                  ELSE rc.rate # Native
    /\ voice \in {"idle", "waiting"} => rc.pc = "off" /\ open_rate_ = Native
    /\ voice = "streaming" => open_rate_ = voiceRate
    /\ voice = "begin" /\ rc.pc # "off" /\ ~rc.retry => rc.rate # Native

(* A handle is open while it is captured or waits for its reader to leave, *)
(* and the capture mutex tells who waits.                                  *)
WoundAt(h) ==
  /\ capturing[h] => open[h] /\ cap_mutex[h] = None /\ users[h] > 0
  /\ open[h] => capturing[h] \/ cap_mutex[h] # None
  /\ cap_mutex[h] # None => open[h]
  /\ rc.pc = DrainStep[h] <=> cap_mutex[h] = "reclock"
  /\ cap_mutex[h] = "reclock" => users[h] > 0
  /\ cap_mutex[h] = "httpd" <=> gain = "draining" /\ h = "mono"
  /\ \A c \in Consumers :
       cap_mutex[h] = c <=> consumer[c] = "draining" /\ HandleOf[c] = h

Wound == \A h \in Handles : WoundAt(h)

(* A user is a consumer that started, or one that a gain change left, and  *)
(* well-behaved consumers use one handle at a time.                        *)
Counted ==
  /\ \A h \in Handles : users[h] <= Cardinality(Started(h)) + gainCalls
  /\ gain # "idle" => users["mono"] < Cardinality(Started("mono")) + gainCalls
  /\ gainCalls = 0 <=> "gain" \notin upsets
  /\ gain # "idle" => gainCalls > 0
  /\ "rude" \notin upsets =>
       \A c, d \in Consumers :
         consumer[c] # "stopped" /\ consumer[d] # "stopped" => HandleOf[c] = HandleOf[d]

(* Who has claimed a read is seen, and who is in a read has a device.      *)
Claimed ==
  OneReader =>
    \A c \in Consumers :
      /\ reader[c] # "out" => reading[HandleOf[c]]
      /\ reader[c] = "in" /\ "late" \notin upsets => open[HandleOf[c]]

(* Nothing is open while the port is clocked, or about to be clocked, away.*)
Quiet ==
  upsets = {} =>
    \A h \in Handles : clock # Native \/ rc.pc \in Past[h] => ~open[h]

(* What was suspended is taken back with the native rate, and as long as   *)
(* only readers are late every handle with users is on or owed to them.    *)
Owed(h) == suspended[h] \/ (h \in rc.had /\ rc.pc \in Pending[h])

Remembered ==
  /\ "failed" \notin upsets =>
       /\ rc.pc \in Switched => rc.rate # Native \/ \A h \in Handles : ~suspended[h]
       /\ rc.pc = "off" => open_rate_ # Native \/ \A h \in Handles : ~suspended[h]
  /\ upsets \subseteq {"late"} =>
       \A h \in Handles :
         /\ users[h] >= Cardinality(Started(h))
         /\ users[h] > 0 => capturing[h] \/ cap_mutex[h] = "reclock" \/ Owed(h)

(* With one gain change a switch can fail only because of it, so that the  *)
(* fallback finds every handle closed and brings the channel back.         *)
Heard ==
  upsets \subseteq {"gain"} /\ gainCalls <= 1 =>
    /\ rc.pc \in Switched /\ ~rc.ok => gain = "idle" /\ gainCalls = 1
    /\ rc.retry => gain = "idle" /\ gainCalls = 1
    /\ \A h \in Handles :
        /\ rc.pc \in Past[h] /\ open[h] => gain = "idle" /\ gainCalls = 1 /\ ~rc.retry
        /\ capturing[h] => \/ rx
                           \/ codec_mutex = "probe"
                           \/ rc.pc # "off" /\ ~(rc.retry /\ rc.pc \in Switched)
                           \/ rc.pc = "off" /\ open_rate_ # Native

PortIInv ==
  /\ Typed /\ Seats /\ Clocked /\ Wound /\ Counted
  /\ Claimed /\ Quiet /\ Remembered /\ Heard

-----------------------------------------------------------------------------
(* The tables of apply_rate's steps, by handle.                            *)
LEMMA Tables ==
  /\ Handles = {"mono", "wake"}
  /\ SuspendStep["mono"] = "suspend_mono" /\ SuspendStep["wake"] = "suspend_wake"
  /\ DrainStep["mono"] = "drain_mono" /\ DrainStep["wake"] = "drain_wake"
  /\ ResumeStep["mono"] = "resume_mono" /\ ResumeStep["wake"] = "resume_wake"
  /\ AfterSuspend["mono"] = "suspend_wake" /\ AfterSuspend["wake"] = "switch"
  /\ AfterResume["mono"] = "resume_wake" /\ AfterResume["wake"] = "done"
  /\ Past["mono"] = {"suspend_wake", "drain_wake", "switch"} /\ Past["wake"] = {"switch"}
  /\ Pending["mono"] = {"resume_mono"} /\ Pending["wake"] = {"resume_mono", "resume_wake"}
BY DEF Handles, SuspendStep, DrainStep, ResumeStep, AfterSuspend, AfterResume, Past, Pending

(* The names are different names.                                          *)
LEMMA Names ==
  /\ None \notin Consumers /\ "httpd" \notin Consumers /\ "reclock" \notin Consumers
  /\ None \notin {"httpd", "reclock", "audio", "voice", "probe"}
BY NamesAssumption

LEMMA SomeRates == Native \in Rates /\ Native \in Nat \ {0} /\ Rates \subseteq Nat \ {0}
BY RatesAssumption DEF Rates

LEMMA IdleTyped ==
  Idle \in [pc : Steps, rate : Rates, ok : BOOLEAN, retry : BOOLEAN, had : SUBSET Handles]
BY SomeRates DEF Idle, Steps

LEMMA StartTyped ==
  ASSUME NEW rate \in Rates, NEW retry \in BOOLEAN, StartReclock(rate, retry)
  PROVE  /\ codec' = 0
         /\ rc' \in [pc : Steps, rate : Rates, ok : BOOLEAN, retry : BOOLEAN,
                     had : SUBSET Handles]
BY DEF StartReclock, Steps

LEMMA PortInitially == Init => Typed
<1> SUFFICES ASSUME Init
             PROVE  Typed
  OBVIOUS
<1>1. rc \in [pc : Steps, rate : Rates, ok : BOOLEAN, retry : BOOLEAN, had : SUBSET Handles]
  BY IdleTyped DEF Init
<1>2. 0 \in 0 .. MaxGainCalls
  BY GainAssumption
<1>3. {capturing, reading, open, suspended} \subseteq [Handles -> BOOLEAN]
  BY DEF Init
<1>4. {streaming_, enabled_, amp, rx} \subseteq BOOLEAN
  BY DEF Init
<1> QED
  BY <1>1, <1>2, <1>3, <1>4, SomeRates, Names DEF Init, Typed

(* The speaker's side: what the steps of the codec's holders leave alone,  *)
(* and that they keep the types.                                           *)
LEMMA CodecTyped ==
  ASSUME Typed,
         \/ FallBack \/ ChimeTake \/ ChimeGive \/ Voice \/ EndStream
         \/ ProbeTake \/ ProbeGive
         \/ \E rate \in StreamRates : BeginStream(rate)
         \/ \E on \in BOOLEAN : SetEnabled(on)
  PROVE  Typed'
<1>1. UNCHANGED <<users, capturing, open, suspended, cap_mutex, readVars, clientVars>>
  BY DEF FallBack, ChimeTake, ChimeGive, Voice, BeginTake, BeginOk, BeginFail, EndGive,
         EndStream, ProbeTake, ProbeGive, BeginStream, SetEnabled, handleVars
<1>2. /\ rc' \in [pc : Steps, rate : Rates, ok : BOOLEAN, retry : BOOLEAN,
                  had : SUBSET Handles]
      /\ codec' \in Rates \cup {0}
  BY IdleTyped, StartTyped, SomeRates
  DEF Typed, FallBack, ChimeTake, ChimeGive, Voice, BeginTake, BeginOk, BeginFail, EndGive,
      EndStream, ProbeTake, ProbeGive, BeginStream, SetEnabled, codecVars
<1>3. /\ codec_mutex' \in {None, "audio", "voice", "probe"}
      /\ voice' \in {"idle", "waiting", "begin", "streaming", "ending"}
      /\ voiceRate' \in Rates /\ open_rate_' \in Rates \cup {0} /\ clock' \in Rates
  BY SomeRates DEF Rates, SettledRate, Typed, FallBack, ChimeTake, ChimeGive, Voice, BeginTake,
      BeginOk, BeginFail, EndGive, EndStream, ProbeTake, ProbeGive, BeginStream, SetEnabled,
      codecVars
<1>4. {streaming_, enabled_, amp, rx}' \subseteq BOOLEAN
  BY DEF Typed, FallBack, ChimeTake, ChimeGive, Voice, BeginTake,
      BeginOk, BeginFail, EndGive, EndStream, ProbeTake, ProbeGive, BeginStream, SetEnabled,
      codecVars, muteVars, handleVars
<1> QED
  BY <1>1, <1>2, <1>3, <1>4 DEF Typed, readVars, clientVars

LEMMA Outcome ==
  ASSUME NEW fits \in BOOLEAN
  PROVE  Outcomes(fits) \subseteq BOOLEAN
BY DEF Outcomes

LEMMA OutcomesBoolean ==
  /\ Outcomes(TRUE) \subseteq BOOLEAN /\ Outcomes(MicFits) \subseteq BOOLEAN
  /\ \A rate : Outcomes(SpeakerFits(rate)) \subseteq BOOLEAN
<1>1. MicFits \in BOOLEAN
  BY DEF MicFits
<1>2. \A rate : SpeakerFits(rate) \in BOOLEAN
  BY DEF SpeakerFits
<1>3. TRUE \in BOOLEAN
  OBVIOUS
<1> QED
  BY <1>1, <1>2, <1>3, Outcome

(* An open that fits and fails is noted, and one that does not is not.     *)
LEMMA MicNoted ==
  ASSUME NEW ok \in Outcomes(MicFits)
  PROVE  /\ Noted(MicFits, ok) \subseteq Upsets \cap {"failed"}
         /\ "failed" \notin Noted(MicFits, ok) => (ok <=> MicFits)
<1>1. CASE MayGo("failed")
  <2>1. ok \in BOOLEAN
    BY OutcomesBoolean
  <2>2. (MicFits /\ ~ok) \/ Noted(MicFits, ok) = {}
    BY DEF Noted
  <2>3. ok => MicFits
    BY DEF Outcomes
  <2>4. MicFits /\ ~ok => Noted(MicFits, ok) = {"failed"}
    BY DEF Noted
  <2> QED
    BY <1>1, <2>1, <2>2, <2>3, <2>4 DEF MayGo
<1>2. CASE ~MayGo("failed")
  <2>1. ok = MicFits
    BY <1>2 DEF Outcomes
  <2>2. Noted(MicFits, ok) = {}
    BY <2>1 DEF Noted
  <2> QED
    BY <2>1, <2>2
<1> QED
  BY <1>1, <1>2

LEMMA ReclockTyped ==
  ASSUME Typed,
         \/ Switch
         \/ \E h \in Handles : Suspend(h) \/ SuspendClose(h) \/ SuspendSkip(h) \/ Resume(h)
  PROVE  Typed'
<1>1. CASE Switch
  <2>1. /\ rc' \in [pc : Steps, rate : Rates, ok : BOOLEAN, retry : BOOLEAN,
                    had : SUBSET Handles]
        /\ suspended' \in [Handles -> BOOLEAN]
    <3>1. PICK clocked \in BOOLEAN, opened \in BOOLEAN : AfterSwitch(clocked /\ opened)
      BY <1>1, OutcomesBoolean DEF Switch
    <3>2. (clocked /\ opened) \in BOOLEAN
      OBVIOUS
    <3> DEFINE ok == clocked /\ opened
    <3>3. AfterSwitch(ok) /\ ok \in BOOLEAN
      BY <3>1, <3>2
    <3> HIDE DEF ok
    <3>4. {h \in Handles : suspended[h]} \in SUBSET Handles
      OBVIOUS
    <3> DEFINE had == {h \in Handles : suspended[h]}
    <3> HIDE DEF had
    <3>5. CASE rc.rate = Native
      <4>1. /\ rc' = [rc EXCEPT !.pc = "resume_mono", !.ok = ok, !.had = had]
            /\ suspended' = [h \in Handles |-> FALSE]
        BY <3>3, <3>5 DEF AfterSwitch, had
      <4>2. had \in SUBSET Handles
        BY DEF had
      <4> QED
        BY <3>3, <4>1, <4>2 DEF Typed, Steps
    <3>6. CASE rc.rate # Native
      BY <3>3, <3>6 DEF AfterSwitch, Typed, Steps
    <3> QED
      BY <3>5, <3>6
  <2>2. {open_rate_, codec}' \subseteq Rates \cup {0} /\ clock' \in Rates
    BY <1>1 DEF Typed, Switch
  <2>3. upsets' \subseteq Upsets
    BY <1>1 DEF Typed, Switch, Noted, Outcomes, MayGo
  <2>4. /\ UNCHANGED <<codec_mutex, voice, voiceRate, streaming_, enabled_, amp, users,
                       capturing, open, cap_mutex, reading, reader, consumer, gain, gainCalls>>
        /\ rx' = FALSE
    BY <1>1 DEF Switch, muteVars, clientVars
  <2>5. {streaming_, enabled_, amp, rx}' \subseteq BOOLEAN
    BY <2>4 DEF Typed
  <2> QED
    BY <2>1, <2>2, <2>3, <2>4, <2>5 DEF Typed
<1>2. ASSUME NEW h \in Handles, Suspend(h) \/ SuspendClose(h) \/ SuspendSkip(h) \/ Resume(h)
      PROVE  Typed'
  <2>1. AfterSuspend[h] \in Steps /\ AfterResume[h] \in Steps /\ DrainStep[h] \in Steps
    BY Tables DEF Steps
  <2>2. /\ rc' \in [pc : Steps, rate : Rates, ok : BOOLEAN, retry : BOOLEAN,
                    had : SUBSET Handles]
        /\ cap_mutex' \in [Handles -> Consumers \cup {None, "httpd", "reclock"}]
        /\ UNCHANGED <<codec_mutex, voice, voiceRate, streaming_, open_rate_, codec, clock,
                       enabled_, amp, users, reading, reader, consumer, gain, gainCalls>>
    BY <1>2, <2>1 DEF Typed, Suspend, SuspendClose, SuspendSkip, Resume, muteVars, readVars,
                      clientVars
  <2>3. /\ \/ capturing' = capturing
           \/ \E b \in BOOLEAN : capturing' = [capturing EXCEPT ![h] = b]
        /\ \/ open' = open
           \/ \E b \in BOOLEAN : open' = [open EXCEPT ![h] = b]
        /\ \/ suspended' = suspended
           \/ suspended' = [suspended EXCEPT ![h] = TRUE]
        /\ rx' = rx \/ rx' \in BOOLEAN
    BY <1>2, OutcomesBoolean DEF Suspend, SuspendClose, SuspendSkip, Resume
  <2>4. rx \in BOOLEAN /\ {capturing, open, suspended} \subseteq [Handles -> BOOLEAN]
    BY DEF Typed
  <2>6. {capturing, open, suspended}' \subseteq [Handles -> BOOLEAN]
    BY <2>3, <2>4
  <2>7. rx' \in BOOLEAN
    BY <2>3, <2>4
  <2>5. upsets' \subseteq Upsets
    <3>1. upsets' = upsets \/ (MayGo("late") /\ upsets' = upsets \cup {"late"})
          \/ \E ok \in Outcomes(MicFits) : upsets' = upsets \cup Noted(MicFits, ok)
      BY <1>2 DEF Suspend, SuspendClose, SuspendSkip, Resume, readVars
    <3> QED
      BY <3>1, MicNoted DEF Typed, MayGo
  <2> QED
    BY <2>2, <2>5, <2>6, <2>7 DEF Typed
<1> QED
  BY <1>1, <1>2

(* The captures' side: who starts, reads, stops and changes the gain.      *)
MicStep ==
  \/ \E c \in Consumers : \/ Start(c) \/ Stop(c) \/ StopEnd(c)
                          \/ ReadClaim(c) \/ ReadCheck(c) \/ ReadEnd(c)
  \/ GainStop \/ GainClose \/ GainStart

LEMMA MicLeaves == MicStep => UNCHANGED <<codecVars, muteVars, suspended>>
BY DEF MicStep, Start, Stop, StopEnd, ReadClaim, ReadCheck, ReadEnd, GainStop, GainClose,
       GainStart, StartCapture, StopCapture, StopClose, handleVars

LEMMA MicTyped == Typed /\ MicStep => Typed'
<1> SUFFICES ASSUME Typed, MicStep
             PROVE  Typed'
  OBVIOUS
<1>1. ASSUME NEW h \in Handles, NEW how \in SUBSET Upsets, StartCapture(h, how)
      PROVE  /\ users' \in [Handles -> Nat] /\ cap_mutex' = cap_mutex
             /\ capturing' \in [Handles -> BOOLEAN] /\ open' \in [Handles -> BOOLEAN]
             /\ rx' \in BOOLEAN /\ upsets' \subseteq Upsets
  <2>1. /\ cap_mutex' = cap_mutex
        /\ users' \in [Handles -> Nat]
    BY <1>1, OutcomesBoolean DEF Typed, StartCapture
  <2>2. /\ \/ capturing' = capturing
           \/ \E b \in BOOLEAN : capturing' = [capturing EXCEPT ![h] = b]
        /\ \/ open' = open
           \/ \E b \in BOOLEAN : open' = [open EXCEPT ![h] = b]
        /\ rx' = rx \/ \E ok \in BOOLEAN : rx' = (rx \/ ok)
    BY <1>1, OutcomesBoolean DEF StartCapture
  <2>4. rx \in BOOLEAN /\ {capturing, open} \subseteq [Handles -> BOOLEAN]
    BY DEF Typed
  <2>5. {capturing, open}' \subseteq [Handles -> BOOLEAN]
    BY <2>2, <2>4
  <2>6. rx' \in BOOLEAN
    BY <2>2, <2>4
  <2>3. upsets' \subseteq Upsets
    <3>1. upsets \subseteq Upsets
      BY DEF Typed
    <3>2. CASE upsets' = upsets \cup how
      BY <3>1, <3>2
    <3>3. ASSUME NEW ok \in Outcomes(MicFits), upsets' = upsets \cup how \cup Noted(MicFits, ok)
          PROVE  upsets' \subseteq Upsets
      <4>1. Noted(MicFits, ok) \subseteq Upsets
        BY MicNoted
      <4> QED
        BY <3>1, <3>3, <4>1
    <3> QED
      BY <1>1, <3>2, <3>3 DEF StartCapture
  <2> QED
    BY <2>1, <2>3, <2>5, <2>6
<1>2. ASSUME NEW h \in Handles, NEW who \in Consumers \cup {"httpd"}, StopCapture(h, who)
      PROVE  /\ users' \in [Handles -> Nat] /\ UNCHANGED <<open, rx>>
             /\ capturing' \in [Handles -> BOOLEAN]
             /\ cap_mutex' \in [Handles -> Consumers \cup {None, "httpd", "reclock"}]
  BY <1>2 DEF Typed, StopCapture, LastUser
<1>3. ASSUME NEW h \in Handles, NEW who \in Consumers \cup {"httpd"}, StopClose(h, who)
      PROVE  /\ UNCHANGED <<users, capturing>> /\ rx' \in BOOLEAN
             /\ open' \in [Handles -> BOOLEAN] /\ upsets' \subseteq Upsets
             /\ cap_mutex' \in [Handles -> Consumers \cup {None, "httpd", "reclock"}]
  BY <1>3 DEF Typed, StopClose, MayGo
<1>4. ASSUME NEW c \in Consumers, Start(c) \/ Stop(c) \/ StopEnd(c)
      PROVE  Typed'
  <2>1. HandleOf[c] \in Handles
    BY HandlesAssumption
  <2>2. /\ consumer' \in [Consumers -> {"stopped", "started", "draining"}]
        /\ UNCHANGED <<reading, reader, gain, gainCalls>>
    BY <1>4 DEF Typed, Start, Stop, StopEnd, readVars
  <2>3. CASE Start(c)
    <3>1. {} \in SUBSET Upsets /\ (MayGo("rude") => {"rude"} \in SUBSET Upsets)
      BY DEF MayGo
    <3>2. PICK how \in SUBSET Upsets : StartCapture(HandleOf[c], how)
      BY <2>3, <3>1 DEF Start
    <3> QED
      BY <1>1, <2>1, <2>2, <3>2, <1>4, MicLeaves DEF MicStep, Typed, codecVars, muteVars
  <2>4. CASE Stop(c)
    <3>1. StopCapture(HandleOf[c], c) /\ upsets' = upsets
      BY <2>4 DEF Stop, readVars
    <3> QED
      BY <1>2, <2>1, <2>2, <3>1, <1>4, MicLeaves DEF MicStep, Typed, codecVars, muteVars
  <2>5. CASE StopEnd(c)
    <3>1. StopClose(HandleOf[c], c)
      BY <2>5 DEF StopEnd
    <3> QED
      BY <1>3, <2>1, <2>2, <3>1, <1>4, MicLeaves DEF MicStep, Typed, codecVars, muteVars
  <2> QED
    BY <1>4, <2>3, <2>4, <2>5
<1>5. ASSUME NEW c \in Consumers, ReadClaim(c) \/ ReadCheck(c) \/ ReadEnd(c)
      PROVE  Typed'
  <2>1. HandleOf[c] \in Handles
    BY HandlesAssumption
  <2>2. /\ reading' \in [Handles -> BOOLEAN]
        /\ reader' \in [Consumers -> {"out", "claimed", "in"}]
        /\ UNCHANGED <<handleVars, upsets, clientVars>>
    BY <1>5, <2>1 DEF Typed, ReadClaim, ReadCheck, ReadEnd
  <2> QED
    BY <2>2, <1>5, MicLeaves DEF MicStep, Typed, codecVars, muteVars, handleVars, clientVars
<1>6. ASSUME GainStop \/ GainClose \/ GainStart
      PROVE  Typed'
  <2>1. "mono" \in Handles /\ {} \in SUBSET Upsets
    BY DEF Handles
  <2>2. /\ gain' \in {"idle", "draining", "stopped"} /\ gainCalls' \in 0 .. MaxGainCalls
        /\ UNCHANGED <<reading, reader, consumer>>
    BY <1>6, GainAssumption DEF Typed, GainStop, GainClose, GainStart
  <2>3. CASE GainStop
    <3>1. StopCapture("mono", "httpd") /\ upsets' \subseteq Upsets
      BY <2>3 DEF GainStop, MayGo, Typed
    <3> QED
      BY <1>2, <2>1, <2>2, <3>1, <1>6, MicLeaves DEF MicStep, Typed, codecVars, muteVars
  <2>4. CASE GainClose
    <3>1. StopClose("mono", "httpd")
      BY <2>4 DEF GainClose
    <3> QED
      BY <1>3, <2>1, <2>2, <3>1, <1>6, MicLeaves DEF MicStep, Typed, codecVars, muteVars
  <2>5. CASE GainStart
    <3>1. StartCapture("mono", {})
      BY <2>5 DEF GainStart
    <3> QED
      BY <1>1, <2>1, <2>2, <3>1, <1>6, MicLeaves DEF MicStep, Typed, codecVars, muteVars
  <2> QED
    BY <1>6, <2>3, <2>4, <2>5
<1> QED
  BY <1>4, <1>5, <1>6 DEF MicStep

(* Next, sorted by the side it belongs to.                                 *)
CodecStep ==
  \/ FallBack \/ ChimeTake \/ ChimeGive \/ Voice \/ EndStream
  \/ ProbeTake \/ ProbeGive
  \/ \E rate \in StreamRates : BeginStream(rate)
  \/ \E on \in BOOLEAN : SetEnabled(on)

ReclockStep == \E h \in Handles : Suspend(h) \/ SuspendClose(h) \/ SuspendSkip(h) \/ Resume(h)

LEMMA PortSteps ==
  [Next]_vars => CodecStep \/ Switch \/ ReclockStep \/ MicStep \/ UNCHANGED vars
BY DEF Next, Reclock, CodecStep, ReclockStep, MicStep

LEMMA TypesKept == Typed /\ [Next]_vars => Typed'
<1>1. Typed /\ UNCHANGED vars => Typed'
  BY DEF Typed, vars, codecVars, muteVars, handleVars, readVars, clientVars
<1> QED
  BY <1>1, PortSteps, CodecTyped, ReclockTyped, MicTyped DEF CodecStep, ReclockStep

-----------------------------------------------------------------------------
(* Where a reclock goes, step by step.                                     *)
LEMMA SuspendDone ==
  ASSUME Typed, NEW h \in Handles, Suspend(h)
  PROVE  /\ rc.pc = SuspendStep[h] /\ cap_mutex[h] = None
         /\ rc'.pc = IF capturing[h] THEN DrainStep[h] ELSE AfterSuspend[h]
         /\ rc'.rate = rc.rate /\ rc'.retry = rc.retry /\ rc'.ok = rc.ok /\ rc'.had = rc.had
         /\ UNCHANGED <<codec_mutex, voice, voiceRate, streaming_, open_rate_, codec, clock,
                        users, open, suspended, rx, reading, reader, consumer, gain,
                        gainCalls, upsets>>
BY DEF Typed, Suspend, readVars, clientVars

LEMMA DrainDone ==
  ASSUME Typed, NEW h \in Handles, SuspendClose(h) \/ SuspendSkip(h)
  PROVE  /\ rc.pc = DrainStep[h]
         /\ rc'.pc = AfterSuspend[h]
         /\ rc'.rate = rc.rate /\ rc'.retry = rc.retry /\ rc'.ok = rc.ok /\ rc'.had = rc.had
         /\ cap_mutex' = [cap_mutex EXCEPT ![h] = None]
         /\ UNCHANGED <<codec_mutex, voice, voiceRate, streaming_, open_rate_, codec, clock,
                        users, reading, reader, consumer, gain, gainCalls>>
         /\ \/ SuspendClose(h) /\ UNCHANGED <<upsets, capturing>>
            \/ SuspendSkip(h) /\ upsets' = upsets \cup {"late"} /\ UNCHANGED <<open, suspended, rx>>
BY DEF Typed, SuspendClose, SuspendSkip, readVars, clientVars

LEMMA ResumeDone ==
  ASSUME Typed, NEW h \in Handles, Resume(h)
  PROVE  /\ rc.pc = ResumeStep[h]
         /\ rc'.pc = AfterResume[h]
         /\ rc'.rate = rc.rate /\ rc'.retry = rc.retry /\ rc'.ok = rc.ok /\ rc'.had = rc.had
         /\ UNCHANGED <<codec_mutex, voice, voiceRate, streaming_, open_rate_, codec, clock,
                        users, suspended, cap_mutex, reading, reader, consumer, gain,
                        gainCalls>>
BY DEF Typed, Resume, readVars, clientVars

LEMMA SwitchDone ==
  ASSUME Typed, Switch
  PROVE  /\ rc.pc = "switch"
         /\ rc'.pc = IF rc.rate = Native THEN "resume_mono" ELSE "done"
         /\ rc'.rate = rc.rate /\ rc'.retry = rc.retry
         /\ rx' = FALSE
         /\ IF rc.rate = Native
            THEN /\ rc'.had = {h \in Handles : suspended[h]}
                 /\ suspended' = [h \in Handles |-> FALSE]
            ELSE UNCHANGED suspended
         /\ rc'.ok => codec' = rc.rate /\ clock' = rc.rate /\ open_rate_' = rc.rate
         /\ ~rc'.ok => UNCHANGED <<codec, open_rate_>>
         /\ rc'.ok \in BOOLEAN
         /\ upsets \subseteq upsets'
         /\ "failed" \notin upsets' => (rc'.ok <=> SpeakerFits(rc.rate)) /\ clock' = rc.rate
         /\ upsets' \subseteq upsets \cup {"failed"}
         /\ UNCHANGED <<codec_mutex, voice, voiceRate, streaming_, users, capturing,
                        open, cap_mutex, reading, reader, consumer, gain, gainCalls>>
<1> DEFINE fits == SpeakerFits(rc.rate)
<1>1. fits \in BOOLEAN
  BY DEF SpeakerFits
<1>2. PICK clocked \in Outcomes(TRUE), opened \in Outcomes(fits) :
        /\ clock' = IF clocked THEN rc.rate ELSE clock
        /\ codec' = IF clocked /\ opened THEN rc.rate ELSE codec
        /\ open_rate_' = IF clocked /\ opened THEN rc.rate ELSE open_rate_
        /\ AfterSwitch(clocked /\ opened)
        /\ upsets' = upsets \cup Noted(TRUE, clocked)
                            \cup Noted(clocked /\ fits, opened)
  BY DEF Switch
<1> HIDE DEF fits
<1>3. clocked \in BOOLEAN /\ opened \in BOOLEAN
  BY <1>1, Outcome
<1>4. opened => fits
  BY DEF Outcomes
<1>5. /\ Noted(TRUE, clocked) = IF ~clocked THEN {"failed"} ELSE {}
      /\ Noted(clocked /\ fits, opened) = IF clocked /\ fits /\ ~opened THEN {"failed"} ELSE {}
  BY DEF Noted
<1> DEFINE ok == clocked /\ opened
<1>6. AfterSwitch(ok) /\ ok \in BOOLEAN
  BY <1>2, <1>3
<1>7. /\ upsets \subseteq upsets' /\ upsets' \subseteq upsets \cup {"failed"}
      /\ "failed" \notin upsets' => clocked /\ (ok <=> fits)
  BY <1>1, <1>2, <1>3, <1>4, <1>5
<1>8. /\ ok => codec' = rc.rate /\ clock' = rc.rate /\ open_rate_' = rc.rate
      /\ ~ok => UNCHANGED <<codec, open_rate_>>
      /\ clocked => clock' = rc.rate
  BY <1>2, <1>3
<1> HIDE DEF ok
<1>9. rc'.ok = ok
  BY <1>6 DEF AfterSwitch, Typed
<1>10. /\ rc.pc = "switch" /\ rx' = FALSE
       /\ UNCHANGED <<codec_mutex, voice, voiceRate, streaming_, users, capturing,
                      open, cap_mutex, reading, reader, consumer, gain, gainCalls>>
  BY DEF Switch, clientVars
<1> DEFINE had == {h \in Handles : suspended[h]}
<1> HIDE DEF had
<1>11. /\ rc'.pc = IF rc.rate = Native THEN "resume_mono" ELSE "done"
       /\ rc'.rate = rc.rate /\ rc'.retry = rc.retry
       /\ IF rc.rate = Native
          THEN rc'.had = had /\ suspended' = [h \in Handles |-> FALSE]
          ELSE UNCHANGED suspended
  <2>1. CASE rc.rate = Native
    <3>1. /\ rc' = [rc EXCEPT !.pc = "resume_mono", !.ok = ok, !.had = had]
          /\ suspended' = [h \in Handles |-> FALSE]
      BY <1>6, <2>1 DEF AfterSwitch, had
    <3> QED
      BY <2>1, <3>1 DEF Typed
  <2>2. CASE rc.rate # Native
    BY <1>6, <2>2 DEF AfterSwitch, Typed
  <2> QED
    BY <2>1, <2>2
<1> QED
  BY <1>6, <1>7, <1>8, <1>9, <1>10, <1>11 DEF fits, had

LEMMA ReclockStarts ==
  ASSUME NEW rate, NEW retry, StartReclock(rate, retry)
  PROVE  /\ codec' = 0 /\ rc'.pc = "suspend_mono" /\ rc'.rate = rate /\ rc'.retry = retry
         /\ rc'.ok = FALSE /\ rc'.had = {}
BY DEF StartReclock

(* The codec's seat is taken and given as Seats says.                      *)
LEMMA SeatsKept == Typed /\ Seats /\ [Next]_vars => Seats'
<1> SUFFICES ASSUME Typed, Seats, [Next]_vars
             PROVE  Seats'
  OBVIOUS
<1>1. /\ Idle.pc = "off" /\ Idle.rate = Native /\ Idle.retry = FALSE
      /\ None \notin {"audio", "voice", "probe"}
  BY Names DEF Idle
<1>2. CASE UNCHANGED <<codec_mutex, voice, voiceRate, rc, streaming_, open_rate_>>
  BY <1>2 DEF Seats
<1>3. CASE ReclockStep
  <2>1. PICK h \in Handles : Suspend(h) \/ SuspendClose(h) \/ SuspendSkip(h) \/ Resume(h)
    BY <1>3 DEF ReclockStep
  <2>2. /\ UNCHANGED <<codec_mutex, voice, voiceRate, streaming_, open_rate_>>
        /\ rc'.rate = rc.rate /\ rc'.retry = rc.retry
        /\ rc.pc # "off" /\ rc'.pc # "off"
        /\ rc'.pc \in {"resume_mono", "resume_wake"} =>
             rc.pc \in {"resume_mono", "resume_wake"}
    BY <2>1, Tables, SuspendDone, DrainDone, ResumeDone
  <2> QED
    BY <2>2 DEF Seats
<1>4. CASE Switch
  <2>1. /\ UNCHANGED <<codec_mutex, voice, voiceRate, streaming_>>
        /\ rc'.rate = rc.rate /\ rc'.retry = rc.retry
        /\ rc.pc # "off" /\ rc'.pc # "off"
        /\ rc'.pc \in {"resume_mono", "resume_wake"} => rc.rate = Native
    BY <1>4, SwitchDone
  <2> QED
    BY <2>1 DEF Seats
<1>5. CASE FallBack
  BY <1>5, ReclockStarts DEF FallBack, Seats, Typed
<1>6. CASE ChimeTake
  <2>1. codec_mutex = None /\ rc.pc = "off" /\ rc.rate = Native /\ ~rc.retry
    BY <1>1, <1>6 DEF ChimeTake, Seats
  <2> QED
    BY <1>1, <1>6, <2>1, ReclockStarts DEF ChimeTake, Seats
<1>7. CASE ChimeGive
  BY <1>1, <1>7 DEF ChimeGive, Seats
<1>8. CASE \E rate \in StreamRates : BeginStream(rate)
  BY <1>1, <1>8 DEF BeginStream, Seats
<1>9. CASE BeginTake
  BY <1>1, <1>9, ReclockStarts DEF BeginTake, Seats
<1>10. CASE BeginOk
  BY <1>1, <1>10 DEF BeginOk, Seats
<1>11. CASE BeginFail
  BY <1>1, <1>11 DEF BeginFail, Seats
<1>12. CASE EndStream
  BY <1>1, <1>12, ReclockStarts DEF EndStream, Seats
<1>13. CASE EndGive
  BY <1>1, <1>13 DEF EndGive, Seats
<1>14. CASE ProbeTake \/ ProbeGive
  BY <1>1, <1>14 DEF ProbeTake, ProbeGive, Seats
<1>15. CASE \E on \in BOOLEAN : SetEnabled(on)
  BY <1>2, <1>15 DEF SetEnabled, codecVars
<1>16. CASE MicStep \/ UNCHANGED vars
  BY <1>2, <1>16, MicLeaves DEF codecVars, vars
<1> QED
  BY PortSteps, <1>3, <1>4, <1>5, <1>6, <1>7, <1>8, <1>9, <1>10, <1>11, <1>12, <1>13, <1>14,
     <1>15, <1>16 DEF CodecStep, Voice

(* While nothing fails the remembered rate is true.                        *)
LEMMA UpsetsGrow == [Next]_vars => upsets \subseteq upsets'
BY DEF Next, Reclock, Voice, Suspend, SuspendClose, SuspendSkip, Resume, Switch, FallBack,
   ChimeTake, ChimeGive, BeginStream, BeginTake, BeginOk, BeginFail, EndStream, EndGive,
   SetEnabled, Start, Stop, StopEnd, ReadClaim, ReadCheck, ReadEnd, GainStop, GainClose,
   GainStart, ProbeTake, ProbeGive, StartCapture, StopClose, vars, readVars

LEMMA ClockedKept == Typed /\ Seats /\ Clocked /\ [Next]_vars => Clocked'
<1> SUFFICES ASSUME Typed, Seats, Clocked, [Next]_vars, "failed" \notin upsets'
             PROVE  Clocked'
  BY DEF Clocked
<1>1. "failed" \notin upsets
  BY UpsetsGrow
<1>2. /\ Idle.pc = "off" /\ Idle.rate = Native /\ Idle.retry = FALSE
      /\ None \notin {"audio", "voice", "probe"} /\ "off" \notin Switched
      /\ "suspend_mono" \notin Switched /\ "done" \in Switched
  BY Names DEF Idle, Switched
<1>3. CASE UNCHANGED <<voice, voiceRate, rc, open_rate_, codec, clock>>
  BY <1>1, <1>3 DEF Clocked
<1>4. CASE ReclockStep
  <2>1. PICK h \in Handles : Suspend(h) \/ SuspendClose(h) \/ SuspendSkip(h) \/ Resume(h)
    BY <1>4 DEF ReclockStep
  <2>2. /\ UNCHANGED <<voice, voiceRate, open_rate_, codec, clock>>
        /\ rc'.rate = rc.rate /\ rc'.retry = rc.retry /\ rc'.ok = rc.ok
        /\ rc.pc # "off" /\ rc'.pc # "off"
        /\ rc'.pc \in Switched => rc.pc \in Switched
    BY <2>1, Tables, SuspendDone, DrainDone, ResumeDone DEF Switched
  <2> QED
    BY <1>1, <2>2 DEF Clocked
<1>5. CASE Switch
  <2>1. /\ UNCHANGED <<voice, voiceRate>>
        /\ rc'.rate = rc.rate /\ rc'.retry = rc.retry
        /\ rc.pc # "off" /\ rc'.pc # "off"
        /\ rc'.ok => codec' = rc.rate /\ clock' = rc.rate /\ open_rate_' = rc.rate
        /\ rc'.ok <=> SpeakerFits(rc.rate)
    BY <1>5, SwitchDone
  <2>2. rc.rate = Native => SpeakerFits(rc.rate)
    BY DEF SpeakerFits
  <2>3. voice \notin {"idle", "waiting", "streaming"}
    BY <1>1, <2>1 DEF Clocked, Seats, Typed
  <2> QED
    BY <1>1, <2>1, <2>2, <2>3 DEF Clocked
<1>6. CASE FallBack
  <2>1. rc.pc = "done" /\ voice = "begin" /\ UNCHANGED <<voice, voiceRate>>
    BY <1>1, <1>2, <1>6 DEF FallBack, Clocked, Seats, Typed
  <2> QED
    BY <1>1, <1>2, <1>6, <2>1, ReclockStarts DEF FallBack, Clocked
<1>7. CASE ChimeTake
  <2>1. voice \in {"idle", "waiting"}
    BY <1>2, <1>7 DEF ChimeTake, Seats, Typed
  <2> QED
    BY <1>1, <1>7, <2>1 DEF ChimeTake, Clocked
<1>8. CASE ChimeGive
  <2>1. voice \in {"idle", "waiting"} /\ rc.pc = "off"
    BY <1>1, <1>2, <1>8 DEF ChimeGive, Seats, Typed, Clocked
  <2>2. SettledRate = open_rate_
    BY <2>1 DEF SettledRate
  <2> QED
    BY <1>1, <1>2, <1>8, <2>1, <2>2 DEF ChimeGive, Clocked
<1>9. CASE \E rate \in StreamRates : BeginStream(rate)
  BY <1>1, <1>9 DEF BeginStream, Clocked
<1>10. CASE BeginTake
  BY <1>1, <1>2, <1>10, ReclockStarts DEF BeginTake, Clocked
<1>11. CASE BeginOk
  BY <1>1, <1>2, <1>11 DEF BeginOk, Clocked, Seats, Settled, RateReached
<1>12. CASE BeginFail
  <2>1. rc.pc = "done" /\ rc.retry /\ rc.rate = Native /\ rc.ok
    BY <1>1, <1>2, <1>12 DEF BeginFail, Clocked, Seats, Settled, RateReached, Typed
  <2>2. SettledRate = open_rate_
    BY <2>1 DEF SettledRate
  <2> QED
    BY <1>1, <1>2, <1>12, <2>1, <2>2 DEF BeginFail, Clocked
<1>13. CASE EndStream
  BY <1>1, <1>2, <1>13, ReclockStarts DEF EndStream, Clocked
<1>14. CASE EndGive
  BY <1>1, <1>2, <1>14 DEF EndGive, Clocked, Seats, Settled
<1>15. CASE ProbeTake \/ ProbeGive
  BY <1>3, <1>15 DEF ProbeTake, ProbeGive
<1>16. CASE \E on \in BOOLEAN : SetEnabled(on)
  BY <1>3, <1>16 DEF SetEnabled, codecVars
<1>17. CASE MicStep \/ UNCHANGED vars
  BY <1>3, <1>17, MicLeaves DEF codecVars, vars
<1> QED
  BY PortSteps, <1>4, <1>5, <1>6, <1>7, <1>8, <1>9, <1>10, <1>11, <1>12, <1>13, <1>14,
     <1>15, <1>16, <1>17 DEF CodecStep, Voice

(* Handles change hands only as Wound says.                                *)
LEMMA StartKeepsWound ==
  ASSUME Typed, Wound, NEW h \in Handles, NEW how, StartCapture(h, how),
         rc' = rc, NEW g \in Handles,
         \A c \in Consumers : consumer'[c] = "draining" <=> consumer[c] = "draining",
         gain' = "draining" <=> gain = "draining"
  PROVE  WoundAt(g)'
<1>1. WoundAt(g) /\ WoundAt(h)
  BY DEF Wound
<1>2. CASE g # h
  <2>1. /\ users'[g] = users[g] /\ open'[g] = open[g] /\ capturing'[g] = capturing[g]
        /\ cap_mutex'[g] = cap_mutex[g]
    BY <1>2 DEF StartCapture, Typed
  <2> QED
    BY <1>1, <2>1 DEF WoundAt
<1>3. CASE g = h
  <2>1. cap_mutex[h] = None /\ cap_mutex'[h] = None
    BY DEF StartCapture
  <2>2. \/ users[h] > 0 /\ users'[h] = users[h] + 1
           /\ open'[h] = open[h] /\ capturing'[h] = capturing[h]
        \/ \E ok \in BOOLEAN : /\ users'[h] = (IF ok THEN 1 ELSE 0)
                               /\ open'[h] = ok /\ capturing'[h] = ok
    BY OutcomesBoolean DEF StartCapture, Typed
  <2>3. /\ capturing'[h] => open'[h] /\ users'[h] > 0
        /\ open'[h] => capturing'[h]
    BY <1>1, <2>1, <2>2 DEF WoundAt, Typed
  <2>4. None \notin Consumers /\ None # "httpd" /\ None # "reclock"
    BY Names
  <2> QED
    BY <1>1, <1>3, <2>1, <2>3, <2>4 DEF WoundAt
<1> QED
  BY <1>2, <1>3

LEMMA StopKeepsWound ==
  ASSUME Typed, Wound, NEW h \in Handles, NEW who \in Consumers \cup {"httpd"},
         StopCapture(h, who), rc' = rc, NEW g \in Handles,
         who \in Consumers => HandleOf[who] = h,
         \A c \in Consumers : consumer'[c] = "draining" <=>
           consumer[c] = "draining" \/ (c = who /\ LastUser(h)),
         gain' = "draining" <=> gain = "draining" \/ (who = "httpd" /\ LastUser(h)),
         who = "httpd" => h = "mono"
  PROVE  WoundAt(g)'
<1>1. WoundAt(g) /\ WoundAt(h)
  BY DEF Wound
<1>2. /\ None \notin Consumers /\ None # "httpd" /\ None # "reclock"
      /\ "httpd" \notin Consumers /\ "reclock" \notin Consumers
  BY Names
<1>3. CASE g # h
  <2>1. /\ users'[g] = users[g] /\ open'[g] = open[g] /\ capturing'[g] = capturing[g]
        /\ cap_mutex'[g] = cap_mutex[g]
    BY <1>3 DEF StopCapture, Typed
  <2>2. gain' = "draining" /\ g = "mono" <=> gain = "draining" /\ g = "mono"
    BY <1>3
  <2>3. \A c \in Consumers : consumer'[c] = "draining" /\ HandleOf[c] = g <=>
                             consumer[c] = "draining" /\ HandleOf[c] = g
    BY <1>2, <1>3
  <2> QED
    BY <1>1, <2>1, <2>2, <2>3 DEF WoundAt
<1>4. CASE g = h
  <2>1. /\ cap_mutex[h] = None /\ cap_mutex'[h] = (IF LastUser(h) THEN who ELSE None)
        /\ users'[h] = (IF users[h] > 0 THEN users[h] - 1 ELSE 0)
        /\ capturing'[h] = (capturing[h] /\ ~LastUser(h)) /\ open'[h] = open[h]
        /\ users[h] \in Nat
    BY DEF StopCapture, Typed
  <2>2. CASE LastUser(h)
    <3>1. open'[h] /\ ~capturing'[h] /\ cap_mutex'[h] = who
      BY <1>1, <2>1, <2>2 DEF WoundAt, LastUser
    <3>2. \A c \in Consumers : cap_mutex'[h] = c <=> consumer'[c] = "draining" /\ HandleOf[c] = h
      BY <1>1, <1>2, <2>1, <2>2, <3>1 DEF WoundAt
    <3>3. cap_mutex'[h] = "httpd" <=> gain' = "draining" /\ h = "mono"
      BY <1>1, <1>2, <2>1, <2>2, <3>1 DEF WoundAt
    <3> QED
      BY <1>1, <1>2, <1>4, <2>1, <3>1, <3>2, <3>3 DEF WoundAt
  <2>3. CASE ~LastUser(h)
    <3>1. capturing'[h] = capturing[h] /\ (capturing[h] => users'[h] > 0)
      BY <1>1, <2>1, <2>3 DEF WoundAt, LastUser, Typed
    <3> QED
      BY <1>1, <1>2, <1>4, <2>1, <2>3, <3>1 DEF WoundAt
  <2> QED
    BY <2>2, <2>3
<1> QED
  BY <1>3, <1>4

LEMMA CloseKeepsWound ==
  ASSUME Typed, Wound, NEW h \in Handles, NEW who \in Consumers \cup {"httpd"},
         StopClose(h, who), rc' = rc, NEW g \in Handles,
         who \in Consumers => HandleOf[who] = h,
         \A c \in Consumers : consumer'[c] = "draining" <=> consumer[c] = "draining" /\ c # who,
         gain' = "draining" <=> gain = "draining" /\ who # "httpd",
         who = "httpd" => h = "mono"
  PROVE  WoundAt(g)'
<1>1. WoundAt(g) /\ WoundAt(h)
  BY DEF Wound
<1>2. /\ None \notin Consumers /\ None # "httpd" /\ None # "reclock"
      /\ "httpd" \notin Consumers /\ "reclock" \notin Consumers
  BY Names
<1>3. CASE g # h
  <2>1. /\ users'[g] = users[g] /\ open'[g] = open[g] /\ capturing'[g] = capturing[g]
        /\ cap_mutex'[g] = cap_mutex[g]
    BY <1>3 DEF StopClose, Typed
  <2>2. gain' = "draining" /\ g = "mono" <=> gain = "draining" /\ g = "mono"
    BY <1>3
  <2>3. \A c \in Consumers : consumer'[c] = "draining" /\ HandleOf[c] = g <=>
                             consumer[c] = "draining" /\ HandleOf[c] = g
    BY <1>2, <1>3
  <2> QED
    BY <1>1, <2>1, <2>2, <2>3 DEF WoundAt
<1>4. CASE g = h
  <2>1. /\ cap_mutex[h] = who /\ cap_mutex'[h] = None
        /\ users'[h] = users[h] /\ capturing'[h] = capturing[h] /\ ~open'[h]
    BY DEF StopClose, Typed
  <2>2. ~capturing'[h]
    BY <1>1, <1>2, <2>1 DEF WoundAt
  <2>3. \A c \in Consumers : ~(consumer'[c] = "draining" /\ HandleOf[c] = h)
    BY <1>1, <1>2, <2>1 DEF WoundAt
  <2>4. ~(gain' = "draining" /\ h = "mono")
    BY <1>1, <1>2, <2>1 DEF WoundAt
  <2> QED
    BY <1>1, <1>2, <1>4, <2>1, <2>2, <2>3, <2>4 DEF WoundAt
<1> QED
  BY <1>3, <1>4

LEMMA ReclockKeepsWound ==
  ASSUME Typed, Wound, NEW h \in Handles,
         Suspend(h) \/ SuspendClose(h) \/ SuspendSkip(h) \/ Resume(h), NEW g \in Handles
  PROVE  WoundAt(g)'
<1>1. WoundAt(g) /\ WoundAt(h)
  BY DEF Wound
<1>2. /\ None \notin Consumers /\ None # "httpd" /\ None # "reclock"
      /\ "httpd" \notin Consumers /\ "reclock" \notin Consumers
  BY Names
<1>3. UNCHANGED <<users, consumer, gain>> /\ users[h] \in Nat
  BY SuspendDone, DrainDone, ResumeDone DEF Typed
<1>4. CASE g # h
  <2>1. /\ open'[g] = open[g] /\ capturing'[g] = capturing[g] /\ cap_mutex'[g] = cap_mutex[g]
    BY <1>4 DEF Suspend, SuspendClose, SuspendSkip, Resume, Typed
  <2>2. rc'.pc = DrainStep[g] <=> rc.pc = DrainStep[g]
    BY <1>4, Tables, SuspendDone, DrainDone, ResumeDone
  <2> QED
    BY <1>1, <1>3, <2>1, <2>2 DEF WoundAt
<1>5. ASSUME g = h, Suspend(h)
      PROVE  WoundAt(h)'
  <2>1. CASE capturing[h]
    <3>1. /\ ~capturing'[h] /\ cap_mutex'[h] = "reclock" /\ open'[h] = open[h]
          /\ cap_mutex[h] = None
          /\ rc'.pc = DrainStep[h]
      BY <1>5, <2>1 DEF Suspend, Typed
    <3> QED
      BY <1>1, <1>2, <1>3, <2>1, <3>1 DEF WoundAt
  <2>2. CASE ~capturing[h]
    <3>1. /\ UNCHANGED <<capturing, cap_mutex, open>> /\ cap_mutex[h] = None
          /\ rc'.pc = AfterSuspend[h] /\ rc.pc = SuspendStep[h]
      BY <1>5, <2>2 DEF Suspend, Typed
    <3>2. rc'.pc # DrainStep[h]
      BY <3>1, Tables
    <3> QED
      BY <1>1, <1>2, <1>3, <2>2, <3>1, <3>2 DEF WoundAt
  <2> QED
    BY <2>1, <2>2
<1>6. ASSUME g = h, SuspendClose(h) \/ SuspendSkip(h)
      PROVE  WoundAt(h)'
  <2>1. rc.pc = DrainStep[h] /\ rc'.pc = AfterSuspend[h] /\ cap_mutex'[h] = None
    BY <1>6, DrainDone DEF Typed
  <2>2. rc'.pc # DrainStep[h] /\ cap_mutex[h] = "reclock"
    BY <1>1, <2>1, Tables DEF WoundAt
  <2>3. open[h] /\ ~capturing[h] /\ users[h] > 0
    BY <1>1, <1>2, <2>2 DEF WoundAt
  <2>4. open'[h] <=> capturing'[h]
    <3>1. CASE SuspendClose(h)
      <4>1. open'[h] = FALSE /\ capturing'[h] = capturing[h]
        BY <3>1 DEF SuspendClose, Typed
      <4> QED
        BY <2>3, <4>1
    <3>2. CASE SuspendSkip(h)
      <4>1. open'[h] = open[h] /\ capturing'[h] = TRUE
        BY <3>2 DEF SuspendSkip, Typed
      <4> QED
        BY <2>3, <4>1
    <3> QED
      BY <1>6, <3>1, <3>2
  <2>5. /\ ~(gain = "draining" /\ h = "mono")
        /\ \A c \in Consumers : ~(consumer[c] = "draining" /\ HandleOf[c] = h)
    BY <1>1, <1>2, <2>2 DEF WoundAt
  <2> QED
    BY <1>2, <1>3, <2>1, <2>2, <2>3, <2>4, <2>5 DEF WoundAt
<1>7. ASSUME g = h, Resume(h)
      PROVE  WoundAt(h)'
  <2>1. rc'.pc # DrainStep[h] /\ rc.pc # DrainStep[h] /\ UNCHANGED cap_mutex
    BY <1>7, ResumeDone, Tables
  <2>2. CASE ~Wanted(h)
    <3>1. UNCHANGED <<open, capturing>>
      BY <1>7, <2>2 DEF Resume
    <3> QED
      BY <1>1, <1>3, <2>1, <3>1 DEF WoundAt
  <2>3. CASE Wanted(h)
    <3>1. cap_mutex[h] = None /\ users[h] > 0
      BY <1>7, <2>3 DEF Resume, Wanted
    <3>2. \E ok \in BOOLEAN : open'[h] = ok /\ capturing'[h] = ok
      BY <1>7, <2>3, OutcomesBoolean DEF Resume, Typed
    <3> QED
      BY <1>1, <1>2, <1>3, <2>1, <3>1, <3>2 DEF WoundAt
  <2> QED
    BY <2>2, <2>3
<1> QED
  BY <1>4, <1>5, <1>6, <1>7

(* The speaker's steps leave the handles and their clients alone, and are  *)
(* taken while no drain of a reclock is under way.                         *)
LEMMA CodecLeaves ==
  ASSUME CodecStep, Typed, Seats
  PROVE  /\ UNCHANGED <<users, capturing, open, cap_mutex, suspended, readVars, clientVars>>
         /\ \/ rc' = rc
            \/ rc.pc = "off" /\ rc'.pc = "suspend_mono"
            \/ rc.pc = "done" /\ rc'.pc \in {"off", "suspend_mono"}
<1>1. Idle.pc = "off" /\ None \notin {"audio", "voice", "probe"}
  BY Names DEF Idle
<1>2. UNCHANGED <<users, capturing, open, cap_mutex, suspended, readVars, clientVars>>
  BY DEF CodecStep, FallBack, ChimeTake, ChimeGive, Voice, BeginTake, BeginOk, BeginFail,
         EndGive, EndStream, ProbeTake, ProbeGive, BeginStream, SetEnabled,
         handleVars, readVars, clientVars
<1>3. CASE FallBack
  BY <1>2, <1>3, ReclockStarts DEF FallBack
<1>4. CASE ChimeTake \/ BeginTake \/ EndStream
  <2>1. rc.pc = "off"
    BY <1>1, <1>4 DEF ChimeTake, BeginTake, EndStream, Seats
  <2> QED
    BY <1>2, <1>4, <2>1, ReclockStarts DEF ChimeTake, BeginTake, EndStream
<1>5. CASE ChimeGive \/ BeginOk \/ BeginFail \/ EndGive
  <2>1. rc' = Idle /\ (rc.pc = "off" \/ rc.pc = "done")
    BY <1>5 DEF ChimeGive, BeginOk, BeginFail, EndGive, Settled
  <2> QED
    BY <1>1, <1>2, <2>1 DEF Seats
<1>6. CASE \/ ProbeTake \/ ProbeGive
           \/ \E rate \in StreamRates : BeginStream(rate)
           \/ \E on \in BOOLEAN : SetEnabled(on)
  BY <1>2, <1>6 DEF ProbeTake, ProbeGive, BeginStream, SetEnabled, codecVars
<1> QED
  BY <1>2, <1>3, <1>4, <1>5, <1>6 DEF CodecStep, Voice

LEMMA WoundKept == Typed /\ Seats /\ Wound /\ [Next]_vars => Wound'
<1> SUFFICES ASSUME Typed, Seats, Wound, [Next]_vars, NEW g \in Handles
             PROVE  WoundAt(g)'
  BY DEF Wound
<1>1. CASE ReclockStep
  BY <1>1, ReclockKeepsWound DEF ReclockStep
<1>2. CASE CodecStep \/ Switch
  <2>1. UNCHANGED <<users, capturing, open, cap_mutex, consumer, gain>>
    BY <1>2, CodecLeaves, SwitchDone DEF clientVars
  <2>2. rc'.pc = DrainStep[g] <=> rc.pc = DrainStep[g]
    BY <1>2, CodecLeaves, SwitchDone, Tables
  <2> QED
    BY <2>1, <2>2 DEF Wound, WoundAt
<1>3. ASSUME NEW c \in Consumers, Start(c)
      PROVE  WoundAt(g)'
  <2>1. PICK how : StartCapture(HandleOf[c], how)
    BY <1>3 DEF Start
  <2>2. /\ rc' = rc /\ gain' = gain /\ HandleOf[c] \in Handles
        /\ consumer[c] = "stopped" /\ consumer' = [consumer EXCEPT ![c] = "started"]
    BY <1>3, HandlesAssumption DEF Start, codecVars
  <2>3. \A d \in Consumers : consumer'[d] = "draining" <=> consumer[d] = "draining"
    BY <2>2 DEF Typed
  <2> QED
    BY <2>1, <2>2, <2>3, StartKeepsWound
<1>4. ASSUME NEW c \in Consumers, Stop(c)
      PROVE  WoundAt(g)'
  <2> DEFINE h == HandleOf[c]
  <2>1. /\ StopCapture(h, c) /\ rc' = rc /\ gain' = gain /\ h \in Handles
        /\ consumer[c] = "started"
        /\ consumer' = [consumer EXCEPT ![c] = IF LastUser(h) THEN "draining" ELSE "stopped"]
    BY <1>4, HandlesAssumption DEF Stop, codecVars
  <2>2. c # "httpd" /\ c \in Consumers \cup {"httpd"}
    BY Names
  <2>3. \A d \in Consumers : consumer'[d] = "draining" <=>
           consumer[d] = "draining" \/ (d = c /\ LastUser(h))
    BY <2>1 DEF Typed
  <2> QED
    BY <2>1, <2>2, <2>3, StopKeepsWound
<1>5. ASSUME NEW c \in Consumers, StopEnd(c)
      PROVE  WoundAt(g)'
  <2> DEFINE h == HandleOf[c]
  <2>1. /\ StopClose(h, c) /\ rc' = rc /\ gain' = gain /\ h \in Handles
        /\ consumer[c] = "draining"
        /\ consumer' = [consumer EXCEPT ![c] = "stopped"]
    BY <1>5, HandlesAssumption DEF StopEnd, codecVars
  <2>2. c # "httpd" /\ c \in Consumers \cup {"httpd"}
    BY Names
  <2>3. \A d \in Consumers : consumer'[d] = "draining" <=> consumer[d] = "draining" /\ d # c
    BY <2>1 DEF Typed
  <2> QED
    BY <2>1, <2>2, <2>3, CloseKeepsWound
<1>6. ASSUME NEW c \in Consumers, ReadClaim(c) \/ ReadCheck(c) \/ ReadEnd(c)
      PROVE  WoundAt(g)'
  BY <1>6 DEF ReadClaim, ReadCheck, ReadEnd, codecVars, handleVars, clientVars, Wound, WoundAt
<1>7. /\ "mono" \in Handles /\ "httpd" \notin Consumers
      /\ "httpd" \in Consumers \cup {"httpd"}
  BY Names DEF Handles
<1>8. CASE GainStop
  <2>1. /\ StopCapture("mono", "httpd") /\ rc' = rc /\ consumer' = consumer
        /\ gain' = (IF LastUser("mono") THEN "draining" ELSE "stopped") /\ gain = "idle"
    BY <1>8 DEF GainStop, codecVars
  <2>2. \A d \in Consumers : consumer'[d] = "draining" <=>
           consumer[d] = "draining" \/ (d = "httpd" /\ LastUser("mono"))
    BY <1>7, <2>1
  <2>3. gain' = "draining" <=> gain = "draining" \/ ("httpd" = "httpd" /\ LastUser("mono"))
    BY <2>1
  <2> QED
    BY <1>7, <2>1, <2>2, <2>3, StopKeepsWound
<1>9. CASE GainClose
  <2>1. /\ StopClose("mono", "httpd") /\ rc' = rc /\ consumer' = consumer
        /\ gain' = "stopped"
    BY <1>9 DEF GainClose, codecVars
  <2>2. \A d \in Consumers : consumer'[d] = "draining" <=>
           consumer[d] = "draining" /\ d # "httpd"
    BY <1>7, <2>1
  <2> QED
    BY <1>7, <2>1, <2>2, CloseKeepsWound
<1>10. CASE GainStart
  <2>1. /\ StartCapture("mono", {}) /\ rc' = rc /\ consumer' = consumer
        /\ gain' = "idle" /\ gain = "stopped"
    BY <1>10 DEF GainStart, codecVars
  <2> QED
    BY <1>7, <2>1, StartKeepsWound
<1>11. CASE UNCHANGED vars
  BY <1>11 DEF vars, codecVars, handleVars, clientVars, Wound, WoundAt
<1> QED
  BY PortSteps, <1>1, <1>2, <1>3, <1>4, <1>5, <1>6, <1>8, <1>9, <1>10, <1>11 DEF MicStep

-----------------------------------------------------------------------------
(* Who uses a handle is counted.                                           *)
LEMMA StartedCounts ==
  ASSUME Typed, NEW h \in Handles
  PROVE  Cardinality(Started(h)) \in Nat /\ IsFiniteSet(Started(h))
BY HandlesAssumption, FS_Subset, FS_CardinalityType DEF Started

LEMMA OneMoreStarted ==
  ASSUME Typed, NEW c \in Consumers, consumer[c] # "started",
         consumer' = [consumer EXCEPT ![c] = "started"], NEW h \in Handles
  PROVE  Cardinality(Started(h)') = Cardinality(Started(h)) + (IF h = HandleOf[c] THEN 1 ELSE 0)
<1>1. CASE h = HandleOf[c]
  <2>1. Started(h)' = Started(h) \cup {c} /\ c \notin Started(h)
    BY <1>1 DEF Started, Typed
  <2> QED
    BY <1>1, <2>1, StartedCounts, FS_AddElement
<1>2. CASE h # HandleOf[c]
  <2>1. Started(h)' = Started(h)
    BY <1>2 DEF Started, Typed
  <2> QED
    BY <1>2, <2>1, StartedCounts
<1> QED
  BY <1>1, <1>2

LEMMA OneLessStarted ==
  ASSUME Typed, NEW c \in Consumers, consumer[c] = "started", NEW s, s # "started",
         consumer' = [consumer EXCEPT ![c] = s], NEW h \in Handles
  PROVE  /\ Cardinality(Started(h)') = Cardinality(Started(h)) - (IF h = HandleOf[c] THEN 1 ELSE 0)
         /\ h = HandleOf[c] => Cardinality(Started(h)) > 0
<1>1. CASE h = HandleOf[c]
  <2>1. Started(h)' = Started(h) \ {c} /\ c \in Started(h)
    BY <1>1 DEF Started, Typed
  <2>2. Cardinality(Started(h)') = Cardinality(Started(h)) - 1
    BY <2>1, StartedCounts, FS_RemoveElement
  <2>3. Started(h)' \subseteq Started(h)
    BY <2>1
  <2>4. Cardinality(Started(h)') \in Nat
    BY <2>3, StartedCounts, FS_Subset, FS_CardinalityType
  <2> QED
    BY <1>1, <2>2, <2>4, StartedCounts
<1>2. CASE h # HandleOf[c]
  <2>1. Started(h)' = Started(h)
    BY <1>2 DEF Started, Typed
  <2> QED
    BY <1>2, <2>1, StartedCounts
<1> QED
  BY <1>1, <1>2

LEMMA SameStarted ==
  ASSUME Typed, NEW h \in Handles,
         \/ consumer' = consumer
         \/ \E c \in Consumers : consumer[c] # "started" /\ consumer' = [consumer EXCEPT ![c] = "stopped"]
  PROVE  Started(h)' = Started(h)
BY DEF Started, Typed

(* What a step may add to upsets.                                          *)
LEMMA StartUpsets ==
  ASSUME NEW h, NEW how, StartCapture(h, how)
  PROVE  upsets \cup how \subseteq upsets' /\ upsets' \subseteq upsets \cup how \cup {"failed"}
<1>1. CASE upsets' = upsets \cup how
  BY <1>1
<1>2. ASSUME NEW ok \in Outcomes(MicFits), upsets' = upsets \cup how \cup Noted(MicFits, ok)
      PROVE  upsets \cup how \subseteq upsets' /\ upsets' \subseteq upsets \cup how \cup {"failed"}
  BY <1>2, MicNoted
<1> QED
  BY <1>1, <1>2 DEF StartCapture

LEMMA UpsetsAdded ==
  ASSUME [Next]_vars, Typed, Seats
  PROVE  \/ upsets' \subseteq upsets \cup {"failed", "late"}
         \/ GainStop /\ upsets' = upsets \cup {"gain"}
         \/ \E c \in Consumers : /\ Start(c) /\ ~MayStart(c)
                                 /\ upsets' \subseteq upsets \cup {"rude", "failed"}
                                 /\ "rude" \in upsets'
<1>1. CASE CodecStep \/ Switch
  BY <1>1, CodecLeaves, SwitchDone DEF readVars
<1>2. CASE ReclockStep
  <2>1. PICK h \in Handles : Suspend(h) \/ SuspendClose(h) \/ SuspendSkip(h) \/ Resume(h)
    BY <1>2 DEF ReclockStep
  <2>2. CASE Resume(h)
    <3>1. upsets' = upsets \/ \E ok \in Outcomes(MicFits) : upsets' = upsets \cup Noted(MicFits, ok)
      BY <2>2 DEF Resume
    <3> QED
      BY <3>1, MicNoted
  <2> QED
    BY <2>1, <2>2, SuspendDone, DrainDone
<1>3. ASSUME NEW c \in Consumers, Start(c)
      PROVE  \/ upsets' \subseteq upsets \cup {"failed"}
             \/ /\ ~MayStart(c)
                /\ upsets' \subseteq upsets \cup {"rude", "failed"} /\ "rude" \in upsets'
  <2> DEFINE how == IF MayStart(c) THEN {} ELSE {"rude"}
  <2>1. StartCapture(HandleOf[c], how)
    BY <1>3 DEF Start
  <2>2. upsets \cup how \subseteq upsets' /\ upsets' \subseteq upsets \cup how \cup {"failed"}
    BY <2>1, StartUpsets
  <2> QED
    BY <2>2
<1>4. ASSUME NEW c \in Consumers, \/ Stop(c) \/ StopEnd(c)
                                  \/ ReadClaim(c) \/ ReadCheck(c) \/ ReadEnd(c)
      PROVE  upsets' \subseteq upsets \cup {"late"}
  BY <1>4 DEF Stop, StopEnd, StopClose, ReadClaim, ReadCheck, ReadEnd, readVars
<1>5. CASE GainStop
  BY <1>5 DEF GainStop
<1>6. CASE GainClose
  BY <1>6 DEF GainClose, StopClose
<1>7. CASE GainStart
  <2>1. StartCapture("mono", {})
    BY <1>7 DEF GainStart
  <2> QED
    BY <2>1, StartUpsets
<1>8. CASE UNCHANGED vars
  BY <1>8 DEF vars, readVars
<1> QED
  BY PortSteps, <1>1, <1>2, <1>3, <1>4, <1>5, <1>6, <1>7, <1>8 DEF MicStep

LEMMA StartUsers ==
  ASSUME Typed, NEW h \in Handles, NEW how, StartCapture(h, how), NEW g \in Handles
  PROVE  users'[g] <= users[g] + (IF g = h THEN 1 ELSE 0)
<1>1. CASE g # h
  <2>1. users'[g] = users[g] /\ users[g] \in Nat
    BY <1>1 DEF StartCapture, Typed
  <2> QED
    BY <1>1, <2>1
<1>2. CASE g = h
  <2>1. \/ users'[h] = users[h] + 1
        \/ users[h] = 0 /\ \E ok \in BOOLEAN : users'[h] = (IF ok THEN 1 ELSE 0)
    BY OutcomesBoolean DEF StartCapture, Typed
  <2> QED
    BY <1>2, <2>1 DEF Typed
<1> QED
  BY <1>1, <1>2

LEMMA StopUsers ==
  ASSUME Typed, NEW h \in Handles, NEW who, StopCapture(h, who), NEW g \in Handles
  PROVE  users'[g] = IF g = h /\ users[g] > 0 THEN users[g] - 1 ELSE users[g]
BY DEF StopCapture, Typed

LEMMA CountedKept == Typed /\ Seats /\ Counted /\ [Next]_vars => Counted'
<1> SUFFICES ASSUME Typed, Seats, Counted, [Next]_vars
             PROVE  Counted'
  OBVIOUS
<1> DEFINE N(h) == Cardinality(Started(h))
<1>1. /\ "mono" \in Handles /\ gainCalls \in Nat
      /\ \A h \in Handles : users[h] \in Nat /\ N(h) \in Nat
  BY StartedCounts DEF Handles, Typed
<1>2. ASSUME NEW c \in Consumers, Start(c)
      PROVE  Counted'
  <2> DEFINE h == HandleOf[c]
             how == IF MayStart(c) THEN {} ELSE {"rude"}
  <2>1. /\ StartCapture(h, how) /\ h \in Handles
        /\ consumer[c] = "stopped" /\ consumer' = [consumer EXCEPT ![c] = "started"]
        /\ UNCHANGED <<gain, gainCalls>>
    BY <1>2, HandlesAssumption DEF Start
  <2>2. upsets \cup how \subseteq upsets' /\ upsets' \subseteq upsets \cup how \cup {"failed"}
    BY <2>1, StartUpsets
  <2>3. \A g \in Handles : /\ N(g)' = N(g) + (IF g = h THEN 1 ELSE 0)
                           /\ users'[g] <= users[g] + (IF g = h THEN 1 ELSE 0)
                           /\ users'[g] \in Nat
    <3>1. consumer[c] # "started"
      BY <2>1
    <3>2. \A g \in Handles : N(g)' = N(g) + (IF g = h THEN 1 ELSE 0)
      BY <2>1, <3>1, OneMoreStarted
    <3>3. \A g \in Handles : users'[g] <= users[g] + (IF g = h THEN 1 ELSE 0)
      BY <2>1, StartUsers
    <3>4. \A g \in Handles : users'[g] \in Nat
      BY TypesKept DEF Typed
    <3> QED
      BY <3>2, <3>3, <3>4
  <2>4. /\ \A g \in Handles : users'[g] <= N(g)' + gainCalls'
        /\ gain' # "idle" => users'["mono"] < N("mono")' + gainCalls'
    BY <1>1, <2>1, <2>3 DEF Counted
  <2>5. ASSUME "rude" \notin upsets', NEW d \in Consumers, NEW e \in Consumers,
               consumer'[d] # "stopped", consumer'[e] # "stopped"
        PROVE  HandleOf[d] = HandleOf[e]
    <3>1. MayStart(c) /\ "rude" \notin upsets
      BY <2>2, <2>5
    <3>2. \A b \in Consumers : consumer'[b] # "stopped" => HandleOf[b] = HandleOf[c]
      BY <2>1, <3>1 DEF MayStart, Typed
    <3> QED
      BY <2>5, <3>2
  <2> QED
    BY <2>1, <2>2, <2>4, <2>5 DEF Counted
<1>3. ASSUME NEW c \in Consumers, Stop(c)
      PROVE  Counted'
  <2> DEFINE h == HandleOf[c]
             s == IF LastUser(h) THEN "draining" ELSE "stopped"
  <2>1. /\ StopCapture(h, c) /\ h \in Handles
        /\ consumer[c] = "started" /\ consumer' = [consumer EXCEPT ![c] = s]
        /\ UNCHANGED <<gain, gainCalls, upsets>>
    BY <1>3, HandlesAssumption DEF Stop, readVars
  <2>2. s # "started"
    OBVIOUS
  <2>3. \A g \in Handles :
          /\ N(g)' = N(g) - (IF g = h THEN 1 ELSE 0)
          /\ users'[g] = (IF g = h /\ users[g] > 0 THEN users[g] - 1 ELSE users[g])
          /\ g = h => N(g) > 0
    BY <2>1, <2>2, OneLessStarted, StopUsers
  <2>4. /\ \A g \in Handles : users'[g] <= N(g)' + gainCalls'
        /\ gain' # "idle" => users'["mono"] < N("mono")' + gainCalls'
    BY <1>1, <2>1, <2>3 DEF Counted
  <2>5. \A b \in Consumers : consumer'[b] # "stopped" => consumer[b] # "stopped"
    BY <2>1 DEF Typed
  <2> QED
    BY <2>1, <2>4, <2>5 DEF Counted
<1>4. ASSUME NEW c \in Consumers, StopEnd(c)
      PROVE  Counted'
  <2>1. /\ consumer[c] = "draining" /\ consumer' = [consumer EXCEPT ![c] = "stopped"]
        /\ UNCHANGED <<gain, gainCalls, users>>
        /\ upsets' \subseteq upsets \cup {"late"} /\ upsets \subseteq upsets'
    BY <1>4 DEF StopEnd, StopClose
  <2>2. \A g \in Handles : Started(g)' = Started(g)
    BY <2>1, SameStarted
  <2>3. \A b \in Consumers : consumer'[b] # "stopped" => consumer[b] # "stopped"
    BY <2>1 DEF Typed
  <2>4. /\ \A g \in Handles : users'[g] <= N(g)' + gainCalls'
        /\ gain' # "idle" => users'["mono"] < N("mono")' + gainCalls'
    BY <1>1, <2>1, <2>2 DEF Counted
  <2> QED
    BY <2>1, <2>3, <2>4 DEF Counted
<1>5. CASE GainStop
  <2>1. /\ StopCapture("mono", "httpd") /\ consumer' = consumer
        /\ gain = "idle" /\ gain' # "idle" /\ gainCalls' = gainCalls + 1
        /\ upsets' = upsets \cup {"gain"}
    BY <1>5 DEF GainStop
  <2>2. \A g \in Handles : Started(g)' = Started(g)
    BY <2>1, SameStarted
  <2>3. \A g \in Handles :
          users'[g] = (IF g = "mono" /\ users[g] > 0 THEN users[g] - 1 ELSE users[g])
    BY <1>1, <2>1, StopUsers
  <2>4. /\ \A g \in Handles : users'[g] <= N(g)' + gainCalls'
        /\ users'["mono"] < N("mono")' + gainCalls'
    BY <1>1, <2>1, <2>2, <2>3 DEF Counted
  <2> QED
    BY <1>1, <2>1, <2>4 DEF Counted
<1>6. CASE GainClose
  <2>1. /\ consumer' = consumer /\ gain = "draining" /\ gain' = "stopped"
        /\ UNCHANGED <<gainCalls, users>>
        /\ upsets' \subseteq upsets \cup {"late"} /\ upsets \subseteq upsets'
    BY <1>6 DEF GainClose, StopClose
  <2>2. \A g \in Handles : Started(g)' = Started(g)
    BY <2>1, SameStarted
  <2>3. /\ \A g \in Handles : users'[g] <= N(g)' + gainCalls'
        /\ users'["mono"] < N("mono")' + gainCalls'
    BY <1>1, <2>1, <2>2 DEF Counted
  <2> QED
    BY <2>1, <2>3 DEF Counted
<1>7. CASE GainStart
  <2>1. /\ StartCapture("mono", {}) /\ consumer' = consumer
        /\ gain = "stopped" /\ gain' = "idle" /\ UNCHANGED gainCalls
    BY <1>7 DEF GainStart
  <2>2. upsets \subseteq upsets' /\ upsets' \subseteq upsets \cup {"failed"}
    BY <2>1, StartUpsets
  <2>3. \A g \in Handles : /\ Started(g)' = Started(g)
                           /\ users'[g] <= users[g] + (IF g = "mono" THEN 1 ELSE 0)
                           /\ users'[g] \in Nat
    BY <1>1, <2>1, SameStarted, StartUsers, TypesKept DEF Typed
  <2>4. \A g \in Handles : users'[g] <= N(g)' + gainCalls'
    BY <1>1, <2>1, <2>3 DEF Counted
  <2> QED
    BY <2>1, <2>2, <2>4 DEF Counted
<1>8. CASE UNCHANGED <<users, consumer, gain, gainCalls>> /\ upsets' \subseteq upsets \cup {"failed", "late"}
  <2>1. \A g \in Handles : Started(g)' = Started(g)
    BY <1>8, SameStarted
  <2>2. /\ \A g \in Handles : users'[g] <= N(g)' + gainCalls'
        /\ gain' # "idle" => users'["mono"] < N("mono")' + gainCalls'
    BY <1>1, <1>8, <2>1 DEF Counted
  <2> QED
    BY <1>8, <2>2, UpsetsGrow DEF Counted
<1>9. CASE CodecStep \/ Switch
  BY <1>8, <1>9, CodecLeaves, SwitchDone DEF readVars, clientVars
<1>10. CASE ReclockStep
  <2>1. PICK h \in Handles : Suspend(h) \/ SuspendClose(h) \/ SuspendSkip(h) \/ Resume(h)
    BY <1>10 DEF ReclockStep
  <2>2. UNCHANGED <<users, consumer, gain, gainCalls>>
    BY <2>1, SuspendDone, DrainDone, ResumeDone
  <2>3. upsets' \subseteq upsets \cup {"failed", "late"}
    <3>1. CASE Resume(h)
      <4>1. \/ upsets' = upsets
            \/ \E ok \in Outcomes(MicFits) : upsets' = upsets \cup Noted(MicFits, ok)
        BY <3>1 DEF Resume
      <4> QED
        BY <4>1, MicNoted
    <3> QED
      BY <2>1, <3>1, SuspendDone, DrainDone
  <2> QED
    BY <1>8, <2>2, <2>3
<1>11. ASSUME NEW c \in Consumers, ReadClaim(c) \/ ReadCheck(c) \/ ReadEnd(c)
       PROVE  Counted'
  BY <1>8, <1>11 DEF ReadClaim, ReadCheck, ReadEnd, handleVars, clientVars
<1>12. CASE UNCHANGED vars
  BY <1>8, <1>12 DEF vars, handleVars, readVars, clientVars
<1> QED
  BY PortSteps, <1>2, <1>3, <1>4, <1>5, <1>6, <1>7, <1>9, <1>10, <1>11, <1>12 DEF MicStep

-----------------------------------------------------------------------------
(* When a device closes, and when it opens.                                *)
LEMMA StartOpens ==
  ASSUME Typed, Wound, NEW h \in Handles, NEW how, StartCapture(h, how), NEW g \in Handles
  PROVE  /\ open[g] => open'[g]
         /\ open'[g] /\ ~open[g] => g = h /\ MicFits /\ users[h] = 0 /\ cap_mutex[h] = None
         /\ open'[g] /\ ~open[g] => rx'
         /\ capturing'[g] => capturing[g] \/ (open'[g] /\ ~open[g])
         /\ capturing[g] => capturing'[g]
         /\ rx => rx'
<1>1. WoundAt(h) /\ cap_mutex[h] = None /\ users[h] \in Nat
  BY DEF Wound, StartCapture, Typed
<1>2. CASE users[h] > 0
  <2>1. UNCHANGED <<capturing, open, rx>>
    BY <1>2 DEF StartCapture
  <2> QED
    BY <2>1
<1>3. CASE users[h] = 0
  <2>1. ~open[h] /\ ~capturing[h]
    BY <1>1, <1>3 DEF WoundAt
  <2>2. PICK ok \in Outcomes(MicFits) :
          /\ open' = [open EXCEPT ![h] = ok]
          /\ capturing' = [capturing EXCEPT ![h] = ok]
          /\ rx' = (rx \/ ok)
    BY <1>3 DEF StartCapture
  <2>3. ok \in BOOLEAN /\ (ok => MicFits)
    BY OutcomesBoolean DEF Outcomes
  <2>4. /\ open'[h] = ok /\ capturing'[h] = ok
        /\ g # h => open'[g] = open[g] /\ capturing'[g] = capturing[g]
    BY <2>2 DEF Typed
  <2> QED
    BY <1>1, <1>3, <2>1, <2>2, <2>3, <2>4
<1> QED
  BY <1>1, <1>2, <1>3

LEMMA ResumeOpens ==
  ASSUME Typed, Wound, NEW h \in Handles, Resume(h), NEW g \in Handles
  PROVE  /\ open[g] => open'[g]
         /\ open'[g] /\ ~open[g] => g = h /\ MicFits
         /\ open'[g] /\ ~open[g] => rx'
         /\ capturing'[g] => capturing[g] \/ (open'[g] /\ ~open[g])
         /\ capturing[g] => capturing'[g]
         /\ rx => rx'
         /\ Wanted(h) /\ "failed" \notin upsets' => (capturing'[h] <=> MicFits)
         /\ upsets' \subseteq upsets \cup {"failed"}
<1>1. CASE ~Wanted(h)
  BY <1>1 DEF Resume
<1>2. CASE Wanted(h)
  <2>1. cap_mutex[h] = None /\ ~capturing[h]
    BY <1>2 DEF Wanted, Resume
  <2>2. ~open[h]
    BY <2>1 DEF Wound, WoundAt
  <2>3. PICK ok \in Outcomes(MicFits) :
          /\ open' = [open EXCEPT ![h] = ok]
          /\ capturing' = [capturing EXCEPT ![h] = ok]
          /\ upsets' = upsets \cup Noted(MicFits, ok)
    BY <1>2 DEF Resume
  <2>4. /\ ok \in BOOLEAN /\ (ok => MicFits) /\ Noted(MicFits, ok) \subseteq {"failed"}
        /\ "failed" \notin Noted(MicFits, ok) => (ok <=> MicFits)
    BY OutcomesBoolean, MicNoted DEF Outcomes
  <2>5. /\ open'[h] = ok /\ capturing'[h] = ok /\ rx' = TRUE
        /\ g # h => open'[g] = open[g] /\ capturing'[g] = capturing[g]
    BY <1>2, <2>3 DEF Resume, Typed
  <2> QED
    BY <2>1, <2>2, <2>3, <2>4, <2>5
<1> QED
  BY <1>1, <1>2

LEMMA Closes ==
  ASSUME Typed, Seats, Wound, [Next]_vars, NEW g \in Handles, open[g], ~open'[g]
  PROVE  ~reading[g] \/ "late" \in upsets'
<1>1. CASE ReclockStep
  <2>1. PICK h \in Handles : Suspend(h) \/ SuspendClose(h) \/ SuspendSkip(h) \/ Resume(h)
    BY <1>1 DEF ReclockStep
  <2>2. CASE SuspendClose(h)
    BY <2>2 DEF SuspendClose, Typed
  <2> QED
    BY <2>1, <2>2, SuspendDone, DrainDone, ResumeOpens
<1>2. CASE CodecStep \/ Switch
  BY <1>2, CodecLeaves, SwitchDone
<1>3. ASSUME NEW h \in Handles, NEW how, StartCapture(h, how)
      PROVE  FALSE
  BY <1>3, StartOpens
<1>4. ASSUME NEW h \in Handles, NEW who, StopClose(h, who)
      PROVE  ~reading[g] \/ "late" \in upsets'
  BY <1>4 DEF StopClose, Typed
<1>5. ASSUME NEW c \in Consumers, \/ Start(c) \/ Stop(c) \/ StopEnd(c)
                                  \/ ReadClaim(c) \/ ReadCheck(c) \/ ReadEnd(c)
      PROVE  ~reading[g] \/ "late" \in upsets'
  BY <1>3, <1>4, <1>5, HandlesAssumption
  DEF Start, Stop, StopCapture, StopEnd, ReadClaim, ReadCheck, ReadEnd, handleVars
<1>6. CASE GainStop \/ GainClose \/ GainStart
  BY <1>3, <1>4, <1>6 DEF GainStop, StopCapture, GainClose, GainStart, Handles
<1>7. CASE UNCHANGED vars
  BY <1>7 DEF vars, handleVars
<1> QED
  BY PortSteps, <1>1, <1>2, <1>5, <1>6, <1>7 DEF MicStep

LEMMA Opens ==
  ASSUME Typed, Seats, Wound, [Next]_vars, NEW g \in Handles, ~open[g], open'[g]
  PROVE  /\ MicFits
         /\ \/ \E c \in Consumers : Start(c) /\ HandleOf[c] = g
            \/ GainStart /\ g = "mono"
            \/ Resume(g)
<1>1. CASE ReclockStep
  <2>1. PICK h \in Handles : Suspend(h) \/ SuspendClose(h) \/ SuspendSkip(h) \/ Resume(h)
    BY <1>1 DEF ReclockStep
  <2>2. CASE SuspendClose(h)
    BY <2>2 DEF SuspendClose, Typed
  <2> QED
    BY <2>1, <2>2, SuspendDone, DrainDone, ResumeOpens
<1>2. CASE CodecStep \/ Switch
  BY <1>2, CodecLeaves, SwitchDone
<1>3. ASSUME NEW h \in Handles, NEW who, StopClose(h, who)
      PROVE  FALSE
  BY <1>3 DEF StopClose, Typed
<1>4. ASSUME NEW c \in Consumers, Start(c)
      PROVE  MicFits /\ HandleOf[c] = g
  <2>1. PICK how : StartCapture(HandleOf[c], how)
    BY <1>4 DEF Start
  <2> QED
    BY <2>1, StartOpens, HandlesAssumption
<1>5. ASSUME NEW c \in Consumers, \/ Stop(c) \/ StopEnd(c)
                                  \/ ReadClaim(c) \/ ReadCheck(c) \/ ReadEnd(c)
      PROVE  FALSE
  BY <1>3, <1>5, HandlesAssumption
  DEF Stop, StopCapture, StopEnd, ReadClaim, ReadCheck, ReadEnd, handleVars
<1>6. CASE GainStart
  <2>1. StartCapture("mono", {}) /\ "mono" \in Handles
    BY <1>6 DEF GainStart, Handles
  <2> QED
    BY <1>6, <2>1, StartOpens
<1>7. CASE GainStop \/ GainClose
  BY <1>3, <1>7 DEF GainStop, StopCapture, GainClose, Handles
<1>8. CASE UNCHANGED vars
  BY <1>8 DEF vars, handleVars
<1> QED
  BY PortSteps, <1>1, <1>2, <1>4, <1>5, <1>6, <1>7, <1>8 DEF MicStep

(* Readers: every step but theirs leaves their claims alone.               *)
LEMMA ReadersLeft ==
  ASSUME Typed, Seats, [Next]_vars,
         ~ \E c \in Consumers : ReadClaim(c) \/ ReadCheck(c) \/ ReadEnd(c)
  PROVE  UNCHANGED <<reading, reader>>
<1>1. CASE ReclockStep
  BY <1>1, SuspendDone, DrainDone, ResumeDone DEF ReclockStep
<1>2. CASE CodecStep \/ Switch
  BY <1>2, CodecLeaves, SwitchDone DEF readVars
<1>3. CASE MicStep
  BY <1>3 DEF MicStep, Start, Stop, StopEnd, GainStop, GainClose, GainStart, readVars
<1> QED
  BY PortSteps, <1>1, <1>2, <1>3 DEF vars, readVars

LEMMA ClaimedKept ==
  Typed /\ Seats /\ Wound /\ Claimed /\ [Next]_vars => Claimed'
<1> SUFFICES ASSUME Typed, Seats, Wound, Claimed, [Next]_vars, OneReader, NEW c \in Consumers
             PROVE  /\ reader'[c] # "out" => reading'[HandleOf[c]]
                    /\ reader'[c] = "in" /\ "late" \notin upsets' => open'[HandleOf[c]]
  BY DEF Claimed
<1>1. /\ reader[c] # "out" => reading[HandleOf[c]]
      /\ reader[c] = "in" /\ "late" \notin upsets => open[HandleOf[c]]
      /\ HandleOf[c] \in Handles
      /\ upsets \subseteq upsets'
  BY HandlesAssumption, UpsetsGrow DEF Claimed
<1>2. CASE UNCHANGED <<reading, reader>>
  BY <1>1, <1>2, Closes
<1>3. ASSUME NEW d \in Consumers, ReadClaim(d) \/ ReadCheck(d) \/ ReadEnd(d)
      PROVE  /\ reader'[c] # "out" => reading'[HandleOf[c]]
             /\ reader'[c] = "in" /\ "late" \notin upsets' => open'[HandleOf[c]]
  <2>1. UNCHANGED <<capturing, open, upsets>>
    BY <1>3 DEF ReadClaim, ReadCheck, ReadEnd, handleVars
  <2>2. CASE c # d
    <3>1. HandleOf[c] # HandleOf[d]
      BY <2>2 DEF OneReader
    <3>2. reader'[c] = reader[c] /\ reading'[HandleOf[c]] = reading[HandleOf[c]]
      BY <1>1, <1>3, <2>2, <3>1 DEF ReadClaim, ReadCheck, ReadEnd, Typed
    <3> QED
      BY <1>1, <2>1, <3>2
  <2>3. CASE c = d
    <3>1. capturing[HandleOf[c]] => open[HandleOf[c]]
      BY <1>1 DEF Wound, WoundAt
    <3>2. CASE ReadClaim(c)
      BY <1>1, <3>2 DEF ReadClaim, Typed
    <3>3. CASE ReadCheck(c)
      <4>1. /\ reader[c] = "claimed"
            /\ reader'[c] = (IF capturing[HandleOf[c]] THEN "in" ELSE "out")
            /\ reading'[HandleOf[c]] = (reading[HandleOf[c]] /\ capturing[HandleOf[c]])
        BY <1>1, <3>3 DEF ReadCheck, Typed
      <4> QED
        BY <1>1, <2>1, <3>1, <4>1
    <3>4. CASE ReadEnd(c)
      BY <1>1, <3>4 DEF ReadEnd, Typed
    <3> QED
      BY <1>3, <2>3, <3>2, <3>3, <3>4
  <2> QED
    BY <2>2, <2>3
<1> QED
  BY <1>2, <1>3, ReadersLeft

-----------------------------------------------------------------------------
(* A reclock passes a handle only by closing it, or finding it closed.     *)
LEMMA PastReached ==
  ASSUME Typed, Seats, Wound, [Next]_vars, NEW g \in Handles,
         rc.pc \notin Past[g], rc'.pc \in Past[g], "late" \notin upsets'
  PROVE  ~open'[g]
<1>1. Past[g] \subseteq {"suspend_wake", "drain_wake", "switch"}
  BY Tables
<1>2. CASE MicStep \/ UNCHANGED vars
  BY <1>2, MicLeaves DEF vars, codecVars
<1>3. CASE CodecStep \/ Switch
  BY <1>1, <1>3, CodecLeaves, SwitchDone
<1>4. CASE ReclockStep
  <2>1. PICK h \in Handles : Suspend(h) \/ SuspendClose(h) \/ SuspendSkip(h) \/ Resume(h)
    BY <1>4 DEF ReclockStep
  <2>2. ~Resume(h)
    BY <1>1, <2>1, Tables, ResumeDone
  <2>3. ~SuspendSkip(h)
    BY DEF SuspendSkip
  <2>4. CASE Suspend(h)
    <3>1. ~capturing[h] /\ cap_mutex[h] = None /\ g = h /\ UNCHANGED open
      BY <2>4, Tables, SuspendDone
    <3> QED
      BY <3>1 DEF Wound, WoundAt
  <2>5. CASE SuspendClose(h)
    <3>1. g = h
      BY <2>5, Tables, DrainDone
    <3> QED
      BY <2>5, <3>1 DEF SuspendClose, Typed
  <2> QED
    BY <2>1, <2>2, <2>3, <2>4, <2>5
<1> QED
  BY PortSteps, <1>2, <1>3, <1>4

LEMMA ClockMoves == Typed /\ Seats /\ [Next]_vars /\ clock' # clock => Switch
<1>1. CodecStep => UNCHANGED clock
  BY DEF CodecStep, FallBack, ChimeTake, ChimeGive, Voice, BeginTake, BeginOk, BeginFail,
         EndGive, EndStream, ProbeTake, ProbeGive, BeginStream, SetEnabled, codecVars
<1> QED
  BY <1>1, PortSteps, MicLeaves, SuspendDone, DrainDone, ResumeDone
  DEF ReclockStep, vars, codecVars

(* Well-behaved consumers start while the codec is at the native rate.     *)
LEMMA PoliteStart ==
  ASSUME Typed, Seats, Clocked, NEW c \in Consumers, Start(c),
         "rude" \notin upsets', "failed" \notin upsets'
  PROVE  /\ MayStart(c) /\ voice = "idle" /\ rc.pc = "off"
         /\ open_rate_ = Native /\ clock = Native /\ codec = Native /\ MicFits
         /\ UNCHANGED <<rc, clock>>
<1>1. StartCapture(HandleOf[c], IF MayStart(c) THEN {} ELSE {"rude"}) /\ UNCHANGED <<rc, clock>>
  BY DEF Start, codecVars
<1>2. upsets \cup (IF MayStart(c) THEN {} ELSE {"rude"}) \subseteq upsets'
  BY <1>1, StartUpsets
<1>3. MayStart(c) /\ "failed" \notin upsets
  BY <1>2
<1>4. voice = "idle"
  BY <1>3 DEF MayStart
<1> QED
  BY <1>1, <1>3, <1>4 DEF Clocked, MicFits

(* A capture is taken back at the native rate.                             *)
LEMMA NativeResume ==
  ASSUME Typed, Seats, Clocked, NEW h \in Handles, Resume(h), "failed" \notin upsets
  PROVE  clock = Native /\ codec = Native /\ MicFits /\ rc.rate = Native /\ rc.ok
<1>1. rc.pc \in {"resume_mono", "resume_wake"}
  BY ResumeDone, Tables
<1>2. rc.rate = Native /\ rc.pc \in Switched
  BY <1>1 DEF Seats, Switched
<1> QED
  BY <1>2 DEF Clocked, MicFits

LEMMA QuietKept ==
  Typed /\ Seats /\ Clocked /\ Wound /\ Counted /\ Quiet /\ [Next]_vars => Quiet'
<1> SUFFICES ASSUME Typed, Seats, Clocked, Wound, Counted, Quiet, [Next]_vars, upsets' = {},
                    NEW g \in Handles, clock' # Native \/ rc'.pc \in Past'[g], open'[g]
             PROVE  FALSE
  BY DEF Quiet
<1>1. upsets = {} /\ Past' = Past
  BY UpsetsGrow DEF Past
<1>2. CASE open[g]
  <2>1. clock = Native /\ rc.pc \notin Past[g]
    BY <1>1, <1>2 DEF Quiet
  <2>2. CASE rc'.pc \in Past[g]
    BY <2>1, <2>2, PastReached
  <2>3. CASE clock' # Native
    <3>1. Switch
      BY <2>1, <2>3, ClockMoves
    <3> QED
      BY <2>1, <3>1, SwitchDone, Tables
  <2> QED
    BY <1>1, <2>2, <2>3
<1>3. CASE ~open[g]
  <2>1. \A h \in Handles : "off" \notin Past[h] /\ AfterResume[h] \notin Past[h]
                           /\ AfterResume[h] \in {"resume_wake", "done"}
    BY Tables
  <2>2. ASSUME NEW c \in Consumers, Start(c)
        PROVE  FALSE
    BY <1>1, <2>1, <2>2, PoliteStart
  <2>3. ~GainStart
    BY <1>1 DEF GainStart, Counted
  <2>4. CASE Resume(g)
    <3>1. clock' = Native /\ rc'.pc = AfterResume[g]
      BY <1>1, <2>4, NativeResume, ResumeDone
    <3> QED
      BY <1>1, <2>1, <3>1
  <2> QED
    BY <1>3, <2>2, <2>3, <2>4, Opens
<1> QED
  BY <1>2, <1>3

-----------------------------------------------------------------------------
(* What was suspended is not forgotten.                                    *)
NoneSuspended == \A h \in Handles : ~suspended[h]

LEMMA SuspensionsKept ==
  ASSUME Typed, Seats, Clocked, Remembered, [Next]_vars, "failed" \notin upsets'
  PROVE  /\ rc'.pc \in Switched => rc'.rate # Native \/ NoneSuspended'
         /\ rc'.pc = "off" => open_rate_' # Native \/ NoneSuspended'
<1>1. /\ "failed" \notin upsets
      /\ rc.pc \in Switched => rc.rate # Native \/ NoneSuspended
      /\ rc.pc = "off" => open_rate_ # Native \/ NoneSuspended
      /\ "off" \notin Switched /\ "suspend_mono" \notin Switched /\ "done" \in Switched
  BY UpsetsGrow DEF Remembered, NoneSuspended, Switched
<1>2. CASE MicStep \/ UNCHANGED vars
  <2>1. UNCHANGED <<rc, open_rate_, suspended>>
    BY <1>2, MicLeaves DEF vars, codecVars, handleVars
  <2> QED
    BY <1>1, <2>1 DEF NoneSuspended
<1>3. CASE ReclockStep
  <2>1. PICK h \in Handles : Suspend(h) \/ SuspendClose(h) \/ SuspendSkip(h) \/ Resume(h)
    BY <1>3 DEF ReclockStep
  <2>2. CASE Resume(h)
    <3>1. rc.pc \in Switched /\ rc'.rate = rc.rate /\ rc'.pc # "off" /\ UNCHANGED suspended
      BY <2>2, ResumeDone, Tables DEF Switched
    <3> QED
      BY <1>1, <3>1 DEF NoneSuspended
  <2>3. CASE Suspend(h) \/ SuspendClose(h) \/ SuspendSkip(h)
    BY <2>3, SuspendDone, DrainDone, Tables DEF Switched
  <2> QED
    BY <2>1, <2>2, <2>3
<1>4. CASE Switch
  <2>1. rc.rate = Native => \A h \in Handles : ~suspended'[h]
    BY <1>4, SwitchDone
  <2> QED
    BY <1>4, <2>1, SwitchDone DEF NoneSuspended
<1>5. CASE CodecStep
  <2>1. UNCHANGED suspended
    BY <1>5, CodecLeaves
  <2>2. NoneSuspended' <=> NoneSuspended
    BY <2>1 DEF NoneSuspended
  <2>3. CASE rc' = rc
    <3>1. UNCHANGED open_rate_ \/ rc.pc # "off"
      BY <1>5, <2>3 DEF CodecStep, FallBack, ChimeTake, ChimeGive, Voice, BeginTake, BeginOk,
         BeginFail, EndGive, EndStream, ProbeTake, ProbeGive, BeginStream, SetEnabled, codecVars,
         SettledRate
    <3> QED
      BY <1>1, <2>2, <2>3, <3>1
  <2>4. CASE rc'.pc = "suspend_mono"
    BY <1>1, <2>4
  <2>5. CASE rc.pc = "done" /\ rc'.pc = "off"
    <3>1. CASE rc.rate = Native
      BY <1>1, <2>2, <2>5, <3>1
    <3>2. CASE rc.rate # Native
      <4>1. voice \in {"begin"} /\ ~rc.retry /\ ~ChimeGive /\ ~EndGive
        BY <2>5, <3>2 DEF Seats, ChimeGive, EndGive
      <4>2. ~BeginFail
        <5>1. Settled => rc.ok
          BY <2>5, <4>1 DEF Settled
        <5> QED
          BY <4>1, <5>1 DEF BeginFail, RateReached
      <4>3. BeginOk
        BY <1>5, <2>5, <4>1, <4>2, ReclockStarts
        DEF CodecStep, FallBack, ChimeTake, Voice, BeginTake, EndStream, ProbeTake, ProbeGive,
            BeginStream, SetEnabled, codecVars
      <4>4. rc.ok /\ UNCHANGED open_rate_
        BY <2>5, <4>3 DEF BeginOk, RateReached
      <4>5. open_rate_ = rc.rate
        BY <1>1, <2>5, <4>4 DEF Clocked
      <4> QED
        BY <1>1, <2>5, <3>2, <4>4, <4>5
    <3> QED
      BY <3>1, <3>2
  <2> QED
    BY <1>5, <2>3, <2>4, <2>5, CodecLeaves
<1> QED
  BY PortSteps, <1>2, <1>3, <1>4, <1>5

LEMMA PoliteUsers ==
  ASSUME Typed, NEW h \in Handles, NEW how, StartCapture(h, how), MicFits, "failed" \notin upsets'
  PROVE  users'[h] = users[h] + 1 /\ (users[h] = 0 => capturing'[h])
<1>0. users[h] \in Nat
  BY DEF Typed
<1>1. CASE users[h] > 0
  <2>1. users[h] # 0
    BY <1>1
  <2>2. users' = [users EXCEPT ![h] = @ + 1]
    BY <2>1 DEF StartCapture
  <2> QED
    BY <2>1, <2>2 DEF Typed
<1>2. CASE users[h] = 0
  <2>0. ~(users[h] > 0)
    BY <1>2
  <2>1. PICK ok \in Outcomes(MicFits) :
          /\ users' = [users EXCEPT ![h] = IF ok THEN 1 ELSE 0]
          /\ capturing' = [capturing EXCEPT ![h] = ok]
          /\ upsets' = upsets \cup how \cup Noted(MicFits, ok)
    BY <2>0 DEF StartCapture
  <2>2. ok
    BY <2>1, MicNoted
  <2> QED
    BY <1>2, <2>1, <2>2 DEF Typed
<1> QED
  BY <1>0, <1>1, <1>2

LEMMA UsersKept ==
  ASSUME Typed, Seats, Clocked, Counted, Remembered, [Next]_vars, upsets' \subseteq {"late"},
         NEW g \in Handles
  PROVE  users'[g] >= Cardinality(Started(g)')
<1> DEFINE N == Cardinality(Started(g))
<1>1. /\ upsets \subseteq {"late"} /\ users[g] \in Nat /\ N \in Nat /\ users[g] >= N
      /\ "rude" \notin upsets' /\ "failed" \notin upsets'
  BY UpsetsGrow, StartedCounts DEF Remembered, Typed
<1>2. CASE users' = users /\ Started(g)' = Started(g)
  BY <1>1, <1>2
<1>3. CASE CodecStep \/ Switch
  BY <1>2, <1>3, CodecLeaves, SwitchDone, SameStarted DEF clientVars
<1>4. CASE ReclockStep
  BY <1>2, <1>4, SuspendDone, DrainDone, ResumeDone, SameStarted DEF ReclockStep
<1>5. ASSUME NEW c \in Consumers, Start(c)
      PROVE  users'[g] >= N'
  <2>1. PICK how : StartCapture(HandleOf[c], how)
    BY <1>5 DEF Start
  <2>2. /\ HandleOf[c] \in Handles /\ consumer[c] # "started"
        /\ consumer' = [consumer EXCEPT ![c] = "started"]
    BY <1>5, HandlesAssumption DEF Start
  <2>3. N' = N + (IF g = HandleOf[c] THEN 1 ELSE 0)
    BY <2>2, OneMoreStarted
  <2>4. MicFits
    BY <1>1, <1>5, PoliteStart
  <2>5. users'[HandleOf[c]] = users[HandleOf[c]] + 1
    BY <1>1, <2>1, <2>2, <2>4, PoliteUsers
  <2>6. g # HandleOf[c] => users'[g] = users[g]
    BY <2>1, <2>2 DEF StartCapture, Typed
  <2> QED
    BY <1>1, <2>3, <2>5, <2>6
<1>6. ASSUME NEW c \in Consumers, Stop(c)
      PROVE  users'[g] >= N'
  <2> DEFINE h == HandleOf[c]
             s == IF LastUser(h) THEN "draining" ELSE "stopped"
  <2>1. /\ StopCapture(h, c) /\ h \in Handles
        /\ consumer[c] = "started" /\ consumer' = [consumer EXCEPT ![c] = s]
    BY <1>6, HandlesAssumption DEF Stop
  <2>2. s # "started"
    OBVIOUS
  <2>3. N' = N - (IF g = h THEN 1 ELSE 0) /\ (g = h => N > 0)
    BY <2>1, <2>2, OneLessStarted
  <2>4. users'[g] = (IF g = h /\ users[g] > 0 THEN users[g] - 1 ELSE users[g])
    BY <2>1, StopUsers
  <2> QED
    BY <1>1, <2>3, <2>4
<1>7. ASSUME NEW c \in Consumers, StopEnd(c) \/ ReadClaim(c) \/ ReadCheck(c) \/ ReadEnd(c)
      PROVE  users'[g] >= N'
  <2>1. /\ users' = users
        /\ \/ consumer' = consumer
           \/ consumer[c] # "started" /\ consumer' = [consumer EXCEPT ![c] = "stopped"]
    BY <1>7 DEF StopEnd, StopClose, ReadClaim, ReadCheck, ReadEnd, handleVars, clientVars
  <2> QED
    BY <1>2, <2>1, SameStarted
<1>8. ~GainStop /\ ~GainClose /\ ~GainStart
  <2>1. "gain" \notin upsets'
    BY <1>1
  <2>2. gain = "idle"
    BY <1>1 DEF Counted
  <2> QED
    BY <2>1, <2>2 DEF GainStop, GainClose, GainStart
<1>9. CASE UNCHANGED vars
  BY <1>2, <1>9, SameStarted DEF vars, handleVars, clientVars
<1> QED
  BY PortSteps, <1>3, <1>4, <1>5, <1>6, <1>7, <1>8, <1>9 DEF MicStep

(* A handle in use is on, drained by the reclock, or owed.                 *)
InUse(h) == capturing[h] \/ cap_mutex[h] = "reclock" \/ Owed(h)

LEMMA InUseKept ==
  ASSUME Typed, Seats, Clocked, Wound, Counted, Remembered, [Next]_vars, upsets' \subseteq {"late"},
         NEW g \in Handles, users'[g] > 0
  PROVE  InUse(g)'
<1>1. /\ upsets \subseteq {"late"} /\ users[g] \in Nat /\ users'[g] \in Nat
      /\ "rude" \notin upsets' /\ "failed" \notin upsets'
      /\ users[g] > 0 => InUse(g)
      /\ "reclock" \notin Consumers /\ None # "reclock"
  BY UpsetsGrow, TypesKept, Names DEF Remembered, Typed, InUse
<1>2. Pending[g] \subseteq {"resume_mono", "resume_wake"}
  BY Tables
<1>3. CASE CodecStep
  <2>1. UNCHANGED <<users, capturing, cap_mutex, suspended>> /\ InUse(g)
    BY <1>1, <1>3, CodecLeaves
  <2>2. rc' = rc \/ rc.pc \notin Pending[g]
    BY <1>2, <1>3, CodecLeaves
  <2> QED
    BY <2>1, <2>2 DEF InUse, Owed
<1>4. CASE Switch
  <2>1. /\ UNCHANGED <<users, capturing, cap_mutex>> /\ InUse(g)
        /\ rc.pc = "switch" /\ rc.pc \notin Pending[g]
    BY <1>1, <1>2, <1>4, SwitchDone
  <2>2. CASE rc.rate = Native
    <3>1. rc'.pc = "resume_mono" /\ rc'.had = {h \in Handles : suspended[h]}
      BY <1>4, <2>2, SwitchDone
    <3>2. "resume_mono" \in Pending[g]
      BY Tables
    <3> QED
      BY <2>1, <3>1, <3>2 DEF InUse, Owed
  <2>3. CASE rc.rate # Native
    BY <1>4, <2>1, <2>3, SwitchDone DEF InUse, Owed
  <2> QED
    BY <2>2, <2>3
<1>5. ASSUME NEW h \in Handles, Suspend(h)
      PROVE  InUse(g)'
  <2>1. UNCHANGED <<users, suspended>> /\ InUse(g) /\ rc.pc \notin Pending[g]
    BY <1>1, <1>2, <1>5, SuspendDone, Tables
  <2>2. CASE g = h /\ capturing[h]
    BY <1>5, <2>2 DEF Suspend, Typed, InUse
  <2>3. CASE g # h \/ ~capturing[h]
    <3>1. capturing'[g] = capturing[g] /\ cap_mutex'[g] = cap_mutex[g]
      BY <1>5, <2>3 DEF Suspend, Typed
    <3> QED
      BY <2>1, <3>1 DEF InUse, Owed
  <2> QED
    BY <2>2, <2>3
<1>6. ASSUME NEW h \in Handles, SuspendClose(h) \/ SuspendSkip(h)
      PROVE  InUse(g)'
  <2>1. UNCHANGED <<users>> /\ InUse(g) /\ rc.pc \notin Pending[g]
    BY <1>1, <1>2, <1>6, DrainDone, Tables
  <2>2. CASE g = h
    BY <1>6, <2>2 DEF SuspendClose, SuspendSkip, Typed, InUse, Owed
  <2>3. CASE g # h
    <3>1. /\ capturing'[g] = capturing[g] /\ cap_mutex'[g] = cap_mutex[g]
          /\ suspended'[g] = suspended[g]
      BY <1>6, <2>3 DEF SuspendClose, SuspendSkip, Typed
    <3> QED
      BY <2>1, <3>1 DEF InUse, Owed
  <2> QED
    BY <2>2, <2>3
<1>7. ASSUME NEW h \in Handles, Resume(h)
      PROVE  InUse(g)'
  <2>1. /\ UNCHANGED <<users, suspended, cap_mutex>> /\ InUse(g) /\ rc'.had = rc.had
        /\ rc.pc = ResumeStep[h] /\ rc'.pc = AfterResume[h]
        /\ capturing[g] => capturing'[g]
    BY <1>1, <1>7, ResumeDone, ResumeOpens
  <2>2. CASE g = h
    <3>1. CASE Wanted(h)
      <4>1. MicFits
        BY <1>1, <1>7, NativeResume
      <4>2. capturing'[h]
        BY <1>1, <1>7, <3>1, <4>1, ResumeOpens
      <4> QED
        BY <2>2, <4>2 DEF InUse
    <3>2. CASE ~Wanted(h)
      <4>1. h \notin rc.had \/ capturing[h]
        BY <1>1, <2>1, <2>2, <3>2 DEF Wanted
      <4> QED
        BY <2>1, <2>2, <4>1 DEF InUse, Owed
    <3> QED
      BY <3>1, <3>2
  <2>3. CASE g # h
    <3>1. rc.pc \in Pending[g] => rc'.pc \in Pending[g]
      BY <2>1, <2>3, Tables
    <3> QED
      BY <2>1, <3>1 DEF InUse, Owed
  <2> QED
    BY <2>2, <2>3
<1>8. ASSUME NEW c \in Consumers, Start(c)
      PROVE  InUse(g)'
  <2>1. PICK how : StartCapture(HandleOf[c], how)
    BY <1>8 DEF Start
  <2>2. UNCHANGED <<rc, suspended, cap_mutex>> /\ HandleOf[c] \in Handles
    BY <1>8, <2>1, HandlesAssumption DEF Start, StartCapture, codecVars
  <2>3. capturing[g] => capturing'[g]
    BY <2>1, <2>2, StartOpens
  <2>4. CASE users[g] > 0
    BY <1>1, <2>2, <2>3, <2>4 DEF InUse, Owed
  <2>5. CASE users[g] = 0
    <3>1. g = HandleOf[c]
      BY <1>1, <2>1, <2>2, <2>5 DEF StartCapture, Typed
    <3>2. MicFits
      BY <1>1, <1>8, PoliteStart
    <3>3. capturing'[g]
      BY <1>1, <2>1, <2>2, <2>5, <3>1, <3>2, PoliteUsers
    <3> QED
      BY <3>3 DEF InUse
  <2> QED
    BY <1>1, <2>4, <2>5
<1>9. ASSUME NEW c \in Consumers, Stop(c)
      PROVE  InUse(g)'
  <2> DEFINE h == HandleOf[c]
  <2>1. /\ StopCapture(h, c) /\ h \in Handles /\ UNCHANGED <<rc, suspended>>
    BY <1>9, HandlesAssumption DEF Stop, StopCapture, codecVars
  <2>2. users'[g] = (IF g = h /\ users[g] > 0 THEN users[g] - 1 ELSE users[g])
    BY <2>1, StopUsers
  <2>3. InUse(g)
    BY <1>1, <2>2
  <2>4. CASE g # h
    <3>1. capturing'[g] = capturing[g] /\ cap_mutex'[g] = cap_mutex[g]
      BY <2>1, <2>4 DEF StopCapture, Typed
    <3> QED
      BY <2>1, <2>3, <3>1 DEF InUse, Owed
  <2>5. CASE g = h
    <3>1. ~LastUser(h) /\ cap_mutex[h] = None
      BY <1>1, <2>1, <2>2, <2>5 DEF LastUser, StopCapture
    <3>2. capturing'[h] = capturing[h]
      BY <2>1, <3>1 DEF StopCapture, Typed
    <3> QED
      BY <1>1, <2>1, <2>3, <2>5, <3>1, <3>2 DEF InUse, Owed
  <2> QED
    BY <2>4, <2>5
<1>10. ASSUME NEW c \in Consumers, StopEnd(c)
       PROVE  InUse(g)'
  <2> DEFINE h == HandleOf[c]
  <2>1. /\ StopClose(h, c) /\ h \in Handles /\ UNCHANGED <<rc, suspended, users, capturing>>
        /\ cap_mutex[h] = c /\ cap_mutex' = [cap_mutex EXCEPT ![h] = None]
    BY <1>10, HandlesAssumption DEF StopEnd, StopClose, codecVars
  <2>2. cap_mutex[g] = "reclock" => cap_mutex'[g] = "reclock"
    BY <1>1, <2>1 DEF Typed
  <2> QED
    BY <1>1, <2>1, <2>2 DEF InUse, Owed
<1>11. ASSUME NEW c \in Consumers, ReadClaim(c) \/ ReadCheck(c) \/ ReadEnd(c)
       PROVE  InUse(g)'
  BY <1>1, <1>11 DEF ReadClaim, ReadCheck, ReadEnd, handleVars, codecVars, InUse, Owed
<1>12. ~GainStop /\ ~GainClose /\ ~GainStart
  <2>1. "gain" \notin upsets' /\ gain = "idle"
    BY <1>1 DEF Counted
  <2> QED
    BY <2>1 DEF GainStop, GainClose, GainStart
<1>13. CASE UNCHANGED vars
  BY <1>1, <1>13 DEF vars, handleVars, codecVars, InUse, Owed
<1> QED
  BY PortSteps, <1>3, <1>4, <1>5, <1>6, <1>7, <1>8, <1>9, <1>10, <1>11, <1>12, <1>13
  DEF MicStep, ReclockStep

LEMMA RememberedKept ==
  Typed /\ Seats /\ Clocked /\ Wound /\ Counted /\ Remembered /\ [Next]_vars => Remembered'
<1> SUFFICES ASSUME Typed, Seats, Clocked, Wound, Counted, Remembered, [Next]_vars
             PROVE  Remembered'
  OBVIOUS
<1>1. "failed" \notin upsets' =>
        /\ rc'.pc \in Switched' => rc'.rate # Native \/ \A h \in Handles : ~suspended'[h]
        /\ rc'.pc = "off" => open_rate_' # Native \/ \A h \in Handles : ~suspended'[h]
  BY SuspensionsKept DEF NoneSuspended, Switched
<1>2. upsets' \subseteq {"late"} =>
        \A h \in Handles :
          /\ users'[h] >= Cardinality(Started(h)')
          /\ users'[h] > 0 => capturing'[h] \/ cap_mutex'[h] = "reclock" \/ Owed(h)'
  BY UsersKept, InUseKept DEF InUse
<1> QED
  BY <1>1, <1>2 DEF Remembered

-----------------------------------------------------------------------------
(* The receive channel.                                                    *)
OneGain == upsets \subseteq {"gain"} /\ gainCalls <= 1
GainOver == gain = "idle" /\ gainCalls = 1

LEMMA GainCallsGrow == Typed /\ [Next]_vars => gainCalls' >= gainCalls
<1>1. GainStop => gainCalls' = gainCalls + 1
  BY DEF GainStop
<1>2. MicStep => GainStop \/ UNCHANGED gainCalls
  BY DEF MicStep, Start, Stop, StopEnd, ReadClaim, ReadCheck, ReadEnd, GainClose, GainStart,
         clientVars
<1>3. CodecStep \/ Switch \/ ReclockStep \/ UNCHANGED vars => UNCHANGED gainCalls
  BY DEF CodecStep, FallBack, ChimeTake, ChimeGive, Voice, BeginTake, BeginOk, BeginFail,
         EndGive, EndStream, ProbeTake, ProbeGive, BeginStream, SetEnabled, Switch, ReclockStep,
         Suspend, SuspendClose, SuspendSkip, Resume, vars, clientVars
<1> QED
  BY <1>1, <1>2, <1>3, PortSteps DEF Typed

LEMMA GainStaysOver ==
  ASSUME Typed, Seats, [Next]_vars, OneGain', GainOver
  PROVE  GainOver'
<1>1. ~GainStop /\ ~GainClose /\ ~GainStart
  BY DEF GainStop, GainClose, GainStart, GainOver, OneGain
<1>2. MicStep => UNCHANGED <<gain, gainCalls>>
  BY <1>1 DEF MicStep, Start, Stop, StopEnd, ReadClaim, ReadCheck, ReadEnd, clientVars
<1>3. CodecStep \/ Switch \/ ReclockStep \/ UNCHANGED vars => UNCHANGED <<gain, gainCalls>>
  BY CodecLeaves, SwitchDone, SuspendDone, DrainDone, ResumeDone
  DEF ReclockStep, vars, clientVars
<1> QED
  BY <1>2, <1>3, PortSteps DEF GainOver

(* Why a capture may be on with the channel down.                          *)
Excused ==
  \/ codec_mutex = "probe"
  \/ rc.pc # "off" /\ ~(rc.retry /\ rc.pc \in Switched)
  \/ rc.pc = "off" /\ open_rate_ # Native

LEMMA RxByMic ==
  ASSUME Typed, Wound, MicStep, NEW g \in Handles
  PROVE  (rx => rx') /\ (capturing'[g] => capturing[g] \/ rx')
<1>1. ASSUME NEW h \in Handles, NEW how, StartCapture(h, how)
      PROVE  (rx => rx') /\ (capturing'[g] => capturing[g] \/ rx')
  BY <1>1, StartOpens
<1>2. ASSUME NEW h \in Handles, NEW who, StopCapture(h, who)
      PROVE  (rx => rx') /\ (capturing'[g] => capturing[g] \/ rx')
  BY <1>2 DEF StopCapture, Typed
<1>3. ASSUME NEW h \in Handles, NEW who, StopClose(h, who)
      PROVE  (rx => rx') /\ (capturing'[g] => capturing[g] \/ rx')
  BY <1>3 DEF StopClose
<1>4. "mono" \in Handles
  BY DEF Handles
<1> QED
  BY <1>1, <1>2, <1>3, <1>4, HandlesAssumption
  DEF MicStep, Start, Stop, StopEnd, ReadClaim, ReadCheck, ReadEnd, GainStop, GainClose,
      GainStart, handleVars

LEMMA RxByCodec ==
  ASSUME Typed, Seats, Clocked, CodecStep, "failed" \notin upsets, rx \/ Excused
  PROVE  rx' \/ Excused'
<1>1. /\ Idle.pc = "off" /\ None \notin {"audio", "voice", "probe"} /\ Switched' = Switched
      /\ "suspend_mono" \notin Switched /\ "done" \in Switched /\ "off" \notin Switched
  BY Names DEF Idle, Switched
<1>2. CASE FallBack
  BY <1>1, <1>2, ReclockStarts DEF FallBack, Excused
<1>3. CASE ChimeTake
  BY <1>1, <1>3, ReclockStarts DEF ChimeTake, Excused, handleVars
<1>4. CASE ChimeGive
  <2>1. voice \in {"idle", "waiting"} /\ rc.pc = "off"
    BY <1>4 DEF ChimeGive, Clocked, Seats, Typed
  <2>2. open_rate_' = open_rate_ /\ rc'.pc = "off" /\ UNCHANGED rx /\ codec_mutex = "audio"
    BY <1>1, <1>4, <2>1 DEF ChimeGive, SettledRate, handleVars
  <2> QED
    BY <2>1, <2>2 DEF Excused
<1>5. CASE BeginTake
  BY <1>1, <1>5, ReclockStarts DEF BeginTake, Excused, handleVars
<1>6. CASE BeginOk
  <2>1. rc'.pc = "off" /\ UNCHANGED <<rx, open_rate_>> /\ codec_mutex = "voice"
    BY <1>1, <1>6 DEF BeginOk, Seats, handleVars
  <2>2. CASE rc.pc = "off"
    BY <2>1, <2>2 DEF Excused
  <2>3. CASE rc.pc # "off"
    <3>1. rc.pc = "done" /\ rc.ok /\ ~rc.retry
      BY <1>6, <2>3 DEF BeginOk, Settled, RateReached
    <3>2. rc.rate # Native /\ open_rate_ = rc.rate
      BY <1>1, <1>6, <3>1 DEF BeginOk, Clocked
    <3> QED
      BY <2>1, <3>2 DEF Excused
  <2> QED
    BY <2>2, <2>3
<1>7. CASE BeginFail
  <2>1. rc.pc = "done" /\ UNCHANGED rx /\ codec_mutex = "voice" /\ voice = "begin"
    BY <1>1, <1>7 DEF BeginFail, Seats, Settled, RateReached, handleVars
  <2>2. rc.retry
    BY <1>7, <2>1 DEF BeginFail, Settled, RateReached
  <2> QED
    BY <1>1, <2>1, <2>2 DEF Excused
<1>8. CASE EndStream
  <2>1. rc.pc = "off" /\ codec_mutex = "voice"
    BY <1>1, <1>8 DEF EndStream, Seats
  <2> QED
    BY <1>1, <1>8, <2>1, ReclockStarts DEF EndStream, Excused, handleVars
<1>9. CASE EndGive
  <2>1. (rx \/ rc.pc = "done" => rx') /\ codec_mutex = "voice" /\ UNCHANGED open_rate_
        /\ rc'.pc = "off" /\ (rc.pc = "off" \/ rc.pc = "done")
    BY <1>1, <1>9 DEF EndGive, Seats, Settled
  <2> QED
    BY <2>1 DEF Excused
<1>10. CASE ProbeTake \/ ProbeGive
  BY <1>10 DEF ProbeTake, ProbeGive, Excused
<1>11. CASE \E rate \in StreamRates : BeginStream(rate)
  BY <1>11 DEF BeginStream, Excused, handleVars
<1>12. CASE \E on \in BOOLEAN : SetEnabled(on)
  BY <1>12 DEF SetEnabled, codecVars, handleVars, Excused
<1> QED
  BY <1>2, <1>3, <1>4, <1>5, <1>6, <1>7, <1>8, <1>9, <1>10, <1>11, <1>12
  DEF CodecStep, Voice

LEMMA HeardKept ==
  Typed /\ Seats /\ Clocked /\ Wound /\ Counted /\ Heard /\ [Next]_vars => Heard'
<1> SUFFICES ASSUME Typed, Seats, Clocked, Wound, Counted, Heard, [Next]_vars, OneGain'
             PROVE  /\ rc'.pc \in Switched /\ ~rc'.ok => GainOver'
                    /\ rc'.retry => GainOver'
                    /\ \A h \in Handles :
                        /\ rc'.pc \in Past[h] /\ open'[h] => GainOver' /\ ~rc'.retry
                        /\ capturing'[h] => rx' \/ Excused'
  BY DEF Heard, OneGain, GainOver, Excused, Switched, Past
<1>1. /\ OneGain
      /\ "failed" \notin upsets' /\ "late" \notin upsets' /\ "rude" \notin upsets'
      /\ "failed" \notin upsets
  <2>1. gainCalls' >= gainCalls /\ gainCalls \in Nat /\ gainCalls' \in Nat
    BY GainCallsGrow, TypesKept, GainAssumption DEF Typed
  <2>2. upsets \subseteq upsets' /\ upsets' \subseteq {"gain"} /\ gainCalls' <= 1
    BY UpsetsGrow DEF OneGain
  <2> QED
    BY <2>1, <2>2 DEF OneGain
<1>2. /\ rc.pc \in Switched /\ ~rc.ok => GainOver
      /\ rc.retry => GainOver
      /\ \A h \in Handles : /\ rc.pc \in Past[h] /\ open[h] => GainOver /\ ~rc.retry
                            /\ capturing[h] => rx \/ Excused
  BY <1>1 DEF Heard, OneGain, GainOver, Excused
<1>3. GainOver => GainOver'
  BY GainStaysOver
<1>4. /\ "off" \notin Switched /\ "suspend_mono" \notin Switched
      /\ Idle.retry = FALSE
  BY DEF Switched, Idle
<1>5. MicStep \/ UNCHANGED vars => rc' = rc
  BY MicLeaves DEF vars, codecVars
<1>6. ReclockStep => rc'.retry = rc.retry /\ rc'.ok = rc.ok
  BY SuspendDone, DrainDone, ResumeDone DEF ReclockStep
<1>7. ReclockStep /\ rc'.pc \in Switched \cup {"off"} => rc.pc \in Switched /\ rc'.pc \in Switched
  BY SuspendDone, DrainDone, ResumeDone, Tables DEF ReclockStep, Switched
<1>8. rc'.pc \in Switched /\ ~rc'.ok => GainOver'
  <2> SUFFICES ASSUME rc'.pc \in Switched, ~rc'.ok
               PROVE  GainOver \/ rc' = rc
    BY <1>2, <1>3
  <2>1. CASE Switch
    <3>1. rc.pc = "switch" /\ ~SpeakerFits(rc.rate)
      BY <1>1, <2>1, SwitchDone
    <3>2. \E h \in Handles : open[h]
      BY <3>1 DEF SpeakerFits
    <3>3. \A h \in Handles : rc.pc \in Past[h]
      BY <3>1, Tables
    <3> QED
      BY <1>2, <3>2, <3>3
  <2>2. CASE CodecStep
    BY <1>4, <2>2, CodecLeaves
  <2>3. CASE ReclockStep
    BY <1>2, <1>6, <1>7, <2>3
  <2> QED
    BY PortSteps, <1>5, <2>1, <2>2, <2>3
<1>9. rc'.retry => GainOver' /\ (rc.retry \/ FallBack)
  <2>1. ASSUME CodecStep, rc'.retry
        PROVE  rc.retry \/ FallBack
    BY <1>4, <2>1, ReclockStarts
    DEF CodecStep, ChimeTake, ChimeGive, Voice, BeginTake, BeginOk, BeginFail, EndGive,
        EndStream, ProbeTake, ProbeGive, BeginStream, SetEnabled, codecVars
  <2>2. FallBack => rc.pc \in Switched /\ ~rc.ok
    BY DEF FallBack, Switched
  <2>3. Switch => rc'.retry = rc.retry
    BY SwitchDone
  <2> QED
    BY PortSteps, <1>2, <1>3, <1>5, <1>6, <2>1, <2>2, <2>3
<1>10. ASSUME NEW g \in Handles, rc'.pc \in Past[g], open'[g]
       PROVE  GainOver' /\ ~rc'.retry
  <2>1. rc.pc \in Past[g]
    BY <1>1, <1>10, PastReached
  <2>2. rc.pc \notin {"off", "done"} /\ rc'.pc \notin Switched
        /\ rc.pc \notin {"resume_mono", "resume_wake"}
    BY <1>10, <2>1, Tables DEF Switched
  <2>3. rc'.retry => rc.retry
    BY <1>9, <2>2 DEF FallBack
  <2>4. CASE open[g]
    BY <1>2, <1>3, <2>1, <2>3, <2>4
  <2>5. CASE ~open[g]
    <3>1. ~ \E c \in Consumers : Start(c)
      BY <1>1, <2>2, PoliteStart
    <3>2. ~Resume(g)
      BY <2>2, ResumeDone, Tables
    <3>3. GainStart
      BY <1>10, <2>5, <3>1, <3>2, Opens
    <3>4. gain = "stopped" /\ gain' = "idle" /\ gainCalls' = gainCalls
      BY <3>3 DEF GainStart
    <3>5. gainCalls > 0 /\ gainCalls <= 1 /\ gainCalls \in Nat
      BY <1>1, <3>4 DEF Counted, OneGain, Typed
    <3>6. ~GainOver
      BY <3>4 DEF GainOver
    <3> QED
      BY <1>2, <2>3, <3>4, <3>5, <3>6 DEF GainOver
  <2> QED
    BY <2>4, <2>5
<1>11. ASSUME NEW g \in Handles, capturing'[g]
       PROVE  rx' \/ Excused'
  <2>1. CASE MicStep
    <3>1. (rx => rx') /\ (capturing[g] \/ rx')
      BY <1>11, <2>1, RxByMic
    <3>2. Excused' <=> Excused
      BY <2>1, MicLeaves DEF codecVars, Excused, Switched
    <3> QED
      BY <1>2, <3>1, <3>2
  <2>2. CASE UNCHANGED vars
    BY <1>2, <1>11, <2>2 DEF vars, codecVars, handleVars, Excused, Switched
  <2>3. CASE CodecStep
    <3>1. capturing[g]
      BY <1>11, <2>3, CodecLeaves
    <3> QED
      BY <1>1, <1>2, <2>3, <3>1, RxByCodec
  <2>4. CASE Switch
    <3>1. rc.pc = "switch" /\ capturing[g] /\ rc'.retry = rc.retry /\ rc'.pc # "off"
      BY <1>11, <2>4, SwitchDone
    <3>2. open[g] /\ rc.pc \in Past[g]
      BY <3>1, Tables DEF Wound, WoundAt
    <3>3. ~rc'.retry
      BY <1>2, <3>1, <3>2
    <3> QED
      BY <3>1, <3>3 DEF Excused
  <2>5. CASE ReclockStep /\ rc'.pc \notin Switched \cup {"off"}
    BY <2>5 DEF Excused, Switched
  <2>6. CASE ReclockStep /\ rc'.pc \in Switched \cup {"off"}
    <3>1. PICK h \in Handles : Suspend(h) \/ SuspendClose(h) \/ SuspendSkip(h) \/ Resume(h)
      BY <2>6 DEF ReclockStep
    <3>2. Resume(h)
      BY <2>6, <3>1, SuspendDone, DrainDone, Tables DEF Switched
    <3>3. (rx => rx') /\ (capturing[g] \/ rx')
      BY <1>11, <3>2, ResumeOpens
    <3>4. /\ UNCHANGED codec_mutex /\ rc'.retry = rc.retry
          /\ rc.pc \in Switched /\ rc'.pc \in Switched
      BY <1>7, <2>6, <3>2, ResumeDone
    <3>5. Excused => Excused'
      BY <1>4, <3>4 DEF Excused, Switched
    <3> QED
      BY <1>2, <3>3, <3>5
  <2> QED
    BY PortSteps, <2>1, <2>2, <2>3, <2>4, <2>5, <2>6
<1> QED
  BY <1>8, <1>9, <1>10, <1>11

-----------------------------------------------------------------------------
(* The invariant holds from init() on.                                     *)
LEMMA PortInit == Init => PortIInv
<1> SUFFICES ASSUME Init
             PROVE  PortIInv
  OBVIOUS
<1>1. Typed
  BY PortInitially
<1>2. /\ rc.pc = "off" /\ rc.rate = Native /\ ~rc.retry /\ rc.had = {} /\ rc = Idle
      /\ "off" \notin Switched
      /\ \A h \in Handles : rc.pc \notin Past[h] \cup {DrainStep[h]}
  BY Tables DEF Init, Idle, Switched
<1>3. Seats
  BY <1>2, Names DEF Init, Seats
<1>4. Clocked
  BY <1>2 DEF Init, Clocked
<1>5. /\ \A h \in Handles : /\ ~capturing[h] /\ ~open[h] /\ cap_mutex[h] = None /\ users[h] = 0
                            /\ ~suspended[h]
      /\ \A c \in Consumers : consumer[c] = "stopped" /\ reader[c] = "out"
      /\ gain = "idle" /\ gainCalls = 0 /\ upsets = {}
  BY DEF Init
<1>6. Wound
  BY <1>2, <1>5, Names DEF Wound, WoundAt
<1>7. \A h \in Handles : Started(h) = {} /\ Cardinality(Started(h)) = 0
  <2>1. \A h \in Handles : Started(h) = {}
    BY <1>5 DEF Started
  <2> QED
    BY <2>1, FS_EmptySet
<1>8. Counted
  BY <1>5, <1>7 DEF Counted
<1>9. Claimed
  BY <1>5 DEF Claimed
<1>10. Quiet
  BY <1>5 DEF Quiet
<1>11. Remembered
  BY <1>2, <1>5, <1>7 DEF Remembered
<1>12. Heard
  BY <1>2, <1>5 DEF Heard
<1> QED
  BY <1>1, <1>3, <1>4, <1>6, <1>8, <1>9, <1>10, <1>11, <1>12 DEF PortIInv

LEMMA PortStep == PortIInv /\ [Next]_vars => PortIInv'
BY TypesKept, SeatsKept, ClockedKept, WoundKept, CountedKept, ClaimedKept, QuietKept,
   RememberedKept, HeardKept DEF PortIInv

(* What follows from the invariant.                                        *)
LEMMA TypesRight == PortIInv => TypeOK
<1> SUFFICES ASSUME PortIInv
             PROVE  TypeOK
  OBVIOUS
<1> DEFINE C == Cardinality(Consumers)
<1>1. C \in Nat
  BY HandlesAssumption, FS_CardinalityType
<1>2. ASSUME NEW h \in Handles
      PROVE  users[h] \in 0 .. (C + MaxGainCalls)
  <2>1. Cardinality(Started(h)) <= C
    BY HandlesAssumption, FS_Subset DEF Started
  <2>2. /\ users[h] <= Cardinality(Started(h)) + gainCalls
        /\ users[h] \in Nat /\ gainCalls \in 0 .. MaxGainCalls
    BY DEF PortIInv, Counted, Typed
  <2>3. Cardinality(Started(h)) \in Nat
    BY StartedCounts DEF PortIInv
  <2> QED
    BY <1>1, <2>1, <2>2, <2>3, GainAssumption
<1>3. users \in [Handles -> 0 .. (C + MaxGainCalls)]
  BY <1>2 DEF PortIInv, Typed
<1> QED
  BY <1>3 DEF PortIInv, Typed, TypeOK

LEMMA ReceivesWhenFree == PortIInv => ReceiveUp
<1> SUFFICES ASSUME PortIInv, codec_mutex = None, upsets \subseteq {"gain"}, gainCalls <= 1,
                    NEW h \in Handles, capturing[h]
             PROVE  rx
  BY DEF ReceiveUp
<1>1. voice \in {"idle", "waiting"}
  BY Names DEF PortIInv, Typed, Seats
<1>2. rc.pc = "off" /\ open_rate_ = Native
  BY <1>1 DEF PortIInv, Clocked
<1> QED
  BY <1>2, Names DEF PortIInv, Heard

LEMMA OneHandleOpen == PortIInv => NeverBothOpen
<1> SUFFICES ASSUME PortIInv, upsets \subseteq {"failed", "late"}, open["mono"], open["wake"]
             PROVE  FALSE
  BY DEF NeverBothOpen
<1>1. gainCalls = 0 /\ gain = "idle" /\ "rude" \notin upsets
  BY DEF PortIInv, Counted, Typed
<1>2. ASSUME NEW h \in Handles, open[h]
      PROVE  \E c \in Consumers : HandleOf[c] = h /\ consumer[c] # "stopped"
  <2>1. WoundAt(h) /\ cap_mutex[h] \in Consumers \cup {None, "httpd", "reclock"}
    BY DEF PortIInv, Wound, Typed
  <2>2. CASE users[h] > 0
    <3>1. Cardinality(Started(h)) > 0
      BY <1>1, <2>2, StartedCounts DEF PortIInv, Counted, Typed
    <3>2. Started(h) # {}
      BY <3>1, FS_EmptySet
    <3> QED
      BY <3>2 DEF Started
  <2>3. CASE cap_mutex[h] \in Consumers
    BY <2>1, <2>3 DEF WoundAt
  <2>4. cap_mutex[h] # "httpd"
    BY <1>1, <2>1 DEF WoundAt
  <2> QED
    BY <1>2, <2>1, <2>2, <2>3, <2>4 DEF WoundAt
<1>3. PICK c \in Consumers : HandleOf[c] = "mono" /\ consumer[c] # "stopped"
  BY <1>2 DEF Handles
<1>4. PICK d \in Consumers : HandleOf[d] = "wake" /\ consumer[d] # "stopped"
  BY <1>2 DEF Handles
<1> QED
  BY <1>1, <1>3, <1>4 DEF PortIInv, Counted

LEMMA RatesRight == PortIInv => StreamAtItsRate /\ (OneReader => SamplesAreNative)
<1> SUFFICES ASSUME PortIInv
             PROVE  StreamAtItsRate /\ (OneReader => SamplesAreNative)
  OBVIOUS
<1>1. StreamAtItsRate
  <2> SUFFICES ASSUME streaming_, "failed" \notin upsets
               PROVE  codec_mutex = "voice" /\ codec = voiceRate /\ clock = voiceRate
    BY DEF StreamAtItsRate
  <2>1. voice = "streaming" /\ codec_mutex = "voice" /\ rc.pc = "off"
    BY DEF PortIInv, Seats
  <2> QED
    BY <2>1 DEF PortIInv, Clocked
<1>2. ASSUME OneReader, upsets = {}, NEW c \in Consumers, reader[c] = "in"
      PROVE  clock = Native
  <2>1. open[HandleOf[c]] /\ HandleOf[c] \in Handles
    BY <1>2, HandlesAssumption DEF PortIInv, Claimed
  <2> QED
    BY <1>2, <2>1 DEF PortIInv, Quiet
<1> QED
  BY <1>1, <1>2 DEF SamplesAreNative

LEMMA MicIsBack == PortIInv => MicComesBack
<1> SUFFICES ASSUME PortIInv, codec_mutex = None, upsets \subseteq {"late"},
                    NEW c \in Consumers, consumer[c] = "started"
             PROVE  capturing[HandleOf[c]]
  BY DEF MicComesBack
<1> DEFINE h == HandleOf[c]
<1>1. h \in Handles
  BY HandlesAssumption
<1>2. voice \in {"idle", "waiting"}
  BY Names DEF PortIInv, Typed, Seats
<1>3. rc.pc = "off" /\ open_rate_ = Native
  BY <1>2 DEF PortIInv, Clocked
<1>4. ~suspended[h]
  BY <1>1, <1>3 DEF PortIInv, Remembered
<1>5. users[h] > 0
  <2>1. c \in Started(h)
    BY DEF Started
  <2>2. Started(h) # {} /\ IsFiniteSet(Started(h)) /\ Cardinality(Started(h)) \in Nat
    BY <1>1, <2>1, StartedCounts DEF PortIInv
  <2>3. Cardinality(Started(h)) # 0
    BY <2>2, FS_EmptySet
  <2>4. users[h] >= Cardinality(Started(h)) /\ users[h] \in Nat
    BY <1>1 DEF PortIInv, Remembered, Typed
  <2> QED
    BY <2>2, <2>3, <2>4
<1>6. cap_mutex[h] # "reclock" /\ rc.pc \notin Pending[h]
  BY <1>1, <1>3, Tables DEF PortIInv, Wound, WoundAt
<1> QED
  BY <1>1, <1>4, <1>5, <1>6 DEF PortIInv, Remembered, Owed

LEMMA NoReadCut ==
  ASSUME OneReader, PortIInv, [Next]_vars, NEW c \in Consumers,
         open[HandleOf[c]], ~open'[HandleOf[c]], "late" \notin upsets'
  PROVE  reader[c] # "in"
<1>1. HandleOf[c] \in Handles
  BY HandlesAssumption
<1>2. ~reading[HandleOf[c]]
  BY <1>1, Closes DEF PortIInv
<1> QED
  BY <1>2 DEF PortIInv, Claimed

-----------------------------------------------------------------------------
(* However the audio task, the voice task, the consumers, /mic_gain and    *)
(* /mic_probe4 interleave: an open capture finds its channel enabled when  *)
(* the codec is free, the two handles are never open at once, a reply is   *)
(* played at its rate and samples are read at the native one.  The last    *)
(* needs a handle for every consumer: two readers of one handle share the  *)
(* flag reading_ (record_pcm, line 654).                                   *)
THEOREM PortSafe ==
  ASSUME OneReader
  PROVE  Spec => []Inv
<1>1. PortIInv => Inv
  BY TypesRight, ReceivesWhenFree, OneHandleOpen, RatesRight DEF Inv, RatesAgree
<1> QED
  BY <1>1, PortInit, PortStep, PTL DEF Spec

(* Whoever shares a handle with whom, and however late a reader leaves: a  *)
(* capture that a reply suspended is on again when the codec is free       *)
(* (maybe_resume_capture).                                                 *)
THEOREM CapturesComeBack == Spec => []MicComesBack
<1> QED
  BY MicIsBack, PortInit, PortStep, PTL DEF Spec

(* With a handle for every consumer no device is closed under a read that  *)
(* the drain has waited for (drain_reader, record_pcm).                    *)
THEOREM ReadsAreNotCut ==
  ASSUME OneReader
  PROVE  Spec => NoCloseUnderRead
<1>1. PortIInv /\ [Next]_vars =>
        [\A c \in Consumers :
           open[HandleOf[c]] /\ ~open'[HandleOf[c]] /\ "late" \notin upsets'
             => reader[c] # "in"]_vars
  BY NoReadCut
<1> QED
  BY <1>1, PortInit, PortStep, PTL DEF Spec, NoCloseUnderRead

-----------------------------------------------------------------------------
(* A behaviour of the run is of the port or of the queue. *)

LEMMA PortOfTheSpeaker == SoundSpec => Spec
<1>1. SoundInit => Init
  BY DEF SoundInit
<1>2. [SoundNext]_soundVars => [Next]_vars
  BY DEF SoundNext, soundVars
<1> QED
  BY <1>1, <1>2, PTL DEF SoundSpec, Spec

LEMMA QueueOfTheSpeaker == SoundSpec => ClipSpec
<1>1. SoundInit => ClipInit
  BY DEF SoundInit
<1>2. [SoundNext]_soundVars => [ClipNext]_clipVars
  BY DEF SoundNext, soundVars
<1> QED
  BY <1>1, <1>2, PTL DEF SoundSpec, ClipSpec

(* Everything waveshare_audio.cpp is held to that needs no fairness, on a  *)
(* panel whose consumers have a handle each.                               *)
THEOREM SoundSafe ==
  ASSUME OneReader
  PROVE  SoundSpec => /\ [](Inv /\ MicComesBack /\ ClipInv)
                      /\ NoCloseUnderRead /\ CuesSound
BY PortOfTheSpeaker, QueueOfTheSpeaker, PortSafe, CapturesComeBack, ReadsAreNotCut,
   ClipsSafe, CuesAreHeard, PTL
=============================================================================
