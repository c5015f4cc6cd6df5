------------------------- MODULE AnchorWatchProofs -------------------------
(***************************************************************************)
(* Proofs about AnchorWatch, for any track length, number of age bands,    *)
(* drops, swings and builds: the ring buffer holds the newest points in    *)
(* order, every stretch of it is drawn by one band, and no watch reads     *)
(* ANCHOR UP.                                                              *)
(***************************************************************************)
EXTENDS MCAnchorWatch, SequenceTheorems, TLAPS

-----------------------------------------------------------------------------
(* Arithmetic of the ring and of the bands.                                *)

LEMMA TimesMonotone ==
  ASSUME NEW a \in Nat, NEW b \in Nat, NEW c \in Nat, a <= b
  PROVE  a * c <= b * c
BY SMT

LEMMA Quotient ==
  ASSUME NEW x \in Nat, NEW y \in Nat \ {0}
  PROVE  /\ x \div y \in Nat
         /\ (x \div y) * y <= x
         /\ x < (x \div y) * y + y
BY SMT

LEMMA QuotientLess ==
  ASSUME NEW x \in Nat, NEW y \in Nat \ {0}, NEW k \in Nat, x < k * y
  PROVE  x \div y < k
<1> DEFINE q == x \div y
<1>1. q \in Nat /\ q * y <= x
  BY Quotient
<1>2. CASE k <= q
  <2>1. k * y <= q * y
    BY <1>1, <1>2, TimesMonotone
  <2>2. k * y \in Nat /\ q * y \in Nat
    BY <1>1
  <2> QED
    BY <1>1, <2>1, <2>2
<1> QED
  BY <1>1, <1>2

LEMMA QuotientAtLeast ==
  ASSUME NEW x \in Nat, NEW y \in Nat \ {0}, NEW k \in Nat, k * y <= x
  PROVE  k <= x \div y
<1> DEFINE q == x \div y
<1>1. q \in Nat /\ x < q * y + y
  BY Quotient
<1>2. CASE q + 1 <= k
  <2>1. (q + 1) * y <= k * y
    BY <1>1, <1>2, TimesMonotone
  <2>2. (q + 1) * y = q * y + y
    BY <1>1
  <2>3. k * y \in Nat /\ q * y \in Nat
    BY <1>1
  <2> QED
    BY <1>1, <2>1, <2>2, <2>3
<1> QED
  BY <1>1, <1>2

LEMMA Wrap ==
  ASSUME NEW n \in Nat \ {0}, NEW a \in 0 .. 2 * n - 1
  PROVE  a % n = IF a < n THEN a ELSE a - n
BY SMT

-----------------------------------------------------------------------------
(* The bands.  Band b draws the stretch from i to i + 1 exactly if its      *)
(* part of the points ends behind i + 1 and the part before it does not.   *)

Part(b) == (b * count) \div kTrackBands

LEMMA BandOfStretch ==
  ASSUME count \in Nat, NEW b \in Nat, NEW i \in Nat
  PROVE  Draws(b, i) <=> Part(b) < i + 2 /\ i + 2 <= Part(b + 1)
<1>1. Part(b) \in Nat /\ Part(b + 1) \in Nat
  <2>1. b * count \in Nat /\ (b + 1) * count \in Nat
    OBVIOUS
  <2> QED
    BY <2>1, Quotient, TrackAssumption DEF Part
<1>2. BandTo(b) = Part(b + 1)
  BY DEF BandTo, Part
<1>3. BandFrom(b) = IF Part(b) > 0 THEN Part(b) - 1 ELSE Part(b)
  BY DEF BandFrom, Part
<1> QED
  BY <1>1, <1>2, <1>3 DEF Draws

LEMMA PartsGrow ==
  ASSUME count \in Nat, NEW b \in Nat, NEW c \in Nat, b <= c
  PROVE  Part(b) <= Part(c) /\ Part(b) \in Nat /\ Part(c) \in Nat
<1>1. b * count \in Nat /\ c * count \in Nat /\ b * count <= c * count
  BY TimesMonotone
<1>2. Part(b) \in Nat /\ Part(b) * kTrackBands <= b * count
  BY <1>1, Quotient, TrackAssumption DEF Part
<1>3. Part(b) * kTrackBands \in Nat
  BY <1>2, TrackAssumption
<1>4. Part(b) * kTrackBands <= c * count
  BY <1>1, <1>2, <1>3
<1>5. Part(b) <= Part(c)
  BY <1>1, <1>2, <1>4, QuotientAtLeast, TrackAssumption DEF Part
<1>6. Part(c) \in Nat
  BY <1>1, Quotient, TrackAssumption DEF Part
<1> QED
  BY <1>2, <1>5, <1>6

(* The band of a stretch: the first one whose part ends behind it.         *)
LEMMA StretchHasBand ==
  ASSUME count \in Nat, NEW i \in 0 .. count - 2
  PROVE  \E b \in 0 .. kTrackBands - 1 : Draws(b, i)
<1> DEFINE m == (i + 2) * kTrackBands - 1
           b == m \div count
<1>1. kTrackBands \in Nat \ {0} /\ count \in Nat \ {0} /\ i + 2 \in Nat /\ i + 2 <= count
  BY TrackAssumption
<1>2. (i + 2) * kTrackBands \in Nat /\ 1 * kTrackBands <= (i + 2) * kTrackBands
  BY <1>1, TimesMonotone
<1>3. m \in Nat
  BY <1>1, <1>2
<1>4. b \in Nat /\ b * count <= m /\ m < b * count + count
  BY <1>1, <1>3, Quotient
<1>5. b * count \in Nat /\ (b + 1) * count = b * count + count
  BY <1>1, <1>4
<1> HIDE DEF b
<1>6. b < kTrackBands
  <2>1. (i + 2) * kTrackBands <= count * kTrackBands
    BY <1>1, TimesMonotone
  <2>2. count * kTrackBands = kTrackBands * count /\ kTrackBands * count \in Nat
    BY <1>1
  <2>3. m < kTrackBands * count
    BY <1>2, <2>1, <2>2
  <2> QED
    BY <1>1, <1>3, <2>3, QuotientLess DEF b
<1>7. Part(b) < i + 2
  <2>1. b * count < (i + 2) * kTrackBands
    BY <1>2, <1>4, <1>5
  <2> QED
    BY <1>1, <1>5, <2>1, QuotientLess DEF Part
<1>8. i + 2 <= Part(b + 1)
  <2>1. (i + 2) * kTrackBands <= (b + 1) * count
    BY <1>2, <1>4, <1>5
  <2>2. (b + 1) * count \in Nat
    BY <1>1, <1>5
  <2> QED
    BY <1>1, <2>1, <2>2, QuotientAtLeast DEF Part
<1>9. Draws(b, i)
  BY <1>1, <1>4, <1>7, <1>8, BandOfStretch
<1> QED
  BY <1>1, <1>4, <1>6, <1>9

LEMMA StretchHasOneBand ==
  ASSUME count \in Nat, NEW i \in Nat, NEW b \in Nat, NEW c \in Nat,
         Draws(b, i), Draws(c, i), b < c
  PROVE  FALSE
<1>1. i + 2 <= Part(b + 1) /\ Part(c) < i + 2
  BY BandOfStretch
<1>2. Part(b + 1) <= Part(c) /\ Part(b + 1) \in Nat /\ Part(c) \in Nat
  BY PartsGrow
<1> QED
  BY <1>1, <1>2

LEMMA BandsCover == ASSUME count \in Nat PROVE EverySegmentDrawnOnce
<1> SUFFICES ASSUME NEW i \in 0 .. count - 2
             PROVE  \E b \in 0 .. kTrackBands - 1 :
                      /\ Draws(b, i)
                      /\ \A c \in 0 .. kTrackBands - 1 : Draws(c, i) => c = b
  BY DEF EverySegmentDrawnOnce
<1>1. PICK b \in 0 .. kTrackBands - 1 : Draws(b, i)
  BY StretchHasBand
<1>2. ASSUME NEW c \in 0 .. kTrackBands - 1, Draws(c, i) PROVE c = b
  <2>1. b \in Nat /\ c \in Nat /\ i \in Nat
    BY TrackAssumption
  <2>2. ~(b < c) /\ ~(c < b)
    BY <1>1, <1>2, <2>1, StretchHasOneBand
  <2> QED
    BY <2>1, <2>2
<1> QED
  BY <1>1, <1>2

-----------------------------------------------------------------------------
(* The ring: where the i-th of c points lies when head is h.               *)

Oldest(h, c) == (h - c + kTrackMax) % kTrackMax
Slot(h, c, i) == (Oldest(h, c) + i - 1) % kTrackMax
After(h) == (h + 1) % kTrackMax

LEMMA OldestIs ==
  ASSUME NEW h \in 0 .. kTrackMax - 1, NEW c \in 0 .. kTrackMax
  PROVE  /\ Oldest(h, c) = IF c <= h THEN h - c ELSE h - c + kTrackMax
         /\ Oldest(h, c) \in 0 .. kTrackMax - 1
<1>1. kTrackMax \in Nat \ {0}
  BY TrackAssumption
<1> DEFINE a == h - c + kTrackMax
<1>2. a \in 0 .. 2 * kTrackMax - 1
  BY <1>1
<1>3. Oldest(h, c) = a % kTrackMax
  BY DEF Oldest
<1>4. a % kTrackMax = IF a < kTrackMax THEN a ELSE a - kTrackMax
  <2> HIDE DEF a
  <2> QED
    BY <1>1, <1>2, Wrap, Zenon
<1>5. Oldest(h, c) = IF a < kTrackMax THEN a ELSE a - kTrackMax
  BY <1>3, <1>4, Zenon
<1> QED
  BY <1>1, <1>5

LEMMA SlotIs ==
  ASSUME NEW h \in 0 .. kTrackMax - 1, NEW c \in 0 .. kTrackMax, NEW i \in 1 .. kTrackMax
  PROVE  LET a == Oldest(h, c) + i - 1 IN
           Slot(h, c, i) = IF a < kTrackMax THEN a ELSE a - kTrackMax
<1>1. kTrackMax \in Nat \ {0}
  BY TrackAssumption
<1> DEFINE a == Oldest(h, c) + i - 1
<1>2. a \in 0 .. 2 * kTrackMax - 1
  <2>1. Oldest(h, c) \in 0 .. kTrackMax - 1
    BY OldestIs
  <2> QED
    BY <1>1, <2>1
<1>3. Slot(h, c, i) = a % kTrackMax
  BY DEF Slot
<1> HIDE DEF a
<1>4. Slot(h, c, i) = IF a < kTrackMax THEN a ELSE a - kTrackMax
  BY <1>1, <1>2, <1>3, Wrap, Zenon
<1> QED
  BY <1>4 DEF a

LEMMA AfterIs ==
  ASSUME NEW h \in 0 .. kTrackMax - 1
  PROVE  /\ After(h) = IF h + 1 < kTrackMax THEN h + 1 ELSE 0
         /\ After(h) \in 0 .. kTrackMax - 1
<1>1. kTrackMax \in Nat \ {0}
  BY TrackAssumption
<1> DEFINE a == h + 1
<1>2. a \in 0 .. 2 * kTrackMax - 1
  BY <1>1
<1>3. After(h) = a % kTrackMax
  BY DEF After
<1>4. After(h) = IF a < kTrackMax THEN a ELSE a - kTrackMax
  <2> HIDE DEF a
  <2> QED
    BY <1>1, <1>2, <1>3, Wrap, Zenon
<1> QED
  BY <1>1, <1>4

(* With room left the points stay, and the new one comes behind them.      *)
LEMMA SlotsWithRoom ==
  ASSUME NEW h \in 0 .. kTrackMax - 1, NEW c \in 0 .. kTrackMax - 1
  PROVE  /\ \A i \in 1 .. c : Slot(After(h), c + 1, i) = Slot(h, c, i) /\ Slot(h, c, i) # h
         /\ Slot(After(h), c + 1, c + 1) = h
<1>1. kTrackMax \in Nat \ {0} /\ c \in 0 .. kTrackMax /\ c + 1 \in 1 .. kTrackMax
  BY TrackAssumption
<1>2. /\ After(h) = IF h + 1 < kTrackMax THEN h + 1 ELSE 0
      /\ After(h) \in 0 .. kTrackMax - 1
  BY AfterIs
<1>3. /\ Oldest(h, c) = IF c <= h THEN h - c ELSE h - c + kTrackMax
      /\ Oldest(h, c) \in 0 .. kTrackMax - 1
  BY <1>1, OldestIs
<1>4. Oldest(After(h), c + 1) = Oldest(h, c)
  <2>1. c + 1 \in 0 .. kTrackMax
    BY <1>1
  <2>2. Oldest(After(h), c + 1) =
          IF c + 1 <= After(h) THEN After(h) - (c + 1) ELSE After(h) - (c + 1) + kTrackMax
    BY <1>2, <2>1, OldestIs
  <2> QED
    BY <1>1, <1>2, <1>3, <2>2
<1>5. ASSUME NEW i \in 1 .. c
      PROVE  Slot(After(h), c + 1, i) = Slot(h, c, i) /\ Slot(h, c, i) # h
  <2> DEFINE a == Oldest(h, c) + i - 1
  <2>1. i \in 1 .. kTrackMax
    BY <1>1
  <2>2. Slot(After(h), c + 1, i) = Slot(h, c, i)
    BY <1>4 DEF Slot
  <2>3. Slot(h, c, i) = IF a < kTrackMax THEN a ELSE a - kTrackMax
    BY <1>1, <2>1, SlotIs
  <2>4. Slot(h, c, i) # h
    BY <1>1, <1>3, <2>3
  <2> QED
    BY <2>2, <2>4
<1>6. Slot(After(h), c + 1, c + 1) = h
  <2> DEFINE a == Oldest(After(h), c + 1) + (c + 1) - 1
  <2>1. Slot(After(h), c + 1, c + 1) = IF a < kTrackMax THEN a ELSE a - kTrackMax
    <3>1. c + 1 \in 0 .. kTrackMax /\ c + 1 \in 1 .. kTrackMax
      BY <1>1
    <3> QED
      BY <1>2, <3>1, SlotIs
  <2> QED
    BY <1>1, <1>3, <1>4, <2>1
<1> QED
  BY <1>5, <1>6

(* A full ring: the new point takes the place of the oldest.               *)
LEMMA SlotsFull ==
  ASSUME NEW h \in 0 .. kTrackMax - 1
  PROVE  /\ \A i \in 1 .. kTrackMax - 1 :
              Slot(After(h), kTrackMax, i) = Slot(h, kTrackMax, i + 1) /\ Slot(h, kTrackMax, i + 1) # h
         /\ Slot(After(h), kTrackMax, kTrackMax) = h
<1>1. kTrackMax \in Nat \ {0} /\ kTrackMax \in 0 .. kTrackMax /\ kTrackMax \in 1 .. kTrackMax
  BY TrackAssumption
<1>2. /\ After(h) = IF h + 1 < kTrackMax THEN h + 1 ELSE 0
      /\ After(h) \in 0 .. kTrackMax - 1
  BY AfterIs
<1>3. Oldest(h, kTrackMax) = h /\ Oldest(After(h), kTrackMax) = After(h)
  <2>1. ASSUME NEW g \in 0 .. kTrackMax - 1 PROVE Oldest(g, kTrackMax) = g
    <3>1. Oldest(g, kTrackMax) =
            IF kTrackMax <= g THEN g - kTrackMax ELSE g - kTrackMax + kTrackMax
      BY <1>1, OldestIs
    <3> QED
      BY <1>1, <3>1
  <2> QED
    BY <1>2, <2>1
<1>4. ASSUME NEW i \in 1 .. kTrackMax - 1
      PROVE  Slot(After(h), kTrackMax, i) = Slot(h, kTrackMax, i + 1) /\ Slot(h, kTrackMax, i + 1) # h
  <2> DEFINE a == After(h) + i - 1
             b == h + (i + 1) - 1
  <2>1. i \in 1 .. kTrackMax /\ i + 1 \in 1 .. kTrackMax
    BY <1>1
  <2>2. Slot(After(h), kTrackMax, i) = IF a < kTrackMax THEN a ELSE a - kTrackMax
    BY <1>1, <1>2, <1>3, <2>1, SlotIs
  <2>3. Slot(h, kTrackMax, i + 1) = IF b < kTrackMax THEN b ELSE b - kTrackMax
    BY <1>1, <1>3, <2>1, SlotIs
  <2> QED
    BY <1>1, <1>2, <2>2, <2>3
<1>5. Slot(After(h), kTrackMax, kTrackMax) = h
  <2> DEFINE a == After(h) + kTrackMax - 1
  <2>1. Slot(After(h), kTrackMax, kTrackMax) = IF a < kTrackMax THEN a ELSE a - kTrackMax
    BY <1>1, <1>2, <1>3, SlotIs
  <2> QED
    BY <1>1, <1>2, <2>1
<1> QED
  BY <1>4, <1>5

-----------------------------------------------------------------------------
(* Types, and what the ring holds.                                         *)

Message ==
  [path : {"state"}, v : BOOLEAN, watch : Nat]
    \cup [path : {"max"}, v : {Limit, Null}, watch : Nat]
    \cup [path : {"brg"}, v : Bearings, watch : Nat]
    \cup [path : {"cur"}, v : Radii, watch : Nat]

Plot == (Bearings \cup {0}) \X (Radii \cup {0, Limit})

Typed ==
  /\ TypeOK
  /\ deltas \in Seq(Message)
  /\ trail \in Seq([at : Plot, watch : Nat])

Ring ==
  /\ count = Len(trail)
  /\ \A i \in 1 .. count : band_pts[Slot(head, count, i)] = trail[i].at

LEMMA RingIsNewest == ASSUME Typed, Ring PROVE TrackIsNewest
<1>1. count \in Nat
  BY TrackAssumption DEF Typed, TypeOK
<1>2. Ordered = [i \in 1 .. count |-> band_pts[Slot(head, count, i)]]
  BY DEF Ordered, Slot, Oldest
<1> QED
  BY <1>1, <1>2 DEF Ring, TrackIsNewest

LEMMA NewestIs ==
  ASSUME NEW S, NEW s \in Seq(S), NEW n \in Nat
  PROVE  /\ Newest(n, s) \in Seq(S)
         /\ Len(s) <= n => Newest(n, s) = s
         /\ Len(s) = n + 1 =>
              /\ Len(Newest(n, s)) = n
              /\ \A i \in 1 .. n : Newest(n, s)[i] = s[i + 1]
<1>1. Len(s) \in Nat
  OBVIOUS
<1>2. CASE Len(s) <= n
  <2>1. Newest(n, s) = SubSeq(s, 1, Len(s))
    <3>1. ~(Len(s) > n)
      BY <1>1, <1>2
    <3> QED
      BY <3>1 DEF Newest
  <2>2. SubSeq(s, 1, Len(s)) = s
    BY SubSeqFull
  <2>3. Newest(n, s) = s
    BY <2>1, <2>2
  <2>4. ~(Len(s) = n + 1)
    BY <1>1, <1>2
  <2> QED
    BY <2>3, <2>4
<1>3. CASE Len(s) > n
  <2>1. Newest(n, s) = SubSeq(s, Len(s) - n + 1, Len(s))
    BY <1>1, <1>3 DEF Newest
  <2>2. SubSeq(s, Len(s) - n + 1, Len(s)) \in Seq(S)
    BY <1>1, <1>3, SubSeqProperties
  <2>3. ASSUME Len(s) = n + 1
        PROVE  /\ Len(Newest(n, s)) = n
               /\ \A i \in 1 .. n : Newest(n, s)[i] = s[i + 1]
    <3> DEFINE u == SubSeq(s, 2, n + 1)
    <3>1. Newest(n, s) = u
      BY <1>1, <2>1, <2>3
    <3>2. \A i \in 2 .. n + 1 : s[i] \in S
      BY <2>3
    <3>3. /\ Len(u) = IF 2 <= n + 1 THEN (n + 1) - 2 + 1 ELSE 0
          /\ \A i \in 1 .. (n + 1) - 2 + 1 : u[i] = s[2 + i - 1]
      BY <3>2, SubSeqProperties
    <3> HIDE DEF u
    <3>4. Len(u) = n
      BY <3>3
    <3>5. ASSUME NEW i \in 1 .. n PROVE u[i] = s[i + 1]
      <4>1. i \in 1 .. (n + 1) - 2 + 1 /\ 2 + i - 1 = i + 1
        OBVIOUS
      <4> QED
        BY <3>3, <4>1
    <3> QED
      BY <3>1, <3>4, <3>5
  <2> QED
    BY <1>1, <1>3, <2>1, <2>2, <2>3
<1> QED
  BY <1>1, <1>2, <1>3

-----------------------------------------------------------------------------
(* The steps of the track.                                                 *)

LEMMA TypedNumbers ==
  ASSUME Typed
  PROVE  /\ count \in Nat /\ count \in 0 .. kTrackMax /\ head \in 0 .. kTrackMax - 1
         /\ drops \in Nat /\ kTrackMax \in Nat \ {0}
BY TrackAssumption, BoundsAssumption DEF Typed, TypeOK

Readings == [on : BOOLEAN, max : {0, Limit}, brg : Bearings \cup {0}, cur : Radii \cup {0}]

LEMMA SpotPlotted == ASSUME NEW s \in Readings PROVE Spot(s) \in Plot
BY DEF Spot, Readings, Plot

LEMMA PushTyped ==
  ASSUME Typed, Ring, NEW s \in Readings, NEW w \in Nat, Push(s, w)
  PROVE  /\ band_pts' \in [0 .. kTrackMax - 1 -> Plot]
         /\ head' = After(head) /\ head' \in 0 .. kTrackMax - 1
         /\ count' = (IF count < kTrackMax THEN count + 1 ELSE count)
         /\ count' \in 0 .. kTrackMax
         /\ trail' = Newest(kTrackMax, Append(trail, [at |-> Spot(s), watch |-> w]))
         /\ Append(trail, [at |-> Spot(s), watch |-> w]) \in Seq([at : Plot, watch : Nat])
         /\ trail' \in Seq([at : Plot, watch : Nat])
<1>1. band_pts' \in [0 .. kTrackMax - 1 -> Plot]
  BY SpotPlotted DEF Push, Typed, TypeOK, Plot
<1>2. head' = After(head) /\ head' \in 0 .. kTrackMax - 1
  BY TypedNumbers, AfterIs DEF Push, After
<1>3. count' = (IF count < kTrackMax THEN count + 1 ELSE count) /\ count' \in 0 .. kTrackMax
  BY TypedNumbers DEF Push
<1>4. Append(trail, [at |-> Spot(s), watch |-> w]) \in Seq([at : Plot, watch : Nat])
  <2>1. [at |-> Spot(s), watch |-> w] \in [at : Plot, watch : Nat]
    BY SpotPlotted
  <2> QED
    BY <2>1, AppendProperties DEF Typed
<1>5. trail' = Newest(kTrackMax, Append(trail, [at |-> Spot(s), watch |-> w]))
  BY DEF Push
<1>6. trail' \in Seq([at : Plot, watch : Nat])
  BY <1>4, <1>5, NewestIs, TypedNumbers
<1> QED
  BY <1>1, <1>2, <1>3, <1>4, <1>5, <1>6

(* The point put in: the last one of a track with room, and behind all but *)
(* the oldest one of a full track.                                         *)
LEMMA PushRing ==
  ASSUME Typed, Ring, NEW s \in Readings, NEW w \in Nat, Push(s, w)
  PROVE  Ring' /\ Len(trail') <= kTrackMax
<1> DEFINE x == [at |-> Spot(s), watch |-> w]
           more == Append(trail, x)
<1>1. /\ head' = After(head) /\ more \in Seq([at : Plot, watch : Nat])
      /\ trail' = Newest(kTrackMax, more)
      /\ count' = IF count < kTrackMax THEN count + 1 ELSE count
  BY PushTyped
<1>2. \A j \in 0 .. kTrackMax - 1 : band_pts'[j] = IF j = head THEN x.at ELSE band_pts[j]
  BY DEF Push, Typed, TypeOK
<1>3. /\ Len(more) = count + 1 /\ more[count + 1] = x
      /\ \A i \in 1 .. count : more[i] = trail[i]
  BY AppendProperties DEF Typed, Ring
<1>4. /\ \A i \in 1 .. count : band_pts[Slot(head, count, i)] = trail[i].at
      /\ count \in 0 .. kTrackMax /\ head \in 0 .. kTrackMax - 1 /\ kTrackMax \in Nat \ {0}
  BY TypedNumbers DEF Ring
<1>5. ASSUME NEW i \in 1 .. count PROVE Slot(head, count, i) \in 0 .. kTrackMax - 1
  <2> DEFINE a == Oldest(head, count) + i - 1
  <2>1. Oldest(head, count) \in 0 .. kTrackMax - 1 /\ i \in 1 .. kTrackMax
    BY <1>4, OldestIs
  <2>2. Slot(head, count, i) = IF a < kTrackMax THEN a ELSE a - kTrackMax
    BY <1>4, <2>1, SlotIs
  <2> QED
    BY <1>4, <2>1, <2>2
<1> HIDE DEF more, x
<1>6. CASE count < kTrackMax
  <2>1. trail' = more /\ count' = count + 1 /\ Len(trail') = count'
    <3>1. Len(more) <= kTrackMax /\ kTrackMax \in Nat
      BY <1>3, <1>4, <1>6
    <3>2. Newest(kTrackMax, more) = more
      BY <1>1, <3>1, NewestIs
    <3> QED
      BY <1>1, <1>3, <1>6, <3>2
  <2>2. count \in 0 .. kTrackMax - 1
    BY <1>4, <1>6
  <2>3. /\ \A i \in 1 .. count :
             Slot(head', count', i) = Slot(head, count, i) /\ Slot(head, count, i) # head
        /\ Slot(head', count', count') = head
    BY <1>1, <1>4, <2>1, <2>2, SlotsWithRoom
  <2>4. ASSUME NEW i \in 1 .. count' PROVE band_pts'[Slot(head', count', i)] = trail'[i].at
    <3>1. CASE i = count'
      BY <1>2, <1>3, <1>4, <2>1, <2>3, <3>1
    <3>2. CASE i # count'
      <4>1. i \in 1 .. count
        BY <1>4, <2>1, <3>2
      <4>2. band_pts'[Slot(head', count', i)] = band_pts[Slot(head, count, i)]
        BY <1>2, <1>5, <2>3, <4>1
      <4> QED
        BY <1>3, <1>4, <2>1, <4>1, <4>2
    <3> QED
      BY <3>1, <3>2
  <2> QED
    BY <1>4, <1>6, <2>1, <2>4 DEF Ring
<1>7. CASE ~(count < kTrackMax)
  <2>1. count = kTrackMax /\ count' = kTrackMax
    BY <1>1, <1>4, <1>7
  <2>2. Len(trail') = kTrackMax /\ \A i \in 1 .. kTrackMax : trail'[i] = more[i + 1]
    BY <1>1, <1>3, <1>4, <2>1, NewestIs
  <2>3. /\ \A i \in 1 .. kTrackMax - 1 :
             Slot(head', count', i) = Slot(head, count, i + 1) /\ Slot(head, count, i + 1) # head
        /\ Slot(head', count', kTrackMax) = head
    BY <1>1, <1>4, <2>1, SlotsFull
  <2>4. ASSUME NEW i \in 1 .. kTrackMax PROVE band_pts'[Slot(head', count', i)] = trail'[i].at
    <3>1. CASE i = kTrackMax
      BY <1>2, <1>3, <1>4, <2>1, <2>2, <2>3, <3>1
    <3>2. CASE i # kTrackMax
      <4>1. i \in 1 .. kTrackMax - 1 /\ i + 1 \in 1 .. count
        BY <1>4, <2>1, <3>2
      <4>2. band_pts'[Slot(head', count', i)] = band_pts[Slot(head, count, i + 1)]
        BY <1>2, <1>5, <2>3, <4>1
      <4> QED
        BY <1>3, <1>4, <2>2, <4>1, <4>2
    <3> QED
      BY <3>1, <3>2
  <2> QED
    BY <1>4, <2>1, <2>2, <2>4 DEF Ring
<1> QED
  BY <1>6, <1>7

-----------------------------------------------------------------------------
(* Types and the ring, step by step.                                       *)

RingInv == Typed /\ Ring

LEMMA ReadingsTyped == ASSUME Typed PROVE subj \in Readings
BY DEF Typed, TypeOK, Readings

LEMMA TakenTyped ==
  ASSUME Typed, NEW m \in Message PROVE Taken(m) \in Readings
<1> USE DEF Readings
<1>1. CASE m.v = Null
  BY <1>1, ReadingsTyped DEF Taken
<1>2. CASE m.v # Null /\ m.path = "state"
  <2>1. m.v \in BOOLEAN
    BY <1>2 DEF Message
  <2> QED
    BY <1>2, <2>1, ReadingsTyped DEF Taken
<1>3. CASE m.v # Null /\ m.path = "max"
  <2>1. m.v = Limit
    BY <1>3 DEF Message
  <2> QED
    BY <1>3, <2>1, ReadingsTyped DEF Taken
<1>4. CASE m.v # Null /\ m.path = "brg"
  <2>1. m.v \in Bearings
    BY <1>4 DEF Message
  <2> QED
    BY <1>4, <2>1, ReadingsTyped DEF Taken
<1>5. CASE m.v # Null /\ m.path = "cur"
  <2>1. m.v \in Radii
    BY <1>5 DEF Message
  <2> QED
    BY <1>5, <2>1, ReadingsTyped DEF Taken
<1>6. m.path \in {"state", "max", "brg", "cur"}
  BY DEF Message
<1> QED
  BY <1>1, <1>2, <1>3, <1>4, <1>5, <1>6

(* An emptied track.                                                       *)
LEMMA EmptyTrail ==
  <<>> \in Seq([at : Plot, watch : Nat]) /\ Len(<<>>) = 0
OBVIOUS

(* What the track keeps through a step of its own.                         *)
TrackTyped ==
  /\ band_pts \in [0 .. kTrackMax - 1 -> Plot]
  /\ head \in 0 .. kTrackMax - 1 /\ count \in 0 .. kTrackMax
  /\ trail \in Seq([at : Plot, watch : Nat]) /\ Len(trail) <= kTrackMax

LEMMA TrackOfTyped == ASSUME Typed PROVE TrackTyped
BY DEF Typed, TypeOK, TrackTyped, Plot

LEMMA RenderKeepsRing ==
  ASSUME RingInv, NEW s \in Readings, NEW pushes \in BOOLEAN, NEW w \in Nat,
         Render(s, pushes, w)
  PROVE  TrackTyped' /\ Ring'
<1>1. CASE Clear
  <2>1. band_pts' = band_pts /\ head' = head /\ count' = 0 /\ trail' = <<>>
    BY <1>1 DEF Clear
  <2>2. Len(trail') = 0 /\ trail' \in Seq([at : Plot, watch : Nat])
    BY <2>1, EmptyTrail
  <2>3. TrackTyped'
    BY <2>1, <2>2, TrackOfTyped, TypedNumbers DEF RingInv, TrackTyped
  <2>4. Ring'
    BY <2>1, <2>2 DEF Ring
  <2> QED
    BY <2>3, <2>4
<1>2. CASE Push(s, w)
  <2>1. Ring' /\ Len(trail') <= kTrackMax
    BY <1>2, PushRing DEF RingInv
  <2>2. TrackTyped'
    BY <1>2, <2>1, PushTyped DEF RingInv, TrackTyped
  <2> QED
    BY <2>1, <2>2
<1>3. CASE UNCHANGED track
  <2>1. TrackTyped'
    BY <1>3, TrackOfTyped DEF RingInv, TrackTyped, track
  <2>2. Ring'
    BY <1>3 DEF RingInv, Ring, track
  <2> QED
    BY <2>1, <2>2
<1> QED
  BY <1>1, <1>2, <1>3 DEF Render

LEMMA TypedOf ==
  ASSUME TrackTyped, subj \in Readings, deltas \in Seq(Message),
         anchor \in [on : BOOLEAN, brg : Bearings \cup {Null}, cur : Radii \cup {Null}],
         drops \in 0 .. MaxDrops, swings \in 0 .. MaxSwings, builds \in 0 .. MaxBuilds
  PROVE  Typed
BY DEF Typed, TypeOK, TrackTyped, Readings, Plot

LEMMA DeltaRing == ASSUME RingInv, Delta PROVE RingInv'
<1> DEFINE m == Head(deltas)
<1>1. deltas \in Seq(Message) /\ deltas # <<>>
  BY DEF RingInv, Typed, Delta
<1>2. m \in Message /\ Tail(deltas) \in Seq(Message)
  BY <1>1, HeadTailProperties
<1>3. m.watch \in Nat /\ (m.path \in {"brg", "cur"}) \in BOOLEAN
  BY <1>2 DEF Message
<1>4. Taken(m) \in Readings
  BY <1>2, TakenTyped DEF RingInv
<1>5. TrackTyped' /\ Ring'
  <2>1. CASE Render(Taken(m), m.path \in {"brg", "cur"}, m.watch)
    BY <1>3, <1>4, <2>1, RenderKeepsRing
  <2>2. CASE UNCHANGED track
    <3>1. TrackTyped'
      BY <2>2, TrackOfTyped DEF RingInv, TrackTyped, track
    <3>2. Ring'
      BY <2>2 DEF RingInv, Ring, track
    <3> QED
      BY <3>1, <3>2
  <2> QED
    BY <2>1, <2>2 DEF Delta
<1>6. subj' = Taken(m) /\ deltas' = Tail(deltas) /\ UNCHANGED <<serverVars, builds>>
  BY DEF Delta
<1>7. Typed'
  <2>1. /\ anchor' \in [on : BOOLEAN, brg : Bearings \cup {Null}, cur : Radii \cup {Null}]
        /\ drops' \in 0 .. MaxDrops /\ swings' \in 0 .. MaxSwings /\ builds' \in 0 .. MaxBuilds
    BY <1>6 DEF RingInv, Typed, TypeOK, serverVars
  <2>2. subj' \in Readings /\ deltas' \in Seq(Message)
    BY <1>2, <1>4, <1>6
  <2> QED
    BY <1>5, <2>1, <2>2, TypedOf DEF Typed, TypeOK, TrackTyped, Readings, Plot
<1> QED
  BY <1>5, <1>7 DEF RingInv

(* Steps of the plugin leave the track and the subjects alone.             *)
LEMMA PluginRing ==
  ASSUME RingInv, UNCHANGED <<subj, track>>, deltas' \in Seq(Message),
         anchor' \in [on : BOOLEAN, brg : Bearings \cup {Null}, cur : Radii \cup {Null}],
         drops' \in 0 .. MaxDrops, swings' \in 0 .. MaxSwings, builds' = builds
  PROVE  RingInv'
<1>1. Typed'
  BY DEF RingInv, Typed, TypeOK, track
<1>2. Ring'
  BY DEF RingInv, Ring, track
<1> QED
  BY <1>1, <1>2 DEF RingInv

LEMMA PublishTyped ==
  ASSUME Typed, NEW msgs \in Seq(Message), Publish(msgs)
  PROVE  deltas' \in Seq(Message)
BY ConcatProperties DEF Publish, Typed

LEMMA Messages ==
  ASSUME NEW w \in Nat
  PROVE  /\ \A v \in BOOLEAN : [path |-> "state", v |-> v, watch |-> w] \in Message
         /\ \A v \in {Limit, Null} : [path |-> "max", v |-> v, watch |-> w] \in Message
         /\ \A v \in Bearings : [path |-> "brg", v |-> v, watch |-> w] \in Message
         /\ \A v \in Radii : [path |-> "cur", v |-> v, watch |-> w] \in Message
BY DEF Message

LEMMA MessageTuples ==
  ASSUME NEW a \in Message, NEW b \in Message, NEW c \in Message, NEW d \in Message
  PROVE  <<a, b>> \in Seq(Message) /\ <<a, b, c, d>> \in Seq(Message)
OBVIOUS

LEMMA DropRing == ASSUME RingInv, Drop PROVE RingInv'
<1>1. drops' \in 0 .. MaxDrops /\ drops' \in Nat
  BY BoundsAssumption DEF RingInv, Typed, TypeOK, Drop
<1>2. PICK b \in Bearings, r \in Radii :
        /\ anchor' = [on |-> TRUE, brg |-> b, cur |-> r]
        /\ Publish(<<Msg("state", TRUE), Msg("max", Limit), Msg("brg", b), Msg("cur", r)>>)
  BY DEF Drop
<1>3. <<Msg("state", TRUE), Msg("max", Limit), Msg("brg", b), Msg("cur", r)>> \in Seq(Message)
  <2>1. /\ Msg("state", TRUE) \in Message /\ Msg("max", Limit) \in Message
        /\ Msg("brg", b) \in Message /\ Msg("cur", r) \in Message
    BY <1>1, Messages DEF Msg
  <2> QED
    BY <2>1, MessageTuples, Zenon
<1>4. deltas' \in Seq(Message)
  BY <1>2, <1>3, PublishTyped DEF RingInv
<1>5. UNCHANGED <<swings, builds, subj, track>>
  BY DEF Drop
<1>6. anchor' \in [on : BOOLEAN, brg : Bearings \cup {Null}, cur : Radii \cup {Null}]
  BY <1>2
<1>7. swings' \in 0 .. MaxSwings
  BY <1>5 DEF RingInv, Typed, TypeOK
<1> QED
  BY <1>1, <1>4, <1>5, <1>6, <1>7, PluginRing

LEMMA RaiseRing == ASSUME RingInv, Raise PROVE RingInv'
<1>1. drops' \in 0 .. MaxDrops /\ drops' \in Nat
  BY BoundsAssumption DEF RingInv, Typed, TypeOK, Raise
<1>2. <<Msg("state", FALSE), Msg("max", Null)>> \in Seq(Message)
  <2>1. Msg("state", FALSE) \in Message /\ Msg("max", Null) \in Message
    BY <1>1, Messages DEF Msg
  <2> QED
    BY <2>1, MessageTuples, Zenon
<1>3. deltas' \in Seq(Message)
  BY <1>2, PublishTyped DEF RingInv, Raise
<1>4. anchor' \in [on : BOOLEAN, brg : Bearings \cup {Null}, cur : Radii \cup {Null}]
  BY DEF Raise, RingInv, Typed, TypeOK
<1>5. UNCHANGED <<subj, track>> /\ builds' = builds /\ swings' \in 0 .. MaxSwings
  BY DEF Raise, RingInv, Typed, TypeOK
<1> QED
  BY <1>1, <1>3, <1>4, <1>5, PluginRing

LEMMA SwingRing ==
  ASSUME RingInv, NEW b \in Bearings, NEW r \in Radii, Swing(b, r) PROVE RingInv'
<1>1. drops' \in 0 .. MaxDrops /\ drops' \in Nat
  BY BoundsAssumption DEF RingInv, Typed, TypeOK, Swing
<1>2. <<Msg("brg", b), Msg("cur", r)>> \in Seq(Message)
  <2>1. Msg("brg", b) \in Message /\ Msg("cur", r) \in Message
    BY <1>1, Messages DEF Msg
  <2> QED
    BY <2>1, MessageTuples, Zenon
<1>3. deltas' \in Seq(Message)
  BY <1>2, PublishTyped DEF RingInv, Swing
<1>4. anchor' \in [on : BOOLEAN, brg : Bearings \cup {Null}, cur : Radii \cup {Null}]
  BY DEF Swing, RingInv, Typed, TypeOK
<1>5. UNCHANGED <<subj, track>> /\ builds' = builds /\ swings' \in 0 .. MaxSwings
  BY BoundsAssumption DEF Swing, RingInv, Typed, TypeOK
<1> QED
  BY <1>1, <1>3, <1>4, <1>5, PluginRing

(* The seed of a reading, of which a missing one has none.                 *)
Seed(path, v) == IF v = Null THEN <<>> ELSE <<[path |-> path, v |-> v, watch |-> drops]>>

LimitNow == IF anchor.on THEN Limit ELSE Null

LEMMA SeedsOfBuild ==
  ASSUME Build
  PROVE  deltas' = IF builds > 0 THEN deltas
                   ELSE Seed("max", LimitNow) \o Seed("brg", anchor.brg) \o Seed("cur", anchor.cur)
BY DEF Build, Seed, LimitNow

LEMMA SeedsTyped ==
  ASSUME Typed
  PROVE  /\ Seed("max", LimitNow) \in Seq(Message) /\ Seed("brg", anchor.brg) \in Seq(Message)
         /\ Seed("cur", anchor.cur) \in Seq(Message)
<1>1. drops \in Nat
  BY TypedNumbers
<1>2. <<>> \in Seq(Message) /\ \A m \in Message : <<m>> \in Seq(Message)
  OBVIOUS
<1>3. LimitNow \in {Limit, Null}
  BY DEF LimitNow
<1>4. Seed("max", LimitNow) \in Seq(Message)
  BY <1>1, <1>2, <1>3, Messages DEF Seed
<1>5. anchor.brg \in Bearings \cup {Null} /\ anchor.cur \in Radii \cup {Null}
  BY DEF Typed, TypeOK
<1>6. Seed("brg", anchor.brg) \in Seq(Message)
  BY <1>1, <1>2, <1>5, Messages DEF Seed
<1>7. Seed("cur", anchor.cur) \in Seq(Message)
  BY <1>1, <1>2, <1>5, Messages DEF Seed
<1> QED
  BY <1>4, <1>6, <1>7

LEMMA BuildRing == ASSUME RingInv, Build PROVE RingInv'
<1>1. deltas' \in Seq(Message)
  <2>1. deltas \in Seq(Message)
    BY DEF RingInv, Typed
  <2>2. Seed("max", LimitNow) \o Seed("brg", anchor.brg) \o Seed("cur", anchor.cur) \in Seq(Message)
    BY SeedsTyped, ConcatProperties DEF RingInv
  <2> QED
    BY <2>1, <2>2, SeedsOfBuild
<1>2. /\ head' = 0 /\ count' = 0 /\ trail' = <<>>
      /\ band_pts' = [i \in 0 .. kTrackMax - 1 |-> InitialPoint]
  BY DEF Build
<1>3. TrackTyped'
  <2>1. InitialPoint \in Plot
    BY DEF InitialPoint, Plot
  <2> QED
    BY <1>2, <2>1, EmptyTrail, TrackAssumption DEF TrackTyped
<1>4. Ring'
  BY <1>2, EmptyTrail DEF Ring
<1>5. UNCHANGED <<anchor, drops, swings, subj>> /\ builds' \in 0 .. MaxBuilds
  BY BoundsAssumption DEF Build, serverVars, RingInv, Typed, TypeOK
<1>6. Typed'
  BY <1>1, <1>3, <1>5, ReadingsTyped DEF RingInv, Typed, TypeOK, TrackTyped, Readings, Plot
<1> QED
  BY <1>4, <1>6 DEF RingInv

LEMMA InitRing == Init => RingInv
<1> SUFFICES ASSUME Init PROVE RingInv
  OBVIOUS
<1>1. TrackTyped
  <2>1. InitialPoint \in Plot
    BY DEF InitialPoint, Plot
  <2> QED
    BY <2>1, EmptyTrail, TrackAssumption DEF Init, TrackTyped
<1>2. subj \in Readings /\ deltas \in Seq(Message)
  BY DEF Init, Readings
<1>3. /\ anchor \in [on : BOOLEAN, brg : Bearings \cup {Null}, cur : Radii \cup {Null}]
      /\ drops \in 0 .. MaxDrops /\ swings \in 0 .. MaxSwings /\ builds \in 0 .. MaxBuilds
  BY BoundsAssumption DEF Init
<1>4. Ring
  BY EmptyTrail DEF Init, Ring
<1> QED
  BY <1>1, <1>2, <1>3, <1>4, TypedOf DEF RingInv

LEMMA NextRing == RingInv /\ [Next]_vars => RingInv'
<1> SUFFICES ASSUME RingInv, [Next]_vars PROVE RingInv'
  OBVIOUS
<1>1. CASE Drop
  BY <1>1, DropRing
<1>2. CASE Raise
  BY <1>2, RaiseRing
<1>3. CASE Delta
  BY <1>3, DeltaRing
<1>4. CASE Build
  BY <1>4, BuildRing
<1>5. ASSUME NEW b \in Bearings, NEW r \in Radii, Swing(b, r) PROVE RingInv'
  BY <1>5, SwingRing
<1>6. CASE UNCHANGED vars
  BY <1>6 DEF vars, serverVars, track, RingInv, Typed, TypeOK, Ring
<1> QED
  BY <1>1, <1>2, <1>3, <1>4, <1>5, <1>6 DEF Next

LEMMA RingAlways == Spec => []RingInv
BY InitRing, NextRing, PTL DEF Spec

(* For a track of any length and any number of age bands: across wraps,    *)
(* resets and rebuilds the ring buffer reads as the newest points, in the  *)
(* order the boat was there, and each stretch between two of them is drawn *)
(* by exactly one band.                                                    *)
THEOREM TrackIsTrue == Spec => [](TypeOK /\ TrackIsNewest /\ EverySegmentDrawnOnce)
<1>1. RingInv => TypeOK /\ TrackIsNewest /\ EverySegmentDrawnOnce
  <2> SUFFICES ASSUME RingInv PROVE TypeOK /\ TrackIsNewest /\ EverySegmentDrawnOnce
    OBVIOUS
  <2>1. TypeOK
    BY DEF RingInv, Typed
  <2>2. TrackIsNewest
    BY RingIsNewest DEF RingInv
  <2>3. EverySegmentDrawnOnce
    BY TypedNumbers, BandsCover DEF RingInv
  <2> QED
    BY <2>1, <2>2, <2>3
<1> QED
  BY <1>1, RingAlways, PTL

-----------------------------------------------------------------------------
(* A page under a watch has its limit, or the limit is on its way: a limit *)
(* that has come is not withdrawn, the null of a raise is ignored.         *)

Brings(m) == m.path = "max" /\ m.v = Limit

LimitComes ==
  builds > 0 /\ anchor.on => subj.max = Limit \/ \E i \in 1 .. Len(deltas) : Brings(deltas[i])

WatchInv == RingInv /\ LimitComes

LEMMA LimitIsTaken ==
  ASSUME Typed, NEW m \in Message
  PROVE  /\ Brings(m) => Taken(m).max = Limit
         /\ subj.max = Limit => Taken(m).max = Limit
<1>1. Limit # Null
  BY LimitAssumption, NullAssumption
<1>2. subj \in Readings
  BY ReadingsTyped
<1>3. m.path \in {"state", "max", "brg", "cur"} /\ (m.path = "max" => m.v \in {Limit, Null})
  BY DEF Message
<1>4. CASE m.v = Null
  BY <1>1, <1>4 DEF Brings, Taken
<1>5. CASE m.v # Null
  <2>1. CASE m.path = "state"
    BY <1>2, <1>5, <2>1 DEF Brings, Taken, Readings
  <2>2. CASE m.path = "max"
    BY <1>2, <1>3, <1>5, <2>2 DEF Taken, Readings
  <2>3. CASE m.path = "brg"
    BY <1>2, <1>5, <2>3 DEF Brings, Taken, Readings
  <2>4. CASE m.path = "cur"
    BY <1>2, <1>5, <2>4 DEF Brings, Taken, Readings
  <2> QED
    BY <1>3, <2>1, <2>2, <2>3, <2>4
<1> QED
  BY <1>4, <1>5

LEMMA DeltaWatch == ASSUME WatchInv, Delta PROVE LimitComes'
<1>1. Typed /\ deltas \in Seq(Message) /\ deltas # <<>>
  BY DEF WatchInv, RingInv, Typed, Delta
<1>2. deltas' = Tail(deltas) /\ subj' = Taken(Head(deltas)) /\ UNCHANGED <<anchor, builds>>
  BY DEF Delta, serverVars
<1>3. /\ deltas[1] \in Message /\ Head(deltas) = deltas[1] /\ Len(deltas) \in Nat \ {0}
      /\ Len(deltas') = Len(deltas) - 1
      /\ \A i \in 1 .. Len(deltas) - 1 : deltas'[i] = deltas[i + 1]
  BY <1>1, <1>2, HeadTailProperties
<1> SUFFICES ASSUME builds > 0, anchor.on
             PROVE  subj'.max = Limit \/ \E i \in 1 .. Len(deltas') : Brings(deltas'[i])
  BY <1>2 DEF LimitComes
<1>4. CASE subj.max = Limit
  BY <1>1, <1>2, <1>3, <1>4, LimitIsTaken
<1>5. CASE \E i \in 1 .. Len(deltas) : Brings(deltas[i])
  <2>1. PICK i \in 1 .. Len(deltas) : Brings(deltas[i])
    BY <1>5
  <2>2. CASE i = 1
    BY <1>1, <1>2, <1>3, <2>1, <2>2, LimitIsTaken
  <2>3. CASE i # 1
    <3>1. i - 1 \in 1 .. Len(deltas) - 1 /\ (i - 1) + 1 = i
      BY <1>3, <2>3
    <3>2. Brings(deltas'[i - 1])
      BY <1>3, <2>1, <3>1
    <3> QED
      BY <1>3, <3>1, <3>2
  <2> QED
    BY <2>2, <2>3
<1> QED
  BY <1>4, <1>5 DEF WatchInv, LimitComes

(* What is published goes behind what is under way.                        *)
LEMMA PublishingKeeps ==
  ASSUME WatchInv, NEW msgs \in Seq(Message), Publish(msgs), builds > 0,
         \/ subj.max = Limit
         \/ \E i \in 1 .. Len(deltas) : Brings(deltas[i])
         \/ \E i \in 1 .. Len(msgs) : Brings(msgs[i])
  PROVE  subj.max = Limit \/ \E i \in 1 .. Len(deltas') : Brings(deltas'[i])
<1>1. deltas \in Seq(Message) /\ deltas' = deltas \o msgs
  BY DEF WatchInv, RingInv, Typed, Publish
<1>2. /\ Len(deltas) \in Nat /\ Len(msgs) \in Nat /\ Len(deltas') = Len(deltas) + Len(msgs)
      /\ \A i \in 1 .. Len(deltas) + Len(msgs) :
           deltas'[i] = IF i <= Len(deltas) THEN deltas[i] ELSE msgs[i - Len(deltas)]
  BY <1>1, ConcatProperties
<1>3. ASSUME NEW i \in 1 .. Len(deltas), Brings(deltas[i])
      PROVE  \E j \in 1 .. Len(deltas') : Brings(deltas'[j])
  <2>1. i \in 1 .. Len(deltas') /\ deltas'[i] = deltas[i]
    BY <1>2
  <2> QED
    BY <1>3, <2>1
<1>4. ASSUME NEW i \in 1 .. Len(msgs), Brings(msgs[i])
      PROVE  \E j \in 1 .. Len(deltas') : Brings(deltas'[j])
  <2>1. Len(deltas) + i \in 1 .. Len(deltas') /\ deltas'[Len(deltas) + i] = msgs[i]
    BY <1>2
  <2> QED
    BY <1>4, <2>1
<1> QED
  BY <1>3, <1>4

LEMMA DropWatch == ASSUME WatchInv, Drop PROVE LimitComes'
<1>1. drops' \in Nat
  BY BoundsAssumption DEF WatchInv, RingInv, Typed, TypeOK, Drop
<1>2. PICK b \in Bearings, r \in Radii :
        Publish(<<Msg("state", TRUE), Msg("max", Limit), Msg("brg", b), Msg("cur", r)>>)
  BY DEF Drop
<1> DEFINE msgs == <<Msg("state", TRUE), Msg("max", Limit), Msg("brg", b), Msg("cur", r)>>
<1>3. msgs \in Seq(Message)
  <2>1. /\ Msg("state", TRUE) \in Message /\ Msg("max", Limit) \in Message
        /\ Msg("brg", b) \in Message /\ Msg("cur", r) \in Message
    BY <1>1, Messages DEF Msg
  <2> QED
    BY <2>1, MessageTuples, Zenon
<1>4. 2 \in 1 .. Len(msgs) /\ msgs[2] = Msg("max", Limit)
  OBVIOUS
<1>5. Brings(msgs[2])
  BY <1>4 DEF Brings, Msg
<1>6. UNCHANGED <<builds, subj>>
  BY DEF Drop
<1> HIDE DEF msgs
<1>7. builds > 0 => subj.max = Limit \/ \E i \in 1 .. Len(deltas') : Brings(deltas'[i])
  BY <1>2, <1>3, <1>4, <1>5, PublishingKeeps DEF msgs
<1> QED
  BY <1>6, <1>7 DEF LimitComes

LEMMA SwingWatch ==
  ASSUME WatchInv, NEW b \in Bearings, NEW r \in Radii, Swing(b, r) PROVE LimitComes'
<1>1. drops' \in Nat
  BY BoundsAssumption DEF WatchInv, RingInv, Typed, TypeOK, Swing
<1>2. <<Msg("brg", b), Msg("cur", r)>> \in Seq(Message)
  <2>1. Msg("brg", b) \in Message /\ Msg("cur", r) \in Message
    BY <1>1, Messages DEF Msg
  <2> QED
    BY <2>1, MessageTuples, Zenon
<1>3. anchor.on /\ Publish(<<Msg("brg", b), Msg("cur", r)>>) /\ UNCHANGED <<builds, subj>>
  BY DEF Swing
<1>4. builds > 0 => subj.max = Limit \/ \E i \in 1 .. Len(deltas') : Brings(deltas'[i])
  BY <1>2, <1>3, PublishingKeeps DEF WatchInv, LimitComes
<1> QED
  BY <1>3, <1>4 DEF LimitComes

LEMMA RaiseWatch == ASSUME WatchInv, Raise PROVE LimitComes'
<1>1. ~anchor'.on
  BY DEF Raise, WatchInv, RingInv, Typed, TypeOK
<1> QED
  BY <1>1 DEF LimitComes

(* The first page under a watch is seeded with its limit.                  *)
LEMMA BuildWatch == ASSUME WatchInv, Build PROVE LimitComes'
<1>1. UNCHANGED <<anchor, subj>>
  BY DEF Build, serverVars
<1>2. CASE builds > 0
  BY <1>1, <1>2, SeedsOfBuild DEF WatchInv, LimitComes
<1>3. CASE ~(builds > 0) /\ anchor.on
  <2> DEFINE rest == Seed("brg", anchor.brg) \o Seed("cur", anchor.cur)
  <2>1. Limit # Null
    BY LimitAssumption, NullAssumption
  <2>2. Seed("max", LimitNow) = <<[path |-> "max", v |-> Limit, watch |-> drops]>>
    BY <1>3, <2>1 DEF Seed, LimitNow
  <2>3. /\ Seed("max", LimitNow) \in Seq(Message) /\ Seed("brg", anchor.brg) \in Seq(Message)
        /\ Seed("cur", anchor.cur) \in Seq(Message)
    BY SeedsTyped DEF WatchInv, RingInv
  <2>4. deltas' = Seed("max", LimitNow) \o Seed("brg", anchor.brg) \o Seed("cur", anchor.cur)
    BY <1>3, SeedsOfBuild
  <2>5. Len(Seed("max", LimitNow)) = 1 /\ Brings(Seed("max", LimitNow)[1])
    BY <2>2 DEF Brings
  <2>6. 1 \in 1 .. Len(deltas') /\ deltas'[1] = Seed("max", LimitNow)[1]
    BY <2>3, <2>4, <2>5, ConcatProperties
  <2> QED
    BY <2>5, <2>6 DEF LimitComes
<1>4. CASE ~anchor.on
  BY <1>1, <1>4 DEF LimitComes
<1> QED
  BY <1>2, <1>3, <1>4

LEMMA NextWatch == WatchInv /\ [Next]_vars => WatchInv'
<1> SUFFICES ASSUME WatchInv, [Next]_vars PROVE LimitComes'
  BY NextRing DEF WatchInv
<1>1. CASE Drop
  BY <1>1, DropWatch
<1>2. CASE Raise
  BY <1>2, RaiseWatch
<1>3. CASE Delta
  BY <1>3, DeltaWatch
<1>4. CASE Build
  BY <1>4, BuildWatch
<1>5. ASSUME NEW b \in Bearings, NEW r \in Radii, Swing(b, r) PROVE LimitComes'
  BY <1>5, SwingWatch
<1>6. CASE UNCHANGED vars
  BY <1>6 DEF vars, serverVars, WatchInv, LimitComes
<1> QED
  BY <1>1, <1>2, <1>3, <1>4, <1>5, <1>6 DEF Next

(* Whatever the order of drops, raises, swings and builds: besides what    *)
(* TrackIsTrue says, a page under a watch never reads ANCHOR UP once no    *)
(* reading is under way, the state's string being left out of the seed.    *)
THEOREM TrackSafe == Spec => []Inv
<1>1. Init => WatchInv
  BY InitRing DEF Init, WatchInv, LimitComes
<1>2. Spec => []WatchInv
  BY <1>1, NextWatch, PTL DEF Spec
<1>3. WatchInv => NoFalseUp
  <2> SUFFICES ASSUME WatchInv, builds > 0, anchor.on, deltas = <<>> PROVE Watching(subj)
    BY DEF NoFalseUp
  <2>1. subj.max = Limit
    BY EmptyTrail DEF WatchInv, LimitComes
  <2> QED
    BY <2>1, LimitAssumption DEF Watching
<1>4. TypeOK /\ TrackIsNewest /\ EverySegmentDrawnOnce /\ NoFalseUp => Inv
  BY DEF Inv
<1> QED
  BY <1>2, <1>3, <1>4, TrackIsTrue, PTL
=============================================================================
