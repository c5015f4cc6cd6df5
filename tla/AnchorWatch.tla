---------------------------- MODULE AnchorWatch ----------------------------
(***************************************************************************)
(* The anchor dial and the anchor track of                                 *)
(* main/jlp/widgets/widget_factory.cpp, fed by the subjects of             *)
(* navigation.anchor.*: whether they show a watch at all, and the ring     *)
(* buffer of the track with its age bands.                                 *)
(*                                                                         *)
(* The anchor-alarm plugin publishes the state, the limit, nulled on a     *)
(* raise, and, while the anchor is down, where the boat lies.  A Float     *)
(* subject ignores null.                                                   *)
(* The dial's and the track's copies of the readings are the subjects'     *)
(* after every observer, so they are not kept apart here.                  *)
(***************************************************************************)
EXTENDS Integers, Sequences

CONSTANTS
  Bearings,    \* bearings to the boat
  Radii,       \* distances to the boat
  Limit,       \* maxRadius of a watch
  Null,
  kTrackMax,   \* the track's points
  kTrackBands, \* its age bands
  MaxDrops,    \* bound: drops of the anchor
  MaxSwings,   \* bound: moves of the boat
  MaxBuilds    \* bound: builds of the page

ASSUME LimitAssumption == Limit \in Nat \ {0} /\ Radii \subseteq Nat

ASSUME TrackAssumption == kTrackMax \in Nat \ {0} /\ kTrackBands \in Nat \ {0}
ASSUME BoundsAssumption == MaxDrops \in Nat /\ MaxSwings \in Nat /\ MaxBuilds \in Nat
ASSUME NullAssumption == Null \notin BOOLEAN /\ Null \notin Nat

VARIABLES
  anchor,  \* the plugin: down, the limit, the boat's bearing and radius
  drops, swings, builds,
  deltas,  \* deltas and seeds under way to the UI task
  subj,    \* the subjects
  band_pts, head, count,
  trail    \* history: the points put in since the last reset, with their watch

serverVars == <<anchor, drops, swings>>
track == <<band_pts, head, count, trail>>
vars == <<serverVars, builds, deltas, subj, track>>

Points == Bearings \X Radii
InitialPoint == <<0, 0>>

TypeOK ==
  /\ anchor \in [on : BOOLEAN, brg : Bearings \cup {Null}, cur : Radii \cup {Null}]
  /\ drops \in 0 .. MaxDrops /\ swings \in 0 .. MaxSwings /\ builds \in 0 .. MaxBuilds
  /\ subj \in [on : BOOLEAN, max : {0, Limit}, brg : Bearings \cup {0}, cur : Radii \cup {0}]
  /\ band_pts \in [0 .. kTrackMax - 1 -> (Bearings \cup {0}) \X (Radii \cup {0, Limit})]
  /\ head \in 0 .. kTrackMax - 1 /\ count \in 0 .. kTrackMax
  /\ Len(trail) <= kTrackMax

Init ==
  /\ anchor = [on |-> FALSE, brg |-> Null, cur |-> Null]
  /\ drops = 0 /\ swings = 0 /\ builds = 0
  /\ deltas = <<>>
  /\ subj = [on |-> FALSE, max |-> 0, brg |-> 0, cur |-> 0]
  /\ band_pts = [i \in 0 .. kTrackMax - 1 |-> InitialPoint]
  /\ head = 0 /\ count = 0 /\ trail = <<>>

-----------------------------------------------------------------------------
\* The plugin.
\* What is published reaches the panel once a page has bound the paths.
Publish(msgs) == deltas' = IF builds > 0 THEN deltas \o msgs ELSE deltas

Msg(path, v) == [path |-> path, v |-> v, watch |-> drops']

\* The anchor goes down where the boat is.
Drop ==
  /\ ~anchor.on /\ drops < MaxDrops
  /\ drops' = drops + 1
  /\ \E b \in Bearings, r \in Radii :
       /\ anchor' = [on |-> TRUE, brg |-> b, cur |-> r]
       /\ Publish(<<Msg("state", TRUE), Msg("max", Limit), Msg("brg", b), Msg("cur", r)>>)
  /\ UNCHANGED <<swings, builds, subj, track>>

\* The anchor comes up: state off and the limit nulled.
Raise ==
  /\ anchor.on
  /\ anchor' = [anchor EXCEPT !.on = FALSE]
  /\ UNCHANGED drops
  /\ Publish(<<Msg("state", FALSE), Msg("max", Null)>>)
  /\ UNCHANGED <<swings, builds, subj, track>>

\* The boat swings on its anchor.
Swing(b, r) ==
  /\ anchor.on /\ swings < MaxSwings
  /\ <<b, r>> # <<anchor.brg, anchor.cur>>
  /\ swings' = swings + 1
  /\ anchor' = [anchor EXCEPT !.brg = b, !.cur = r]
  /\ UNCHANGED drops
  /\ Publish(<<Msg("brg", b), Msg("cur", r)>>)
  /\ UNCHANGED <<builds, subj, track>>

-----------------------------------------------------------------------------
\* The widgets.
\* Mutant: only the state's string makes a watch.
WatchingByState(s) == s.on

\* anchor_is_watching, anchor_track_watching.
Watching(s) == s.on \/ s.max > 0

\* anchor_track_xy: the place on the plot, inside its circle.
Spot(s) == <<s.brg, IF s.cur > s.max THEN s.max ELSE s.cur>>

Newest(n, s) == SubSeq(s, IF Len(s) > n THEN Len(s) - n + 1 ELSE 1, Len(s))

\* anchor_track_push of readings s: a point unless the boat lies where it lay.
Pushes(s) ==
  /\ Watching(s) /\ s.max > 0
  /\ count > 0 => band_pts[(head - 1 + kTrackMax) % kTrackMax] # Spot(s)

\* Mutant: a full track overwrites its newest point.
PushFull(s, watch) ==
  /\ band_pts' = [band_pts EXCEPT ![head] = Spot(s)]
  /\ head' = IF count < kTrackMax - 1 THEN (head + 1) % kTrackMax ELSE head
  /\ count' = IF count < kTrackMax THEN count + 1 ELSE count
  /\ trail' = Newest(kTrackMax, Append(trail, [at |-> Spot(s), watch |-> watch]))

\* The point takes the place of the oldest one.
Push(s, watch) ==
  /\ band_pts' = [band_pts EXCEPT ![head] = Spot(s)]
  /\ head' = (head + 1) % kTrackMax
  /\ count' = IF count < kTrackMax THEN count + 1 ELSE count
  /\ trail' = Newest(kTrackMax, Append(trail, [at |-> Spot(s), watch |-> watch]))

\* anchor_track_render without a watch: the tail is reset.
Clear ==
  /\ count' = 0 /\ trail' = <<>>
  /\ UNCHANGED <<band_pts, head>>

\* anchor_track_render after an observer that pushes, or one that does not.
Render(s, pushes, watch) ==
  IF ~Watching(s) THEN Clear
  ELSE IF pushes /\ Pushes(s) THEN Push(s, watch) ELSE UNCHANGED track

\* on_update: a Float subject ignores null.
Taken(m) ==
  IF m.v = Null THEN subj
  ELSE CASE m.path = "state" -> [subj EXCEPT !.on = m.v]
         [] m.path = "max" -> [subj EXCEPT !.max = m.v]
         [] m.path = "brg" -> [subj EXCEPT !.brg = m.v]
         [] m.path = "cur" -> [subj EXCEPT !.cur = m.v]

\* The UI task runs the next lambda.  LVGL may leave the observers of an
\* unchanged subject alone.
Delta ==
  /\ deltas # <<>>
  /\ deltas' = Tail(deltas)
  /\ LET m == Head(deltas) IN
       /\ subj' = Taken(m)
       /\ \/ Render(Taken(m), m.path \in {"brg", "cur"}, m.watch)
          \/ Taken(m) = subj /\ UNCHANGED track
  /\ UNCHANGED <<serverVars, builds>>

\* A page with the widgets is built: an empty track, observers that fire with the
\* subjects' readings before there is a limit to plot against.  The first one
\* also binds the paths, and the readings on the server, except the state's
\* string, are seeded by REST.
Build ==
  /\ builds < MaxBuilds
  /\ builds' = builds + 1
  /\ head' = 0 /\ count' = 0 /\ trail' = <<>>
  /\ band_pts' = [i \in 0 .. kTrackMax - 1 |-> InitialPoint]
  /\ deltas' = IF builds > 0 THEN deltas
               ELSE LET seed(path, v) ==
                          IF v = Null THEN <<>>
                          ELSE <<[path |-> path, v |-> v, watch |-> drops]>> IN
                    seed("max", IF anchor.on THEN Limit ELSE Null)
                      \o seed("brg", anchor.brg) \o seed("cur", anchor.cur)
  /\ UNCHANGED <<serverVars, subj>>

Next ==
  \/ Drop \/ Raise \/ Delta \/ Build
  \/ \E b \in Bearings, r \in Radii : Swing(b, r)

Fairness == WF_vars(Delta)

Spec == Init /\ [][Next]_vars /\ Fairness

-----------------------------------------------------------------------------
\* anchor_track_redraw: the points from the oldest to the newest.
Ordered ==
  LET start == (head - count + kTrackMax) % kTrackMax IN
    [i \in 1 .. count |-> band_pts[(start + i - 1) % kTrackMax]]

\* The first and the end of the slice of points that age band b draws.
BandFrom(b) ==
  LET lo == (b * count) \div kTrackBands IN IF lo > 0 THEN lo - 1 ELSE lo
BandTo(b) == ((b + 1) * count) \div kTrackBands

\* The band is on screen and draws the line from point i to point i + 1.
Draws(b, i) ==
  /\ BandTo(b) - BandFrom(b) >= 2
  /\ BandFrom(b) <= i /\ i + 1 < BandTo(b)

(***************************************************************************)
(* Properties.                                                             *)
(***************************************************************************)

\* Across wraps, resets and rebuilds the track shows the newest points, and in
\* the order the boat was there.
TrackIsNewest == Ordered = [i \in 1 .. Len(trail) |-> trail[i].at]

\* The track holds points of one watch only: "reset the tail when the anchor
\* comes up" (widget_factory.cpp:2487).  No run checks it: the raise's null keeps
\* the dial alive, and the next watch goes on with the last one's tail.
OneWatchOnTrack ==
  \A i, j \in 1 .. Len(trail) : trail[i].watch = trail[j].watch

\* Every stretch of the track is drawn, and by one band only: no gap between the
\* ages, no stretch at two opacities.
EverySegmentDrawnOnce ==
  \A i \in 0 .. count - 2 :
    \E b \in 0 .. kTrackBands - 1 :
      /\ Draws(b, i)
      /\ \A c \in 0 .. kTrackBands - 1 : Draws(c, i) => c = b

\* The dial of a page never reads ANCHOR UP over a watch once no reading is under
\* way, although the state's string is not in the seed and a raise's readings may
\* come after the next drop's page was built.
NoFalseUp == (builds > 0 /\ anchor.on /\ deltas = <<>>) => Watching(subj)

\* In every state the types are right, the track is the newest stretch in order,
\* whatever wrapped, was rebuilt or was raised before, it is drawn whole, and no
\* watch reads ANCHOR UP.
Inv == TypeOK /\ TrackIsNewest /\ EverySegmentDrawnOnce /\ NoFalseUp

\* Dial and track of a page come alive under a watch, on a page that was there
\* when the anchor was dropped and on one that is built later: from the state's
\* delta or from the limit's seed (widget_factory.cpp:2141-2146).
DialComesAlive == (builds > 0 /\ anchor.on) ~> (Watching(subj) \/ ~anchor.on)

\* "The needle hides entirely once the anchor is raised"
\* (widget_factory.cpp:2354-2355), and the dial reads ANCHOR UP, once the raise's
\* readings have arrived.  The null that withdraws the limit is ignored.
RaisedReadsUp == (builds > 0 /\ ~anchor.on /\ deltas = <<>>) => ~Watching(subj)
=============================================================================
