----------------------------- MODULE ZoneDisplay -----------------------------
(***************************************************************************)
(* The zones of a path and the tiles tinted by them:                       *)
(* main/jlp/zone_registry.cpp, and the observers of the label and value    *)
(* tiles in main/jlp/widgets/widget_factory.cpp.                           *)
(*                                                                         *)
(* Values and meta of a path come with the stream, in order, and once by   *)
(* REST (net/zone_fetch.cpp), where meta and value are two GETs.  Both     *)
(* reach the UI task through its queue.  A tile is painted when its        *)
(* subject fires, so new zones have to fire it too.                        *)
(***************************************************************************)
EXTENDS Naturals, Sequences

CONSTANTS
  ZoneLists,   \* the zone lists meta may carry, <<>> for none
  Readings,    \* raw values of the path
  Fallback,    \* bg_color of the tile, when no zone matches
  MaxReports   \* bound: changes of value or meta on the server

\* Bounds a zone lacks are below and above every reading.
ASSUME ReadingsAssumption ==
  /\ Readings \subseteq Nat \ {0} /\ Readings # {} /\ <<>> \in ZoneLists
  /\ MaxReports \in Nat
ASSUME ZoneListsAssumption ==
  /\ ZoneLists \subseteq Seq([lower : Nat, upper : Nat, state : STRING])
  /\ \A zs \in ZoneLists : \A i \in DOMAIN zs : zs[i].lower <= zs[i].upper

VARIABLES
  reading,     \* the server's value
  meta,        \* the server's meta: the zones, and whether there is a description
  reports,     \* changes so far
  lambdas,     \* what is posted to the UI task, oldest first
  seed,        \* the fetch task: what it got
  behind,      \* history: a change of the server fell between a seed's GET and its post
  level,       \* the subject
  zones,       \* ZoneRegistry::map_
  described,   \* ZoneRegistry::descriptions_
  tile         \* the tile on the screen: its background, and if it shows the name

zoneVars == <<reading, meta, reports, lambdas, seed, behind, level, zones, described, tile>>

Metas == [zones : ZoneLists, desc : BOOLEAN]
NoSeed == [at |-> "idle"]
NoTile == [on |-> FALSE]

-----------------------------------------------------------------------------
(* ZoneRegistry::match(): the place of the zone, 0 for none. *)

IsPoint(z) == z.lower = z.upper

\* top_edge
TopEdge(zs, v) == \A i \in DOMAIN zs : zs[i].upper <= v

Accepts(zs, i, v) ==
  IF IsPoint(zs[i]) THEN v = zs[i].lower
  ELSE \/ v >= zs[i].lower /\ v < zs[i].upper
       \/ v = zs[i].upper /\ TopEdge(zs, v)

Match(zs, v) ==
  LET hits == {i \in DOMAIN zs : Accepts(zs, i, v)} IN
    IF hits = {} THEN 0 ELSE CHOOSE i \in hits : \A j \in hits : i <= j

\* color_for_state(): nominal and normal are one green.
Color(state) == IF state = "nominal" THEN "normal" ELSE state

\* zone_color()
Tint(zs, v) == IF Match(zs, v) = 0 THEN Fallback ELSE Color(zs[Match(zs, v)].state)

-----------------------------------------------------------------------------
ZoneInit ==
  /\ reading \in Readings
  /\ meta = [zones |-> <<>>, desc |-> FALSE]
  /\ reports = 0 /\ lambdas = <<>> /\ seed = NoSeed /\ behind = FALSE
  /\ level = 0
  /\ zones = <<>> /\ described = FALSE
  /\ tile = NoTile

\* The server's value or meta changes and the stream carries it (external).
Report(v, m) ==
  /\ reports < MaxReports
  /\ reports' = reports + 1
  /\ \/ /\ v # reading
        /\ reading' = v /\ UNCHANGED meta
        /\ lambdas' = Append(lambdas, [kind |-> "delta", v |-> v])
     \/ /\ m # meta
        /\ meta' = m /\ UNCHANGED reading
        /\ lambdas' = Append(lambdas, [kind |-> "meta", m |-> m])
  /\ behind' = (behind \/ seed.at # "idle")
  /\ UNCHANGED <<seed, level, zones, described, tile>>

\* fetch_meta(), and fetch_value() after it.  Bound: one seed at a time.
FetchMeta ==
  /\ seed.at = "idle" /\ ~\E i \in DOMAIN lambdas : lambdas[i].kind = "seed"
  /\ seed' = [at |-> "value", m |-> meta]
  /\ UNCHANGED <<reading, meta, reports, lambdas, behind, level, zones, described, tile>>

FetchValue ==
  /\ seed.at = "value"
  /\ seed' = [at |-> "post", m |-> seed.m, v |-> reading]
  /\ UNCHANGED <<reading, meta, reports, lambdas, behind, level, zones, described, tile>>

\* The end of fetch_task(): one lambda for both.
PostSeed ==
  /\ seed.at = "post"
  /\ lambdas' = Append(lambdas, [kind |-> "seed", m |-> seed.m, v |-> seed.v])
  /\ seed' = NoSeed
  /\ UNCHANGED <<reading, meta, reports, behind, level, zones, described, tile>>

\* The tile's observer; with show_description a described path shows its name.
Painted(zs, d, v) ==
  [on |-> TRUE, bg |-> Tint(zs, v), named |-> d]

\* Mutant: new meta does not fire the subject.
ApplyMetaSilent(m) ==
  /\ described' = (described \/ m.desc)
  /\ zones' = IF m.zones # <<>> THEN m.zones ELSE zones
  /\ UNCHANGED tile

\* apply_meta(): what the meta lacks stays; what it has fires the subject.
ApplyMeta(m) ==
  /\ described' = (described \/ m.desc)
  /\ zones' = IF m.zones # <<>> THEN m.zones ELSE zones
  /\ tile' = IF tile.on /\ (m.desc \/ m.zones # <<>>)
             THEN Painted(zones', described', level') ELSE tile

\* The UI task runs the oldest lambda.
RunLambda ==
  /\ lambdas # <<>>
  /\ LET job == Head(lambdas) IN
       \/ /\ job.kind = "delta"
          /\ level' = job.v
          /\ tile' = IF tile.on THEN Painted(zones, described, level') ELSE tile
          /\ UNCHANGED <<zones, described>>
       \/ /\ job.kind = "meta"
          /\ level' = level
          /\ ApplyMeta(job.m)
       \/ /\ job.kind = "seed"
          /\ level' = job.v
          /\ described' = (described \/ job.m.desc)
          /\ zones' = IF job.m.zones # <<>> THEN job.m.zones ELSE zones
          /\ tile' = IF tile.on THEN Painted(zones', described', level') ELSE tile
  /\ lambdas' = Tail(lambdas)
  /\ UNCHANGED <<reading, meta, reports, seed, behind>>

\* build_label(): the observer fires when it is added.
BuildTile ==
  /\ ~tile.on
  /\ tile' = Painted(zones, described, level)
  /\ UNCHANGED <<reading, meta, reports, lambdas, seed, behind, level, zones, described>>

\* A layout swap deletes it.
DeleteTile ==
  /\ tile.on
  /\ tile' = NoTile
  /\ UNCHANGED <<reading, meta, reports, lambdas, seed, behind, level, zones, described>>

ZoneNext ==
  \/ \E v \in Readings, m \in Metas : Report(v, m)
  \/ FetchMeta \/ FetchValue \/ PostSeed
  \/ RunLambda
  \/ BuildTile \/ DeleteTile

ZoneSpec == ZoneInit /\ [][ZoneNext]_zoneVars

-----------------------------------------------------------------------------
(***************************************************************************)
(* Properties.                                                             *)
(***************************************************************************)

ZoneTypeOK ==
  /\ reading \in Readings /\ level \in Readings \cup {0}
  /\ meta \in Metas /\ zones \in ZoneLists
  /\ described \in BOOLEAN /\ behind \in BOOLEAN
  /\ reports \in 0 .. MaxReports

\* The zones a reading belongs to: those that span it, half-open, or are the
\* point; failing these, those that end there, if nothing reaches higher.
Wanted(zs, v) ==
  LET spanning == {i \in DOMAIN zs :
                     \/ zs[i].lower <= v /\ v < zs[i].upper
                     \/ zs[i].lower = v /\ zs[i].upper = v}
      ending == {i \in DOMAIN zs : zs[i].upper = v /\ TopEdge(zs, v)}
  IN IF spanning # {} THEN spanning ELSE ending

\* A point zone at the upper end of the scale, behind a zone that ends there.
Hidden(zs, v) ==
  \E i, j \in DOMAIN zs :
    i < j /\ zs[i].upper = v /\ ~IsPoint(zs[i]) /\ IsPoint(zs[j]) /\ zs[j].lower = v

\* A tile has the color of a zone its reading belongs to, by the zones the
\* registry holds now, however values, meta, seeds and swaps interleave; its
\* own color if there is none.  A point zone may be hidden by the top edge.  It
\* shows the name once there is one.
TintIsTrue ==
  tile.on =>
    /\ tile.named = described
    /\ ~Hidden(zones, level) =>
         IF Wanted(zones, level) = {} THEN tile.bg = Fallback
         ELSE tile.bg \in {Color(zones[i].state) : i \in Wanted(zones, level)}

\* With nothing under way, a path that has meta shows the server's zones and
\* value, unless they changed while a seed was under way.  Zones outlive a meta
\* without zones.
ZonesSettle ==
  lambdas = <<>> /\ seed.at = "idle" /\ ~behind =>
    /\ meta.zones # <<>> => zones = meta.zones
    /\ reports > 0 /\ level # 0 => level = reading
    /\ meta.desc => described

\* In every state the types are right, the tint is true, and what settled is
\* what the server has.
ZoneInv == ZoneTypeOK /\ TintIsTrue /\ ZonesSettle

-----------------------------------------------------------------------------
(***************************************************************************)
(* What the comments say and the code does not do.                         *)
(***************************************************************************)

\* "Treat that case as equality on the point instead" (zone_registry.cpp:64).
PointsAreSeen ==
  tile.on => \A i \in DOMAIN zones :
    IsPoint(zones[i]) /\ zones[i].lower = level =>
      tile.bg \in {Color(zones[j].state) : j \in Wanted(zones, level)}

\* Zones "update automatically if SK's metadata changes" (zone_registry.h:33-34).
ZonesFollowMeta ==
  lambdas = <<>> /\ seed.at = "idle" /\ ~behind /\ reports > 0 => zones = meta.zones
=============================================================================
