---------------------------- MODULE SubjectFeed ----------------------------
(***************************************************************************)
(* How a bound path gets its reading: main/jlp/subject_registry.cpp (the   *)
(* stream's deltas), main/jlp/net/zone_fetch.cpp (the REST seeds), and the *)
(* two callers of the latter in main/app_main.cpp.                         *)
(*                                                                         *)
(* The server sends a path only when it changes, so a path that is quiet   *)
(* when it is bound is seeded with one GET: by the first stream connect    *)
(* for what is bound by then, by the post-swap hook for what is bound      *)
(* later.  Deltas and seeds reach the subject through the one queue of the *)
(* UI task, but they get there by different roads.                         *)
(*                                                                         *)
(* A reading is a version number, 0 the subject's initial value.           *)
(***************************************************************************)
EXTENDS Naturals, Sequences

CONSTANTS
  Paths,        \* paths a layout may bind
  Boot,         \* the seed of the first connect
  Lively,       \* bound: the paths whose readings change, the others are quiet
  MaxChanges,   \* bound: changes of readings on the server
  MaxOutages    \* bound: losses of the network

ASSUME PathsAssumption == Boot \notin Paths /\ Lively \subseteq Paths
ASSUME BoundsAssumption == MaxChanges \in Nat /\ MaxOutages \in Nat

VARIABLES
  value,       \* the server's readings
  changes, outages,
  net,         \* the server can be reached
  known,       \* espos_sk_get_server() has an answer
  up,          \* s_sk_connected
  bootDone,    \* s_boot_fetch_done
  bound,       \* the registry's paths, each with its subscription
  wire,        \* deltas under way on the stream
  ui,          \* lambdas posted to the UI task
  fetches,     \* fetch tasks, by the bind or connect that spawned them: what is left to get, what was got
  subject,     \* the readings the widgets show
  missed,      \* history: paths whose last change or seed fell into an outage
  overtaken    \* history: paths whose last change fell between a seed's GET and its post

serverVars == <<value, changes>>
linkVars == <<outages, net, known, up>>
feedVars == <<serverVars, linkVars, bootDone, bound, wire, ui, fetches, subject, missed, overtaken>>

Versions == 0 .. (MaxChanges + 1)
Readings == [path : Paths, v : Versions]
Tasks == Paths \cup {Boot}
Free == [busy |-> FALSE, todo |-> {}, got |-> {}]

FeedTypeOK ==
  /\ value \in [Paths -> Versions] /\ subject \in [Paths -> Versions]
  /\ changes \in 0 .. MaxChanges /\ outages \in 0 .. MaxOutages
  /\ {net, known, up, bootDone} \subseteq BOOLEAN
  /\ {bound, missed, overtaken} \subseteq SUBSET Paths
  /\ wire \in Seq(Readings)
  /\ ui \in Seq(SUBSET Readings)
  /\ fetches \in [Tasks -> [busy : BOOLEAN, todo : SUBSET Paths, got : SUBSET Readings]]

FeedInit ==
  /\ value = [p \in Paths |-> 1]
  /\ changes = 0 /\ outages = 0
  /\ net = TRUE /\ known = FALSE /\ up = FALSE /\ bootDone = FALSE
  /\ bound = {} /\ missed = {} /\ overtaken = {}
  /\ wire = <<>> /\ ui = <<>>
  /\ fetches = [t \in Tasks |-> Free]
  /\ subject = [p \in Paths |-> 0]

-----------------------------------------------------------------------------
\* zone_fetch_for_paths: a fetch task of its own for the paths, if any.
Spawn(t, paths) ==
  fetches' = [fetches EXCEPT ![t] = IF paths = {} THEN @
                                ELSE [busy |-> TRUE, todo |-> paths, got |-> {}]]

\* A task holds a reading of the path it has not posted yet.
SeedInHand(p) == \E t \in Tasks : \E r \in fetches[t].got : r.path = p

\* A reading changes; the stream carries it if it is up and the path subscribed.
Change(p) ==
  /\ changes < MaxChanges
  /\ changes' = changes + 1
  /\ value' = [value EXCEPT ![p] = @ + 1]
  /\ wire' = IF up /\ p \in bound THEN Append(wire, [path |-> p, v |-> value'[p]]) ELSE wire
  /\ missed' = IF up THEN missed \ {p} ELSE missed \cup ({p} \cap bound)
  /\ overtaken' = IF SeedInHand(p) THEN overtaken \cup {p} ELSE overtaken \ {p}
  /\ UNCHANGED <<linkVars, bootDone, bound, ui, fetches, subject>>

\* espOS selects a server, then connects its stream (external).
Select ==
  /\ net /\ ~known
  /\ known' = TRUE
  /\ UNCHANGED <<serverVars, outages, net, up, bootDone, bound, wire, ui, fetches, subject, missed, overtaken>>

\* sk_stream_up: the first connect of the process seeds what is bound.
StreamUp ==
  /\ net /\ known /\ ~up
  /\ up' = TRUE
  /\ bootDone' = TRUE
  /\ IF bootDone THEN UNCHANGED fetches ELSE Spawn(Boot, bound)
  /\ UNCHANGED <<serverVars, outages, net, known, bound, wire, ui, subject, missed, overtaken>>

\* sk_stream_down, with the network: what was on the stream is lost.
StreamDown ==
  /\ outages < MaxOutages
  /\ net
  /\ outages' = outages + 1
  /\ net' = FALSE /\ up' = FALSE
  /\ wire' = <<>>
  /\ missed' = missed \cup {wire[i].path : i \in DOMAIN wire}
  /\ UNCHANGED <<serverVars, known, bootDone, bound, ui, fetches, subject, overtaken>>

NetBack ==
  /\ ~net
  /\ net' = TRUE
  /\ UNCHANGED <<serverVars, outages, known, up, bootDone, bound, wire, ui, fetches, subject, missed, overtaken>>

\* A layout binds a new path: the registry subscribes it and the post-swap hook
\* seeds it, unless there is no server yet.
Bind(p) ==
  /\ p \notin bound
  /\ bound' = bound \cup {p}
  /\ IF known THEN Spawn(p, {p}) ELSE UNCHANGED fetches
  /\ UNCHANGED <<serverVars, linkVars, bootDone, wire, ui, subject, missed, overtaken>>

\* fetch_meta and fetch_value of one path; a failed GET is dropped.
Get(t, p) ==
  /\ p \in fetches[t].todo
  /\ fetches' = [fetches EXCEPT
                 ![t].todo = @ \ {p},
                 ![t].got = IF net THEN @ \cup {[path |-> p, v |-> value[p]]} ELSE @]
  /\ missed' = IF net THEN missed \ {p} ELSE missed \cup {p}
  /\ UNCHANGED <<serverVars, linkVars, bootDone, bound, wire, ui, subject, overtaken>>

\* The whole batch is one lambda for the UI task.
PostSeeds(t) ==
  /\ fetches[t].busy
  /\ fetches[t].todo = {}
  /\ ui' = Append(ui, fetches[t].got)
  /\ fetches' = [fetches EXCEPT ![t] = Free]
  /\ UNCHANGED <<serverVars, linkVars, bootDone, bound, wire, subject, missed, overtaken>>

\* on_update, on the stream task: one lambda for the UI task.
Deliver ==
  /\ wire # <<>>
  /\ ui' = Append(ui, {Head(wire)})
  /\ wire' = Tail(wire)
  /\ UNCHANGED <<serverVars, linkVars, bootDone, bound, fetches, subject, missed, overtaken>>

\* Mutant: the newest lambda runs first.
RunUiNewest ==
  /\ ui # <<>>
  /\ LET batch == ui[Len(ui)] IN
       subject' = [p \in Paths |->
         IF p \in bound /\ \E r \in batch : r.path = p
         THEN (CHOOSE r \in batch : r.path = p).v ELSE subject[p]]
  /\ ui' = SubSeq(ui, 1, Len(ui) - 1)
  /\ UNCHANGED <<serverVars, linkVars, bootDone, bound, wire, fetches, missed, overtaken>>

\* The UI task runs the oldest lambda: delta or seed, the value goes in as it is.
RunUi ==
  /\ ui # <<>>
  /\ LET batch == Head(ui) IN
       subject' = [p \in Paths |->
         IF p \in bound /\ \E r \in batch : r.path = p
         THEN (CHOOSE r \in batch : r.path = p).v ELSE subject[p]]
  /\ ui' = Tail(ui)
  /\ UNCHANGED <<serverVars, linkVars, bootDone, bound, wire, fetches, missed, overtaken>>

Fetching == \E t \in Tasks : PostSeeds(t) \/ \E p \in Paths : Get(t, p)

FeedNext ==
  \/ \E p \in Lively : Change(p)
  \/ \E p \in Paths : Bind(p)
  \/ Select \/ StreamUp \/ StreamDown \/ NetBack
  \/ Fetching \/ Deliver \/ RunUi

\* The tasks run, the network comes back, and espOS reconnects.
FeedFairness ==
  /\ WF_feedVars(Fetching) /\ WF_feedVars(Deliver) /\ WF_feedVars(RunUi)
  /\ WF_feedVars(Select) /\ WF_feedVars(StreamUp) /\ WF_feedVars(NetBack)

FeedSpec == FeedInit /\ [][FeedNext]_feedVars /\ FeedFairness

-----------------------------------------------------------------------------
(***************************************************************************)
(* Properties.                                                             *)
(***************************************************************************)

\* Nothing of the path is under way to its subject.
AtRest(p) ==
  /\ \A i \in DOMAIN wire : wire[i].path # p
  /\ \A i \in DOMAIN ui : \A r \in ui[i] : r.path # p
  /\ \A t \in Tasks : p \notin fetches[t].todo /\ \A r \in fetches[t].got : r.path # p

\* A subject that has a reading, and for whose path nothing is under way, has
\* the server's, unless the last change or its seed fell into an outage, or the
\* change between the GET of a seed and its lambda.
FeedSettles ==
  \A p \in bound \ (missed \cup overtaken) :
    subject[p] # 0 /\ AtRest(p) => subject[p] = value[p]

\* In every state the types are right, and the subjects at rest.
FeedInv == FeedTypeOK /\ FeedSettles

\* Once the server's readings stop changing, every bound subject holds its
\* path's reading, also if it was quiet all the time, and keeps it
\* (zone_fetch.h:14-18), unless the last change of the path or its seed fell into
\* an outage, or the change between the GET of a seed and its lambda: no other
\* interleaving of deltas, seeds, binds and reconnects leaves a subject stale.
StaleOnlyIfMissedOrOvertaken ==
  <>[](\A p \in bound \ (missed \cup overtaken) : subject[p] = value[p])

-----------------------------------------------------------------------------
(***************************************************************************)
(* What the comments say and the code does not do.                         *)
(***************************************************************************)

\* Every bound subject ends on its path's reading (zone_fetch.h:14-18,
\* zone_fetch.cpp:76-82).  Broken without an outage by a reading that changes
\* between the GET and its lambda.
SubjectsSettleOnTruth == <>[](\A p \in bound : subject[p] = value[p])
=============================================================================
