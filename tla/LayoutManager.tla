----------------------------- MODULE LayoutManager -----------------------------
(***************************************************************************)
(* How a panel comes by its layout: the stored one or the built-in one at  *)
(* boot, the server's applicationData after the first connect, and pushes; *)
(* with the subject registry that outlives every layout, the store that    *)
(* outlives every boot, and power that can fail between any two steps.     *)
(* A layout is the sequence of its widgets in build order.  A widget here  *)
(* binds one path of the server (a bargroup counts as its bars, a local    *)
(* "@..." path has no subscription and is left out); "Unbuildable" is one  *)
(* no builder knows, as in a layout stored by another firmware.  Neither a *)
(* layout that does not parse nor an oversized one changes anything.       *)
(***************************************************************************)
EXTENDS Integers, Sequences, FiniteSets

CONSTANTS
  Path, Layout,
  Widgets,        (* Widgets[l]: what layout l asks for *)
  DefaultLayout,  (* kDefaultLayoutJson *)
  None,
  MaxSubs,        (* room in espOS's subscription table *)
  MaxQueue        (* bound: applies under way to the UI task *)

Kind == {"Float", "Int", "String"}

(* checked: expected_subject_kind() knows the widget's type.               *)
Widget == [path : Path, kind : Kind \cup {"Unbuildable"}, checked : BOOLEAN]

Source == {"boot", "littlefs", "default", "applicationData", "post"}
Job == [layout : Layout, source : Source]

ASSUME LayoutAssumption ==
  /\ Widgets \in [Layout -> Seq(Widget)]
  /\ DefaultLayout \in Layout
ASSUME NoneAssumption ==
  None \notin Layout /\ None \notin Job /\ None \notin Kind \cup {"Unbuildable"}
ASSUME BoundAssumption == MaxSubs \in Nat /\ MaxQueue \in Nat

VARIABLES
  pc,          (* where the UI task is *)
  applying,    (* the apply() it is in *)
  queue,       (* lambdas that will call apply() *)
  rendered,    (* the layout whose tree current_root_ is, or None *)
  source,      (* active_source_ *)
  known_paths, (* known_paths_ *)
  registry,    (* SubjectRegistry::map_: the kind of each path's subject *)
  subscribed,  (* the paths whose sub_handle is live *)
  verdict,     (* what the last apply() came to *)
  fetch,       (* layout_fetch: not yet, 5 s timer armed, done *)
  store,       (* the NVS blob *)
  pushed,      (* history: the layout a push persisted last *)
  fresh        (* history: nothing was applied since the boot layout *)

ram == <<pc, applying, queue, rendered, source, known_paths, registry, subscribed,
         verdict, fetch, fresh>>
vars == <<ram, store, pushed>>

TypeOK ==
  /\ pc \in {"booting", "fallback", "idle", "build", "persist"}
  /\ applying \in Job \cup {None}
  /\ queue \in Seq(Job) /\ Len(queue) <= MaxQueue
  /\ rendered \in Layout \cup {None}
  /\ source \in Source
  /\ known_paths \subseteq Path
  /\ registry \in [Path -> Kind \cup {None}]
  /\ subscribed \subseteq Path
  /\ verdict \in {"none", "ok", "warning", "invalid", "kind_conflict", "unbuildable"}
  /\ fetch \in {"no", "armed", "done"}
  /\ store \in Layout \cup {None}
  /\ pushed \in Layout \cup {None}
  /\ fresh \in BOOLEAN

(* The partition may hold a layout of another firmware, whatever it is.    *)
Init ==
  /\ pc = "booting" /\ applying = None /\ queue = <<>>
  /\ rendered = None /\ source = "boot" /\ known_paths = {}
  /\ registry = [p \in Path |-> None] /\ subscribed = {}
  /\ verdict = "none" /\ fetch = "no" /\ fresh = TRUE
  /\ store \in Layout \cup {None} /\ pushed = None

------------------------------------------------------------------------------
(* Validation and build.                                                   *)

Bound(l) == {Widgets[l][i].path : i \in DOMAIN Widgets[l]}

(* validate(): no two widgets of types it knows ask for one path as two    *)
(* kinds.                                                                  *)
Validates(l) ==
  \A i, j \in DOMAIN Widgets[l] :
    LET v == Widgets[l][i]
        w == Widgets[l][j]
    IN  v.checked /\ w.checked /\ v.path = w.path => v.kind = w.kind

(* Mutant: a subject is handed out whatever its kind. *)
FitsAnyKind(reg, l, i) == Widgets[l][i].kind # "Unbuildable"

(* build_widget(): the path has no subject, or one of the widget's kind,   *)
(* be it of an earlier layout or of an earlier widget.                     *)
Fits(reg, l, i) ==
  LET w == Widgets[l][i] IN
  /\ w.kind # "Unbuildable"
  /\ reg[w.path] \in {None, w.kind}
  /\ \A j \in 1 .. i - 1 : Widgets[l][j].path = w.path => Widgets[l][j].kind = w.kind

Builds(reg, l) == \A i \in DOMAIN Widgets[l] : Fits(reg, l, i)

(* build_screens() stops at the first widget that does not build.          *)
Reached(reg, l) == {i \in DOMAIN Widgets[l] : \A j \in 1 .. i : Fits(reg, l, j)}

FirstMisfit(reg, l) ==
  CHOOSE i \in DOMAIN Widgets[l] : ~Fits(reg, l, i) /\ \A j \in 1 .. i - 1 : Fits(reg, l, j)

(* get_or_create() of every widget reached: subjects stay, also those of a *)
(* layout that is rejected in the end.                                     *)
Asked(reg, l, p) == {Widgets[l][i].kind : i \in {j \in Reached(reg, l) : Widgets[l][j].path = p}}

Registered(reg, l) ==
  [p \in Path |-> IF reg[p] # None \/ Asked(reg, l, p) = {} THEN reg[p]
                  ELSE CHOOSE k \in Asked(reg, l, p) : TRUE]

(* Paths new to the registry, and those the subscription table has room    *)
(* for, in build order.  A path that got none is not tried again.          *)
NewPaths(reg, l) == {p \in Path : reg[p] = None /\ Asked(reg, l, p) # {}}

FirstUse(l, p) ==
  CHOOSE i \in DOMAIN Widgets[l] :
    Widgets[l][i].path = p /\ \A j \in 1 .. i - 1 : Widgets[l][j].path # p

(* Mutant: the first bind of a path is left to the next reconnect. *)
GetsSlotLater(reg, l) == {p \in NewPaths(reg, l) : p \notin Bound(l)}

GetsSlot(reg, l) ==
  {p \in NewPaths(reg, l) :
     Cardinality({q \in NewPaths(reg, l) : FirstUse(l, q) < FirstUse(l, p)})
       < MaxSubs - Cardinality(subscribed)}

Touch(l) ==
  /\ registry' = Registered(registry, l)
  /\ subscribed' = subscribed \cup GetsSlot(registry, l)

------------------------------------------------------------------------------
(* LayoutManager::apply() on the UI task.                                  *)

(* The new tree is swapped in... *)
Swap(l) ==
  /\ Validates(l) /\ Builds(registry, l)
  /\ Touch(l)
  /\ rendered' = l

(* ... and the rest of apply(), which a push reaches after the flash.      *)
Finish(l, src, v) ==
  /\ source' = src
  /\ known_paths' = Bound(l)
  /\ verdict' = v

Accept(l, src) == Swap(l) /\ Finish(l, src, "ok")

(* The old tree stays; what the build registered stays too. *)
Reject(l) ==
  /\ \/ ~Validates(l) /\ verdict' = "invalid" /\ UNCHANGED <<registry, subscribed>>
     \/ /\ Validates(l) /\ ~Builds(registry, l)
        /\ verdict' = IF Widgets[l][FirstMisfit(registry, l)].kind = "Unbuildable"
                      THEN "unbuildable" ELSE "kind_conflict"
        /\ Touch(l)
  /\ UNCHANGED <<rendered, source, known_paths>>

(* Boot: the stored layout, if any. *)
BootStore ==
  /\ pc = "booting" /\ store # None
  /\ Accept(store, "littlefs")
  /\ pc' = "idle"
  /\ UNCHANGED <<applying, queue, fetch, fresh, store, pushed>>

(* It is rejected: cleared, if the flash lets us, and the default is next. *)
BootStoreRejected ==
  /\ pc = "booting" /\ store # None
  /\ Reject(store)
  /\ store' \in {None, store}
  /\ pc' = "fallback"
  /\ UNCHANGED <<applying, queue, fetch, fresh, pushed>>

(* There is no stored layout, it could not be read, or it was rejected. *)
BootDefault ==
  /\ pc \in {"booting", "fallback"}
  /\ \/ Accept(DefaultLayout, "default")
     \/ Reject(DefaultLayout)
  /\ pc' = "idle"
  /\ UNCHANGED <<applying, queue, fetch, fresh, store, pushed>>

(* layout_post(): the UI queue, behind whatever is there. *)
Push(l) ==
  /\ pc \in {"idle", "build", "persist"}
  /\ Len(queue) < MaxQueue
  /\ queue' = Append(queue, [layout |-> l, source |-> "post"])
  /\ UNCHANGED <<pc, applying, rendered, source, known_paths, registry, subscribed,
                 verdict, fetch, fresh, store, pushed>>

(* sk_stream_up() on the first connect: a timer for the fetch. *)
FirstConnect ==
  /\ pc = "idle" /\ fetch = "no"
  /\ fetch' = "armed"
  /\ UNCHANGED <<pc, applying, queue, rendered, source, known_paths, registry,
                 subscribed, verdict, fresh, store, pushed>>

(* fetch_task(): the body is posted, or there is none. *)
Fetched(l) ==
  /\ fetch = "armed"
  /\ Len(queue) < MaxQueue
  /\ fetch' = "done"
  /\ queue' = Append(queue, [layout |-> l, source |-> "applicationData"])
  /\ UNCHANGED <<pc, applying, rendered, source, known_paths, registry, subscribed,
                 verdict, fresh, store, pushed>>

FetchFails ==
  /\ fetch = "armed"
  /\ fetch' = "done"
  /\ UNCHANGED <<pc, applying, queue, rendered, source, known_paths, registry,
                 subscribed, verdict, fresh, store, pushed>>

Take ==
  /\ pc = "idle" /\ queue # <<>>
  /\ applying' = Head(queue) /\ queue' = Tail(queue)
  /\ pc' = "build"
  /\ UNCHANGED <<rendered, source, known_paths, registry, subscribed, verdict, fetch,
                 fresh, store, pushed>>

(* The push's handler has answered 504 "not applied": nothing is.          *)
Abandoned ==
  /\ pc = "idle" /\ queue # <<>> /\ Head(queue).source = "post"
  /\ queue' = Tail(queue)
  /\ UNCHANGED <<pc, applying, rendered, source, known_paths, registry, subscribed,
                 verdict, fetch, fresh, store, pushed>>

(* Mutant: what was fetched is persisted as well. *)
PersistsAll(src) == TRUE

(* Only pushed layouts are persisted. *)
Persists(src) == src = "post"

Build ==
  /\ pc = "build"
  /\ \/ /\ Swap(applying.layout)
        /\ fresh' = FALSE
        /\ IF Persists(applying.source)
           THEN pc' = "persist" /\ UNCHANGED <<applying, source, known_paths, verdict>>
           ELSE /\ Finish(applying.layout, applying.source, "ok")
                /\ pc' = "idle" /\ applying' = None
     \/ /\ Reject(applying.layout)
        /\ pc' = "idle" /\ applying' = None
        /\ UNCHANGED fresh
  /\ UNCHANGED <<queue, fetch, store, pushed>>

(* store_write_atomic(): the new blob, or the old one and a warning. *)
Persist ==
  /\ pc = "persist"
  /\ \/ /\ store' = applying.layout
        /\ pushed' = IF applying.source = "post" THEN applying.layout ELSE pushed
        /\ Finish(applying.layout, applying.source, "ok")
     \/ /\ UNCHANGED <<store, pushed>>
        /\ Finish(applying.layout, applying.source, "warning")
  /\ pc' = "idle" /\ applying' = None
  /\ UNCHANGED <<queue, rendered, registry, subscribed, fetch, fresh>>

(* Power fails, or the watchdog restarts the panel: the store survives. *)
Restart ==
  /\ pc' = "booting" /\ applying' = None /\ queue' = <<>>
  /\ rendered' = None /\ source' = "boot" /\ known_paths' = {}
  /\ registry' = [p \in Path |-> None] /\ subscribed' = {}
  /\ verdict' = "none" /\ fetch' = "no" /\ fresh' = TRUE
  /\ UNCHANGED <<store, pushed>>

Next ==
  \/ BootStore \/ BootStoreRejected \/ BootDefault
  \/ \E l \in Layout : Push(l) \/ Fetched(l)
  \/ FirstConnect \/ FetchFails
  \/ Take \/ Abandoned \/ Build \/ Persist
  \/ Restart

Spec == Init /\ [][Next]_vars

------------------------------------------------------------------------------
(* KeptPush: a push that was persisted stays in the store until another    *)
(* one is, over any number of restarts, and is what the panel boots into   *)
(* if the flash can be read: no boot rejects and clears it, though the     *)
(* registry it was built on is not that of a boot (README.md:76,           *)
(* store.h:25-30).                                                         *)
KeptPush ==
  pushed # None =>
    /\ store = pushed
    /\ fresh /\ source = "littlefs" => rendered = pushed

(* LiveKindsAgree: each widget on the panel is bound to a subject of its   *)
(* own kind, whatever layouts came before and were rejected                *)
(* (subject_registry.cpp:92-96).                                           *)
LiveKindsAgree ==
  rendered # None =>
    \A i \in DOMAIN Widgets[rendered] :
      registry[Widgets[rendered][i].path] = Widgets[rendered][i].kind

(* UnfedOnlyIfFull: the table is never overrun, and a path of the layout   *)
(* on the panel goes without its subscription only if the table is full,   *)
(* whatever layouts were accepted, rejected or half-built before: none is  *)
(* passed over while there is room, and none that has one loses it         *)
(* (subject_registry.cpp:149-157).                                         *)
UnfedOnlyIfFull ==
  /\ Cardinality(subscribed) <= MaxSubs
  /\ known_paths \subseteq subscribed \/ Cardinality(subscribed) = MaxSubs

(* What the documents say and the code does not do. *)

(* PushTakesPrecedence: what was pushed is not replaced by what was        *)
(* fetched.  README.md:74.                                                 *)
PushTakesPrecedence == [][source = "post" => source' # "applicationData"]_vars

(* FetchedOnlyIfDifferent: a fetched layout that is on the panel already   *)
(* is not applied.  README.md:78.                                          *)
FetchedOnlyIfDifferent ==
  [][source # "applicationData" /\ source' = "applicationData" => rendered' # rendered]_vars

(* NeverBlank: after boot there is a layout on the panel.  README.md:74.   *)
NeverBlank == pc = "idle" => rendered # None

(* ConflictsFoundUpFront: a layout that contradicts itself does not get as *)
(* far as the build.  layout_manager.cpp:241-244.                          *)
ConflictsFoundUpFront ==
  [][verdict' = "kind_conflict" /\ registry = [p \in Path |-> None] => verdict' = verdict]_vars

(* LivePathsSubscribed: a layout whose paths fit the table is subscribed   *)
(* to all of them, as those of earlier layouts make room.                  *)
(* subject_registry.cpp:191-194.                                           *)
LivePathsSubscribed == Cardinality(known_paths) <= MaxSubs => known_paths \subseteq subscribed

(* OnlyLiveSubscribed: after a swap only its paths are subscribed.         *)
(* subject_registry.h:56-57.                                               *)
OnlyLiveSubscribed == pc = "idle" /\ verdict = "ok" => subscribed \subseteq known_paths
==============================================================================
