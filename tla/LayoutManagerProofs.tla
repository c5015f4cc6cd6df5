--------------------------- MODULE LayoutManagerProofs ---------------------------
(***************************************************************************)
(* Proofs about LayoutManager for any layouts, table size and queue bound: *)
(* type correctness, that widgets and subjects agree in kind, that a       *)
(* persisted push is what the panel boots into, and that a path goes       *)
(* without a subscription only if the table is full.  Then about           *)
(* SubjectFeed, that subjects at rest have the server's readings, and      *)
(* about WakeDiscovery, that the wake host has answered.                   *)
(***************************************************************************)
EXTENDS MCLayoutManager, SequenceTheorems, FiniteSetTheorems, WellFoundedInduction, TLAPS

Empty == [p \in Path |-> None]

LEMMA WidgetType ==
  ASSUME NEW l \in Layout, NEW i \in DOMAIN Widgets[l]
  PROVE  /\ Widgets[l][i].path \in Path
         /\ Widgets[l][i].kind \in Kind \cup {"Unbuildable"}
         /\ i \in Nat \ {0}
<1>1. Widgets[l] \in Seq(Widget)
  BY LayoutAssumption
<1>2. Widgets[l][i] \in Widget /\ i \in 1 .. Len(Widgets[l])
  BY <1>1
<1> QED
  BY <1>2 DEF Widget

(* Kinds a rejected or accepted build asks for are kinds of subjects.      *)
LEMMA AskedType ==
  ASSUME NEW l \in Layout, NEW reg, NEW p \in Path
  PROVE  Asked(reg, l, p) \subseteq Kind
<1> SUFFICES ASSUME NEW i \in Reached(reg, l)
             PROVE  Widgets[l][i].kind \in Kind
  BY DEF Asked
<1>1. i \in DOMAIN Widgets[l] /\ \A j \in 1 .. i : Fits(reg, l, j)
  BY DEF Reached
<1>2. i \in 1 .. i
  BY <1>1, WidgetType
<1>3. Fits(reg, l, i)
  BY <1>1, <1>2
<1> QED
  BY <1>1, <1>3, WidgetType DEF Fits

LEMMA RegisteredType ==
  ASSUME NEW l \in Layout, NEW reg \in [Path -> Kind \cup {None}]
  PROVE  Registered(reg, l) \in [Path -> Kind \cup {None}]
<1> SUFFICES ASSUME NEW p \in Path, reg[p] = None, Asked(reg, l, p) # {}
             PROVE  (CHOOSE k \in Asked(reg, l, p) : TRUE) \in Kind
  BY DEF Registered
<1> QED
  BY AskedType

(* A subject keeps its kind.                                               *)
LEMMA RegisteredKeeps ==
  ASSUME NEW l \in Layout, NEW reg \in [Path -> Kind \cup {None}],
         NEW p \in Path, reg[p] # None
  PROVE  Registered(reg, l)[p] = reg[p]
BY DEF Registered

(* Every widget of a layout that builds has a subject of its kind.         *)
LEMMA BuildRegisters ==
  ASSUME NEW l \in Layout, NEW reg \in [Path -> Kind \cup {None}],
         Builds(reg, l), NEW i \in DOMAIN Widgets[l]
  PROVE  Registered(reg, l)[Widgets[l][i].path] = Widgets[l][i].kind
<1> DEFINE p == Widgets[l][i].path
<1>1. p \in Path /\ i \in Nat \ {0}
  BY WidgetType
<1>2. Fits(reg, l, i) /\ Widgets[l][i].kind \in Kind
  BY WidgetType DEF Builds, Fits
<1>3. CASE reg[p] # None
  BY <1>1, <1>2, <1>3, RegisteredKeeps DEF Fits
<1>4. CASE reg[p] = None
  <2>1. i \in Reached(reg, l)
    <3>1. Widgets[l] \in Seq(Widget)
      BY LayoutAssumption
    <3>2. \A j \in 1 .. i : j \in DOMAIN Widgets[l]
      BY <3>1
    <3> QED
      BY <3>2 DEF Reached, Builds
  <2>2. Widgets[l][i].kind \in Asked(reg, l, p)
    BY <2>1 DEF Asked
  <2>3. \A k \in Asked(reg, l, p) : k = Widgets[l][i].kind
    <3> SUFFICES ASSUME NEW j \in DOMAIN Widgets[l], Widgets[l][j].path = p
                 PROVE  Widgets[l][j].kind = Widgets[l][i].kind
      BY DEF Asked, Reached
    <3>1. Fits(reg, l, j) /\ j \in Nat \ {0}
      BY WidgetType DEF Builds
    <3>2. j < i \/ j = i \/ i < j
      BY <1>1, <3>1
    <3>3. j < i => j \in 1 .. i - 1
      BY <1>1, <3>1
    <3>4. i < j => i \in 1 .. j - 1
      BY <1>1, <3>1
    <3> QED
      BY <1>2, <3>1, <3>2, <3>3, <3>4 DEF Fits
  <2>4. (CHOOSE k \in Asked(reg, l, p) : TRUE) = Widgets[l][i].kind
    BY <2>2, <2>3
  <2> QED
    BY <1>1, <1>4, <2>2, <2>4 DEF Registered
<1> QED
  BY <1>3, <1>4

(* What builds beside the subjects of earlier layouts builds on a panel    *)
(* that has just booted.                                                   *)
LEMMA BuildsAfterBoot ==
  ASSUME NEW l \in Layout, NEW reg, Builds(reg, l)
  PROVE  Builds(Empty, l)
<1> SUFFICES ASSUME NEW i \in DOMAIN Widgets[l]
             PROVE  Fits(Empty, l, i)
  BY DEF Builds
<1>1. Fits(reg, l, i)
  BY DEF Builds
<1>2. Empty[Widgets[l][i].path] = None
  BY WidgetType DEF Empty
<1> QED
  BY <1>1, <1>2 DEF Fits

-----------------------------------------------------------------------------
(* Type correctness.                                                       *)

LEMMA TouchType ==
  ASSUME TypeOK, NEW l \in Layout, Touch(l)
  PROVE  registry' \in [Path -> Kind \cup {None}] /\ subscribed' \subseteq Path
<1>1. registry' \in [Path -> Kind \cup {None}]
  BY RegisteredType DEF TypeOK, Touch
<1>2. GetsSlot(registry, l) \subseteq Path
  BY DEF GetsSlot, NewPaths
<1> QED
  BY <1>1, <1>2 DEF TypeOK, Touch

LEMMA BoundType ==
  ASSUME NEW l \in Layout
  PROVE  Bound(l) \subseteq Path
BY WidgetType DEF Bound

LEMMA RejectType ==
  ASSUME TypeOK, NEW l \in Layout, Reject(l)
  PROVE  /\ registry' \in [Path -> Kind \cup {None}] /\ subscribed' \subseteq Path
         /\ verdict' \in {"invalid", "kind_conflict", "unbuildable"}
         /\ UNCHANGED <<rendered, source, known_paths>>
<1>1. CASE ~Validates(l) /\ verdict' = "invalid" /\ UNCHANGED <<registry, subscribed>>
  BY <1>1 DEF Reject, TypeOK
<1>2. CASE Validates(l) /\ Touch(l)
  <2>1. verdict' \in {"kind_conflict", "unbuildable"}
    BY <1>2 DEF Reject
  <2> QED
    BY <1>2, <2>1, TouchType DEF Reject
<1> QED
  BY <1>1, <1>2 DEF Reject
(* While apply() is under way there is a layout it applies.                *)
Working == pc \in {"build", "persist"} => applying \in Job

LEMMA WorkingStep ==
  ASSUME TypeOK, Working, [Next]_vars
  PROVE  Working'
<1>1. CASE Take \/ Abandoned
  <2>1. Head(queue) \in Job
    BY <1>1 DEF Take, Abandoned, TypeOK
  <2> QED
    BY <1>1, <2>1 DEF Take, Abandoned, Working
<1>2. CASE \E l \in Layout : Push(l) \/ Fetched(l)
  BY <1>2 DEF Push, Fetched, Working
<1> QED
  BY <1>1, <1>2 DEF Next, BootStore, BootStoreRejected, BootDefault, FirstConnect,
     FetchFails, Build, Persist, Restart, Working, vars, ram

LEMMA TypeStep ==
  ASSUME TypeOK, Working, [Next]_vars
  PROVE  TypeOK'
<1> USE NoneAssumption, BoundAssumption, LayoutAssumption
<1>1. CASE BootStore
  <2>1. store \in Layout
    BY <1>1 DEF BootStore, TypeOK
  <2>2. /\ registry' \in [Path -> Kind \cup {None}] /\ subscribed' \subseteq Path
        /\ Bound(store) \subseteq Path
    BY <1>1, <2>1, TouchType, BoundType DEF BootStore, Accept, Swap
  <2> QED
    BY <1>1, <2>1, <2>2 DEF BootStore, Accept, Swap, Finish, TypeOK, Source
<1>2. CASE BootStoreRejected
  <2>1. store \in Layout
    BY <1>2 DEF BootStoreRejected, TypeOK
  <2> QED
    BY <1>2, <2>1, RejectType DEF BootStoreRejected, TypeOK
<1>3. CASE BootDefault
  <2>1. CASE Accept(DefaultLayout, "default")
    <3>1. /\ registry' \in [Path -> Kind \cup {None}] /\ subscribed' \subseteq Path
          /\ Bound(DefaultLayout) \subseteq Path
      BY <2>1, TouchType, BoundType DEF Accept, Swap
    <3> QED
      BY <1>3, <2>1, <3>1 DEF BootDefault, Accept, Swap, Finish, TypeOK, Source
  <2>2. CASE Reject(DefaultLayout)
    BY <1>3, <2>2, RejectType DEF BootDefault, TypeOK
  <2> QED
    BY <1>3, <2>1, <2>2 DEF BootDefault
<1>4. CASE \E l \in Layout : Push(l)
  <2>1. PICK l \in Layout : Push(l)
    BY <1>4
  <2>2. [layout |-> l, source |-> "post"] \in Job
    BY DEF Job, Source
  <2>3. queue' \in Seq(Job) /\ Len(queue') <= MaxQueue
    BY <2>1, <2>2 DEF Push, TypeOK
  <2> QED
    BY <2>1, <2>3 DEF Push, TypeOK
<1>5. CASE \E l \in Layout : Fetched(l)
  <2>1. PICK l \in Layout : Fetched(l)
    BY <1>5
  <2>2. [layout |-> l, source |-> "applicationData"] \in Job
    BY DEF Job, Source
  <2>3. queue' \in Seq(Job) /\ Len(queue') <= MaxQueue
    BY <2>1, <2>2 DEF Fetched, TypeOK
  <2> QED
    BY <2>1, <2>3 DEF Fetched, TypeOK
<1>6. CASE FirstConnect \/ FetchFails
  BY <1>6 DEF FirstConnect, FetchFails, TypeOK
<1>7. CASE Take \/ Abandoned
  <2>1. Head(queue) \in Job /\ Tail(queue) \in Seq(Job) /\ Len(Tail(queue)) <= MaxQueue
    BY <1>7 DEF Take, Abandoned, TypeOK
  <2> QED
    BY <1>7, <2>1 DEF Take, Abandoned, TypeOK
<1>8. CASE Build
  <2>0. applying \in Job
    BY <1>8 DEF Build, Working
  <2>1. CASE Swap(applying.layout)
    <3>1. applying.layout \in Layout /\ applying.source \in Source
      BY <2>0 DEF Job
    <3>2. /\ registry' \in [Path -> Kind \cup {None}] /\ subscribed' \subseteq Path
          /\ Bound(applying.layout) \subseteq Path
      BY <2>1, <3>1, TouchType, BoundType DEF Swap
    <3>3. ~Reject(applying.layout)
      BY <2>1 DEF Swap, Reject
    <3>4. CASE Persists(applying.source)
      BY <1>8, <2>1, <3>1, <3>2, <3>3, <3>4 DEF Build, Swap, TypeOK
    <3>5. CASE ~Persists(applying.source)
      BY <1>8, <2>1, <3>1, <3>2, <3>3, <3>5 DEF Build, Swap, Finish, TypeOK
    <3> QED
      BY <3>4, <3>5
  <2>2. CASE Reject(applying.layout)
    <3>1. applying.layout \in Layout
      BY <2>0 DEF Job
    <3> QED
      BY <1>8, <2>2, <3>1, RejectType DEF Build, TypeOK
  <2> QED
    BY <1>8, <2>1, <2>2 DEF Build, TypeOK
<1>9. CASE Persist
  <2>1. applying.layout \in Layout /\ applying.source \in Source
    BY <1>9 DEF Persist, Working, Job
  <2>2. Bound(applying.layout) \subseteq Path
    BY <2>1, BoundType
  <2> QED
    BY <1>9, <2>1, <2>2 DEF Persist, Finish, TypeOK
<1>10. CASE Restart
  BY <1>10 DEF Restart, TypeOK, Source
<1>11. CASE UNCHANGED vars
  BY <1>11 DEF vars, ram, TypeOK
<1> QED
  BY <1>1, <1>2, <1>3, <1>4, <1>5, <1>6, <1>7, <1>8, <1>9, <1>10, <1>11 DEF Next
-----------------------------------------------------------------------------
(* Widgets and subjects.                                                   *)

(* The widgets of the layout on the panel keep their subjects whatever is  *)
(* built beside it.                                                        *)
LEMMA TouchKeepsKinds ==
  ASSUME TypeOK, LiveKindsAgree, NEW l \in Layout, Touch(l), rendered' = rendered
  PROVE  LiveKindsAgree'
<1> SUFFICES ASSUME rendered # None, NEW i \in DOMAIN Widgets[rendered]
             PROVE  registry'[Widgets[rendered][i].path] = Widgets[rendered][i].kind
  BY DEF LiveKindsAgree
<1> DEFINE w == Widgets[rendered][i]
<1>1. rendered \in Layout /\ registry[w.path] = w.kind
  BY DEF LiveKindsAgree, TypeOK
<1>2. w.path \in Path /\ w.kind \in Kind \cup {"Unbuildable"}
  BY <1>1, WidgetType
<1>3. registry[w.path] # None
  BY <1>1, <1>2, NoneAssumption DEF TypeOK
<1> QED
  BY <1>1, <1>2, <1>3, RegisteredKeeps DEF Touch, TypeOK

LEMMA SwapAgrees ==
  ASSUME TypeOK, NEW l \in Layout, Swap(l)
  PROVE  LiveKindsAgree'
BY BuildRegisters DEF Swap, Touch, LiveKindsAgree, TypeOK

LEMMA RejectKeepsKinds ==
  ASSUME TypeOK, LiveKindsAgree, NEW l \in Layout, Reject(l)
  PROVE  LiveKindsAgree'
<1>1. CASE UNCHANGED <<registry, subscribed>>
  BY <1>1 DEF Reject, LiveKindsAgree
<1>2. CASE Touch(l)
  BY <1>2, TouchKeepsKinds DEF Reject
<1> QED
  BY <1>1, <1>2 DEF Reject

LEMMA KindsStep ==
  ASSUME TypeOK, Working, LiveKindsAgree, [Next]_vars
  PROVE  LiveKindsAgree'
<1>1. CASE BootStore
  BY <1>1, SwapAgrees DEF BootStore, Accept, TypeOK
<1>2. CASE BootStoreRejected
  BY <1>2, RejectKeepsKinds DEF BootStoreRejected, TypeOK
<1>3. CASE BootDefault
  BY <1>3, SwapAgrees, RejectKeepsKinds, LayoutAssumption DEF BootDefault, Accept
<1>4. CASE Build
  <2>1. applying.layout \in Layout
    BY <1>4 DEF Build, Working, Job
  <2> QED
    BY <1>4, <2>1, SwapAgrees, RejectKeepsKinds DEF Build
<1>5. CASE Restart
  BY <1>5 DEF Restart, LiveKindsAgree
<1>6. CASE UNCHANGED <<rendered, registry>>
  BY <1>6 DEF LiveKindsAgree
<1> QED
  BY <1>1, <1>2, <1>3, <1>4, <1>5, <1>6 DEF Next, Push, Fetched, FirstConnect, FetchFails,
     Take, Abandoned, Persist, Finish, vars, ram

-----------------------------------------------------------------------------
(* A persisted push.                                                       *)

BootsWith(l) == Validates(l) /\ Builds(Empty, l)

(* What makes KeptPush inductive: what is or will be persisted builds on   *)
(* the empty registry of a boot, and nothing is applied before it.         *)
KeptAcross ==
  /\ pc = "booting" => registry = Empty /\ source = "boot"
  /\ pc = "persist" => /\ ~fresh
                       /\ applying.source = "post"
                       /\ BootsWith(applying.layout)
  /\ pushed # None =>
       /\ store = pushed /\ BootsWith(pushed)
       /\ pc # "fallback"
       /\ fresh /\ source = "littlefs" => rendered = pushed

LEMMA KeptStep ==
  ASSUME TypeOK, Working, KeptAcross, [Next]_vars
  PROVE  KeptAcross'
<1> USE DEF KeptAcross
<1>1. CASE BootStore
  BY <1>1 DEF BootStore, Accept, Swap, Finish
<1>2. CASE BootStoreRejected
  <2>1. pushed = None
    BY <1>2 DEF BootStoreRejected, Reject, BootsWith
  <2> QED
    BY <1>2, <2>1 DEF BootStoreRejected
<1>3. CASE BootDefault
  <2>1. CASE pc = "fallback"
    <3>1. pushed = None
      BY <2>1
    <3> QED
      BY <1>3, <3>1 DEF BootDefault
  <2>2. CASE pc = "booting"
    BY <1>3, <2>2 DEF BootDefault, Accept, Swap, Finish, Reject
  <2> QED
    BY <1>3, <2>1, <2>2 DEF BootDefault
<1>4. CASE \E l \in Layout : Push(l) \/ Fetched(l)
  BY <1>4 DEF Push, Fetched
<1>5. CASE FirstConnect \/ FetchFails
  BY <1>5 DEF FirstConnect, FetchFails
<1>6. CASE Take \/ Abandoned
  BY <1>6 DEF Take, Abandoned
<1>7. CASE Build
  <2>1. applying.layout \in Layout
    BY <1>7 DEF Build, Working, Job
  <2>2. CASE Reject(applying.layout) /\ pc' = "idle" /\ UNCHANGED fresh
    BY <1>7, <2>2 DEF Build, Reject
  <2>3. CASE Swap(applying.layout) /\ fresh' = FALSE
    <3>1. BootsWith(applying.layout)
      BY <2>1, <2>3, BuildsAfterBoot DEF Swap, BootsWith
    <3>2. CASE Persists(applying.source) /\ pc' = "persist" /\ applying' = applying
      BY <1>7, <2>3, <3>1, <3>2 DEF Build, Persists
    <3>3. CASE pc' = "idle"
      BY <1>7, <2>3, <3>3 DEF Build
    <3> QED
      BY <1>7, <2>3, <3>2, <3>3 DEF Build, Swap, Reject
  <2> QED
    BY <1>7, <2>2, <2>3 DEF Build
<1>8. CASE Persist
  BY <1>8 DEF Persist
<1>9. CASE Restart
  BY <1>9 DEF Restart, Empty
<1>10. CASE UNCHANGED vars
  BY <1>10 DEF vars, ram
<1> QED
  BY <1>1, <1>2, <1>3, <1>4, <1>5, <1>6, <1>7, <1>8, <1>9, <1>10 DEF Next

-----------------------------------------------------------------------------

IInv == TypeOK /\ Working /\ LiveKindsAgree /\ KeptAcross

LEMMA Inductive == Spec => []IInv
<1>1. Init => IInv
  <2> SUFFICES ASSUME Init
               PROVE  IInv
    OBVIOUS
  <2>1. queue \in Seq(Job) /\ Len(queue) <= MaxQueue
    BY BoundAssumption, EmptySeq DEF Init
  <2>2. TypeOK
    BY <2>1 DEF Init, TypeOK, Source
  <2>3. Working /\ LiveKindsAgree
    BY DEF Init, Working, LiveKindsAgree
  <2>4. KeptAcross
    BY DEF Init, KeptAcross, Empty
  <2> QED
    BY <2>2, <2>3, <2>4 DEF IInv
<1>2. IInv /\ [Next]_vars => IInv'
  BY TypeStep, WorkingStep, KindsStep, KeptStep DEF IInv
<1> QED
  BY <1>1, <1>2, PTL DEF Spec

(* TypeCorrect: every state keeps the types, the registry's kinds and the  *)
(* queue's bound among them.                                               *)
THEOREM TypeCorrect == Spec => []TypeOK
BY Inductive, PTL DEF IInv

(* KindsAgree: whatever layouts came before and were rejected half-built,  *)
(* each widget on the panel has a subject of its own kind.                 *)
THEOREM KindsAgree == Spec => []LiveKindsAgree
BY Inductive, PTL DEF IInv

(* PushKept: a persisted push survives any restarts and is what the panel  *)
(* boots into, for any layouts and any history of layouts.                 *)
THEOREM PushKept == Spec => []KeptPush
<1>1. IInv => KeptPush
  BY DEF IInv, KeptAcross, KeptPush
<1> QED
  BY <1>1, Inductive, PTL

-----------------------------------------------------------------------------
(* Subscriptions, in a table of any size.                                  *)

(* Of ranked elements there is a lowest.                                   *)
LEMMA LowestRanked ==
  ASSUME NEW N, NEW u \in [N -> Nat], NEW T \in SUBSET N, T # {}
  PROVE  \E x \in T : \A y \in T : u[x] <= u[y]
<1> DEFINE R == {ss \in Nat \X Nat : ss[1] < ss[2]}
           U == {u[x] : x \in T}
<1>1. U \subseteq Nat /\ U # {}
  OBVIOUS
<1>2. IsWellFoundedOn(R, Nat)
  BY NatLessThanWellFounded DEF OpToRel
<1> HIDE DEF R
<1>3. PICK m \in U : \A n \in U : ~(<<n, m>> \in R)
  BY <1>1, <1>2, WFMin
<1>4. PICK x \in T : m = u[x]
  BY <1>3
<1>5. \A y \in T : ~(<<u[y], u[x]>> \in R)
  BY <1>3, <1>4
<1>6. \A y \in T : ~(u[y] < u[x])
  BY <1>5 DEF R
<1> QED
  BY <1>6

(* A function into fewer values takes one twice.                           *)
LEMMA TwiceTaken ==
  ASSUME NEW S, NEW T, IsFiniteSet(S), IsFiniteSet(T), Cardinality(T) < Cardinality(S),
         NEW f \in [S -> T]
  PROVE  \E x, y \in S : x # y /\ f[x] = f[y]
BY FS_PigeonHole

(* Those with fewer than r elements before them are all, or r in number.   *)
LEMMA FirstComeFirstServed ==
  ASSUME NEW N, IsFiniteSet(N), NEW u \in [N -> Nat],
         \A p, q \in N : u[p] = u[q] => p = q,
         NEW B \in [N -> SUBSET N],
         \A p, q \in N : q \in B[p] <=> u[q] < u[p],
         NEW r \in Nat,
         NEW G \in SUBSET N,
         \A p \in N : p \in G <=> Cardinality(B[p]) < r
  PROVE  /\ IsFiniteSet(G) /\ Cardinality(G) \in Nat /\ Cardinality(G) <= r
         /\ G = N \/ Cardinality(G) = r
<1>1. IsFiniteSet(G) /\ Cardinality(G) \in Nat
  BY FS_Subset, FS_CardinalityType
<1>2. \A p \in N : IsFiniteSet(B[p]) /\ Cardinality(B[p]) \in Nat
  BY FS_Subset, FS_CardinalityType
<1>3. ASSUME NEW p \in N, NEW q \in N, u[p] < u[q]
      PROVE  Cardinality(B[p]) # Cardinality(B[q])
  <2>1. B[p] \in SUBSET B[q]
    <3> SUFFICES ASSUME NEW x \in B[p]
                 PROVE  x \in B[q]
      OBVIOUS
    <3>1. x \in N /\ u[x] < u[p] /\ u[x] \in Nat /\ u[p] \in Nat /\ u[q] \in Nat
      OBVIOUS
    <3> QED
      BY <1>3, <3>1
  <2>2. p \in B[q] /\ p \notin B[p]
    BY <1>3
  <2> QED
    BY <1>2, <2>1, <2>2, FS_Subset
<1>4. Cardinality(G) <= r
  <2> SUFFICES ASSUME r < Cardinality(G)
               PROVE  FALSE
    BY <1>1
  <2> DEFINE D == 0 .. r - 1
             c == [p \in G |-> Cardinality(B[p])]
  <2>1. c \in [G -> D]
    BY <1>2
  <2>2. IsFiniteSet(D) /\ Cardinality(D) < Cardinality(G)
    <3>1. IsFiniteSet(D) /\ Cardinality(D) = r
      BY FS_Interval
    <3> QED
      BY <3>1
  <2> HIDE DEF c, D
  <2>3. \E p, q \in G : p # q /\ c[p] = c[q]
    BY <1>1, <2>1, <2>2, TwiceTaken
  <2> PICK p \in G, q \in G : p # q /\ c[p] = c[q]
    BY <2>3
  <2>4. p \in N /\ q \in N /\ Cardinality(B[p]) = Cardinality(B[q])
    BY DEF c
  <2>5. u[p] < u[q] \/ u[q] < u[p]
    BY <2>4
  <2> QED
    BY <1>3, <2>4, <2>5
<1>5. ASSUME G # N
      PROVE  Cardinality(G) = r
  <2>1. N \ G # {} /\ N \ G \in SUBSET N
    BY <1>5
  <2>2. PICK p \in N \ G : \A q \in N \ G : u[p] <= u[q]
    BY <2>1, LowestRanked
  <2>3. ~(Cardinality(B[p]) < r) /\ Cardinality(B[p]) \in Nat
    BY <1>2, <2>2
  <2>4. B[p] \in SUBSET G
    BY <2>2
  <2>5. Cardinality(B[p]) <= Cardinality(G)
    BY <1>1, <2>4, FS_Subset
  <2> QED
    BY <1>1, <1>4, <2>3, <2>5
<1> QED
  BY <1>1, <1>4, <1>5

(* A path that a layout binds has a first use, and no two have the same.   *)
LEMMA FirstUseIs ==
  ASSUME NEW l \in Layout, NEW p \in Bound(l)
  PROVE  /\ FirstUse(l, p) \in 1 .. Len(Widgets[l])
         /\ Widgets[l][FirstUse(l, p)].path = p
<1> DEFINE T == {i \in DOMAIN Widgets[l] : Widgets[l][i].path = p}
           R == {ss \in Nat \X Nat : ss[1] < ss[2]}
<1>1. Widgets[l] \in Seq(Widget) /\ DOMAIN Widgets[l] = 1 .. Len(Widgets[l])
      /\ Len(Widgets[l]) \in Nat
  BY LayoutAssumption
<1>2. T \subseteq Nat /\ T # {}
  BY <1>1 DEF Bound
<1>3. IsWellFoundedOn(R, Nat)
  BY NatLessThanWellFounded DEF OpToRel
<1> HIDE DEF R
<1>4. PICK x \in T : \A y \in T : ~(<<y, x>> \in R)
  BY <1>2, <1>3, WFMin
<1>5. \A j \in 1 .. x - 1 : Widgets[l][j].path # p
  <2> SUFFICES ASSUME NEW j \in 1 .. x - 1, Widgets[l][j].path = p
               PROVE  FALSE
    OBVIOUS
  <2>1. j \in T /\ j \in Nat /\ x \in Nat /\ j < x
    BY <1>1
  <2>2. <<j, x>> \in R
    BY <2>1 DEF R
  <2> QED
    BY <1>4, <2>1, <2>2
<1>6. FirstUse(l, p) \in DOMAIN Widgets[l] /\ Widgets[l][FirstUse(l, p)].path = p
  BY <1>4, <1>5 DEF FirstUse
<1> QED
  BY <1>1, <1>6

(* Of a layout's new paths as many get a slot as there are left.           *)
LEMMA SlotsFilled ==
  ASSUME NEW l \in Layout, IsFiniteSet(subscribed), Cardinality(subscribed) \in Nat,
         Cardinality(subscribed) <= MaxSubs,
         NEW G, G = GetsSlot(registry, l)
  PROVE  /\ IsFiniteSet(G) /\ Cardinality(G) \in Nat
         /\ Cardinality(G) <= MaxSubs - Cardinality(subscribed)
         /\ G = NewPaths(registry, l) \/ Cardinality(G) = MaxSubs - Cardinality(subscribed)
<1> DEFINE N == NewPaths(registry, l)
           u == [p \in N |-> FirstUse(l, p)]
           B == [p \in N |-> {q \in N : FirstUse(l, q) < FirstUse(l, p)}]
           r == MaxSubs - Cardinality(subscribed)
<1>1. N \subseteq Bound(l)
  BY DEF NewPaths, Asked, Bound, Reached
<1>2. Len(Widgets[l]) \in Nat
  BY LayoutAssumption
<1>3. u \in [N -> 1 .. Len(Widgets[l])] /\ u \in [N -> Nat]
  BY <1>1, <1>2, FirstUseIs
<1>4. ASSUME NEW p \in N, NEW q \in N, u[p] = u[q]
      PROVE  p = q
  BY <1>1, <1>4, FirstUseIs
<1>5. IsFiniteSet(N)
  <2>1. u \in Injection(N, 1 .. Len(Widgets[l]))
    BY <1>3, <1>4 DEF Injection, IsInjective
  <2>2. IsFiniteSet(1 .. Len(Widgets[l]))
    BY <1>2, FS_Interval
  <2> HIDE DEF u, N
  <2> QED
    BY <2>1, <2>2, FS_Injection
<1>6. r \in Nat
  BY BoundAssumption
<1>7. \A p, q \in N : u[p] = u[q] => p = q
  BY <1>4
<1>8. /\ B \in [N -> SUBSET N] /\ G \in SUBSET N
      /\ \A p, q \in N : q \in B[p] <=> u[q] < u[p]
      /\ \A p \in N : p \in G <=> Cardinality(B[p]) < r
  <2>1. ASSUME NEW p \in N
        PROVE  B[p] = {q \in N : FirstUse(l, q) < FirstUse(l, p)}
    OBVIOUS
  <2>2. G \in SUBSET N /\ \A p \in N : p \in G <=> Cardinality(B[p]) < r
    BY <2>1 DEF GetsSlot
  <2>3. B \in [N -> SUBSET N] /\ \A p, q \in N : q \in B[p] <=> u[q] < u[p]
    OBVIOUS
  <2> QED
    BY <2>2, <2>3
<1>9. u \in [N -> Nat]
  BY <1>3
<1> HIDE DEF N, u, r, B
<1>10. /\ IsFiniteSet(G) /\ Cardinality(G) \in Nat /\ Cardinality(G) <= r
       /\ G = N \/ Cardinality(G) = r
  BY ONLY <1>5, <1>6, <1>7, <1>8, <1>9, FirstComeFirstServed
<1> QED
  BY <1>10 DEF N, r

(* The subscribed paths have a subject and fit the table; a subject goes   *)
(* without only if the table is full.                                      *)
Subjects == {p \in Path : registry[p] # None}

TableSound ==
  /\ IsFiniteSet(subscribed) /\ Cardinality(subscribed) \in Nat
  /\ Cardinality(subscribed) <= MaxSubs
  /\ subscribed \subseteq Subjects
  /\ subscribed = Subjects \/ Cardinality(subscribed) = MaxSubs

(* The paths of the layout on the panel have subjects, and between the     *)
(* swap and the write to the flash that layout is the one applied.         *)
Fed ==
  /\ TableSound
  /\ known_paths \subseteq Subjects
  /\ pc = "persist" => rendered = applying.layout

LEMMA TouchFeeds ==
  ASSUME TypeOK, TableSound, NEW l \in Layout, Touch(l)
  PROVE  TableSound' /\ Subjects \subseteq Subjects'
<1> DEFINE G == GetsSlot(registry, l)
<1>1. /\ IsFiniteSet(G) /\ Cardinality(G) \in Nat
      /\ Cardinality(G) <= MaxSubs - Cardinality(subscribed)
      /\ G = NewPaths(registry, l) \/ Cardinality(G) = MaxSubs - Cardinality(subscribed)
  BY SlotsFilled DEF TableSound
<1>2. subscribed' = subscribed \cup G /\ G \subseteq NewPaths(registry, l)
  BY DEF Touch, GetsSlot
<1>3. Subjects' = Subjects \cup NewPaths(registry, l)
  <2>1. \A p \in Path : registry'[p] # None <=> registry[p] # None \/ p \in NewPaths(registry, l)
    <3> SUFFICES ASSUME NEW p \in Path
                 PROVE  registry'[p] # None <=> registry[p] # None \/ p \in NewPaths(registry, l)
      OBVIOUS
    <3>1. Asked(registry, l, p) \subseteq Kind
      BY AskedType
    <3>2. registry'[p] = IF registry[p] # None \/ Asked(registry, l, p) = {} THEN registry[p]
                         ELSE CHOOSE k \in Asked(registry, l, p) : TRUE
      BY DEF Touch, Registered
    <3> QED
      BY <3>1, <3>2, NoneAssumption DEF NewPaths
  <2> QED
    BY <2>1 DEF Subjects, NewPaths
<1> HIDE DEF G
<1>4. subscribed \cap G = {}
  BY <1>2 DEF TableSound, Subjects, NewPaths
<1>5. /\ IsFiniteSet(subscribed')
      /\ Cardinality(subscribed') = Cardinality(subscribed) + Cardinality(G)
  <2>1. Cardinality(subscribed \cap G) = 0
    BY <1>4, FS_EmptySet
  <2>2. /\ IsFiniteSet(subscribed \cup G)
        /\ Cardinality(subscribed \cup G)
             = Cardinality(subscribed) + Cardinality(G) - Cardinality(subscribed \cap G)
    BY <1>1, FS_Union DEF TableSound
  <2> QED
    BY <1>1, <1>2, <2>1, <2>2 DEF TableSound
<1>6. Cardinality(subscribed') \in Nat /\ Cardinality(subscribed') <= MaxSubs
  BY <1>1, <1>5, BoundAssumption DEF TableSound
<1>7. subscribed' = Subjects' \/ Cardinality(subscribed') = MaxSubs
  <2>1. CASE Cardinality(subscribed) = MaxSubs
    BY <1>1, <1>5, <1>6, <2>1, BoundAssumption DEF TableSound
  <2>2. CASE subscribed = Subjects /\ G = NewPaths(registry, l)
    BY <1>2, <1>3, <2>2
  <2>3. CASE Cardinality(G) = MaxSubs - Cardinality(subscribed)
    BY <1>5, <2>3, BoundAssumption DEF TableSound
  <2> QED
    BY <1>1, <2>1, <2>2, <2>3 DEF TableSound
<1> QED
  BY <1>2, <1>3, <1>5, <1>6, <1>7 DEF TableSound

LEMMA SwapFeeds ==
  ASSUME TypeOK, TableSound, NEW l \in Layout, Swap(l)
  PROVE  /\ TableSound' /\ Subjects \subseteq Subjects'
         /\ Bound(l) \subseteq Subjects'
         /\ rendered' = l
<1>1. TableSound' /\ Subjects \subseteq Subjects'
  BY TouchFeeds DEF Swap
<1>2. ASSUME NEW i \in DOMAIN Widgets[l]
      PROVE  Widgets[l][i].path \in Subjects'
  <2>1. registry'[Widgets[l][i].path] = Widgets[l][i].kind
    BY BuildRegisters DEF Swap, Touch, TypeOK
  <2>2. Widgets[l][i].path \in Path /\ Widgets[l][i].kind # None
    BY WidgetType, NoneAssumption
  <2> QED
    BY <2>1, <2>2 DEF Subjects
<1> QED
  BY <1>1, <1>2 DEF Swap, Bound

LEMMA RejectFeeds ==
  ASSUME TypeOK, Fed, NEW l \in Layout, Reject(l), pc' # "persist"
  PROVE  Fed'
<1>1. CASE UNCHANGED <<registry, subscribed>>
  BY <1>1 DEF Reject, Fed, TableSound, Subjects
<1>2. CASE Touch(l)
  BY <1>2, TouchFeeds DEF Reject, Fed
<1> QED
  BY <1>1, <1>2 DEF Reject

LEMMA FedStep ==
  ASSUME TypeOK, Working, LiveKindsAgree, Fed, [Next]_vars
  PROVE  Fed'
<1>1. ASSUME NEW l \in Layout, NEW src, Accept(l, src), pc' = "idle"
      PROVE  Fed'
  BY <1>1, SwapFeeds DEF Accept, Finish, Fed
<1>2. CASE BootStore
  <2>1. store \in Layout
    BY <1>2 DEF BootStore, TypeOK
  <2> QED
    BY <1>1, <1>2, <2>1 DEF BootStore
<1>3. CASE BootStoreRejected
  <2>1. store \in Layout /\ Reject(store) /\ pc' # "persist"
    BY <1>3 DEF BootStoreRejected, TypeOK
  <2> QED
    BY <2>1, RejectFeeds
<1>4. CASE BootDefault
  BY <1>1, <1>4, RejectFeeds, LayoutAssumption DEF BootDefault
<1>5. CASE Build
  <2>1. applying.layout \in Layout
    BY <1>5 DEF Build, Working, Job
  <2>2. CASE Reject(applying.layout) /\ pc' = "idle"
    BY <2>1, <2>2, RejectFeeds
  <2>3. CASE Swap(applying.layout) /\ pc' = "persist" /\ UNCHANGED <<applying, known_paths>>
    BY <2>1, <2>3, SwapFeeds DEF Fed
  <2>4. CASE Swap(applying.layout) /\ pc' = "idle" /\ known_paths' = Bound(applying.layout)
    BY <2>1, <2>4, SwapFeeds DEF Fed
  <2> QED
    BY <1>5, <2>2, <2>3, <2>4 DEF Build, Finish
<1>6. CASE Persist
  <2>1. applying.layout \in Layout /\ rendered = applying.layout
    BY <1>6 DEF Persist, Working, Job, Fed
  <2>2. Bound(applying.layout) \subseteq Subjects
    <3> SUFFICES ASSUME NEW i \in DOMAIN Widgets[rendered]
                 PROVE  Widgets[rendered][i].path \in Subjects
      BY <2>1 DEF Bound
    <3>1. registry[Widgets[rendered][i].path] = Widgets[rendered][i].kind
      BY <2>1, NoneAssumption DEF LiveKindsAgree
    <3> QED
      BY <2>1, <3>1, WidgetType, NoneAssumption DEF Subjects
  <2>3. known_paths' = Bound(applying.layout) /\ pc' = "idle" /\ UNCHANGED <<registry, subscribed>>
    BY <1>6 DEF Persist, Finish
  <2> QED
    BY <2>2, <2>3 DEF Fed, TableSound, Subjects
<1>7. CASE Restart
  <2>1. subscribed' = {} /\ known_paths' = {} /\ pc' = "booting" /\ Subjects' = {}
    BY <1>7 DEF Restart, Subjects
  <2>2. TableSound'
    BY <2>1, FS_EmptySet, BoundAssumption DEF TableSound
  <2> QED
    BY <2>1, <2>2 DEF Fed
<1>8. CASE Take
  BY <1>8 DEF Take, Fed, TableSound, Subjects
<1>9. CASE UNCHANGED <<pc, applying, rendered, known_paths, registry, subscribed>>
  BY <1>9 DEF Fed, TableSound, Subjects
<1> QED
  BY <1>2, <1>3, <1>4, <1>5, <1>6, <1>7, <1>8, <1>9 DEF Next, Push, Fetched, FirstConnect,
     FetchFails, Abandoned, vars, ram

(* PathsStaySubscribed: whatever the size of the table, and whatever was   *)
(* applied, rejected or half-built before, the table is never overrun, and *)
(* a path of the layout on the panel goes without a subscription only if   *)
(* the table is full (subject_registry.cpp, layout_manager.cpp).           *)
THEOREM PathsStaySubscribed == Spec => []UnfedOnlyIfFull
<1>1. Init => Fed
  <2> SUFFICES ASSUME Init
               PROVE  Fed
    OBVIOUS
  <2>1. subscribed = {} /\ known_paths = {} /\ pc = "booting" /\ Subjects = {}
    BY DEF Init, Subjects
  <2>2. TableSound
    BY <2>1, FS_EmptySet, BoundAssumption DEF TableSound
  <2> QED
    BY <2>1, <2>2 DEF Fed
<1>2. IInv /\ Fed /\ [Next]_vars => Fed'
  BY FedStep DEF IInv
<1>3. Fed => UnfedOnlyIfFull
  BY DEF Fed, TableSound, UnfedOnlyIfFull
<1> QED
  BY <1>1, <1>2, <1>3, Inductive, PTL DEF Spec

-----------------------------------------------------------------------------
(* SubjectFeed. *)

(* Of the elements of q that are in C the last one is in P; there is none. *)
LastIn(q, C, P) ==
  \A i \in 1 .. Len(q) :
    q[i] \in C /\ (\A j \in 1 .. Len(q) : j > i => q[j] \notin C) => q[i] \in P
NoneIn(q, C) == \A i \in 1 .. Len(q) : q[i] \notin C

LEMMA LastOfNone ==
  ASSUME NEW C, NEW P
  PROVE  LastIn(<<>>, C, P) /\ NoneIn(<<>>, C)
BY DEF LastIn, NoneIn

LEMMA LastAppended ==
  ASSUME NEW S, NEW q \in Seq(S), NEW e \in S, NEW C, NEW P, NEW r, r = Append(q, e)
  PROVE  /\ r \in Seq(S)
         /\ e \in C => ~NoneIn(r, C)
         /\ e \in C /\ e \in P => LastIn(r, C, P)
         /\ e \notin C => (NoneIn(r, C) <=> NoneIn(q, C))
         /\ e \notin C => (LastIn(r, C, P) <=> LastIn(q, C, P))
<1>1. /\ Len(q) \in Nat /\ Len(r) = Len(q) + 1 /\ r[Len(r)] = e
      /\ r \in Seq(S)
      /\ \A i \in 1 .. Len(q) : r[i] = q[i]
  OBVIOUS
<1>2. 1 .. Len(r) = (1 .. Len(q)) \cup {Len(r)} /\ \A i \in 1 .. Len(q) : i < Len(r)
  BY <1>1
<1>3. e \in C => ~NoneIn(r, C)
  BY <1>1, <1>2 DEF NoneIn
<1>4. e \in C /\ e \in P => LastIn(r, C, P)
  BY <1>1, <1>2 DEF LastIn
<1>5. e \notin C => (NoneIn(r, C) <=> NoneIn(q, C))
  BY <1>1, <1>2 DEF NoneIn
<1>6. ASSUME e \notin C, LastIn(r, C, P) PROVE LastIn(q, C, P)
  BY <1>1, <1>2, <1>6 DEF LastIn
<1>7. ASSUME e \notin C, LastIn(q, C, P) PROVE LastIn(r, C, P)
  <2> SUFFICES ASSUME NEW i \in 1 .. Len(r), r[i] \in C,
                      \A j \in 1 .. Len(r) : j > i => r[j] \notin C
               PROVE  r[i] \in P
    BY DEF LastIn
  <2>1. i \in 1 .. Len(q)
    BY <1>1, <1>2, <1>7
  <2>2. \A j \in 1 .. Len(q) : j > i => q[j] \notin C
    BY <1>1, <1>2
  <2> QED
    BY <1>1, <1>7, <2>1, <2>2 DEF LastIn
<1> QED
  BY <1>1, <1>3, <1>4, <1>5, <1>6, <1>7

LEMMA LastTaken ==
  ASSUME NEW S, NEW q \in Seq(S), q # <<>>, NEW C, NEW P, NEW r, r = Tail(q), NEW e, e = Head(q)
  PROVE  /\ r \in Seq(S) /\ e \in S
         /\ LastIn(q, C, P) => LastIn(r, C, P)
         /\ LastIn(q, C, P) /\ e \in C /\ NoneIn(r, C) => e \in P
         /\ e \notin C /\ NoneIn(r, C) => NoneIn(q, C)
<1>1. /\ Len(q) \in Nat \ {0} /\ Len(r) = Len(q) - 1 /\ e = q[1] /\ e \in S
      /\ r \in Seq(S)
      /\ \A i \in 1 .. Len(r) : r[i] = q[i + 1]
  OBVIOUS
<1>2. \A j \in 2 .. Len(q) : j - 1 \in 1 .. Len(r) /\ q[j] = r[j - 1]
  BY <1>1
<1>3. ASSUME LastIn(q, C, P) PROVE LastIn(r, C, P)
  <2> SUFFICES ASSUME NEW i \in 1 .. Len(r), r[i] \in C,
                      \A j \in 1 .. Len(r) : j > i => r[j] \notin C
               PROVE  r[i] \in P
    BY DEF LastIn
  <2>1. i + 1 \in 1 .. Len(q) /\ q[i + 1] = r[i]
    BY <1>1
  <2>2. ASSUME NEW j \in 1 .. Len(q), j > i + 1 PROVE q[j] \notin C
    <3>1. j - 1 \in 1 .. Len(r) /\ j - 1 > i /\ q[j] = r[j - 1]
      BY <1>1, <1>2, <2>2
    <3> QED
      BY <3>1
  <2>3. \A j \in 1 .. Len(q) : j > i + 1 => q[j] \notin C
    BY <2>2
  <2> QED
    BY <1>3, <2>1, <2>3 DEF LastIn
<1>4. ASSUME LastIn(q, C, P), e \in C, NoneIn(r, C) PROVE e \in P
  <2>1. ASSUME NEW j \in 1 .. Len(q), j > 1 PROVE q[j] \notin C
    <3>1. j - 1 \in 1 .. Len(r) /\ q[j] = r[j - 1]
      BY <1>1, <1>2, <2>1
    <3> QED
      BY <1>4, <3>1 DEF NoneIn
  <2> QED
    BY <1>1, <1>4, <2>1 DEF LastIn
<1>5. ASSUME e \notin C, NoneIn(r, C) PROVE NoneIn(q, C)
  BY <1>1, <1>2, <1>5 DEF NoneIn
<1> QED
  BY <1>1, <1>3, <1>4, <1>5

LEMMA LastOne ==
  ASSUME NEW S, NEW q \in Seq(S), q # <<>>, NEW C, NEW P, 
         LastIn(q, C, P), Head(q) \in C, NoneIn(Tail(q), C)
  PROVE Head(q) \in P
<1>1. /\ Len(q) \in Nat \ {0} /\ Len(Tail(q)) = Len(q) - 1 /\ Head(q) = q[1]
      /\ \A i \in 1 .. Len(Tail(q)) : Tail(q)[i] = q[i + 1]
  OBVIOUS
<1>2. ASSUME NEW j \in 1 .. Len(q), j > 1 PROVE q[j] \notin C
  <2>1. j - 1 \in 1 .. Len(Tail(q)) /\ q[j] = Tail(q)[j - 1]
    BY <1>1, <1>2
  <2> QED
    BY <2>1 DEF NoneIn
<1> QED
  BY <1>1, <1>2 DEF LastIn

(* Readings of a path, readings of a version; the lambdas that carry a     *)
(* reading of a path, and those that carry no other version of it.  A      *)
(* lambda carries one reading of a path.                                   *)
Of(p) == {r \in Readings : r.path = p}
At(v) == {r \in Readings : r.v = v}
Carrying(p) == {b \in SUBSET Readings : \E r \in b : r.path = p}
Showing(p, v) == {b \in SUBSET Readings : \A r \in b : r.path = p => r.v = v}
Batches == {b \in SUBSET Readings : \A r, s \in b : r.path = s.path => r = s}

(* What the stream carries is in order: the last of a path is the server's.*)
WireInOrder ==
  /\ ~up => wire = <<>>
  /\ \A p \in Paths : LastIn(wire, Of(p), At(value[p]))

(* Lambdas and fetch tasks have one reading of a path.                     *)
OneReading ==
  /\ ui \in Seq(Batches)
  /\ \A t \in Tasks : /\ fetches[t].got \in Batches
                      /\ \A r \in fetches[t].got : r.path \notin fetches[t].todo

(* Nothing is under way to a path before a layout binds it, and the task   *)
(* of a bind or of the first connect is spawned once.                      *)
NothingUnbound ==
  /\ \A p \in Paths \ bound :
       /\ subject[p] = 0
       /\ NoneIn(wire, Of(p)) /\ NoneIn(ui, Carrying(p))
       /\ fetches[p] = Free
       /\ ~SeedInHand(p) /\ \A t \in Tasks : p \notin fetches[t].todo
  /\ ~bootDone => fetches[Boot] = Free

(* A seed in hand has the server's reading, unless that changed since.     *)
SeedsInHand ==
  \A p \in Paths \ overtaken : \A t \in Tasks : \A r \in fetches[t].got :
    r.path = p => r.v = value[p]

(* The last lambda of the path has the server's reading; the subject has   *)
(* it when there is none.                                                  *)
LambdasEndOn(p) ==
  /\ LastIn(ui, Carrying(p), Showing(p, value[p]))
  /\ NoneIn(ui, Carrying(p)) => subject[p] \in {0, value[p]}

(* FeedSettles while readings are under way: the last of them is right.    *)
TruthComes ==
  \A p \in bound \ (missed \cup overtaken) :
    SeedInHand(p) \/ ~NoneIn(wire, Of(p)) \/ LambdasEndOn(p)

FeedIInv ==
  /\ FeedTypeOK
  /\ \A p \in Paths : value[p] \in 1 .. changes + 1
  /\ WireInOrder /\ OneReading /\ NothingUnbound /\ SeedsInHand /\ TruthComes

FetchType == [busy : BOOLEAN, todo : SUBSET Paths, got : SUBSET Readings]

LEMMA FeedInitially == FeedInit => FeedIInv
<1> SUFFICES ASSUME FeedInit
             PROVE  FeedIInv
  OBVIOUS
<1> USE DEF FeedInit
<1>1. /\ value \in [Paths -> Versions] /\ subject \in [Paths -> Versions]
      /\ \A p \in Paths : value[p] = 1 /\ subject[p] = 0
  BY BoundsAssumption DEF Versions
<1>2. Free \in FetchType /\ Free.got = {} /\ Free.todo = {}
  BY DEF Free, FetchType
<1>3. fetches \in [Tasks -> FetchType] /\ \A t \in Tasks : fetches[t] = Free
  BY <1>2
<1>4. /\ wire = <<>> /\ ui = <<>> /\ wire \in Seq(Readings)
      /\ ui \in Seq(SUBSET Readings) /\ ui \in Seq(Batches)
  <2>1. \A S : <<>> \in Seq(S)
    OBVIOUS
  <2> QED
    BY <2>1
<1>5. FeedTypeOK
  <2>1. {net, known, up, bootDone} \subseteq BOOLEAN
    OBVIOUS
  <2>2. {bound, missed, overtaken} \subseteq SUBSET Paths
    OBVIOUS
  <2>3. changes \in 0 .. MaxChanges /\ outages \in 0 .. MaxOutages
    BY BoundsAssumption
  <2> QED
    BY <1>1, <1>3, <1>4, <2>1, <2>2, <2>3 DEF FeedTypeOK, FetchType
<1>6. \A p \in Paths : value[p] \in 1 .. changes + 1
  BY <1>1
<1>7. WireInOrder
  BY <1>4, LastOfNone DEF WireInOrder
<1>8. OneReading
  <2>1. {} \in Batches
    BY DEF Batches
  <2> QED
    BY <1>2, <1>3, <1>4, <2>1 DEF OneReading
<1>9. \A p \in Paths : ~SeedInHand(p)
  BY <1>2, <1>3 DEF SeedInHand
<1>10. NothingUnbound
  <2>1. \A p \in Paths : NoneIn(wire, Of(p)) /\ NoneIn(ui, Carrying(p))
    BY <1>4, LastOfNone
  <2>2. Paths \subseteq Tasks /\ Boot \in Tasks
    BY DEF Tasks
  <2> QED
    BY <1>1, <1>2, <1>3, <1>9, <2>1, <2>2 DEF NothingUnbound
<1>11. SeedsInHand
  BY <1>2, <1>3 DEF SeedsInHand
<1>12. TruthComes
  BY DEF TruthComes
<1> QED
  BY <1>5, <1>6, <1>7, <1>8, <1>10, <1>11, <1>12 DEF FeedIInv

(* What each part of the invariant is about: a step that leaves it alone.  *)
LEMMA FeedFrame ==
  ASSUME FeedIInv
  PROVE  /\ UNCHANGED <<up, wire, value>> => WireInOrder'
         /\ UNCHANGED <<ui, fetches>> => OneReading'
         /\ UNCHANGED <<bound, subject, wire, ui, fetches, bootDone>> => NothingUnbound'
         /\ UNCHANGED <<overtaken, fetches, value>> => SeedsInHand'
         /\ UNCHANGED <<bound, missed, overtaken, fetches, wire, ui, subject, value>> => TruthComes'
<1> USE DEF FeedIInv
<1>1. UNCHANGED <<up, wire, value>> => WireInOrder'
  BY DEF WireInOrder
<1>2. UNCHANGED <<ui, fetches>> => OneReading'
  BY DEF OneReading
<1>3. UNCHANGED <<bound, subject, wire, ui, fetches, bootDone>> => NothingUnbound'
  BY DEF NothingUnbound, SeedInHand
<1>4. UNCHANGED <<overtaken, fetches, value>> => SeedsInHand'
  BY DEF SeedsInHand
<1>5. UNCHANGED <<bound, missed, overtaken, fetches, wire, ui, subject, value>> => TruthComes'
  BY DEF TruthComes, SeedInHand, LambdasEndOn
<1> QED
  BY <1>1, <1>2, <1>3, <1>4, <1>5

LEMMA SelectKeeps == FeedIInv /\ Select => FeedIInv'
<1> SUFFICES ASSUME FeedIInv, Select
             PROVE  FeedIInv'
  OBVIOUS
<1>1. /\ UNCHANGED <<value, changes, outages, net, up, bootDone, bound, wire, ui, fetches,
                     subject, missed, overtaken>>
      /\ known' = TRUE
  BY DEF Select, serverVars
<1>2. FeedTypeOK' /\ (\A p \in Paths : value[p] \in 1 .. changes + 1)'
  BY <1>1 DEF FeedIInv, FeedTypeOK
<1> QED
  BY <1>1, <1>2, FeedFrame DEF FeedIInv

LEMMA NetBackKeeps == FeedIInv /\ NetBack => FeedIInv'
<1> SUFFICES ASSUME FeedIInv, NetBack
             PROVE  FeedIInv'
  OBVIOUS
<1>1. /\ UNCHANGED <<value, changes, outages, known, up, bootDone, bound, wire, ui, fetches,
                     subject, missed, overtaken>>
      /\ net' = TRUE
  BY DEF NetBack, serverVars
<1>2. FeedTypeOK' /\ (\A p \in Paths : value[p] \in 1 .. changes + 1)'
  BY <1>1 DEF FeedIInv, FeedTypeOK
<1> QED
  BY <1>1, <1>2, FeedFrame DEF FeedIInv

(* A fetch task is spawned on a task that is free, with nothing in hand.   *)
LEMMA Spawned ==
  ASSUME FeedTypeOK, NEW t \in Tasks, NEW paths \in SUBSET Paths, fetches[t] = Free,
         Spawn(t, paths)
  PROVE  /\ fetches' \in [Tasks -> FetchType]
         /\ \A u \in Tasks : /\ fetches'[u].got = fetches[u].got
                             /\ fetches'[u].todo \subseteq fetches[u].todo \cup paths
                             /\ u # t => fetches'[u] = fetches[u]
         /\ fetches'[t].got = {}
<1>1. fetches \in [Tasks -> FetchType]
  BY DEF FeedTypeOK, FetchType
<1>2. fetches[t].got = {} /\ fetches[t].todo = {}
  BY DEF Free
<1> DEFINE New == IF paths = {} THEN fetches[t]
                  ELSE [busy |-> TRUE, todo |-> paths, got |-> {}]
<1>3. New \in FetchType /\ New.got = {} /\ New.todo \subseteq paths
  BY <1>1, <1>2 DEF FetchType
<1>4. fetches' = [fetches EXCEPT ![t] = New]
  BY DEF Spawn
<1>5. fetches' \in [Tasks -> FetchType] /\ fetches'[t] = New
  <2> HIDE DEF New
  <2> QED
    BY <1>1, <1>3, <1>4
<1>6. \A u \in Tasks \ {t} : fetches'[u] = fetches[u]
  <2> HIDE DEF New
  <2> QED
    BY <1>1, <1>4
<1> HIDE DEF New
<1> QED
  BY <1>2, <1>3, <1>5, <1>6

LEMMA StreamUpKeeps == FeedIInv /\ StreamUp => FeedIInv'
<1> SUFFICES ASSUME FeedIInv, StreamUp
             PROVE  FeedIInv'
  OBVIOUS
<1>1. /\ UNCHANGED <<value, changes, outages, net, known, bound, wire, ui, subject, missed,
                     overtaken>>
      /\ up' = TRUE /\ bootDone' = TRUE
  BY DEF StreamUp, serverVars
<1>2. Boot \in Tasks /\ Paths \subseteq Tasks /\ Boot \notin Paths
  BY PathsAssumption DEF Tasks
<1>3. /\ fetches' \in [Tasks -> FetchType]
      /\ \A u \in Tasks : /\ fetches'[u].got = fetches[u].got
                          /\ fetches'[u].todo \subseteq fetches[u].todo \cup bound
                          /\ fetches[u].got = {} \/ fetches'[u] = fetches[u]
                          /\ u # Boot => fetches'[u] = fetches[u]
  <2>1. CASE bootDone
    BY <2>1 DEF StreamUp, FeedIInv, FeedTypeOK, FetchType
  <2>2. CASE ~bootDone
    <3>1. fetches[Boot] = Free /\ Free.got = {}
      BY <2>2 DEF FeedIInv, NothingUnbound, Free
    <3>2. bound \in SUBSET Paths /\ FeedTypeOK
      BY DEF FeedIInv, FeedTypeOK
    <3> QED
      BY <1>2, <2>2, <3>1, <3>2, Spawned DEF StreamUp
  <2> QED
    BY <2>1, <2>2
<1>4. FeedTypeOK' /\ (\A p \in Paths : value[p] \in 1 .. changes + 1)'
  BY <1>1, <1>3 DEF FeedIInv, FeedTypeOK, FetchType
<1>5. WireInOrder'
  BY <1>1 DEF FeedIInv, WireInOrder
<1>6. OneReading'
  BY <1>1, <1>3 DEF FeedIInv, OneReading
<1>7. \A p \in Paths : SeedInHand(p)' <=> SeedInHand(p)
  BY <1>3 DEF SeedInHand
<1>8. NothingUnbound'
  <2> SUFFICES ASSUME NEW p \in Paths \ bound
               PROVE  /\ fetches'[p] = Free
                      /\ ~SeedInHand(p)' /\ \A t \in Tasks : p \notin fetches'[t].todo
    BY <1>1 DEF FeedIInv, NothingUnbound
  <2> QED
    BY <1>2, <1>3, <1>7 DEF FeedIInv, NothingUnbound
<1>9. SeedsInHand'
  BY <1>1, <1>3 DEF FeedIInv, SeedsInHand
<1>10. TruthComes'
  BY <1>1, <1>7 DEF FeedIInv, TruthComes, LambdasEndOn, FeedTypeOK
<1> QED
  BY <1>4, <1>5, <1>6, <1>8, <1>9, <1>10 DEF FeedIInv

LEMMA BindKeeps ==
  ASSUME FeedIInv, NEW b \in Paths, Bind(b)
  PROVE  FeedIInv'
<1>1. /\ UNCHANGED <<value, changes, outages, net, known, up, bootDone, wire, ui, subject,
                     missed, overtaken>>
      /\ b \notin bound /\ bound' = bound \cup {b}
  BY DEF Bind, serverVars, linkVars
<1>2. b \in Tasks /\ Paths \subseteq Tasks /\ Boot \notin Paths /\ Boot \in Tasks /\ b # Boot
  BY PathsAssumption DEF Tasks
<1>3. /\ fetches' \in [Tasks -> FetchType]
      /\ \A u \in Tasks : /\ fetches'[u].got = fetches[u].got
                          /\ fetches'[u].todo \subseteq fetches[u].todo \cup {b}
                          /\ fetches[u].got = {} \/ fetches'[u] = fetches[u]
                          /\ u # b => fetches'[u] = fetches[u]
  <2>1. CASE ~known
    BY <2>1 DEF Bind, FeedIInv, FeedTypeOK, FetchType
  <2>2. CASE known
    <3>1. fetches[b] = Free /\ Free.got = {}
      BY <1>1 DEF FeedIInv, NothingUnbound, Free
    <3>2. {b} \in SUBSET Paths /\ FeedTypeOK /\ Spawn(b, {b})
      BY <2>2 DEF FeedIInv, FeedTypeOK, Bind
    <3> QED
      BY <1>2, <3>1, <3>2, Spawned
  <2> QED
    BY <2>1, <2>2
<1>4. FeedTypeOK' /\ (\A p \in Paths : value[p] \in 1 .. changes + 1)'
  BY <1>1, <1>3 DEF FeedIInv, FeedTypeOK, FetchType
<1>5. WireInOrder'
  BY <1>1, FeedFrame
<1>6. OneReading'
  BY <1>1, <1>3 DEF FeedIInv, OneReading
<1>7. \A p \in Paths : SeedInHand(p)' <=> SeedInHand(p)
  BY <1>3 DEF SeedInHand
<1>8. NothingUnbound'
  <2>1. ASSUME NEW p \in Paths \ bound'
        PROVE  /\ fetches'[p] = Free
               /\ ~SeedInHand(p)' /\ \A t \in Tasks : p \notin fetches'[t].todo
    BY <1>1, <1>2, <1>3, <1>7 DEF FeedIInv, NothingUnbound
  <2>2. ~bootDone' => fetches'[Boot] = Free
    BY <1>1, <1>2, <1>3 DEF FeedIInv, NothingUnbound
  <2> QED
    BY <1>1, <2>1, <2>2 DEF FeedIInv, NothingUnbound
<1>9. SeedsInHand'
  BY <1>1, <1>3 DEF FeedIInv, SeedsInHand
<1>10. TruthComes'
  <2> SUFFICES ASSUME NEW p \in bound' \ (missed \cup overtaken)
               PROVE  SeedInHand(p)' \/ ~NoneIn(wire, Of(p)) \/ LambdasEndOn(p)
    BY <1>1 DEF TruthComes, LambdasEndOn
  <2>1. CASE p # b
    BY <1>1, <1>7, <2>1 DEF FeedIInv, TruthComes, FeedTypeOK
  <2>2. CASE p = b
    BY <1>1, <2>2 DEF FeedIInv, NothingUnbound, LambdasEndOn, NoneIn, LastIn
  <2> QED
    BY <2>1, <2>2
<1> QED
  BY <1>4, <1>5, <1>6, <1>8, <1>9, <1>10 DEF FeedIInv

LEMMA ChangeKeeps ==
  ASSUME FeedIInv, NEW c \in Paths, Change(c)
  PROVE  FeedIInv'
<1> DEFINE e == [path |-> c, v |-> value'[c]]
<1>1. /\ UNCHANGED <<outages, net, known, up, bootDone, bound, ui, fetches, subject>>
      /\ changes < MaxChanges /\ changes' = changes + 1
      /\ value' = [value EXCEPT ![c] = value[c] + 1]
      /\ wire' = IF up /\ c \in bound THEN Append(wire, e) ELSE wire
      /\ missed' = IF up THEN missed \ {c} ELSE missed \cup ({c} \cap bound)
      /\ overtaken' = IF SeedInHand(c) THEN overtaken \cup {c} ELSE overtaken \ {c}
  BY DEF Change, linkVars
<1>2. /\ value'[c] = value[c] + 1 /\ value[c] \in 1 .. changes + 1 /\ changes \in Nat
      /\ \A p \in Paths \ {c} : value'[p] = value[p]
      /\ value \in [Paths -> Versions]
  BY <1>1, BoundsAssumption DEF FeedIInv, FeedTypeOK, Versions
<1>3. /\ value' \in [Paths -> Versions] /\ changes' \in 0 .. MaxChanges
      /\ value'[c] \in 1 .. changes' + 1 /\ value'[c] \in Versions
  BY <1>1, <1>2, BoundsAssumption DEF Versions
<1>4. \A p \in Paths : value'[p] \in 1 .. changes' + 1
  <2> SUFFICES ASSUME NEW p \in Paths, p # c
               PROVE  value'[p] \in 1 .. changes' + 1
    BY <1>3
  <2>1. value'[p] = value[p] /\ value[p] \in 1 .. changes + 1
    BY <1>2 DEF FeedIInv
  <2> QED
    BY <1>1, <1>2, <2>1
<1>5. /\ e \in Readings /\ e \in Of(c) /\ e \in At(value'[c])
      /\ \A p \in Paths \ {c} : e \notin Of(p)
  BY <1>3 DEF Readings, Of, At
<1> HIDE DEF e
<1>6. wire \in Seq(Readings) /\ (~up => wire = <<>>)
  BY DEF FeedIInv, FeedTypeOK, WireInOrder
<1>7. wire' \in Seq(Readings)
  BY <1>1, <1>5, <1>6, LastAppended
<1>8. FeedTypeOK'
  BY <1>1, <1>3, <1>7 DEF FeedIInv, FeedTypeOK
<1>9. /\ ~up => wire' = <<>>
      /\ up /\ c \in bound => ~NoneIn(wire', Of(c)) /\ LastIn(wire', Of(c), At(value'[c]))
  <2>1. ~NoneIn(Append(wire, e), Of(c)) /\ LastIn(Append(wire, e), Of(c), At(value'[c]))
    BY <1>5, <1>6, LastAppended
  <2> QED
    BY <1>1, <1>6, <2>1
<1>10. ~up \/ c \notin bound => NoneIn(wire', Of(c))
  <2>1. ~up => NoneIn(wire, Of(c))
    BY <1>6, LastOfNone
  <2> QED
    BY <1>1, <2>1 DEF FeedIInv, NothingUnbound
<1>11. \A p \in Paths \ {c} :
         /\ NoneIn(wire', Of(p)) <=> NoneIn(wire, Of(p))
         /\ LastIn(wire', Of(p), At(value'[p]))
  <2> SUFFICES ASSUME NEW p \in Paths \ {c}
               PROVE  /\ NoneIn(wire', Of(p)) <=> NoneIn(wire, Of(p))
                      /\ LastIn(wire', Of(p), At(value'[p]))
    OBVIOUS
  <2>1. LastIn(wire, Of(p), At(value'[p])) /\ e \notin Of(p)
    BY <1>2, <1>5 DEF FeedIInv, WireInOrder
  <2> QED
    BY <1>1, <1>5, <1>6, <2>1, LastAppended
<1>12. WireInOrder'
  <2>1. LastIn(wire', Of(c), At(value'[c]))
    BY <1>9, <1>10 DEF NoneIn, LastIn
  <2> QED
    BY <1>1, <1>9, <1>11, <2>1 DEF WireInOrder
<1>13. OneReading'
  BY <1>1, FeedFrame
<1>14. \A p \in Paths : SeedInHand(p)' <=> SeedInHand(p)
  BY <1>1 DEF SeedInHand
<1>15. NothingUnbound'
  <2>1. \A p \in Paths \ bound : NoneIn(wire', Of(p))
    BY <1>10, <1>11 DEF FeedIInv, NothingUnbound
  <2> QED
    BY <1>1, <1>14, <2>1 DEF FeedIInv, NothingUnbound
<1>16. SeedsInHand'
  <2> SUFFICES ASSUME NEW p \in Paths \ overtaken', NEW t \in Tasks,
                      NEW r \in fetches[t].got, r.path = p
               PROVE  r.v = value'[p]
    BY <1>1 DEF SeedsInHand
  <2>1. SeedInHand(p)
    BY DEF SeedInHand
  <2>2. p # c /\ p \notin overtaken
    BY <1>1, <2>1
  <2> QED
    BY <1>2, <2>2 DEF FeedIInv, SeedsInHand
<1>17. TruthComes'
  <2> SUFFICES ASSUME NEW p \in bound \ (missed' \cup overtaken')
               PROVE  SeedInHand(p)' \/ ~NoneIn(wire', Of(p)) \/ LambdasEndOn(p)'
    BY <1>1 DEF TruthComes
  <2>0. p \in Paths
    BY DEF FeedIInv, FeedTypeOK
  <2>1. CASE p = c
    BY <1>1, <1>9, <2>1
  <2>2. CASE p # c
    <3>1. p \notin missed \cup overtaken
      BY <1>1, <2>2
    <3>2. LambdasEndOn(p) => LambdasEndOn(p)'
      BY <1>1, <1>2, <2>0, <2>2 DEF LambdasEndOn
    <3> QED
      BY <1>11, <1>14, <2>0, <2>2, <3>1, <3>2 DEF FeedIInv, TruthComes
  <2> QED
    BY <2>1, <2>2
<1> QED
  BY <1>4, <1>8, <1>12, <1>13, <1>15, <1>16, <1>17 DEF FeedIInv

LEMMA StreamDownKeeps == FeedIInv /\ StreamDown => FeedIInv'
<1> SUFFICES ASSUME FeedIInv, StreamDown
             PROVE  FeedIInv'
  OBVIOUS
<1>1. /\ UNCHANGED <<value, changes, known, bootDone, bound, ui, fetches, subject, overtaken>>
      /\ outages < MaxOutages /\ outages' = outages + 1
      /\ net' = FALSE /\ up' = FALSE /\ wire' = <<>>
      /\ missed' = missed \cup {wire[i].path : i \in DOMAIN wire}
  BY DEF StreamDown, serverVars
<1>2. wire \in Seq(Readings) /\ DOMAIN wire = 1 .. Len(wire)
      /\ \A i \in 1 .. Len(wire) : wire[i] \in Readings
  BY DEF FeedIInv, FeedTypeOK
<1>3. missed' \subseteq Paths
  BY <1>1, <1>2 DEF FeedIInv, FeedTypeOK, Readings
<1>4. wire' \in Seq(Readings)
  <2>1. <<>> \in Seq(Readings)
    OBVIOUS
  <2> QED
    BY <1>1, <2>1
<1>5. FeedTypeOK' /\ (\A p \in Paths : value[p] \in 1 .. changes + 1)'
  <2>1. outages' \in 0 .. MaxOutages
    BY <1>1, BoundsAssumption DEF FeedIInv, FeedTypeOK
  <2> QED
    BY <1>1, <1>3, <1>4, <2>1 DEF FeedIInv, FeedTypeOK
<1>6. WireInOrder'
  BY <1>1, LastOfNone DEF WireInOrder
<1>7. OneReading' /\ SeedsInHand'
  BY <1>1, FeedFrame
<1>8. \A p \in Paths : SeedInHand(p)' <=> SeedInHand(p)
  BY <1>1 DEF SeedInHand
<1>9. NothingUnbound'
  BY <1>1, <1>8, LastOfNone DEF FeedIInv, NothingUnbound
<1>10. TruthComes'
  <2> SUFFICES ASSUME NEW p \in bound \ (missed' \cup overtaken)
               PROVE  SeedInHand(p)' \/ LambdasEndOn(p)'
    BY <1>1 DEF TruthComes
  <2>1. p \in Paths /\ p \notin missed
    BY <1>1 DEF FeedIInv, FeedTypeOK
  <2>2. NoneIn(wire, Of(p))
    BY <1>1, <1>2 DEF NoneIn, Of
  <2> QED
    BY <1>1, <1>8, <2>1, <2>2 DEF FeedIInv, TruthComes, LambdasEndOn
<1> QED
  BY <1>5, <1>6, <1>7, <1>9, <1>10 DEF FeedIInv

LEMMA DeliverKeeps == FeedIInv /\ Deliver => FeedIInv'
<1> SUFFICES ASSUME FeedIInv, Deliver
             PROVE  FeedIInv'
  OBVIOUS
<1> DEFINE e == Head(wire)
<1>1. /\ UNCHANGED <<value, changes, outages, net, known, up, bootDone, bound, fetches,
                     subject, missed, overtaken>>
      /\ wire # <<>> /\ ui' = Append(ui, {e}) /\ wire' = Tail(wire)
  BY DEF Deliver, serverVars, linkVars
<1>2. wire \in Seq(Readings) /\ ui \in Seq(Batches) /\ ui \in Seq(SUBSET Readings)
  BY DEF FeedIInv, FeedTypeOK, OneReading
<1>3. wire' \in Seq(Readings) /\ e \in Readings
  BY <1>1, <1>2, LastTaken
<1> HIDE DEF e
<1>4. {e} \in Batches /\ {e} \in SUBSET Readings
  BY <1>3 DEF Batches
<1>5. ui' \in Seq(Batches) /\ ui' \in Seq(SUBSET Readings)
  BY <1>1, <1>2, <1>4, LastAppended
<1>6. FeedTypeOK' /\ (\A p \in Paths : value[p] \in 1 .. changes + 1)'
  BY <1>1, <1>3, <1>5 DEF FeedIInv, FeedTypeOK
<1>7. \A p \in Paths :
        /\ LastIn(wire, Of(p), At(value[p]))
        /\ LastIn(wire', Of(p), At(value[p]))
        /\ e \in Of(p) /\ NoneIn(wire', Of(p)) => e \in At(value[p])
        /\ e \notin Of(p) /\ NoneIn(wire', Of(p)) => NoneIn(wire, Of(p))
        /\ NoneIn(wire, Of(p)) => NoneIn(wire', Of(p)) /\ e \notin Of(p)
  <2> SUFFICES ASSUME NEW p \in Paths
               PROVE  /\ LastIn(wire, Of(p), At(value[p]))
                      /\ LastIn(wire', Of(p), At(value[p]))
                      /\ e \in Of(p) /\ NoneIn(wire', Of(p)) => e \in At(value[p])
                      /\ e \notin Of(p) /\ NoneIn(wire', Of(p)) => NoneIn(wire, Of(p))
                      /\ NoneIn(wire, Of(p)) => NoneIn(wire', Of(p)) /\ e \notin Of(p)
    OBVIOUS
  <2>1. LastIn(wire, Of(p), At(value[p]))
    BY DEF FeedIInv, WireInOrder
  <2>2. NoneIn(wire, Of(p)) => NoneIn(wire', Of(p)) /\ e \notin Of(p)
    <3>1. /\ e = wire[1] /\ 1 \in 1 .. Len(wire)
          /\ \A i \in 1 .. Len(wire') : wire'[i] = wire[i + 1] /\ i + 1 \in 1 .. Len(wire)
      BY <1>1, <1>2 DEF e
    <3> QED
      BY <3>1 DEF NoneIn
  <2> QED
    BY <1>1, <1>2, <2>1, <2>2, LastTaken DEF e
<1>8. \A p \in Paths :
        /\ {e} \in Carrying(p) <=> e \in Of(p)
        /\ e \in Of(p) /\ e \in At(value[p]) => {e} \in Showing(p, value[p])
  BY <1>3 DEF Carrying, Showing, Of, At
<1>9. \A p \in Paths :
        /\ {e} \in Carrying(p) => ~NoneIn(ui', Carrying(p))
        /\ {e} \in Carrying(p) /\ {e} \in Showing(p, value[p])
             => LastIn(ui', Carrying(p), Showing(p, value[p]))
        /\ {e} \notin Carrying(p) => (NoneIn(ui', Carrying(p)) <=> NoneIn(ui, Carrying(p)))
        /\ {e} \notin Carrying(p) => (LastIn(ui', Carrying(p), Showing(p, value[p]))
                                       <=> LastIn(ui, Carrying(p), Showing(p, value[p])))
  BY <1>1, <1>2, <1>4, LastAppended
<1>10. WireInOrder'
  <2>1. up
    BY <1>1 DEF FeedIInv, WireInOrder
  <2> QED
    BY <1>1, <1>7, <2>1 DEF WireInOrder
<1>11. OneReading'
  BY <1>1, <1>5 DEF FeedIInv, OneReading
<1>12. SeedsInHand' /\ \A p \in Paths : SeedInHand(p)' <=> SeedInHand(p)
  BY <1>1, FeedFrame DEF SeedInHand
<1>13. NothingUnbound'
  BY <1>1, <1>7, <1>8, <1>9, <1>12 DEF FeedIInv, NothingUnbound
<1>14. TruthComes'
  <2> SUFFICES ASSUME NEW p \in bound \ (missed \cup overtaken), NoneIn(wire', Of(p)),
                      ~SeedInHand(p)
               PROVE  LambdasEndOn(p)'
    BY <1>1, <1>12 DEF TruthComes, FeedIInv, FeedTypeOK
  <2>0. p \in Paths
    BY DEF FeedIInv, FeedTypeOK
  <2>1. CASE e \in Of(p)
    BY <1>1, <1>7, <1>8, <1>9, <2>0, <2>1 DEF LambdasEndOn
  <2>2. CASE e \notin Of(p)
    <3>1. LambdasEndOn(p)
      BY <1>7, <2>0, <2>2 DEF FeedIInv, TruthComes
    <3> QED
      BY <1>1, <1>8, <1>9, <2>0, <2>2, <3>1 DEF LambdasEndOn
  <2> QED
    BY <2>1, <2>2
<1> QED
  BY <1>6, <1>10, <1>11, <1>12, <1>13, <1>14 DEF FeedIInv

LEMMA GetKeeps ==
  ASSUME FeedIInv, NEW t \in Tasks, NEW g \in Paths, Get(t, g)
  PROVE  FeedIInv'
<1> DEFINE r == [path |-> g, v |-> value[g]]
           New == [fetches[t] EXCEPT !.todo = @ \ {g}, !.got = IF net THEN @ \cup {r} ELSE @]
<1>1. /\ UNCHANGED <<value, changes, outages, net, known, up, bootDone, bound, wire, ui,
                     subject, overtaken>>
      /\ g \in fetches[t].todo
      /\ fetches' = [fetches EXCEPT ![t] = New]
      /\ missed' = IF net THEN missed \ {g} ELSE missed \cup {g}
  BY DEF Get, serverVars, linkVars
<1>2. fetches \in [Tasks -> FetchType] /\ value \in [Paths -> Versions]
  BY DEF FeedIInv, FeedTypeOK, FetchType
<1>3. r \in Readings /\ r.path = g /\ r.v = value[g]
  BY <1>2 DEF Readings
<1>4. New \in FetchType /\ New.todo = fetches[t].todo \ {g}
      /\ New.got = IF net THEN fetches[t].got \cup {r} ELSE fetches[t].got
  <2> HIDE DEF r
  <2>1. fetches[t] \in FetchType
    BY <1>2
  <2> QED
    BY <1>3, <2>1 DEF FetchType
<1> HIDE DEF New, r
<1>5. fetches' \in [Tasks -> FetchType] /\ fetches'[t] = New
      /\ \A u \in Tasks \ {t} : fetches'[u] = fetches[u]
  BY <1>1, <1>2, <1>4
<1>6. g \in bound /\ fetches[t] # Free
  BY <1>1 DEF FeedIInv, NothingUnbound, Free
<1>7. FeedTypeOK' /\ (\A p \in Paths : value[p] \in 1 .. changes + 1)'
  BY <1>1, <1>5 DEF FeedIInv, FeedTypeOK, FetchType
<1>8. WireInOrder'
  BY <1>1, FeedFrame
<1>9. OneReading'
  <2>1. \A s \in fetches[t].got : s.path # g
    BY <1>1 DEF FeedIInv, OneReading
  <2>2. New.got \in Batches
    BY <1>3, <1>4, <2>1 DEF FeedIInv, OneReading, Batches
  <2>3. \A s \in New.got : s.path \notin New.todo
    BY <1>3, <1>4, <2>1 DEF FeedIInv, OneReading
  <2> QED
    BY <1>1, <1>5, <2>2, <2>3 DEF FeedIInv, OneReading
<1>10. \A p \in Paths : SeedInHand(p)' <=> SeedInHand(p) \/ (net /\ p = g)
  <2>1. ASSUME NEW p \in Paths, SeedInHand(p)
        PROVE  SeedInHand(p)'
    BY <1>4, <1>5, <2>1 DEF SeedInHand
  <2>2. ASSUME NEW p \in Paths, SeedInHand(p)'
        PROVE  SeedInHand(p) \/ (net /\ p = g)
    BY <1>3, <1>4, <1>5, <2>2 DEF SeedInHand
  <2>3. ASSUME net
        PROVE  SeedInHand(g)'
    BY <1>3, <1>4, <1>5, <2>3 DEF SeedInHand
  <2> QED
    BY <2>1, <2>2, <2>3
<1>11. NothingUnbound'
  <2>1. \A u \in Tasks : fetches[u] = Free => u # t
    BY <1>6
  <2>2. \A u \in Tasks : fetches'[u].todo \subseteq fetches[u].todo
    BY <1>4, <1>5
  <2>3. Paths \subseteq Tasks /\ Boot \in Tasks
    BY DEF Tasks
  <2> QED
    BY <1>1, <1>5, <1>6, <1>10, <2>1, <2>2, <2>3 DEF FeedIInv, NothingUnbound
<1>12. SeedsInHand'
  <2> SUFFICES ASSUME NEW p \in Paths \ overtaken, NEW u \in Tasks,
                      NEW s \in fetches'[u].got, s.path = p
               PROVE  s.v = value[p]
    BY <1>1 DEF SeedsInHand
  <2>1. s \in fetches[u].got \/ s = r
    BY <1>4, <1>5
  <2> QED
    BY <1>3, <2>1 DEF FeedIInv, SeedsInHand
<1>13. TruthComes'
  <2> SUFFICES ASSUME NEW p \in bound \ (missed' \cup overtaken)
               PROVE  SeedInHand(p)' \/ ~NoneIn(wire, Of(p)) \/ LambdasEndOn(p)
    BY <1>1 DEF TruthComes, LambdasEndOn
  <2>1. p \in Paths
    BY DEF FeedIInv, FeedTypeOK
  <2>2. CASE p = g
    BY <1>1, <1>10, <2>1, <2>2
  <2>3. CASE p # g
    BY <1>1, <1>10, <2>1, <2>3 DEF FeedIInv, TruthComes
  <2> QED
    BY <2>2, <2>3
<1> QED
  BY <1>7, <1>8, <1>9, <1>11, <1>12, <1>13 DEF FeedIInv

LEMMA PostSeedsKeeps ==
  ASSUME FeedIInv, NEW t \in Tasks, PostSeeds(t)
  PROVE  FeedIInv'
<1> DEFINE b == fetches[t].got
<1>1. /\ UNCHANGED <<value, changes, outages, net, known, up, bootDone, bound, wire,
                     subject, missed, overtaken>>
      /\ fetches[t].busy
      /\ ui' = Append(ui, b) /\ fetches' = [fetches EXCEPT ![t] = Free]
  BY DEF PostSeeds, serverVars, linkVars
<1>2. /\ fetches \in [Tasks -> FetchType] /\ b \in Batches /\ b \in SUBSET Readings
      /\ ui \in Seq(Batches) /\ ui \in Seq(SUBSET Readings)
  BY DEF FeedIInv, FeedTypeOK, FetchType, OneReading
<1>3. Free \in FetchType /\ Free.got = {} /\ Free.todo = {} /\ Free.busy = FALSE
  BY DEF Free, FetchType
<1>4. fetches' \in [Tasks -> FetchType] /\ fetches'[t] = Free
      /\ \A u \in Tasks \ {t} : fetches'[u] = fetches[u]
  BY <1>1, <1>2, <1>3
<1>5. ui' \in Seq(Batches) /\ ui' \in Seq(SUBSET Readings)
  <2> HIDE DEF b
  <2> QED
    BY <1>1, <1>2, LastAppended
<1>6. \A p \in Paths :
        /\ b \in Carrying(p) => ~NoneIn(ui', Carrying(p))
        /\ b \in Carrying(p) /\ b \in Showing(p, value[p])
             => LastIn(ui', Carrying(p), Showing(p, value[p]))
        /\ b \notin Carrying(p) => (NoneIn(ui', Carrying(p)) <=> NoneIn(ui, Carrying(p)))
        /\ b \notin Carrying(p) => (LastIn(ui', Carrying(p), Showing(p, value[p]))
                                       <=> LastIn(ui, Carrying(p), Showing(p, value[p])))
  <2> HIDE DEF b
  <2> QED
    BY <1>1, <1>2, LastAppended
<1>7. FeedTypeOK' /\ (\A p \in Paths : value[p] \in 1 .. changes + 1)'
  BY <1>1, <1>4, <1>5 DEF FeedIInv, FeedTypeOK, FetchType
<1>8. WireInOrder'
  BY <1>1, FeedFrame
<1>9. OneReading'
  <2>1. {} \in Batches
    BY DEF Batches
  <2> QED
    BY <1>1, <1>3, <1>4, <1>5, <2>1 DEF FeedIInv, OneReading
<1>10. \A p \in Paths : /\ SeedInHand(p)' => SeedInHand(p)
                        /\ SeedInHand(p) => SeedInHand(p)' \/ b \in Carrying(p)
  <2>1. ASSUME NEW p \in Paths, SeedInHand(p)'
        PROVE  SeedInHand(p)
    BY <1>3, <1>4, <2>1 DEF SeedInHand
  <2>2. ASSUME NEW p \in Paths, SeedInHand(p)
        PROVE  SeedInHand(p)' \/ b \in Carrying(p)
    BY <1>2, <1>4, <2>2 DEF SeedInHand, Carrying
  <2> QED
    BY <2>1, <2>2
<1>11. NothingUnbound'
  <2>1. \A p \in Paths \ bound : b \notin Carrying(p)
    BY DEF FeedIInv, NothingUnbound, SeedInHand, Carrying
  <2>2. \A u \in Tasks : fetches[u] = Free => fetches'[u] = Free
    BY <1>4
  <2>3. \A u \in Tasks : fetches'[u].todo \subseteq fetches[u].todo
    BY <1>3, <1>4
  <2>4. Paths \subseteq Tasks /\ Boot \in Tasks
    BY DEF Tasks
  <2> HIDE DEF b
  <2> QED
    BY <1>1, <1>6, <1>10, <2>1, <2>2, <2>3, <2>4 DEF FeedIInv, NothingUnbound
<1>12. SeedsInHand'
  BY <1>1, <1>3, <1>4 DEF FeedIInv, SeedsInHand
<1>13. TruthComes'
  <2> SUFFICES ASSUME NEW p \in bound \ (missed \cup overtaken), NoneIn(wire, Of(p)),
                      ~SeedInHand(p)'
               PROVE  LambdasEndOn(p)'
    BY <1>1 DEF TruthComes
  <2>0. p \in Paths /\ p \notin overtaken
    BY DEF FeedIInv, FeedTypeOK
  <2>1. CASE b \in Carrying(p)
    <3>1. b \in Showing(p, value[p])
      BY <1>2, <2>0 DEF FeedIInv, SeedsInHand, Showing
    <3> HIDE DEF b
    <3> QED
      BY <1>1, <1>6, <2>0, <2>1, <3>1 DEF LambdasEndOn
  <2>2. CASE b \notin Carrying(p)
    <3> HIDE DEF b
    <3>1. LambdasEndOn(p)
      BY <1>10, <2>0, <2>2 DEF FeedIInv, TruthComes
    <3> QED
      BY <1>1, <1>6, <2>0, <2>2, <3>1 DEF LambdasEndOn
  <2> QED
    BY <2>1, <2>2
<1> QED
  BY <1>7, <1>8, <1>9, <1>11, <1>12, <1>13 DEF FeedIInv

LEMMA RunUiKeeps == FeedIInv /\ RunUi => FeedIInv'
<1> SUFFICES ASSUME FeedIInv, RunUi
             PROVE  FeedIInv'
  OBVIOUS
<1> DEFINE b == Head(ui)
<1>1. /\ UNCHANGED <<value, changes, outages, net, known, up, bootDone, bound, wire, fetches,
                     missed, overtaken>>
      /\ ui # <<>> /\ ui' = Tail(ui)
      /\ subject' = [p \in Paths |->
           IF p \in bound /\ \E r \in b : r.path = p
           THEN (CHOOSE r \in b : r.path = p).v ELSE subject[p]]
  BY DEF RunUi, serverVars, linkVars
<1>2. ui \in Seq(Batches) /\ ui \in Seq(SUBSET Readings)
  BY DEF FeedIInv, FeedTypeOK, OneReading
<1>3. /\ ui' \in Seq(Batches) /\ b \in Batches
      /\ ui' \in Seq(SUBSET Readings) /\ b \in SUBSET Readings
      /\ b = Head(ui)
  BY <1>1, <1>2, LastTaken
<1>3a. ASSUME NEW C, NEW P
       PROVE  /\ LastIn(ui, C, P) => LastIn(ui', C, P)
              /\ LastIn(ui, C, P) /\ b \in C /\ NoneIn(ui', C) => b \in P
              /\ b \notin C /\ NoneIn(ui', C) => NoneIn(ui, C)
  <2>1. LastIn(ui, C, P) => LastIn(ui', C, P)
    BY <1>1, <1>2, LastTaken
  <2>2. LastIn(ui, C, P) /\ b \in C /\ NoneIn(ui', C) => b \in P
    BY <1>1, <1>2, LastOne
  <2>3. b \notin C /\ NoneIn(ui', C) => NoneIn(ui, C)
    BY <1>1, <1>2, LastTaken
  <2> QED
    BY <2>1, <2>2, <2>3
<1> HIDE DEF b
<1>4. \A p \in Paths :
        /\ b \in Carrying(p) => \E r \in b : /\ r.path = p
                                             /\ (CHOOSE s \in b : s.path = p) = r
                                             /\ r \in Readings
        /\ b \in Carrying(p) <=> \E r \in b : r.path = p
  BY <1>3 DEF Carrying, Batches
<1>5. subject' \in [Paths -> Versions]
  <2>1. ASSUME NEW p \in Paths, \E r \in b : r.path = p
        PROVE  (CHOOSE r \in b : r.path = p).v \in Versions
    BY <1>4, <2>1 DEF Readings
  <2> QED
    BY <1>1, <2>1 DEF FeedIInv, FeedTypeOK
<1>6. FeedTypeOK' /\ (\A p \in Paths : value[p] \in 1 .. changes + 1)'
  BY <1>1, <1>3, <1>5 DEF FeedIInv, FeedTypeOK
<1>7. WireInOrder' /\ SeedsInHand'
  BY <1>1, FeedFrame
<1>8. OneReading'
  BY <1>1, <1>3 DEF FeedIInv, OneReading
<1>9. \A p \in Paths : SeedInHand(p)' <=> SeedInHand(p)
  BY <1>1 DEF SeedInHand
<1>10. NothingUnbound'
  <2>1. ASSUME NEW p \in Paths, NoneIn(ui, Carrying(p))
        PROVE  b \notin Carrying(p) /\ NoneIn(ui', Carrying(p))
    <3>1. /\ b = ui[1] /\ 1 \in 1 .. Len(ui)
          /\ \A i \in 1 .. Len(ui') : ui'[i] = ui[i + 1] /\ i + 1 \in 1 .. Len(ui)
      BY <1>1, <1>2 DEF b
    <3> QED
      BY <2>1, <3>1 DEF NoneIn
  <2>2. \A p \in Paths : b \notin Carrying(p) => subject'[p] = subject[p]
    BY <1>1, <1>4
  <2> QED
    BY <1>1, <1>9, <2>1, <2>2 DEF FeedIInv, NothingUnbound
<1>11. TruthComes'
  <2> SUFFICES ASSUME NEW p \in bound \ (missed \cup overtaken), NoneIn(wire, Of(p)),
                      ~SeedInHand(p)
               PROVE  LambdasEndOn(p)'
    BY <1>1, <1>9 DEF TruthComes, FeedIInv, FeedTypeOK
  <2>0. p \in Paths /\ LambdasEndOn(p)
    BY DEF FeedIInv, FeedTypeOK, TruthComes
  <2>1. LastIn(ui, Carrying(p), Showing(p, value[p]))
    BY <2>0 DEF LambdasEndOn
  <2>2. /\ LastIn(ui', Carrying(p), Showing(p, value[p]))
        /\ b \in Carrying(p) /\ NoneIn(ui', Carrying(p)) => b \in Showing(p, value[p])
        /\ b \notin Carrying(p) /\ NoneIn(ui', Carrying(p)) => NoneIn(ui, Carrying(p))
    BY <1>3a, <2>1
  <2>3. ASSUME NoneIn(ui', Carrying(p))
        PROVE  subject'[p] \in {0, value[p]}
    <3>1. CASE b \in Carrying(p)
      <4>1. PICK r \in b : r.path = p /\ (CHOOSE s \in b : s.path = p) = r
        BY <1>4, <2>0, <3>1
      <4>2. subject'[p] = r.v
        BY <1>1, <2>0, <4>1
      <4>3. r.v = value[p]
        BY <2>2, <2>3, <3>1, <4>1 DEF Showing
      <4> QED
        BY <4>2, <4>3
    <3>2. CASE b \notin Carrying(p)
      BY <1>1, <1>4, <2>0, <2>2, <2>3, <3>2 DEF LambdasEndOn
    <3> QED
      BY <3>1, <3>2
  <2> QED
    BY <1>1, <2>2, <2>3 DEF LambdasEndOn
<1> QED
  BY <1>6, <1>7, <1>8, <1>10, <1>11 DEF FeedIInv

LEMMA FeedStutterKeeps == FeedIInv /\ UNCHANGED feedVars => FeedIInv'
<1> SUFFICES ASSUME FeedIInv, UNCHANGED feedVars
             PROVE  FeedIInv'
  OBVIOUS
<1>1. UNCHANGED <<value, changes, outages, net, known, up, bootDone, bound, wire, ui, fetches,
                  subject, missed, overtaken>>
  BY DEF feedVars, serverVars, linkVars
<1>2. FeedTypeOK' /\ (\A p \in Paths : value[p] \in 1 .. changes + 1)'
  BY <1>1 DEF FeedIInv, FeedTypeOK
<1> QED
  BY <1>1, <1>2, FeedFrame DEF FeedIInv

LEMMA FeedStep == FeedIInv /\ [FeedNext]_feedVars => FeedIInv'
<1> SUFFICES ASSUME FeedIInv, [FeedNext]_feedVars
             PROVE  FeedIInv'
  OBVIOUS
<1>1. ASSUME NEW p \in Lively, Change(p)
      PROVE  FeedIInv'
  BY <1>1, PathsAssumption, ChangeKeeps
<1>2. ASSUME NEW p \in Paths, Bind(p)
      PROVE  FeedIInv'
  BY <1>2, BindKeeps
<1>3. ASSUME NEW t \in Tasks, PostSeeds(t)
      PROVE  FeedIInv'
  BY <1>3, PostSeedsKeeps
<1>4. ASSUME NEW t \in Tasks, NEW p \in Paths, Get(t, p)
      PROVE  FeedIInv'
  BY <1>4, GetKeeps
<1> QED
  BY <1>1, <1>2, <1>3, <1>4, SelectKeeps, StreamUpKeeps, StreamDownKeeps, NetBackKeeps,
     DeliverKeeps, RunUiKeeps, FeedStutterKeeps
  DEF FeedNext, Fetching

(* Nothing under way to a path leaves the subject with the last reading.   *)
LEMMA FeedImplies == FeedIInv => FeedInv
<1> SUFFICES ASSUME FeedIInv,
                    NEW p \in bound \ (missed \cup overtaken), subject[p] # 0, AtRest(p)
             PROVE  subject[p] = value[p]
  BY DEF FeedIInv, FeedInv, FeedSettles
<1>1. p \in Paths
  BY DEF FeedIInv, FeedTypeOK
<1>2. ~SeedInHand(p)
  BY DEF AtRest, SeedInHand
<1>3. NoneIn(wire, Of(p))
  BY DEF AtRest, NoneIn, Of, FeedIInv, FeedTypeOK
<1>4. NoneIn(ui, Carrying(p))
  BY DEF AtRest, NoneIn, Carrying, FeedIInv, FeedTypeOK
<1> QED
  BY <1>1, <1>2, <1>3, <1>4 DEF FeedIInv, TruthComes, LambdasEndOn

(* A bound subject whose last change or seed was not missed or overtaken   *)
(* has the server's reading whenever nothing is under way to it, in        *)
(* whatever order binds, seeds, deltas and reconnects came.                *)
THEOREM FeedSafe == FeedSpec => []FeedInv
BY FeedInitially, FeedStep, FeedImplies, PTL DEF FeedSpec

-----------------------------------------------------------------------------
(* WakeDiscovery. *)

(* What makes WakeAnswered inductive: the task that is about to set the    *)
(* wake host has an answer, from a server it remembers.                    *)
WakeIInv == WakeTypeOK /\ WakeAnswered /\ (at = "switch" => from \in answered)

LEMMA WakeInitially == WakeInit => WakeIInv
<1> SUFFICES ASSUME WakeInit
             PROVE  WakeIInv
  OBVIOUS
<1>1. {selected, s_discovered_for, srv, wake, from} \subseteq Servers \cup {NoServer}
  BY DEF WakeInit
<1>2. {stream, s_running, crossed, spoiled} \subseteq BOOLEAN
  BY DEF WakeInit
<1>3. ready \subseteq Servers /\ answered \subseteq Servers /\ selects \in 0 .. MaxSelects
  BY ServersAssumption DEF WakeInit
<1>4. at = "none" /\ ~s_running /\ wake = NoServer
  BY DEF WakeInit
<1> QED
  BY <1>1, <1>2, <1>3, <1>4 DEF WakeIInv, WakeTypeOK, WakeAnswered

LEMMA WakeStep == WakeIInv /\ [WakeNext]_wakeVars => WakeIInv'
<1> SUFFICES ASSUME WakeIInv, [WakeNext]_wakeVars
             PROVE  WakeIInv'
  OBVIOUS
<1> USE ServersAssumption DEF WakeIInv, WakeTypeOK, WakeAnswered
<1>1. ASSUME NEW s \in Servers, Reselect(s)
      PROVE  WakeIInv'
  <2>1. selects \in Nat /\ selects < MaxSelects /\ selects' = selects + 1
    BY <1>1 DEF Reselect
  <2>2. selects' \in 0 .. MaxSelects
    BY <2>1
  <2>3. UNCHANGED taskVars /\ UNCHANGED ready /\ selected' \in Servers /\ stream' = FALSE
    BY <1>1 DEF Reselect
  <2> QED
    BY <2>2, <2>3 DEF taskVars
<1>2. ASSUME NEW s \in Servers, ServiceChanges(s)
      PROVE  WakeIInv'
  <2>1. selects \in Nat /\ selects < MaxSelects /\ selects' = selects + 1
    BY <1>2 DEF ServiceChanges
  <2>2. selects' \in 0 .. MaxSelects
    BY <2>1
  <2>3. ready' \subseteq Servers
    BY <1>2 DEF ServiceChanges
  <2>4. UNCHANGED <<selected, stream, s_discovered_for, s_running, at, srv, wake, answered,
                    from, crossed, spoiled>>
    BY <1>2 DEF ServiceChanges, taskVars
  <2> QED
    BY <2>2, <2>3, <2>4
<1>3. CASE Disconnect
  <2>1. selects \in Nat /\ selects < MaxSelects /\ selects' = selects + 1
    BY <1>3 DEF Disconnect
  <2>2. selects' \in 0 .. MaxSelects
    BY <2>1
  <2>3. stream' = FALSE
    BY <1>3 DEF Disconnect
  <2>4. UNCHANGED <<selected, ready, s_discovered_for, s_running, at, srv, wake, answered,
                    from, crossed, spoiled>>
    BY <1>3 DEF Disconnect, taskVars
  <2> QED
    BY <2>2, <2>3, <2>4
<1>4. CASE Connect
  BY <1>4 DEF Connect
<1>5. CASE TakeServer
  BY <1>5 DEF TakeServer
<1>6. CASE FetchStatus
  BY <1>6 DEF FetchStatus
<1>7. CASE SetWake
  BY <1>7 DEF SetWake
<1>8. CASE EndTask
  BY <1>8 DEF EndTask
<1>9. CASE UNCHANGED wakeVars
  BY <1>9 DEF wakeVars
<1> QED
  BY <1>1, <1>2, <1>3, <1>4, <1>5, <1>6, <1>7, <1>8, <1>9 DEF WakeNext, DiscoverTask

(* The wake host is always a server that said it is ready, unless another  *)
(* server answered for it (discover_task of wake_discover.cpp).            *)
THEOREM WakeSafe == WakeSpec => []WakeInv
<1>1. WakeIInv => WakeInv
  BY DEF WakeIInv, WakeInv
<1> QED
  BY <1>1, WakeInitially, WakeStep, PTL DEF WakeSpec

-----------------------------------------------------------------------------
(* A behaviour of the run is of one of the two, or of the layouts.         *)

LEMMA WakeStutterKeeps == WakeIInv /\ UNCHANGED wakeVars => WakeIInv'
BY WakeStep

LEMMA LayoutsOfTheNet == NetSpec => Spec
<1>1. NetInit => Init
  BY DEF NetInit
<1>2. [NetNext]_netVars => [Next]_vars
  BY DEF NetNext, netVars
<1> QED
  BY <1>1, <1>2, PTL DEF NetSpec, Spec

(* In every state a subject at rest has the server's reading, unless that  *)
(* was missed or overtaken, and the wake host is a server that has         *)
(* answered (zone_fetch.cpp with the stream, wake_discover.cpp); and the   *)
(* layouts keep a persisted push, kinds that agree and, until the table is *)
(* full, their subscriptions (layout_manager.cpp, subject_registry.cpp).   *)
THEOREM NetSafe == NetSpec => [](NetInv /\ KeptPush /\ LiveKindsAgree /\ UnfedOnlyIfFull)
<1> DEFINE BothIInv == FeedIInv /\ WakeIInv
<1>1. NetInit => BothIInv
  BY FeedInitially, WakeInitially DEF NetInit
<1>2. BothIInv /\ [NetNext]_netVars => BothIInv'
  BY FeedStep, WakeStep, FeedStutterKeeps, WakeStutterKeeps DEF NetNext, netVars
<1>3. BothIInv => NetInv
  BY FeedImplies DEF NetInv, WakeInv, WakeIInv
<1>4. NetSpec => []NetInv
  BY <1>1, <1>2, <1>3, PTL DEF NetSpec
<1>5. NetSpec => [](KeptPush /\ LiveKindsAgree /\ UnfedOnlyIfFull)
  BY LayoutsOfTheNet, PushKept, KindsAgree, PathsStaySubscribed, PTL
<1> QED
  BY <1>4, <1>5, PTL
=============================================================================
