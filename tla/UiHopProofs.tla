------------------------------ MODULE UiHopProofs ------------------------------
(***************************************************************************)
(* Proofs about UiHop for any number of requests: it implements            *)
(* PushService, at most one snapshot is ever under way, and the names of   *)
(* /hello enclose its screens.  Then about UiTimers, for any clients and   *)
(* periods: it implements TimerService.                                    *)
(***************************************************************************)
EXTENDS MCUiHop, FiniteSetTheorems, TLAPS

(* Which jobs exist, and where they can be. *)
Jobs ==
  /\ \A r \in Request : r > posts => kind[r] = None /\ hop[r] = "pending" /\ ~sem[r]
  /\ \A r \in Request : r <= posts => kind[r] # None
  /\ \A r \in queue : r <= posts
  /\ job <= posts /\ job \notin queue
  /\ \A r \in Request : sem[r] => r # job /\ r \notin queue

(* The one request the httpd task is in. *)
Handler ==
  /\ cur # Nobody <=> pc # "idle"
  /\ cur # Nobody => kind[cur] \in Asked /\ reply[cur] = None /\ cur <= posts
  /\ cur # Nobody /\ kind[cur] \in {"layout", "shot"} => hop[cur] # "abandoned"
  /\ pc = "grace" => kind[cur] = "layout" /\ hop[cur] = "running"
  /\ pc = "listed" => kind[cur] = "hello"

(* A push: unclaimed before it starts, with a result once it has finished, *)
(* and answered unless the handler is still in it.                         *)
Unclaimed(r) == hop[r] \in {"pending", "abandoned"} /\ result[r] = None
Over(r) == hop[r] = "abandoned" \/ (hop[r] = "running" /\ result[r] # None)

Pushes ==
  \A r \in Request : kind[r] = "layout" =>
    /\ Unclaimed(r) \/ hop[r] = "running"
    /\ reply[r] = None <=> r = cur
    /\ hop[r] = "pending" => r = cur
    /\ hop[r] = "running" /\ result[r] = None => r = job /\ phase \in {"work", "swapped"}
    /\ r \in queue => Unclaimed(r)
    /\ sem[r] => Over(r)
    /\ r = job => \/ phase = "start" /\ Unclaimed(r)
                  \/ phase \in {"work", "swapped"} /\ hop[r] = "running" /\ result[r] = None
                  \/ phase = "give" /\ Over(r)

(* New jobs have no result; the phases belong to their kinds. *)
Phases ==
  /\ \A r \in Request : r > posts => result[r] = None /\ reply[r] = None
  /\ job = Nobody => phase = "start"
  /\ job # Nobody /\ phase = "work" => kind[job] = "layout"
  /\ job # Nobody /\ phase = "swapped" => kind[job] \in {"layout", "fetch"}
  /\ job # Nobody /\ phase = "snapped" => kind[job] = "shot"

(* At most one snapshot, under the flag; a handler that still waits for    *)
(* one finds its hop pending until the lambda reports.                     *)
Flight ==
  /\ \A r, q \in Snapshots : r = q
  /\ Snapshots # {} => busy
  /\ cur # Nobody /\ kind[cur] = "shot" =>
       Snapshots \subseteq {cur} /\ (cur \in Snapshots => hop[cur] = "pending")

IInv == TypeOK /\ Jobs /\ Handler /\ Pushes /\ Phases /\ Flight

LEMMA NextPost ==
  ASSUME TypeOK, posts < MaxPosts PROVE posts + 1 \in Request
<1>1. posts \in 0 .. MaxPosts
  BY DEF TypeOK
<1>2. QED
  BY <1>1, MaxPostsAssumption DEF Request

LEMMA CurIsRequest ==
  ASSUME IInv, pc # "idle" PROVE cur \in Request /\ kind[cur] \in Asked
BY MaxPostsAssumption DEF IInv, TypeOK, Handler, Request, Nobody

(* A name is a layout's or none.                                           *)
LEMMA NamesRead ==
  ASSUME IInv PROVE NameRead \subseteq 0 .. MaxPosts \cup {None}
BY DEF IInv, TypeOK, NameRead

LEMMA InvAsk ==
  ASSUME IInv, NEW k \in Asked, Ask(k) PROVE IInv'
<1> USE DEF Ask, Post, httpdVars, layoutVars
<1>0. posts + 1 \in Request
  BY NextPost DEF IInv
<1>1. TypeOK'
  <2>1. held_name' \in 0 .. MaxPosts \cup {None}
    BY NamesRead DEF IInv, TypeOK
  <2> QED
    BY <2>1, MaxPostsAssumption, <1>0 DEF TypeOK, Request, Kind, Asked, IInv
<1>2. Jobs'
  BY MaxPostsAssumption, NoneAssumption, <1>0 DEF IInv, TypeOK, Jobs, Handler, Request, Nobody, Kind, Asked, HopState, Phases
<1>3. Handler'
  BY MaxPostsAssumption, NoneAssumption, <1>0 DEF IInv, TypeOK, Jobs, Handler, Pushes, Request, Nobody, Asked, HopState, Flight, Phases
<1>4. Pushes'
  BY MaxPostsAssumption, NoneAssumption, <1>0 DEF IInv, TypeOK, Jobs, Handler, Pushes, Phases, Unclaimed, Over, Request, Nobody, HopState, Asked
<1>5. Phases'
  BY MaxPostsAssumption, NoneAssumption, <1>0 DEF IInv, TypeOK, Jobs, Handler, Phases, Request, Nobody
<1>6. Flight'
  <2>1. Snapshots' \subseteq Snapshots \cup {posts + 1}
    BY <1>0 DEF IInv, TypeOK, Jobs, Phases, Snapshots, Request, Nobody
  <2>2. hop'[cur'] = "pending" /\ kind'[cur'] = k
    BY <1>0 DEF IInv, TypeOK, Jobs, Request
  <2>3. CASE k = "shot"
    <3>1. Snapshots = {} /\ busy'
      BY <2>3 DEF IInv, TypeOK, Flight
    <3>2. QED
      BY <2>1, <2>2, <3>1 DEF Flight
  <2>4. CASE k # "shot"
    <3>1. Snapshots' \subseteq Snapshots /\ busy' = busy
      BY <1>0, <2>4 DEF IInv, TypeOK, Jobs, Phases, Snapshots, Request, Nobody
    <3>2. QED
      BY <2>2, <2>4, <3>1 DEF IInv, Flight
  <2>5. QED
    BY <2>3, <2>4
<1> QED
  BY <1>1, <1>2, <1>3, <1>4, <1>5, <1>6 DEF IInv

LEMMA InvAskWhileBusy ==
  ASSUME IInv, AskWhileBusy PROVE IInv'
<1> USE DEF AskWhileBusy, httpdVars, layoutVars
<1>0. posts + 1 \in Request
  BY NextPost DEF IInv
<1>1. TypeOK'
  BY MaxPostsAssumption, NoneAssumption, <1>0 DEF TypeOK, Request, Nobody, Kind, Asked, Answer, HopState, IInv
<1>2. Jobs'
  BY MaxPostsAssumption, NoneAssumption, <1>0 DEF IInv, TypeOK, Jobs, Handler, Request, Nobody, Kind, Asked, HopState, Phases
<1>3. Handler'
  BY MaxPostsAssumption, NoneAssumption, <1>0 DEF IInv, TypeOK, Jobs, Handler, Pushes, Request, Nobody, Asked, HopState, Flight, Phases
<1>4. Pushes'
  BY MaxPostsAssumption, NoneAssumption, <1>0 DEF IInv, TypeOK, Jobs, Handler, Pushes, Phases, Unclaimed, Over, Request, Nobody, HopState, Asked
<1>5. Phases'
  BY MaxPostsAssumption, NoneAssumption, <1>0 DEF IInv, TypeOK, Jobs, Handler, Phases, Request, Nobody
<1>6. Flight'
  <2>1. Snapshots' \subseteq Snapshots
    BY MaxPostsAssumption, NoneAssumption, <1>0 DEF IInv, TypeOK, Jobs, Phases, Snapshots, Request, Nobody, Asked
  <2>2. QED
    BY MaxPostsAssumption, NoneAssumption, <1>0, <2>1 DEF IInv, TypeOK, Jobs, Handler, Phases, Flight, Request, Nobody, Asked
<1> QED
  BY <1>1, <1>2, <1>3, <1>4, <1>5, <1>6 DEF IInv

LEMMA InvFetch ==
  ASSUME IInv, Fetch PROVE IInv'
<1> USE DEF Fetch, Post, httpdVars, layoutVars
<1>0. posts + 1 \in Request
  BY NextPost DEF IInv
<1>1. TypeOK'
  BY MaxPostsAssumption, NoneAssumption, <1>0 DEF TypeOK, Request, Nobody, Kind, Asked, Answer, HopState, IInv
<1>2. Jobs'
  BY MaxPostsAssumption, NoneAssumption, <1>0 DEF IInv, TypeOK, Jobs, Handler, Request, Nobody, Kind, Asked, HopState, Phases
<1>3. Handler'
  BY MaxPostsAssumption, NoneAssumption, <1>0 DEF IInv, TypeOK, Jobs, Handler, Pushes, Request, Nobody, Asked, HopState, Flight, Phases
<1>4. Pushes'
  BY MaxPostsAssumption, NoneAssumption, <1>0 DEF IInv, TypeOK, Jobs, Handler, Pushes, Phases, Unclaimed, Over, Request, Nobody, HopState, Asked
<1>5. Phases'
  BY MaxPostsAssumption, NoneAssumption, <1>0 DEF IInv, TypeOK, Jobs, Handler, Phases, Request, Nobody
<1>6. Flight'
  <2>1. Snapshots' \subseteq Snapshots
    BY MaxPostsAssumption, NoneAssumption, <1>0 DEF IInv, TypeOK, Jobs, Phases, Snapshots, Request, Nobody, Asked
  <2>2. QED
    BY MaxPostsAssumption, NoneAssumption, <1>0, <2>1 DEF IInv, TypeOK, Jobs, Handler, Phases, Flight, Request, Nobody, Asked
<1> QED
  BY <1>1, <1>2, <1>3, <1>4, <1>5, <1>6 DEF IInv

LEMMA InvTaken ==
  ASSUME IInv, Taken PROVE IInv'
<1> USE DEF Taken, Reply, ReleaseBusy, layoutVars
<1>1. TypeOK'
  <2>1. cur \in Request
    BY CurIsRequest
  <2>2. result[cur] \in Answer \cup {None} /\ "ok" \in Answer
    BY <2>1 DEF IInv, TypeOK, Answer
  <2>3. reply' \in [Request -> Answer \cup {None}]
    BY <2>1, <2>2 DEF IInv, TypeOK
  <2>4. cur' \in 0 .. MaxPosts /\ pc' \in {"idle", "listed"}
    BY MaxPostsAssumption DEF IInv, TypeOK, Nobody
  <2>5. busy' \in BOOLEAN
    BY DEF IInv, TypeOK
  <2>6. sem' \in [Request -> BOOLEAN]
    BY DEF IInv, TypeOK
  <2>7. QED
    BY <2>3, <2>4, <2>5, <2>6 DEF TypeOK, IInv
<1>2. Jobs'
  BY MaxPostsAssumption, NoneAssumption DEF IInv, TypeOK, Jobs, Handler, Request, Nobody, Kind, Asked, HopState, Phases
<1>3. Handler'
  BY MaxPostsAssumption, NoneAssumption DEF IInv, TypeOK, Jobs, Handler, Pushes, Request, Nobody, Asked, HopState, Flight, Phases
<1>4. Pushes'
  BY MaxPostsAssumption, NoneAssumption DEF IInv, TypeOK, Jobs, Handler, Pushes, Phases, Unclaimed, Over, Request, Nobody, HopState, Asked
<1>5. Phases'
  BY MaxPostsAssumption, NoneAssumption DEF IInv, TypeOK, Jobs, Handler, Phases, Request, Nobody
<1>6. Flight'
  <2>1. Snapshots' \subseteq Snapshots
    BY DEF Snapshots
  <2>2. kind[cur] = "shot" => Snapshots = {}
    <3>1. cur \in Request /\ cur # job /\ cur \notin queue
      BY CurIsRequest DEF IInv, Jobs
    <3>2. cur \notin Snapshots
      BY <3>1 DEF Snapshots
    <3>3. QED
      BY <3>1, <3>2 DEF IInv, Flight, Nobody, Request
  <2>3. busy' = busy \/ Snapshots = {}
    BY <2>2 DEF IInv, TypeOK
  <2>4. QED
    BY <2>1, <2>3 DEF IInv, Flight, Nobody
<1> QED
  BY <1>1, <1>2, <1>3, <1>4, <1>5, <1>6 DEF IInv

LEMMA InvNameListed ==
  ASSUME IInv, NameListed PROVE IInv'
<1> USE DEF NameListed, NameAgain, Reply, layoutVars
<1>1. TypeOK'
  <2>1. reply' \in [Request -> Answer \cup {None}]
    BY DEF IInv, TypeOK, Answer
  <2>2. late_name' \in 0 .. MaxPosts \cup {None}
    BY NamesRead
  <2> QED
    BY <2>1, <2>2, MaxPostsAssumption DEF TypeOK, Nobody, IInv
<1>2. Jobs'
  BY DEF IInv, Jobs
<1>3. Handler'
  BY DEF Handler, Nobody
<1>4. Pushes'
  BY DEF IInv, TypeOK, Handler, Pushes, Unclaimed, Over, Nobody, Request
<1>5. Phases'
  BY DEF IInv, TypeOK, Jobs, Handler, Phases, Nobody
<1>6. Flight'
  BY DEF IInv, Flight, Snapshots, Nobody
<1> QED
  BY <1>1, <1>2, <1>3, <1>4, <1>5, <1>6 DEF IInv

LEMMA InvTimeOut ==
  ASSUME IInv, TimeOut PROVE IInv'
<1> USE DEF TimeOut, layoutVars
<1>1. TypeOK'
  BY MaxPostsAssumption, NoneAssumption DEF TypeOK, Request, Nobody, Kind, Asked, Answer, HopState, IInv
<1>2. Jobs'
  BY MaxPostsAssumption, NoneAssumption DEF IInv, TypeOK, Jobs, Handler, Request, Nobody, Kind, Asked, HopState, Phases
<1>3. Handler'
  BY MaxPostsAssumption, NoneAssumption DEF IInv, TypeOK, Jobs, Handler, Pushes, Request, Nobody, Asked, HopState, Flight, Phases
<1>4. Pushes'
  BY MaxPostsAssumption, NoneAssumption DEF IInv, TypeOK, Jobs, Handler, Pushes, Phases, Unclaimed, Over, Request, Nobody, HopState, Asked
<1>5. Phases'
  BY MaxPostsAssumption, NoneAssumption DEF IInv, TypeOK, Jobs, Handler, Phases, Request, Nobody
<1>6. Flight'
  <2>1. Snapshots' \subseteq Snapshots
    BY MaxPostsAssumption, NoneAssumption DEF IInv, TypeOK, Jobs, Phases, Snapshots, Request, Nobody, Asked
  <2>2. QED
    BY MaxPostsAssumption, NoneAssumption, <2>1 DEF IInv, TypeOK, Jobs, Handler, Phases, Flight, Request, Nobody, Asked
<1> QED
  BY <1>1, <1>2, <1>3, <1>4, <1>5, <1>6 DEF IInv

LEMMA InvGiveUp ==
  ASSUME IInv, GiveUp PROVE IInv'
<1> USE DEF GiveUp, GiveUpLayout, GiveUpShot, GiveUpRest, NameAgain, MayAbandon, Abandon, HandOver, ReleaseBusy, Reply, layoutVars
<1>1. TypeOK'
  <2>1. reply' \in [Request -> Answer \cup {None}]
    BY DEF IInv, TypeOK, Answer
  <2>2. hop' \in [Request -> HopState]
    BY DEF IInv, TypeOK, HopState
  <2>3. busy' \in BOOLEAN
    BY DEF IInv, TypeOK
  <2>4. cur' \in 0 .. MaxPosts /\ pc' \in {"idle", "wait", "timed_out", "grace", "listed"}
    BY MaxPostsAssumption DEF IInv, TypeOK, Nobody
  <2>5. late_name' \in 0 .. MaxPosts \cup {None}
    BY NamesRead DEF IInv, TypeOK
  <2>6. QED
    BY <2>1, <2>2, <2>3, <2>4, <2>5 DEF TypeOK, IInv
<1>2. Jobs'
  BY MaxPostsAssumption, NoneAssumption DEF IInv, TypeOK, Jobs, Handler, Request, Nobody, Kind, Asked, HopState, Phases
<1>3. Handler'
  <2>1. cur \in Request /\ kind[cur] \in Asked
    BY CurIsRequest
  <2>2. CASE GiveUpLayout /\ ~MayAbandon(cur)
    <3>1. hop[cur] = "running"
      BY <2>1, <2>2 DEF IInv, TypeOK, Handler, Pushes, Unclaimed, Nobody
    <3>2. QED
      BY <2>1, <2>2, <3>1 DEF IInv, Handler, Nobody
  <2>3. CASE pc' = "idle" /\ cur' = Nobody
    BY <2>3 DEF Handler, Nobody
  <2>4. QED
    BY <2>2, <2>3
<1>4. Pushes'
  BY MaxPostsAssumption, NoneAssumption DEF IInv, TypeOK, Jobs, Handler, Pushes, Phases, Unclaimed, Over, Request, Nobody, HopState, Asked
<1>5. Phases'
  BY MaxPostsAssumption, NoneAssumption DEF IInv, TypeOK, Jobs, Handler, Phases, Request, Nobody
<1>6. Flight'
  <2>1. Snapshots' \subseteq Snapshots
    BY MaxPostsAssumption, NoneAssumption DEF IInv, TypeOK, Jobs, Phases, Snapshots, Request, Nobody, Asked
  <2>2. QED
    BY MaxPostsAssumption, NoneAssumption, <2>1 DEF IInv, TypeOK, Jobs, Handler, Phases, Flight, Request, Nobody, Asked
<1> QED
  BY <1>1, <1>2, <1>3, <1>4, <1>5, <1>6 DEF IInv

LEMMA InvGraceOver ==
  ASSUME IInv, GraceOver PROVE IInv'
<1> USE DEF GraceOver, Reply, layoutVars
<1>1. TypeOK'
  <2>1. reply' \in [Request -> Answer \cup {None}]
    BY DEF IInv, TypeOK, Answer
  <2>2. QED
    BY <2>1, MaxPostsAssumption DEF TypeOK, Nobody, IInv
<1>2. Jobs'
  BY MaxPostsAssumption, NoneAssumption DEF IInv, TypeOK, Jobs, Handler, Request, Nobody, Kind, Asked, HopState, Phases
<1>3. Handler'
  BY MaxPostsAssumption, NoneAssumption DEF IInv, TypeOK, Jobs, Handler, Pushes, Request, Nobody, Asked, HopState, Flight, Phases
<1>4. Pushes'
  BY MaxPostsAssumption, NoneAssumption DEF IInv, TypeOK, Jobs, Handler, Pushes, Phases, Unclaimed, Over, Request, Nobody, HopState, Asked
<1>5. Phases'
  BY MaxPostsAssumption, NoneAssumption DEF IInv, TypeOK, Jobs, Handler, Phases, Request, Nobody
<1>6. Flight'
  <2>1. Snapshots' \subseteq Snapshots
    BY MaxPostsAssumption, NoneAssumption DEF IInv, TypeOK, Jobs, Phases, Snapshots, Request, Nobody, Asked
  <2>2. QED
    BY MaxPostsAssumption, NoneAssumption, <2>1 DEF IInv, TypeOK, Jobs, Handler, Phases, Flight, Request, Nobody, Asked
<1> QED
  BY <1>1, <1>2, <1>3, <1>4, <1>5, <1>6 DEF IInv

LEMMA InvBegin ==
  ASSUME IInv, Begin PROVE IInv'
<1> USE DEF Begin, Front, httpdVars, layoutVars
<1>1. TypeOK'
  BY MaxPostsAssumption, NoneAssumption DEF TypeOK, Request, Nobody, Kind, Asked, Answer, HopState, IInv
<1>2. Jobs'
  BY MaxPostsAssumption, NoneAssumption DEF IInv, TypeOK, Jobs, Handler, Request, Nobody, Kind, Asked, HopState, Phases
<1>3. Handler'
  BY MaxPostsAssumption, NoneAssumption DEF IInv, TypeOK, Jobs, Handler, Pushes, Request, Nobody, Asked, HopState, Flight, Phases
<1>4. Pushes'
  BY MaxPostsAssumption, NoneAssumption DEF IInv, TypeOK, Jobs, Handler, Pushes, Phases, Unclaimed, Over, Request, Nobody, HopState, Asked
<1>5. Phases'
  BY MaxPostsAssumption, NoneAssumption DEF IInv, TypeOK, Jobs, Handler, Phases, Request, Nobody
<1>6. Flight'
  <2>1. Snapshots' \subseteq Snapshots
    BY MaxPostsAssumption, NoneAssumption DEF IInv, TypeOK, Jobs, Phases, Snapshots, Request, Nobody, Asked
  <2>2. QED
    BY MaxPostsAssumption, NoneAssumption, <2>1 DEF IInv, TypeOK, Jobs, Handler, Phases, Flight, Request, Nobody, Asked
<1> QED
  BY <1>1, <1>2, <1>3, <1>4, <1>5, <1>6 DEF IInv

LEMMA InvClaim ==
  ASSUME IInv, job # Nobody, Claim PROVE IInv'
<1> USE DEF Claim, MayClaim, httpdVars, layoutVars
<1>1. TypeOK'
  BY MaxPostsAssumption, NoneAssumption DEF TypeOK, Request, Nobody, Kind, Asked, Answer, HopState, IInv
<1>2. Jobs'
  BY MaxPostsAssumption, NoneAssumption DEF IInv, TypeOK, Jobs, Handler, Request, Nobody, Kind, Asked, HopState, Phases
<1>3. Handler'
  BY MaxPostsAssumption, NoneAssumption DEF IInv, TypeOK, Jobs, Handler, Pushes, Request, Nobody, Asked, HopState, Flight, Phases
<1>4. Pushes'
  BY MaxPostsAssumption, NoneAssumption DEF IInv, TypeOK, Jobs, Handler, Pushes, Phases, Unclaimed, Over, Request, Nobody, HopState, Asked
<1>5. Phases'
  BY MaxPostsAssumption, NoneAssumption DEF IInv, TypeOK, Jobs, Handler, Phases, Request, Nobody
<1>6. Flight'
  <2>1. Snapshots' \subseteq Snapshots
    BY MaxPostsAssumption, NoneAssumption DEF IInv, TypeOK, Jobs, Phases, Snapshots, Request, Nobody, Asked
  <2>2. QED
    BY MaxPostsAssumption, NoneAssumption, <2>1 DEF IInv, TypeOK, Jobs, Handler, Phases, Flight, Request, Nobody, Asked
<1> QED
  BY <1>1, <1>2, <1>3, <1>4, <1>5, <1>6 DEF IInv

LEMMA InvRefuse ==
  ASSUME IInv, Refuse PROVE IInv'
<1> USE DEF Refuse, Applying, httpdVars, layoutVars
<1>1. TypeOK'
  BY MaxPostsAssumption, NoneAssumption DEF TypeOK, Request, Nobody, Kind, Asked, Answer, HopState, IInv
<1>2. Jobs'
  BY MaxPostsAssumption, NoneAssumption DEF IInv, TypeOK, Jobs, Handler, Request, Nobody, Kind, Asked, HopState, Phases
<1>3. Handler'
  BY MaxPostsAssumption, NoneAssumption DEF IInv, TypeOK, Jobs, Handler, Pushes, Request, Nobody, Asked, HopState, Flight, Phases
<1>4. Pushes'
  BY MaxPostsAssumption, NoneAssumption DEF IInv, TypeOK, Jobs, Handler, Pushes, Phases, Unclaimed, Over, Request, Nobody, HopState, Asked
<1>5. Phases'
  BY MaxPostsAssumption, NoneAssumption DEF IInv, TypeOK, Jobs, Handler, Phases, Request, Nobody
<1>6. Flight'
  <2>1. Snapshots' \subseteq Snapshots
    BY MaxPostsAssumption, NoneAssumption DEF IInv, TypeOK, Jobs, Phases, Snapshots, Request, Nobody, Asked
  <2>2. QED
    BY MaxPostsAssumption, NoneAssumption, <2>1 DEF IInv, TypeOK, Jobs, Handler, Phases, Flight, Request, Nobody, Asked
<1> QED
  BY <1>1, <1>2, <1>3, <1>4, <1>5, <1>6 DEF IInv

LEMMA InvSwapIn ==
  ASSUME IInv, SwapIn PROVE IInv'
<1> USE DEF SwapIn, Applying, httpdVars
<1>1. TypeOK'
  BY MaxPostsAssumption, NoneAssumption DEF TypeOK, Request, Nobody, Kind, Asked, Answer, HopState, IInv
<1>2. Jobs'
  BY MaxPostsAssumption, NoneAssumption DEF IInv, TypeOK, Jobs, Handler, Request, Nobody, Kind, Asked, HopState, Phases
<1>3. Handler'
  BY MaxPostsAssumption, NoneAssumption DEF IInv, TypeOK, Jobs, Handler, Pushes, Request, Nobody, Asked, HopState, Flight, Phases
<1>4. Pushes'
  BY MaxPostsAssumption, NoneAssumption DEF IInv, TypeOK, Jobs, Handler, Pushes, Phases, Unclaimed, Over, Request, Nobody, HopState, Asked
<1>5. Phases'
  BY MaxPostsAssumption, NoneAssumption DEF IInv, TypeOK, Jobs, Handler, Phases, Request, Nobody
<1>6. Flight'
  <2>1. Snapshots' \subseteq Snapshots
    BY MaxPostsAssumption, NoneAssumption DEF IInv, TypeOK, Jobs, Phases, Snapshots, Request, Nobody, Asked
  <2>2. QED
    BY MaxPostsAssumption, NoneAssumption, <2>1 DEF IInv, TypeOK, Jobs, Handler, Phases, Flight, Request, Nobody, Asked
<1> QED
  BY <1>1, <1>2, <1>3, <1>4, <1>5, <1>6 DEF IInv

LEMMA InvSetName ==
  ASSUME IInv, job # Nobody, SetName PROVE IInv'
<1> USE DEF SetName, httpdVars
<1>1. TypeOK'
  BY MaxPostsAssumption, NoneAssumption DEF TypeOK, Request, Nobody, Kind, Asked, Answer, HopState, IInv
<1>2. Jobs'
  BY MaxPostsAssumption, NoneAssumption DEF IInv, TypeOK, Jobs, Handler, Request, Nobody, Kind, Asked, HopState, Phases
<1>3. Handler'
  BY MaxPostsAssumption, NoneAssumption DEF IInv, TypeOK, Jobs, Handler, Pushes, Request, Nobody, Asked, HopState, Flight, Phases
<1>4. Pushes'
  BY MaxPostsAssumption, NoneAssumption DEF IInv, TypeOK, Jobs, Handler, Pushes, Phases, Unclaimed, Over, Request, Nobody, HopState, Asked
<1>5. Phases'
  BY MaxPostsAssumption, NoneAssumption DEF IInv, TypeOK, Jobs, Handler, Phases, Request, Nobody
<1>6. Flight'
  <2>1. Snapshots' \subseteq Snapshots
    BY MaxPostsAssumption, NoneAssumption DEF IInv, TypeOK, Jobs, Phases, Snapshots, Request, Nobody, Asked
  <2>2. QED
    BY MaxPostsAssumption, NoneAssumption, <2>1 DEF IInv, TypeOK, Jobs, Handler, Phases, Flight, Request, Nobody, Asked
<1> QED
  BY <1>1, <1>2, <1>3, <1>4, <1>5, <1>6 DEF IInv

LEMMA InvSnap ==
  ASSUME IInv, job # Nobody, Snap PROVE IInv'
<1> USE DEF Snap, httpdVars, layoutVars
<1>1. TypeOK'
  BY MaxPostsAssumption, NoneAssumption DEF TypeOK, Request, Nobody, Kind, Asked, Answer, HopState, IInv
<1>2. Jobs'
  BY MaxPostsAssumption, NoneAssumption DEF IInv, TypeOK, Jobs, Handler, Request, Nobody, Kind, Asked, HopState, Phases
<1>3. Handler'
  BY MaxPostsAssumption, NoneAssumption DEF IInv, TypeOK, Jobs, Handler, Pushes, Request, Nobody, Asked, HopState, Flight, Phases
<1>4. Pushes'
  BY MaxPostsAssumption, NoneAssumption DEF IInv, TypeOK, Jobs, Handler, Pushes, Phases, Unclaimed, Over, Request, Nobody, HopState, Asked
<1>5. Phases'
  BY MaxPostsAssumption, NoneAssumption DEF IInv, TypeOK, Jobs, Handler, Phases, Request, Nobody
<1>6. Flight'
  <2>1. Snapshots' \subseteq Snapshots
    BY MaxPostsAssumption, NoneAssumption DEF IInv, TypeOK, Jobs, Phases, Snapshots, Request, Nobody, Asked
  <2>2. QED
    BY MaxPostsAssumption, NoneAssumption, <2>1 DEF IInv, TypeOK, Jobs, Handler, Phases, Flight, Request, Nobody, Asked
<1> QED
  BY <1>1, <1>2, <1>3, <1>4, <1>5, <1>6 DEF IInv

LEMMA InvReport ==
  ASSUME IInv, job # Nobody, Report PROVE IInv'
<1> USE DEF Report, Inherits, httpdVars, layoutVars
<1>1. TypeOK'
  BY MaxPostsAssumption, NoneAssumption DEF TypeOK, Request, Nobody, Kind, Asked, Answer, HopState, IInv
<1>2. Jobs'
  BY MaxPostsAssumption, NoneAssumption DEF IInv, TypeOK, Jobs, Handler, Request, Nobody, Kind, Asked, HopState, Phases
<1>3. Handler'
  BY MaxPostsAssumption, NoneAssumption DEF IInv, TypeOK, Jobs, Handler, Pushes, Request, Nobody, Asked, HopState, Flight, Phases
<1>4. Pushes'
  BY MaxPostsAssumption, NoneAssumption DEF IInv, TypeOK, Jobs, Handler, Pushes, Phases, Unclaimed, Over, Request, Nobody, HopState, Asked
<1>5. Phases'
  BY MaxPostsAssumption, NoneAssumption DEF IInv, TypeOK, Jobs, Handler, Phases, Request, Nobody
<1>6. Flight'
  <2>1. job \in Snapshots
    BY DEF IInv, Phases, Snapshots
  <2>2. Snapshots' \subseteq Snapshots \ {job}
    BY DEF Snapshots
  <2>3. Snapshots' = {}
    BY <2>1, <2>2 DEF IInv, Flight
  <2>4. QED
    BY <2>3 DEF Flight
<1> QED
  BY <1>1, <1>2, <1>3, <1>4, <1>5, <1>6 DEF IInv

LEMMA InvSelect ==
  ASSUME IInv, job # Nobody, Select PROVE IInv'
<1> USE DEF Select, httpdVars
<1>1. TypeOK'
  BY MaxPostsAssumption, NoneAssumption DEF TypeOK, Request, Nobody, Kind, Asked, Answer, HopState, IInv
<1>2. Jobs'
  BY MaxPostsAssumption, NoneAssumption DEF IInv, TypeOK, Jobs, Handler, Request, Nobody, Kind, Asked, HopState, Phases
<1>3. Handler'
  BY MaxPostsAssumption, NoneAssumption DEF IInv, TypeOK, Jobs, Handler, Pushes, Request, Nobody, Asked, HopState, Flight, Phases
<1>4. Pushes'
  BY MaxPostsAssumption, NoneAssumption DEF IInv, TypeOK, Jobs, Handler, Pushes, Phases, Unclaimed, Over, Request, Nobody, HopState, Asked
<1>5. Phases'
  BY MaxPostsAssumption, NoneAssumption DEF IInv, TypeOK, Jobs, Handler, Phases, Request, Nobody
<1>6. Flight'
  <2>1. Snapshots' \subseteq Snapshots
    BY MaxPostsAssumption, NoneAssumption DEF IInv, TypeOK, Jobs, Phases, Snapshots, Request, Nobody, Asked
  <2>2. QED
    BY MaxPostsAssumption, NoneAssumption, <2>1 DEF IInv, TypeOK, Jobs, Handler, Phases, Flight, Request, Nobody, Asked
<1> QED
  BY <1>1, <1>2, <1>3, <1>4, <1>5, <1>6 DEF IInv

LEMMA InvReadScreens ==
  ASSUME IInv, job # Nobody, ReadScreens PROVE IInv'
<1> USE DEF ReadScreens, httpdVars, layoutVars
<1>1. TypeOK'
  BY MaxPostsAssumption, NoneAssumption DEF TypeOK, Request, Nobody, Kind, Asked, Answer, HopState, IInv
<1>2. Jobs'
  BY MaxPostsAssumption, NoneAssumption DEF IInv, TypeOK, Jobs, Handler, Request, Nobody, Kind, Asked, HopState, Phases
<1>3. Handler'
  BY MaxPostsAssumption, NoneAssumption DEF IInv, TypeOK, Jobs, Handler, Pushes, Request, Nobody, Asked, HopState, Flight, Phases
<1>4. Pushes'
  BY MaxPostsAssumption, NoneAssumption DEF IInv, TypeOK, Jobs, Handler, Pushes, Phases, Unclaimed, Over, Request, Nobody, HopState, Asked
<1>5. Phases'
  BY MaxPostsAssumption, NoneAssumption DEF IInv, TypeOK, Jobs, Handler, Phases, Request, Nobody
<1>6. Flight'
  <2>1. Snapshots' \subseteq Snapshots
    BY MaxPostsAssumption, NoneAssumption DEF IInv, TypeOK, Jobs, Phases, Snapshots, Request, Nobody, Asked
  <2>2. QED
    BY MaxPostsAssumption, NoneAssumption, <2>1 DEF IInv, TypeOK, Jobs, Handler, Phases, Flight, Request, Nobody, Asked
<1> QED
  BY <1>1, <1>2, <1>3, <1>4, <1>5, <1>6 DEF IInv

LEMMA InvGive ==
  ASSUME IInv, job # Nobody, Give PROVE IInv'
<1> USE DEF Give, httpdVars, layoutVars
<1>1. TypeOK'
  BY MaxPostsAssumption, NoneAssumption DEF TypeOK, Request, Nobody, Kind, Asked, Answer, HopState, IInv
<1>2. Jobs'
  BY MaxPostsAssumption, NoneAssumption DEF IInv, TypeOK, Jobs, Handler, Request, Nobody, Kind, Asked, HopState, Phases
<1>3. Handler'
  BY MaxPostsAssumption, NoneAssumption DEF IInv, TypeOK, Jobs, Handler, Pushes, Request, Nobody, Asked, HopState, Flight, Phases
<1>4. Pushes'
  BY MaxPostsAssumption, NoneAssumption DEF IInv, TypeOK, Jobs, Handler, Pushes, Phases, Unclaimed, Over, Request, Nobody, HopState, Asked
<1>5. Phases'
  BY MaxPostsAssumption, NoneAssumption DEF IInv, TypeOK, Jobs, Handler, Phases, Request, Nobody
<1>6. Flight'
  <2>1. Snapshots' \subseteq Snapshots
    BY MaxPostsAssumption, NoneAssumption DEF IInv, TypeOK, Jobs, Phases, Snapshots, Request, Nobody, Asked
  <2>2. QED
    BY MaxPostsAssumption, NoneAssumption, <2>1 DEF IInv, TypeOK, Jobs, Handler, Phases, Flight, Request, Nobody, Asked
<1> QED
  BY <1>1, <1>2, <1>3, <1>4, <1>5, <1>6 DEF IInv

LEMMA InitIInv == Init => IInv
<1> SUFFICES ASSUME Init PROVE IInv
  OBVIOUS
<1>1. TypeOK
  <2>1. 0 \in 0 .. MaxPosts /\ "pending" \in HopState
    BY MaxPostsAssumption DEF HopState
  <2>2. QED
    BY <2>1 DEF Init, TypeOK, Nobody
<1>2. Snapshots = {}
  BY DEF Init, Snapshots
<1>3. Jobs /\ Handler /\ Pushes /\ Phases
  BY NoneAssumption, MaxPostsAssumption DEF Init, Jobs, Handler, Pushes, Phases, Request, Nobody
<1>4. Flight
  BY <1>2 DEF Init, Flight
<1> QED
  BY <1>1, <1>3, <1>4 DEF IInv

LEMMA NextIInv == IInv /\ [Next]_vars => IInv'
<1> SUFFICES ASSUME IInv, [Next]_vars PROVE IInv'
  OBVIOUS
<1>1. ASSUME NEW k \in Asked, Ask(k) PROVE IInv'
  BY <1>1, InvAsk
<1>2. CASE AskWhileBusy \/ Fetch
  BY <1>2, InvAskWhileBusy, InvFetch
<1>3. CASE Httpd
  BY <1>3, InvTaken, InvNameListed, InvTimeOut, InvGiveUp, InvGraceOver DEF Httpd
<1>4. CASE OnUi
  BY <1>4, InvBegin, InvClaim, InvRefuse, InvSwapIn, InvSetName, InvSnap, InvReport,
     InvSelect, InvReadScreens, InvGive DEF OnUi
<1>5. CASE UNCHANGED vars
  <2>1. TypeOK'
    BY <1>5 DEF IInv, TypeOK, vars
  <2>2. Jobs' /\ Handler' /\ Phases'
    BY <1>5 DEF IInv, Jobs, Handler, Phases, vars
  <2>3. Pushes'
    BY <1>5 DEF IInv, Pushes, Unclaimed, Over, vars
  <2>4. Snapshots' = Snapshots
    BY <1>5 DEF Snapshots, vars
  <2>5. Flight'
    BY <1>5, <2>4 DEF IInv, Flight, vars
  <2>6. QED
    BY <2>1, <2>2, <2>3, <2>5 DEF IInv
<1> QED
  BY <1>1, <1>2, <1>3, <1>4, <1>5 DEF Next, AllDone

LEMMA Inductive == Spec => []IInv
BY InitIInv, NextIInv, PTL DEF Spec

(* The state of every request, of the handler and of the UI task keeps its *)
(* types.                                                                  *)
THEOREM TypeCorrect == Spec => []TypeOK
BY Inductive, PTL DEF IInv

(* At most one snapshot is queued or running, and the flag is up while     *)
(* there is one, whoever gave up and whoever inherited the flag.           *)
THEOREM OneSnapshot == Spec => []SingleFlight
<1>1. IInv => SingleFlight
  <2> SUFFICES ASSUME IInv PROVE SingleFlight
    OBVIOUS
  <2>1. CASE Snapshots = {}
    BY <2>1, FS_EmptySet DEF SingleFlight
  <2>2. CASE Snapshots # {}
    <3>1. PICK r : r \in Snapshots
      BY <2>2
    <3>2. Snapshots = {r}
      BY <3>1 DEF IInv, Flight
    <3>3. Cardinality(Snapshots) = 1
      BY <3>2, FS_Singleton
    <3>4. QED
      BY <2>2, <3>3 DEF SingleFlight, IInv, Flight
  <2>3. QED
    BY <2>1, <2>2
<1> QED
  BY <1>1, Inductive, PTL

------------------------------------------------------------------------------
(* From here: the hop implements the push service.                         *)
SameFate(S) == \A x \in S : FateOf(x)' = FateOf(x)
SameTold(S) == \A x \in S : ToldOf(x)' = ToldOf(x)

LEMMA FateSteps ==
  ASSUME NEW r \in Request, NEW f, FateOf(r)' = f, SameFate(Request \ {r})
  PROVE  Service!Become(r, f)
BY DEF SameFate, Service!Become

LEMMA ToldSteps ==
  ASSUME NEW r \in Request, NEW a, ToldOf(r)' = a, SameTold(Request \ {r})
  PROVE  [x \in Request |-> ToldOf(x)]' = [[x \in Request |-> ToldOf(x)] EXCEPT ![r] = a]
BY DEF SameTold

LEMMA FateStutters ==
  ASSUME SameFate(Request)
  PROVE  [x \in Request |-> FateOf(x)]' = [x \in Request |-> FateOf(x)]
BY DEF SameFate

LEMMA ToldStutters ==
  ASSUME SameTold(Request)
  PROVE  [x \in Request |-> ToldOf(x)]' = [x \in Request |-> ToldOf(x)]
BY DEF SameTold

LEMMA Stutters ==
  ASSUME SameFate(Request), SameTold(Request)
  PROVE  UNCHANGED Service!vars
BY FateStutters, ToldStutters DEF Service!vars

LEMMA AskIsSubmit ==
  ASSUME IInv, NEW k \in Asked, Ask(k)
  PROVE  (\E r \in Request : Service!Submit(r)) \/ UNCHANGED Service!vars
<1>1. PICK r \in Request : r = posts + 1
  BY NextPost DEF IInv, Ask, Post
<1>2. kind[r] = None /\ hop[r] = "pending" /\ reply[r] = None
  BY <1>1 DEF IInv, TypeOK, Jobs, Phases, Request
<1>3. SameFate(Request \ {r}) /\ SameTold(Request)
  BY <1>1, <1>2 DEF Ask, Post, IInv, TypeOK, SameFate, SameTold, FateOf, ToldOf, Request
<1>4. CASE k = "layout"
  <2>1. FateOf(r) = "unborn"
    BY <1>2, NoneAssumption DEF FateOf
  <2>2. FateOf(r)' = "waiting"
    BY <1>1, <1>2, <1>4 DEF Ask, Post, IInv, TypeOK, FateOf
  <2>3. Service!Become(r, "waiting")
    BY <1>1, <1>3, <2>2, FateSteps
  <2>4. Service!Submit(r)
    BY <1>1, <1>3, <2>1, <2>3, ToldStutters DEF Service!Submit
  <2>5. QED
    BY <1>1, <2>4
<1>5. CASE k # "layout"
  <2>1. FateOf(r)' = FateOf(r)
    BY <1>1, <1>2, <1>5, NoneAssumption DEF Ask, Post, IInv, TypeOK, FateOf
  <2>2. SameFate(Request)
    BY <1>3, <2>1 DEF SameFate
  <2>3. QED
    BY <1>3, <2>2, Stutters
<1>6. QED
  BY <1>4, <1>5

LEMMA OthersStutter ==
  ASSUME IInv,
         \/ AskWhileBusy \/ Fetch \/ TimeOut
         \/ Begin \/ SwapIn \/ Snap \/ ReadScreens \/ Give
         \/ job # Nobody /\ (Select \/ Report)
         \/ UNCHANGED vars
  PROVE  UNCHANGED Service!vars
<1>1. CASE AskWhileBusy \/ Fetch
  <2>1. posts + 1 \in Request
    BY <1>1, NextPost DEF IInv, AskWhileBusy, Fetch, Post
  <2>2. kind[posts + 1] = None
    BY <2>1 DEF IInv, TypeOK, Jobs, Request
  <2>3. SameFate(Request) /\ SameTold(Request)
    BY <1>1, <2>1, <2>2, NoneAssumption
       DEF AskWhileBusy, Fetch, Post, httpdVars, IInv, TypeOK, SameFate, SameTold, FateOf, ToldOf
  <2>4. QED
    BY <2>3, Stutters
<1>2. CASE TimeOut \/ Begin \/ SwapIn \/ Snap \/ ReadScreens \/ Give \/ UNCHANGED vars
  <2>1. UNCHANGED <<kind, hop, result, reply>>
    BY <1>2 DEF TimeOut, Begin, SwapIn, Snap, ReadScreens, Give, vars
  <2>2. SameFate(Request) /\ SameTold(Request)
    BY <2>1 DEF SameFate, SameTold, FateOf, ToldOf
  <2>3. QED
    BY <2>2, Stutters
<1>3. CASE job # Nobody /\ (Select \/ Report)
  <2>1. kind[job] # "layout" /\ UNCHANGED <<kind, reply>>
    BY <1>3 DEF Select, Report, IInv, Phases
  <2>2. \A x \in Request : x # job => hop'[x] = hop[x] /\ result'[x] = result[x]
    BY <1>3 DEF Select, Report, IInv, TypeOK
  <2>3. SameFate(Request) /\ SameTold(Request)
    BY <2>1, <2>2 DEF SameFate, SameTold, FateOf, ToldOf
  <2>4. QED
    BY <2>3, Stutters
<1>4. QED
  BY <1>1, <1>2, <1>3

(* What a handler tells a client it is waiting for is true. *)
LEMMA TellIsTruthful ==
  ASSUME IInv, NEW a,
         pc # "idle", kind[cur] = "layout",
         a \in Service!Truthful(FateOf(cur)),
         Reply(a), UNCHANGED <<kind, hop, result>>
  PROVE  \E r \in Request : \E b \in Service!Answers : Service!Tell(r, b)
<1>1. PICK r \in Request : r = cur
  BY CurIsRequest
<1>2. a \in Service!Answers
  BY DEF Service!Truthful, Service!Answers
<1>3. SameFate(Request)
  BY DEF SameFate, FateOf
<1>4. ToldOf(r) = None
  BY <1>1 DEF ToldOf, IInv, Handler, Nobody, Request
<1>5. ToldOf(r)' = a /\ SameTold(Request \ {r})
  BY <1>1 DEF Reply, SameTold, ToldOf, IInv, TypeOK
<1>6. Service!Tell(r, a)
  BY <1>1, <1>3, <1>4, <1>5, FateStutters, ToldSteps DEF Service!Tell
<1>7. QED
  BY <1>2, <1>6

LEMMA TakenIsTell ==
  ASSUME IInv, Taken
  PROVE  \/ \E r \in Request : \E a \in Service!Answers : Service!Tell(r, a)
         \/ UNCHANGED Service!vars
<1>1. cur \in Request /\ pc # "idle" /\ sem[cur]
  BY CurIsRequest DEF Taken
<1>2. CASE kind[cur] = "layout"
  <2>1. hop[cur] = "running" /\ result[cur] \in {"ok", "refused"} /\ result[cur] # None
    BY <1>1, <1>2 DEF IInv, TypeOK, Handler, Pushes, Over, Nobody, Request
  <2>2. result[cur] \in Service!Truthful(FateOf(cur))
    BY <1>2, <2>1 DEF FateOf, Service!Truthful
  <2>3. Reply(result[cur]) /\ UNCHANGED <<kind, hop, result>>
    BY <1>2 DEF Taken
  <2>4. QED
    BY <1>1, <1>2, <2>2, <2>3, TellIsTruthful
<1>3. CASE kind[cur] # "layout"
  <2>1. SameFate(Request)
    BY DEF Taken, SameFate, FateOf
  <2>2. SameTold(Request)
    BY <1>1, <1>3 DEF Taken, Reply, SameTold, ToldOf, IInv, TypeOK
  <2>3. QED
    BY <2>1, <2>2, Stutters
<1>4. QED
  BY <1>2, <1>3

LEMMA NameListedStutters ==
  ASSUME IInv, NameListed PROVE UNCHANGED Service!vars
<1>1. kind[cur] = "hello" /\ UNCHANGED <<kind, hop, result>>
  BY DEF NameListed, IInv, Handler
<1>2. SameFate(Request)
  BY <1>1 DEF SameFate, FateOf
<1>3. SameTold(Request)
  BY <1>1 DEF NameListed, NameAgain, Reply, SameTold, ToldOf, IInv, TypeOK
<1> QED
  BY <1>2, <1>3, Stutters

LEMMA GraceOverIsTell ==
  ASSUME IInv, GraceOver
  PROVE  \E r \in Request : \E a \in Service!Answers : Service!Tell(r, a)
<1>1. pc # "idle" /\ kind[cur] = "layout" /\ hop[cur] = "running"
  BY DEF GraceOver, IInv, Handler
<1>2. "still_running" \in Service!Truthful(FateOf(cur))
  BY <1>1 DEF FateOf, Service!Truthful
<1>3. QED
  BY <1>1, <1>2, TellIsTruthful DEF GraceOver

LEMMA GiveUpIsDrop ==
  ASSUME IInv, GiveUp
  PROVE  (\E r \in Request : Service!Drop(r)) \/ UNCHANGED Service!vars
<1>1. PICK r \in Request : r = cur
  BY CurIsRequest DEF GiveUp
<1>2. CASE GiveUpLayout /\ MayAbandon(cur)
  <2>1. kind[r] = "layout" /\ hop[r] = "pending"
    BY <1>1, <1>2 DEF GiveUpLayout, MayAbandon
  <2>2. UNCHANGED <<kind, result>> /\ Abandon /\ Reply("not_applied")
    BY <1>2, <2>1 DEF GiveUp, GiveUpLayout
  <2>3. FateOf(r) = "waiting"
    BY <2>1 DEF FateOf
  <2>4. FateOf(r)' = "dropped" /\ SameFate(Request \ {r})
    BY <1>1, <2>1, <2>2 DEF Abandon, FateOf, SameFate, IInv, TypeOK
  <2>5. ToldOf(r)' = "not_applied" /\ SameTold(Request \ {r})
    BY <1>1, <2>1, <2>2 DEF Reply, ToldOf, SameTold, IInv, TypeOK
  <2>6. Service!Drop(r)
    BY <2>3, <2>4, <2>5, FateSteps, ToldSteps DEF Service!Drop
  <2>7. QED
    BY <2>6
<1>3. CASE GiveUpLayout /\ ~MayAbandon(cur)
  <2>1. UNCHANGED <<kind, hop, result, reply>>
    BY <1>3 DEF GiveUp, GiveUpLayout
  <2>2. QED
    BY <2>1, Stutters DEF SameFate, SameTold, FateOf, ToldOf
<1>4. CASE GiveUpShot \/ GiveUpRest
  <2>1. kind[r] # "layout" /\ UNCHANGED <<kind, result>>
    BY <1>1, <1>4 DEF GiveUp, GiveUpShot, GiveUpRest
  <2>2. \A x \in Request \ {r} : hop'[x] = hop[x] /\ reply'[x] = reply[x]
    BY <1>1, <1>4 DEF GiveUpShot, GiveUpRest, NameAgain, Abandon, Reply, IInv, TypeOK
  <2>3. QED
    BY <2>1, <2>2, Stutters DEF SameFate, SameTold, FateOf, ToldOf
<1>5. QED
  BY <1>2, <1>3, <1>4 DEF GiveUp

(* Only the push the handler waits for can be waiting, so the one claimed  *)
(* is the first.                                                           *)
LEMMA ClaimIsStart ==
  ASSUME IInv, job # Nobody, Claim
  PROVE  (\E r \in Request : Service!Start(r)) \/ UNCHANGED Service!vars
<1>1. PICK r \in Request : r = job
  BY MaxPostsAssumption DEF IInv, TypeOK, Request, Nobody
<1>2. kind[r] = "layout" /\ phase = "start" /\ UNCHANGED <<kind, result, reply>>
  BY <1>1 DEF Claim
<1>3. SameTold(Request)
  BY <1>2 DEF SameTold, ToldOf
<1>4. CASE hop[r] = "pending"
  <2>1. hop' = [hop EXCEPT ![r] = "running"]
    BY <1>1, <1>4 DEF Claim, MayClaim
  <2>2. FateOf(r) = "waiting" /\ result[r] = None /\ r = cur
    BY <1>2, <1>4 DEF FateOf, IInv, Pushes, Unclaimed
  <2>3. FateOf(r)' = "started" /\ SameFate(Request \ {r})
    BY <1>2, <2>1, <2>2 DEF FateOf, SameFate, IInv, TypeOK
  <2>4. \A q \in Request : FateOf(q) = "waiting" \/ FateOf(q) = "started" => q = r
    <3>1. SUFFICES ASSUME NEW q \in Request, FateOf(q) = "waiting" \/ FateOf(q) = "started"
                   PROVE  q = r
      OBVIOUS
    <3>2. kind[q] = "layout" /\ (hop[q] = "pending" \/ (hop[q] # "abandoned" /\ result[q] = None))
      BY <3>1 DEF FateOf
    <3>3. QED
      BY <1>1, <1>2, <2>2, <3>2 DEF IInv, Pushes, Unclaimed
  <2>5. Service!Start(r)
    <3>1. [x \in Request |-> FateOf(x)][r] = "waiting"
      BY <2>2
    <3>2. \A q \in Request : [x \in Request |-> FateOf(x)][q] = "started"
                              \/ [x \in Request |-> FateOf(x)][q] = "waiting" => q >= r
      BY <2>4 DEF Request
    <3>3. Service!Become(r, "started")
      BY <2>3, FateSteps
    <3>4. QED
      BY <1>3, <3>1, <3>2, <3>3, ToldStutters DEF Service!Start
  <2>6. QED
    BY <2>5
<1>5. CASE hop[r] # "pending"
  <2>1. UNCHANGED hop
    BY <1>1, <1>5 DEF Claim, MayClaim
  <2>2. SameFate(Request)
    BY <1>2, <2>1 DEF SameFate, FateOf
  <2>3. QED
    BY <1>3, <2>2, Stutters
<1>6. QED
  BY <1>4, <1>5

(* A result written for a push that runs finishes it. *)
LEMMA ResultFinishes ==
  ASSUME IInv, NEW f \in {"ok", "refused"},
         job # Nobody, phase \in {"start", "work", "swapped"},
         phase = "start" => kind[job] = "fetch",
         result' = [result EXCEPT ![job] = f], UNCHANGED <<kind, hop, reply>>
  PROVE  \/ \E r \in Request : \E g \in {"applied", "refused"} : Service!Finish(r, g)
         \/ UNCHANGED Service!vars
<1>1. PICK r \in Request : r = job
  BY MaxPostsAssumption DEF IInv, TypeOK, Request, Nobody
<1>2. SameTold(Request)
  BY DEF SameTold, ToldOf
<1>3. CASE kind[r] = "layout"
  <2>1. hop[r] = "running" /\ result[r] = None
    BY <1>1, <1>3 DEF IInv, Pushes
  <2>2. PICK g \in {"applied", "refused"} : g = IF f = "ok" THEN "applied" ELSE "refused"
    OBVIOUS
  <2>3. f # None /\ result'[r] = f /\ UNCHANGED <<kind, hop>>
    BY <1>1, NoneAssumption DEF IInv, TypeOK
  <2>4. FateOf(r) = "started" /\ FateOf(r)' = g
    BY <1>3, <2>1, <2>2, <2>3 DEF FateOf
  <2>5. SameFate(Request \ {r})
    BY <1>1 DEF SameFate, FateOf, IInv, TypeOK
  <2>6. Service!Become(r, g)
    BY <2>4, <2>5, FateSteps
  <2>7. Service!Finish(r, g)
    BY <1>2, <2>4, <2>6, ToldStutters DEF Service!Finish
  <2>8. QED
    BY <2>2, <2>7
<1>4. CASE kind[r] # "layout"
  <2>1. SameFate(Request)
    BY <1>1, <1>4 DEF SameFate, FateOf, IInv, TypeOK
  <2>2. QED
    BY <1>2, <2>1, Stutters
<1>5. QED
  BY <1>3, <1>4

LEMMA ServiceInit == Init => Service!Init
<1> SUFFICES ASSUME Init PROVE Service!Init
  OBVIOUS
<1>1. \A r \in Request : FateOf(r) = "unborn" /\ ToldOf(r) = None
  BY NoneAssumption DEF Init, FateOf, ToldOf
<1> QED
  BY <1>1 DEF Service!Init

LEMMA ServiceStep == IInv /\ [Next]_vars => [Service!Next]_Service!vars
<1> SUFFICES ASSUME IInv, [Next]_vars PROVE Service!Next \/ UNCHANGED Service!vars
  OBVIOUS
<1>1. ASSUME NEW k \in Asked, Ask(k) PROVE Service!Next \/ UNCHANGED Service!vars
  BY <1>1, AskIsSubmit DEF Service!Next
<1>2. CASE Httpd
  BY <1>2, TakenIsTell, NameListedStutters, OthersStutter, GiveUpIsDrop, GraceOverIsTell DEF Httpd, Service!Next
<1>3. CASE job # Nobody /\ Claim
  BY <1>3, ClaimIsStart DEF Service!Next
<1>4. CASE Refuse
  <2>1. /\ job # Nobody /\ phase \in {"start", "work", "swapped"}
        /\ phase = "start" => kind[job] = "fetch"
        /\ result' = [result EXCEPT ![job] = "refused"] /\ UNCHANGED <<kind, hop, reply>>
    BY <1>4 DEF Refuse, Applying
  <2>2. QED
    BY <2>1, ResultFinishes DEF Service!Next
<1>5. CASE job # Nobody /\ SetName
  <2>1. /\ job # Nobody /\ phase \in {"start", "work", "swapped"}
        /\ phase = "start" => kind[job] = "fetch"
        /\ result' = [result EXCEPT ![job] = "ok"] /\ UNCHANGED <<kind, hop, reply>>
    BY <1>5 DEF SetName
  <2>2. QED
    BY <2>1, ResultFinishes DEF Service!Next
<1>6. CASE AskWhileBusy \/ Fetch \/ Begin \/ SwapIn \/ Snap \/ ReadScreens \/ Give
           \/ (job # Nobody /\ (Select \/ Report)) \/ UNCHANGED vars
  BY <1>6, OthersStutter
<1> QED
  BY <1>1, <1>2, <1>3, <1>4, <1>5, <1>6 DEF Next, OnUi, AllDone

(* Refines: whatever times out, overlaps or comes late, what the client of *)
(* a push was told stays true for good, and pushes start in order.         *)
THEOREM Refines == Spec => PushSpec
BY ServiceInit, ServiceStep, Inductive, PTL DEF Spec, PushSpec, Service!Spec

------------------------------------------------------------------------------
(* /hello reads the name before its lambda is posted and after it is over, *)
(* the screens in between, and layouts come in the order of the queue.     *)

(* The queue's jobs are later than the one that runs and the layout shown. *)
FirstComeFirst ==
  /\ \A r \in queue : job < r /\ rendered < r
  /\ rendered <= posts
  /\ job # Nobody => rendered <= job

NameLags ==
  /\ active_name <= rendered
  /\ phase = "swapped" => rendered = job
  /\ phase # "swapped" => rendered = active_name

(* The handler's first name is not ahead of the panel, nor of the screens  *)
(* once its lambda has read them; and those are not ahead of the name.     *)
HelloReads ==
  \A r \in Request : kind[r] = "hello" /\ r = cur =>
    /\ held_name # None => held_name <= rendered
    /\ sem[r] \/ pc = "listed" \/ (r = job /\ phase = "give") =>
         seen[r] <= active_name /\ (held_name # None => held_name <= seen[r])

Lags == FirstComeFirst /\ NameLags /\ HelloReads

LEMMA LagsNumbers ==
  ASSUME TypeOK
  PROVE  /\ posts \in Nat /\ job \in Nat /\ rendered \in Nat /\ cur \in Nat
         /\ active_name \in Nat /\ held_name \in Nat \cup {None} /\ queue \subseteq Nat
         /\ \A r \in Request : seen[r] \in Nat
BY MaxPostsAssumption DEF TypeOK, Request

LEMMA InitLags == Init => Lags
BY NoneAssumption DEF Init, Lags, FirstComeFirst, NameLags, HelloReads, Nobody, Request

LEMMA LagsAsk ==
  ASSUME IInv, Lags, NEW k \in Asked, Ask(k) PROVE Lags'
<1> USE DEF Ask, Post, layoutVars
<1>0. posts + 1 \in Request
  BY NextPost DEF IInv
<1>1. FirstComeFirst'
  BY LagsNumbers DEF IInv, Jobs, Lags, FirstComeFirst, Nobody
<1>2. NameLags'
  BY DEF Lags, NameLags
<1>3. HelloReads'
  <2> SUFFICES ASSUME NEW r \in Request, kind'[r] = "hello", r = cur'
               PROVE  /\ held_name' # None => held_name' <= rendered'
                      /\ ~(sem'[r] \/ pc' = "listed" \/ (r = job' /\ phase' = "give"))
    BY DEF HelloReads
  <2>1. r = posts + 1 /\ ~sem[r] /\ r # job
    BY <1>0, LagsNumbers DEF IInv, Jobs
  <2>2. k = "hello"
    BY <1>0, <2>1 DEF IInv, TypeOK
  <2>3. held_name' \in NameRead
    BY <2>2
  <2>4. held_name' # None => held_name' <= rendered
    BY <2>3, LagsNumbers DEF IInv, Lags, NameLags, NameRead
  <2> QED
    BY <2>1, <2>4
<1> QED
  BY <1>1, <1>2, <1>3 DEF Lags

LEMMA LagsPosts ==
  ASSUME IInv, Lags, AskWhileBusy \/ Fetch PROVE Lags'
<1> USE DEF AskWhileBusy, Fetch, Post, httpdVars, layoutVars
<1>0. posts + 1 \in Request
  BY NextPost DEF IInv
<1>1. FirstComeFirst'
  BY LagsNumbers DEF IInv, Jobs, Lags, FirstComeFirst, Nobody
<1>2. NameLags'
  BY DEF Lags, NameLags
<1>3. HelloReads'
  <2>1. \A r \in Request : kind'[r] = "hello" => kind[r] = "hello"
    BY <1>0 DEF IInv, TypeOK
  <2> QED
    BY <2>1 DEF Lags, HelloReads
<1> QED
  BY <1>1, <1>2, <1>3 DEF Lags

(* The handler's own steps leave the UI task alone.                        *)
LEMMA LagsHttpd ==
  ASSUME IInv, Lags, Httpd PROVE Lags'
<1>1. /\ UNCHANGED <<posts, kind, queue, job, phase, rendered, active_name, held_name, seen>>
      /\ cur' \in {cur, Nobody}
      /\ \A r \in Request : sem'[r] => sem[r]
      /\ pc' = "listed" => sem[cur] \/ pc = "listed"
  BY DEF Httpd, Taken, NameListed, TimeOut, GiveUp, GraceOver, GiveUpLayout, GiveUpShot,
         GiveUpRest, NameAgain, Reply, layoutVars, IInv, TypeOK
<1>2. Nobody \notin Request
  BY DEF Nobody, Request
<1> QED
  BY <1>1, <1>2 DEF Lags, FirstComeFirst, NameLags, HelloReads

LEMMA PhaseIdle == ASSUME IInv, job = Nobody PROVE phase = "start"
BY DEF IInv, Phases

LEMMA LagsBegin ==
  ASSUME IInv, Lags, Begin PROVE Lags'
<1>1. PICK r \in queue : Front(r) /\ job' = r /\ queue' = queue \ {r}
  BY DEF Begin
<1>2. phase' = "start"
  BY DEF Begin
<1>3. UNCHANGED <<posts, kind, sem, cur, pc, held_name, seen, rendered, active_name>>
  BY DEF Begin, httpdVars, layoutVars
<1>4. FirstComeFirst'
  <2>1. \A q \in queue' : job' < q /\ rendered' < q
    BY <1>1, <1>3, LagsNumbers DEF IInv, Lags, FirstComeFirst, Front
  <2>2. rendered' <= posts' /\ rendered' <= job'
    BY <1>1, <1>3, LagsNumbers DEF IInv, Lags, FirstComeFirst
  <2> QED
    BY <2>1, <2>2 DEF FirstComeFirst
<1>5. NameLags'
  BY <1>2, <1>3, PhaseIdle DEF Begin, Lags, NameLags
<1>6. HelloReads'
  BY <1>2, <1>3 DEF Lags, HelloReads
<1> QED
  BY <1>4, <1>5, <1>6 DEF Lags

(* A job that is no /hello, up to its end.                                 *)
LEMMA LagsOtherJob ==
  ASSUME IInv, Lags, job # Nobody, kind[job] # "hello",
         Claim \/ Refuse \/ Snap \/ Report \/ Select
  PROVE  Lags'
<1>1. UNCHANGED <<posts, kind, sem, cur, pc, held_name, seen, rendered, active_name, queue, job>>
  BY DEF Claim, Refuse, Snap, Report, Select, httpdVars, layoutVars
<1>2. phase' # "swapped" /\ phase # "swapped"
  BY DEF Claim, Refuse, Applying, Snap, Report, Select
<1> QED
  BY <1>1, <1>2 DEF Lags, FirstComeFirst, NameLags, HelloReads

LEMMA LagsSwapIn ==
  ASSUME IInv, Lags, SwapIn PROVE Lags'
<1> USE DEF SwapIn, Applying
<1>1. UNCHANGED <<posts, kind, sem, cur, pc, held_name, seen, active_name, queue, job>>
  BY DEF httpdVars
<1>2. job # Nobody /\ rendered' = job /\ phase' = "swapped" /\ phase # "swapped"
  OBVIOUS
<1>3. rendered <= rendered'
  BY <1>2 DEF Lags, FirstComeFirst
<1>4. FirstComeFirst'
  BY <1>1, <1>2, LagsNumbers DEF IInv, Jobs, Lags, FirstComeFirst
<1>5. NameLags'
  <2>1. active_name <= rendered'
    BY <1>1, <1>2, <1>3, LagsNumbers DEF IInv, Lags, NameLags
  <2> QED
    BY <1>1, <1>2, <2>1 DEF NameLags
<1>6. HelloReads'
  <2> SUFFICES ASSUME NEW r \in Request, kind[r] = "hello", r = cur
               PROVE  /\ held_name # None => held_name <= rendered'
                      /\ sem[r] \/ pc = "listed" =>
                           seen[r] <= active_name /\ (held_name # None => held_name <= seen[r])
    BY <1>1, <1>2 DEF HelloReads
  <2>1. /\ held_name # None => held_name <= rendered
        /\ sem[r] \/ pc = "listed" =>
             seen[r] <= active_name /\ (held_name # None => held_name <= seen[r])
    BY DEF Lags, HelloReads
  <2> QED
    BY <1>2, <1>3, <2>1, LagsNumbers DEF IInv
<1> QED
  BY <1>4, <1>5, <1>6 DEF Lags

LEMMA LagsSetName ==
  ASSUME IInv, Lags, job # Nobody, SetName PROVE Lags'
<1> USE DEF SetName
<1>1. UNCHANGED <<posts, kind, sem, cur, pc, held_name, seen, rendered, queue, job>>
  BY DEF httpdVars
<1>2. phase' = "give" /\ active_name' = job /\ rendered = job /\ kind[job] # "hello"
  BY DEF IInv, Phases, Lags, NameLags
<1>3. NameLags'
  BY <1>1, <1>2, LagsNumbers DEF IInv, NameLags
<1>4. active_name <= active_name' /\ active_name' \in Nat
  BY <1>2, LagsNumbers DEF IInv, Lags, NameLags
<1>5. HelloReads'
  <2> SUFFICES ASSUME NEW r \in Request, kind[r] = "hello", r = cur, sem[r] \/ pc = "listed",
                      seen[r] <= active_name
               PROVE  seen[r] <= active_name'
    BY <1>1, <1>2 DEF Lags, HelloReads
  <2> QED
    BY <1>4, LagsNumbers DEF IInv
<1> QED
  BY <1>1, <1>3, <1>5 DEF Lags, FirstComeFirst

LEMMA LagsReadScreens ==
  ASSUME IInv, Lags, job # Nobody, ReadScreens PROVE Lags'
<1> USE DEF ReadScreens
<1>1. UNCHANGED <<posts, kind, sem, cur, pc, held_name, rendered, active_name, queue, job>>
  BY DEF httpdVars, layoutVars
<1>2. phase' = "give" /\ \A r \in Request : seen'[r] = IF r = job THEN rendered ELSE seen[r]
  BY DEF IInv, TypeOK
<1>3. rendered = active_name
  BY DEF Lags, NameLags
<1>4. HelloReads'
  BY <1>1, <1>2, <1>3, LagsNumbers DEF IInv, Lags, HelloReads
<1> QED
  BY <1>1, <1>2, <1>4 DEF Lags, FirstComeFirst, NameLags

LEMMA LagsGive ==
  ASSUME IInv, Lags, job # Nobody, Give PROVE Lags'
<1> USE DEF Give
<1>1. UNCHANGED <<posts, kind, cur, pc, held_name, seen, rendered, active_name, queue>>
  BY DEF httpdVars, layoutVars
<1>2. job' = Nobody /\ phase' = "start" /\ phase = "give"
  OBVIOUS
<1>3. \A r \in Request : sem'[r] => sem[r] \/ r = job
  BY DEF IInv, TypeOK
<1>4. FirstComeFirst'
  <2>1. \A r \in queue : Nobody < r /\ rendered < r
    BY LagsNumbers DEF IInv, TypeOK, Request, Lags, FirstComeFirst, Nobody
  <2> QED
    BY <1>1, <1>2, <2>1 DEF Lags, FirstComeFirst
<1>5. NameLags' /\ HelloReads'
  BY <1>1, <1>2, <1>3 DEF Lags, NameLags, HelloReads
<1> QED
  BY <1>4, <1>5 DEF Lags

LEMMA NextLags == IInv /\ Lags /\ [Next]_vars => Lags'
<1> SUFFICES ASSUME IInv, Lags, [Next]_vars PROVE Lags'
  OBVIOUS
<1>1. ASSUME NEW k \in Asked, Ask(k) PROVE Lags'
  BY <1>1, LagsAsk
<1>2. CASE AskWhileBusy \/ Fetch
  BY <1>2, LagsPosts
<1>3. CASE Httpd
  BY <1>3, LagsHttpd
<1>4. CASE OnUi
  <2>1. CASE Begin
    BY <2>1, LagsBegin
  <2>2. CASE job # Nobody /\ (Claim \/ Refuse \/ Snap \/ Report \/ Select)
    <3>1. kind[job] # "hello"
      BY <2>2 DEF Claim, Refuse, Applying, Snap, Report, Select, IInv, Phases
    <3> QED
      BY <2>2, <3>1, LagsOtherJob
  <2>3. CASE job # Nobody /\ (SwapIn \/ SetName \/ ReadScreens \/ Give)
    BY <2>3, LagsSwapIn, LagsSetName, LagsReadScreens, LagsGive
  <2> QED
    BY <1>4, <2>1, <2>2, <2>3 DEF OnUi
<1>5. CASE UNCHANGED vars
  BY <1>5 DEF vars, Lags, FirstComeFirst, NameLags, HelloReads
<1> QED
  BY <1>1, <1>2, <1>3, <1>4, <1>5 DEF Next, AllDone

(* Only a handler that has taken its semaphore answers a /hello in full.   *)
LEMMA CompleteHello ==
  ASSUME IInv, Lags, [Next]_vars, NEW r \in Request, Listed(r)
  PROVE  /\ held_name # None => held_name <= seen[r]
         /\ late_name' # None => seen[r] <= late_name'
<1>1. reply'[r] # reply[r] /\ kind[r] = "hello" /\ reply'[r] = "ok"
  BY NoneAssumption DEF Listed
<1>2. AskWhileBusy \/ Httpd
  BY <1>1 DEF Next, Ask, Fetch, Post, OnUi, Begin, Claim, Refuse, SwapIn, SetName, Snap,
              Report, Select, ReadScreens, Give, AllDone, vars
<1>3. ~AskWhileBusy
  BY <1>1 DEF AskWhileBusy, IInv, TypeOK
<1>4. pc # "idle" /\ r = cur
  BY <1>1, <1>2, <1>3 DEF Httpd, Taken, NameListed, NameAgain, TimeOut, GiveUp, GraceOver,
                          GiveUpLayout, GiveUpShot, GiveUpRest, Reply, IInv, TypeOK
<1>5. reply \in [Request -> Answer \cup {None}]
  BY DEF IInv, TypeOK
<1>6. ~TimeOut /\ ~GiveUp /\ ~GraceOver /\ ~Taken
  BY <1>1, <1>4, <1>5 DEF TimeOut, GiveUp, GraceOver, Taken, GiveUpLayout, GiveUpShot,
                          GiveUpRest, NameAgain, Reply
<1>7. pc = "listed" /\ late_name' \in NameRead
  BY <1>2, <1>3, <1>6 DEF Httpd, NameListed, NameAgain
<1>8. seen[r] <= active_name /\ (held_name # None => held_name <= seen[r])
  BY <1>1, <1>4, <1>7 DEF Lags, HelloReads
<1>9. phase = "swapped" => active_name <= job
  BY DEF Lags, NameLags
<1> QED
  BY <1>7, <1>8, <1>9, LagsNumbers DEF NameRead, IInv

(* For any number of requests: the two names of a complete /hello answer   *)
(* enclose the screens listed beside them, however the two tasks           *)
(* interleave and whatever was pushed or fetched between the reads.        *)
THEOREM HelloTrails == Spec => HelloBrackets
<1>1. Spec => []Lags
  <2>1. IInv /\ Lags /\ [Next]_vars => Lags'
    BY NextLags
  <2> QED
    BY <2>1, InitLags, Inductive, PTL DEF Spec
<1>2. IInv /\ Lags /\ [Next]_vars =>
        [\A r \in Request : Listed(r) =>
           /\ held_name # None => held_name <= seen[r]
           /\ late_name' # None => seen[r] <= late_name']_vars
  BY CompleteHello
<1> QED
  BY <1>1, <1>2, Inductive, PTL DEF Spec, HelloBrackets

--------------------------------------------------------------------------------
(* Proofs about UiTimers, for any clients and addresses and any width of   *)
(* the handle counter: the map and the timers agree, and behind recycled   *)
(* handles the timers are a TimerService.                                  *)

\* The parts of TimersMatch.
MapOfTimers == \A t \in Live : s_timers[timers[t].handle] = t
TimersOfMap ==
  \A h \in Handles : s_timers[h] # NoTimer =>
    s_timers[h] \in Live /\ timers[s_timers[h]].handle = h
KeepersOwn ==
  \A c \in Clients : kept[c] # 0 =>
    /\ s_timers[kept[c]] # NoTimer
    /\ timers[s_timers[kept[c]]].client = c
    /\ ~timers[s_timers[kept[c]]].once
PeriodicKept == \A t \in Live : ~timers[t].once => kept[timers[t].client] = timers[t].handle
OnceStays ==
  running # Idle /\ running.once =>
    timers[running.t] = [client |-> running.client, handle |-> running.handle, once |-> TRUE]

LEMMA MatchParts ==
  TimersMatch <=> MapOfTimers /\ TimersOfMap /\ KeepersOwn /\ PeriodicKept /\ OnceStays
BY DEF TimersMatch, MapOfTimers, TimersOfMap, KeepersOwn, PeriodicKept, OnceStays

LEMMA MatchNext ==
  ASSUME MapOfTimers', TimersOfMap', KeepersOwn', PeriodicKept', OnceStays'
  PROVE  TimersMatch'
BY DEF TimersMatch, MapOfTimers, TimersOfMap, KeepersOwn, PeriodicKept, OnceStays

\* A context is no dead timer, and a call of timer_cb() is not its absence.
LEMMA ContextsLive ==
  /\ \A x \in TimerCtx : x # Dead /\ x.client \in Clients /\ x.handle \in Handles
                         /\ x.once \in BOOLEAN
  /\ \A x \in [t : Addresses, client : Clients, handle : Handles, once : BOOLEAN] :
       x # Idle /\ x.t \in Addresses /\ x.client \in Clients /\ x.handle \in Handles
<1>1. \A x \in TimerCtx : x.client \in Clients
  BY DEF TimerCtx
<1>2. Dead.client \notin Clients
  BY TimerAssumption DEF Dead
<1>3. \A x \in [t : Addresses, client : Clients, handle : Handles, once : BOOLEAN] : x.t \in Addresses
  OBVIOUS
<1>4. Idle.t \notin Addresses
  BY TimerAssumption DEF Idle
<1> QED
  BY <1>1, <1>2, <1>3, <1>4 DEF TimerCtx

LEMMA LiveTyped ==
  ASSUME TimerTypeOK
  PROVE  /\ \A t \in Live : t \in Addresses /\ timers[t] \in TimerCtx
         /\ \A t \in Addresses : t \notin Live => timers[t] = Dead
         /\ running # Idle =>
              running \in [t : Addresses, client : Clients, handle : Handles, once : BOOLEAN]
BY DEF TimerTypeOK, Live

\* A client's timer is one: it starts a second only when it waits for none.
OneTimer == \A c \in Clients : \A t, u \in Armed(c) : t = u

TimerIInv == TimerInv /\ OneTimer

LEMMA Initially == TimerInit => TimerIInv
<1> SUFFICES ASSUME TimerInit PROVE TimerIInv
  OBVIOUS
<1>1. 0 \in 0 .. LastHandle /\ 1 \in 0 .. LastHandle
  BY TimerAssumption
<1>2. Live = {}
  BY DEF TimerInit, Live
<1>3. TimerTypeOK
  BY <1>1 DEF TimerInit, TimerTypeOK
<1>4. TimersMatch
  <2>1. MapOfTimers /\ PeriodicKept
    BY <1>2 DEF MapOfTimers, PeriodicKept
  <2>2. \A h \in Handles : s_timers[h] = NoTimer
    BY DEF TimerInit
  <2>3. \A c \in Clients : kept[c] = 0
    BY DEF TimerInit
  <2>4. running = Idle
    BY DEF TimerInit
  <2>5. TimersOfMap
    BY <2>2 DEF TimersOfMap
  <2>6. KeepersOwn
    BY <2>3 DEF KeepersOwn
  <2>7. OnceStays
    BY <2>4 DEF OnceStays
  <2> QED
    BY <2>1, <2>5, <2>6, <2>7, MatchParts
<1>5. OneTimer
  BY <1>2 DEF OneTimer, Armed
<1> QED
  BY <1>3, <1>4, <1>5 DEF TimerIInv, TimerInv

-----------------------------------------------------------------------------
\* make_timer() uses a free handle and a free address.
LEMMA MakeKeeps ==
  ASSUME TimerIInv, NEW c \in Clients, NEW once \in BOOLEAN, MakeTimer(c, once)
  PROVE  TimerIInv'
<1> USE TimerAssumption DEF TimerIInv, TimerInv
<1>1. PICK a \in Addresses \ Live, h \in Handles :
        /\ FirstFree(s_next_handle, h)
        /\ timers' = [timers EXCEPT ![a] = [client |-> c, handle |-> h, once |-> once]]
        /\ s_timers' = [s_timers EXCEPT ![h] = a]
        /\ s_next_handle' = IF h = LastHandle THEN 0 ELSE h + 1
        /\ kept' = [kept EXCEPT ![c] = IF once THEN 0 ELSE h]
  BY DEF MakeTimer
<1> DEFINE new == [client |-> c, handle |-> h, once |-> once]
<1>2. /\ new \in TimerCtx /\ new # Dead
      /\ new.client = c /\ new.handle = h /\ new.once = once
  BY ContextsLive DEF TimerCtx
<1> HIDE DEF new
<1>3. /\ timers'[a] = new /\ s_timers'[h] = a
      /\ \A t \in Addresses \ {a} : timers'[t] = timers[t]
      /\ \A g \in Handles \ {h} : s_timers'[g] = s_timers[g]
      /\ \A d \in Clients \ {c} : kept'[d] = kept[d]
      /\ kept'[c] = IF once THEN 0 ELSE h
      /\ running' = running
  BY <1>1 DEF TimerTypeOK, MakeTimer, new
<1>4. h \in Nat /\ h # 0 /\ h \in 0 .. LastHandle /\ s_next_handle' \in 0 .. LastHandle
  BY <1>1 DEF Handles
<1>5. Live' = Live \cup {a} /\ a \notin Live /\ Live \subseteq Addresses
  BY <1>1, <1>2, <1>3 DEF Live
<1>6. s_timers[h] = NoTimer
  BY <1>1 DEF FirstFree
<1>7. \A t \in Live : timers[t] \in TimerCtx /\ timers[t].handle \in Handles
                      /\ timers[t].client \in Clients /\ timers[t].handle # h
  BY <1>6, LiveTyped, ContextsLive, MatchParts DEF MapOfTimers
<1>8. TimerTypeOK'
  BY <1>1, <1>2, <1>4 DEF TimerTypeOK, MakeTimer, new
<1>9. MapOfTimers'
  BY <1>2, <1>3, <1>5, <1>7, MatchParts DEF MapOfTimers
<1>10. TimersOfMap'
  BY <1>2, <1>3, <1>5, MatchParts DEF TimersOfMap
<1>11. kept[c] = 0
  <2> SUFFICES ASSUME kept[c] # 0 PROVE FALSE
    OBVIOUS
  <2>1. kept[c] \in Handles
    BY DEF TimerTypeOK, Handles
  <2>2. s_timers[kept[c]] \in Live /\ timers[s_timers[kept[c]]].client = c
        /\ ~timers[s_timers[kept[c]]].once
    BY <2>1, MatchParts DEF KeepersOwn, TimersOfMap
  <2>3. ~Spent(s_timers[kept[c]])
    <3> SUFFICES ASSUME running.t = s_timers[kept[c]], running.once PROVE FALSE
      BY DEF Spent
    <3>1. running # Idle
      BY <2>2, <1>5 DEF Idle
    <3> QED
      BY <3>1, <2>2, MatchParts DEF OnceStays
  <2> QED
    BY <2>2, <2>3 DEF MakeTimer, Armed
<1>12. KeepersOwn'
  <2> SUFFICES ASSUME NEW d \in Clients, kept'[d] # 0
               PROVE  /\ s_timers'[kept'[d]] # NoTimer
                      /\ timers'[s_timers'[kept'[d]]].client = d
                      /\ ~timers'[s_timers'[kept'[d]]].once
    BY DEF KeepersOwn
  <2>1. CASE d = c
    BY <2>1, <1>2, <1>3, <1>5
  <2>2. CASE d # c
    <3>1. kept[d] \in Handles /\ kept'[d] = kept[d] /\ kept[d] # 0
      BY <2>2, <1>3 DEF TimerTypeOK, Handles
    <3>2. s_timers[kept[d]] # NoTimer /\ s_timers[kept[d]] \in Live
      BY <3>1, MatchParts DEF KeepersOwn, TimersOfMap
    <3>3. kept[d] # h /\ s_timers[kept[d]] # a
      BY <3>2, <1>6, <1>5
    <3> QED
      BY <3>1, <3>2, <3>3, <1>3, <1>5, MatchParts DEF KeepersOwn
  <2> QED
    BY <2>1, <2>2
<1>13. PeriodicKept'
  <2>1. \A t \in Live : ~timers[t].once => timers[t].client # c
    BY <1>11, <1>7, <1>4, MatchParts DEF PeriodicKept, Handles
  <2> QED
    BY <2>1, <1>2, <1>3, <1>5, <1>7, MatchParts DEF PeriodicKept
<1>14. OnceStays'
  <2>1. running # Idle /\ running.once => running.t \in Live
    <3> SUFFICES ASSUME running # Idle, running.once PROVE running.t \in Live
      OBVIOUS
    <3>1. running.t \in Addresses /\ running.client \in Clients
      BY LiveTyped, ContextsLive
    <3>2. timers[running.t] # Dead
      BY <3>1, MatchParts DEF OnceStays, Dead
    <3> QED
      BY <3>1, <3>2 DEF Live
  <2> QED
    BY <2>1, <1>3, <1>5, MatchParts DEF OnceStays
<1>15. OneTimer'
  <2>1. \A d \in Clients : Armed(d)' \subseteq Armed(d) \cup (IF d = c THEN {a} ELSE {})
    BY <1>2, <1>3, <1>5 DEF Armed, Spent
  <2>2. Armed(c) = {}
    BY DEF MakeTimer
  <2> QED
    BY <2>1, <2>2 DEF OneTimer
<1> QED
  BY <1>8, <1>9, <1>10, <1>12, <1>13, <1>14, <1>15, MatchNext

\* cancel() takes a periodic timer out, of the map and of LVGL.
LEMMA CancelKeeps ==
  ASSUME TimerIInv, NEW c \in Clients, Cancel(c)
  PROVE  TimerIInv'
<1> USE TimerAssumption DEF TimerIInv, TimerInv
<1> DEFINE h == kept[c]
           t == s_timers[h]
<1>1. /\ h \in Handles /\ h # 0
      /\ t # NoTimer /\ t \in Live /\ t \in Addresses
      /\ timers[t].client = c /\ ~timers[t].once /\ timers[t].handle = h
  <2>1. h \in Handles /\ h # 0
    BY DEF Cancel, TimerTypeOK, Handles
  <2> QED
    BY <2>1, MatchParts, LiveTyped DEF KeepersOwn, TimersOfMap
<1>2. /\ timers' = [timers EXCEPT ![t] = Dead]
      /\ s_timers' = [s_timers EXCEPT ![h] = NoTimer]
      /\ kept' = [kept EXCEPT ![c] = 0]
      /\ UNCHANGED <<s_next_handle, running>>
  BY <1>1 DEF Cancel
<1> HIDE DEF h, t
<1>3. /\ timers'[t] = Dead /\ s_timers'[h] = NoTimer /\ kept'[c] = 0
      /\ \A u \in Addresses \ {t} : timers'[u] = timers[u]
      /\ \A g \in Handles \ {h} : s_timers'[g] = s_timers[g]
      /\ \A d \in Clients \ {c} : kept'[d] = kept[d]
  BY <1>1, <1>2 DEF TimerTypeOK
<1>4. Live' = Live \ {t} /\ Live \subseteq Addresses
  BY <1>3 DEF Live
<1>5. \A u \in Live : timers[u].handle \in Handles /\ timers[u].client \in Clients
                      /\ (u # t => timers[u].handle # h)
  <2>1. \A u \in Live : timers[u].handle \in Handles /\ timers[u].client \in Clients
                        /\ s_timers[timers[u].handle] = u
    BY LiveTyped, ContextsLive, MatchParts DEF MapOfTimers
  <2>2. s_timers[h] = t
    BY DEF t
  <2> QED
    BY <2>1, <2>2
<1>6. TimerTypeOK'
  BY <1>1, <1>2 DEF TimerTypeOK
<1>7. MapOfTimers'
  BY <1>3, <1>4, <1>5, MatchParts DEF MapOfTimers
<1>8. TimersOfMap'
  <2> SUFFICES ASSUME NEW g \in Handles, s_timers'[g] # NoTimer
               PROVE  s_timers'[g] \in Live' /\ timers'[s_timers'[g]].handle = g
    BY DEF TimersOfMap
  <2>1. g # h /\ s_timers'[g] = s_timers[g]
    BY <1>3
  <2>2. s_timers[g] \in Live /\ timers[s_timers[g]].handle = g
    BY <2>1, MatchParts DEF TimersOfMap
  <2>3. s_timers[g] # t
    BY <2>1, <2>2, <1>1
  <2> QED
    BY <2>1, <2>2, <2>3, <1>3, <1>4
<1>9. KeepersOwn'
  <2> SUFFICES ASSUME NEW d \in Clients, kept'[d] # 0
               PROVE  /\ s_timers'[kept'[d]] # NoTimer
                      /\ timers'[s_timers'[kept'[d]]].client = d
                      /\ ~timers'[s_timers'[kept'[d]]].once
    BY DEF KeepersOwn
  <2>1. d # c /\ kept'[d] = kept[d] /\ kept[d] \in Handles
    BY <1>3 DEF TimerTypeOK, Handles
  <2>2. /\ s_timers[kept[d]] # NoTimer /\ s_timers[kept[d]] \in Live
        /\ timers[s_timers[kept[d]]].client = d /\ ~timers[s_timers[kept[d]]].once
    BY <2>1, MatchParts DEF KeepersOwn, TimersOfMap
  <2>3. kept[d] # h /\ s_timers[kept[d]] # t
    BY <2>1, <2>2, <1>1 DEF t
  <2> QED
    BY <2>1, <2>2, <2>3, <1>3, <1>4
<1>10. PeriodicKept'
  <2> SUFFICES ASSUME NEW u \in Live', ~timers'[u].once
               PROVE  kept'[timers'[u].client] = timers'[u].handle
    BY DEF PeriodicKept
  <2>1. u \in Live /\ u # t /\ timers'[u] = timers[u]
    BY <1>3, <1>4
  <2>2. kept[timers[u].client] = timers[u].handle
    BY <2>1, MatchParts DEF PeriodicKept
  <2>3. timers[u].client # c
    BY <2>1, <2>2, <1>5 DEF h
  <2> QED
    BY <2>1, <2>2, <2>3, <1>3, <1>5
<1>11. OnceStays'
  <2> SUFFICES ASSUME running # Idle, running.once
               PROVE  timers'[running.t] = [client |-> running.client,
                                            handle |-> running.handle, once |-> TRUE]
    BY <1>2 DEF OnceStays
  <2>1. running.t \in Addresses
    BY LiveTyped, ContextsLive
  <2>2. timers[running.t] = [client |-> running.client, handle |-> running.handle, once |-> TRUE]
    BY MatchParts DEF OnceStays
  <2>3. running.t # t
    BY <2>2, <1>1
  <2> QED
    BY <2>1, <2>2, <2>3, <1>3
<1>12. OneTimer'
  BY <1>2, <1>3, <1>4 DEF OneTimer, Armed, Spent
<1> QED
  BY <1>6, <1>7, <1>8, <1>9, <1>10, <1>11, <1>12, MatchNext

\* A timer that fires is still what it was.
LEMMA FireKeeps ==
  ASSUME TimerIInv, NEW t \in Addresses, Fire(t)
  PROVE  TimerIInv'
<1> USE TimerAssumption DEF TimerIInv, TimerInv
<1>1. t \in Live /\ timers[t] \in TimerCtx
  BY LiveTyped DEF Fire
<1>2. /\ running' = [t |-> t, client |-> timers[t].client, handle |-> timers[t].handle,
                     once |-> timers[t].once]
      /\ UNCHANGED <<timers, s_timers, s_next_handle, kept>>
      /\ running = Idle
  BY DEF Fire
<1>3. TimerTypeOK'
  <2>1. running' \in [t : Addresses, client : Clients, handle : Handles, once : BOOLEAN]
    BY <1>1, <1>2, ContextsLive
  <2> QED
    BY <1>2, <2>1 DEF TimerTypeOK
<1>4. MapOfTimers' /\ TimersOfMap' /\ KeepersOwn' /\ PeriodicKept'
  BY <1>2, MatchParts DEF MapOfTimers, TimersOfMap, KeepersOwn, PeriodicKept, Live
<1>5. OnceStays'
  <2> SUFFICES ASSUME timers[t].once
               PROVE  timers[t] = [client |-> timers[t].client, handle |-> timers[t].handle,
                                   once |-> TRUE]
    BY <1>2 DEF OnceStays
  <2> QED
    BY <1>1 DEF TimerCtx
<1>6. OneTimer'
  <2>1. \A d \in Clients : Armed(d)' \subseteq Armed(d)
    <3>1. \A u \in Live : ~Spent(u)
      <4> SUFFICES ASSUME NEW u \in Live, running.t = u PROVE FALSE
        BY DEF Spent
      <4> QED
        BY <1>2, LiveTyped DEF Idle
    <3> QED
      BY <1>2, <3>1 DEF Armed, Live
  <2> QED
    BY <2>1 DEF OneTimer
<1> QED
  BY <1>3, <1>4, <1>5, <1>6, MatchNext

\* A one-shot that returns is the timer its handle still names.
LEMMA OnceIsMapped ==
  ASSUME TimerIInv, running # Idle, running.once
  PROVE  /\ running.t \in Live /\ running.handle \in Handles
         /\ s_timers[running.handle] = running.t /\ running.t # NoTimer
         /\ timers[running.t].once /\ timers[running.t].client = running.client
<1>1. running.t \in Addresses /\ running.client \in Clients /\ running.handle \in Handles
  BY LiveTyped, ContextsLive DEF TimerIInv, TimerInv
<1>2. timers[running.t] = [client |-> running.client, handle |-> running.handle, once |-> TRUE]
  BY MatchParts DEF OnceStays, TimerIInv, TimerInv
<1>3. timers[running.t] \in TimerCtx
  BY <1>1, <1>2 DEF TimerCtx
<1>4. running.t \in Live
  BY <1>1, <1>3, ContextsLive DEF Live
<1> QED
  BY <1>1, <1>2, <1>4, TimerAssumption, MatchParts DEF MapOfTimers, TimerIInv, TimerInv

\* What a return changes: a one-shot goes, nothing else does.
LEMMA ReturnIs ==
  ASSUME TimerIInv, Return
  PROVE  /\ running # Idle /\ running' = Idle /\ UNCHANGED <<s_next_handle, kept>>
         /\ ~running.once => UNCHANGED <<timers, s_timers>>
         /\ running.once => /\ timers' = [timers EXCEPT ![running.t] = Dead]
                            /\ s_timers' = [s_timers EXCEPT ![running.handle] = NoTimer]
BY OnceIsMapped DEF Return

LEMMA ReturnKeeps ==
  ASSUME TimerIInv, Return
  PROVE  TimerIInv'
<1> USE TimerAssumption DEF TimerIInv, TimerInv
<1>1. OnceStays'
  BY ReturnIs DEF OnceStays
<1>2. CASE ~running.once
  <2>1. running' = Idle /\ UNCHANGED <<timers, s_timers, s_next_handle, kept>>
    BY <1>2, ReturnIs
  <2>2. TimerTypeOK'
    BY <2>1 DEF TimerTypeOK
  <2>3. MapOfTimers' /\ TimersOfMap' /\ KeepersOwn' /\ PeriodicKept'
    BY <2>1, MatchParts DEF MapOfTimers, TimersOfMap, KeepersOwn, PeriodicKept, Live
  <2>4. OneTimer'
    <3>1. \A d \in Clients : Armed(d)' \subseteq Armed(d)
      BY <1>2, <2>1 DEF Armed, Live, Spent
    <3> QED
      BY <3>1 DEF OneTimer
  <2> QED
    BY <2>2, <2>3, <2>4, <1>1, MatchNext
<1>3. CASE running.once
  <2> DEFINE t == running.t
             h == running.handle
  <2>1. /\ t \in Live /\ t \in Addresses /\ h \in Handles
        /\ s_timers[h] = t /\ timers[t].once /\ running # Idle
    BY <1>3, ReturnIs, OnceIsMapped DEF Live
  <2>2. /\ timers' = [timers EXCEPT ![t] = Dead]
        /\ s_timers' = [s_timers EXCEPT ![h] = NoTimer]
        /\ running' = Idle /\ UNCHANGED <<s_next_handle, kept>>
    BY <1>3, ReturnIs
  <2> HIDE DEF t, h
  <2>3. /\ timers'[t] = Dead /\ s_timers'[h] = NoTimer
        /\ \A u \in Addresses \ {t} : timers'[u] = timers[u]
        /\ \A g \in Handles \ {h} : s_timers'[g] = s_timers[g]
    BY <2>1, <2>2 DEF TimerTypeOK
  <2>4. Live' = Live \ {t} /\ Live \subseteq Addresses
    BY <2>3 DEF Live
  <2>5. TimerTypeOK'
    BY <2>1, <2>2 DEF TimerTypeOK
  <2>6. MapOfTimers'
    <3>1. \A u \in Live \ {t} : timers[u].handle \in Handles /\ s_timers[timers[u].handle] = u
      BY LiveTyped, ContextsLive, MatchParts DEF MapOfTimers
    <3> QED
      BY <2>1, <2>3, <2>4, <3>1 DEF MapOfTimers
  <2>7. TimersOfMap'
    <3> SUFFICES ASSUME NEW g \in Handles, s_timers'[g] # NoTimer
                 PROVE  s_timers'[g] \in Live' /\ timers'[s_timers'[g]].handle = g
      BY DEF TimersOfMap
    <3>1. g # h /\ s_timers'[g] = s_timers[g]
      BY <2>3
    <3>2. s_timers[g] \in Live /\ timers[s_timers[g]].handle = g
      BY <3>1, MatchParts DEF TimersOfMap
    <3>3. timers[t].handle = h
      BY <2>1, TimerAssumption, MatchParts DEF TimersOfMap
    <3> QED
      BY <3>1, <3>2, <3>3, <2>3, <2>4
  <2>8. KeepersOwn'
    <3> SUFFICES ASSUME NEW d \in Clients, kept[d] # 0
                 PROVE  /\ s_timers'[kept[d]] # NoTimer
                        /\ timers'[s_timers'[kept[d]]].client = d
                        /\ ~timers'[s_timers'[kept[d]]].once
      BY <2>2 DEF KeepersOwn
    <3>1. kept[d] \in Handles
      BY DEF TimerTypeOK, Handles
    <3>2. /\ s_timers[kept[d]] # NoTimer /\ s_timers[kept[d]] \in Live
          /\ timers[s_timers[kept[d]]].client = d /\ ~timers[s_timers[kept[d]]].once
      BY <3>1, MatchParts DEF KeepersOwn, TimersOfMap
    <3>3. kept[d] # h /\ s_timers[kept[d]] # t
      BY <3>2, <2>1
    <3> QED
      BY <3>1, <3>2, <3>3, <2>3, <2>4
  <2>9. PeriodicKept'
    BY <2>2, <2>3, <2>4, MatchParts DEF PeriodicKept
  <2>10. OneTimer'
    <3>1. \A u \in Live \ {t} : ~Spent(u)
      BY DEF Spent, t
    <3>2. \A d \in Clients : Armed(d)' \subseteq Armed(d)
      BY <2>3, <2>4, <3>1 DEF Armed
    <3> QED
      BY <3>2 DEF OneTimer
  <2> QED
    BY <2>5, <2>6, <2>7, <2>8, <2>9, <2>10, <1>1, MatchNext
<1>4. running.once \in BOOLEAN
  BY ReturnIs, LiveTyped
<1> QED
  BY <1>2, <1>3, <1>4

LEMMA StepKeeps == TimerIInv /\ [TimerNext]_timerVars => TimerIInv'
<1> SUFFICES ASSUME TimerIInv, [TimerNext]_timerVars PROVE TimerIInv'
  OBVIOUS
<1>1. ASSUME NEW c \in Clients, NEW once \in BOOLEAN, MakeTimer(c, once) PROVE TimerIInv'
  BY <1>1, MakeKeeps
<1>2. ASSUME NEW c \in Clients, Cancel(c) PROVE TimerIInv'
  BY <1>2, CancelKeeps
<1>3. ASSUME NEW t \in Addresses, Fire(t) PROVE TimerIInv'
  BY <1>3, FireKeeps
<1>4. CASE Return
  BY <1>4, ReturnKeeps
<1>5. CASE UNCHANGED timerVars
  BY <1>5 DEF timerVars, TimerIInv, TimerInv, TimerTypeOK, TimersMatch, OneTimer, Live, Armed, Spent
<1> QED
  BY <1>1, <1>2, <1>3, <1>4, <1>5 DEF TimerNext

\* In every state the map and the timers agree, a client keeps the handle of its
\* periodic timer, and a one-shot is there until its callback has returned.
THEOREM TimersAlwaysMatch == TimerSpec => []TimerInv
<1>1. TimerInit => TimerIInv
  BY Initially
<1>2. TimerIInv /\ [TimerNext]_timerVars => TimerIInv'
  BY StepKeeps
<1>3. TimerIInv => TimerInv
  BY DEF TimerIInv
<1> QED
  BY <1>1, <1>2, <1>3, PTL DEF TimerSpec

-----------------------------------------------------------------------------
(* The refinement: what each step is to the clients. *)

kinds == [c \in Clients |-> TimerKind(c)]
caller == IF running = Idle THEN NoClient ELSE running.client

LEMMA KindKept ==
  ASSUME NEW c \in Clients, Armed(c)' = Armed(c), \A t \in Armed(c) : timers'[t] = timers[t]
  PROVE  TimerKind(c)' = TimerKind(c)
BY DEF TimerKind

LEMMA KindOfOne ==
  ASSUME NEW c \in Clients, NEW t, Armed(c) = {t}
  PROVE  TimerKind(c) = IF timers[t].once THEN "once" ELSE "every"
BY DEF TimerKind

\* A timer is spent only while its callback runs, which is a one-shot's.
LEMMA SpentOnce ==
  ASSUME TimerIInv
  PROVE  /\ \A t \in Addresses : Spent(t) => t \in Live /\ timers[t].once
         /\ running = Idle => \A t \in Addresses : ~Spent(t)
<1>1. \A t \in Addresses : running.t = t => running # Idle
  BY TimerAssumption DEF Idle
<1> QED
  BY <1>1, OnceIsMapped DEF Spent

LEMMA MakeStarts ==
  ASSUME TimerIInv, NEW c \in Clients, NEW once \in BOOLEAN, MakeTimer(c, once)
  PROVE  /\ TimerKind(c) = "off"
         /\ TimerKind(c)' = IF once THEN "once" ELSE "every"
         /\ \A d \in Clients \ {c} : TimerKind(d)' = TimerKind(d)
         /\ UNCHANGED running
<1>1. PICK a \in Addresses \ Live, h \in Handles :
        timers' = [timers EXCEPT ![a] = [client |-> c, handle |-> h, once |-> once]]
  BY DEF MakeTimer
<1> DEFINE new == [client |-> c, handle |-> h, once |-> once]
<1>2. new # Dead /\ new.client = c /\ new.once = once
  BY ContextsLive DEF TimerCtx
<1> HIDE DEF new
<1>3. /\ timers'[a] = new
      /\ \A t \in Addresses \ {a} : timers'[t] = timers[t]
      /\ running' = running /\ Live \subseteq Addresses
  BY <1>1 DEF TimerIInv, TimerInv, TimerTypeOK, MakeTimer, new, Live
<1>4. Live' = Live \cup {a} /\ a \notin Live
  BY <1>1, <1>2, <1>3 DEF Live
<1>5. ~Spent(a) /\ \A t : Spent(t)' <=> Spent(t)
  BY <1>1, <1>3, <1>4, SpentOnce DEF Spent
<1>6. Armed(c) = {}
  BY DEF MakeTimer
<1>7. Armed(c)' = {a}
  BY <1>2, <1>3, <1>4, <1>5, <1>6 DEF Armed
<1>8. \A d \in Clients \ {c} : Armed(d)' = Armed(d) /\ Armed(d) \subseteq Addresses \ {a}
  BY <1>2, <1>3, <1>4, <1>5 DEF Armed
<1>9. TimerKind(c)' = IF once THEN "once" ELSE "every"
  BY <1>2, <1>3, <1>7 DEF TimerKind
<1>10. \A d \in Clients \ {c} : TimerKind(d)' = TimerKind(d)
  BY <1>3, <1>8, KindKept
<1> QED
  BY <1>3, <1>6, <1>9, <1>10 DEF TimerKind

LEMMA CancelStops ==
  ASSUME TimerIInv, NEW c \in Clients, Cancel(c)
  PROVE  /\ TimerKind(c) = "every" /\ TimerKind(c)' = "off"
         /\ \A d \in Clients \ {c} : TimerKind(d)' = TimerKind(d)
         /\ UNCHANGED running
<1> DEFINE t == s_timers[kept[c]]
<1>1. /\ t # NoTimer /\ t \in Live /\ t \in Addresses
      /\ timers[t].client = c /\ ~timers[t].once
  <2>1. kept[c] \in Handles /\ kept[c] # 0
    BY DEF Cancel, TimerIInv, TimerInv, TimerTypeOK, Handles
  <2> QED
    BY <2>1, MatchParts DEF KeepersOwn, TimersOfMap, TimerIInv, TimerInv, Live
<1>2. timers' = [timers EXCEPT ![t] = Dead] /\ running' = running
  BY <1>1 DEF Cancel
<1> HIDE DEF t
<1>3. /\ timers'[t] = Dead /\ Live \subseteq Addresses
      /\ \A u \in Addresses \ {t} : timers'[u] = timers[u]
  BY <1>1, <1>2 DEF TimerIInv, TimerInv, TimerTypeOK, Live
<1>4. Live' = Live \ {t} /\ \A u : Spent(u)' <=> Spent(u)
  BY <1>2, <1>3 DEF Live, Spent
<1>5. t \in Armed(c)
  BY <1>1, SpentOnce DEF Armed
<1>6. Armed(c) = {t}
  BY <1>5 DEF TimerIInv, OneTimer
<1>7. Armed(c)' = {}
  BY <1>3, <1>4, <1>6 DEF Armed
<1>8. \A d \in Clients \ {c} : Armed(d)' = Armed(d) /\ Armed(d) \subseteq Addresses \ {t}
  BY <1>1, <1>3, <1>4 DEF Armed
<1>9. TimerKind(c) = "every"
  BY <1>1, <1>6, KindOfOne
<1>10. TimerKind(c)' = "off"
  BY <1>7 DEF TimerKind
<1>11. \A d \in Clients \ {c} : TimerKind(d)' = TimerKind(d)
  BY <1>3, <1>8, KindKept
<1> QED
  BY <1>2, <1>9, <1>10, <1>11

LEMMA FireCalls ==
  ASSUME TimerIInv, NEW t \in Addresses, Fire(t), NEW c \in Clients, c = timers[t].client
  PROVE  /\ running = Idle /\ caller' = c
         /\ TimerKind(c) \in {"once", "every"}
         /\ TimerKind(c)' = IF TimerKind(c) = "once" THEN "off" ELSE TimerKind(c)
         /\ \A d \in Clients \ {c} : TimerKind(d)' = TimerKind(d)
<1> DEFINE call == [t |-> t, client |-> timers[t].client, handle |-> timers[t].handle,
                    once |-> timers[t].once]
<1>1. t \in Live /\ timers[t] \in TimerCtx /\ running = Idle /\ running' = call
      /\ UNCHANGED timers
  BY LiveTyped DEF Fire, TimerIInv, TimerInv
<1>2. timers[t].once \in BOOLEAN /\ timers[t].handle \in Handles
  BY <1>1, ContextsLive
<1>3. call # Idle /\ call.t = t /\ call.once = timers[t].once /\ call.client = c
  BY <1>1, <1>2, ContextsLive
<1> HIDE DEF call
<1>4. caller' = c
  BY <1>1, <1>3 DEF caller
<1>5. \A u \in Addresses : ~Spent(u) /\ (Spent(u)' <=> u = t /\ timers[t].once)
  BY <1>1, <1>3, SpentOnce DEF Spent
<1>6. Live' = Live /\ Live \subseteq Addresses
  BY <1>1 DEF Live
<1>7. t \in Armed(c)
  BY <1>1, <1>5 DEF Armed
<1>8. Armed(c) = {t}
  BY <1>2, <1>7 DEF TimerIInv, OneTimer
<1>9. TimerKind(c) = IF timers[t].once THEN "once" ELSE "every"
  BY <1>2, <1>8, KindOfOne
<1>10. \A d \in Clients \ {c} : Armed(d)' = Armed(d)
  BY <1>1, <1>5, <1>6 DEF Armed
<1>11. \A d \in Clients \ {c} : TimerKind(d)' = TimerKind(d)
  BY <1>1, <1>10, KindKept
<1>12. CASE timers[t].once
  <2>1. Armed(c)' = {}
    BY <1>1, <1>5, <1>6, <1>8, <1>12 DEF Armed
  <2>2. TimerKind(c)' = "off"
    BY <2>1 DEF TimerKind
  <2> QED
    BY <2>2, <1>1, <1>2, <1>4, <1>9, <1>11, <1>12
<1>13. CASE ~timers[t].once
  <2>1. Armed(c)' = Armed(c)
    BY <1>1, <1>5, <1>6, <1>13 DEF Armed
  <2>2. TimerKind(c)' = TimerKind(c)
    BY <2>1, <1>1, <1>2, KindKept
  <2> QED
    BY <2>2, <1>1, <1>2, <1>4, <1>9, <1>11, <1>13
<1> QED
  BY <1>12, <1>13

LEMMA ReturnSilent ==
  ASSUME TimerIInv, Return
  PROVE  /\ caller \in Clients /\ caller' = NoClient
         /\ \A d \in Clients : TimerKind(d)' = TimerKind(d)
<1>1. running # Idle /\ running' = Idle /\ running.client \in Clients
  BY ReturnIs, LiveTyped, ContextsLive DEF TimerIInv, TimerInv
<1>2. caller \in Clients /\ caller' = NoClient
  BY <1>1 DEF caller
<1>3. \A u \in Addresses : ~Spent(u)'
  BY <1>1, TimerAssumption DEF Spent, Idle
<1>4. CASE ~running.once
  <2>1. timers' = timers /\ Live' = Live /\ Live \subseteq Addresses /\ \A u : ~Spent(u)
    BY <1>4, ReturnIs DEF Live, Spent
  <2>2. \A d \in Clients : Armed(d)' = Armed(d)
    BY <2>1, <1>3 DEF Armed
  <2> QED
    BY <2>1, <2>2, <1>2, KindKept
<1>5. CASE running.once
  <2>1. timers' = [timers EXCEPT ![running.t] = Dead]
    BY <1>5, ReturnIs
  <2>2. running.t \in Live /\ Live \subseteq Addresses
    BY <1>1, <1>5, OnceIsMapped DEF Live
  <2>3. timers'[running.t] = Dead
        /\ \A u \in Addresses \ {running.t} : timers'[u] = timers[u]
    BY <2>1, <2>2 DEF TimerIInv, TimerInv, TimerTypeOK
  <2>4. Live' = Live \ {running.t} /\ \A u : Spent(u) <=> u = running.t
    BY <1>5, <2>3 DEF Live, Spent
  <2>5. \A d \in Clients : Armed(d)' = Armed(d) /\ Armed(d) \subseteq Addresses \ {running.t}
    BY <2>2, <2>3, <2>4, <1>3 DEF Armed
  <2>6. \A d \in Clients : TimerKind(d)' = TimerKind(d)
    BY <2>3, <2>5, KindKept
  <2> QED
    BY <2>6, <1>2
<1>6. running.once \in BOOLEAN
  BY ReturnIs, LiveTyped DEF TimerIInv, TimerInv
<1> QED
  BY <1>4, <1>5, <1>6

LEMMA StepServes ==
  TimerIInv /\ [TimerNext]_timerVars => [TimersOf!Next]_<<kinds, caller>>
<1> SUFFICES ASSUME TimerIInv, [TimerNext]_timerVars
             PROVE  [TimersOf!Next]_<<kinds, caller>>
  OBVIOUS
<1>1. ASSUME NEW c \in Clients, NEW once \in BOOLEAN, MakeTimer(c, once)
      PROVE  TimersOf!Start(c, IF once THEN "once" ELSE "every")
  <2>1. kinds[c] = "off" /\ caller' = caller
    BY <1>1, MakeStarts DEF kinds, caller
  <2>2. kinds' = [kinds EXCEPT ![c] = IF once THEN "once" ELSE "every"]
    BY <1>1, MakeStarts DEF kinds
  <2> QED
    BY <2>1, <2>2 DEF TimersOf!Start, kinds, caller
<1>2. ASSUME NEW c \in Clients, Cancel(c) PROVE TimersOf!Stop(c)
  <2>1. kinds[c] = "every" /\ caller' = caller
    BY <1>2, CancelStops DEF kinds, caller
  <2>2. kinds' = [kinds EXCEPT ![c] = "off"]
    BY <1>2, CancelStops DEF kinds
  <2> QED
    BY <2>1, <2>2 DEF TimersOf!Stop, kinds, caller
<1>3. ASSUME NEW t \in Addresses, Fire(t)
      PROVE  \E c \in Clients : TimersOf!Fire(c)
  <2>1. timers[t].client \in Clients
    BY <1>3, LiveTyped, ContextsLive DEF Fire, TimerIInv, TimerInv
  <2>2. PICK c \in Clients : c = timers[t].client
    BY <2>1
  <2>3. /\ running = Idle /\ caller' = c
        /\ TimerKind(c) \in {"once", "every"}
        /\ TimerKind(c)' = IF TimerKind(c) = "once" THEN "off" ELSE TimerKind(c)
        /\ \A d \in Clients \ {c} : TimerKind(d)' = TimerKind(d)
    BY <1>3, <2>2, FireCalls
  <2>4. caller = NoClient /\ kinds[c] # "off"
    BY <2>3 DEF kinds, caller
  <2>5. kinds' = [kinds EXCEPT ![c] = IF @ = "once" THEN "off" ELSE @]
    BY <2>3 DEF kinds
  <2> QED
    BY <2>3, <2>4, <2>5 DEF TimersOf!Fire, kinds, caller
<1>4. CASE Return
  <2>1. kinds' = kinds
    BY <1>4, ReturnSilent DEF kinds
  <2>2. caller # NoClient /\ caller' = NoClient
    BY <1>4, ReturnSilent, TimerAssumption
  <2> QED
    BY <2>1, <2>2 DEF TimersOf!Next, TimersOf!Return, kinds, caller
<1>5. CASE UNCHANGED timerVars
  BY <1>5 DEF timerVars, kinds, caller, TimerKind, Armed, Live, Spent
<1> QED
  BY <1>1, <1>2, <1>3, <1>4, <1>5 DEF TimerNext, TimersOf!Next

\* Behind recycled handles and addresses the timers are a TimerService, also when
\* callbacks start and cancel timers: UiTimers implements it.
THEOREM TimersRefine == TimerSpec => TimersServe
<1>1. TimerInit => TimersOf!Init
  <2> SUFFICES ASSUME TimerInit PROVE TimersOf!Init
    OBVIOUS
  <2>1. \A c \in Clients : TimerKind(c) = "off"
    BY DEF TimerInit, TimerKind, Armed, Live
  <2>2. running = Idle
    BY DEF TimerInit
  <2> QED
    BY <2>1, <2>2 DEF TimersOf!Init
<1>2. TimerInit => TimerIInv
  BY Initially
<1>3. TimerIInv /\ [TimerNext]_timerVars => TimerIInv'
  BY StepKeeps
<1>4. TimerIInv /\ [TimerNext]_timerVars => [TimersOf!Next]_<<kinds, caller>>
  BY StepServes
<1> QED
  BY <1>1, <1>2, <1>3, <1>4, PTL DEF TimerSpec, TimersServe, TimersOf!Spec, kinds, caller
-----------------------------------------------------------------------------
(* A behaviour of the run is of the hop or of the timers. *)

LEMMA HopOfTheTask == UiSpec => Spec
<1>1. UiInit => Init
  BY DEF UiInit
<1>2. [UiNext]_uiVars => [Next]_vars
  BY DEF UiNext, uiVars
<1> QED
  BY <1>1, <1>2, PTL DEF UiSpec, Spec

LEMMA TimersOfTheTask == UiSpec => TimerSpec
<1>1. UiInit => TimerInit
  BY DEF UiInit
<1>2. [UiNext]_uiVars => [TimerNext]_timerVars
  BY DEF UiNext, uiVars
<1> QED
  BY <1>1, <1>2, PTL DEF UiSpec, TimerSpec

(* What the UI task does for others, in the hop and in the timer port      *)
(* (http_api.cpp, ui.cpp): one snapshot at a time, a client is told the    *)
(* truth about its push, the two names of /hello enclose its screens, and  *)
(* timers are served.                                                      *)
THEOREM UiSafe ==
  UiSpec => /\ [](SingleFlight /\ TimerInv)
            /\ PushSpec /\ HelloBrackets /\ TimersServe
BY HopOfTheTask, TimersOfTheTask, OneSnapshot, Refines, HelloTrails,
   TimersAlwaysMatch, TimersRefine, PTL
==============================================================================
