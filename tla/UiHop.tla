--------------------------------- MODULE UiHop ---------------------------------
(***************************************************************************)
(* The httpd task of the JLP API and the UI task it hops onto.  A handler  *)
(* posts a lambda to the UI queue, waits on the hop's semaphore and gives  *)
(* up after a while, when the lambda is still queued or running.  The      *)
(* hop's state settles who was last.  The fetch task posts the layout of   *)
(* the server's applicationData to the same queue and waits for nothing.   *)
(* Requests turned away at the door (an empty or oversized body, a body    *)
(* that does not arrive) get no further than their answer and are left     *)
(* out.  Jobs are numbered in the order of post(), so the FIFO queue is a  *)
(* set whose least member is next.                                         *)
(***************************************************************************)
EXTENDS Integers, FiniteSets

CONSTANTS MaxPosts,  (* bound: requests and fetched layouts *)
          None       (* no answer, no result; a name that is no layout's *)

ASSUME MaxPostsAssumption == MaxPosts \in Nat

ASSUME NoneAssumption ==
  /\ None \notin {"layout", "shot", "screen", "hello", "fetch"}
  /\ None \notin {"ok", "refused", "not_applied", "still_running", "429", "504", "partial"}
  /\ None \notin Nat

Request == 1 .. MaxPosts
Nobody == 0
Asked == {"layout", "shot", "screen", "hello"}
Kind == Asked \cup {"fetch"}
Answer == {"ok", "refused", "not_applied", "still_running", "429", "504", "partial"}

VARIABLES
  posts,        (* jobs so far *)
  kind,         (* what each asks for *)
  hop,          (* UiHop::state *)
  sem,          (* UiHop::sem has been given *)
  result,       (* *result or *found: ok, refused or not written yet *)
  reply,        (* what the client was answered *)
  cur, pc,      (* the request the one httpd task is in, and where *)
  queue,        (* s_queue of the UI task *)
  job, phase,   (* the lambda the UI task runs, and where it is *)
  busy,         (* g_screenshot_busy *)
  rendered,     (* the layout on the panel, by the job that brought it *)
  active_name,  (* the layout active_name_ names *)
  held_name,    (* resp["name"], read when hello_get() starts *)
  late_name,    (* resp["active_layout_name"], read once its lambda is over *)
  seen,         (* the layout whose screens a hello lambda read *)
  selected      (* history: the last request that switched the screen *)

httpdVars == <<cur, pc, held_name, late_name>>
layoutVars == <<rendered, active_name, selected>>
vars == <<posts, kind, hop, sem, result, reply, cur, pc, queue, job, phase, busy,
          rendered, active_name, held_name, late_name, seen, selected>>

HopState == {"pending", "done", "abandoned", "running"}

TypeOK ==
  /\ posts \in 0 .. MaxPosts
  /\ kind \in [Request -> Kind \cup {None}]
  /\ hop \in [Request -> HopState]
  /\ sem \in [Request -> BOOLEAN]
  /\ result \in [Request -> {"ok", "refused", None}]
  /\ reply \in [Request -> Answer \cup {None}]
  /\ cur \in 0 .. MaxPosts
  /\ pc \in {"idle", "wait", "timed_out", "grace", "listed"}
  /\ queue \subseteq Request
  /\ job \in 0 .. MaxPosts
  /\ phase \in {"start", "work", "swapped", "snapped", "give"}
  /\ busy \in BOOLEAN
  /\ rendered \in 0 .. MaxPosts
  /\ active_name \in 0 .. MaxPosts
  /\ {held_name, late_name} \subseteq 0 .. MaxPosts \cup {None}
  /\ seen \in [Request -> 0 .. MaxPosts]
  /\ selected \in 0 .. MaxPosts

Init ==
  /\ posts = 0
  /\ kind = [r \in Request |-> None]
  /\ hop = [r \in Request |-> "pending"]
  /\ sem = [r \in Request |-> FALSE]
  /\ result = [r \in Request |-> None]
  /\ reply = [r \in Request |-> None]
  /\ cur = Nobody /\ pc = "idle"
  /\ queue = {}
  /\ job = Nobody /\ phase = "start"
  /\ busy = FALSE
  /\ rendered = 0 /\ active_name = 0 /\ held_name = 0 /\ late_name = 0
  /\ seen = [r \in Request |-> 0]
  /\ selected = 0

------------------------------------------------------------------------------
(* The httpd task. *)

(* ui::post() from a task that is not the UI task. *)
Post(k) ==
  /\ posts < MaxPosts
  /\ posts' = posts + 1
  /\ kind' = [kind EXCEPT ![posts + 1] = k]
  /\ queue' = queue \cup {posts + 1}

Reply(a) ==
  /\ reply' = [reply EXCEPT ![cur] = a]
  /\ cur' = Nobody /\ pc' = "idle"

(* What this task finds in the UI task's string: the name, or, should the  *)
(* read meet the assignment, the old one, the new one or neither.          *)
NameRead == IF phase = "swapped" THEN {active_name, job, None} ELSE {active_name}

(* A request whose lambda is posted.  A screenshot takes the busy flag     *)
(* first; /hello copies the name into its answer.                          *)
Ask(k) ==
  /\ cur = Nobody
  /\ k = "shot" => ~busy
  /\ Post(k)
  /\ cur' = posts + 1 /\ pc' = "wait"
  /\ busy' = (busy \/ k = "shot")
  /\ held_name' \in IF k = "hello" THEN NameRead ELSE {held_name}
  /\ UNCHANGED <<hop, sem, result, reply, job, phase, late_name, seen>>
  /\ UNCHANGED layoutVars

(* A second screenshot: 429, nothing posted. *)
AskWhileBusy ==
  /\ cur = Nobody /\ busy
  /\ posts < MaxPosts
  /\ posts' = posts + 1
  /\ kind' = [kind EXCEPT ![posts + 1] = "shot"]
  /\ reply' = [reply EXCEPT ![posts + 1] = "429"]
  /\ UNCHANGED <<hop, sem, result, queue, job, phase, busy, seen>>
  /\ UNCHANGED httpdVars /\ UNCHANGED layoutVars

(* BusyGuard's destructor. *)
ReleaseBusy == busy' = (busy /\ kind[cur] # "shot")

(* xSemaphoreTake() succeeds: the lambda has run, its result is the answer. *)
(* /hello takes the screens and has more to write.                         *)
Taken ==
  /\ pc \in {"wait", "grace"} /\ sem[cur]
  /\ sem' = [sem EXCEPT ![cur] = FALSE]
  /\ \/ kind[cur] # "hello"
        /\ Reply(IF kind[cur] \in {"layout", "screen"} THEN result[cur] ELSE "ok")
     \/ kind[cur] = "hello" /\ pc' = "listed" /\ UNCHANGED <<reply, cur>>
  /\ ReleaseBusy
  /\ UNCHANGED <<posts, kind, hop, result, queue, job, phase, held_name, late_name, seen>>
  /\ UNCHANGED layoutVars

(* The rest of hello_get(): it reads the name once more and answers.       *)
NameAgain(a) == late_name' \in NameRead /\ Reply(a)

NameListed ==
  /\ pc = "listed"
  /\ NameAgain("ok")
  /\ UNCHANGED <<posts, kind, hop, sem, result, queue, job, phase, busy, held_name, seen>>
  /\ UNCHANGED layoutVars

(* It times out; what the handler does next is a step of its own, and the  *)
(* lambda may get in between.                                              *)
TimeOut ==
  /\ pc = "wait" /\ ~sem[cur]
  /\ pc' = "timed_out"
  /\ UNCHANGED <<posts, kind, hop, sem, result, reply, cur, queue, job, phase, busy,
                 held_name, late_name, seen>>
  /\ UNCHANGED layoutVars

(* Mutant: the handler reports a timeout without looking at the state. *)
MayAbandonAnyway(r) == TRUE

(* compare_exchange(kPending, kAbandoned) succeeds. *)
MayAbandon(r) == hop[r] = "pending"

Abandon == hop' = [hop EXCEPT ![cur] = "abandoned"]

(* Mutant: the guard releases the flag although the snapshot is queued. *)
HandOverNever == busy' = FALSE

(* The snapshot that nobody waits for keeps the flag. *)
HandOver == UNCHANGED busy

GiveUpLayout ==
  /\ kind[cur] = "layout"
  /\ \/ MayAbandon(cur) /\ Abandon /\ Reply("not_applied")
     \/ ~MayAbandon(cur) /\ pc' = "grace" /\ UNCHANGED <<hop, reply, cur>>
  /\ UNCHANGED <<busy, late_name>>

GiveUpShot ==
  /\ kind[cur] = "shot"
  /\ \/ MayAbandon(cur) /\ Abandon /\ HandOver
     \/ ~MayAbandon(cur) /\ UNCHANGED hop /\ ReleaseBusy
  /\ Reply("504")
  /\ UNCHANGED late_name

GiveUpRest ==
  /\ \/ kind[cur] = "screen" /\ Reply("504") /\ UNCHANGED late_name
     \/ kind[cur] = "hello" /\ NameAgain("partial")
  /\ UNCHANGED <<hop, busy>>

GiveUp ==
  /\ pc = "timed_out"
  /\ GiveUpLayout \/ GiveUpShot \/ GiveUpRest
  /\ UNCHANGED <<posts, kind, sem, result, queue, job, phase, held_name, seen>>
  /\ UNCHANGED layoutVars

(* The apply was claimed and does not finish in time either. *)
GraceOver ==
  /\ pc = "grace" /\ ~sem[cur]
  /\ Reply("still_running")
  /\ UNCHANGED <<posts, kind, hop, sem, result, queue, job, phase, busy, held_name,
                 late_name, seen>>
  /\ UNCHANGED layoutVars

(* The fetch task: a layout nobody waits for. *)
Fetch ==
  /\ Post("fetch")
  /\ UNCHANGED <<hop, sem, result, reply, job, phase, busy, seen>>
  /\ UNCHANGED httpdVars /\ UNCHANGED layoutVars

Httpd == Taken \/ NameListed \/ TimeOut \/ GiveUp \/ GraceOver

------------------------------------------------------------------------------
(* The UI task. *)

Front(r) == \A q \in queue : r <= q

(* drain_queue() takes the front lambda. *)
Begin ==
  /\ job = Nobody
  /\ \E r \in queue : Front(r) /\ job' = r /\ queue' = queue \ {r}
  /\ phase' = "start"
  /\ UNCHANGED <<posts, kind, hop, sem, result, reply, busy, seen>>
  /\ UNCHANGED httpdVars /\ UNCHANGED layoutVars

(* compare_exchange(kPending, kRunning) succeeds. *)
MayClaim(r) == hop[r] = "pending"

(* The lambda of layout_post() claims the work, or finds it given up.      *)
Claim ==
  /\ phase = "start"
  /\ kind[job] = "layout"
  /\ \/ MayClaim(job) /\ hop' = [hop EXCEPT ![job] = "running"] /\ phase' = "work"
     \/ ~MayClaim(job) /\ phase' = "give" /\ UNCHANGED hop
  /\ UNCHANGED <<posts, kind, sem, result, reply, queue, job, busy, seen>>
  /\ UNCHANGED httpdVars /\ UNCHANGED layoutVars

Applying ==
  \/ phase = "work"
  \/ phase = "start" /\ kind[job] = "fetch"

(* Mutant: the name is set before the layout is known to build. *)
RefuseNamed ==
  /\ job # Nobody /\ Applying
  /\ result' = [result EXCEPT ![job] = "refused"]
  /\ active_name' = job
  /\ phase' = "give"
  /\ UNCHANGED <<posts, kind, hop, sem, reply, queue, job, busy, rendered, seen, selected>>
  /\ UNCHANGED httpdVars

(* LayoutManager::apply() fails: the previous layout stays. *)
Refuse ==
  /\ job # Nobody /\ Applying
  /\ result' = [result EXCEPT ![job] = "refused"]
  /\ phase' = "give"
  /\ UNCHANGED <<posts, kind, hop, sem, reply, queue, job, busy, seen>>
  /\ UNCHANGED httpdVars /\ UNCHANGED layoutVars

(* It swaps the new tree in, persists it, and only then sets the name. *)
SwapIn ==
  /\ job # Nobody /\ Applying
  /\ rendered' = job
  /\ phase' = "swapped"
  /\ UNCHANGED <<posts, kind, hop, sem, result, reply, queue, job, busy, active_name,
                 seen, selected>>
  /\ UNCHANGED httpdVars

SetName ==
  /\ phase = "swapped"
  /\ active_name' = job
  /\ result' = [result EXCEPT ![job] = "ok"]
  /\ phase' = "give"
  /\ UNCHANGED <<posts, kind, hop, sem, reply, queue, job, busy, rendered, seen, selected>>
  /\ UNCHANGED httpdVars

(* take_screenshot() *)
Snap ==
  /\ phase = "start" /\ kind[job] = "shot"
  /\ phase' = "snapped"
  /\ UNCHANGED <<posts, kind, hop, sem, result, reply, queue, job, busy, seen>>
  /\ UNCHANGED httpdVars /\ UNCHANGED layoutVars

(* Mutant: the lambda leaves the flag to a handler that is gone. *)
InheritsNever(r) == FALSE

(* compare_exchange(kPending, kDone) fails: the flag is the lambda's. *)
Inherits(r) == hop[r] # "pending"

Report ==
  /\ phase = "snapped"
  /\ hop' = [hop EXCEPT ![job] = IF @ = "pending" THEN "done" ELSE @]
  /\ busy' = (busy /\ ~Inherits(job))
  /\ phase' = "give"
  /\ UNCHANGED <<posts, kind, sem, result, reply, queue, job, seen>>
  /\ UNCHANGED httpdVars /\ UNCHANGED layoutVars

(* The lambda of screen_post(): nothing asks whether it is still wanted. *)
Select ==
  /\ phase = "start" /\ kind[job] = "screen"
  /\ \/ result' = [result EXCEPT ![job] = "ok"] /\ selected' = job
     \/ result' = [result EXCEPT ![job] = "refused"] /\ UNCHANGED selected
  /\ phase' = "give"
  /\ UNCHANGED <<posts, kind, hop, sem, reply, queue, job, busy, rendered, active_name, seen>>
  /\ UNCHANGED httpdVars

(* The lambda of hello_get(): the screens of the layout on the panel. *)
ReadScreens ==
  /\ phase = "start" /\ kind[job] = "hello"
  /\ seen' = [seen EXCEPT ![job] = rendered]
  /\ phase' = "give"
  /\ UNCHANGED <<posts, kind, hop, sem, result, reply, queue, job, busy>>
  /\ UNCHANGED httpdVars /\ UNCHANGED layoutVars

Give ==
  /\ phase = "give"
  /\ sem' = IF kind[job] = "fetch" THEN sem ELSE [sem EXCEPT ![job] = TRUE]
  /\ job' = Nobody /\ phase' = "start"
  /\ UNCHANGED <<posts, kind, hop, result, reply, queue, busy, seen>>
  /\ UNCHANGED httpdVars /\ UNCHANGED layoutVars

OnUi ==
  \/ Begin
  \/ job # Nobody /\ (Claim \/ Refuse \/ SwapIn \/ SetName \/ Snap \/ Report
                      \/ Select \/ ReadScreens \/ Give)

(* The bound is used up and everything is answered. *)
AllDone ==
  /\ posts = MaxPosts /\ cur = Nobody /\ job = Nobody /\ queue = {}
  /\ UNCHANGED vars

Next ==
  \/ \E k \in Asked : Ask(k)
  \/ AskWhileBusy
  \/ Fetch
  \/ Httpd
  \/ OnUi
  \/ AllDone

Spec == Init /\ [][Next]_vars

(* Semaphores time out, whatever the UI task does. *)
HttpdSpec == Spec /\ WF_vars(Httpd)

------------------------------------------------------------------------------
(* The abstract push service, with what became of each push read off the   *)
(* hop's state and the result.                                             *)
FateOf(r) ==
  IF kind[r] # "layout" THEN "unborn"
  ELSE IF hop[r] = "abandoned" THEN "dropped"
  ELSE IF hop[r] = "pending" THEN "waiting"
  ELSE IF result[r] = None THEN "started"
  ELSE IF result[r] = "ok" THEN "applied" ELSE "refused"

ToldOf(r) == IF kind[r] = "layout" THEN reply[r] ELSE None

Service == INSTANCE PushService WITH
  Push <- Request,
  fate <- [r \in Request |-> FateOf(r)],
  told <- [r \in Request |-> ToldOf(r)]

(* PushSpec: the hop implements the push service: a client that was told   *)
(* "not_applied", "ok" or "still_running" was told the truth for good, and *)
(* pushes start in order (http_api.cpp:130-132, JLP-PROTOCOL.md:89-90).    *)
PushSpec == Service!Spec

(* The snapshots the UI task has yet to finish. *)
Snapshots ==
  {r \in queue \cup {job} : r # Nobody /\ kind[r] = "shot" /\ ~(r = job /\ phase = "give")}

(* SingleFlight: at most one snapshot is queued or running, however many   *)
(* handlers gave up, and the flag is up while there is one                 *)
(* (http_api.cpp:525-538).                                                 *)
SingleFlight == Cardinality(Snapshots) <= 1 /\ (Snapshots # {} => busy)

(* Answered: every request is answered although the UI task may never come *)
(* back to its queue.                                                      *)
Answered == \A r \in Request : kind[r] \in Asked ~> reply[r] # None

(* BusyReleased: if the UI task comes back to its queue (a lambda that     *)
(* never returned would starve the watchdog, which restarts the panel),    *)
(* the busy flag never stays up, whoever was to lower it.                  *)
BusyReleased == WF_vars(OnUi) => (busy ~> ~busy)

(* HandlersFinish: no request hangs, and none leaves the flag behind.      *)
HandlersFinish == Answered /\ BusyReleased

(* A complete /hello answer, in the step that gives it.                    *)
Listed(r) == kind[r] = "hello" /\ reply[r] = None /\ reply'[r] = "ok"

(* HelloBrackets: the two names of a complete /hello answer enclose its    *)
(* screens: `name` is never that of a later layout, `active_layout_name`   *)
(* never that of an earlier one, a read that met the assignment aside.  So *)
(* where both agree they are the name of the screens, whatever was pushed  *)
(* or fetched in between (http_api.cpp:772, 841).                          *)
HelloBrackets ==
  [][\A r \in Request : Listed(r) =>
       /\ held_name # None => held_name <= seen[r]
       /\ late_name' # None => seen[r] <= late_name']_vars

(* What the protocol says and the code does not do. *)

(* SwitchIsImmediate: a select takes effect before its request is          *)
(* answered.  JLP-PROTOCOL.md:122.                                         *)
SwitchIsImmediate == [][selected' # selected => reply[selected'] = None]_vars

(* HelloNamesItsScreens: the layout /hello names is the one whose screens  *)
(* it lists.  JLP-PROTOCOL.md:57.                                          *)
HelloNamesItsScreens == [][\A r \in Request : Listed(r) => late_name' = seen[r]]_vars
==============================================================================
