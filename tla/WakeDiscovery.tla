---------------------------- MODULE WakeDiscovery ----------------------------
(***************************************************************************)
(* Where the wake word is detected: main/jlp/net/wake_discover.cpp, and    *)
(* its caller sk_stream_up() of main/app_main.cpp.  A connect to a server  *)
(* starts a task that asks it for its wake service until that is ready,    *)
(* and then points the satellite there.                                    *)
(*                                                                         *)
(* The task reads the selected server, and the request goes to the         *)
(* selected server; which one that is, is espOS's to change at any time.   *)
(***************************************************************************)
EXTENDS Naturals

CONSTANTS
  Servers,
  NoServer,
  MaxSelects   \* bound: servers selected, and changes of a service's state

ASSUME ServersAssumption == NoServer \notin Servers /\ MaxSelects \in Nat

VARIABLES
  selected,    \* the server of espos_sk_get_server()
  stream,      \* its stream is connected
  ready,       \* the servers whose wake service is ready
  selects,     \* changes so far
  s_discovered_for,
  s_running,
  at,          \* where discover_task() is
  srv,         \* its srv
  wake,        \* the host of set_wake_network()
  answered,    \* history: servers that said "ready", the last of them in from
  from,
  crossed,     \* history: another server than the wake host answered for it
  spoiled      \* history: what keeps the task from the server now selected

wakeVars == <<selected, stream, ready, selects, s_discovered_for, s_running, at, srv,
              wake, answered, from, crossed, spoiled>>

WakeTypeOK ==
  /\ {selected, s_discovered_for, srv, wake, from} \subseteq Servers \cup {NoServer}
  /\ {stream, s_running, crossed, spoiled} \subseteq BOOLEAN
  /\ ready \subseteq Servers /\ answered \subseteq Servers
  /\ selects \in 0 .. MaxSelects
  /\ at \in {"none", "try", "ask", "switch", "end"}
  /\ s_running = (at # "none")

WakeInit ==
  /\ selected = NoServer /\ stream = FALSE
  /\ ready = {} /\ selects = 0
  /\ s_discovered_for = NoServer /\ s_running = FALSE
  /\ at = "none" /\ srv = NoServer
  /\ wake = NoServer
  /\ answered = {} /\ from = NoServer /\ crossed = FALSE /\ spoiled = FALSE

taskVars == <<s_discovered_for, s_running, at, srv, wake, answered, from, crossed, spoiled>>

-----------------------------------------------------------------------------
(* espOS and the servers (external). *)

\* mDNS or the operator selects another server.
Reselect(s) ==
  /\ selects < MaxSelects
  /\ s # selected
  /\ selects' = selects + 1
  /\ selected' = s /\ stream' = FALSE
  /\ UNCHANGED ready /\ UNCHANGED taskVars

Disconnect ==
  /\ stream /\ selects < MaxSelects
  /\ selects' = selects + 1
  /\ stream' = FALSE
  /\ UNCHANGED <<selected, ready>> /\ UNCHANGED taskVars

\* A server's wake service comes up, or goes.
ServiceChanges(s) ==
  /\ selects < MaxSelects
  /\ selects' = selects + 1
  /\ ready' = IF s \in ready THEN ready \ {s} ELSE ready \cup {s}
  /\ UNCHANGED <<selected, stream>> /\ UNCHANGED taskVars

-----------------------------------------------------------------------------
\* Mutant: a server that was asked before is not asked again.
ShallStartOnce == ~s_running /\ s_discovered_for = NoServer

\* The early returns of wake_discover_start().
ShallStart == ~s_running /\ s_discovered_for # selected

\* sk_stream_up(), wake_discover_start(): the task may not get its stack.
Connect ==
  /\ selected # NoServer /\ ~stream
  /\ stream' = TRUE
  /\ \/ /\ ShallStart
        /\ s_discovered_for' = selected
        /\ s_running' = TRUE /\ at' = "try"
        /\ spoiled' = FALSE
     \/ /\ ShallStart
        /\ s_discovered_for' = NoServer
        /\ spoiled' = TRUE
        /\ UNCHANGED <<s_running, at>>
     \/ /\ ~ShallStart
        /\ spoiled' = (spoiled \/ (at = "end" /\ srv # selected))
        /\ UNCHANGED <<s_discovered_for, s_running, at>>
  /\ UNCHANGED <<selected, ready, selects, srv, wake, answered, from, crossed>>

\* An attempt of the loop of discover_task(), after its delay.
TakeServer ==
  /\ at = "try"
  /\ selected # NoServer
  /\ srv' = selected /\ at' = "ask"
  /\ UNCHANGED <<selected, stream, ready, selects, s_discovered_for, s_running, wake,
                 answered, from, crossed, spoiled>>

\* Mutant: whatever the server says is taken for "ready".
FetchAny ==
  /\ at = "ask"
  /\ at' = "switch" /\ from' = selected
  /\ UNCHANGED <<selected, stream, ready, selects, s_discovered_for, s_running, srv, wake,
                 answered, crossed, spoiled>>

\* fetch_status() and what is made of the answer: anything but "ready", and a
\* request that fails, is another attempt.
FetchStatus ==
  /\ at = "ask"
  /\ \/ /\ selected \in ready
        /\ at' = "switch"
        /\ from' = selected /\ answered' = answered \cup {selected}
        /\ UNCHANGED spoiled
     \/ /\ at' = "try"
        /\ spoiled' = (spoiled \/ selected \in ready)
        /\ UNCHANGED <<from, answered>>
  /\ UNCHANGED <<selected, stream, ready, selects, s_discovered_for, s_running, srv, wake,
                 crossed>>

\* set_wake_network() of the server read before the request; it may fail.  A
\* host that does not resolve is another attempt.
SetWake ==
  /\ at = "switch"
  /\ \/ /\ at' = "end"
        /\ wake' = srv /\ crossed' = (srv # from)
        /\ spoiled' = (srv # selected \/ srv # s_discovered_for)
     \/ at' \in {"end", "try"} /\ spoiled' = TRUE /\ UNCHANGED <<wake, crossed>>
  /\ UNCHANGED <<selected, stream, ready, selects, s_discovered_for, s_running, srv,
                 answered, from>>

EndTask ==
  /\ at = "end"
  /\ at' = "none" /\ s_running' = FALSE
  /\ UNCHANGED <<selected, stream, ready, selects, s_discovered_for, srv, wake, answered,
                 from, crossed, spoiled>>

DiscoverTask == TakeServer \/ FetchStatus \/ SetWake \/ EndTask

WakeNext ==
  \/ \E s \in Servers : Reselect(s) \/ ServiceChanges(s)
  \/ Disconnect \/ Connect
  \/ DiscoverTask

\* espOS connects to the server it selected, the task runs.
WakeFairness == WF_wakeVars(Connect) /\ WF_wakeVars(DiscoverTask)

WakeSpec == WakeInit /\ [][WakeNext]_wakeVars /\ WakeFairness

-----------------------------------------------------------------------------
(***************************************************************************)
(* Properties.                                                             *)
(***************************************************************************)

\* The wake host is a server that said it is ready, unless the server was
\* changed between the reading of its name and the request.
WakeAnswered == wake \in answered \cup {NoServer} \/ crossed

\* In every state the types are right and the wake host has answered.
WakeInv == WakeTypeOK /\ WakeAnswered

\* When a server stays selected and its service stays ready, it becomes the
\* wake host, however late the service came up, unless a change of server fell
\* into the task's last steps, the task went to another server than it was
\* started for, or the task could not be started, or it failed at its last
\* attempt.
WakeFollowsServer ==
  \A s \in Servers :
    <>[](selected = s /\ s \in ready /\ ~spoiled) => <>[](wake = s)

-----------------------------------------------------------------------------
(***************************************************************************)
(* What the comments say and the code does not do.                         *)
(***************************************************************************)

\* "Re-runs when the SignalK server changes", so that the wake host does not
\* "stay on whichever server answered first" (wake_discover.cpp:186-189): a
\* connect to another server than the wake host starts a task, unless one runs
\* or it fails to start.
WakeRerunsOnChange ==
  [][~stream /\ stream' /\ ~s_running /\ wake \notin {selected, NoServer}
       => s_running' \/ s_discovered_for' = NoServer]_wakeVars
=============================================================================
