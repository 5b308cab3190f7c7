--------------------------- MODULE ServerLifecycle ---------------------------
(***************************************************************************)
(* One server instance (crates/core/src/server/instance.rs): the connect   *)
(* and disconnect requests the daemon serves, each a task of its own, and  *)
(* the connection monitor they start and abort, which reconnects when the  *)
(* session was lost.  All of them share the status, the SSH handle and the *)
(* slot for the monitor, each behind a lock held for one access only.      *)
(*                                                                         *)
(* Tasks run on several worker threads: abort() stops a task where it      *)
(* waits, but one that a worker is polling runs on until it next waits.    *)
(* Port forwarding, which the same operations restart, is PortForward; the *)
(* proxy, IP detection, health checks and interval timers, started and     *)
(* stopped between the steps below, are left out: no status, handle or     *)
(* monitor depends on them.  The model has auto_reconnect enabled.         *)
(***************************************************************************)
EXTENDS Naturals

CONSTANTS
  Requests,     \* tasks that serve connect and disconnect requests
  Monitors,     \* connection monitor tasks; one that ended is used again
  NoMonitor,         \* no task
  MaxAttempts   \* attempts that fit into reconnect_timeout_secs

ASSUME ServerLifecycleAssumption ==
  /\ NoMonitor \notin Monitors
  /\ MaxAttempts \in Nat \ {0}

VARIABLES
  status,      \* ServerInstance.status
  handle,      \* the SSH client's handle: none, up, or closed by the peer
  monTask,     \* connection_monitor_task
  request,     \* where each request is
  spawned,     \* the monitor a request has spawned and not yet stored
  monitor,     \* where each monitor is
  attempts,    \* attempts of the reconnection a monitor is at
  aborted,     \* abort() was called on it
  displaced    \* history: it was stored by one of two connects that overlapped
               \* in start_connection_monitor

shared == <<status, handle>>
tasks  == <<monitor, attempts, aborted, displaced>>
lifecycleVars   == <<shared, monTask, request, spawned, tasks>>

Statuses == {"Disconnected", "Connecting", "Connected", "Reconnecting",
             "AuthFailed", "Error"}

\* Where a monitor waits, so that an abort stops it.
Waiting == {"sleep", "dial", "restore"}

LifecycleTypeOK ==
  /\ status \in Statuses
  /\ handle \in {"none", "up", "closed"}
  /\ monTask \in Monitors \cup {NoMonitor}
  /\ request \in [Requests -> {"idle", "dial", "status", "stopMonitor", "spawn",
                              "store", "close", "down"}]
  /\ spawned \in [Requests -> Monitors \cup {NoMonitor}]
  /\ monitor \in [Monitors -> Waiting \cup
                   {"ended", "lost", "mark", "store", "status"}]
  /\ attempts \in [Monitors -> 0 .. MaxAttempts]
  /\ aborted \in [Monitors -> BOOLEAN]
  /\ displaced \subseteq Monitors

LifecycleInit ==
  /\ status = "Disconnected" /\ handle = "none"
  /\ monTask = NoMonitor
  /\ request = [q \in Requests |-> "idle"]
  /\ spawned = [q \in Requests |-> NoMonitor]
  /\ monitor = [m \in Monitors |-> "ended"]
  /\ attempts = [m \in Monitors |-> 0]
  /\ aborted = [m \in Monitors |-> FALSE]
  /\ displaced = {}

RequestMoves(q, from, to) ==
  request[q] = from /\ request' = [request EXCEPT ![q] = to]

MonitorMoves(m, from, to) ==
  monitor[m] = from /\ monitor' = [monitor EXCEPT ![m] = to]

\* stop_connection_monitor: take the task out of its slot and abort it, which
\* does nothing to one that has ended.
StopMonitor ==
  /\ monTask' = NoMonitor
  /\ aborted' = [m \in Monitors |-> aborted[m] \/ (m = monTask /\ monitor[m] # "ended")]

-----------------------------------------------------------------------------
(* connect, and start_connection_monitor after it.                          *)

ConnectBegin(q) ==
  /\ RequestMoves(q, "idle", "dial")
  /\ status' = "Connecting"
  /\ UNCHANGED <<handle, monTask, spawned, tasks>>

\* The new handle replaces the one there was.
ConnectDialled(q) ==
  /\ RequestMoves(q, "dial", "status")
  /\ handle' = "up"
  /\ UNCHANGED <<status, monTask, spawned, tasks>>

ConnectFailed(q) ==
  /\ RequestMoves(q, "dial", "idle")
  /\ status' \in {"AuthFailed", "Error"}
  /\ UNCHANGED <<handle, monTask, spawned, tasks>>

ConnectStatus(q) ==
  /\ RequestMoves(q, "status", "stopMonitor")
  /\ status' = "Connected"
  /\ UNCHANGED <<handle, monTask, spawned, tasks>>

\* Mutant: the old monitor is left running.
ConnectStopsNoMonitor(q) ==
  /\ RequestMoves(q, "stopMonitor", "spawn")
  /\ UNCHANGED <<shared, monTask, spawned, tasks>>

ConnectStopsMonitor(q) ==
  /\ RequestMoves(q, "stopMonitor", "spawn")
  /\ StopMonitor
  /\ UNCHANGED <<shared, spawned, monitor, attempts, displaced>>

ConnectSpawnsMonitor(q) ==
  /\ RequestMoves(q, "spawn", "store")
  /\ \E m \in Monitors :
       /\ monitor[m] = "ended" /\ monTask # m /\ \A p \in Requests : spawned[p] # m
       /\ spawned' = [spawned EXCEPT ![q] = m]
       /\ monitor' = [monitor EXCEPT ![m] = "sleep"]
       /\ aborted' = [aborted EXCEPT ![m] = FALSE]
       /\ displaced' = displaced \ {m}
  /\ UNCHANGED <<shared, monTask, attempts>>

\* Another connect has emptied the slot too, and has yet to store its monitor.
Overlaps(q) == \E p \in Requests \ {q} : request[p] \in {"spawn", "store"}

\* A monitor stored meanwhile by another request is overwritten, not aborted.
ConnectStoresMonitor(q) ==
  /\ RequestMoves(q, "store", "idle")
  /\ monTask' = spawned[q]
  /\ spawned' = [spawned EXCEPT ![q] = NoMonitor]
  /\ displaced' = IF Overlaps(q) THEN displaced \cup {spawned[q]} ELSE displaced
  /\ UNCHANGED <<shared, monitor, attempts, aborted>>

-----------------------------------------------------------------------------
(* disconnect: the monitor, the session, and last the status.               *)

DisconnectBegin(q) ==
  /\ RequestMoves(q, "idle", "close")
  /\ StopMonitor
  /\ UNCHANGED <<shared, spawned, monitor, attempts, displaced>>

DisconnectSession(q) ==
  /\ RequestMoves(q, "close", "down")
  /\ handle' = "none"
  /\ UNCHANGED <<status, monTask, spawned, tasks>>

DisconnectStatus(q) ==
  /\ RequestMoves(q, "down", "idle")
  /\ status' = "Disconnected"
  /\ UNCHANGED <<handle, monTask, spawned, tasks>>

SessionLost ==
  /\ handle = "up" /\ handle' = "closed"
  /\ UNCHANGED <<status, monTask, request, spawned, tasks>>

-----------------------------------------------------------------------------
(* The connection monitor.                                                  *)

\* It wakes, after 5 s or more, and goes on only when the session is not up.
\* By then a monitor that was aborted while being polled has stopped.
MonitorWakes(m) ==
  /\ ~aborted[m] /\ handle # "up"
  /\ \A n \in Monitors : aborted[n] => monitor[n] = "ended"
  /\ MonitorMoves(m, "sleep", "lost")
  /\ UNCHANGED <<shared, monTask, request, spawned, attempts, aborted, displaced>>

\* It reads the status; a server that was disconnected on purpose is left alone.
MonitorChecks(m) ==
  /\ MonitorMoves(m, "lost", IF status = "Disconnected" THEN "ended" ELSE "mark")
  /\ UNCHANGED <<shared, monTask, request, spawned, attempts, aborted, displaced>>

MonitorMarks(m) ==
  /\ MonitorMoves(m, "mark", "dial")
  /\ status' = "Reconnecting"
  /\ UNCHANGED <<handle, monTask, request, spawned, attempts, aborted, displaced>>

MonitorDialFails(m) ==
  /\ ~aborted[m] /\ monitor[m] = "dial" /\ attempts[m] < MaxAttempts
  /\ attempts' = [attempts EXCEPT ![m] = @ + 1]
  /\ UNCHANGED <<shared, monTask, request, spawned, monitor, aborted, displaced>>

\* reconnect_timeout_secs has passed.
MonitorGivesUp(m) ==
  /\ ~aborted[m] /\ attempts[m] = MaxAttempts
  /\ MonitorMoves(m, "dial", "ended")
  /\ status' = "Error"
  /\ attempts' = [attempts EXCEPT ![m] = 0]
  /\ UNCHANGED <<handle, monTask, request, spawned, aborted, displaced>>

\* The attempt succeeded: its last await has returned, the handle is stored next.
MonitorDialled(m) ==
  /\ ~aborted[m] /\ attempts[m] < MaxAttempts
  /\ MonitorMoves(m, "dial", "store")
  /\ attempts' = [attempts EXCEPT ![m] = 0]
  /\ UNCHANGED <<shared, monTask, request, spawned, aborted, displaced>>

MonitorStores(m) ==
  /\ MonitorMoves(m, "store", "status")
  /\ handle' = "up"
  /\ UNCHANGED <<status, monTask, request, spawned, attempts, aborted, displaced>>

MonitorStatus(m) ==
  /\ MonitorMoves(m, "status", "restore")
  /\ status' = "Connected"
  /\ UNCHANGED <<handle, monTask, request, spawned, attempts, aborted, displaced>>

\* Mutant: a monitor that reconnected once stops watching.
MonitorRestoresThenEnds(m) ==
  /\ ~aborted[m]
  /\ MonitorMoves(m, "restore", "ended")
  /\ UNCHANGED <<shared, monTask, request, spawned, attempts, aborted, displaced>>

\* Proxy, forwards, IP detection and timers are started again; it watches on.
MonitorRestores(m) ==
  /\ ~aborted[m]
  /\ MonitorMoves(m, "restore", "sleep")
  /\ UNCHANGED <<shared, monTask, request, spawned, attempts, aborted, displaced>>

\* An aborted monitor ends where it waits, or at a lock it has to wait for.
MonitorDies(m) ==
  /\ aborted[m] /\ monitor[m] # "ended"
  /\ monitor' = [monitor EXCEPT ![m] = "ended"]
  /\ attempts' = [attempts EXCEPT ![m] = 0]
  /\ aborted' = [aborted EXCEPT ![m] = FALSE]
  /\ UNCHANGED <<shared, monTask, request, spawned, displaced>>

-----------------------------------------------------------------------------

RequestGoesOn(q) ==
  \/ ConnectDialled(q) \/ ConnectFailed(q) \/ ConnectStatus(q)
  \/ ConnectStopsMonitor(q) \/ ConnectSpawnsMonitor(q) \/ ConnectStoresMonitor(q)
  \/ DisconnectSession(q) \/ DisconnectStatus(q)

MonitorStep(m) ==
  \/ MonitorWakes(m) \/ MonitorChecks(m) \/ MonitorMarks(m)
  \/ MonitorDialFails(m) \/ MonitorGivesUp(m) \/ MonitorDialled(m)
  \/ MonitorStores(m) \/ MonitorStatus(m) \/ MonitorRestores(m) \/ MonitorDies(m)

LifecycleNext ==
  \/ \E q \in Requests : ConnectBegin(q) \/ DisconnectBegin(q) \/ RequestGoesOn(q)
  \/ \E m \in Monitors : MonitorStep(m)
  \/ SessionLost

LifecycleSpec == LifecycleInit /\ [][LifecycleNext]_lifecycleVars

\* The runtime polls every task; a dial attempt ends within its timeouts.
FairLifecycleSpec ==
  /\ LifecycleSpec
  /\ \A q \in Requests : WF_lifecycleVars(RequestGoesOn(q))
  /\ \A m \in Monitors : WF_lifecycleVars(MonitorStep(m))

-----------------------------------------------------------------------------
(* Properties                                                               *)

\* disconnect can stop every monitor: one that runs and was not aborted is in
\* connection_monitor_task, or on its way there.  Only a connect that overlaps
\* with another one in start_connection_monitor, which empties the slot and
\* fills it under two locks, leaves a monitor that no disconnect reaches.
MonitorsTracked ==
  \A m \in Monitors \ displaced : monitor[m] # "ended" /\ ~aborted[m] =>
    monTask = m \/ \E q \in Requests : spawned[q] = m

NoRequest == \A q \in Requests : request[q] = "idle"

\* Nobody works on the server, and its monitor was installed by connects that
\* did not overlap; yet it says Connected over a session that is gone.
Unnoticed ==
  /\ NoRequest /\ monTask # NoMonitor /\ displaced = {}
  /\ status = "Connected" /\ handle # "up"

\* A session that drops while nobody works on the server is noticed, whatever
\* requests overlapped before: the status does not go on saying Connected over
\* a dead handle.  (Two connects that overlap can leave two monitors, and an
\* aborted one may write Connected after the other one has given up.)
LossNoticed == Unnoticed ~> ~Unnoticed

-----------------------------------------------------------------------------
(* The inductive invariant behind MonitorsTracked.                          *)

\* While a request is about to install a monitor, the slot is empty or holds
\* one stored by a request it overlaps with; and each has spawned its own.
SlotFree ==
  \A q \in Requests :
    /\ request[q] \in {"spawn", "store"} => monTask = NoMonitor \/ monTask \in displaced
    /\ spawned[q] # NoMonitor <=> request[q] = "store"

TrackInv == LifecycleTypeOK /\ SlotFree /\ MonitorsTracked
=============================================================================
