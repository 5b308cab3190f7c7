----------------------------- MODULE PortForward -----------------------------
(***************************************************************************)
(* Port forwarding of one server: PortForwardManager, LocalForwarder and   *)
(* RemoteForwarder (crates/core/src/proxy/port_forward.rs), the dispatcher *)
(* of forwarded-tcpip channels (ssh/forwarded_dispatch.rs), and the calls  *)
(* the server instance makes on them when its SSH session comes and goes   *)
(* (server/instance.rs).                                                   *)
(*                                                                         *)
(* A forwarder object and its background loop are one member of Fwd.  An   *)
(* identity whose loop has ended and which nobody refers to is reused for  *)
(* the next forwarder, so the model has no bound on the number of starts,  *)
(* only on the number of forwarders alive at once.  The tasks that copy    *)
(* bytes, and their counters, are left out.                                *)
(***************************************************************************)
EXTENDS Naturals

CONSTANTS
  Rules,        \* ids of the configured rules
  LocalRules,   \* those of type Local (-L); the others are Remote (-R)
  AutoRules,    \* those with enabled and auto_start
  Keys,         \* listening addresses
  KeyOf,        \* the (host, port) a rule listens on
  Fwd,          \* forwarder objects
  None,         \* no forwarder, no rule
  QueueCap      \* capacity of a receiver's mpsc channel (16 in the code)

ASSUME PortForwardAssumption ==
  /\ LocalRules \subseteq Rules
  /\ AutoRules \subseteq Rules
  /\ KeyOf \in [Rules -> Keys]
  /\ None \notin Fwd
  /\ None \notin Rules
  /\ QueueCap \in Nat \ {0}

VARIABLES
  forwarders,  \* PortForwardManager.forwarders: rule -> forwarder
  op,          \* the operation holding the lock on forwarders
  dropped,     \* history: forwarders a stop had taken when its task was aborted
  sup,         \* where the instance's connect / reconnect / disconnect is
  autoTodo,    \* rules start_auto_rules has not reached
  alive,       \* the SSH session is up
  pfHandle,    \* PortForwardManager.ssh_handle
  rule,        \* the rule a forwarder was built from
  cancelled,   \* its cancelled flag
  loop,        \* its background loop
  listener,    \* where its TcpListener is: nowhere, in the mutex, in the loop
  onSession,   \* its ssh_handle is the handle of the live session
  queue,       \* channels waiting in its receiver
  listening,   \* keys the SSH server listens on for the live session
  refused,     \* history: keys the server was asked to give up and still serves
  senders,     \* ForwardedDispatch.senders: key -> forwarder that receives
  inflight     \* the receiver a running dispatch() has cloned the sender of

mgrVars  == <<forwarders, op, dropped>>
supVars  == <<sup, autoTodo, alive, pfHandle>>
fwdVars  == <<rule, cancelled, loop, listener, onSession>>
chanVars == <<queue, listening, refused, senders, inflight>>
vars == <<mgrVars, supVars, fwdVars, chanVars>>

Idle == [kind |-> "idle", by |-> "task", todo |-> {}, cur |-> None]

RemoteRules == Rules \ LocalRules

TypeOK ==
  /\ forwarders \in [Rules -> Fwd \cup {None}]
  /\ op \in [kind: {"idle", "start", "stop"}, by: {"task", "monitor"},
              todo: SUBSET Fwd, cur: Fwd \cup {None}]
  /\ dropped \subseteq Fwd
  /\ sup \in {"idle", "stopping", "auto", "restart", "closing", "clearing"}
  /\ autoTodo \subseteq Rules
  /\ alive \in BOOLEAN
  /\ pfHandle \in {"none", "live", "stale"}
  /\ rule \in [Fwd -> Rules \cup {None}]
  /\ cancelled \in [Fwd -> BOOLEAN]
  /\ loop \in [Fwd -> {"done", "requesting", "spawned", "running", "leaving"}]
  /\ listener \in [Fwd -> {"none", "slot", "loop"}]
  /\ onSession \in [Fwd -> BOOLEAN]
  /\ queue \in [Fwd -> 0 .. QueueCap]
  /\ listening \subseteq Keys
  /\ refused \subseteq Keys
  /\ senders \in [Keys -> Fwd \cup {None}]
  /\ inflight \in Fwd \cup {None}

Init ==
  /\ forwarders = [r \in Rules |-> None]
  /\ op = Idle /\ dropped = {}
  /\ sup = "idle" /\ autoTodo = {}
  /\ alive = FALSE /\ pfHandle = "none"
  /\ rule = [f \in Fwd |-> None]
  /\ cancelled = [f \in Fwd |-> FALSE]
  /\ loop = [f \in Fwd |-> "done"]
  /\ listener = [f \in Fwd |-> "none"]
  /\ onSession = [f \in Fwd |-> FALSE]
  /\ queue = [f \in Fwd |-> 0]
  /\ listening = {} /\ refused = {}
  /\ senders = [k \in Keys |-> None]
  /\ inflight = None

KeyFor(f) == KeyOf[rule[f]]

\* A local key is taken as long as some accept loop or mutex holds its listener.
PortBound(k) == \E f \in Fwd : listener[f] # "none" /\ KeyFor(f) = k

\* Nobody refers to f any more.
Free(f) ==
  /\ loop[f] = "done" /\ inflight # f
  /\ \A r \in Rules : forwarders[r] # f
  /\ f # op.cur /\ f \notin op.todo

-----------------------------------------------------------------------------
(* start_rule: the lock is held from the duplicate check to the insertion.  *)

\* Mutant: no check that the rule is already in the map.
StartRefusedNoDup(r) ==
  \/ r \in LocalRules /\ PortBound(KeyOf[r])
  \/ r \in RemoteRules /\ pfHandle = "none"

\* start_rule refuses: already in the map, the port is taken, or no session.
StartRefused(r) ==
  \/ forwarders[r] # None
  \/ r \in LocalRules /\ PortBound(KeyOf[r])
  \/ r \in RemoteRules /\ pfHandle = "none"

\* A local rule binds its port, puts the listener into the mutex, spawns the
\* accept loop and enters the map.
StartLocal(r) ==
  /\ r \in LocalRules /\ op = Idle /\ ~StartRefused(r)
  /\ \E f \in Fwd :
       /\ Free(f)
       /\ rule' = [rule EXCEPT ![f] = r]
       /\ cancelled' = [cancelled EXCEPT ![f] = FALSE]
       /\ loop' = [loop EXCEPT ![f] = "spawned"]
       /\ listener' = [listener EXCEPT ![f] = "slot"]
       /\ onSession' = [onSession EXCEPT ![f] = FALSE]
       /\ forwarders' = [forwarders EXCEPT ![r] = f]
       /\ dropped' = dropped \ {f}
  /\ UNCHANGED <<op, chanVars>>

\* A remote rule sends tcpip_forward on the manager's handle and awaits the
\* answer with the lock held.
StartRemote(r, by) ==
  /\ r \in RemoteRules /\ op = Idle /\ ~StartRefused(r)
  /\ \E f \in Fwd :
       /\ Free(f)
       /\ rule' = [rule EXCEPT ![f] = r]
       /\ cancelled' = [cancelled EXCEPT ![f] = FALSE]
       /\ loop' = [loop EXCEPT ![f] = "requesting"]
       /\ onSession' = [onSession EXCEPT ![f] = pfHandle = "live"]
       /\ op' = [kind |-> "start", by |-> by, todo |-> {}, cur |-> f]
       /\ dropped' = dropped \ {f}
  /\ UNCHANGED <<forwarders, listener, chanVars>>

\* The server agrees to listen: the receive loop is spawned, the rule inserted.
ForwardAccepted ==
  /\ op.kind = "start"
  /\ onSession[op.cur] /\ KeyFor(op.cur) \notin listening
  /\ listening' = listening \cup {KeyFor(op.cur)}
  /\ loop' = [loop EXCEPT ![op.cur] = "spawned"]
  /\ forwarders' = [forwarders EXCEPT ![rule[op.cur]] = op.cur]
  /\ op' = Idle
  /\ UNCHANGED <<dropped, supVars, rule, cancelled, listener, onSession,
                 queue, refused, senders, inflight>>

\* Mutant: a request on a session that is gone is never failed.
ForwardRejectedOnLiveOnly ==
  /\ op.kind = "start" /\ onSession[op.cur]
  /\ loop' = [loop EXCEPT ![op.cur] = "done"]
  /\ op' = Idle
  /\ UNCHANGED <<forwarders, dropped, supVars, rule, cancelled, listener, onSession, chanVars>>

\* The server rejects the request, or the session of the handle is gone.
ForwardRejected ==
  /\ op.kind = "start"
  /\ loop' = [loop EXCEPT ![op.cur] = "done"]
  /\ op' = Idle
  /\ UNCHANGED <<forwarders, dropped, supVars, rule, cancelled, listener, onSession, chanVars>>

\* The lock is held by a task that serves a request, or by the monitor.
StartRule(r, by) == StartLocal(r) \/ StartRemote(r, by)

-----------------------------------------------------------------------------
(* stop_rule and stop_all: leave the map first, then stop one by one.       *)

\* Mutant: the map is emptied and its forwarders are dropped, not stopped.
BeginStopDropsAll(rs, by) ==
  /\ op = Idle
  /\ op' = [kind |-> "stop", by |-> by, todo |-> {}, cur |-> None]
  /\ forwarders' = [r \in Rules |-> IF r \in rs THEN None ELSE forwarders[r]]
  /\ UNCHANGED <<dropped, fwdVars, chanVars>>

BeginStop(rs, by) ==
  /\ op = Idle
  /\ op' = [kind |-> "stop", by |-> by,
            todo |-> {forwarders[r] : r \in rs} \ {None}, cur |-> None]
  /\ forwarders' = [r \in Rules |-> IF r \in rs THEN None ELSE forwarders[r]]
  /\ UNCHANGED <<dropped, fwdVars, chanVars>>

\* stop_shared: flag the loop, drop a listener still in the mutex; a remote
\* forwarder goes on to cancel the forwarding on the server.
StopFlag(f) ==
  /\ op.kind = "stop" /\ op.cur = None /\ f \in op.todo
  /\ cancelled' = [cancelled EXCEPT ![f] = TRUE]
  /\ listener' = [listener EXCEPT ![f] = IF @ = "slot" THEN "none" ELSE @]
  /\ op' = [op EXCEPT !.todo = @ \ {f},
                      !.cur = IF rule[f] \in RemoteRules THEN f ELSE None]
  /\ UNCHANGED <<forwarders, dropped, supVars, rule, loop, onSession, chanVars>>

\* Mutant: the forwarding is not cancelled on the server.
CancelForwardSkipped ==
  /\ op.kind = "stop" /\ op.cur # None
  /\ op' = [op EXCEPT !.cur = None]
  /\ UNCHANGED <<forwarders, dropped, supVars, fwdVars, chanVars>>

\* cancel_tcpip_forward on the forwarder's own handle: the server stops
\* listening, or the session of the handle is gone with its listeners.
CancelForward ==
  /\ op.kind = "stop" /\ op.cur # None
  /\ listening' = IF onSession[op.cur] THEN listening \ {KeyFor(op.cur)} ELSE listening
  /\ op' = [op EXCEPT !.cur = None]
  /\ UNCHANGED <<forwarders, dropped, supVars, fwdVars, refused, queue, senders, inflight>>

\* The live server refuses, or the request fails: the error is ignored, and the
\* server goes on listening for a forwarder nobody knows.
CancelRefused ==
  /\ op.kind = "stop" /\ op.cur # None /\ onSession[op.cur]
  /\ refused' = refused \cup {KeyFor(op.cur)}
  /\ op' = [op EXCEPT !.cur = None]
  /\ UNCHANGED <<forwarders, dropped, supVars, fwdVars, listening, queue, senders, inflight>>

StopDone ==
  /\ op.kind = "stop" /\ op.todo = {} /\ op.cur = None
  /\ op' = Idle
  /\ UNCHANGED <<forwarders, dropped, supVars, fwdVars, chanVars>>

-----------------------------------------------------------------------------
(* Commands of the user, and of the server instance.                        *)

UserStart(r) == StartRule(r, "task") /\ UNCHANGED supVars
UserStop(r)  == forwarders[r] # None /\ BeginStop({r}, "task") /\ UNCHANGED supVars

\* ServerInstance::connect reached a session: set the handle, start the rules.
Connect ==
  /\ sup = "idle" /\ ~alive
  /\ alive' = TRUE /\ pfHandle' = "live"
  /\ sup' = "auto" /\ autoTodo' = AutoRules
  /\ UNCHANGED <<mgrVars, fwdVars, chanVars>>

\* The connection monitor re-established a session it had lost.
Reconnect ==
  /\ sup = "idle" /\ ~alive /\ pfHandle = "stale"
  /\ alive' = TRUE /\ pfHandle' = "live"
  /\ sup' = "stopping"
  /\ UNCHANGED <<autoTodo, mgrVars, fwdVars, chanVars>>

ReconnectStopAll ==
  /\ sup = "stopping"
  /\ BeginStop(Rules, "monitor")
  /\ sup' = "restart" /\ autoTodo' = AutoRules
  /\ UNCHANGED <<alive, pfHandle>>

\* start_auto_rules: a rule that cannot be started is logged and skipped.
AutoStart(r) ==
  /\ sup \in {"auto", "restart"} /\ op = Idle /\ r \in autoTodo
  /\ \/ StartRule(r, IF sup = "restart" THEN "monitor" ELSE "task")
     \/ StartRefused(r) /\ UNCHANGED <<mgrVars, fwdVars, chanVars>>
  /\ autoTodo' = autoTodo \ {r}
  /\ UNCHANGED <<sup, alive, pfHandle>>

AutoDone ==
  /\ sup \in {"auto", "restart"} /\ op = Idle /\ autoTodo = {}
  /\ sup' = "idle"
  /\ UNCHANGED <<autoTodo, alive, pfHandle, mgrVars, fwdVars, chanVars>>

\* ServerInstance::disconnect: stop_all, clear the handle, end the session.
Disconnect ==
  /\ sup = "idle" /\ pfHandle # "none"
  /\ sup' = "closing"
  /\ UNCHANGED <<autoTodo, alive, pfHandle, mgrVars, fwdVars, chanVars>>

\* disconnect aborts a monitor that is about to restart the forwarding and
\* waits, for the lock or, holding it, for the SSH server to answer.  The lock
\* is given back; the forwarders its stop_all had drained are not stopped.
DisconnectAborts ==
  /\ sup \in {"stopping", "restart"} /\ op.kind # "idle"
  /\ sup' = "closing"
  /\ \/ op.by = "task" /\ UNCHANGED <<mgrVars, fwdVars, chanVars>>
     \/ /\ op.by = "monitor" /\ op.cur # None /\ onSession[op.cur]
        /\ dropped' = dropped \cup op.todo
        /\ loop' = [loop EXCEPT ![op.cur] = IF @ = "requesting" THEN "done" ELSE @]
        /\ listening' \in
             {listening, IF op.kind = "start" THEN listening \cup {KeyFor(op.cur)}
                                              ELSE listening \ {KeyFor(op.cur)}}
        /\ op' = Idle
        /\ UNCHANGED <<forwarders, rule, cancelled, listener, onSession,
                       queue, refused, senders, inflight>>
  /\ UNCHANGED <<autoTodo, alive, pfHandle>>

DisconnectStopAll ==
  /\ sup = "closing"
  /\ BeginStop(Rules, "task")
  /\ sup' = "clearing"
  /\ UNCHANGED <<autoTodo, alive, pfHandle>>

SessionEnds ==
  /\ alive' = FALSE
  /\ onSession' = [f \in Fwd |-> FALSE]
  /\ listening' = {} /\ refused' = {}
  /\ UNCHANGED <<autoTodo, mgrVars, rule, cancelled, loop, listener, queue, senders, inflight>>

ClearHandle ==
  /\ sup = "clearing" /\ op = Idle
  /\ sup' = "idle" /\ pfHandle' = "none"
  /\ SessionEnds

\* The network or the server ends the session; nobody tells the forwarders, and
\* a dispatch() that waits for room goes on waiting.
SessionLost ==
  /\ alive
  /\ pfHandle' = IF pfHandle = "live" THEN "stale" ELSE pfHandle
  /\ sup' = sup
  /\ SessionEnds

-----------------------------------------------------------------------------
(* run_accept_loop of a local forwarder.                                    *)

LoopMoves(f, from, to) == loop[f] = from /\ loop' = [loop EXCEPT ![f] = to]

\* It takes the listener out of the mutex, or ends if it is gone already.
TakeListener(f) ==
  /\ rule[f] \in LocalRules
  /\ LoopMoves(f, "spawned", IF listener[f] = "slot" THEN "running" ELSE "done")
  /\ listener' = [listener EXCEPT ![f] = IF @ = "slot" THEN "loop" ELSE @]
  /\ UNCHANGED <<mgrVars, supVars, rule, cancelled, onSession, chanVars>>

\* It ends when it sees the cancel flag, at the latest after the 500 ms
\* timeout of accept(), or on an accept error; only then is the port released.
AcceptLoopEnds(f) ==
  /\ rule[f] \in LocalRules
  /\ LoopMoves(f, "running", "done")
  /\ listener' = [listener EXCEPT ![f] = "none"]
  /\ UNCHANGED <<mgrVars, supVars, rule, cancelled, onSession, chanVars>>

\* Mutant: accept() without a timeout never gets to look at the flag.
AcceptIgnoresCancel(f) == FALSE /\ AcceptLoopEnds(f)
AcceptSeesCancel(f) == cancelled[f] /\ AcceptLoopEnds(f)
AcceptError(f)      == ~cancelled[f] /\ AcceptLoopEnds(f)

-----------------------------------------------------------------------------
(* run_receive_loop of a remote forwarder, and the dispatcher.              *)

\* register(): an entry another loop left under the key is replaced.
Register(f) ==
  /\ rule[f] \in RemoteRules
  /\ LoopMoves(f, "spawned", "running")
  /\ senders' = [senders EXCEPT ![KeyFor(f)] = f]
  /\ UNCHANGED <<mgrVars, supVars, rule, cancelled, listener, onSession,
                 queue, listening, refused, inflight>>

\* recv() returned a channel: serve it, unless the loop was cancelled.
Receive(f) ==
  /\ rule[f] \in RemoteRules
  /\ queue[f] > 0
  /\ LoopMoves(f, "running", IF cancelled[f] THEN "leaving" ELSE "running")
  /\ queue' = [queue EXCEPT ![f] = @ - 1]
  /\ UNCHANGED <<mgrVars, supVars, rule, cancelled, listener, onSession,
                 listening, refused, senders, inflight>>

\* The loop sees the cancel flag, or recv() reports that every sender is gone.
ReceiveLoopBreaks(f) ==
  /\ rule[f] \in RemoteRules
  /\ \/ cancelled[f]
     \/ queue[f] = 0 /\ inflight # f /\ senders[KeyFor(f)] # f
  /\ LoopMoves(f, "running", "leaving")
  /\ UNCHANGED <<mgrVars, supVars, rule, cancelled, listener, onSession, chanVars>>

\* Mutant: the loop returns without unregistering.
UnregisterForgotten(f) ==
  /\ rule[f] \in RemoteRules
  /\ LoopMoves(f, "leaving", "done")
  /\ queue' = [queue EXCEPT ![f] = 0]
  /\ UNCHANGED <<mgrVars, supVars, rule, cancelled, listener, onSession,
                 listening, refused, senders, inflight>>

\* unregister(&key) removes whatever is under the key; the receiver is dropped.
Unregister(f) ==
  /\ rule[f] \in RemoteRules
  /\ LoopMoves(f, "leaving", "done")
  /\ senders' = [senders EXCEPT ![KeyFor(f)] = None]
  /\ queue' = [queue EXCEPT ![f] = 0]
  /\ UNCHANGED <<mgrVars, supVars, rule, cancelled, listener, onSession,
                 listening, refused, inflight>>

\* A connection reaches a forwarded port: dispatch() clones the sender, or
\* finds none and the channel is dropped with a warning.
DispatchLookup(k) ==
  /\ alive /\ k \in listening /\ inflight = None
  /\ senders[k] # None
  /\ inflight' = senders[k]
  /\ UNCHANGED <<mgrVars, supVars, fwdVars, queue, listening, refused, senders>>

\* Mutant: an unbounded queue.
DispatchSendUnbounded ==
  /\ inflight # None
  /\ queue' = [queue EXCEPT ![inflight] = IF loop[inflight] = "done" THEN @ ELSE @ + 1]
  /\ inflight' = None
  /\ UNCHANGED <<mgrVars, supVars, fwdVars, listening, refused, senders>>

\* tx.send(): waits for room; fails silently when the receiver is gone.
DispatchSend ==
  /\ inflight # None
  /\ \/ loop[inflight] = "done" /\ UNCHANGED queue
     \/ /\ loop[inflight] # "done" /\ queue[inflight] < QueueCap
        /\ queue' = [queue EXCEPT ![inflight] = @ + 1]
  /\ inflight' = None
  /\ UNCHANGED <<mgrVars, supVars, fwdVars, listening, refused, senders>>

-----------------------------------------------------------------------------

LoopStep(f) ==
  \/ TakeListener(f) \/ AcceptSeesCancel(f)
  \/ Register(f) \/ Receive(f) \/ ReceiveLoopBreaks(f) \/ Unregister(f)

LockStep ==
  \/ ForwardAccepted \/ ForwardRejected
  \/ (\E f \in Fwd : StopFlag(f)) \/ CancelForward \/ CancelRefused \/ StopDone

SupStep ==
  \/ ReconnectStopAll \/ (\E r \in Rules : AutoStart(r)) \/ AutoDone
  \/ DisconnectStopAll \/ ClearHandle

Next ==
  \/ \E r \in Rules : UserStart(r) \/ UserStop(r)
  \/ Connect \/ Reconnect \/ Disconnect \/ DisconnectAborts \/ SessionLost
  \/ SupStep
  \/ LockStep
  \/ \E f \in Fwd : LoopStep(f) \/ AcceptError(f)
  \/ \E k \in Keys : DispatchLookup(k)
  \/ DispatchSend

Spec == Init /\ [][Next]_vars

\* The runtime polls every spawned loop, and the holder of the lock proceeds
\* (the SSH server answers a request or the request fails).
Fairness ==
  /\ \A f \in Fwd : WF_vars(LoopStep(f))
  /\ WF_vars(LockStep)
  /\ WF_vars(DispatchSend)

FairSpec == Spec /\ Fairness

-----------------------------------------------------------------------------
(* Properties                                                               *)

Serving(f) == loop[f] \in {"spawned", "running"} /\ ~cancelled[f]

\* start_rule holds the lock from the duplicate check to the insertion "to
\* prevent TOCTOU" (port_forward.rs:619): however starts, stops and reconnects
\* interleave, no two forwarders serve one rule, unless an abort dropped one.
OneForwarderPerRule ==
  \A f, g \in Fwd \ dropped : Serving(f) /\ Serving(g) /\ rule[f] = rule[g] => f = g

\* A forwarder that still serves is in the map, or in the hands of a stop that
\* is about to cancel it: nothing but an aborted stop leaves one behind.
NoOrphanForwarder ==
  \A f \in Fwd \ dropped : Serving(f) => f \in op.todo \/ forwarders[rule[f]] = f

\* Every key the SSH server listens on belongs to a forwarder that the manager
\* knows or is stopping, unless the server itself refused to give it up: no order
\* of starts, stops and reconnects leaves a listener on the server.  (A
\* disconnect, which may abort a request, ends the session with its listeners.)
ListenerOwned ==
  sup \notin {"closing", "clearing"} => \A k \in listening \ refused : \E f \in Fwd :
    /\ rule[f] \in RemoteRules /\ KeyFor(f) = k /\ onSession[f]
    /\ \/ forwarders[rule[f]] = f
       \/ op.kind = "stop" /\ f \in op.todo \cup {op.cur}

\* The dispatcher never holds the sender of a loop that has returned, although
\* a loop unregisters by key and not by identity.
SenderOwnerLive ==
  \A k \in Keys : senders[k] # None => loop[senders[k]] \in {"running", "leaving"}

\* A stopped forwarder's loop ends, and gives its port back.
StoppedLoopEnds ==
  \A f \in Fwd : (cancelled[f] /\ loop[f] # "done") ~> (loop[f] = "done" /\ listener[f] = "none")

\* The lock is given back: a stop or a start never waits for a loop.
LockReleased == (op # Idle) ~> (op = Idle)

-----------------------------------------------------------------------------
(* The inductive invariant behind the four invariants above.                *)

\* An entry of the map is filed under the rule its forwarder was built from.
MapAgrees ==
  \A r \in Rules : forwarders[r] # None =>
    /\ rule[forwarders[r]] = r
    /\ loop[forwarders[r]] # "requesting"
    /\ ~cancelled[forwarders[r]]

\* What the holder of the lock works on is out of the map, once per rule.
OpAgrees ==
  /\ op.kind = "idle" => op = Idle
  /\ op.kind = "start" =>
       /\ op.cur # None /\ op.todo = {}
       /\ rule[op.cur] \in RemoteRules /\ forwarders[rule[op.cur]] = None
       /\ loop[op.cur] = "requesting" /\ ~cancelled[op.cur]
  /\ op.kind = "stop" /\ op.cur # None => cancelled[op.cur] /\ rule[op.cur] \in RemoteRules
  /\ \A f \in op.todo :
       /\ rule[f] \in Rules /\ forwarders[rule[f]] = None
       /\ loop[f] # "requesting"
       /\ \A g \in op.todo : rule[f] = rule[g] => f = g

\* A sender is filed under the key of a loop that will still unregister it.
SendersAgree ==
  \A k \in Keys : senders[k] # None =>
    /\ rule[senders[k]] \in RemoteRules /\ KeyFor(senders[k]) = k
    /\ loop[senders[k]] \in {"running", "leaving"}

\* A loop that exists was built from a rule; only the lock's holder requests.
LoopsAgree ==
  \A f \in Fwd :
    /\ loop[f] # "done" => rule[f] \in Rules
    /\ loop[f] = "requesting" => op.kind = "start" /\ op.cur = f

IInv == TypeOK /\ MapAgrees /\ OpAgrees /\ SendersAgree /\ LoopsAgree
          /\ NoOrphanForwarder /\ ListenerOwned
=============================================================================
