-------------------------- MODULE PortForwardProofs --------------------------
(***************************************************************************)
(* Proofs about PortForward for every set of rules, keys and forwarders:   *)
(* its type invariant, the inductive invariant IInv, and the four safety   *)
(* invariants that follow from it.                                         *)
(***************************************************************************)
EXTENDS PortForward, TLAPS

USE PortForwardAssumption DEF Idle, RemoteRules, LoopMoves, mgrVars, supVars,
    fwdVars, chanVars

-----------------------------------------------------------------------------
(* Type correctness.                                                        *)

\* The initial state is well typed.
LEMMA InitTypeOK == Init => TypeOK
<1> SUFFICES ASSUME Init PROVE TypeOK
  OBVIOUS
<1>1. queue \in [Fwd -> 0 .. QueueCap]
  BY DEF Init
<1>2. op \in [kind: {"idle", "start", "stop"}, by: {"task", "monitor"},
              todo: SUBSET Fwd, cur: Fwd \cup {None}]
  BY DEF Init
<1>3. /\ alive \in BOOLEAN
      /\ onSession \in [Fwd -> BOOLEAN]
      /\ cancelled \in [Fwd -> BOOLEAN]
  BY DEF Init
<1>4. /\ forwarders \in [Rules -> Fwd \cup {None}]
      /\ rule \in [Fwd -> Rules \cup {None}]
      /\ senders \in [Keys -> Fwd \cup {None}]
  BY DEF Init
<1>5. /\ loop \in [Fwd -> {"done", "requesting", "spawned", "running", "leaving"}]
      /\ listener \in [Fwd -> {"none", "slot", "loop"}]
  BY DEF Init
<1> QED
  BY <1>1, <1>2, <1>3, <1>4, <1>5 DEF Init, TypeOK

\* A step keeps the types, where the lock's holder and its steps agree.
LEMMA NextTypeOK == TypeOK /\ OpAgrees /\ [Next]_vars => TypeOK'
<1> SUFFICES ASSUME TypeOK, OpAgrees, [Next]_vars PROVE TypeOK'
  OBVIOUS
<1> USE DEF TypeOK
<1>1. ASSUME NEW r \in Rules, NEW by \in {"task", "monitor"}, StartRule(r, by), sup' = sup, alive' = alive,
             pfHandle' = pfHandle, autoTodo' \subseteq autoTodo
      PROVE  TypeOK'
  <2>1. CASE StartLocal(r)
    BY <1>1, <2>1 DEF StartLocal
  <2>2. CASE StartRemote(r, by)
    BY <1>1, <2>2 DEF StartRemote
  <2> QED
    BY <1>1, <2>1, <2>2 DEF StartRule
<1>2. ASSUME NEW rs \in SUBSET Rules, NEW by \in {"task", "monitor"}, BeginStop(rs, by),
             sup' \in {"idle", "restart", "clearing"} \cup {sup},
             alive' = alive, pfHandle' = pfHandle, autoTodo' \subseteq Rules
      PROVE  TypeOK'
  BY <1>2 DEF BeginStop
<1>3. CASE LockStep
  <2>1. CASE ForwardAccepted
    <3>1. forwarders' \in [Rules -> Fwd \cup {None}]
      BY <2>1 DEF ForwardAccepted
    <3>2. op' \in [kind: {"idle", "start", "stop"}, by: {"task", "monitor"},
                   todo: SUBSET Fwd, cur: Fwd \cup {None}]
      BY <2>1 DEF ForwardAccepted
    <3>3. listening' \subseteq Keys
      BY <2>1 DEF ForwardAccepted, KeyFor, OpAgrees
    <3> QED
      BY <2>1, <3>1, <3>2, <3>3 DEF ForwardAccepted
  <2>2. CASE ForwardRejected
    BY <2>2 DEF ForwardRejected
  <2>3. ASSUME NEW f \in Fwd, StopFlag(f) PROVE TypeOK'
    <3>1. op' \in [kind: {"idle", "start", "stop"}, by: {"task", "monitor"},
                   todo: SUBSET Fwd, cur: Fwd \cup {None}]
      BY <2>3 DEF StopFlag
    <3> QED
      BY <2>3, <3>1 DEF StopFlag
  <2>4. CASE CancelForward
    BY <2>4 DEF CancelForward
  <2>5. CASE StopDone
    BY <2>5 DEF StopDone
  <2>6. CASE CancelRefused
    <3>1. refused' \subseteq Keys
      BY <2>6 DEF CancelRefused, KeyFor, OpAgrees
    <3>2. op' \in [kind: {"idle", "start", "stop"}, by: {"task", "monitor"},
                   todo: SUBSET Fwd, cur: Fwd \cup {None}]
      BY <2>6 DEF CancelRefused
    <3> QED
      BY <2>6, <3>1, <3>2 DEF CancelRefused
  <2> QED
    BY <1>3, <2>1, <2>2, <2>3, <2>4, <2>5, <2>6 DEF LockStep
<1>4. CASE SupStep
  <2>1. CASE ReconnectStopAll
    BY <1>2, <2>1 DEF ReconnectStopAll
  <2>2. ASSUME NEW r \in Rules, AutoStart(r) PROVE TypeOK'
    BY <1>1, <2>2 DEF AutoStart
  <2>3. CASE AutoDone
    BY <2>3 DEF AutoDone
  <2>4. CASE DisconnectStopAll
    BY <1>2, <2>4 DEF DisconnectStopAll
  <2>5. CASE ClearHandle
    BY <2>5 DEF ClearHandle, SessionEnds
  <2> QED
    BY <1>4, <2>1, <2>2, <2>3, <2>4, <2>5 DEF SupStep
<1>5. ASSUME NEW r \in Rules, UserStart(r) \/ UserStop(r) PROVE TypeOK'
  BY <1>1, <1>2, <1>5 DEF UserStart, UserStop
<1>6. CASE Connect \/ Reconnect \/ Disconnect
  BY <1>6 DEF Connect, Reconnect, Disconnect
<1>7. CASE SessionLost
  BY <1>7 DEF SessionLost, SessionEnds
<1>8. ASSUME NEW f \in Fwd, LoopStep(f) \/ AcceptError(f) PROVE TypeOK'
  BY <1>8 DEF LoopStep, AcceptError, TakeListener, AcceptSeesCancel, AcceptLoopEnds,
              Register, Receive, ReceiveLoopBreaks, Unregister
<1>9. CASE (\E k \in Keys : DispatchLookup(k)) \/ DispatchSend
  BY <1>9 DEF DispatchLookup, DispatchSend
<1>10. CASE UNCHANGED vars
  BY <1>10 DEF vars
<1>11. CASE DisconnectAborts
  <2>1. listening' \subseteq Keys
    BY <1>11 DEF DisconnectAborts, OpAgrees, KeyFor
  <2>2. loop' \in [Fwd -> {"done", "requesting", "spawned", "running", "leaving"}]
    BY <1>11 DEF DisconnectAborts
  <2> QED
    BY <1>11, <2>1, <2>2 DEF DisconnectAborts
<1> QED
  BY <1>3, <1>4, <1>5, <1>6, <1>7, <1>8, <1>9, <1>10, <1>11 DEF Next


-----------------------------------------------------------------------------
(* The inductive invariant, one lemma for each of its parts.                *)

\* The invariant holds before anything is started.
LEMMA InitIInv == Init => IInv
<1> SUFFICES ASSUME Init PROVE IInv
  OBVIOUS
<1>1. TypeOK
  BY InitTypeOK
<1> QED
  BY <1>1 DEF Init, IInv, MapAgrees, OpAgrees, SendersAgree, LoopsAgree,
              NoOrphanForwarder, Serving, ListenerOwned

\* A disconnect goes on until it has ended the session.
Kept == sup \in {"closing", "clearing"} => sup' \in {"closing", "clearing"}

\* The conjuncts of IInv that are not typing.
Safe == /\ MapAgrees /\ OpAgrees /\ SendersAgree /\ LoopsAgree
        /\ NoOrphanForwarder /\ ListenerOwned

\* Starting a local rule binds a free port and takes over no other one's.
LEMMA StartLocalStep ==
  ASSUME IInv, Kept, NEW r \in Rules, StartLocal(r) PROVE Safe'
<1> USE DEF IInv, TypeOK
<1>1. PICK f \in Fwd :
        /\ Free(f)
        /\ rule' = [rule EXCEPT ![f] = r]
        /\ cancelled' = [cancelled EXCEPT ![f] = FALSE]
        /\ loop' = [loop EXCEPT ![f] = "spawned"]
        /\ onSession' = [onSession EXCEPT ![f] = FALSE]
        /\ forwarders' = [forwarders EXCEPT ![r] = f]
        /\ dropped' = dropped \ {f}
        /\ op = Idle /\ op' = op /\ senders' = senders
        /\ listening' = listening /\ refused' = refused
        /\ r \in LocalRules /\ forwarders[r] = None
  BY DEF StartLocal, StartRefused
<1>2. MapAgrees'
  BY <1>1 DEF MapAgrees, Free
<1>3. OpAgrees'
  BY <1>1 DEF OpAgrees
<1>4. SendersAgree'
  BY <1>1 DEF SendersAgree, Free, KeyFor
<1>5. LoopsAgree'
  BY <1>1 DEF LoopsAgree
<1>6. NoOrphanForwarder'
  BY <1>1 DEF NoOrphanForwarder, Serving, Free, LoopsAgree
<1>7. ListenerOwned'
  BY <1>1 DEF ListenerOwned, Kept, Free, KeyFor
<1> QED
  BY <1>2, <1>3, <1>4, <1>5, <1>6, <1>7 DEF Safe

\* Starting a remote rule makes one forwarder more, for a rule that has none.
LEMMA StartRemoteStep ==
  ASSUME IInv, Kept, NEW r \in Rules, NEW by \in {"task", "monitor"}, StartRemote(r, by)
  PROVE  Safe'
<1> USE DEF IInv, TypeOK
<1>1. PICK f \in Fwd :
        /\ Free(f)
        /\ rule' = [rule EXCEPT ![f] = r]
        /\ cancelled' = [cancelled EXCEPT ![f] = FALSE]
        /\ loop' = [loop EXCEPT ![f] = "requesting"]
        /\ onSession' = [onSession EXCEPT ![f] = pfHandle = "live"]
        /\ dropped' = dropped \ {f}
        /\ op' = [kind |-> "start", by |-> by, todo |-> {}, cur |-> f]
        /\ forwarders' = forwarders
        /\ op = Idle /\ senders' = senders
        /\ listening' = listening /\ refused' = refused
        /\ r \in RemoteRules /\ forwarders[r] = None
  BY DEF StartRemote, StartRefused
<1>2. MapAgrees'
  BY <1>1 DEF MapAgrees, Free
<1>3. OpAgrees'
  BY <1>1 DEF OpAgrees
<1>4. SendersAgree'
  BY <1>1 DEF SendersAgree, Free, KeyFor
<1>5. LoopsAgree'
  BY <1>1 DEF LoopsAgree
<1>6. NoOrphanForwarder'
  BY <1>1 DEF NoOrphanForwarder, Serving, Free, LoopsAgree
<1>7. ListenerOwned'
  BY <1>1 DEF ListenerOwned, Kept, Free, KeyFor
<1> QED
  BY <1>2, <1>3, <1>4, <1>5, <1>6, <1>7 DEF Safe

\* Removing a forwarder from the map leaves its loops to their ends.
LEMMA BeginStopStep ==
  ASSUME IInv, Kept, NEW rs \in SUBSET Rules, NEW by \in {"task", "monitor"},
         BeginStop(rs, by)
  PROVE  Safe'
<1> USE DEF IInv, TypeOK, BeginStop
<1>1. /\ dropped' = dropped
      /\ op' = [kind |-> "stop", by |-> by, todo |-> {forwarders[r] : r \in rs} \ {None}, cur |-> None]
      /\ forwarders' = [r \in Rules |-> IF r \in rs THEN None ELSE forwarders[r]]
      /\ op = Idle
  OBVIOUS
<1>2. MapAgrees'
  BY <1>1 DEF MapAgrees
<1>3. OpAgrees'
  BY <1>1 DEF OpAgrees, MapAgrees
<1>4. SendersAgree'
  BY DEF SendersAgree, KeyFor
<1>5. LoopsAgree'
  BY <1>1 DEF LoopsAgree
<1>6. NoOrphanForwarder'
  BY <1>1 DEF NoOrphanForwarder, Serving, LoopsAgree, MapAgrees
<1>7. ListenerOwned'
  BY <1>1 DEF ListenerOwned, Kept, KeyFor, MapAgrees
<1> QED
  BY <1>2, <1>3, <1>4, <1>5, <1>6, <1>7 DEF Safe

\* What the holder of the manager's lock does, action by action.
LEMMA LockStepStep ==
  ASSUME IInv, LockStep PROVE Safe'
<1> USE DEF IInv, TypeOK
<1>1. CASE ForwardAccepted
  <2> DEFINE f == op.cur
  <2>1. /\ f \in Fwd /\ rule[f] \in RemoteRules /\ forwarders[rule[f]] = None
        /\ loop[f] = "requesting" /\ ~cancelled[f] /\ op.todo = {} /\ onSession[f]
    BY <1>1 DEF ForwardAccepted, OpAgrees
  <2>2. /\ loop' = [loop EXCEPT ![f] = "spawned"]
        /\ forwarders' = [forwarders EXCEPT ![rule[f]] = f]
        /\ op' = Idle /\ rule' = rule /\ cancelled' = cancelled
        /\ dropped' = dropped /\ sup' = sup
        /\ onSession' = onSession /\ senders' = senders
        /\ listening' = listening \cup {KeyOf[rule[f]]} /\ refused' = refused
    BY <1>1 DEF ForwardAccepted, KeyFor
  <2> HIDE DEF f
  <2>3. MapAgrees'
    BY <2>1, <2>2 DEF MapAgrees
  <2>4. OpAgrees'
    BY <2>2 DEF OpAgrees
  <2>5. SendersAgree'
    BY <2>1, <2>2 DEF SendersAgree, KeyFor
  <2>6. LoopsAgree'
    BY <2>1, <2>2 DEF LoopsAgree, f
  <2>7. NoOrphanForwarder'
    BY <2>1, <2>2 DEF NoOrphanForwarder, Serving, LoopsAgree
  <2>8. ListenerOwned'
    BY <2>1, <2>2 DEF ListenerOwned, Kept, KeyFor, f
  <2> QED
    BY <2>3, <2>4, <2>5, <2>6, <2>7, <2>8 DEF Safe
<1>2. CASE ForwardRejected
  <2>1. /\ op.cur \in Fwd /\ loop[op.cur] = "requesting" /\ op.todo = {}
        /\ loop' = [loop EXCEPT ![op.cur] = "done"]
        /\ op' = Idle /\ forwarders' = forwarders /\ rule' = rule
        /\ dropped' = dropped /\ sup' = sup
        /\ cancelled' = cancelled /\ onSession' = onSession
        /\ listening' = listening /\ refused' = refused /\ senders' = senders
    BY <1>2 DEF ForwardRejected, OpAgrees
  <2>2. MapAgrees'
    BY <2>1 DEF MapAgrees
  <2>3. OpAgrees' /\ LoopsAgree'
    BY <2>1 DEF OpAgrees, LoopsAgree
  <2>4. SendersAgree'
    BY <2>1 DEF SendersAgree, KeyFor
  <2>5. NoOrphanForwarder'
    BY <2>1 DEF NoOrphanForwarder, Serving
  <2>6. ListenerOwned'
    BY <1>2, <2>1 DEF ListenerOwned, Kept, KeyFor, OpAgrees, ForwardRejected
  <2> QED
    BY <2>2, <2>3, <2>4, <2>5, <2>6 DEF Safe
<1>3. ASSUME NEW f \in Fwd, StopFlag(f) PROVE Safe'
  <2>1. /\ f \in op.todo /\ op.kind = "stop" /\ op.cur = None
        /\ cancelled' = [cancelled EXCEPT ![f] = TRUE]
        /\ op' = [op EXCEPT !.todo = @ \ {f}, !.cur = IF rule[f] \in RemoteRules THEN f ELSE None]
        /\ dropped' = dropped /\ sup' = sup
        /\ forwarders' = forwarders /\ rule' = rule /\ loop' = loop
        /\ onSession' = onSession /\ senders' = senders
        /\ listening' = listening /\ refused' = refused
    BY <1>3 DEF StopFlag
  <2>2. forwarders[rule[f]] = None /\ rule[f] \in Rules
    BY <2>1 DEF OpAgrees
  <2>3. MapAgrees'
    BY <2>1, <2>2 DEF MapAgrees
  <2>4. OpAgrees'
    BY <2>1 DEF OpAgrees
  <2>5. SendersAgree'
    BY <2>1 DEF SendersAgree, KeyFor
  <2>6. LoopsAgree'
    BY <2>1 DEF LoopsAgree
  <2>7. NoOrphanForwarder'
    BY <2>1 DEF NoOrphanForwarder, Serving
  <2>8. ListenerOwned'
    BY <2>1 DEF ListenerOwned, Kept, KeyFor
  <2> QED
    BY <2>3, <2>4, <2>5, <2>6, <2>7, <2>8 DEF Safe
<1>4. CASE CancelForward
  <2>1. /\ op.kind = "stop" /\ op.cur \in Fwd
        /\ op' = [op EXCEPT !.cur = None]
        /\ dropped' = dropped /\ sup' = sup
        /\ forwarders' = forwarders /\ rule' = rule /\ loop' = loop
        /\ onSession' = onSession /\ senders' = senders /\ cancelled' = cancelled
        /\ listening' = IF onSession[op.cur] THEN listening \ {KeyFor(op.cur)} ELSE listening
        /\ refused' = refused
    BY <1>4 DEF CancelForward
  <2>2. MapAgrees' /\ SendersAgree' /\ LoopsAgree'
    BY <2>1 DEF MapAgrees, SendersAgree, LoopsAgree, KeyFor
  <2>3. OpAgrees'
    BY <2>1 DEF OpAgrees
  <2>4. NoOrphanForwarder'
    BY <2>1 DEF NoOrphanForwarder, Serving
  <2>5. ListenerOwned'
    BY <2>1 DEF ListenerOwned, Kept, KeyFor
  <2> QED
    BY <2>2, <2>3, <2>4, <2>5 DEF Safe
<1>5. CASE StopDone
  BY <1>5 DEF StopDone, Safe, MapAgrees, OpAgrees, SendersAgree, LoopsAgree,
              NoOrphanForwarder, Serving, ListenerOwned, Kept, KeyFor
<1>6. CASE CancelRefused
  <2>1. /\ op.kind = "stop" /\ op.cur \in Fwd
        /\ op' = [op EXCEPT !.cur = None]
        /\ dropped' = dropped /\ sup' = sup
        /\ forwarders' = forwarders /\ rule' = rule /\ loop' = loop
        /\ onSession' = onSession /\ senders' = senders /\ cancelled' = cancelled
        /\ listening' = listening /\ refused' = refused \cup {KeyFor(op.cur)}
    BY <1>6 DEF CancelRefused
  <2>2. MapAgrees' /\ SendersAgree' /\ LoopsAgree'
    BY <2>1 DEF MapAgrees, SendersAgree, LoopsAgree, KeyFor
  <2>3. OpAgrees'
    BY <2>1 DEF OpAgrees
  <2>4. NoOrphanForwarder'
    BY <2>1 DEF NoOrphanForwarder, Serving
  <2>5. ListenerOwned'
    BY <2>1 DEF ListenerOwned, Kept, KeyFor
  <2> QED
    BY <2>2, <2>3, <2>4, <2>5 DEF Safe
<1> QED
  BY <1>1, <1>2, <1>3, <1>4, <1>5, <1>6 DEF LockStep

\* What the accept and receive loops do on their own.
LEMMA LoopStepStep ==
  ASSUME IInv, NEW f \in Fwd, LoopStep(f) \/ AcceptError(f) PROVE Safe'
<1> USE DEF IInv, TypeOK
<1>1. /\ dropped' = dropped /\ sup' = sup
      /\ forwarders' = forwarders /\ op' = op /\ rule' = rule /\ cancelled' = cancelled
      /\ onSession' = onSession /\ listening' = listening /\ refused' = refused
      /\ \E to \in {"done", "running", "leaving"} :
           loop' = [loop EXCEPT ![f] = to] /\ (to = "running" => Serving(f) \/ loop[f] = "spawned")
  BY DEF LoopStep, AcceptError, TakeListener, AcceptSeesCancel, AcceptLoopEnds,
         Register, Receive, ReceiveLoopBreaks, Unregister, Serving
<1>2. loop[f] \in {"spawned", "running", "leaving"}
  BY DEF LoopStep, AcceptError, TakeListener, AcceptSeesCancel, AcceptLoopEnds,
         Register, Receive, ReceiveLoopBreaks, Unregister
<1>3. MapAgrees' /\ ListenerOwned'
  BY <1>1 DEF MapAgrees, ListenerOwned, Kept, KeyFor
<1>4. OpAgrees' /\ LoopsAgree'
  BY <1>1, <1>2 DEF OpAgrees, LoopsAgree
<1>5. NoOrphanForwarder'
  BY <1>1, <1>2 DEF NoOrphanForwarder, Serving
<1>6. SendersAgree'
  BY <1>1 DEF SendersAgree, KeyFor, LoopStep, AcceptError, TakeListener, AcceptSeesCancel,
         AcceptLoopEnds, Register, Receive, ReceiveLoopBreaks, Unregister
<1> QED
  BY <1>3, <1>4, <1>5, <1>6 DEF Safe

\* Whoever ends the session leaves the map, the lock and the loops alone.
LEMMA SessionEndsStep ==
  ASSUME IInv, SessionEnds PROVE Safe'
  BY DEF SessionEnds, IInv, Safe, MapAgrees, OpAgrees, SendersAgree, LoopsAgree,
         NoOrphanForwarder, Serving, ListenerOwned, Kept, KeyFor

\* Stuttering keeps the invariant.
LEMMA UnchangedStep ==
  ASSUME IInv, Kept, UNCHANGED <<mgrVars, fwdVars, listening, refused, senders>> PROVE Safe'
  BY DEF IInv, Safe, MapAgrees, OpAgrees, SendersAgree, LoopsAgree,
         NoOrphanForwarder, Serving, ListenerOwned, Kept, KeyFor

\* An abort of the monitor gives the lock back; what it had taken out of the
\* map is dropped, and a request it was making is no forwarder's any more.
LEMMA AbortStep ==
  ASSUME IInv, DisconnectAborts PROVE Safe'
<1> USE DEF IInv, TypeOK
<1>1. CASE op.by = "task"
  BY <1>1, UnchangedStep DEF DisconnectAborts, Kept
<1>2. CASE op.by = "monitor"
  <2>1. /\ op.cur \in Fwd /\ op' = Idle /\ dropped' = dropped \cup op.todo
        /\ loop' = [loop EXCEPT ![op.cur] = IF @ = "requesting" THEN "done" ELSE @]
        /\ forwarders' = forwarders /\ rule' = rule /\ cancelled' = cancelled
        /\ onSession' = onSession /\ senders' = senders /\ sup' = "closing"
    BY <1>2 DEF DisconnectAborts
  <2>2. MapAgrees'
    BY <2>1 DEF MapAgrees
  <2>3. OpAgrees' /\ LoopsAgree'
    BY <2>1 DEF OpAgrees, LoopsAgree
  <2>4. SendersAgree'
    BY <2>1 DEF SendersAgree, KeyFor
  <2>5. NoOrphanForwarder'
    BY <2>1 DEF NoOrphanForwarder, Serving
  <2>6. ListenerOwned'
    BY <2>1 DEF ListenerOwned
  <2> QED
    BY <2>2, <2>3, <2>4, <2>5, <2>6 DEF Safe
<1> QED
  BY <1>1, <1>2

\* The invariant is inductive.
LEMMA NextIInv == IInv /\ [Next]_vars => IInv'
<1> SUFFICES ASSUME IInv, [Next]_vars PROVE Safe'
  BY NextTypeOK DEF IInv, Safe
<1>1. ASSUME NEW r \in Rules, NEW by \in {"task", "monitor"}, StartRule(r, by), Kept PROVE Safe'
  BY <1>1, StartLocalStep, StartRemoteStep DEF StartRule
<1>2. ASSUME NEW r \in Rules, UserStart(r) \/ UserStop(r) PROVE Safe'
  BY <1>1, <1>2, BeginStopStep DEF UserStart, UserStop, Kept
<1>3. CASE SupStep
  <2>1. ASSUME NEW r \in Rules, AutoStart(r) PROVE Safe'
    BY <1>1, <2>1, UnchangedStep DEF AutoStart, Kept
  <2> QED
    BY <1>3, <2>1, BeginStopStep, SessionEndsStep, UnchangedStep
    DEF SupStep, ReconnectStopAll, DisconnectStopAll, ClearHandle, AutoDone, Kept
<1>4. CASE Connect \/ Reconnect \/ Disconnect
  BY <1>4, UnchangedStep DEF Connect, Reconnect, Disconnect, Kept
<1>5. CASE (\E k \in Keys : DispatchLookup(k)) \/ DispatchSend
  BY <1>5, UnchangedStep DEF DispatchLookup, DispatchSend, Kept
<1>6. CASE UNCHANGED vars
  BY <1>6, UnchangedStep DEF vars, Kept
<1> QED
  BY <1>2, <1>3, <1>4, <1>5, <1>6, LockStepStep, LoopStepStep, SessionEndsStep,
     AbortStep
  DEF Next, SessionLost

-----------------------------------------------------------------------------
(* The theorems.                                                            *)

\* Every interleaving of starts, stops, reconnects and loops keeps the
\* inductive invariant, for any number of rules and forwarders.
THEOREM PortForwardInductive == Spec => []IInv
  BY InitIInv, NextIInv, PTL DEF Spec

\* The types of the manager, the forwarders and the dispatcher are kept; the
\* accepted key is a key of a rule only because the lock's holder owns it.
THEOREM PortForwardTypeCorrect == Spec => []TypeOK
<1>1. IInv => TypeOK
  BY DEF IInv
<1> QED
  BY <1>1, PortForwardInductive, PTL

\* No two forwarders serve one rule (port_forward.rs:619), unless a stop was
\* aborted on its way.
THEOREM PortForwardOnePerRule == Spec => []OneForwarderPerRule
<1>1. IInv => OneForwarderPerRule
  BY DEF IInv, TypeOK, OneForwarderPerRule, NoOrphanForwarder, OpAgrees, LoopsAgree, Serving
<1> QED
  BY <1>1, PortForwardInductive, PTL

\* A forwarder that serves can be stopped through the manager, unless the stop
\* that took it out of the map was aborted.
THEOREM PortForwardNoOrphan == Spec => []NoOrphanForwarder
<1>1. IInv => NoOrphanForwarder
  BY DEF IInv
<1> QED
  BY <1>1, PortForwardInductive, PTL

\* Every listener on the SSH server belongs to a forwarder that is known, but
\* for those the server refused to give up (port_forward.rs:515).
THEOREM PortForwardListenerOwned == Spec => []ListenerOwned
<1>1. IInv => ListenerOwned
  BY DEF IInv
<1> QED
  BY <1>1, PortForwardInductive, PTL

\* The dispatcher never holds the sender of a loop that has returned.
THEOREM PortForwardSenderLive == Spec => []SenderOwnerLive
<1>1. IInv => SenderOwnerLive
  BY DEF IInv, SendersAgree, SenderOwnerLive
<1> QED
  BY <1>1, PortForwardInductive, PTL
=============================================================================
