---------------------------- MODULE ServerProofs ----------------------------
(***************************************************************************)
(* Proofs about the daemon's servers, for any number of them and of the    *)
(* requests that are served at once.                                       *)
(*                                                                         *)
(* ServerLifecycle: the connection monitor of a server is never out of     *)
(* reach of disconnect, unless two connects overlapped as they stored one. *)
(* TriggerEngine: the lock of a server's triggers excludes, the count of   *)
(* running executions is exact, and the cooldown is respected although it  *)
(* is checked and recorded apart.                                          *)
(* ServerRegistry: what the configuration says of a server and what runs   *)
(* agree again after every change that met no other, no connection is left *)
(* behind, and a server connected by request has the newest triggers.      *)
(***************************************************************************)
EXTENDS ServerLifecycle, TriggerEngine, ServerRegistry, TLAPS

-----------------------------------------------------------------------------
(* ServerLifecycle                                                         *)

USE ServerLifecycleAssumption

\* The types hold at the start.
LEMMA LifecycleInitType == LifecycleInit => LifecycleTypeOK
<1> SUFFICES ASSUME LifecycleInit PROVE LifecycleTypeOK
  OBVIOUS
<1> USE DEF LifecycleInit, Statuses, Waiting
<1>1. status \in Statuses /\ handle \in {"none", "up", "closed"}
  OBVIOUS
<1>2. monTask \in Monitors \cup {NoMonitor} /\ spawned \in [Requests -> Monitors \cup {NoMonitor}]
  OBVIOUS
<1>3. attempts \in [Monitors -> 0 .. MaxAttempts] /\ aborted \in [Monitors -> BOOLEAN]
  OBVIOUS
<1> QED
  BY <1>1, <1>2, <1>3 DEF LifecycleTypeOK

\* A step of a request, a monitor or the peer keeps the types.
LEMMA LifecycleNextType == TrackInv /\ [LifecycleNext]_lifecycleVars => LifecycleTypeOK'
<1> SUFFICES ASSUME TrackInv, [LifecycleNext]_lifecycleVars PROVE LifecycleTypeOK'
  OBVIOUS
<1> USE DEF TrackInv, LifecycleTypeOK, Statuses, Waiting, shared, tasks, RequestMoves, MonitorMoves
<1>1. ASSUME NEW q \in Requests, ConnectBegin(q) \/ DisconnectBegin(q) \/ RequestGoesOn(q)
      PROVE  LifecycleTypeOK'
  <2>1. CASE ConnectBegin(q) \/ ConnectDialled(q) \/ ConnectFailed(q) \/ ConnectStatus(q)
    BY <2>1 DEF ConnectBegin, ConnectDialled, ConnectFailed, ConnectStatus
  <2>3. CASE ConnectStopsMonitor(q) \/ DisconnectBegin(q)
    BY <2>3 DEF ConnectStopsMonitor, DisconnectBegin, StopMonitor
  <2>4. CASE ConnectSpawnsMonitor(q)
    BY <2>4 DEF ConnectSpawnsMonitor
  <2>5. CASE ConnectStoresMonitor(q)
    <3>1. spawned[q] \in Monitors
      BY <2>5 DEF ConnectStoresMonitor, SlotFree
    <3> QED
      BY <2>5, <3>1 DEF ConnectStoresMonitor
  <2>6. CASE DisconnectSession(q) \/ DisconnectStatus(q)
    BY <2>6 DEF DisconnectSession, DisconnectStatus
  <2> QED
    BY <1>1, <2>1, <2>3, <2>4, <2>5, <2>6 DEF RequestGoesOn
<1>2. ASSUME NEW m \in Monitors, MonitorStep(m) PROVE LifecycleTypeOK'
  <2>1. CASE MonitorWakes(m) \/ MonitorChecks(m) \/ MonitorRestores(m)
    BY <2>1 DEF MonitorWakes, MonitorChecks, MonitorRestores
  <2>6. CASE MonitorDies(m)
    BY <2>6 DEF MonitorDies
  <2>2. CASE MonitorMarks(m)
    BY <2>2 DEF MonitorMarks
  <2>3. CASE MonitorDialFails(m)
    BY <2>3 DEF MonitorDialFails
  <2>4. CASE MonitorGivesUp(m) \/ MonitorDialled(m)
    BY <2>4 DEF MonitorGivesUp, MonitorDialled
  <2>5. CASE MonitorStores(m) \/ MonitorStatus(m)
    BY <2>5 DEF MonitorStores, MonitorStatus
  <2> QED
    BY <1>2, <2>1, <2>2, <2>3, <2>4, <2>5, <2>6 DEF MonitorStep
<1>3. CASE SessionLost
  BY <1>3 DEF SessionLost
<1>4. CASE UNCHANGED lifecycleVars
  BY <1>4 DEF lifecycleVars
<1> QED
  BY <1>1, <1>2, <1>3, <1>4 DEF LifecycleNext

-----------------------------------------------------------------------------

\* A step of one request, whatever the others are at, keeps the slot free for
\* those about to store a monitor, and the monitors tracked.
LEMMA RequestTracks ==
  ASSUME TrackInv, NEW q \in Requests,
         ConnectBegin(q) \/ DisconnectBegin(q) \/ RequestGoesOn(q)
  PROVE  SlotFree' /\ MonitorsTracked'
<1> DEFINE Quiet == /\ UNCHANGED <<monTask, spawned, tasks>>
                    /\ request[q] # "store" /\ request'[q] \notin {"spawn", "store"}
<1> USE DEF TrackInv, LifecycleTypeOK, SlotFree, MonitorsTracked, RequestMoves, tasks
<1>1. CASE ConnectBegin(q) \/ ConnectDialled(q) \/ ConnectFailed(q) \/ ConnectStatus(q)
             \/ DisconnectSession(q) \/ DisconnectStatus(q)
  <2>1. ASSUME ConnectBegin(q) \/ ConnectDialled(q) PROVE Quiet
    BY <2>1 DEF ConnectBegin, ConnectDialled
  <2>2. ASSUME ConnectFailed(q) \/ ConnectStatus(q) PROVE Quiet
    BY <2>2 DEF ConnectFailed, ConnectStatus
  <2>3. ASSUME DisconnectSession(q) \/ DisconnectStatus(q) PROVE Quiet
    BY <2>3 DEF DisconnectSession, DisconnectStatus
  <2>4. Quiet /\ request' = [request EXCEPT ![q] = request'[q]]
    BY <1>1, <2>1, <2>2, <2>3 DEF ConnectBegin, ConnectDialled, ConnectFailed, ConnectStatus,
                                  DisconnectSession, DisconnectStatus
  <2> QED
    BY <2>4
<1>2. CASE ConnectStopsMonitor(q) \/ DisconnectBegin(q)
  <2>1. /\ monTask' = NoMonitor /\ UNCHANGED <<spawned, monitor, displaced>>
        /\ request[q] # "store" /\ request'[q] # "store"
        /\ request' = [request EXCEPT ![q] = request'[q]]
        /\ aborted' = [m \in Monitors |-> aborted[m] \/ (m = monTask /\ monitor[m] # "ended")]
    BY <1>2 DEF ConnectStopsMonitor, DisconnectBegin, StopMonitor
  <2>2. \A m \in Monitors : ~aborted'[m] => ~aborted[m] /\ (m = monTask => monitor[m] = "ended")
    BY <2>1, Zenon
  <2>3. SlotFree'
    BY <2>1
  <2>4. MonitorsTracked'
    BY <2>1, <2>2
  <2> QED
    BY <2>3, <2>4
<1>3. CASE ConnectSpawnsMonitor(q)
  <2>1. PICK m \in Monitors :
          /\ monTask # m /\ spawned' = [spawned EXCEPT ![q] = m]
          /\ monitor' = [monitor EXCEPT ![m] = "sleep"]
          /\ aborted' = [aborted EXCEPT ![m] = FALSE]
          /\ displaced' = displaced \ {m}
    BY <1>3 DEF ConnectSpawnsMonitor
  <2>2. /\ request[q] = "spawn" /\ request' = [request EXCEPT ![q] = "store"]
        /\ UNCHANGED monTask
    BY <1>3 DEF ConnectSpawnsMonitor
  <2>3. SlotFree'
    BY <2>1, <2>2, ServerLifecycleAssumption
  <2>4. MonitorsTracked'
    BY <2>1, <2>2
  <2> QED
    BY <2>3, <2>4
<1>4. CASE ConnectStoresMonitor(q)
  <2>1. /\ request[q] = "store" /\ request' = [request EXCEPT ![q] = "idle"]
        /\ monTask' = spawned[q] /\ spawned' = [spawned EXCEPT ![q] = NoMonitor]
        /\ displaced' = IF Overlaps(q) THEN displaced \cup {spawned[q]} ELSE displaced
        /\ UNCHANGED <<monitor, aborted>>
    BY <1>4 DEF ConnectStoresMonitor, shared
  <2>2. SlotFree'
    BY <2>1 DEF Overlaps
  <2>3. MonitorsTracked'
    BY <2>1
  <2> QED
    BY <2>2, <2>3
<1> QED
  BY <1>1, <1>2, <1>3, <1>4 DEF RequestGoesOn

\* No monitor touches the slot, and one that ended does not come back.
LEMMA MonitorTracks ==
  ASSUME TrackInv, NEW m \in Monitors, MonitorStep(m)
  PROVE  SlotFree' /\ MonitorsTracked'
<1>1. /\ monitor \in [Monitors -> Waiting \cup {"ended", "lost", "mark", "store", "status"}]
      /\ aborted \in [Monitors -> BOOLEAN]
  BY DEF TrackInv, LifecycleTypeOK
<1>2. UNCHANGED <<monTask, request, spawned, displaced>>
  BY DEF MonitorStep, MonitorWakes, MonitorChecks, MonitorMarks, MonitorDialFails,
         MonitorGivesUp, MonitorDialled, MonitorStores, MonitorStatus, MonitorRestores, MonitorDies
<1>3. CASE MonitorDies(m)
  <2>1. \A n \in Monitors :
           monitor'[n] # "ended" /\ ~aborted'[n] => monitor[n] # "ended" /\ ~aborted[n]
    BY <1>1, <1>3 DEF MonitorDies
  <2> QED
    BY <1>2, <2>1 DEF TrackInv, SlotFree, MonitorsTracked
<1>4. CASE ~MonitorDies(m)
  <2>1. /\ UNCHANGED aborted /\ monitor[m] # "ended"
        /\ \A n \in Monitors : n # m => monitor'[n] = monitor[n]
    <3>1. CASE MonitorDialFails(m)
      BY <3>1 DEF MonitorDialFails
    <3>2. CASE \/ MonitorWakes(m) \/ MonitorChecks(m) \/ MonitorMarks(m) \/ MonitorGivesUp(m)
               \/ MonitorDialled(m) \/ MonitorStores(m) \/ MonitorStatus(m) \/ MonitorRestores(m)
      <4>1. UNCHANGED aborted
        BY <3>2 DEF MonitorWakes, MonitorChecks, MonitorMarks, MonitorGivesUp, MonitorDialled,
                    MonitorStores, MonitorStatus, MonitorRestores
      <4>2. PICK to : monitor[m] # "ended" /\ monitor' = [monitor EXCEPT ![m] = to]
        BY <3>2 DEF MonitorMoves, MonitorWakes, MonitorChecks, MonitorMarks, MonitorGivesUp,
                    MonitorDialled, MonitorStores, MonitorStatus, MonitorRestores
      <4> QED
        BY <1>1, <4>1, <4>2
    <3> QED
      BY <1>4, <3>1, <3>2 DEF MonitorStep
  <2> QED
    BY <1>2, <2>1 DEF TrackInv, SlotFree, MonitorsTracked
<1> QED
  BY <1>3, <1>4

\* The inductive invariant.
LEMMA LifecycleInductive == TrackInv /\ [LifecycleNext]_lifecycleVars => TrackInv'
<1> SUFFICES ASSUME TrackInv, [LifecycleNext]_lifecycleVars PROVE TrackInv'
  OBVIOUS
<1>1. LifecycleTypeOK'
  BY LifecycleNextType
<1>2. CASE SessionLost \/ UNCHANGED lifecycleVars
  BY <1>1, <1>2 DEF SessionLost, lifecycleVars, tasks, TrackInv, SlotFree, MonitorsTracked
<1>3. CASE \E q \in Requests : ConnectBegin(q) \/ DisconnectBegin(q) \/ RequestGoesOn(q)
  BY <1>1, <1>3, RequestTracks DEF TrackInv
<1>4. CASE \E m \in Monitors : MonitorStep(m)
  BY <1>1, <1>4, MonitorTracks DEF TrackInv
<1> QED
  BY <1>2, <1>3, <1>4 DEF LifecycleNext

\* The invariant holds at the start.
LEMMA LifecycleInitially == LifecycleInit => TrackInv
  BY LifecycleInitType DEF LifecycleInit, TrackInv, SlotFree, MonitorsTracked

\* However many requests are served at once, every monitor that runs and was
\* not aborted is where disconnect and the next connect find it, or was stored
\* by a connect that overlapped with another one in start_connection_monitor.
THEOREM LifecycleMonitorsTracked == LifecycleSpec => []MonitorsTracked
<1>1. TrackInv => MonitorsTracked
  BY DEF TrackInv
<1> QED
  BY <1>1, LifecycleInitially, LifecycleInductive, PTL DEF LifecycleSpec

\* The status, the handle and every task stay among their values.
THEOREM LifecycleTypeCorrect == LifecycleSpec => []LifecycleTypeOK
<1>1. TrackInv => LifecycleTypeOK
  BY DEF TrackInv
<1> QED
  BY <1>1, LifecycleInitially, LifecycleInductive, PTL DEF LifecycleSpec

HIDE ServerLifecycleAssumption

-----------------------------------------------------------------------------
(* TriggerEngine                                                           *)

USE TriggerEngineAssumption

\* The parts of the invariant that are not typing, with the parts of EngineTypeOK
\* they rest on.
EngineShape ==
  /\ pc \in [Firings -> {"idle", "called", "queued", "check", "record", "start",
                         "exec", "disable"}]
  /\ event \in [Firings -> Events \cup {None}]
  /\ current \in [Firings -> Triggers \cup {None}]
  /\ todo \in [Firings -> SUBSET Triggers]
  /\ running \in Nat
  /\ age \in [Triggers -> 0 .. ClockCap]

EngineCore == LockAgrees /\ CheckStands /\ RunningExact

\* The invariant holds at the start.
LEMMA EngineInitially == EngineInit => EngineInv
<1> SUFFICES ASSUME EngineInit PROVE EngineInv
  OBVIOUS
<1> USE DEF EngineInit
<1>1. globalPaused \in BOOLEAN /\ serverPaused \in BOOLEAN
  OBVIOUS
<1>2. enabled \subseteq Triggers /\ due \subseteq Events /\ lock \in Firings \cup {None}
  OBVIOUS
<1>3. age \in [Triggers -> 0 .. ClockCap] /\ running \in Nat
  OBVIOUS
<1>4. /\ pc \in [Firings -> {"idle", "called", "queued", "check", "record", "start",
                             "exec", "disable"}]
      /\ event \in [Firings -> Events \cup {None}]
  OBVIOUS
<1>5. todo \in [Firings -> SUBSET Triggers] /\ current \in [Firings -> Triggers \cup {None}]
  OBVIOUS
<1>6. LockAgrees
  BY DEF LockAgrees, Holding
<1>7. CheckStands
  BY DEF CheckStands
<1>8. RunningExact
  BY DEF RunningExact
<1> QED
  BY <1>1, <1>2, <1>3, <1>4, <1>5, <1>6, <1>7, <1>8 DEF EngineInv, EngineTypeOK

\* A step that moves one firing between two places outside the lock.
LEMMA OutsideStep ==
  ASSUME EngineShape, EngineCore, NEW f \in Firings,
         pc[f] \notin Holding, pc'[f] \notin Holding,
         \A g \in Firings : g # f => pc'[g] = pc[g] /\ event'[g] = event[g],
         pc'[f] # "idle" => event'[f] \in Events,
         UNCHANGED <<lock, age, running, current>>
  PROVE  EngineCore'
<1>1. LockAgrees'
  BY DEF EngineCore, LockAgrees
<1>2. CheckStands'
  BY DEF EngineCore, CheckStands, SkipsCooldown, KindOf, InCooldown, Holding
<1>3. RunningExact'
  BY DEF EngineCore, RunningExact, Holding
<1> QED
  BY <1>1, <1>2, <1>3 DEF EngineCore

\* Acquire, and the steps its holder takes with the lock.
LEMMA AcquireStep ==
  ASSUME EngineShape, EngineCore, NEW f \in Firings, Acquire(f)
  PROVE  EngineCore'
<1> USE DEF EngineShape, Acquire, Moves
<1>1. LockAgrees'
  BY DEF EngineCore, LockAgrees, Holding
<1>2. CheckStands'
  BY DEF EngineCore, CheckStands, SkipsCooldown, KindOf, InCooldown
<1>3. RunningExact'
  BY DEF EngineCore, RunningExact
<1> QED
  BY <1>1, <1>2, <1>3 DEF EngineCore

\* What the holder of the lock does leaves the others where they are.
LEMMA CheckNextStep ==
  ASSUME EngineShape, EngineCore, NEW f \in Firings, CheckNext(f)
  PROVE  EngineCore'
<1>1. PICK t \in todo[f] :
        /\ \/ /\ SkipsCooldown(f) \/ ~InCooldown(t)
              /\ pc[f] = "check" /\ pc' = [pc EXCEPT ![f] = "record"]
              /\ current' = [current EXCEPT ![f] = t]
           \/ /\ pc[f] = "check" /\ pc' = [pc EXCEPT ![f] = "check"]
              /\ UNCHANGED current
        /\ UNCHANGED <<lock, age, running, event>>
  BY DEF CheckNext, Moves
<1>2. t \in Triggers
  BY <1>1 DEF EngineShape
<1>3. LockAgrees'
  BY <1>1 DEF EngineCore, LockAgrees, Holding, EngineShape
<1>4. CheckStands'
  BY <1>1, <1>2 DEF EngineCore, CheckStands, SkipsCooldown, KindOf, InCooldown, EngineShape
<1>5. RunningExact'
  <2>1. \A g \in Firings : pc'[g] = "exec" <=> pc[g] = "exec"
    BY <1>1 DEF EngineShape
  <2> QED
    BY <2>1, <1>1 DEF EngineCore, RunningExact
<1> QED
  BY <1>3, <1>4, <1>5 DEF EngineCore

\* Recording a firing: nobody else is at a trigger it checked.
LEMMA RecordStep ==
  ASSUME EngineShape, EngineCore, NEW f \in Firings, Record(f)
  PROVE  EngineCore'
<1> USE DEF EngineShape, Record, Moves
<1>1. LockAgrees'
  BY DEF EngineCore, LockAgrees, Holding
<1>2. CheckStands'
  <2>1. \A g \in Firings : pc'[g] = "record" => FALSE
    BY DEF EngineCore, LockAgrees, Holding
  <2> QED
    BY <2>1 DEF EngineCore, CheckStands
<1>3. RunningExact'
  <2>1. \A g \in Firings : pc'[g] = "exec" <=> pc[g] = "exec"
    OBVIOUS
  <2> QED
    BY <2>1 DEF EngineCore, RunningExact
<1> QED
  BY <1>1, <1>2, <1>3 DEF EngineCore

\* The start and the end of an execution change the count for its holder only.
LEMMA ExecStep ==
  ASSUME EngineShape, EngineCore, NEW f \in Firings, StartExec(f) \/ EndExec(f)
  PROVE  EngineCore'
<1> USE DEF EngineShape, StartExec, EndExec, Moves
<1>1. LockAgrees'
  BY DEF EngineCore, LockAgrees, Holding
<1>2. CheckStands'
  BY DEF EngineCore, CheckStands, SkipsCooldown, KindOf, InCooldown
<1>3. RunningExact'
  <2>1. \A g \in Firings : pc[g] = "exec" => g = f
    BY DEF EngineCore, LockAgrees, Holding
  <2>2. CASE StartExec(f)
    BY <2>1, <2>2 DEF EngineCore, RunningExact
  <2>3. CASE EndExec(f)
    BY <2>1, <2>3 DEF EngineCore, RunningExact
  <2> QED
    BY <2>2, <2>3
<1> QED
  BY <1>1, <1>2, <1>3 DEF EngineCore

\* A call that returns or is aborted gives up the lock and its count.
LEMMA LeaveStep ==
  ASSUME EngineShape, EngineCore, NEW f \in Firings, Release(f) \/ Abort(f)
  PROVE  EngineCore'
<1>1. /\ pc[f] # "idle" /\ pc' = [pc EXCEPT ![f] = pc'[f]]
      /\ pc'[f] \in {"idle", "disable"}
      /\ event' = [event EXCEPT ![f] = event'[f]]
      /\ pc'[f] = "disable" => event'[f] = event[f]
      /\ lock' = IF lock = f THEN None ELSE lock
      /\ running' = IF pc[f] = "exec" THEN running - 1 ELSE running
      /\ UNCHANGED age
      /\ \A g \in Firings : g # f => current'[g] = current[g]
  <2>1. CASE Release(f)
    BY <2>1 DEF Release, Returns, Moves, EngineShape, EngineCore, LockAgrees, Holding
  <2>2. CASE Abort(f)
    BY <2>2 DEF Abort, Forgets, EngineShape
  <2> QED
    BY <2>1, <2>2
<1>2. LockAgrees'
  BY <1>1 DEF EngineCore, LockAgrees, Holding, EngineShape
<1>3. CheckStands'
  BY <1>1 DEF EngineCore, CheckStands, SkipsCooldown, KindOf, InCooldown, EngineShape
<1>4. RunningExact'
  <2>1. \A g \in Firings : pc[g] = "exec" /\ pc[f] = "exec" => g = f
    BY DEF EngineCore, LockAgrees, Holding
  <2>2. \A g \in Firings : pc'[g] = "exec" <=> pc[g] = "exec" /\ g # f
    BY <1>1 DEF EngineShape
  <2> QED
    BY <1>1, <2>1, <2>2 DEF EngineCore, RunningExact, EngineShape
<1> QED
  BY <1>2, <1>3, <1>4 DEF EngineCore

\* What is needed of the types.
LEMMA TypesShape == EngineTypeOK => EngineShape
  BY DEF EngineTypeOK, EngineShape

-----------------------------------------------------------------------------

\* Types are kept; the count goes down only where an execution is counted.
LEMMA EngineNextType ==
  ASSUME EngineTypeOK, EngineCore, [EngineNext]_engineVars
  PROVE  EngineTypeOK'
<1> USE DEF EngineTypeOK, pauses, triggers, Moves
<1>1. ASSUME NEW f \in Firings, pc[f] = "exec" PROVE running - 1 \in Nat
  BY <1>1 DEF EngineCore, RunningExact
<1>2. ASSUME NEW f \in Firings, NEW e \in Events, Call(f, e) PROVE EngineTypeOK'
  BY <1>2 DEF Call
<1>3. ASSUME NEW f \in Firings, Proceed(f) PROVE EngineTypeOK'
  <2>1. CASE CallReturns(f) \/ Release(f)
    BY <2>1 DEF CallReturns, Release, Returns
  <2>2. CASE Enqueue(f)
    BY <2>2 DEF Enqueue
  <2>3. CASE CheckNext(f)
    <3>1. PICK t \in todo[f] :
            /\ \/ pc' = [pc EXCEPT ![f] = "record"] /\ current' = [current EXCEPT ![f] = t]
               \/ pc' = [pc EXCEPT ![f] = "check"] /\ UNCHANGED current
            /\ todo' = [todo EXCEPT ![f] = @ \ {t}]
            /\ UNCHANGED <<pauses, triggers, lock, age, running, event>>
      BY <2>3 DEF CheckNext
    <3>2. t \in Triggers
      BY <3>1
    <3> QED
      BY <3>1, <3>2
  <2>4. CASE Record(f)
    <3>1. age' = [age EXCEPT ![current[f]] = 0]
      BY <2>4 DEF Record
    <3>2. 0 \in 0 .. ClockCap
      OBVIOUS
    <3>3. age' \in [Triggers -> 0 .. ClockCap]
      BY <3>1, <3>2
    <3> QED
      BY <2>4, <3>3 DEF Record
  <2>5. CASE StartExec(f)
    BY <2>5, <1>1 DEF StartExec
  <2>6. CASE EndExec(f)
    BY <2>6, <1>1 DEF EndExec
  <2>7. CASE Disable(f)
    BY <2>7 DEF Disable
  <2> QED
    BY <1>3, <2>1, <2>2, <2>3, <2>4, <2>5, <2>6, <2>7 DEF Proceed
<1>4. ASSUME NEW f \in Firings, Acquire(f) PROVE EngineTypeOK'
  BY <1>4 DEF Acquire
<1>5. ASSUME NEW f \in Firings, Abort(f) PROVE EngineTypeOK'
  <2>1. running' \in Nat
    BY <1>5, <1>1 DEF Abort
  <2> QED
    BY <1>5, <2>1 DEF Abort, Forgets
<1>6. CASE PauseAll \/ ResumeAll \/ \E on \in BOOLEAN : PauseServer(on)
  BY <1>6 DEF PauseAll, ResumeAll, PauseServer
<1>7. CASE Tick
  BY <1>7 DEF Tick
<1>8. CASE UNCHANGED engineVars
  BY <1>8 DEF engineVars
<1> QED
  BY <1>2, <1>3, <1>4, <1>5, <1>6, <1>7, <1>8 DEF EngineNext

\* The invariant is inductive.
LEMMA EngineStep == EngineInv /\ [EngineNext]_engineVars => EngineInv'
<1> SUFFICES ASSUME EngineInv, [EngineNext]_engineVars PROVE EngineInv'
  OBVIOUS
<1>1. EngineTypeOK /\ EngineShape /\ EngineCore
  BY TypesShape DEF EngineInv, EngineCore
<1>2. EngineTypeOK'
  BY <1>1, EngineNextType
<1>3. ASSUME NEW f \in Firings, NEW e \in Events, Call(f, e) PROVE EngineCore'
  BY <1>1, <1>3, OutsideStep DEF Call, Moves, EngineShape, Holding
<1>4. ASSUME NEW f \in Firings, CallReturns(f) \/ Enqueue(f) \/ Disable(f) PROVE EngineCore'
  <2>1. \A g \in Firings : g # f => pc'[g] = pc[g] /\ event'[g] = event[g]
    BY <1>1, <1>4 DEF CallReturns, Enqueue, Disable, Returns, Moves, EngineShape
  <2>2. pc[f] \notin Holding /\ pc'[f] \notin Holding /\ pc[f] # "idle"
    BY <1>1, <1>4 DEF CallReturns, Enqueue, Disable, Returns, Moves, EngineShape, Holding
  <2>3. pc'[f] # "idle" => event'[f] = event[f]
    BY <1>1, <1>4 DEF CallReturns, Enqueue, Disable, Returns, Moves, EngineShape
  <2>4. UNCHANGED <<lock, age, running, current>>
    BY <1>4 DEF CallReturns, Enqueue, Disable
  <2>5. pc'[f] # "idle" => event'[f] \in Events
    BY <1>1, <2>2, <2>3 DEF EngineCore, CheckStands
  <2> QED
    BY <1>1, <2>1, <2>2, <2>4, <2>5, OutsideStep
<1>5. ASSUME NEW f \in Firings, Proceed(f) PROVE EngineCore'
  BY <1>1, <1>4, <1>5, CheckNextStep, RecordStep, ExecStep, LeaveStep DEF Proceed
<1>6. ASSUME NEW f \in Firings, Acquire(f) \/ Abort(f) PROVE EngineCore'
  BY <1>1, <1>6, AcquireStep, LeaveStep
<1>7. ASSUME PauseAll \/ ResumeAll \/ (\E on \in BOOLEAN : PauseServer(on)) \/ UNCHANGED engineVars
      PROVE  EngineCore'
  <2>1. UNCHANGED <<lock, age, running, pc, event, current>>
    BY <1>7 DEF PauseAll, ResumeAll, PauseServer, engineVars
  <2> QED
    BY <1>1, <2>1 DEF EngineCore, LockAgrees, CheckStands, RunningExact, SkipsCooldown,
                      KindOf, InCooldown
<1>8. ASSUME Tick PROVE EngineCore'
  <2>1. \A t \in Triggers : InCooldown(t)' => InCooldown(t)
    BY <1>1, <1>8 DEF Tick, InCooldown, EngineShape
  <2>2. UNCHANGED <<lock, running, pc, event, current>>
    BY <1>8 DEF Tick
  <2>3. LockAgrees' /\ RunningExact'
    BY <1>1, <2>2 DEF EngineCore, LockAgrees, RunningExact
  <2>4. CheckStands'
    BY <1>1, <2>1, <2>2 DEF EngineCore, CheckStands, SkipsCooldown, KindOf
  <2> QED
    BY <2>3, <2>4 DEF EngineCore
<1> QED
  BY <1>2, <1>3, <1>5, <1>6, <1>7, <1>8 DEF EngineNext, EngineInv, EngineCore

\* The invariant holds in every reachable state.
THEOREM EngineInductive == EngineSpec => []EngineInv
  BY EngineInitially, EngineStep, PTL DEF EngineSpec

\* The types of the engine are kept: running_count never goes below zero.
THEOREM EngineTypeCorrect == EngineSpec => []EngineTypeOK
<1>1. EngineInv => EngineTypeOK
  BY DEF EngineInv
<1> QED
  BY <1>1, EngineInductive, PTL

\* No two triggers of a server are executed at the same time (engine.rs:69).
THEOREM EngineOneAtATime == EngineSpec => []OneAtATime
<1>1. EngineInv => OneAtATime
  BY DEF EngineInv, LockAgrees, OneAtATime
<1> QED
  BY <1>1, EngineInductive, PTL

\* running_count is 1 while a trigger is executed and 0 otherwise.
THEOREM EngineRunningExact == EngineSpec => []RunningExact
<1>1. EngineInv => RunningExact
  BY DEF EngineInv
<1> QED
  BY <1>1, EngineInductive, PTL

\* No event of a timer or a check fires a trigger that cools down.
THEOREM EngineCooldownRespected == EngineSpec => CooldownRespected
<1>1. EngineInv /\ [EngineNext]_engineVars =>
        [\A f \in Firings :
           pc[f] = "record" /\ pc'[f] = "start" /\ ~SkipsCooldown(f)
             => ~InCooldown(current[f])]_engineVars
  BY DEF EngineInv, CheckStands
<1> QED
  BY <1>1, EngineInductive, PTL DEF EngineSpec, CooldownRespected

HIDE TriggerEngineAssumption

-----------------------------------------------------------------------------
(* ServerRegistry                                                          *)

USE BoundAssumption, NoServerAssumption

\* What the request of a task carries.
LEMMA RequestFields ==
  ASSUME RegistryTypeOK, NEW t \in Tasks
  PROVE  /\ op[t] \in Operation
         /\ op[t].pc \in {"add", "reload"} => op[t].id \in Ids /\ op[t].entry \in Entry
         /\ op[t].pc \in {"disconnect", "remove", "find", "set"} => op[t].id \in Ids
         /\ op[t].pc \in {"set", "sync", "dial"} => op[t].i \in Insts
         /\ op[t].pc = "import" =>
              /\ op[t].new \in [Ids -> Entry \cup {NoServer}]
              /\ op[t].todo \subseteq Ids
<1>1. op[t] \in Operation
  BY DEF RegistryTypeOK
<1>2. CASE op[t] = Idle
  BY <1>1, <1>2 DEF Idle
<1>3. CASE op[t] \in [pc : {"add", "reload"}, id : Ids, entry : Entry]
  BY <1>1, <1>3
<1>4. CASE op[t] \in [pc : {"disconnect", "remove", "find"}, id : Ids]
  BY <1>1, <1>4
<1>5. CASE op[t] \in [pc : {"set"}, id : Ids, i : Insts]
  BY <1>1, <1>5
<1>6. CASE op[t] \in [pc : {"sync", "dial"}, i : Insts]
  BY <1>1, <1>6
<1>7. CASE op[t] \in [pc : {"import"}, new : [Ids -> Entry \cup {NoServer}], todo : SUBSET Ids]
  BY <1>1, <1>7
<1> QED
  BY <1>1, <1>2, <1>3, <1>4, <1>5, <1>6, <1>7 DEF Operation

\* A request that follows its kind.
LEMMA GotoTyped ==
  ASSUME RegistryTypeOK, NEW t \in Tasks, NEW o \in Operation, Goto(t, o)
  PROVE  op' \in [Tasks -> Operation]
  BY DEF RegistryTypeOK, Goto

\* A task that serves nothing.
LEMMA IdleTyped == Idle \in Operation
  BY DEF Idle, Operation

\* ServerInstance::new and its registration keep the types.
LEMMA BuildTyped ==
  ASSUME RegistryTypeOK, NEW old \in [1..made -> Instance], NEW s \in Ids, NEW e \in Entry,
         Build(old, s, e)
  PROVE  /\ made' \in 0..MaxInst
         /\ inst' \in [1..made' -> Instance]
         /\ reg' \in [Ids -> 0..MaxInst] /\ \A r \in Ids : reg'[r] \in 0..made'
<1>1. made \in Nat /\ made' = made + 1 /\ made' \in 0..MaxInst
  BY DEF RegistryTypeOK, Build
<1>2. New(s, e) \in Instance
  BY DEF New, Instance, Entry
<1>3. inst' \in [1..made' -> Instance]
  <2>1. ASSUME NEW i \in 1..made + 1
        PROVE  (IF i = made + 1 THEN New(s, e) ELSE old[i]) \in Instance
    BY <1>1, <1>2
  <2> QED
    BY <1>1, <2>1 DEF Build
<1>4. reg' \in [Ids -> 0..MaxInst] /\ \A r \in Ids : reg'[r] \in 0..made'
  BY <1>1 DEF RegistryTypeOK, Build
<1> QED
  BY <1>1, <1>3, <1>4

\* A record whose connection, and one flag, is set anew stays an instance.
LEMMA FieldsTyped ==
  ASSUME NEW f \in [1..made -> Instance], NEW i \in 1..made
  PROVE  /\ \A c \in {"off", "connecting", "on", "lost"} :
              [f EXCEPT ![i].conn = c] \in [1..made -> Instance]
         /\ \A b \in BOOLEAN :
              /\ [f EXCEPT ![i].conn = "connecting", ![i].synced = @ \/ b] \in [1..made -> Instance]
              /\ [f EXCEPT ![i].conn = "on", ![i].stray = @ \/ b] \in [1..made -> Instance]
              /\ [f EXCEPT ![i].skipped = @ \/ b] \in [1..made -> Instance]
<1>1. f[i] \in Instance
  OBVIOUS
<1>2. ASSUME NEW c \in {"off", "connecting", "on", "lost"}
      PROVE  [f EXCEPT ![i].conn = c] \in [1..made -> Instance]
  BY <1>1 DEF Instance
<1>3. ASSUME NEW b \in BOOLEAN
      PROVE  [f EXCEPT ![i].conn = "connecting", ![i].synced = @ \/ b] \in [1..made -> Instance]
  BY <1>1 DEF Instance
<1>4. ASSUME NEW b \in BOOLEAN
      PROVE  [f EXCEPT ![i].conn = "on", ![i].stray = @ \/ b] \in [1..made -> Instance]
  BY <1>1 DEF Instance
<1>5. ASSUME NEW b \in BOOLEAN
      PROVE  [f EXCEPT ![i].skipped = @ \/ b] \in [1..made -> Instance]
  BY <1>1 DEF Instance
<1> QED
  BY <1>2, <1>3, <1>4, <1>5

\* What is done to an instance leaves it one.
LEMMA ChangesTyped ==
  ASSUME RegistryTypeOK, NEW i \in 1..made
  PROVE  /\ Off(i) \in [1..made -> Instance]
         /\ Replaced(i) \in [1..made -> Instance]
         /\ Synced(i) \in [1..made -> Instance]
<1> USE DEF RegistryTypeOK
<1>1. inst[i] \in Instance
  OBVIOUS
<1>2. Off(i) \in [1..made -> Instance]
  BY <1>1 DEF Off, Instance
<1>3. Replaced(i) \in [1..made -> Instance]
  BY <1>1, <1>2 DEF Replaced, Instance
<1>4. Synced(i) \in [1..made -> Instance]
  <2>1. inst[i].id \in Ids /\ (Present(inst[i].id) => cfg[inst[i].id] \in Entry)
    BY <1>1 DEF Present, Instance
  <2> QED
    BY <1>1, <2>1 DEF Synced, Instance, Entry
<1> QED
  BY <1>2, <1>3, <1>4

\* What the first half of a change leaves.
LEMMA ConfigureTyped ==
  ASSUME RegistryTypeOK, NEW t \in Tasks, NEW s \in Ids, NEW e \in Entry \cup {NoServer},
         NEW o \in Operation, Configure(t, s, e, o)
  PROVE  /\ cfg' \in [Ids -> Entry \cup {NoServer}] /\ op' \in [Tasks -> Operation]
         /\ overlapped' \subseteq Ids /\ UNCHANGED <<reg, inst, made>>
<1>1. op' \in [Tasks -> Operation]
  BY GotoTyped DEF Configure
<1> QED
  BY <1>1 DEF RegistryTypeOK, Configure

\* Types are kept by every step.
LEMMA RegistryNextType ==
  ASSUME RegistryTypeOK, OwnInstances, [RegistryNext]_registryVars
  PROVE  RegistryTypeOK'
<1> USE DEF RegistryTypeOK
<1> DEFINE Kept == UNCHANGED <<cfg, reg, made, version, used, overlapped>>
           Goes == op' \in [Tasks -> Operation]
           Insted == inst' \in [1..made -> Instance]
<1>0. ASSUME Kept, Goes, Insted PROVE RegistryTypeOK'
  BY <1>0
<1>01. ASSUME NEW s \in Ids, reg[s] # 0 PROVE reg[s] \in 1..made /\ reg[s] \in Insts
  BY <1>01 DEF Insts
<1>02. ASSUME NEW t \in Tasks, op[t].pc \in {"set", "sync", "dial"} PROVE op[t].i \in 1..made
  BY <1>02 DEF OwnInstances
<1>03. \A i \in 1..made : inst[i] \in Instance
  OBVIOUS
<1>1. ASSUME NEW t \in Tasks, NEW s \in Ids, AddConfig(t, s) PROVE RegistryTypeOK'
  <2> DEFINE e == [ver |-> 0, trig |-> 0]
  <2>1. e \in Entry
    BY DEF Entry, Versions
  <2>2. Configure(t, s, e, [pc |-> "add", id |-> s, entry |-> e])
    BY <1>1 DEF AddConfig
  <2>3. [pc |-> "add", id |-> s, entry |-> e] \in Operation
    BY <2>1 DEF Operation
  <2> QED
    BY <1>1, <2>1, <2>2, <2>3, ConfigureTyped DEF AddConfig
<1>2. ASSUME NEW t \in Tasks, NEW s \in Ids, RemoveConfig(t, s) PROVE RegistryTypeOK'
  <2>1. [pc |-> "disconnect", id |-> s] \in Operation
    BY DEF Operation
  <2> QED
    BY <1>2, <2>1, ConfigureTyped DEF RemoveConfig
<1>3. ASSUME NEW t \in Tasks, NEW s \in Ids, UpdateConfig(t, s) PROVE RegistryTypeOK'
  <2> DEFINE e == [cfg[s] EXCEPT !.ver = version + 1]
  <2>1. e \in Entry /\ version' \in Versions
    <3>1. cfg[s] \in Entry /\ version + 1 \in Versions
      BY <1>3 DEF UpdateConfig, Present, Versions
    <3>2. version' = version + 1
      BY <1>3 DEF UpdateConfig
    <3> QED
      BY <3>1, <3>2 DEF Entry
  <2>2. Configure(t, s, e, [pc |-> "reload", id |-> s, entry |-> e])
    BY <1>3 DEF UpdateConfig
  <2>3. [pc |-> "reload", id |-> s, entry |-> e] \in Operation
    BY <2>1 DEF Operation
  <2> QED
    BY <1>3, <2>1, <2>2, <2>3, ConfigureTyped DEF UpdateConfig
<1>4. ASSUME NEW t \in Tasks, NEW s \in Ids, TriggerConfig(t, s) PROVE RegistryTypeOK'
  <2>1. [pc |-> "find", id |-> s] \in Operation
    BY DEF Operation
  <2>2. cfg' \in [Ids -> Entry \cup {NoServer}] /\ version' \in Versions
    <3>1. cfg[s] \in Entry /\ version + 1 \in Versions
      BY <1>4 DEF TriggerConfig, Present, Versions
    <3>2. [cfg[s] EXCEPT !.trig = version + 1] \in Entry
      BY <3>1 DEF Entry
    <3>3. /\ version' = version + 1
          /\ cfg' = [cfg EXCEPT ![s] = [cfg[s] EXCEPT !.trig = version + 1]]
      BY <1>4 DEF TriggerConfig
    <3> QED
      BY <3>1, <3>2, <3>3
  <2>3. Goes
    BY <1>4, <2>1, GotoTyped DEF TriggerConfig
  <2> QED
    BY <1>4, <2>2, <2>3 DEF TriggerConfig
<1>5. ASSUME NEW t \in Tasks, NEW s \in Ids, HandleConnect(t, s) PROVE RegistryTypeOK'
  <2>1. [pc |-> "sync", i |-> reg[s]] \in Operation
    BY <1>01, <1>5 DEF HandleConnect, Operation
  <2>2. Goes
    BY <1>5, <2>1, GotoTyped DEF HandleConnect
  <2> QED
    BY <1>5, <2>2 DEF HandleConnect
<1>6. ASSUME NEW t \in Tasks, NEW s \in Ids, ForwardConnect(t, s) PROVE RegistryTypeOK'
  <2>1. [pc |-> "dial", i |-> reg[s]] \in Operation /\ reg[s] \in 1..made
    BY <1>01, <1>6 DEF ForwardConnect, Operation
  <2>2. Goes
    BY <1>6, <2>1, GotoTyped DEF ForwardConnect
  <2>3. Insted
    <3>1. [inst EXCEPT ![reg[s]].conn = "connecting"] \in [1..made -> Instance]
      BY <2>1, FieldsTyped
    <3> QED
      BY <1>6, <3>1 DEF ForwardConnect
  <2> QED
    BY <1>0, <1>6, <2>2, <2>3 DEF ForwardConnect
<1>7. ASSUME NEW t \in Tasks, NEW s \in Ids, Disconnect(t, s) PROVE RegistryTypeOK'
  BY <1>7, <1>01, <1>0, ChangesTyped DEF Disconnect
<1>8. ASSUME NEW t \in Tasks, NEW s \in Ids, ImportStep(t, s) PROVE RegistryTypeOK'
  <2> DEFINE new == op[t].new
             left == op[t].todo \ {s}
             gone == IF reg[s] = 0 THEN inst ELSE Off(reg[s])
  <2>1. new \in [Ids -> Entry \cup {NoServer}] /\ op[t].todo \subseteq Ids
    BY <1>8, RequestFields DEF ImportStep
  <2>2. [pc |-> "import", new |-> new, todo |-> left] \in Operation
    BY <2>1 DEF Operation
  <2>5. Goes
    BY <1>8, <2>2, GotoTyped, IdleTyped DEF ImportStep
  <2>6. gone \in [1..made -> Instance]
    BY <1>01, ChangesTyped
  <2>7. CASE new[s] = NoServer
    <3>1. /\ UNCHANGED <<cfg, made, version, used, overlapped>>
          /\ inst' = gone /\ reg' = [reg EXCEPT ![s] = 0]
      BY <1>8, <2>7 DEF ImportStep
    <3> QED
      BY <2>5, <2>6, <3>1
  <2>8. CASE new[s] # NoServer /\ Unchanged(s, new)
    <3>1. reg[s] \in 1..made /\ inst[reg[s]] \in Instance
      BY <2>8, <1>01 DEF Unchanged
    <3>2. /\ UNCHANGED <<cfg, reg, made, version, used, overlapped>>
          /\ inst' = [inst EXCEPT ![reg[s]].skipped = @ \/ inst[reg[s]].trig # new[s].trig]
      BY <1>8, <2>8 DEF ImportStep
    <3>3. Insted
      BY <3>1, <3>2 DEF Instance
    <3> QED
      BY <1>0, <2>5, <3>2, <3>3
  <2>9. CASE new[s] # NoServer /\ ~Unchanged(s, new)
    <3>1. Build(gone, s, new[s]) /\ UNCHANGED <<cfg, version, used, overlapped>>
      BY <1>8, <2>9 DEF ImportStep
    <3>2. new[s] \in Entry
      BY <2>1, <2>9
    <3> QED
      BY <2>5, <2>6, <3>1, <3>2, BuildTyped
  <2> QED
    BY <2>7, <2>8, <2>9
<1>9. ASSUME NEW t \in Tasks, AddInstance(t) PROVE RegistryTypeOK'
  <2>1. Goes
    BY <1>9, GotoTyped, IdleTyped DEF AddInstance
  <2>2. op[t].id \in Ids /\ op[t].entry \in Entry
    BY <1>9, RequestFields DEF AddInstance
  <2> QED
    BY <1>9, <2>1, <2>2, BuildTyped DEF AddInstance
<1>10. ASSUME NEW t \in Tasks, RemoveDisconnects(t) PROVE RegistryTypeOK'
  <2>1. op[t].id \in Ids
    BY <1>10, RequestFields DEF RemoveDisconnects
  <2>2. [pc |-> "remove", id |-> op[t].id] \in Operation
    BY <2>1 DEF Operation
  <2>3. Goes
    BY <1>10, <2>2, GotoTyped DEF RemoveDisconnects
  <2>4. Insted
    BY <1>10, <1>01, <2>1, ChangesTyped DEF RemoveDisconnects
  <2> QED
    BY <1>0, <1>10, <2>3, <2>4 DEF RemoveDisconnects
<1>11. ASSUME NEW t \in Tasks, RemoveInstance(t) PROVE RegistryTypeOK'
  <2>1. op[t].id \in Ids
    BY <1>11, RequestFields DEF RemoveInstance
  <2>2. Goes
    BY <1>11, GotoTyped, IdleTyped DEF RemoveInstance
  <2>3. Insted
    BY <1>11, <1>01, <2>1, ChangesTyped DEF RemoveInstance
  <2> QED
    BY <1>11, <2>1, <2>2, <2>3 DEF RemoveInstance
<1>12. ASSUME NEW t \in Tasks, Reload(t) PROVE RegistryTypeOK'
  <2>1. op[t].id \in Ids /\ op[t].entry \in Entry
    BY <1>12, RequestFields DEF Reload
  <2>2. Goes
    BY <1>12, GotoTyped, IdleTyped DEF Reload
  <2>3. (IF reg[op[t].id] = 0 THEN inst ELSE Replaced(reg[op[t].id])) \in [1..made -> Instance]
    BY <1>01, <2>1, ChangesTyped
  <2> QED
    BY <1>12, <2>1, <2>2, <2>3, BuildTyped DEF Reload
<1>13. ASSUME NEW t \in Tasks, TriggerFinds(t) PROVE RegistryTypeOK'
  <2>1. op[t].id \in Ids
    BY <1>13, RequestFields DEF TriggerFinds
  <2>2. reg[op[t].id] # 0 => [pc |-> "set", id |-> op[t].id, i |-> reg[op[t].id]] \in Operation
    BY <1>01, <2>1 DEF Operation
  <2>3. Goes
    BY <1>13, <2>2, GotoTyped, IdleTyped DEF TriggerFinds
  <2> QED
    BY <1>13, <2>3 DEF TriggerFinds
<1>14. ASSUME NEW t \in Tasks, TriggerSets(t) PROVE RegistryTypeOK'
  <2>1. Goes
    BY <1>14, GotoTyped, IdleTyped DEF TriggerSets
  <2>2. Insted
    BY <1>14, <1>02, ChangesTyped DEF TriggerSets
  <2> QED
    BY <1>0, <1>14, <2>1, <2>2 DEF TriggerSets
<1>15. ASSUME NEW t \in Tasks, ConnectSync(t) PROVE RegistryTypeOK'
  <2>1. op[t].i \in 1..made /\ op[t].i \in Insts
    BY <1>15, <1>02, RequestFields DEF ConnectSync
  <2>2. [pc |-> "dial", i |-> op[t].i] \in Operation
    BY <2>1 DEF Operation
  <2>3. Goes
    BY <1>15, <2>2, GotoTyped DEF ConnectSync
  <2>4. Synced(op[t].i) \in [1..made -> Instance]
    BY <2>1, ChangesTyped
  <2>5. Insted
    <3> DEFINE old == Synced(op[t].i)
    <3> DEFINE there == Present(inst[op[t].i].id)
    <3>1. inst' = [old EXCEPT ![op[t].i].conn = "connecting", ![op[t].i].synced = @ \/ there]
      BY <1>15 DEF ConnectSync
    <3>2. there \in BOOLEAN
      BY DEF Present
    <3>3. \A b \in BOOLEAN :
             [old EXCEPT ![op[t].i].conn = "connecting", ![op[t].i].synced = @ \/ b]
               \in [1..made -> Instance]
      BY <2>1, <2>4, FieldsTyped
    <3> HIDE DEF there, old
    <3> QED
      BY <3>1, <3>2, <3>3
  <2> QED
    BY <1>0, <1>15, <2>3, <2>5 DEF ConnectSync
<1>16. ASSUME NEW t \in Tasks, DialDone(t) PROVE RegistryTypeOK'
  <2>1. Goes
    BY <1>16, GotoTyped, IdleTyped DEF DialDone
  <2>2. op[t].i \in 1..made
    BY <1>16, <1>02 DEF DialDone
  <2>3. Insted
    <3>1. CASE inst' = Off(op[t].i)
      BY <2>2, <3>1, ChangesTyped
    <3>2. CASE inst' = [inst EXCEPT ![op[t].i].conn = "on", ![op[t].i].stray = @ \/ ~Registered(op[t].i)]
      BY <2>2, <3>2, FieldsTyped, Zenon DEF Registered
    <3> QED
      BY <1>16, <3>1, <3>2 DEF DialDone
  <2> QED
    BY <1>0, <1>16, <2>1, <2>3 DEF DialDone
<1>17. ASSUME NEW t \in Tasks, ImportConfig(t) PROVE RegistryTypeOK'
  <2>1. PICK new \in [Ids -> [ver : 0..version, trig : 0..version] \cup {NoServer}] :
           cfg' = new /\ Goto(t, [pc |-> "import", new |-> new, todo |-> Ids])
    BY <1>17 DEF ImportConfig
  <2>2. new \in [Ids -> Entry \cup {NoServer}]
    BY DEF Entry, Versions
  <2>3. [pc |-> "import", new |-> new, todo |-> Ids] \in Operation
    BY <2>2 DEF Operation
  <2>4. Goes
    BY <2>1, <2>3, GotoTyped
  <2> QED
    BY <1>17, <2>1, <2>2, <2>4 DEF ImportConfig
<1>18. ASSUME NEW i \in 1..made, Lose(i) \/ Reconnect(i) \/ GiveUp(i) PROVE RegistryTypeOK'
  <2>1. /\ [inst EXCEPT ![i].conn = "lost"] \in [1..made -> Instance]
        /\ [inst EXCEPT ![i].conn = "on"] \in [1..made -> Instance]
        /\ [inst EXCEPT ![i].conn = "off"] \in [1..made -> Instance]
    BY FieldsTyped
  <2>2. Insted
    BY <1>18, <2>1 DEF Lose, Reconnect, GiveUp, Off
  <2> QED
    BY <1>0, <1>18, <2>2 DEF Lose, Reconnect, GiveUp
<1>19. CASE UNCHANGED registryVars
  BY <1>19 DEF registryVars
<1> QED
  BY <1>1, <1>2, <1>3, <1>4, <1>5, <1>6, <1>7, <1>8, <1>9, <1>10, <1>11, <1>12, <1>13,
     <1>14, <1>15, <1>16, <1>17, <1>18, <1>19 DEF RegistryNext

-----------------------------------------------------------------------------

\* The parts of the invariant that are not typing.
RegistryCore ==
    /\ KnownIds /\ OwnInstances /\ NoOrphanConnection
    /\ OneChange /\ HalfDone /\ ReachedMatches /\ ReachedFresh /\ ImportFresh

\* What a step that builds and registers nothing does to an instance.
Kept(i) ==
    /\ inst'[i].id = inst[i].id /\ inst'[i].ver = inst[i].ver
    /\ inst[i].stray => inst'[i].stray
    /\ inst'[i].conn \in {"on", "lost"} =>
          inst[i].conn \in {"on", "lost"} \/ Registered(i) \/ inst'[i].stray
    /\ \/ /\ inst'[i].trig = inst[i].trig
          /\ inst'[i].synced = inst[i].synced /\ inst'[i].skipped = inst[i].skipped
       \/ /\ Present(inst[i].id)
          /\ inst'[i].trig = cfg[inst[i].id].trig

\* What such a step does to the request of its task.
KeptRequest(t) ==
    /\ op'[t].pc \in {"add", "reload", "import"} \/ op[t].pc \in {"add", "reload", "import"}
          => op'[t] = op[t]
    /\ op'[t].pc \in {"disconnect", "remove"} <=> op[t].pc \in {"disconnect", "remove"}
    /\ op'[t].pc \in {"disconnect", "remove"} => op'[t].id = op[t].id
    /\ op'[t].pc \in {"set", "sync", "dial"} => op'[t].i \in 1..made
    /\ op'[t].pc = "set" => inst'[op'[t].i].id = op'[t].id

\* Who has the news after it, had them before or has the newest triggers.
TellsTriggers == \A s \in Ids : Told(s)' /\ ~Told(s) => inst'[reg[s]].trig = cfg[s].trig

\* Connecting, disconnecting, losing a session and telling triggers keep the
\* invariant.
LEMMA InstanceStep ==
  ASSUME RegistryTypeOK, RegistryCore, UNCHANGED <<cfg, reg, made, used, overlapped>>,
         \A i \in 1..made : Kept(i), TellsTriggers,
         \A t \in Tasks : op'[t] = op[t] \/ KeptRequest(t)
  PROVE  RegistryCore'
<1> USE DEF RegistryCore
<1>1. \A s \in Ids : reg[s] # 0 => reg[s] \in 1..made /\ inst[reg[s]].id = s
  BY DEF RegistryTypeOK, OwnInstances
<1>2. \A u \in Tasks, s \in Ids : (Changes(u, s)' <=> Changes(u, s)) /\ (Ahead(u, s)' <=> Ahead(u, s))
  BY DEF KeptRequest, Changes, Ahead
<1>3. \A s \in Ids : (Present(s)' <=> Present(s)) /\ (Reached(s)' <=> Reached(s))
  BY <1>2 DEF Present, Reached
<1>4. KnownIds'
  BY <1>3 DEF KnownIds, KeptRequest, Builds
<1>5. OwnInstances'
  BY <1>1 DEF OwnInstances, KeptRequest, Kept
<1>6. NoOrphanConnection'
  BY DEF NoOrphanConnection, Kept, Registered
<1>7. OneChange'
  BY <1>2 DEF OneChange
<1>8. HalfDone'
  BY <1>3 DEF HalfDone, KeptRequest
<1>9. ReachedMatches'
  BY <1>1, <1>3 DEF ReachedMatches, Matches, Kept
<1>10. ReachedFresh'
  <2> SUFFICES ASSUME NEW s \in Ids, Reached(s), Told(s)',
                      inst'[reg[s]].synced, ~inst'[reg[s]].skipped
               PROVE  inst'[reg[s]].trig = cfg[s].trig
    BY <1>3 DEF ReachedFresh
  <2>1. CASE ~Told(s)
    BY <2>1 DEF TellsTriggers
  <2>2. CASE Told(s)
    BY <1>1, <2>2 DEF ReachedFresh, Kept, Told
  <2> QED
    BY <2>1, <2>2
<1>11. ImportFresh'
  <2> SUFFICES ASSUME NEW s \in Ids \ overlapped, NEW u \in Tasks, op'[u].pc = "import",
                      s \in op'[u].todo, Told(s)'
               PROVE  cfg[s].trig \in {op'[u].new[s].trig, inst'[reg[s]].trig}
    BY DEF ImportFresh
  <2>1. op'[u] = op[u]
    BY DEF KeptRequest
  <2>2. CASE ~Told(s)
    BY <2>2 DEF TellsTriggers
  <2>3. CASE Told(s)
    BY <1>1, <2>1, <2>3 DEF ImportFresh, Kept, Told
  <2> QED
    BY <2>2, <2>3
<1> QED
  BY <1>4, <1>5, <1>6, <1>7, <1>8, <1>9, <1>10, <1>11

\* A task that goes on without an instance being changed.
LEMMA StepsOfRequests ==
  ASSUME RegistryTypeOK, RegistryCore, NEW t \in Tasks,
         TriggerFinds(t) \/ \E s \in Ids : HandleConnect(t, s)
  PROVE  RegistryCore'
<1> USE DEF RegistryTypeOK
<1>1. /\ UNCHANGED <<cfg, reg, inst, made, used, overlapped>>
      /\ \A u \in Tasks \ {t} : op'[u] = op[u]
  BY DEF TriggerFinds, HandleConnect, Goto
<1>2. \A i \in 1..made : Kept(i)
  BY <1>1 DEF Kept
<1>3. KeptRequest(t) /\ TellsTriggers
  <2>1. CASE TriggerFinds(t)
    <3>1. op[t].pc = "find" /\ op[t].id \in Ids
      BY <2>1, RequestFields DEF TriggerFinds
    <3>2. CASE reg[op[t].id] = 0
      <4>1. op'[t].pc = "idle"
        BY <2>1, <3>2 DEF TriggerFinds, Goto, Idle
      <4>2. \A s \in Ids : Told(s)' => Told(s)
        BY <1>1, <3>1, <3>2, <4>1 DEF Told, Untold, Present
      <4> QED
        BY <3>1, <4>1, <4>2 DEF KeptRequest, TellsTriggers
    <3>3. CASE reg[op[t].id] # 0
      <4>1. op'[t] = [pc |-> "set", id |-> op[t].id, i |-> reg[op[t].id]]
        BY <2>1, <3>3 DEF TriggerFinds, Goto
      <4>2. \A s \in Ids : Told(s)' => Told(s)
        BY <1>1, <3>1, <4>1 DEF Told, Untold, Present
      <4> QED
        BY <1>1, <3>1, <3>3, <4>1, <4>2 DEF KeptRequest, TellsTriggers, RegistryCore, OwnInstances
    <3> QED
      BY <3>2, <3>3
  <2>2. ASSUME NEW s \in Ids, HandleConnect(t, s) PROVE KeptRequest(t) /\ TellsTriggers
    <3>1. op[t].pc = "idle" /\ op'[t] = [pc |-> "sync", i |-> reg[s]] /\ reg[s] \in 1..made
      BY <2>2 DEF HandleConnect, Goto, Idle
    <3>2. \A r \in Ids : Told(r)' => Told(r)
      BY <1>1, <3>1 DEF Told, Untold, Present
    <3> QED
      BY <3>1, <3>2 DEF KeptRequest, TellsTriggers
  <2> QED
    BY <2>1, <2>2
<1> QED
  BY <1>1, <1>2, <1>3, InstanceStep

\* The fields of an instance that is switched off.
LEMMA OffKeeps ==
  ASSUME RegistryTypeOK, NEW j \in 1..made, inst' = Off(j)
  PROVE  \A i \in 1..made : Kept(i)
<1>1. \A i \in (1..made) \ {j} : inst'[i] = inst[i]
  BY DEF RegistryTypeOK, Off
<1>2. inst'[j] = [inst[j] EXCEPT !.conn = "off"] /\ inst[j] \in Instance
  BY DEF RegistryTypeOK, Off
<1>3. /\ inst'[j].conn = "off"
      /\ inst'[j].id = inst[j].id /\ inst'[j].ver = inst[j].ver
      /\ inst'[j].trig = inst[j].trig /\ inst'[j].stray = inst[j].stray
      /\ inst'[j].synced = inst[j].synced /\ inst'[j].skipped = inst[j].skipped
  BY <1>2 DEF Instance
<1> QED
  BY <1>1, <1>3 DEF Kept

\* The monitor of an instance, and a disconnect.
LEMMA StepsOfConnections ==
  ASSUME RegistryTypeOK, RegistryCore,
         \/ \E i \in 1..made : Lose(i) \/ Reconnect(i) \/ GiveUp(i)
         \/ \E t \in Tasks, s \in Ids : Disconnect(t, s)
  PROVE  RegistryCore'
<1>1. UNCHANGED <<cfg, reg, made, op, used, overlapped>>
  BY DEF Lose, Reconnect, GiveUp, Disconnect
<1>2. TellsTriggers
  BY <1>1 DEF TellsTriggers, Told, Untold, Present
<1>3. ASSUME NEW j \in 1..made, inst' = Off(j) PROVE \A i \in 1..made : Kept(i)
  BY <1>3, OffKeeps
<1>4. ASSUME NEW j \in 1..made, Lose(j) \/ Reconnect(j) PROVE \A i \in 1..made : Kept(i)
  <2>1. \A i \in (1..made) \ {j} : inst'[i] = inst[i]
    BY <1>4 DEF RegistryTypeOK, Lose, Reconnect
  <2>2. /\ inst[j] \in Instance /\ inst[j].conn \in {"on", "lost"}
        /\ \/ inst'[j] = [inst[j] EXCEPT !.conn = "lost"]
           \/ inst'[j] = [inst[j] EXCEPT !.conn = "on"]
    BY <1>4 DEF RegistryTypeOK, Lose, Reconnect
  <2>3. /\ inst'[j].id = inst[j].id /\ inst'[j].ver = inst[j].ver
        /\ inst'[j].trig = inst[j].trig /\ inst'[j].stray = inst[j].stray
        /\ inst'[j].synced = inst[j].synced /\ inst'[j].skipped = inst[j].skipped
    BY <2>2 DEF Instance
  <2> QED
    BY <2>1, <2>2, <2>3 DEF Kept
<1>5. \A i \in 1..made : Kept(i)
  <2>1. \A s \in Ids : reg[s] # 0 => reg[s] \in 1..made
    BY DEF RegistryTypeOK
  <2> QED
    BY <1>3, <1>4, <2>1 DEF GiveUp, Disconnect
<1> QED
  BY <1>1, <1>2, <1>5, InstanceStep

\* The first disconnect of a removal.
LEMMA StepOfRemoval ==
  ASSUME RegistryTypeOK, RegistryCore, NEW t \in Tasks, RemoveDisconnects(t)
  PROVE  RegistryCore'
<1>1. /\ UNCHANGED <<cfg, reg, made, used, overlapped>>
      /\ \A u \in Tasks \ {t} : op'[u] = op[u]
      /\ op[t].pc = "disconnect" /\ op'[t] = [pc |-> "remove", id |-> op[t].id]
  BY DEF RemoveDisconnects, Goto, RegistryTypeOK
<1>2. KeptRequest(t) /\ TellsTriggers
  BY <1>1 DEF KeptRequest, TellsTriggers, Told, Untold, Present
<1>3. \A i \in 1..made : Kept(i)
  <2>1. op[t].id \in Ids
    BY <1>1, RequestFields
  <2>2. CASE reg[op[t].id] = 0
    BY <2>2 DEF RemoveDisconnects, Kept
  <2>3. CASE reg[op[t].id] # 0
    BY <2>1, <2>3, OffKeeps DEF RemoveDisconnects, RegistryTypeOK
  <2> QED
    BY <2>2, <2>3
<1> QED
  BY <1>1, <1>2, <1>3, InstanceStep

\* What set_triggers leaves alone.
LEMMA SyncedFields ==
  ASSUME RegistryTypeOK, NEW j \in 1..made
  PROVE  /\ \A i \in (1..made) \ {j} : Synced(j)[i] = inst[i]
         /\ Synced(j)[j] \in Instance
         /\ Synced(j)[j].id = inst[j].id /\ Synced(j)[j].ver = inst[j].ver
         /\ Synced(j)[j].conn = inst[j].conn /\ Synced(j)[j].stray = inst[j].stray
         /\ Synced(j)[j].synced = inst[j].synced
         /\ IF Present(inst[j].id) THEN Synced(j)[j].trig = cfg[inst[j].id].trig
                                   ELSE Synced(j)[j] = inst[j]
<1>1. inst[j] \in Instance
  BY DEF RegistryTypeOK
<1>2. CASE ~Present(inst[j].id)
  BY <1>1, <1>2 DEF Synced
<1>3. CASE Present(inst[j].id)
  <2>1. /\ \A i \in (1..made) \ {j} : Synced(j)[i] = inst[i]
        /\ Synced(j)[j] = [inst[j] EXCEPT !.trig = cfg[inst[j].id].trig, !.skipped = FALSE]
    BY <1>3 DEF Synced, RegistryTypeOK
  <2>2. Synced(j)[j] \in Instance
    BY ChangesTyped
  <2> QED
    BY <1>1, <1>3, <2>1, <2>2 DEF Instance
<1> QED
  BY <1>2, <1>3

\* Telling an instance the triggers of the configuration.
LEMMA StepsOfTriggers ==
  ASSUME RegistryTypeOK, RegistryCore, NEW t \in Tasks, TriggerSets(t) \/ ConnectSync(t)
  PROVE  RegistryCore'
<1> DEFINE j == op[t].i
<1>1. /\ UNCHANGED <<cfg, reg, made, used, overlapped>>
      /\ \A u \in Tasks \ {t} : op'[u] = op[u]
      /\ op[t].pc \in {"set", "sync"} /\ j \in 1..made
  BY DEF TriggerSets, ConnectSync, Goto, RegistryTypeOK, RegistryCore, OwnInstances
<1>2. CASE TriggerSets(t)
  <2>1. op[t].pc = "set" /\ op'[t].pc = "idle" /\ inst' = Synced(j)
    BY <1>2 DEF TriggerSets, Goto, Idle, RegistryTypeOK
  <2>2. \A i \in 1..made : Kept(i)
    BY <1>1, <2>1, SyncedFields DEF Kept
  <2>3. TellsTriggers
    <3> SUFFICES ASSUME NEW s \in Ids, Told(s)', ~Told(s)
                 PROVE  inst'[reg[s]].trig = cfg[s].trig
      BY DEF TellsTriggers
    <3>1. op[t].id = s /\ j = reg[s] /\ Present(s)
      BY <1>1, <2>1 DEF Told, Untold, Present
    <3>2. inst[j].id = s
      BY <2>1, <3>1 DEF RegistryCore, OwnInstances
    <3> QED
      BY <1>1, <2>1, <3>1, <3>2, SyncedFields
  <2> QED
    BY <1>1, <2>1, <2>2, <2>3, InstanceStep DEF KeptRequest
<1>3. CASE ConnectSync(t)
  <2> DEFINE old == Synced(j)
             there == Present(inst[j].id)
  <2>1. op[t].pc = "sync" /\ op'[t] = [pc |-> "dial", i |-> j]
    BY <1>3 DEF ConnectSync, Goto, RegistryTypeOK
  <2>2. inst' = [old EXCEPT ![j].conn = "connecting", ![j].synced = @ \/ there]
    BY <1>3 DEF ConnectSync
  <2>3. old \in [1..made -> Instance] /\ old[j] \in Instance /\ there \in BOOLEAN
    BY <1>1, ChangesTyped DEF Present
  <2>4. \A i \in (1..made) \ {j} : inst'[i] = inst[i]
    <3>1. \A i \in (1..made) \ {j} : old[i] = inst[i]
      BY <1>1, SyncedFields
    <3> HIDE DEF old, there
    <3> QED
      BY <2>2, <2>3, <3>1
  <2>5. inst'[j] = [old[j] EXCEPT !.conn = "connecting", !.synced = @ \/ there]
    <3> HIDE DEF old, there
    <3> QED
      BY <1>1, <2>2, <2>3
  <2>6. /\ inst'[j].conn = "connecting"
        /\ inst'[j].id = old[j].id /\ inst'[j].ver = old[j].ver
        /\ inst'[j].trig = old[j].trig /\ inst'[j].stray = old[j].stray
        /\ inst'[j].skipped = old[j].skipped
        /\ ~there => inst'[j].synced = old[j].synced
    <3> HIDE DEF old, there
    <3> QED
      BY <2>3, <2>5 DEF Instance
  <2>7. Kept(j)
    BY <1>1, <2>6, SyncedFields DEF Kept
  <2>8. \A i \in 1..made : Kept(i)
    BY <2>4, <2>7 DEF Kept
  <2>9. KeptRequest(t) /\ TellsTriggers
    BY <1>1, <2>1 DEF KeptRequest, TellsTriggers, Told, Untold, Present
  <2> QED
    BY <1>1, <2>8, <2>9, InstanceStep
<1> QED
  BY <1>2, <1>3

\* A port forward's own connect, and the end of a connect.
LEMMA StepsOfDials ==
  ASSUME RegistryTypeOK, RegistryCore, NEW t \in Tasks,
         DialDone(t) \/ \E s \in Ids : ForwardConnect(t, s)
  PROVE  RegistryCore'
<1>1. /\ UNCHANGED <<cfg, reg, made, used, overlapped>>
      /\ \A u \in Tasks \ {t} : op'[u] = op[u]
  BY DEF DialDone, ForwardConnect, Goto, RegistryTypeOK
<1>2. CASE DialDone(t)
  <2> DEFINE j == op[t].i
  <2>1. op[t].pc = "dial" /\ op'[t].pc = "idle" /\ j \in 1..made
    BY <1>2 DEF DialDone, Goto, Idle, RegistryTypeOK, RegistryCore, OwnInstances
  <2>2. KeptRequest(t) /\ TellsTriggers
    BY <1>1, <2>1 DEF KeptRequest, TellsTriggers, Told, Untold, Present
  <2>3. CASE inst' = Off(j)
    BY <1>1, <2>1, <2>2, <2>3, OffKeeps, InstanceStep
  <2>4. CASE inst' = [inst EXCEPT ![j].conn = "on", ![j].stray = @ \/ ~Registered(j)]
    <3>1. \A i \in (1..made) \ {j} : inst'[i] = inst[i]
      BY <2>4 DEF RegistryTypeOK
    <3>2. /\ inst'[j] = [inst[j] EXCEPT !.conn = "on", !.stray = @ \/ ~Registered(j)]
          /\ inst[j] \in Instance
      BY <2>1, <2>4 DEF RegistryTypeOK
    <3>3. /\ inst'[j].id = inst[j].id /\ inst'[j].ver = inst[j].ver
          /\ inst'[j].trig = inst[j].trig
          /\ inst'[j].stray = (inst[j].stray \/ ~Registered(j))
          /\ inst'[j].synced = inst[j].synced /\ inst'[j].skipped = inst[j].skipped
      BY <3>2 DEF Instance
    <3>4. \A i \in 1..made : Kept(i)
      BY <3>1, <3>3 DEF Kept
    <3> QED
      BY <1>1, <2>2, <3>4, InstanceStep
  <2> QED
    BY <1>2, <2>3, <2>4 DEF DialDone
<1>3. ASSUME NEW s \in Ids, ForwardConnect(t, s) PROVE RegistryCore'
  <2> DEFINE j == reg[s]
  <2>1. op[t].pc = "idle" /\ op'[t] = [pc |-> "dial", i |-> j] /\ j \in 1..made
    BY <1>3 DEF ForwardConnect, Goto, Idle, RegistryTypeOK
  <2>2. KeptRequest(t) /\ TellsTriggers
    BY <1>1, <2>1 DEF KeptRequest, TellsTriggers, Told, Untold, Present
  <2>3. \A i \in (1..made) \ {j} : inst'[i] = inst[i]
    BY <1>3 DEF RegistryTypeOK, ForwardConnect
  <2>4. inst'[j] = [inst[j] EXCEPT !.conn = "connecting"] /\ inst[j] \in Instance
    BY <1>3, <2>1 DEF RegistryTypeOK, ForwardConnect
  <2>5. /\ inst'[j].conn = "connecting"
        /\ inst'[j].id = inst[j].id /\ inst'[j].ver = inst[j].ver
        /\ inst'[j].trig = inst[j].trig /\ inst'[j].stray = inst[j].stray
        /\ inst'[j].synced = inst[j].synced /\ inst'[j].skipped = inst[j].skipped
    BY <2>4 DEF Instance
  <2>6. \A i \in 1..made : Kept(i)
    BY <2>3, <2>5 DEF Kept
  <2> QED
    BY <1>1, <2>2, <2>6, InstanceStep
<1> QED
  BY <1>2, <1>3

-----------------------------------------------------------------------------

\* The first half of a change: the entry is what the rest will go by.
LEMMA ConfigureStep ==
  ASSUME RegistryTypeOK, RegistryCore, NEW t \in Tasks, NEW s \in Ids,
         NEW e \in Entry \cup {NoServer}, NEW o, Configure(t, s, e, o),
         o.pc \in {"add", "disconnect", "reload"}, o.id = s,
         o.pc = "add" => reg[s] = 0,
         o.pc \in {"add", "reload"} => e # NoServer /\ o.entry = e,
         o.pc = "disconnect" => e = NoServer,
         used \subseteq used', e # NoServer => s \in used'
  PROVE  RegistryCore'
<1> USE DEF RegistryCore
<1>1. /\ UNCHANGED <<reg, inst, made>>
      /\ op[t].pc = "idle" /\ op'[t] = o /\ \A u \in Tasks \ {t} : op'[u] = op[u]
      /\ cfg'[s] = e /\ \A r \in Ids \ {s} : cfg'[r] = cfg[r]
      /\ \A r \in Ids \ overlapped' : r \notin overlapped /\ (r = s => ~Busy(s))
  BY DEF Configure, Goto, Idle, RegistryTypeOK
<1>2. \A r \in Ids \ {s}, u \in Tasks :
         (Changes(u, r)' <=> Changes(u, r)) /\ (Ahead(u, r)' <=> Ahead(u, r))
  BY <1>1 DEF Changes, Ahead
<1>3. Ahead(t, s)' /\ (s \notin overlapped' => \A u \in Tasks \ {t} : ~Changes(u, s)')
  BY <1>1 DEF Changes, Ahead, Busy
<1>4. \A r \in Ids : Reached(r)' => r # s /\ Reached(r)
  BY <1>1, <1>2, <1>3 DEF Reached
<1>5. \A r \in Ids \ {s} : (Told(r)' <=> Told(r)) /\ (Present(r)' <=> Present(r))
  BY <1>1 DEF Told, Untold, Present
<1>6. KnownIds'
  <2>1. \A r \in Ids \ {s}, u \in Tasks : Builds(u, r)' => Builds(u, r)
    BY <1>1 DEF Builds
  <2>2. \A u \in Tasks : Builds(u, s)' => Builds(u, s) \/ s \in used'
    BY <1>1 DEF Builds
  <2> QED
    BY <1>1, <1>5, <2>1, <2>2 DEF KnownIds, Present
<1>7. OwnInstances'
  BY <1>1 DEF OwnInstances
<1>8. NoOrphanConnection'
  BY <1>1 DEF NoOrphanConnection, Registered
<1>9. OneChange'
  BY <1>1, <1>2, <1>3 DEF OneChange
<1>10. HalfDone'
  <2> SUFFICES ASSUME NEW r \in Ids \ overlapped', NEW u \in Tasks
               PROVE /\ op'[u].pc = "add" /\ op'[u].id = r => reg[r] = 0
                     /\ op'[u].pc \in {"add", "reload"} /\ op'[u].id = r =>
                           Present(r)' /\ op'[u].entry.ver = cfg'[r].ver
                     /\ op'[u].pc \in {"disconnect", "remove"} /\ op'[u].id = r => ~Present(r)'
                     /\ op'[u].pc = "import" =>
                           /\ Present(r)' <=> op'[u].new[r] # NoServer
                           /\ Present(r)' => op'[u].new[r].ver = cfg'[r].ver
    BY <1>1 DEF HalfDone
  <2>1. CASE r # s /\ u # t
    BY <1>1, <1>5, <2>1 DEF HalfDone
  <2>2. CASE r # s /\ u = t
    BY <1>1, <2>2
  <2>3. CASE r = s /\ u # t
    BY <1>3, <2>3 DEF Changes
  <2>4. CASE r = s /\ u = t
    BY <1>1, <2>4 DEF Present
  <2> QED
    BY <2>1, <2>2, <2>3, <2>4
<1>11. ReachedMatches'
  BY <1>1, <1>4, <1>5 DEF ReachedMatches, Matches
<1>12. ReachedFresh'
  BY <1>1, <1>4, <1>5 DEF ReachedFresh
<1>13. ImportFresh'
  <2> SUFFICES ASSUME NEW r \in Ids \ overlapped', NEW u \in Tasks, op'[u].pc = "import",
                      r \in op'[u].todo, Told(r)'
               PROVE  cfg'[r].trig \in {op'[u].new[r].trig, inst[reg[r]].trig}
    BY <1>1 DEF ImportFresh
  <2>1. u # t /\ op'[u] = op[u]
    BY <1>1
  <2>2. r # s
    BY <1>3, <2>1 DEF Changes
  <2> QED
    BY <1>1, <1>5, <2>1, <2>2 DEF ImportFresh
<1> QED
  BY <1>6, <1>7, <1>8, <1>9, <1>10, <1>11, <1>12, <1>13

\* Adding, removing and updating an entry.
LEMMA StepsOfEntries ==
  ASSUME RegistryTypeOK, RegistryCore, NEW t \in Tasks, NEW s \in Ids,
         AddConfig(t, s) \/ RemoveConfig(t, s) \/ UpdateConfig(t, s)
  PROVE  RegistryCore'
<1>1. CASE AddConfig(t, s)
  <2> DEFINE e == [ver |-> 0, trig |-> 0]
             o == [pc |-> "add", id |-> s, entry |-> e]
  <2>1. e \in Entry /\ e # NoServer
    BY DEF Entry, Versions
  <2>2. reg[s] = 0 /\ Configure(t, s, e, o) /\ used' = used \cup {s}
    BY <1>1 DEF AddConfig, RegistryCore, KnownIds
  <2>3. o.pc = "add" /\ o.id = s /\ o.entry = e
    OBVIOUS
  <2> HIDE DEF e, o
  <2> QED
    BY <2>1, <2>2, <2>3, ConfigureStep
<1>2. CASE RemoveConfig(t, s)
  <2> DEFINE o == [pc |-> "disconnect", id |-> s]
  <2>1. Configure(t, s, NoServer, o) /\ used' = used
    BY <1>2 DEF RemoveConfig
  <2>2. o.pc = "disconnect" /\ o.id = s
    OBVIOUS
  <2> HIDE DEF o
  <2> QED
    BY <2>1, <2>2, ConfigureStep
<1>3. CASE UpdateConfig(t, s)
  <2> DEFINE e == [cfg[s] EXCEPT !.ver = version + 1]
             o == [pc |-> "reload", id |-> s, entry |-> e]
  <2>1. e \in Entry /\ e # NoServer
    <3>1. cfg[s] \in Entry /\ version + 1 \in Versions
      BY <1>3 DEF UpdateConfig, Present, RegistryTypeOK, Versions
    <3>2. e \in Entry
      BY <3>1 DEF Entry
    <3> QED
      BY <3>2
  <2>2. Configure(t, s, e, o) /\ used' = used /\ Present(s)
    BY <1>3 DEF UpdateConfig
  <2>3. o.pc = "reload" /\ o.id = s /\ o.entry = e
    OBVIOUS
  <2>4. s \in used'
    BY <2>2 DEF RegistryCore, KnownIds
  <2> HIDE DEF e, o
  <2> QED
    BY <2>1, <2>2, <2>3, <2>4, ConfigureStep
<1> QED
  BY <1>1, <1>2, <1>3

\* New triggers, which the server's instance has yet to be given.
LEMMA StepOfNewTriggers ==
  ASSUME RegistryTypeOK, RegistryCore, NEW t \in Tasks, NEW s \in Ids, TriggerConfig(t, s)
  PROVE  RegistryCore'
<1> USE DEF RegistryCore
<1>1. /\ UNCHANGED <<reg, inst, made, used, overlapped>>
      /\ op[t].pc = "idle" /\ op'[t].pc = "find" /\ op'[t].id = s
      /\ \A u \in Tasks \ {t} : op'[u] = op[u]
      /\ \A r \in Ids \ {s} : cfg'[r] = cfg[r]
  BY DEF TriggerConfig, Goto, Idle, RegistryTypeOK
<1>2. Present(s) /\ cfg'[s] \in Entry /\ cfg'[s].ver = cfg[s].ver
  <2>1. cfg[s] \in Entry /\ version + 1 \in Versions
    BY DEF TriggerConfig, Present, RegistryTypeOK, Versions
  <2>2. cfg'[s] = [cfg[s] EXCEPT !.trig = version + 1]
    BY DEF TriggerConfig, RegistryTypeOK
  <2> QED
    BY <2>1, <2>2 DEF Entry, TriggerConfig
<1>3. \A r \in Ids : (Present(r)' <=> Present(r)) /\ (Present(r) => cfg'[r].ver = cfg[r].ver)
  BY <1>1, <1>2 DEF Present
<1>4. \A r \in Ids, u \in Tasks :
         (Changes(u, r)' <=> Changes(u, r)) /\ (Ahead(u, r)' <=> Ahead(u, r))
  BY <1>1 DEF Changes, Ahead
<1>5. \A r \in Ids : Reached(r)' <=> Reached(r)
  BY <1>1, <1>4 DEF Reached
<1>6. \A r \in Ids : Told(r)' => r # s /\ Told(r)
  BY <1>1, <1>3 DEF Told, Untold
<1>7. KnownIds'
  BY <1>1, <1>3 DEF KnownIds, Builds
<1>8. OwnInstances' /\ NoOrphanConnection'
  BY <1>1 DEF OwnInstances, NoOrphanConnection, Registered
<1>9. OneChange'
  BY <1>1, <1>4 DEF OneChange
<1>10. HalfDone'
  BY <1>1, <1>3 DEF HalfDone
<1>11. ReachedMatches'
  BY <1>1, <1>3, <1>5 DEF ReachedMatches, Matches
<1>12. ReachedFresh'
  BY <1>1, <1>5, <1>6 DEF ReachedFresh
<1>13. ImportFresh'
  BY <1>1, <1>6 DEF ImportFresh
<1> QED
  BY <1>7, <1>8, <1>9, <1>10, <1>11, <1>12, <1>13

\* An import writes every entry before it comes to the registry.
LEMMA StepOfImport ==
  ASSUME RegistryTypeOK, RegistryCore, NEW t \in Tasks, ImportConfig(t)
  PROVE  RegistryCore'
<1> USE DEF RegistryCore
<1>1. /\ UNCHANGED <<reg, inst, made>> /\ used' = Ids
      /\ op[t].pc = "idle" /\ op'[t].pc = "import" /\ op'[t].new = cfg' /\ op'[t].todo = Ids
      /\ \A u \in Tasks \ {t} : op'[u] = op[u]
      /\ \A r \in Ids \ overlapped' : r \notin overlapped /\ ~Busy(r)
  BY DEF ImportConfig, Goto, Idle, RegistryTypeOK
<1>2. \A r \in Ids : Ahead(t, r)' /\ ~Reached(r)'
  BY <1>1 DEF Ahead, Changes, Reached
<1>3. \A r \in Ids \ overlapped', u \in Tasks \ {t} : ~Changes(u, r)' /\ op'[u].pc # "import"
  BY <1>1 DEF Changes, Busy
<1>4. KnownIds'
  BY <1>1 DEF KnownIds
<1>5. OwnInstances' /\ NoOrphanConnection'
  BY <1>1 DEF OwnInstances, NoOrphanConnection, Registered
<1>6. OneChange'
  BY <1>3 DEF OneChange
<1>7. HalfDone'
  <2> SUFFICES ASSUME NEW r \in Ids \ overlapped', NEW u \in Tasks
               PROVE /\ op'[u].pc \in {"add", "reload", "disconnect", "remove"} => op'[u].id # r
                     /\ op'[u].pc = "import" =>
                           /\ Present(r)' <=> op'[u].new[r] # NoServer
                           /\ Present(r)' => op'[u].new[r].ver = cfg'[r].ver
    BY DEF HalfDone
  <2>1. CASE u = t
    BY <1>1, <2>1 DEF Present
  <2>2. CASE u # t
    BY <1>3, <2>2 DEF Changes
  <2> QED
    BY <2>1, <2>2
<1>8. ReachedMatches' /\ ReachedFresh'
  BY <1>2 DEF ReachedMatches, ReachedFresh
<1>9. ImportFresh'
  BY <1>1, <1>3 DEF ImportFresh
<1> QED
  BY <1>4, <1>5, <1>6, <1>7, <1>8, <1>9

-----------------------------------------------------------------------------

\* What the second half of a change does to an instance there was.
Replaces(s, i) ==
    /\ inst'[i].id = inst[i].id
    /\ inst'[i].conn \in {"on", "lost"} =>
          /\ inst[i].conn \in {"on", "lost"}
          /\ inst[i].stray => inst'[i].stray
          /\ i = reg[s] => inst'[i].stray \/ reg'[s] = i
    /\ inst[i].id # s => inst'[i] = inst[i]

\* What it does to the request of its task, and to s.
Reaches(t, s) ==
    /\ \/ /\ op'[t].pc = "idle" /\ \A r \in Ids \ {s} : ~Ahead(t, r)
       \/ /\ op[t].pc = "import" /\ op'[t].pc = "import"
          /\ op'[t].new = op[t].new /\ op'[t].todo = op[t].todo \ {s}
    /\ reg'[s] # 0 => s \in used /\ reg'[s] \in 1..made' /\ inst'[reg'[s]].id = s
    /\ s \notin overlapped => Matches(s)'
    /\ s \notin overlapped /\ Told(s)' /\ inst'[reg'[s]].synced /\ ~inst'[reg'[s]].skipped
          => inst'[reg'[s]].trig = cfg[s].trig

\* The second half of a change, whichever it is.
LEMMA ReachStep ==
  ASSUME RegistryTypeOK, RegistryCore, NEW t \in Tasks, NEW s \in Ids, Ahead(t, s),
         UNCHANGED <<cfg, used, overlapped>>,
         made' \in Nat, made <= made',
         \A u \in Tasks \ {t} : op'[u] = op[u],
         \A r \in Ids \ {s} : reg'[r] = reg[r],
         \A i \in 1..made : Replaces(s, i),
         \A i \in 1..made' : i > made => inst'[i].conn = "off",
         Reaches(t, s)
  PROVE  RegistryCore'
<1> USE DEF RegistryCore
<1>1. \A r \in Ids : reg[r] # 0 => reg[r] \in 1..made /\ inst[reg[r]].id = r
  BY DEF RegistryTypeOK, OwnInstances
<1>2. \A r \in Ids \ {s} : reg'[r] = reg[r] /\ (reg[r] # 0 => inst'[reg[r]] = inst[reg[r]])
  BY <1>1 DEF Replaces
<1>3. \A r \in Ids : (Present(r)' <=> Present(r))
  BY DEF Present
<1>4. \A r \in Ids : \A u \in Tasks : Changes(u, r)' => Changes(u, r)
  BY DEF Reaches, Changes
<1>5. \A r \in Ids \ {s}, u \in Tasks : Ahead(u, r)' <=> Ahead(u, r)
  BY DEF Reaches, Changes, Ahead
<1>6. \A r \in Ids \ {s} : (Reached(r)' <=> Reached(r)) /\ (Told(r)' <=> Told(r))
  <2>1. \A r \in Ids \ {s} : Reached(r)' <=> Reached(r)
    BY <1>5 DEF Reached
  <2>2. op[t].pc \notin {"find", "set"} /\ op'[t].pc \notin {"find", "set"}
    BY DEF Ahead, Changes, Reaches
  <2>3. \A r \in Ids \ {s} : Untold(r)' <=> Untold(r)
    BY <1>2, <2>2 DEF Untold
  <2> QED
    BY <1>2, <1>3, <2>1, <2>3 DEF Told
<1>7. KnownIds'
  <2>1. \A r \in Ids, u \in Tasks : Builds(u, r)' => Builds(u, r)
    <3> SUFFICES ASSUME NEW r \in Ids, NEW u \in Tasks, Builds(u, r)' PROVE Builds(u, r)
      OBVIOUS
    <3>1. CASE u = t
      <4>1. op'[u].pc = "import" /\ op[u].pc = "import"
        BY <3>1 DEF Builds, Reaches
      <4> QED
        BY <4>1 DEF Builds
    <3>2. CASE u # t
      BY <3>2 DEF Builds
    <3> QED
      BY <3>1, <3>2
  <2> QED
    BY <1>2, <1>3, <2>1 DEF KnownIds, Reaches
<1>8. OwnInstances'
  <2>1. \A u \in Tasks : op'[u].pc \in {"set", "sync", "dial"} => u # t /\ op'[u] = op[u]
    BY DEF Reaches
  <2>2. \A r \in Ids : reg'[r] # 0 => inst'[reg'[r]].id = r
    BY <1>1, <1>2 DEF Reaches
  <2> QED
    BY <2>1, <2>2 DEF OwnInstances, Replaces, RegistryTypeOK
<1>9. NoOrphanConnection'
  <2> SUFFICES ASSUME NEW i \in 1..made', inst'[i].conn \in {"on", "lost"}
               PROVE  reg'[inst'[i].id] = i \/ inst'[i].stray
    BY DEF NoOrphanConnection, Registered
  <2>1. i \in 1..made
    BY DEF RegistryTypeOK
  <2>2. inst[i].stray \/ reg[inst[i].id] = i
    BY <2>1 DEF Replaces, NoOrphanConnection, Registered
  <2>3. inst[i].id \in Ids
    BY <2>1 DEF RegistryTypeOK, Instance
  <2> QED
    BY <1>2, <2>1, <2>2, <2>3 DEF Replaces
<1>10. OneChange'
  BY <1>4 DEF OneChange
<1>11. HalfDone'
  <2> SUFFICES ASSUME NEW r \in Ids \ overlapped, NEW u \in Tasks
               PROVE /\ op'[u].pc = "add" /\ op'[u].id = r => reg'[r] = 0
                     /\ op'[u].pc \in {"add", "reload"} /\ op'[u].id = r =>
                           Present(r) /\ op'[u].entry.ver = cfg[r].ver
                     /\ op'[u].pc \in {"disconnect", "remove"} /\ op'[u].id = r => ~Present(r)
                     /\ op'[u].pc = "import" =>
                           /\ Present(r) <=> op'[u].new[r] # NoServer
                           /\ Present(r) => op'[u].new[r].ver = cfg[r].ver
    BY <1>3 DEF HalfDone
  <2>1. CASE u = t
    BY <2>1 DEF HalfDone, Reaches
  <2>2. CASE u # t /\ r # s
    BY <1>2, <2>2 DEF HalfDone
  <2>3. CASE u # t /\ r = s
    <3>1. ~Changes(u, s)
      BY <2>3 DEF OneChange, Ahead
    <3> QED
      BY <2>3, <3>1 DEF Changes
  <2> QED
    BY <2>1, <2>2, <2>3
<1>12. ReachedMatches'
  BY <1>2, <1>3, <1>6 DEF ReachedMatches, Matches, Reaches, Reached
<1>13. ReachedFresh'
  BY <1>2, <1>6 DEF ReachedFresh, Reaches, Reached, Told
<1>14. ImportFresh'
  <2> SUFFICES ASSUME NEW r \in Ids \ overlapped, NEW u \in Tasks, op'[u].pc = "import",
                      r \in op'[u].todo, Told(r)'
               PROVE  cfg[r].trig \in {op'[u].new[r].trig, inst'[reg'[r]].trig}
    BY DEF ImportFresh
  <2>1. op[u].pc = "import" /\ r \in op[u].todo /\ op'[u].new = op[u].new /\ (u = t => r # s)
    BY DEF Reaches
  <2>2. r # s
    BY <2>1 DEF OneChange, Ahead, Changes
  <2> QED
    BY <1>2, <1>6, <2>1, <2>2 DEF ImportFresh, Told
<1> QED
  BY <1>7, <1>8, <1>9, <1>10, <1>11, <1>12, <1>13, <1>14

\* What building an instance leaves behind.
LEMMA BuildFields ==
  ASSUME RegistryTypeOK, NEW old \in [1..made -> Instance], NEW s \in Ids, NEW e \in Entry,
         Build(old, s, e)
  PROVE  /\ made' = made + 1 /\ made' \in Nat /\ made \in Nat
         /\ reg'[s] = made' /\ \A r \in Ids \ {s} : reg'[r] = reg[r]
         /\ \A i \in 1..made : inst'[i] = old[i]
         /\ inst'[made'].id = s /\ inst'[made'].ver = e.ver
         /\ inst'[made'].conn = "off" /\ ~inst'[made'].synced
<1>1. made' = made + 1 /\ made' \in Nat /\ made \in Nat
  BY DEF RegistryTypeOK, Build
<1>2. reg'[s] = made' /\ \A r \in Ids \ {s} : reg'[r] = reg[r]
  BY DEF RegistryTypeOK, Build
<1>3. /\ \A i \in 1..made : inst'[i] = old[i]
      /\ inst'[made'] = New(s, e)
  BY <1>1 DEF Build
<1> QED
  BY <1>1, <1>2, <1>3 DEF New

\* The instance that a disconnect or a reload leaves, and the others.
LEMMA OffFields ==
  ASSUME RegistryTypeOK, NEW j \in 1..made
  PROVE  /\ \A i \in (1..made) \ {j} : Off(j)[i] = inst[i]
         /\ Off(j)[j].conn = "off" /\ Off(j)[j].id = inst[j].id
<1>1. inst[j] \in Instance
  BY DEF RegistryTypeOK
<1> QED
  BY <1>1 DEF RegistryTypeOK, Off, Instance

\* Replacing an instance concerns it alone; what it still has is stray.
LEMMA ReplacedFields ==
  ASSUME RegistryTypeOK, NEW j \in 1..made
  PROVE  /\ \A i \in (1..made) \ {j} : Replaced(j)[i] = inst[i]
         /\ Replaced(j)[j].id = inst[j].id
         /\ Replaced(j)[j].conn \in {"on", "lost"} =>
              inst[j].conn \in {"on", "lost"} /\ Replaced(j)[j].stray
<1>1. inst[j] \in Instance
  BY DEF RegistryTypeOK
<1>2. CASE inst[j].conn \in {"on", "connecting"}
  BY <1>2, OffFields DEF Replaced
<1>3. CASE inst[j].conn \notin {"on", "connecting"}
  <2>1. /\ \A i \in (1..made) \ {j} : Replaced(j)[i] = inst[i]
        /\ Replaced(j)[j] = [inst[j] EXCEPT !.stray = @ \/ inst[j].conn = "lost"]
    BY <1>3 DEF Replaced, RegistryTypeOK
  <2> QED
    BY <1>1, <1>3, <2>1 DEF Instance
<1> QED
  BY <1>2, <1>3

\* A new instance under its id, whatever became of the old one.
LEMMA BuildReaches ==
  ASSUME RegistryTypeOK, RegistryCore, NEW t \in Tasks, NEW s \in Ids, Ahead(t, s),
         UNCHANGED <<cfg, used, overlapped>>,
         \A u \in Tasks \ {t} : op'[u] = op[u],
         \/ /\ op'[t].pc = "idle" /\ \A r \in Ids \ {s} : ~Ahead(t, r)
         \/ /\ op[t].pc = "import" /\ op'[t].pc = "import"
            /\ op'[t].new = op[t].new /\ op'[t].todo = op[t].todo \ {s},
         NEW old \in [1..made -> Instance], NEW e \in Entry, Build(old, s, e),
         \A i \in (1..made) \ {reg[s]} : old[i] = inst[i],
         reg[s] # 0 =>
           /\ old[reg[s]].id = s
           /\ old[reg[s]].conn \in {"on", "lost"} =>
                 inst[reg[s]].conn \in {"on", "lost"} /\ old[reg[s]].stray,
         s \notin overlapped => Present(s) /\ e.ver = cfg[s].ver,
         s \in used
  PROVE  RegistryCore'
<1>1. /\ made' = made + 1 /\ made' \in Nat /\ made \in Nat
      /\ reg'[s] = made' /\ \A r \in Ids \ {s} : reg'[r] = reg[r]
      /\ \A i \in 1..made : inst'[i] = old[i]
      /\ inst'[made'].id = s /\ inst'[made'].ver = e.ver
      /\ inst'[made'].conn = "off" /\ ~inst'[made'].synced
  BY BuildFields
<1>2. reg[s] # 0 => reg[s] \in 1..made /\ inst[reg[s]].id = s
  BY DEF RegistryTypeOK, RegistryCore, OwnInstances
<1>3. \A i \in 1..made : Replaces(s, i)
  <2> SUFFICES ASSUME NEW i \in 1..made PROVE Replaces(s, i)
    OBVIOUS
  <2>1. CASE i = reg[s]
    BY <1>1, <1>2, <2>1 DEF Replaces
  <2>2. CASE i # reg[s]
    BY <1>1, <2>2 DEF Replaces
  <2> QED
    BY <2>1, <2>2
<1>4. Reaches(t, s)
  BY <1>1 DEF Reaches, Matches, Present, Told
<1> QED
  BY <1>1, <1>3, <1>4, ReachStep

\* add_server and reload_server_config.
LEMMA StepsOfInstances ==
  ASSUME RegistryTypeOK, RegistryCore, NEW t \in Tasks, AddInstance(t) \/ Reload(t)
  PROVE  RegistryCore'
<1>00. PICK s \in Ids : s = op[t].id
  BY RequestFields DEF AddInstance, Reload
<1>1. /\ op[t].pc \in {"add", "reload"} /\ op[t].id = s /\ op[t].entry \in Entry
      /\ UNCHANGED <<cfg, used, overlapped>>
      /\ op'[t].pc = "idle" /\ \A u \in Tasks \ {t} : op'[u] = op[u]
  BY <1>00, RequestFields DEF AddInstance, Reload, Goto, Idle, RegistryTypeOK
<1>0. s \in used
  BY <1>1 DEF RegistryCore, KnownIds, Builds
<1>2. Ahead(t, s) /\ \A r \in Ids \ {s} : ~Ahead(t, r)
  BY <1>1 DEF Ahead, Changes
<1>3. s \notin overlapped => Present(s) /\ op[t].entry.ver = cfg[s].ver
  BY <1>1 DEF RegistryCore, HalfDone
<1>4. reg[s] # 0 => reg[s] \in 1..made /\ inst[reg[s]].id = s
  BY <1>1 DEF RegistryTypeOK, RegistryCore, OwnInstances
<1>5. CASE AddInstance(t) /\ reg[s] # 0
  <2>1. UNCHANGED <<reg, inst, made>> /\ s \in overlapped
    BY <1>1, <1>5 DEF AddInstance, RegistryCore, HalfDone
  <2>2. \A i \in 1..made : Replaces(s, i)
    BY <2>1 DEF Replaces
  <2>3. Reaches(t, s)
    BY <1>1, <1>2, <1>4, <2>1 DEF Reaches, RegistryCore, KnownIds
  <2>4. made \in Nat
    BY DEF RegistryTypeOK
  <2> QED
    BY <1>1, <1>2, <2>1, <2>2, <2>3, <2>4, ReachStep
<1>6. CASE AddInstance(t) /\ reg[s] = 0
  <2>1. Build(inst, s, op[t].entry) /\ inst \in [1..made -> Instance]
    BY <1>1, <1>6 DEF AddInstance, RegistryTypeOK
  <2> QED
    BY <1>0, <1>1, <1>2, <1>3, <1>6, <2>1, BuildReaches
<1>7. CASE Reload(t)
  <2> DEFINE old == IF reg[s] = 0 THEN inst ELSE Replaced(reg[s])
  <2>1. Build(old, s, op[t].entry)
    BY <1>1, <1>7 DEF Reload
  <2>2. old \in [1..made -> Instance]
    BY <1>4, ChangesTyped DEF RegistryTypeOK
  <2>3. \A i \in (1..made) \ {reg[s]} : old[i] = inst[i]
    BY <1>4, ReplacedFields
  <2>4. reg[s] # 0 =>
          /\ old[reg[s]].id = s
          /\ old[reg[s]].conn \in {"on", "lost"} =>
                inst[reg[s]].conn \in {"on", "lost"} /\ old[reg[s]].stray
    BY <1>4, ReplacedFields
  <2> HIDE DEF old
  <2> QED
    BY <1>0, <1>1, <1>2, <1>3, <2>1, <2>2, <2>3, <2>4, BuildReaches
<1> QED
  BY <1>5, <1>6, <1>7

\* remove_server.
LEMMA StepOfRemove ==
  ASSUME RegistryTypeOK, RegistryCore, NEW t \in Tasks, RemoveInstance(t)
  PROVE  RegistryCore'
<1>0. PICK s \in Ids : s = op[t].id
  BY RequestFields DEF RemoveInstance
<1>1. /\ op[t].pc = "remove" /\ op[t].id = s
      /\ UNCHANGED <<cfg, made, used, overlapped>>
      /\ op'[t].pc = "idle" /\ \A u \in Tasks \ {t} : op'[u] = op[u]
      /\ reg'[s] = 0 /\ \A r \in Ids \ {s} : reg'[r] = reg[r]
      /\ made \in Nat
  BY <1>0, RequestFields DEF RemoveInstance, Goto, Idle, RegistryTypeOK
<1>2. Ahead(t, s) /\ \A r \in Ids \ {s} : ~Ahead(t, r)
  BY <1>1 DEF Ahead, Changes
<1>3. reg[s] # 0 => reg[s] \in 1..made /\ inst[reg[s]].id = s
  BY <1>1 DEF RegistryTypeOK, RegistryCore, OwnInstances
<1>4. \A i \in 1..made : Replaces(s, i)
  BY <1>1, <1>3, OffFields DEF RemoveInstance, Replaces
<1>5. Reaches(t, s)
  <2>1. s \notin overlapped => ~Present(s)
    BY <1>1 DEF RegistryCore, HalfDone
  <2>2. (s \notin overlapped => Matches(s)') /\ ~Told(s)'
    <3>1. reg'[s] = 0 /\ (Present(s)' <=> Present(s))
      BY <1>1 DEF Present
    <3> QED
      BY <2>1, <3>1 DEF Matches, Told
  <2> QED
    BY <1>1, <1>2, <2>2 DEF Reaches
<1> QED
  BY <1>1, <1>2, <1>4, <1>5, ReachStep

\* sync_from_config comes to one server.
LEMMA StepOfSync ==
  ASSUME RegistryTypeOK, RegistryCore, NEW t \in Tasks, NEW s \in Ids, ImportStep(t, s)
  PROVE  RegistryCore'
<1> DEFINE new == op[t].new
           left == op[t].todo \ {s}
           gone == IF reg[s] = 0 THEN inst ELSE Off(reg[s])
<1>1. /\ op[t].pc = "import" /\ s \in op[t].todo /\ op[t].todo \subseteq Ids
      /\ new \in [Ids -> Entry \cup {NoServer}]
      /\ UNCHANGED <<cfg, used, overlapped>>
      /\ \A u \in Tasks \ {t} : op'[u] = op[u]
      /\ op'[t] = IF left = {} THEN Idle ELSE [pc |-> "import", new |-> new, todo |-> left]
      /\ made \in Nat
  BY RequestFields DEF ImportStep, Goto, RegistryTypeOK
<1>2. /\ Ahead(t, s)
      /\ \/ op'[t].pc = "idle" /\ \A r \in Ids \ {s} : ~Ahead(t, r)
         \/ op'[t].pc = "import" /\ op'[t].new = new /\ op'[t].todo = left
  BY <1>1 DEF Ahead, Changes, Idle
<1>3. reg[s] # 0 => reg[s] \in 1..made /\ inst[reg[s]].id = s
  BY <1>1 DEF RegistryTypeOK, RegistryCore, OwnInstances
<1>4. s \in used
  <2>1. op[t].pc = "import"
    BY <1>1
  <2>2. Builds(t, s)
    BY <2>1 DEF Builds
  <2>3. KnownIds
    BY DEF RegistryCore
  <2> QED
    BY <2>2, <2>3 DEF KnownIds
<1>5. s \notin overlapped =>
        /\ Present(s) <=> new[s] # NoServer
        /\ Present(s) => new[s].ver = cfg[s].ver
  BY <1>1 DEF RegistryCore, HalfDone
<1>6. CASE new[s] = NoServer
  <2>1. UNCHANGED made /\ inst' = gone /\ reg'[s] = 0 /\ \A r \in Ids \ {s} : reg'[r] = reg[r]
    BY <1>6 DEF ImportStep, RegistryTypeOK
  <2>2. \A i \in 1..made : Replaces(s, i)
    BY <1>3, <2>1, OffFields DEF Replaces
  <2>3. Reaches(t, s)
    BY <1>1, <1>2, <1>5, <1>6, <2>1 DEF Reaches, Matches, Present, Told
  <2> QED
    BY <1>1, <1>2, <2>1, <2>2, <2>3, ReachStep
<1>7. CASE new[s] # NoServer /\ Unchanged(s, new)
  <2> DEFINE i == reg[s]
  <2>1. /\ UNCHANGED <<made, reg>>
        /\ inst' = [inst EXCEPT ![i].skipped = @ \/ inst[i].trig # new[s].trig]
    BY <1>7 DEF ImportStep
  <2>2. i \in 1..made /\ inst[i] \in Instance /\ inst[i].id = s /\ inst[i].ver = new[s].ver
    BY <1>3, <1>7 DEF Unchanged, RegistryTypeOK
  <2>3. \A j \in (1..made) \ {i} : inst'[j] = inst[j]
    BY <2>1 DEF RegistryTypeOK
  <2>4. inst'[i] = [inst[i] EXCEPT !.skipped = @ \/ inst[i].trig # new[s].trig]
    BY <2>1, <2>2 DEF RegistryTypeOK
  <2>5. /\ inst'[i].id = s /\ inst'[i].ver = new[s].ver
        /\ inst'[i].conn = inst[i].conn /\ inst'[i].stray = inst[i].stray
        /\ inst'[i].trig = inst[i].trig
        /\ ~inst'[i].skipped => inst[i].trig = new[s].trig
    BY <2>2, <2>4 DEF Instance
  <2>6. \A j \in 1..made : Replaces(s, j)
    BY <2>1, <2>2, <2>3, <2>5 DEF Replaces
  <2>7. Told(s)' => Told(s)
    BY <1>1, <1>2, <2>1 DEF Told, Untold, Present
  <2>8. Matches(s)' \/ s \in overlapped
    <3>1. reg'[s] = i /\ i # 0 /\ inst'[reg'[s]].ver = new[s].ver
      BY <2>1, <2>2, <2>5
    <3>2. Present(s)' <=> Present(s)
      BY <1>1 DEF Present
    <3> QED
      BY <1>1, <1>5, <1>7, <3>1, <3>2 DEF Matches
  <2>9. s \notin overlapped /\ Told(s)' /\ ~inst'[i].skipped => inst'[i].trig = cfg[s].trig
    BY <1>1, <2>5, <2>7 DEF RegistryCore, ImportFresh
  <2>10. Reaches(t, s)
    BY <1>1, <1>2, <1>4, <2>1, <2>2, <2>5, <2>8, <2>9 DEF Reaches
  <2> QED
    BY <1>1, <1>2, <2>1, <2>6, <2>10, ReachStep
<1>8. CASE new[s] # NoServer /\ ~Unchanged(s, new)
  <2>1. Build(gone, s, new[s]) /\ new[s] \in Entry
    BY <1>1, <1>8 DEF ImportStep
  <2>2. gone \in [1..made -> Instance]
    BY <1>3, ChangesTyped DEF RegistryTypeOK
  <2>3. /\ \A i \in (1..made) \ {reg[s]} : gone[i] = inst[i]
        /\ reg[s] # 0 => gone[reg[s]].id = s /\ gone[reg[s]].conn = "off"
    BY <1>3, OffFields
  <2>4. s \notin overlapped => Present(s) /\ new[s].ver = cfg[s].ver
    BY <1>5, <1>8
  <2> HIDE DEF gone
  <2> QED
    BY <1>1, <1>2, <1>4, <2>1, <2>2, <2>3, <2>4, BuildReaches
<1> QED
  BY <1>6, <1>7, <1>8

-----------------------------------------------------------------------------

\* The initial state.
LEMMA RegistryInitially == RegistryInit => RegistryInv
<1> SUFFICES ASSUME RegistryInit PROVE RegistryInv
  OBVIOUS
<1> USE DEF RegistryInit
<1>1. RegistryTypeOK
  <2>1. inst \in [1..made -> Instance] /\ 1..made = {}
    OBVIOUS
  <2>2. op \in [Tasks -> Operation]
    BY IdleTyped
  <2> QED
    BY <2>1, <2>2 DEF RegistryTypeOK, Versions
<1>2. \A t \in Tasks : op[t].pc = "idle"
  BY DEF Idle
<1>3. KnownIds /\ OwnInstances /\ OneChange /\ HalfDone
  BY <1>2 DEF KnownIds, OwnInstances, OneChange, HalfDone, Present, Builds, Changes
<1>4. ReachedMatches /\ ReachedFresh /\ ImportFresh /\ NoOrphanConnection
  BY <1>2 DEF ReachedMatches, ReachedFresh, ImportFresh, NoOrphanConnection, Matches, Told, Present
<1> QED
  BY <1>1, <1>3, <1>4 DEF RegistryInv

\* The inductive invariant.
LEMMA RegistryInductive == RegistryInv /\ [RegistryNext]_registryVars => RegistryInv'
<1> SUFFICES ASSUME RegistryInv, [RegistryNext]_registryVars PROVE RegistryInv'
  OBVIOUS
<1>1. RegistryTypeOK /\ RegistryCore
  BY DEF RegistryInv, RegistryCore
<1>2. RegistryTypeOK'
  BY <1>1, RegistryNextType DEF RegistryCore
<1>3. RegistryCore'
  <2>1. ASSUME NEW t \in Tasks, NEW s \in Ids,
               AddConfig(t, s) \/ RemoveConfig(t, s) \/ UpdateConfig(t, s)
        PROVE  RegistryCore'
    BY <1>1, <2>1, StepsOfEntries
  <2>2. ASSUME NEW t \in Tasks, NEW s \in Ids, TriggerConfig(t, s) PROVE RegistryCore'
    BY <1>1, <2>2, StepOfNewTriggers
  <2>3. ASSUME NEW t \in Tasks, TriggerFinds(t) \/ \E s \in Ids : HandleConnect(t, s)
        PROVE  RegistryCore'
    BY <1>1, <2>3, StepsOfRequests
  <2>4. ASSUME NEW t \in Tasks, DialDone(t) \/ \E s \in Ids : ForwardConnect(t, s)
        PROVE  RegistryCore'
    BY <1>1, <2>4, StepsOfDials
  <2>5. ASSUME \/ \E i \in 1..made : Lose(i) \/ Reconnect(i) \/ GiveUp(i)
               \/ \E t \in Tasks, s \in Ids : Disconnect(t, s)
        PROVE  RegistryCore'
    BY <1>1, <2>5, StepsOfConnections
  <2>6. ASSUME NEW t \in Tasks, NEW s \in Ids, ImportStep(t, s) PROVE RegistryCore'
    BY <1>1, <2>6, StepOfSync
  <2>7. ASSUME NEW t \in Tasks, AddInstance(t) \/ Reload(t) PROVE RegistryCore'
    BY <1>1, <2>7, StepsOfInstances
  <2>8. ASSUME NEW t \in Tasks, RemoveDisconnects(t) PROVE RegistryCore'
    BY <1>1, <2>8, StepOfRemoval
  <2>9. ASSUME NEW t \in Tasks, RemoveInstance(t) PROVE RegistryCore'
    BY <1>1, <2>9, StepOfRemove
  <2>10. ASSUME NEW t \in Tasks, TriggerSets(t) \/ ConnectSync(t) PROVE RegistryCore'
    BY <1>1, <2>10, StepsOfTriggers
  <2>11. ASSUME NEW t \in Tasks, ImportConfig(t) PROVE RegistryCore'
    BY <1>1, <2>11, StepOfImport
  <2>12. CASE UNCHANGED registryVars
    BY <1>1, <2>12, InstanceStep DEF registryVars, Kept, TellsTriggers, Told, Untold, Present
  <2> QED
    BY <2>1, <2>2, <2>3, <2>4, <2>5, <2>6, <2>7, <2>8, <2>9, <2>10, <2>11, <2>12 DEF RegistryNext
<1> QED
  BY <1>2, <1>3 DEF RegistryInv, RegistryCore

\* The configuration, the registry and every request stay among their values,
\* and whatever is registered has been built.
THEOREM RegistryTypeCorrect == RegistrySpec => []RegistryTypeOK
<1>1. RegistryInv => RegistryTypeOK
  BY DEF RegistryInv
<1> QED
  BY <1>1, RegistryInitially, RegistryInductive, PTL DEF RegistrySpec

\* A connection belongs to a registered server, but for the strays of the code.
THEOREM RegistryNoOrphan == RegistrySpec => []NoOrphanConnection
<1>1. RegistryInv => NoOrphanConnection
  BY DEF RegistryInv
<1> QED
  BY <1>1, RegistryInitially, RegistryInductive, PTL DEF RegistrySpec

\* When no change of a server is under way, and none was made within another
\* one, its instance is the one its entry says.
THEOREM RegistryFollowsConfig == RegistrySpec => []RegistryMatchesConfig
<1>1. RegistryInv => RegistryMatchesConfig
  BY DEF RegistryInv, ReachedMatches, Reached, Matches, Ahead, Busy, RegistryMatchesConfig
<1> QED
  BY <1>1, RegistryInitially, RegistryInductive, PTL DEF RegistrySpec

\* An instance that went through handle_connect_server runs the triggers of
\* the configuration, however many requests are interleaved.
THEOREM RegistryTriggersFresh == RegistrySpec => []TriggersFresh
<1>1. RegistryInv => TriggersFresh
  <2> SUFFICES ASSUME RegistryInv, NEW s \in Ids, Present(s), reg[s] # 0, ~Busy(s),
                      ~\E t \in Tasks : op[t].pc \in {"find", "set"} /\ op[t].id = s,
                      s \notin overlapped, inst[reg[s]].synced, ~inst[reg[s]].skipped
               PROVE  inst[reg[s]].trig = cfg[s].trig
    BY DEF TriggersFresh
  <2>1. Reached(s) /\ Told(s)
    BY DEF Reached, Ahead, Busy, Told, Untold
  <2> QED
    BY <2>1 DEF RegistryInv, ReachedFresh
<1> QED
  BY <1>1, RegistryInitially, RegistryInductive, PTL DEF RegistrySpec
=============================================================================
