---------------------------- MODULE TriggerEngine ----------------------------
(***************************************************************************)
(* The trigger engine of one server (crates/core/src/trigger/engine.rs)    *)
(* and the timer tasks that fire scheduled triggers                        *)
(* (start_interval_timers in server/instance.rs).                          *)
(*                                                                         *)
(* A firing is a call of fire_event or manual_fire, made by a task of its  *)
(* own; a firing that returned is used for the next one.  Every server has *)
(* an engine of its own, so the map of per-server locks is one lock.  What *)
(* the commands of a trigger do is left out, except whether they succeed.  *)
(* The clock counts from each trigger's last firing and stops at ClockCap. *)
(***************************************************************************)
EXTENDS Naturals

CONSTANTS
  Triggers,     \* ids of the server's triggers
  Events,       \* what can call the engine
  Firings,      \* calls in progress
  Kind,         \* of an event: manual, connect (or reconnect), timed, once
  Matching,     \* triggers whose type is the event's type
  OnceTrigger,  \* the one-time trigger whose timer raises a "once" event
  Cooldown,     \* cooldown_secs of a trigger
  StopOnError,  \* triggers without continue_on_error
  ClockCap,     \* where the clock stops
  None          \* no firing, no trigger, no event

Kinds == {"manual", "connect", "timed", "once"}

ASSUME TriggerEngineAssumption ==
  /\ None \notin Triggers /\ None \notin Firings /\ None \notin Events
  /\ Kind \in [Events -> Kinds]
  /\ Matching \in [Events -> SUBSET Triggers]
  /\ OnceTrigger \in [Events -> Triggers \cup {None}]
  /\ ClockCap \in Nat
  /\ Cooldown \in [Triggers -> 0 .. ClockCap]
  /\ StopOnError \subseteq Triggers

VARIABLES
  globalPaused,  \* TriggerEngine.global_paused
  serverPaused,  \* TriggerEngine.paused of the server
  enabled,       \* triggers that are enabled
  due,           \* one-time timers that have not gone off
  lock,          \* the firing that holds the per-server lock
  age,           \* time since a trigger was last recorded in cooldowns
  running,       \* TriggerEngine.running_count
  pc,            \* where a firing is
  event,         \* what it was called for
  todo,          \* matching triggers it has not come to
  current        \* the trigger it is at

pauses == <<globalPaused, serverPaused>>
triggers == <<enabled, due>>
engineVars == <<pauses, triggers, lock, age, running, pc, event, todo, current>>

EngineTypeOK ==
  /\ globalPaused \in BOOLEAN /\ serverPaused \in BOOLEAN
  /\ enabled \subseteq Triggers /\ due \subseteq Events
  /\ lock \in Firings \cup {None}
  /\ age \in [Triggers -> 0 .. ClockCap]
  /\ running \in Nat
  /\ pc \in [Firings -> {"idle", "called", "queued", "check", "record", "start",
                         "exec", "disable"}]
  /\ event \in [Firings -> Events \cup {None}]
  /\ todo \in [Firings -> SUBSET Triggers]
  /\ current \in [Firings -> Triggers \cup {None}]

EngineInit ==
  /\ globalPaused = FALSE /\ serverPaused = FALSE
  /\ enabled = Triggers /\ due = {e \in Events : Kind[e] = "once"}
  /\ lock = None
  /\ age = [t \in Triggers |-> ClockCap]
  /\ running = 0
  /\ pc = [f \in Firings |-> "idle"]
  /\ event = [f \in Firings |-> None]
  /\ todo = [f \in Firings |-> {}]
  /\ current = [f \in Firings |-> None]

IsPaused == globalPaused \/ serverPaused
KindOf(f) == Kind[event[f]]
SkipsCooldown(f) == KindOf(f) \in {"manual", "connect"}
InCooldown(t) == age[t] < Cooldown[t]

Moves(f, from, to) == pc[f] = from /\ pc' = [pc EXCEPT ![f] = to]

\* The call is over: the timer of a one-time trigger goes on to disable it,
\* however the call ended.
Returns(f, from) ==
  /\ Moves(f, from, IF KindOf(f) = "once" THEN "disable" ELSE "idle")
  /\ event' = IF KindOf(f) = "once" THEN event ELSE [event EXCEPT ![f] = None]

-----------------------------------------------------------------------------
(* fire_event and manual_fire.                                              *)

\* The caller takes its snapshot of the triggers.  A timer for a time that is
\* past is not started again.
Call(f, e) ==
  /\ Moves(f, "idle", "called")
  /\ Kind[e] = "once" => e \in due
  /\ due' = due \ {e}
  /\ event' = [event EXCEPT ![f] = e]
  /\ todo' = [todo EXCEPT ![f] = Matching[e] \cap enabled]
  /\ UNCHANGED <<pauses, enabled, lock, age, running, current>>

\* The triggers are paused, or none matches: nothing is executed.  A pending
\* event is not kept either: add_pending_event has no caller.
CallReturns(f) ==
  /\ IsPaused \/ todo[f] = {}
  /\ Returns(f, "called")
  /\ todo' = [todo EXCEPT ![f] = {}]
  /\ UNCHANGED <<pauses, triggers, lock, age, running, current>>

Enqueue(f) ==
  /\ ~IsPaused /\ todo[f] # {}
  /\ Moves(f, "called", "queued")
  /\ UNCHANGED <<pauses, triggers, lock, age, running, event, todo, current>>

\* Mutant: the per-server lock is not taken.
AcquireUnlocked(f) ==
  /\ Moves(f, "queued", "check")
  /\ lock' = f
  /\ UNCHANGED <<pauses, triggers, age, running, event, todo, current>>

Acquire(f) ==
  /\ lock = None
  /\ Moves(f, "queued", "check")
  /\ lock' = f
  /\ UNCHANGED <<pauses, triggers, age, running, event, todo, current>>

\* The next trigger, in the order of the list, which is left open here.  One
\* that cools down is skipped, unless the event is the user's doing.
CheckNext(f) ==
  \E t \in todo[f] :
    /\ \/ /\ SkipsCooldown(f) \/ ~InCooldown(t)
          /\ Moves(f, "check", "record")
          /\ current' = [current EXCEPT ![f] = t]
       \/ /\ ~SkipsCooldown(f) /\ InCooldown(t)
          /\ Moves(f, "check", "check")
          /\ UNCHANGED current
    /\ todo' = [todo EXCEPT ![f] = @ \ {t}]
    /\ UNCHANGED <<pauses, triggers, lock, age, running, event>>

\* record_fire, before the trigger is executed.
Record(f) ==
  /\ Moves(f, "record", "start")
  /\ age' = [age EXCEPT ![current[f]] = 0]
  /\ UNCHANGED <<pauses, triggers, lock, running, event, todo, current>>

\* execute_trigger counts itself and runs the commands.
StartExec(f) ==
  /\ Moves(f, "start", "exec")
  /\ running' = running + 1
  /\ UNCHANGED <<pauses, triggers, lock, age, event, todo, current>>

\* The guard of running_count is dropped; after an error without
\* continue_on_error the remaining triggers are not tried.
EndExec(f) ==
  /\ Moves(f, "exec", "check")
  /\ running' = running - 1
  /\ current' = [current EXCEPT ![f] = None]
  /\ \/ UNCHANGED todo
     \/ current[f] \in StopOnError /\ todo' = [todo EXCEPT ![f] = {}]
  /\ UNCHANGED <<pauses, triggers, lock, age, event>>

Release(f) ==
  /\ todo[f] = {}
  /\ Returns(f, "check")
  /\ lock' = None
  /\ UNCHANGED <<pauses, triggers, age, running, todo, current>>

\* The timer of a one-time trigger disables it.
Disable(f) ==
  /\ Moves(f, "disable", "idle")
  /\ enabled' = enabled \ {OnceTrigger[event[f]]}
  /\ event' = [event EXCEPT ![f] = None]
  /\ UNCHANGED <<pauses, due, lock, age, running, todo, current>>

\* The task of the call is dropped.
Forgets(f) ==
  /\ pc' = [pc EXCEPT ![f] = "idle"]
  /\ event' = [event EXCEPT ![f] = None]
  /\ todo' = [todo EXCEPT ![f] = {}]
  /\ current' = [current EXCEPT ![f] = None]

\* Mutant: the count is not a guard's, and an aborted task does not give it back.
AbortKeepsCount(f) ==
  /\ pc[f] # "idle" /\ KindOf(f) # "manual"
  /\ lock' = IF lock = f THEN None ELSE lock
  /\ Forgets(f)
  /\ UNCHANGED <<pauses, triggers, age, running>>

\* Mutant: the lock is not a guard's, and an aborted task keeps it.
AbortKeepsLock(f) ==
  /\ pc[f] # "idle" /\ KindOf(f) # "manual"
  /\ running' = IF pc[f] = "exec" THEN running - 1 ELSE running
  /\ Forgets(f)
  /\ UNCHANGED <<pauses, triggers, lock, age>>

\* disconnect aborts the timers, health checks, detection and monitor wherever
\* they are; dropping the call drops its guards.
Abort(f) ==
  /\ pc[f] # "idle" /\ KindOf(f) # "manual"
  /\ lock' = IF lock = f THEN None ELSE lock
  /\ running' = IF pc[f] = "exec" THEN running - 1 ELSE running
  /\ Forgets(f)
  /\ UNCHANGED <<pauses, triggers, age>>

-----------------------------------------------------------------------------
(* Pausing, and the clock.                                                  *)

PauseAll ==
  /\ globalPaused' = TRUE
  /\ UNCHANGED <<serverPaused, triggers, lock, age, running, pc, event, todo, current>>

ResumeAll ==
  /\ globalPaused' = FALSE
  /\ UNCHANGED <<serverPaused, triggers, lock, age, running, pc, event, todo, current>>

\* pause_server and resume_server.
PauseServer(on) ==
  /\ serverPaused' = on
  /\ UNCHANGED <<globalPaused, triggers, lock, age, running, pc, event, todo, current>>

Tick ==
  /\ age' = [t \in Triggers |-> IF age[t] < ClockCap THEN age[t] + 1 ELSE age[t]]
  /\ UNCHANGED <<pauses, triggers, lock, running, pc, event, todo, current>>

-----------------------------------------------------------------------------

Proceed(f) ==
  \/ CallReturns(f) \/ Enqueue(f) \/ CheckNext(f) \/ Record(f) \/ StartExec(f)
  \/ EndExec(f) \/ Release(f) \/ Disable(f)

EngineNext ==
  \/ \E f \in Firings :
       \/ \E e \in Events : Call(f, e)
       \/ Proceed(f) \/ Acquire(f) \/ Abort(f)
  \/ PauseAll \/ ResumeAll \/ \E on \in BOOLEAN : PauseServer(on)
  \/ Tick

EngineSpec == EngineInit /\ [][EngineNext]_engineVars

\* Every command has a timeout, and tokio's mutex serves its waiters in order.
FairEngineSpec ==
  /\ EngineSpec
  /\ \A f \in Firings : WF_engineVars(Proceed(f)) /\ SF_engineVars(Acquire(f))

-----------------------------------------------------------------------------
(* Properties                                                               *)

Holding == {"check", "record", "start", "exec"}

\* "prevent concurrent trigger execution for same server" (engine.rs:69): also
\* when callers are aborted, and whoever calls.
OneAtATime ==
  \A f, g \in Firings : pc[f] \in Holding /\ pc[g] \in Holding => f = g

\* running_count is exact: shutdown's drain never waits for an execution that
\* was aborted, nor passes over one that runs.
RunningExact ==
  running = IF \E f \in Firings : pc[f] = "exec" THEN 1 ELSE 0

\* The cooldown check and the record that follows it are separate awaits:
\* still, no event of a timer or a check fires a trigger that cools down,
\* whatever else fires it at the same time.
CooldownRespected ==
  [][\A f \in Firings :
       pc[f] = "record" /\ pc'[f] = "start" /\ ~SkipsCooldown(f)
         => ~InCooldown(current[f])]_engineVars

\* Every call returns, even when the holder of the lock is aborted.
CallsReturn == \A f \in Firings : (pc[f] # "idle") ~> (pc[f] = "idle")

-----------------------------------------------------------------------------
(* The inductive invariant behind the three safety properties.              *)

\* Whoever is past Acquire holds the lock, and nobody else does.
LockAgrees == \A f \in Firings : pc[f] \in Holding <=> lock = f

\* What a firing found when it checked is still so when it records.
CheckStands ==
  \A f \in Firings :
    /\ pc[f] # "idle" => event[f] \in Events
    /\ pc[f] \in {"record", "start", "exec"} => current[f] \in Triggers
    /\ pc[f] = "record" /\ ~SkipsCooldown(f) => ~InCooldown(current[f])

EngineInv == EngineTypeOK /\ LockAgrees /\ CheckStands /\ RunningExact
=============================================================================
