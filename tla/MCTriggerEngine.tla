--------------------------- MODULE MCTriggerEngine ---------------------------
(***************************************************************************)
(* An instance of TriggerEngine for TLC.  Trigger a is timed and cools     *)
(* down, b is a one-time trigger.                                          *)
(***************************************************************************)
EXTENDS TriggerEngine

CONSTANTS a, b

MCKind == [e \in Events |->
  CASE e = "manual" -> "manual" [] e = "interval" -> "timed" [] OTHER -> "once"]

MCMatching == [e \in Events |->
  IF e = "onceB" THEN {b} ELSE {a}]

MCOnceTrigger == [e \in Events |-> IF e = "onceB" THEN b ELSE None]

MCCooldown == [t \in Triggers |-> IF t = a THEN ClockCap ELSE 0]
=============================================================================
