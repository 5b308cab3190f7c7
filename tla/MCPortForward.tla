--------------------------- MODULE MCPortForward ---------------------------
(***************************************************************************)
(* Instances of PortForward for TLC: one local rule and one remote rule,   *)
(* both started automatically, each on a key of its own.                   *)
(***************************************************************************)
EXTENDS PortForward

CONSTANTS l1, r1, lk, rk

MCKeyOf == [r \in Rules |-> IF r \in LocalRules THEN lk ELSE rk]
=============================================================================
