--------------------------- MODULE RequestStream ---------------------------
(***************************************************************************)
(* What a client may expect of a connection to the daemon: its requests    *)
(* are handled in the order it made them, each at most once, and a handled *)
(* request is answered at most once, before the next one is handled.  The  *)
(* connection may break at any time; nothing is handled or answered        *)
(* afterwards.  IpcConnection implements this.                             *)
(***************************************************************************)
EXTENDS Naturals

VARIABLES
    asked,      \* requests made
    handled,    \* requests handled, the first ones
    answered,   \* requests answered, the first ones
    broken      \* the connection broke

vars == <<asked, handled, answered, broken>>

Init == asked = 0 /\ handled = 0 /\ answered = 0 /\ broken = FALSE

Ask == asked' = asked + 1 /\ UNCHANGED <<handled, answered, broken>>

Handle ==
    /\ ~broken
    /\ handled = answered /\ handled < asked
    /\ handled' = handled + 1
    /\ UNCHANGED <<asked, answered, broken>>

Answer ==
    /\ ~broken
    /\ answered < handled
    /\ answered' = handled
    /\ UNCHANGED <<asked, handled, broken>>

Break == broken' = TRUE /\ UNCHANGED <<asked, handled, answered>>

Next == Ask \/ Handle \/ Answer \/ Break

Spec == Init /\ [][Next]_vars
=============================================================================
