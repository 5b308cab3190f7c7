---------------------------- MODULE MCCloudSync ----------------------------
(***************************************************************************)
(* CloudSync for TLC: the passwords are interchangeable.                   *)
(***************************************************************************)
EXTENDS CloudSync, TLC

PasswordSymmetry == Permutations(Passwords)
=============================================================================
