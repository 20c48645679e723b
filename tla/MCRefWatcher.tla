---------------------------- MODULE MCRefWatcher ----------------------------
(* The instances of RefWatcher that TLC checks.                             *)
EXTENDS RefWatcher
=============================================================================
