------------------------------ MODULE MCEvents ------------------------------
(* The instance of Events that TLC checks.                                  *)
EXTENDS Events
CONSTANTS a, list, item
=============================================================================
