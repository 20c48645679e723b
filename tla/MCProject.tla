----------------------------- MODULE MCProject -----------------------------
(* The instance of Project, and of the Rollout in it, that TLC checks.      *)
EXTENDS Project

CONSTANTS a, b

\* Two steps of one level before a second level, and no steps at all.
Ordered == {<< {a}, {a}, {b} >>, << >>}
=============================================================================
