---------------------------- MODULE MCRunRecords ----------------------------
(* The instances of RunRecords that TLC checks.                             *)
EXTENDS RunRecords

CONSTANTS first, second

\* The two reviewers disagree.
Disagree == [q \in Requests |-> IF q = first THEN "approved" ELSE "rejected"]
=============================================================================
