----------------------------- MODULE MCJobPod ------------------------------
(* The instance of JobPod that TLC checks: three runs of two specs, one of  *)
(* which has a policy selector.                                             *)
EXTENDS JobPod
=============================================================================
