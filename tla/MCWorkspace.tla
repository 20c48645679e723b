---------------------------- MODULE MCWorkspace ----------------------------
(* The instances of Workspace that TLC checks.                              *)
EXTENDS Workspace

\* Spec versions are numbers; forward edits never return to an old version.
Forward   == {e \in Specs \X Specs : e[2] = e[1] + 1}
AnyEdit   == {e \in Specs \X Specs : e[1] # e[2]}
=============================================================================
