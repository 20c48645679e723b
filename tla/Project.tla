------------------------------ MODULE Project ------------------------------
(***************************************************************************)
(* A Project (internal/controller/project) beside the Rollout of its name.  *)
(* Without a Rollout the Project gives every Workspace with work permission *)
(* to run; with one it leaves that to the Rollout.  Rollouts are created    *)
(* and deleted while Workspaces run, and both controllers decide on what    *)
(* they read earlier.  Workspaces are those of module Rollout.              *)
(***************************************************************************)
EXTENDS Rollout

VARIABLES
    exists,   \* the Rollout exists
    project,  \* the Project: without its finalizer, live, being deleted, gone
    reason,   \* the reason in its status
    pgrants,  \* the Workspaces the reconcile is going to grant permission
    by        \* history: the controller that gave each Workspace its permission

pvars == <<exists, project, reason, pgrants>>
all   == <<vs, pvars, by>>

PInit ==
    /\ Init
    /\ exists \in BOOLEAN
    /\ project = "new" /\ reason = "" /\ pgrants = {}
    /\ by = [w \in Workspaces |-> "none"]

\* Who gave the permissions there are after a step of controller c.
Granted(c) ==
    by' = [w \in Workspaces |-> IF ~ws'[w].exec THEN "none" ELSE IF ~ws[w].exec THEN c ELSE by[w]]
-----------------------------------------------------------------------------
(* The Project controller.                                                  *)

Rest == Track /\ UNCHANGED <<rollout, exists>>

\* updateStatus only logs an error.
Writes(r) ==
    \/ reason' = r /\ UNCHANGED events
    \/ Fault /\ UNCHANGED reason

AddFinalizer ==
    /\ pgrants = {} /\ project = "new"
    /\ project' = "live"
    /\ UNCHANGED <<ws, events, reason, pgrants, by>> /\ Rest

\* The reconcile is repeated when the finalizer cannot be removed.
handleDeletion ==
    /\ pgrants = {} /\ project = "deleting"
    /\ \/ project' = "gone" /\ Writes("Deleting")
       \/ UNCHANGED project /\ Fault /\ reason' = "Deleting"
    /\ UNCHANGED <<ws, pgrants, by>> /\ Rest

\* Mutant: the status is written for a Project that has none yet only.
deferOnce ==
    /\ pgrants = {} /\ project = "live" /\ exists
    /\ reason = "" /\ Writes("ManagedByRollout")
    /\ UNCHANGED <<ws, project, pgrants, by>> /\ Rest

deferToRollout ==
    /\ pgrants = {} /\ project = "live" /\ exists
    /\ Writes("ManagedByRollout")
    /\ UNCHANGED <<ws, project, pgrants, by>> /\ Rest

projectPendingWork(w) == ws[w].phase \in {"", "Pending"} \/ ws[w].detected \/ ws[w].request

\* Without a Rollout the Workspaces are listed.
defaultParallel ==
    /\ pgrants = {} /\ project = "live" /\ ~exists
    /\ Writes("DefaultParallel")
    /\ pgrants' = {w \in Workspaces : ws[w].phase # Absent /\ ~ws[w].exec /\ projectPendingWork(w)}
    /\ UNCHANGED <<ws, project, by>> /\ Rest

\* The Rollout cannot be looked up, or the Workspaces not listed.
reconcileError ==
    /\ pgrants = {} /\ project = "live"
    /\ Fault
    /\ reason' \in {reason, "ReconcileError"}
    /\ UNCHANGED <<ws, project, pgrants, by>> /\ Rest

\* Each grant reads the Workspace again and updates it; an error is logged.
grantParallel(w) ==
    /\ w \in pgrants
    /\ pgrants' = pgrants \ {w}
    /\ \/ ws' = [ws EXCEPT ![w].exec = TRUE] /\ UNCHANGED events
       \/ Fault /\ UNCHANGED ws
    /\ Granted("project")
    /\ UNCHANGED <<project, reason>> /\ Rest

reconcileProject ==
    \/ AddFinalizer \/ handleDeletion \/ deferToRollout \/ defaultParallel \/ reconcileError
    \/ \E w \in Workspaces : grantParallel(w)
-----------------------------------------------------------------------------
(* The Rollout.                                                             *)

\* Reconcile does nothing for a Rollout that is not there; one that is deleted while
\* it is reconciled is still acted for, but has no status to write.
rolloutReconcile ==
    /\ reconcileRollout
    /\ Idle \/ (grants = {} /\ revokes = {}) => exists
    /\ Granted("rollout") /\ UNCHANGED pvars

statusNotFound ==
    /\ ~Idle /\ grants = {} /\ revokes = {} /\ ~exists
    /\ write' = NoStatus
    /\ UNCHANGED <<ws, status, grants, revokes, events, pvars, by>> /\ Track

createRollout ==
    /\ ~exists /\ Input
    /\ exists' = TRUE
    /\ status' = NoStatus
    /\ UNCHANGED <<ws, grants, revokes, write>> /\ Track
    /\ UNCHANGED <<project, reason, pgrants, by>>

deleteRollout ==
    /\ exists /\ Input
    /\ exists' = FALSE
    /\ UNCHANGED <<ws, rollout>> /\ Track
    /\ UNCHANGED <<project, reason, pgrants, by>>

deleteProject ==
    /\ project \in {"new", "live"} /\ Input
    /\ project' = IF project = "new" THEN "gone" ELSE "deleting"
    /\ UNCHANGED <<ws, rollout>> /\ Track
    /\ UNCHANGED <<exists, reason, pgrants, by>>
-----------------------------------------------------------------------------
WorkspaceStep(A(_), w) == A(w) /\ Granted("none") /\ UNCHANGED pvars

PNext ==
    \/ rolloutReconcile \/ statusNotFound
    \/ reconcileProject
    \/ createRollout \/ deleteRollout \/ deleteProject
    \/ \E w \in Workspaces :
         \/ WorkspaceStep(reconcileWorkspace, w) \/ WorkspaceStep(createApplyJobIfApproved, w)
         \/ WorkspaceStep(configurationChanged, w) \/ WorkspaceStep(variablesUnresolved, w)
         \/ WorkspaceStep(workArrives, w) \/ WorkspaceStep(createWorkspace, w)

PSpec == PInit /\ [][PNext]_all

\* Every change of a Workspace, also the write of its next scheduled time, queues the
\* Project and the Rollout; a Workspace with permission goes on.
PFairness ==
    /\ WF_all(rolloutReconcile \/ statusNotFound)
    /\ WF_all(reconcileProject)
    /\ \A w \in Workspaces : WF_all(WorkspaceStep(reconcileWorkspace, w))
    /\ WF_all(\E w \in Workspaces : WorkspaceStep(createWorkspace, w))

PFairSpec == PSpec /\ PFairness
-----------------------------------------------------------------------------
(* Properties.                                                              *)

\* Every variable has its type.
PTypeOK ==
    /\ TypeOK
    /\ exists \in BOOLEAN
    /\ project \in {"new", "live", "deleting", "gone"}
    /\ reason \in {"", "ManagedByRollout", "DefaultParallel", "ReconcileError", "Deleting"}
    /\ pgrants \subseteq Workspaces
    /\ by \in [Workspaces -> {"none", "rollout", "project"}]

\* A Workspace that has its permission from the Rollout starts to plan only if all earlier
\* levels were done at some moment since its work came, or when a grant was decided that
\* its work overtook, although the Project may have let other Workspaces run in any order
\* before and meanwhile: reconcileRollout looks at what the Workspaces have done, whoever
\* let them, and a Workspace drops its permission when it begins anew.
TurnFollowsLevels ==
    [][ \A w \in Workspaces :
          ws[w].phase \in {"", "Pending"} /\ ws'[w].phase = "Planning" /\ by[w] = "rollout"
            => cleared[w] ]_all

\* All work gets done, whoever is in charge and however often that changes: what the
\* Rollout selects while there is one, and every Workspace of a live Project while there
\* is none.  It needs that no Workspace is left failed or waiting for a reviewer, and
\* that none was in the middle of a run without permission when the last Rollout went,
\* because the Project gives permission only to Workspaces that have not begun.
Stranded(w) == ws[w].phase \in {"Planning", "Applying"} /\ ~ws[w].exec /\ ~exists
Led         == IF exists THEN UNION {steps[i] : i \in DOMAIN steps} ELSE Workspaces

WorkCompletes ==
    <>[]( /\ exists \/ project = "live"
          /\ \A w \in Workspaces : ws[w].phase \notin {"Failed", "Planned"} /\ ~Stranded(w) )
        => <>[](\A w \in Led : workspaceFullyApplied(w))

\* The status of a Project names whoever is in charge of its Workspaces in the end: a
\* write that was lost is made up for by a later reconcile.
InChargeShown ==
    <>[](project = "live") =>
        <>[](reason = IF exists THEN "ManagedByRollout" ELSE "DefaultParallel")
=============================================================================
