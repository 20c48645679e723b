------------------------------ MODULE Rollout ------------------------------
(***************************************************************************)
(* A Rollout (internal/controller/rollout) leading the Workspaces of its    *)
(* Project through ordered levels: it grants and revokes the permission     *)
(* annotation the Workspace controller waits for.                           *)
(*                                                                          *)
(* A reconcile of the Rollout lists the Workspaces, decides on that         *)
(* snapshot, and then writes one Workspace after the other; Workspaces move *)
(* on between any two writes.  A Workspace is reduced to what the Rollout   *)
(* controller reads of it and writes to it: the phase, the permission, and  *)
(* whether a detected revision or a reconcile request waits.                *)
(***************************************************************************)
EXTENDS Integers, Sequences, FiniteSets, FiniteSetsExt

CONSTANTS
    Workspaces,  \* the Workspaces of the Project
    Strategies,  \* strategies: the Workspaces the selector of each step matches
    Late,        \* the Workspaces that do not exist at first
    MaxEvents    \* bound: inputs from outside (commits, requests, edits, unresolved variables,
                 \* Rollouts created or deleted) and failed calls of the API server, together

ASSUME RolloutAssumption ==
    /\ Strategies \subseteq Seq(SUBSET Workspaces)
    /\ Late \subseteq Workspaces
    /\ MaxEvents \in Nat

Absent == "absent"
Phases == {"", "Pending", "Planning", "Planned", "Applying", "Applied", "Failed", "Rejected"}
Keys   == {"exec", "detected", "request"}

\* keys: the annotations the Workspace controller is about to delete
WorkspaceType == [phase : Phases \cup {Absent}, exec : BOOLEAN, detected : BOOLEAN,
                  request : BOOLEAN, keys : SUBSET Keys]
NoStatus      == [phase |-> "", step |-> 0]
NewWorkspace  == [phase |-> "", exec |-> FALSE, detected |-> FALSE, request |-> FALSE, keys |-> {}]

VARIABLES
    steps,       \* spec.strategy.steps
    ws,          \* the Workspaces
    status,      \* the Rollout's status: phase and currentStep
    grants,      \* the Workspaces it still has to grant permission
    revokes,     \* ... and to revoke permission from
    write,       \* the status a reconcile is going to write, with no phase between reconciles
    events,      \* how many inputs and faults there were
    cleared      \* history: all earlier levels were done at some moment since its work came,
                 \* or when a grant was decided that was still to be written when it came

rollout == <<status, grants, revokes, write>>
vs      == <<steps, ws, rollout, events, cleared>>
-----------------------------------------------------------------------------
(* What the Rollout controller computes.  A level is known by its first     *)
(* step; steps that select the same Workspaces as the step before belong to *)
(* the level of that step.                                                  *)

Selected(i) == {w \in steps[i] : ws[w].phase # Absent}

LevelStarts == {i \in DOMAIN steps : i = 1 \/ Selected(i) # Selected(i - 1)}

workspaceFullyApplied(w) ==
    ws[w].phase \in {"Applied", "Rejected"} /\ ~ws[w].detected

hasPendingWork(w) == ~workspaceFullyApplied(w) \/ ws[w].request

PendingLevels == {i \in LevelStarts : \E w \in Selected(i) : hasPendingWork(w)}

\* Mutant: the last level with pending work comes first.
lastLevel == Max(PendingLevels)

currentLevel == Min(PendingLevels)

EmptySteps == {i \in DOMAIN steps : Selected(i) = {}}

Failing(i) == \E w \in Selected(i) : ws[w].phase = "Failed"

\* Every Workspace of a level before the first one w belongs to is done.
EarlierDone(w) ==
    \A i \in DOMAIN steps :
        (\A j \in 1 .. i : w \notin Selected(j)) => \A u \in Selected(i) : ~hasPendingWork(u)
-----------------------------------------------------------------------------
Init ==
    /\ steps \in Strategies
    /\ ws = [w \in Workspaces |-> IF w \in Late THEN [NewWorkspace EXCEPT !.phase = Absent]
                                  ELSE NewWorkspace]
    /\ status = NoStatus
    /\ grants = {} /\ revokes = {} /\ write = NoStatus
    /\ events = 0
    /\ cleared = [w \in Workspaces |-> EarlierDone(w)]

\* cleared is reset when a Workspace is created or work comes to one that had none, unless
\* the Rollout has already decided to grant it permission: the grant does not look again.
hasWork(w) == ws[w].phase # Absent /\ hasPendingWork(w)

Track ==
    /\ UNCHANGED steps
    /\ cleared' = [w \in Workspaces |->
           EarlierDone(w)' \/ (cleared[w] /\ (hasWork(w)' => hasWork(w) \/ w \in grants))]

Input == events < MaxEvents /\ events' = events + 1
Fault == Input

-----------------------------------------------------------------------------
(* The Rollout controller.  Step numbers are those of the code plus one.    *)

Idle == write = NoStatus

Ends(phase, step) ==
    /\ write' = [phase |-> phase, step |-> step]
    /\ UNCHANGED <<grants, revokes>>

\* The reconcile lists the Workspaces and decides.
NoSteps ==
    /\ Idle
    /\ steps = <<>>
    /\ Ends("Ready", status.step)
    /\ UNCHANGED <<ws, status, events>>
    /\ Track

\* Listing the Workspaces of a step fails.
ReconcileError ==
    /\ Idle
    /\ steps # <<>>
    /\ Fault
    /\ Ends("Failed", status.step)
    /\ UNCHANGED <<ws, status>>
    /\ Track

NoWorkspacesFound ==
    /\ Idle
    /\ EmptySteps # {} /\ Ends("Failed", Min(EmptySteps))
    /\ UNCHANGED <<ws, status, events>>
    /\ Track

\* Mutant: currentStep goes past the end.
completedBeyond ==
    /\ Idle
    /\ steps # <<>> /\ EmptySteps = {} /\ PendingLevels = {}
    /\ Ends("Applied", Len(steps) + 2)
    /\ UNCHANGED <<ws, status, events>>
    /\ Track

RolloutCompleted ==
    /\ Idle
    /\ steps # <<>> /\ EmptySteps = {} /\ PendingLevels = {}
    /\ Ends("Applied", Len(steps) + 1)
    /\ UNCHANGED <<ws, status, events>>
    /\ Track

StepFailed ==
    /\ Idle
    /\ EmptySteps = {} /\ PendingLevels # {}
    /\ LET i == currentLevel IN Failing(i) /\ Ends("Failed", i)
    /\ UNCHANGED <<ws, status, events>>
    /\ Track

\* Mutant: the current level is not skipped when permissions are revoked.
revokeCurrent ==
    /\ Idle
    /\ EmptySteps = {} /\ PendingLevels # {}
    /\ LET i == currentLevel IN
         /\ ~Failing(i)
         /\ grants' = {w \in Selected(i) : hasPendingWork(w) /\ ~ws[w].exec}
         /\ revokes' = {w \in UNION {Selected(j) : j \in LevelStarts} : ws[w].exec}
         /\ write' = [phase |-> "Reconciling", step |-> i]
    /\ UNCHANGED <<ws, status, events>>
    /\ Track

LevelProgressing ==
    /\ Idle
    /\ EmptySteps = {} /\ PendingLevels # {}
    /\ LET i == currentLevel IN
         /\ ~Failing(i)
         /\ grants' = {w \in Selected(i) : hasPendingWork(w) /\ ~ws[w].exec}
         /\ revokes' = {w \in UNION {Selected(j) : j \in LevelStarts \ {i}} : ws[w].exec}
         /\ write' = [phase |-> "Reconciling", step |-> i]
    /\ UNCHANGED <<ws, status, events>>
    /\ Track

\* Each grant and each revocation reads the Workspace again and updates it; an
\* error is logged.
grantPermission(w) ==
    /\ w \in grants
    /\ grants' = grants \ {w}
    /\ \/ ws' = [ws EXCEPT ![w].exec = TRUE] /\ UNCHANGED events
       \/ Fault /\ UNCHANGED ws
    /\ UNCHANGED <<status, revokes, write>>
    /\ Track

revokePermission(w) ==
    /\ grants = {} /\ w \in revokes
    /\ revokes' = revokes \ {w}
    /\ \/ ws' = [ws EXCEPT ![w].exec = FALSE] /\ UNCHANGED events
       \/ Fault /\ UNCHANGED ws
    /\ UNCHANGED <<status, grants, write>>
    /\ Track

updateStatus ==
    /\ ~Idle /\ grants = {} /\ revokes = {}
    /\ write' = NoStatus
    /\ \/ status' = write /\ UNCHANGED events
       \/ Fault /\ UNCHANGED status
    /\ UNCHANGED <<ws, grants, revokes>>
    /\ Track

reconcileRollout ==
    \/ NoSteps \/ ReconcileError \/ NoWorkspacesFound \/ RolloutCompleted \/ StepFailed
    \/ LevelProgressing
    \/ updateStatus
    \/ \E w \in Workspaces : grantPermission(w) \/ revokePermission(w)
-----------------------------------------------------------------------------
(* The Workspaces: the writes of the Workspace controller that the Rollout  *)
(* controller sees, in the order they are made.                             *)

Moves(w, from, to, keys) ==
    /\ ws[w].phase \in from
    /\ ws[w].keys = {}
    /\ ws' = [ws EXCEPT ![w].phase = to,
                        ![w].keys = {k \in keys : CASE k = "exec"     -> ws[w].exec
                                                    [] k = "detected" -> ws[w].detected
                                                    [] k = "request"  -> ws[w].request}]
    /\ UNCHANGED rollout

\* A detected revision or a request starts a fresh cycle: first Pending is
\* written, then the permission is dropped.
startFreshCycle(w) ==
    /\ ws[w].detected \/ ws[w].request
    /\ Moves(w, {"", "Applied", "Failed", "Rejected"}, "Pending", {"exec"})
    /\ UNCHANGED events
    /\ Track

\* An edit of the spec starts one without an annotation.
configurationChanged(w) ==
    /\ Input
    /\ Moves(w, {"Planned", "Applied", "Failed", "Rejected"}, "Pending", {"exec"})
    /\ Track

deleteAnnotations(w) ==
    /\ ws[w].keys # {}
    /\ ws' = [ws EXCEPT ![w] =
                [phase    |-> @.phase,
                 exec     |-> @.exec /\ "exec" \notin @.keys,
                 detected |-> @.detected /\ "detected" \notin @.keys,
                 request  |-> @.request /\ "request" \notin @.keys,
                 keys     |-> {}]]
    /\ UNCHANGED <<rollout, events>>
    /\ Track

awaitRollout(w) ==
    /\ ~ws[w].exec
    /\ Moves(w, {""}, "Pending", {})
    /\ UNCHANGED events
    /\ Track

reconcilePlanJob(w) ==
    /\ ws[w].exec
    /\ \/ ~(ws[w].phase = "" /\ (ws[w].detected \/ ws[w].request)) /\ Moves(w, {"", "Pending"}, "Planning", {})
       \/ Moves(w, {"Planning"}, "Failed", {"exec", "request"})
       \/ Moves(w, {"Planning"}, "Planned", {})
       \/ Moves(w, {"Planning"}, "Applying", {})
    /\ UNCHANGED events
    /\ Track

reconcileApplyJob(w) ==
    /\ ws[w].exec
    /\ \/ Moves(w, {"Applying"}, "Applied", Keys)
       \/ Moves(w, {"Applying"}, "Failed", {"exec", "request"})
    /\ UNCHANGED events
    /\ Track

\* A reviewer has decided on a parked plan.
createApplyJobIfApproved(w) ==
    /\ ws[w].exec
    /\ \/ Moves(w, {"Planned"}, "Applying", {})
       \/ Moves(w, {"Planned"}, "Rejected", Keys)
    /\ UNCHANGED events
    /\ Track

\* Variables that do not resolve fail a Workspace in any phase.
variablesUnresolved(w) ==
    /\ Input
    /\ Moves(w, Phases \ {"Failed"}, "Failed", {})
    /\ Track

\* The RefWatcher and the API's reconcile request.
workArrives(w) ==
    /\ Input
    /\ ws[w].phase # Absent
    /\ \/ ws' = [ws EXCEPT ![w].detected = TRUE]
       \/ ws' = [ws EXCEPT ![w].request = TRUE]
    /\ UNCHANGED rollout
    /\ Track

createWorkspace(w) ==
    /\ ws[w].phase = Absent
    /\ ws' = [ws EXCEPT ![w] = NewWorkspace]
    /\ UNCHANGED <<rollout, events>>
    /\ Track

reconcileWorkspace(w) ==
    \/ startFreshCycle(w) \/ deleteAnnotations(w) \/ awaitRollout(w)
    \/ reconcilePlanJob(w) \/ reconcileApplyJob(w)
-----------------------------------------------------------------------------
(* Properties.                                                              *)

\* Every variable has its type.
TypeOK ==
    /\ steps \in Strategies
    /\ ws \in [Workspaces -> WorkspaceType]
    /\ LET Status == [phase : {"", "Ready", "Failed", "Applied", "Reconciling"}, step : 0 .. Len(steps) + 1]
       IN  status \in Status /\ write \in Status
    /\ grants \subseteq Workspaces /\ revokes \subseteq Workspaces
    /\ events \in 0 .. MaxEvents
    /\ cleared \in [Workspaces -> BOOLEAN]
=============================================================================
