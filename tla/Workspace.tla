----------------------------- MODULE Workspace -----------------------------
(***************************************************************************)
(* The life of one Workspace: the Workspace controller (package            *)
(* internal/controller/workspace) driving Terraform plan and apply Jobs,    *)
(* together with everything that writes the same object while it does so:   *)
(* the Project controller, the RefWatcher, the API's approval and           *)
(* reconcile-request endpoints, users editing the spec, and the Jobs.       *)
(*                                                                          *)
(* A reconcile is not atomic. It reads a snapshot of the object, decides    *)
(* what to do, and then performs its API writes one at a time: the phase    *)
(* in the status subresource, the annotations in a merge patch, the Jobs.   *)
(* The variable pc says which write comes next; the other actors run        *)
(* between any two of them, each write can fail, and the manager can crash  *)
(* and restart.                                                             *)
(***************************************************************************)
EXTENDS Integers, FiniteSets

CONSTANTS
    Specs,       \* the versions of spec a user writes; a version is its own specHash
    InitSpec,    \* the version the Workspace is created with
    Edits,       \* <<old, new>>: the edits users make
    AutoApply,   \* the versions with spec.autoApply
    MaxCommit,   \* commits 1..MaxCommit are pushed, in this order, to the branch
    VarStates,   \* what the variables of the Workspace may resolve to
    InitVars,    \* ... and what they resolve to at first
    Faults,      \* the kinds of failures that happen
    MaxFaults,   \* bound: how many of them
    MaxInputs,   \* bound: edits, requests, decisions and variable changes
    MaxRuns      \* bound: run IDs minted

FaultKinds == {"crash", "status", "patch", "create", "delete", "archive", "read", "api"}

\* The result of resolving variables when a reference is missing, and the
\* fingerprint of an empty list of variables (the empty string in the code).
Unresolved == "unresolved"
NoVars     == "none"

ASSUME WorkspaceAssumption ==
    /\ InitSpec \in Specs
    /\ Edits \subseteq Specs \X Specs
    /\ AutoApply \subseteq Specs
    /\ MaxCommit \in Nat \ {0}
    /\ InitVars \in VarStates
    /\ Faults \subseteq FaultKinds
    /\ MaxFaults \in Nat /\ MaxInputs \in Nat /\ MaxRuns \in Nat

-----------------------------------------------------------------------------
(* Data.  A revision is a number: 0 is the empty string, 1..MaxCommit are   *)
(* commit SHAs in the order they were pushed, and Branch is the name held   *)
(* by spec.source.targetRevision.  A run ID is a number, 0 the empty one.   *)

Commits   == 1 .. MaxCommit
Branch    == MaxCommit + 1
Revisions == 0 .. Branch
Runs      == 1 .. MaxRuns

Phases == {"", "Pending", "Planning", "Planned", "Applying", "Applied",
           "Failed", "ValidationFailed", "Rejected"}

Kinds     == {"plan", "apply"}
JobNames  == Kinds \X Specs
JobStates == {"none", "created", "active", "succeeded", "failed"}
JobType   == [state : JobStates, run : 0 .. MaxRuns, commit : 0 .. MaxCommit]
NoJob     == [state |-> "none", run |-> 0, commit |-> 0]

Decisions == {"approved", "rejected"}

AnnotationKeys == {"exec", "detected", "request", "decision"}
AnnotationType == [exec : BOOLEAN, detected : 0 .. MaxCommit,
                   request : BOOLEAN, decision : Decisions \cup {""}]
StatusType     == [phase : Phases, observed : Revisions, vars : VarStates \cup {NoVars},
                   run : 0 .. MaxRuns, next : {"unset", "future", "due"}]
WorkspaceType  == [spec : Specs, ann : AnnotationType, status : StatusType]

NewWorkspace ==
    [spec   |-> InitSpec,
     ann    |-> [exec |-> FALSE, detected |-> 0, request |-> FALSE, decision |-> ""],
     status |-> [phase |-> "", observed |-> 0, vars |-> NoVars, run |-> 0, next |-> "unset"]]

Steps == {"idle", "deletePlan", "deleteApply", "createPlan", "consume", "createApply",
          "status", "error", "patch", "next"}

WriteType == [phase : Phases, keys : SUBSET AnnotationKeys, archive : BOOLEAN]
NoWrite   == [phase |-> "", keys |-> {}, archive |-> FALSE]

\* A plan: the spec it was made of, its run and the commit.
PlanType == [spec : Specs, run : 0 .. MaxRuns, commit : 0 .. MaxCommit]
NoPlan   == [spec |-> InitSpec, run |-> 0, commit |-> 0]

VARIABLES
    ws,        \* the Workspace object in the API server
    jobs,      \* the Jobs it owns, by name: a kind and a specHash
    volume,    \* the plan file each specHash has on the PVC: the plan it holds
    source,    \* the run whose clone of the repository is on the PVC, 0 when there is none
    vars,      \* what the Workspace's variables resolve to now
    head,      \* the commit the branch points to
    lastSHA,   \* the RefWatcher's last known revision
    rows,      \* the run store: each run's row and the decision recorded on it
    decides,   \* how many requests have recorded each decision and not yet patched it
    pc,        \* the next write of the reconcile in progress
    mem,       \* the reconcile's copy of the object
    rc,        \* runContext: the specHash the reconcile's Job names derive from
    write,     \* the phase and annotation keys the reconcile is about to write
    lastRun,   \* the newest run ID minted
    inputs, faults

\* History variables, read by properties only.
VARIABLES
    credit,    \* approvals patched onto the object minus applies started for lack of autoApply
    applied,   \* the last apply that succeeded
    first,     \* the run IDs minted for the first run, before one was stored
    torn       \* whether an apply Job has outlived a clean-up that was to delete it

cluster == <<jobs, volume, source, vars, head>>
control == <<pc, mem, rc, write, torn>>
history == <<credit, applied, first>>
vs == <<ws, cluster, lastSHA, rows, decides, control, lastRun, inputs, faults, history>>

Init ==
    /\ ws = NewWorkspace
    /\ jobs = [n \in JobNames |-> NoJob]
    /\ volume = [s \in Specs |-> NoPlan]
    /\ source = 0
    /\ vars = InitVars
    /\ head = 1
    /\ lastSHA = 0
    /\ rows = [r \in Runs |-> "absent"]
    /\ decides = [d \in Decisions |-> 0]
    /\ pc = "idle" /\ mem = NewWorkspace /\ rc = InitSpec /\ write = NoWrite
    /\ lastRun = 0
    /\ inputs = 0 /\ faults = 0
    /\ credit = 0
    /\ applied = NoPlan
    /\ first = {}
    /\ torn = FALSE

Fault(kind) ==
    /\ kind \in Faults
    /\ faults < MaxFaults
    /\ faults' = faults + 1

Input ==
    /\ inputs < MaxInputs
    /\ inputs' = inputs + 1
-----------------------------------------------------------------------------
(* Deciding: checkCycleNeeded and the guards of reconcileWorkspace.         *)

PlanJob  == jobs[<<"plan", ws.spec>>]
ApplyJob == jobs[<<"apply", ws.spec>>]

Finished(job) == job.state \in {"succeeded", "failed"}

\* Mutant: a parked plan counts as a recorded result.
ParkedIsRecorded(phase) ==
    phase \in {"Planned", "Applied", "Failed", "Rejected", "ValidationFailed"}

terminalWorkspaceRunRecorded(phase) ==
    phase \in {"Applied", "Failed", "Rejected", "ValidationFailed"}

isExecutionAllowed == ws.ann.exec

IsApprovalPending ==
    /\ ws.spec \notin AutoApply
    /\ ws.status.phase = "Planned"
    /\ ws.ann.decision = ""

\* The reason to start a fresh plan and apply cycle, "" when there is none.
checkCycleNeeded ==
    LET phase       == ws.status.phase
        due         == ws.status.next = "due"
        recorded    == terminalWorkspaceRunRecorded(phase)
        restartable == phase = "" \/ recorded
    IN  IF /\ PlanJob = NoJob /\ ApplyJob = NoJob
           /\ phase \notin {"", "Pending", "Planning", "Applying"}
             THEN "ConfigurationChanged"
        ELSE IF Finished(ApplyJob) /\ recorded /\ due
             THEN IF ApplyJob.state = "succeeded" THEN "ScheduledReconcile" ELSE "RetryApply"
        ELSE IF ~Finished(ApplyJob) /\ PlanJob.state = "failed" /\ recorded /\ due
             THEN "RetryPlan"
        ELSE IF restartable /\ ws.ann.detected \notin {0, ws.status.observed}
             THEN "NewRevisionDetected"
        ELSE IF restartable /\ ws.ann.request
             THEN "ManualReconcileRequested"
        ELSE IF restartable /\ vars # ws.status.vars
             THEN "VariablesChanged"
        ELSE ""

\* Owned Jobs of other specHashes, deleted unless a run is in progress.
cleanupOrphanedJobs ==
    IF ws.status.phase \in {"Planning", "Applying"}
    THEN {}
    ELSE {n \in JobNames : n[2] # ws.spec /\ jobs[n] # NoJob}

\* What every reconcile does first: read the object, delete orphaned Jobs, and
\* pick its next step.  m is the in-memory object, logs whether this branch
\* archives the logs of a finished Job.  Deleting and archiving may each fail
\* (both errors are dropped).
Begin(step, phase, keys, logs, m) ==
    /\ pc = "idle"
    /\ \E kept \in SUBSET cleanupOrphanedJobs, lost \in BOOLEAN :
         /\ kept # {} => "delete" \in Faults
         /\ lost => logs /\ "archive" \in Faults
         /\ faults' = faults + (IF kept # {} THEN 1 ELSE 0) + (IF lost THEN 1 ELSE 0)
         /\ faults' <= MaxFaults
         /\ jobs' = [n \in JobNames |->
                        IF n \in cleanupOrphanedJobs \ kept THEN NoJob ELSE jobs[n]]
         /\ write' = [phase |-> phase, keys |-> keys, archive |-> logs /\ ~lost]
         /\ torn' = (torn \/ \E n \in kept : n[1] = "apply")
    /\ pc' = step
    /\ mem' = m
    /\ rc' = ws.spec

Unread == <<ws, volume, source, vars, head, lastSHA, rows, decides, inputs>>

\* The copy a branch that archives works on: archiveRunLogs takes the run ID
\* from the Job's label when the status has none.
WithRunOf(job) ==
    [ws EXCEPT !.status.run = IF @ = 0 THEN job.run ELSE @]

\* An API error while reading Jobs, variables or the PVC, before or after the
\* orphaned Jobs are deleted: the reconcile ends with ReconcileError.
ReconcileError ==
    /\ pc = "idle"
    /\ Fault("read")
    /\ pc' = "error" /\ mem' = ws /\ rc' = ws.spec
    /\ write' = [phase |-> "Failed", keys |-> {}, archive |-> FALSE]
    /\ \E gone \in {{}, cleanupOrphanedJobs} :
          jobs' = [n \in JobNames |-> IF n \in gone THEN NoJob ELSE jobs[n]]
    /\ UNCHANGED <<Unread, lastRun, history, torn>>

ReconcileUnresolved ==
    /\ vars = Unresolved
    /\ Begin("status", "Failed", {}, FALSE, ws)
    /\ UNCHANGED <<Unread, lastRun, history>>

\* startFreshCycle: delete both Jobs, then write Pending with a new run ID and
\* the variables' fingerprint, record a scheduled run in the run store, and drop
\* the execution permission.
startFreshCycle ==
    /\ vars # Unresolved
    /\ checkCycleNeeded # ""
    /\ lastRun < MaxRuns
    /\ lastRun' = lastRun + 1
    /\ Begin("deletePlan", "Pending", {"exec"}, checkCycleNeeded = "ScheduledReconcile",
             [ws EXCEPT !.status.run = lastRun + 1, !.status.vars = vars])
    /\ UNCHANGED <<Unread, history>>

Waiting == vars # Unresolved /\ checkCycleNeeded = "" /\ ~isExecutionAllowed

AwaitRollout ==
    /\ Waiting
    /\ ws.status.phase = ""
    /\ Begin("status", "Pending", {}, FALSE, ws)
    /\ UNCHANGED <<Unread, lastRun, history>>

NotAllowed ==
    /\ Waiting
    /\ ws.status.phase # ""
    /\ Begin("next", ws.status.phase, {}, FALSE, ws)
    /\ UNCHANGED <<Unread, lastRun, history>>

Allowed == vars # Unresolved /\ checkCycleNeeded = "" /\ isExecutionAllowed

\* reconcilePlanJob with no plan Job: wait for a Job of another specHash that
\* has survived cleanupOrphanedJobs and has status.active > 0, or create the
\* plan Job.
PreviousJobActive ==
    \E n \in JobNames : n[2] # ws.spec /\ jobs'[n].state = "active"

WaitForPreviousJob ==
    /\ Allowed
    /\ PlanJob = NoJob
    /\ Begin("next", ws.status.phase, {}, FALSE, ws)
    /\ PreviousJobActive
    /\ UNCHANGED <<Unread, lastRun, history>>

PlanMissing ==
    /\ Allowed
    /\ PlanJob = NoJob
    /\ ws.status.run = 0 => lastRun < MaxRuns
    /\ IF ws.status.run = 0
       THEN lastRun' = lastRun + 1 /\ first' = first \cup {lastRun + 1}
       ELSE UNCHANGED <<lastRun, first>>
    /\ Begin("createPlan", "Planning", {}, FALSE,
             [ws EXCEPT !.status.run = IF @ = 0 THEN lastRun + 1 ELSE @])
    /\ ~PreviousJobActive
    /\ UNCHANGED <<Unread, credit, applied>>

\* Mutant: the permission is released before the outcome is stored.
ReleaseBeforeOutcome ==
    /\ Allowed
    /\ PlanJob.state = "failed"
    /\ Begin("patch", "Failed", {"exec", "request"}, TRUE, WithRunOf(PlanJob))
    /\ UNCHANGED <<Unread, lastRun, history>>

\* A failed plan is a policy violation or a Terraform failure.
PlanFailed ==
    /\ Allowed
    /\ PlanJob.state = "failed"
    /\ \E phase \in {"Failed", "ValidationFailed"} :
          Begin("status", phase, {"exec", "request"}, TRUE, WithRunOf(PlanJob))
    /\ UNCHANGED <<Unread, lastRun, history>>

PlanRunning ==
    /\ Allowed
    /\ PlanJob.state \in {"created", "active"}
    /\ Begin("status", "Planning", {}, FALSE, ws)
    /\ UNCHANGED <<Unread, lastRun, history>>

\* Mutant: a plan Job that has not succeeded yet is taken for a finished plan.
PlanNotFailed == Allowed /\ PlanJob # NoJob /\ PlanJob.state # "failed"

PlanDone == Allowed /\ PlanJob.state = "succeeded"

\* createApplyJobIfApproved: a rejected plan, a plan without a decision, and an
\* approved one.
RejectPlan ==
    /\ PlanDone /\ ApplyJob = NoJob
    /\ ws.ann.decision = "rejected"
    /\ Begin("status", "Rejected", AnnotationKeys, TRUE, WithRunOf(PlanJob))
    /\ UNCHANGED <<Unread, lastRun, history>>

isApproved == ws.spec \in AutoApply \/ ws.ann.decision = "approved"

ParkPlan ==
    /\ PlanDone /\ ApplyJob = NoJob
    /\ ws.ann.decision # "rejected" /\ ~isApproved
    /\ LET logs == ws.status.phase # "Planned"
       IN  Begin("status", "Planned", {}, logs, IF logs THEN WithRunOf(PlanJob) ELSE ws)
    /\ UNCHANGED <<Unread, lastRun, history>>

\* Mutant: the approval annotation is left on the object.
ApproveWithoutConsuming ==
    /\ PlanDone /\ ApplyJob = NoJob
    /\ ws.ann.decision # "rejected" /\ isApproved
    /\ Begin("createApply", "Applying", {}, TRUE, ws)
    /\ UNCHANGED <<Unread, lastRun, history>>

ApprovePlan ==
    /\ PlanDone /\ ApplyJob = NoJob
    /\ ws.ann.decision # "rejected" /\ isApproved
    /\ Begin(IF ws.ann.decision = "" THEN "createApply" ELSE "consume",
             "Applying", {}, TRUE, ws)
    /\ UNCHANGED <<Unread, lastRun, history>>

ApplyFailed ==
    /\ PlanDone /\ ApplyJob.state = "failed"
    /\ Begin("status", "Failed", {"exec", "request"}, TRUE, WithRunOf(ApplyJob))
    /\ UNCHANGED <<Unread, lastRun, history>>

ApplyRunning ==
    /\ PlanDone /\ ApplyJob.state \in {"created", "active"}
    /\ Begin("status", "Applying", {}, FALSE, ws)
    /\ UNCHANGED <<Unread, lastRun, history>>

\* handleApplySuccess records the detected revision, or the branch name when
\* there is none.
handleApplySuccess ==
    /\ PlanDone /\ ApplyJob.state = "succeeded"
    /\ Begin("status", "Applied", {"exec", "detected", "request"}, TRUE,
             [WithRunOf(ApplyJob) EXCEPT !.status.observed =
                 IF ws.ann.detected # 0 THEN ws.ann.detected ELSE Branch])
    /\ UNCHANGED <<Unread, lastRun, history>>

-----------------------------------------------------------------------------
(* Writing: one action per API call.                                        *)

\* Mutant: a fresh cycle leaves the apply Job of the last one.
DeletePlanJobOnly ==
    /\ pc = "deletePlan" /\ pc' = "status"
    /\ jobs' = [jobs EXCEPT ![<<"plan", rc>>] = NoJob]
    /\ UNCHANGED <<Unread, faults, mem, rc, write, torn, lastRun, history>>

\* r.Delete of the plan Job, then of the apply Job; an error is dropped.
DeleteJob ==
    \E kind \in Kinds :
      /\ pc = IF kind = "plan" THEN "deletePlan" ELSE "deleteApply"
      /\ pc' = IF kind = "plan" THEN "deleteApply" ELSE "status"
      /\ \/ jobs' = [jobs EXCEPT ![<<kind, rc>>] = NoJob] /\ UNCHANGED faults
         \/ Fault("delete") /\ UNCHANGED jobs
      /\ torn' = (torn \/ (kind = "apply" /\ jobs'[<<kind, rc>>] # NoJob))
      /\ UNCHANGED <<Unread, mem, rc, write, lastRun, history>>

Fail ==
    /\ pc' = "error"
    /\ write' = [phase |-> "Failed", keys |-> {}, archive |-> FALSE]

Archive(run) ==
    rows' = IF write.archive /\ run # 0 /\ rows[run] = "absent"
            THEN [rows EXCEPT ![run] = "undecided"] ELSE rows

createPlanJob ==
    /\ pc = "createPlan"
    /\ \/ /\ jobs[<<"plan", rc>>] = NoJob
          /\ jobs' = [jobs EXCEPT ![<<"plan", rc>>] =
                         [state |-> "created", run |-> mem.status.run, commit |-> 0]]
          /\ pc' = "status"
          /\ UNCHANGED <<write, faults>>
       \/ Fault("create") /\ Fail /\ UNCHANGED jobs
    /\ UNCHANGED <<Unread, mem, rc, torn, lastRun, history>>

\* The approval decision is patched away before the apply Job is created.  The
\* patch refreshes the in-memory object.
consumeDecision ==
    /\ pc = "consume"
    /\ \/ /\ ws' = [ws EXCEPT !.ann.decision = ""]
          /\ mem' = ws'
          /\ pc' = "createApply"
          /\ UNCHANGED <<write, faults>>
       \/ Fault("patch") /\ Fail /\ UNCHANGED <<ws, mem>>
    /\ UNCHANGED <<cluster, lastSHA, rows, decides, rc, torn, lastRun, inputs, history>>

\* The run ID of the apply Job: the status's, else the plan Job's label (through
\* archiveRunLogs).
ApplyRun == IF mem.status.run = 0 THEN jobs[<<"plan", rc>>].run ELSE mem.status.run

createApplyJob ==
    /\ pc = "createApply"
    /\ Archive(ApplyRun)
    /\ mem' = [mem EXCEPT !.status.run = ApplyRun]
    /\ \/ /\ jobs[<<"apply", rc>>] = NoJob
          /\ jobs' = [jobs EXCEPT ![<<"apply", rc>>] =
                         [state |-> "created", run |-> ApplyRun, commit |-> 0]]
          /\ pc' = "status"
          /\ write' = [write EXCEPT !.archive = FALSE]
          /\ credit' = IF rc \in AutoApply THEN credit ELSE credit - 1
          /\ UNCHANGED faults
       \/ Fault("create") /\ Fail /\ UNCHANGED <<jobs, credit>>
    /\ UNCHANGED <<ws, volume, source, vars, head, lastSHA, decides, rc, torn, lastRun,
                   inputs, applied, first>>

\* Mutant: an unknown schedule is written as the empty string.
StatusWithoutSchedule ==
    [phase |-> write.phase, observed |-> mem.status.observed, vars |-> mem.status.vars,
     run |-> mem.status.run, next |-> ""]

\* updateStatus: in-memory values overwrite the stored ones unless they are empty.
StoredStatus ==
    [phase    |-> write.phase,
     observed |-> IF mem.status.observed # 0 THEN mem.status.observed ELSE ws.status.observed,
     vars     |-> IF mem.status.vars # NoVars THEN mem.status.vars ELSE ws.status.vars,
     run      |-> IF mem.status.run # 0 THEN mem.status.run ELSE ws.status.run,
     next     |-> ws.status.next]

AfterStatus ==
    IF pc = "error" THEN "idle" ELSE IF write.keys # {} THEN "patch" ELSE "next"

\* At the end of a reconcile its local variables are gone.
Forget ==
    mem' = NewWorkspace /\ rc' = InitSpec /\ write' = NoWrite

updateStatus ==
    /\ pc \in {"status", "error"}
    /\ Archive(mem.status.run)
    /\ pc' = AfterStatus
    /\ \/ ws' = [ws EXCEPT !.status = StoredStatus] /\ UNCHANGED faults
       \/ Fault("status") /\ UNCHANGED ws
    /\ IF pc = "error"
       THEN Forget
       ELSE /\ mem' = IF ws' = ws THEN mem ELSE [mem EXCEPT !.status = StoredStatus]
            /\ UNCHANGED <<rc, write>>
    /\ UNCHANGED <<cluster, lastSHA, decides, torn, lastRun, inputs, history>>

\* deleteAnnotations drops the keys the in-memory object has, whatever value
\* they have by now in the API server.
Drop(key) ==
    /\ key \in write.keys
    /\ CASE key = "exec"     -> mem.ann.exec
         [] key = "detected" -> mem.ann.detected # 0
         [] key = "request"  -> mem.ann.request
         [] key = "decision" -> mem.ann.decision # ""

deleteAnnotations ==
    /\ pc = "patch"
    /\ \/ /\ ws' = [ws EXCEPT !.ann =
                      [exec     |-> IF Drop("exec")     THEN FALSE ELSE @.exec,
                       detected |-> IF Drop("detected") THEN 0     ELSE @.detected,
                       request  |-> IF Drop("request")  THEN FALSE ELSE @.request,
                       decision |-> IF Drop("decision") THEN ""    ELSE @.decision]]
          /\ pc' = "next"
          /\ UNCHANGED <<write, faults>>
       \/ /\ \E key \in AnnotationKeys : Drop(key)
          /\ Fault("patch") /\ Fail /\ UNCHANGED ws
    /\ UNCHANGED <<cluster, lastSHA, rows, decides, mem, rc, torn, lastRun, inputs, history>>

\* updateNextReconcileTime moves a passed or missing schedule into the future.
updateNextReconcileTime ==
    /\ pc = "next"
    /\ pc' = "idle"
    /\ Forget
    /\ \/ ws' = [ws EXCEPT !.status.next = "future"] /\ UNCHANGED faults
       \/ Fault("status") /\ UNCHANGED ws
    /\ UNCHANGED <<cluster, lastSHA, rows, decides, torn, lastRun, inputs, history>>

\* The manager process dies and restarts: the reconcile in progress is gone, and
\* the RefWatcher, in the same process, seeds lastSHA from the status again.
Restart ==
    /\ Fault("crash")
    /\ pc' = "idle" /\ Forget
    /\ torn' = (torn \/ (pc = "deleteApply" /\ jobs[<<"apply", rc>>] # NoJob))
    /\ lastSHA' = ws.status.observed
    /\ UNCHANGED <<ws, cluster, rows, decides, lastRun, inputs, history>>
-----------------------------------------------------------------------------
(* The other writers of the object.                                         *)

\* Mutant: a Pending Workspace is not granted permission.
GrantNewOnly ==
    /\ ~ws.ann.exec
    /\ ws.status.phase = "" \/ ws.ann.detected # 0 \/ ws.ann.request
    /\ ws' = [ws EXCEPT !.ann.exec = TRUE]
    /\ UNCHANGED <<cluster, lastSHA, rows, decides, control, lastRun, inputs, faults, history>>

\* reconcileProject without a Rollout: permission for a Workspace with pending work.
ProjectGrant ==
    /\ ~ws.ann.exec
    /\ \/ ws.status.phase \in {"", "Pending"}
       \/ ws.ann.detected # 0
       \/ ws.ann.request
    /\ ws' = [ws EXCEPT !.ann.exec = TRUE]
    /\ UNCHANGED <<cluster, lastSHA, rows, decides, control, lastRun, inputs, faults, history>>

\* One poll of the branch.  The first poll only seeds lastSHA, and a poll that
\* finds a plan waiting for its reviewer leaves the new commit for a later one.
RefWatcherPoll ==
    /\ IF lastSHA = head \/ (lastSHA # 0 /\ IsApprovalPending)
       THEN UNCHANGED <<ws, lastSHA>>
       ELSE /\ lastSHA' = head
            /\ ws' = IF lastSHA = 0 THEN ws ELSE [ws EXCEPT !.ann.detected = head]
    /\ UNCHANGED <<cluster, rows, decides, control, lastRun, inputs, faults, history>>

\* The API's decide: check the object, then record the decision in the run
\* store (idempotent, conflicting decisions refused) ...
decide ==
    /\ Input
    /\ IsApprovalPending
    /\ ws.status.run # 0
    /\ \E d \in Decisions :
         /\ rows[ws.status.run] \in {"undecided", d}
         /\ rows' = [rows EXCEPT ![ws.status.run] = d]
         /\ decides' = [decides EXCEPT ![d] = @ + 1]
    /\ UNCHANGED <<ws, cluster, lastSHA, control, lastRun, faults, history>>

\* ... and then patch the annotation, unless the request dies in between.
decidePatch ==
    \E d \in Decisions :
      /\ decides[d] > 0
      /\ decides' = [decides EXCEPT ![d] = @ - 1]
      /\ \/ /\ ws' = [ws EXCEPT !.ann.decision = d]
            /\ credit' = IF d = "approved" THEN credit + 1 ELSE credit
            /\ UNCHANGED faults
         \/ Fault("api") /\ UNCHANGED <<ws, credit>>
      /\ UNCHANGED <<cluster, lastSHA, rows, control, lastRun, inputs, applied, first>>

RequestReconcile ==
    /\ Input
    /\ ws' = [ws EXCEPT !.ann.request = TRUE]
    /\ UNCHANGED <<cluster, lastSHA, rows, decides, control, lastRun, faults, history>>

EditSpec ==
    /\ Input
    /\ \E s \in Specs :
         /\ <<ws.spec, s>> \in Edits
         /\ ws' = [ws EXCEPT !.spec = s]
    /\ UNCHANGED <<cluster, lastSHA, rows, decides, control, lastRun, faults, history>>

ChangeVariables ==
    /\ Input
    /\ \E v \in VarStates \ {vars} : vars' = v
    /\ UNCHANGED <<ws, jobs, volume, source, head, lastSHA, rows, decides, control, lastRun, faults, history>>

PushCommit ==
    /\ head < MaxCommit
    /\ head' = head + 1
    /\ UNCHANGED <<ws, jobs, volume, source, vars, lastSHA, rows, decides, control, lastRun, inputs, faults, history>>

\* The scheduled time passes.
ScheduleDue ==
    /\ ws.status.next = "future"
    /\ ws' = [ws EXCEPT !.status.next = "due"]
    /\ UNCHANGED <<cluster, lastSHA, rows, decides, control, lastRun, inputs, faults, history>>

-----------------------------------------------------------------------------
(* The Jobs: the Job controller of Kubernetes, and the pods of cmd/job.  A      *)
(* plan pod wipes the clones on the PVC, clones the branch for its run, plans,  *)
(* and leaves the plan file of its specHash; an apply pod needs the clone of    *)
(* its own run, applies the plan file and removes both.                         *)

JobStarts ==
    \E n \in JobNames :
      /\ jobs[n].state = "created"
      /\ jobs' = [jobs EXCEPT ![n].state = "active"]
      /\ UNCHANGED <<ws, volume, source, vars, head, lastSHA, rows, decides, control, lastRun,
                     inputs, faults, history>>

cloneRepository ==
    \E s \in Specs :
      /\ jobs[<<"plan", s>>].state = "active" /\ jobs[<<"plan", s>>].commit = 0
      /\ jobs' = [jobs EXCEPT ![<<"plan", s>>].commit = head]
      /\ source' = jobs[<<"plan", s>>].run
      /\ UNCHANGED <<ws, volume, vars, head, lastSHA, rows, decides, control, lastRun,
                     inputs, faults, history>>

PlanOf(s) == [spec |-> s, run |-> jobs[<<"plan", s>>].run, commit |-> jobs[<<"plan", s>>].commit]

\* Mutant: the name of the plan file does not depend on the specHash.
terraformPlanAnywhere ==
    \E s \in Specs, result \in {"succeeded", "failed"} :
      /\ jobs[<<"plan", s>>].state = "active" /\ jobs[<<"plan", s>>].commit # 0
      /\ jobs' = [jobs EXCEPT ![<<"plan", s>>].state = result]
      /\ volume' = [x \in Specs |-> PlanOf(s)]
      /\ UNCHANGED <<ws, source, vars, head, lastSHA, rows, decides, control, lastRun,
                     inputs, faults, history>>

\* The plan file is on the PVC; the policies are checked after that.
terraformPlan ==
    \E s \in Specs, result \in {"succeeded", "failed"} :
      /\ jobs[<<"plan", s>>].state = "active" /\ jobs[<<"plan", s>>].commit # 0
      /\ jobs' = [jobs EXCEPT ![<<"plan", s>>].state = result]
      /\ volume' = [volume EXCEPT ![s] = PlanOf(s)]
      /\ UNCHANGED <<ws, source, vars, head, lastSHA, rows, decides, control, lastRun,
                     inputs, faults, history>>

terraformApply ==
    \E s \in Specs :
      /\ jobs[<<"apply", s>>].state = "active"
      /\ source = jobs[<<"apply", s>>].run
      /\ volume[s].commit # 0
      /\ jobs' = [jobs EXCEPT ![<<"apply", s>>].state = "succeeded"]
      /\ volume' = [volume EXCEPT ![s] = NoPlan]
      /\ source' = 0
      /\ applied' = [spec |-> s, run |-> jobs[<<"apply", s>>].run, commit |-> volume[s].commit]
      /\ UNCHANGED <<ws, vars, head, lastSHA, rows, decides, control, lastRun,
                     inputs, faults, credit, first>>

\* A pod fails at any point (backoffLimit is 0).  An apply pod removes the clone
\* of its run on the way out, unless it is killed.
JobFails ==
    \E n \in JobNames :
      /\ jobs[n].state \in {"created", "active"}
      /\ jobs' = [jobs EXCEPT ![n].state = "failed"]
      /\ source' \in {source} \cup {x \in {0} : n[1] = "apply" /\ source = jobs[n].run}
      /\ UNCHANGED <<ws, volume, vars, head, lastSHA, rows, decides, control, lastRun,
                     inputs, faults, history>>

-----------------------------------------------------------------------------
reconcileWorkspace ==
    \/ ReconcileError \/ ReconcileUnresolved \/ startFreshCycle
    \/ AwaitRollout \/ NotAllowed
    \/ WaitForPreviousJob \/ PlanMissing \/ PlanFailed \/ PlanRunning
    \/ RejectPlan \/ ParkPlan \/ ApprovePlan
    \/ ApplyFailed \/ ApplyRunning \/ handleApplySuccess

Writes ==
    \/ DeleteJob \/ createPlanJob \/ consumeDecision \/ createApplyJob
    \/ updateStatus \/ deleteAnnotations \/ updateNextReconcileTime

Environment ==
    \/ ProjectGrant \/ RefWatcherPoll \/ decide \/ decidePatch
    \/ RequestReconcile \/ EditSpec \/ ChangeVariables \/ PushCommit \/ ScheduleDue

Pods == JobStarts \/ cloneRepository \/ terraformPlan \/ terraformApply \/ JobFails

Next == reconcileWorkspace \/ Writes \/ Restart \/ Environment \/ Pods

Spec == Init /\ [][Next]_vs

\* A change of the object or of its Jobs enqueues a reconcile, a reconcile that
\* has begun goes on to its next call, the Project controller sees the same
\* events, and a pod ends within its Job's activeDeadlineSeconds.
Fairness ==
    /\ WF_vs(reconcileWorkspace)
    /\ WF_vs(Writes)
    /\ WF_vs(ProjectGrant)
    /\ WF_vs(Pods)

FairSpec == Spec /\ Fairness
-----------------------------------------------------------------------------
(* Properties.                                                              *)

\* Every variable has its type.
TypeOK ==
    /\ ws \in WorkspaceType
    /\ jobs \in [JobNames -> JobType]
    /\ volume \in [Specs -> PlanType]
    /\ source \in 0 .. MaxRuns
    /\ vars \in VarStates
    /\ head \in Commits
    /\ lastSHA \in Revisions
    /\ rows \in [Runs -> {"absent", "undecided"} \cup Decisions]
    /\ decides \in [Decisions -> Nat]
    /\ pc \in Steps
    /\ mem \in WorkspaceType
    /\ rc \in Specs
    /\ write \in WriteType
    /\ lastRun \in 0 .. MaxRuns
    /\ inputs \in 0 .. MaxInputs
    /\ faults \in 0 .. MaxFaults
    /\ credit \in Int
    /\ applied \in PlanType
    /\ first \subseteq Runs
    /\ torn \in BOOLEAN

\* One approval starts at most one apply: createApplyJobIfApproved consumes the
\* decision before it creates the Job, so that neither a crash, a failed call
\* nor a retry of the reconcile uses the same approval twice.
ApprovalUsedOnce == credit >= 0

\* At most one Job of a spec version is unfinished: the plan Job writes the PVC
\* the apply Job reads, and both lock the same Terraform state (startFreshCycle
\* deletes the plan Job and then the apply Job, createApplyJobIfApproved runs
\* after the plan has succeeded).  What ends this is an apply Job that stays when
\* it was to be deleted: its delete failed, or the manager crashed before it.
OneActiveJob ==
    ~torn => \A s \in Specs : \E kind \in Kinds :
                jobs[<<kind, s>>] = NoJob \/ Finished(jobs[<<kind, s>>])

\* An apply Job that is not finished stands beside the plan Job that was reviewed,
\* and all it can find on the PVC is the plan of that Job: not the one of another
\* spec, although an edit starts a plan Job next to those of the old spec and
\* with the same run ID (reconcilePlanJob waits only for Jobs that have a pod), and
\* not the one of an earlier run of the same spec, whose plan file has the same
\* name.  Between the two deletes of startFreshCycle the plan Job is gone already;
\* for the rest this holds until an apply Job outlives its clean-up.
ApplyFindsReviewedPlan ==
    ~torn => \A s \in Specs :
        \/ jobs[<<"apply", s>>] = NoJob \/ Finished(jobs[<<"apply", s>>])
        \/ pc = "deleteApply" /\ rc = s
        \/ jobs[<<"plan", s>>].state = "succeeded" /\ volume[s] \in {NoPlan, PlanOf(s)}

\* Two IDs of one run.  Only the first run of a Workspace has more than one: its
\* ID is minted again until a status write stores it.
SameRun(r, q) == r = q \/ {r, q} \subseteq first

\* Applied is reported only for a run whose own apply Job succeeded, never on
\* the strength of a Job left over from an earlier run (startFreshCycle deletes
\* both Jobs before it stamps a new run), unless such a Job could not be deleted.
AppliedIsOwnRun ==
    ~torn /\ ws.status.phase = "Applied" => SameRun(applied.run, ws.status.run)

\* The execution permission goes away only after the outcome of the turn is
\* stored: a controller that sees a Workspace without permission never sees it
\* in the middle of its run (the order of writes in startFreshCycle and in the
\* three ends of a run).
PermissionReleasedAfterOutcome ==
    [][ ws.ann.exec /\ ~ws'.ann.exec =>
          terminalWorkspaceRunRecorded(ws.status.phase) \/ ws.status.phase = "Pending" ]_vs

\* A Workspace in the middle of a run comes to rest: parked for a decision, or
\* with a recorded result.
RunSettles ==
    ws.status.phase \in {"Pending", "Planning", "Applying"}
        ~> (ws.status.phase = "Planned" \/ terminalWorkspaceRunRecorded(ws.status.phase))

\* A plan that waits for its reviewer goes on waiting until there is a decision
\* on the object, or an apply that has used one up: neither new commits, nor
\* reconcile requests, nor the schedule, nor rotated variables end the wait (the
\* deferral in pollRemote and the phase guards of checkCycleNeeded).  A failed
\* API call ends it with Failed.
ParkedPlanWaits ==
    [][ (ws.status.phase = "Planned" /\ ws'.status.phase # "Planned") =>
          ws.ann.decision # "" \/ ApplyJob # NoJob \/ pc = "error" ]_vs

\* No plan is applied without autoApply or a decision on its own run: what the
\* comment of createApplyJobIfApproved says of stale approvals.
NoUnreviewedApply ==
    \A s \in Specs \ AutoApply :
        jobs[<<"apply", s>>] # NoJob => rows[jobs[<<"apply", s>>].run] = "approved"

\* When handleApplySuccess drops the detected-revision annotation, the commit it
\* named has been applied.
DetectedRevisionProcessed ==
    [][ (ws.status.phase = "Applied" /\ ws.ann.detected # 0 /\ ws'.ann.detected = 0) =>
          applied.commit >= ws.ann.detected ]_vs
=============================================================================
