------------------------- MODULE WorkspaceVariables -------------------------
(***************************************************************************)
(* A Workspace that takes its variables from VariableSets, next to the      *)
(* VariableSet controller: how an edit of a set, a rotation of a source or  *)
(* a new list of sets on the Project reaches the environment of a run.      *)
(*                                                                          *)
(* Of the Workspace controller this is the part that resolves variables,    *)
(* stamps their fingerprint and starts runs because of it; the plan and the *)
(* apply Job of a run are one Job that succeeds.  Module Workspace has the  *)
(* rest.                                                                    *)
(***************************************************************************)
EXTENDS VariableSet

CONSTANTS
    ProjectRefs,    \* the lists of sets the Project may refer to
    FirstRefs,      \* the one it refers to at first
    WorkspaceRefs   \* the sets the Workspace refers to itself

ASSUME RefsAssumption ==
    /\ ProjectRefs \subseteq Seq(Sets)
    /\ FirstRefs \in ProjectRefs
    /\ WorkspaceRefs \in Seq(Sets)

VARIABLES
    projectRefs,  \* spec.variableSetRef of the Project
    ws,           \* the Workspace: phase, stamped hash, permission
    wsQueue,      \* the Workspace waits in its controller's work queue
    rec,          \* its reconcile: the sets still to resolve, the outcome so far
    job,          \* the Job: its state, its environment, what its pod has read
    due,          \* the scheduled run is due
    applied       \* the values of the last run that was applied

wsVars  == <<projectRefs, ws, wsQueue, rec, job, due, applied>>
allVars == <<vars, wsVars>>

Empty  == NoHash
NoRec  == [pc |-> "idle", todo |-> <<>>, all |-> <<>>, missing |-> FALSE]
NoJob  == [state |-> "none", env |-> Empty, used |-> Empty]

WInit ==
    /\ Init
    /\ projectRefs = FirstRefs
    /\ ws = [phase |-> "", hash |-> NoHash, allowed |-> FALSE]
    /\ wsQueue = TRUE
    /\ rec = NoRec /\ job = NoJob
    /\ due = FALSE
    /\ applied = Empty
-----------------------------------------------------------------------------
(* Watches.  Projects and sources are not watched for a Workspace.          *)

workspaceReferencesVariableSet(s) ==
    \E refs \in {projectRefs, WorkspaceRefs} : \E i \in DOMAIN refs : refs[i] = s

findWorkspacesForVariableSet(s) ==
    /\ watchSet(s)
    /\ wsQueue' = (wsQueue \/ workspaceReferencesVariableSet(s))
    /\ UNCHANGED <<projectRefs, ws, rec, job, due, applied>>
-----------------------------------------------------------------------------
(* The reconcile of the Workspace.                                          *)

recorded == ws.phase \in {"Applied", "Failed"}

\* Each set is read and resolved on its own; the caches may move between two sets.
resolveNext(r) ==
    IF r.todo = <<>> THEN r
    ELSE IF setsC[Head(r.todo)].exists
    THEN [r EXCEPT !.todo = Tail(@), !.all = @ \o Resolve(setsC[Head(r.todo)].spec, objsC)]
    ELSE [r EXCEPT !.todo = Tail(@), !.missing = TRUE]

resolveFirst ==
    /\ wsQueue /\ rec.pc = "idle"
    /\ wsQueue' = FALSE
    /\ rec' = resolveNext([NoRec EXCEPT !.pc = "resolve", !.todo = projectRefs \o WorkspaceRefs])
    /\ UNCHANGED <<vars, projectRefs, ws, job, due, applied>>

resolveOther ==
    /\ rec.pc = "resolve" /\ rec.todo # <<>>
    /\ rec' = resolveNext(rec)
    /\ UNCHANGED <<vars, projectRefs, ws, wsQueue, job, due, applied>>

Effective == ComposeEffective(rec.all)
unresolved == rec.missing \/ \E n \in DOMAIN Effective : Effective[n].as = "missing"

\* The reconcile acts on what it resolved.  Every write of the Workspace enqueues it.
\* At its end every reconcile moves the schedule on.
Acts ==
    /\ rec.pc = "resolve" /\ rec.todo = <<>>
    /\ rec' = NoRec
    /\ due' = FALSE

SetsPhase(phase) ==
    /\ ws' = [ws EXCEPT !.phase = phase]
    /\ wsQueue' = (wsQueue \/ ws.phase # phase)

reconcileUnresolved ==
    /\ Acts /\ unresolved
    /\ SetsPhase("Failed")
    /\ UNCHANGED <<vars, projectRefs, job, applied>>

checkCycleNeeded ==
    \/ job.state = "none" /\ recorded
    \/ job.state \in {"done", "failed"} /\ recorded /\ due
    \/ Fingerprint(Effective) # ws.hash /\ (ws.phase = "" \/ recorded)

startFreshCycle ==
    /\ Acts /\ ~unresolved /\ checkCycleNeeded
    /\ ws' = [phase |-> "Pending", hash |-> Fingerprint(Effective), allowed |-> FALSE]
    /\ job' = NoJob
    /\ wsQueue' = TRUE
    /\ UNCHANGED <<vars, projectRefs, applied>>

Proceeds == Acts /\ ~unresolved /\ ~checkCycleNeeded

awaitRollout ==
    /\ Proceeds /\ ~ws.allowed
    /\ SetsPhase(IF ws.phase = "" THEN "Pending" ELSE ws.phase)
    /\ UNCHANGED <<vars, projectRefs, job, applied>>

createJob ==
    /\ Proceeds /\ ws.allowed /\ job.state = "none"
    /\ job' = [NoJob EXCEPT !.state = "created", !.env = Effective]
    /\ SetsPhase("Planning")
    /\ UNCHANGED <<vars, projectRefs, applied>>

jobRunning ==
    /\ Proceeds /\ ws.allowed /\ job.state \in {"created", "running"}
    /\ SetsPhase("Planning")
    /\ UNCHANGED <<vars, projectRefs, job, applied>>

handleApplySuccess ==
    /\ Proceeds /\ ws.allowed /\ job.state = "done"
    /\ ws' = [ws EXCEPT !.phase = "Applied", !.allowed = FALSE]
    /\ wsQueue' = TRUE
    /\ UNCHANGED <<vars, projectRefs, job, applied>>

jobFailed ==
    /\ Proceeds /\ ws.allowed /\ job.state = "failed"
    /\ ws' = [ws EXCEPT !.phase = "Failed", !.allowed = FALSE]
    /\ wsQueue' = TRUE
    /\ UNCHANGED <<vars, projectRefs, job, applied>>

reconcileWorkspace ==
    \/ resolveFirst \/ resolveOther \/ reconcileUnresolved \/ startFreshCycle
    \/ awaitRollout \/ createJob \/ jobRunning \/ handleApplySuccess \/ jobFailed
-----------------------------------------------------------------------------
(* Around the Workspace.                                                    *)

projectGrants ==
    /\ ws.phase \in {"", "Pending"} /\ ~ws.allowed
    /\ ws' = [ws EXCEPT !.allowed = TRUE]
    /\ wsQueue' = TRUE
    /\ UNCHANGED <<vars, projectRefs, rec, job, due, applied>>

scheduleDue ==
    /\ ~(due /\ wsQueue)
    /\ due' = TRUE /\ wsQueue' = TRUE
    /\ UNCHANGED <<vars, projectRefs, ws, rec, job, applied>>

\* A value is a literal or the contents of a source, known by its version.
Literal(value) == [literal |-> value]

\* What the kubelet makes of an environment: a reference is read when the pod
\* starts; an optional one that is gone is left out.
variableEnvVars(env) ==
    [n \in {m \in DOMAIN env : env[m].as = "ref" => objs[env[m].source].state = "present"} |->
        IF env[n].as = "inline" THEN Literal(env[n].value) ELSE objs[env[n].source]]

\* A pod does not start while a required reference is gone; its Job has a deadline.
CanStart ==
    \A n \in DOMAIN job.env : job.env[n].as = "ref" /\ ~job.env[n].optional =>
        objs[job.env[n].source].state = "present"

podStarts ==
    /\ job.state = "created" /\ CanStart
    /\ job' = [job EXCEPT !.state = "running", !.used = variableEnvVars(job.env)]
    /\ wsQueue' = TRUE
    /\ UNCHANGED <<vars, projectRefs, ws, rec, due, applied>>

deadlineExceeded ==
    /\ job.state = "created" /\ ~CanStart
    /\ job' = [job EXCEPT !.state = "failed"]
    /\ wsQueue' = TRUE
    /\ UNCHANGED <<vars, projectRefs, ws, rec, due, applied>>

podSucceeds ==
    /\ job.state = "running"
    /\ job' = [job EXCEPT !.state = "done"]
    /\ applied' = job.used
    /\ wsQueue' = TRUE
    /\ UNCHANGED <<vars, projectRefs, ws, rec, due>>

EditProject ==
    /\ Elsewhere
    /\ \E refs \in ProjectRefs \ {projectRefs} : projectRefs' = refs
    /\ UNCHANGED <<ws, wsQueue, rec, job, due, applied>>

WNext ==
    \/ User /\ UNCHANGED wsVars
    \/ EditProject
    \/ \E s \in Sets : findWorkspacesForVariableSet(s) \/ (Reconcile(s) /\ UNCHANGED wsVars)
    \/ \E k \in Sources : watchSource(k) /\ UNCHANGED wsVars
    \/ reconcileWorkspace
    \/ projectGrants \/ scheduleDue \/ podStarts \/ deadlineExceeded \/ podSucceeds

\* Watches deliver, queues are served, pods run, and the schedule comes due again and
\* again (every Workspace has a sync interval); users need not act.
Fairness ==
    /\ \A s \in Sets : WF_allVars(findWorkspacesForVariableSet(s))
    /\ \A s \in Sets : WF_allVars(Reconcile(s) /\ UNCHANGED wsVars)
    /\ \A k \in Sources : WF_allVars(watchSource(k) /\ UNCHANGED wsVars)
    /\ WF_allVars(reconcileWorkspace)
    /\ WF_allVars(projectGrants) /\ WF_allVars(scheduleDue)
    /\ WF_allVars(podStarts) /\ WF_allVars(deadlineExceeded) /\ WF_allVars(podSucceeds)

WSpec == WInit /\ [][WNext]_allVars /\ Fairness
-----------------------------------------------------------------------------
(* Properties.                                                              *)

\* The sets of the Project, then those of the Workspace, and what set number i has to
\* say on variable n: nothing if all it has is an optional reference that is gone.
Refs       == projectRefs \o WorkspaceRefs
Says(i, n) == {v \in {sets[Refs[i]].spec[j] : j \in DOMAIN sets[Refs[i]].spec} :
                 v.name = n /\ (v.kind = "from" /\ v.optional => objs[v.source].state = "present")}
Speaks(n)  == {i \in DOMAIN Refs : Says(i, n) # {}}
Wanted(n)  == LET i == CHOOSE i \in Speaks(n) : \A j \in Speaks(n) : j <= i
              IN  CHOOSE v \in Says(i, n) : TRUE
Wants      == {n \in Names : Speaks(n) # {}}

Complete ==
    /\ \A i \in DOMAIN Refs : sets[Refs[i]].exists
    /\ \A n \in Wants : Wanted(n).kind = "from" => objs[Wanted(n).source].state = "present"

\* Once users stop changing sets, sources and the Project, the values the Workspace
\* was last applied with are in the end the ones that are current, each variable
\* taken from the last set that has it; or the Workspace ends Failed, when a required
\* one is missing.  Neither a rotation that nothing tells the Workspace of, nor a
\* change that comes between stamping the hash and the start of the pod, nor one that
\* is taken back before it is seen, nor a lost status write leaves it on old values.
VariablesConverge ==
    <>[](IF Complete
         THEN applied = [n \in Wants |-> IF Wanted(n).kind = "inline" THEN Literal(Wanted(n).value)
                                         ELSE objs[Wanted(n).source]]
         ELSE ws.phase = "Failed")
=============================================================================
