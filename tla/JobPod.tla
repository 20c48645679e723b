------------------------------- MODULE JobPod -------------------------------
(***************************************************************************)
(* The plan and apply pods of one Workspace (cmd/job) on the volume they    *)
(* share.  A plan pod clears the directories of all runs, clones into its   *)
(* own, plans, and may have the plan checked against policies; an apply pod *)
(* takes over the directory of its run.  The plan file is named after the   *)
(* spec, not after the run.                                                 *)
(*                                                                          *)
(* The Workspace controller deletes the Jobs of a run when it starts the    *)
(* next one.  Their pods go later: until the kubelet has stopped it, a pod  *)
(* of a deleted Job works on, next to those of the new run.                 *)
(***************************************************************************)
EXTENDS Integers, FiniteSets

CONSTANTS
    Specs,      \* the specs (hashes) a run can have
    Validated,  \* those with a policy selector
    MaxRuns,    \* bound: runs
    MaxFaults   \* bound: failed steps, killed pods, interrupted runs

ASSUME JobPodAssumption ==
    /\ Validated \subseteq Specs
    /\ MaxRuns \in Nat \ {0} /\ MaxFaults \in Nat

Runs  == 1 .. MaxRuns
Kinds == {"plan", "apply"}
Ended == {"none", "succeeded", "failed"}

\* Where a pod is; the two last steps of an apply pod are those of its defer.
Steps == {"start", "clone", "terraform", "plan", "show", "policies",
          "wait", "apply", "remove", "cleanUp", "cleanUpFailed"}

\* A directory of a run has no source yet, an empty one, or a clone.
Trees == {"absent", "made", "empty", "cloned"}

\* A plan is known by the run that made it.
NoPlan == 0
Plans  == Runs \cup {NoPlan}

VARIABLES
    cur,        \* the current run
    spec,       \* the spec of each run
    pods,       \* the plan and the apply pod of each run
    trees,      \* /workspace-data/runs: the directory of each run
    planFile,   \* /workspace-data/run-<spec>.tfplan
    planJSON,   \* /workspace-data/run-<spec>.plan.json
    bad,        \* the runs whose plans break a policy
    unjudged,   \* history: the runs whose policies Kyverno gave no report on
    applied,    \* history: what was applied
    beside,     \* history: the runs a pod of another run was running next to
    faults

volume == <<trees, planFile, planJSON>>
vars   == <<cur, spec, pods, volume, bad, unjudged, applied, beside, faults>>

Init ==
    /\ cur = 1 /\ spec \in [Runs -> Specs]
    /\ bad \in SUBSET {r \in Runs : spec[r] \in Validated}
    /\ pods = [p \in Kinds \X Runs |-> "none"]
    /\ trees = [r \in Runs |-> "absent"]
    /\ planFile = [s \in Specs |-> NoPlan] /\ planJSON = planFile
    /\ unjudged = {} /\ applied = {} /\ beside = {} /\ faults = 0

Running(r)    == \E k \in Kinds : pods[<<k, r>>] \in Steps
InProgress(r) == Running(r) \/ (r = cur /\ pods[<<"plan", r>>] = "succeeded" /\ pods[<<"apply", r>>] = "none")

Track ==
    /\ UNCHANGED <<spec, bad>>
    /\ beside' = beside \cup {r \in Runs : InProgress(r)' /\ \E q \in Runs \ {r} : Running(q)'}

Fault == faults < MaxFaults /\ faults' = faults + 1

\* A fault of the current run, or the end that a pod of an earlier one is to meet.
FaultOf(r) == IF r = cur THEN Fault ELSE UNCHANGED faults

\* Pod <<k, r>> goes from one step to another.
Goes(k, r, from, to) ==
    /\ pods[<<k, r>>] = from
    /\ pods' = [pods EXCEPT ![<<k, r>>] = to]
-----------------------------------------------------------------------------
(* The Workspace controller, and Kubernetes.                                *)

createPlanPod ==
    /\ Goes("plan", cur, "none", "start")
    /\ UNCHANGED <<cur, volume, unjudged, applied, faults>> /\ Track

createApplyPod ==
    /\ pods[<<"plan", cur>>] = "succeeded"
    /\ Goes("apply", cur, "none", "start")
    /\ UNCHANGED <<cur, volume, unjudged, applied, faults>> /\ Track

\* The next run: after a result, instead of an apply, or in the middle of a run.
startFreshCycle ==
    /\ cur < MaxRuns
    /\ IF Running(cur) THEN Fault ELSE UNCHANGED faults
    /\ pods[<<"plan", cur>>] # "none"
    /\ cur' = cur + 1
    /\ UNCHANGED <<pods, volume, unjudged, applied>> /\ Track

\* A pod is evicted, out of memory or past its deadline, or the kubelet stops one
\* whose Job is deleted, when its time to end by itself is over.
podKilled(k, r) ==
    /\ pods[<<k, r>>] \in Steps
    /\ FaultOf(r)
    /\ pods' = [pods EXCEPT ![<<k, r>>] = "failed"]
    /\ UNCHANGED <<cur, volume, unjudged, applied>> /\ Track
-----------------------------------------------------------------------------
(* A pod.  Any call may fail; the context of the calls is cancelled when a  *)
(* pod is told to stop.  An apply pod that fails after terraform init       *)
(* removes its directory.                                                   *)

stepFails(k, r) ==
    /\ FaultOf(r)
    /\ \/ /\ pods[<<k, r>>] \in Steps \ {"wait", "apply", "remove", "cleanUp", "cleanUpFailed"}
          /\ pods' = [pods EXCEPT ![<<k, r>>] = "failed"]
       \/ /\ k = "apply" /\ pods[<<k, r>>] \in {"wait", "apply"}
          /\ pods' = [pods EXCEPT ![<<k, r>>] = "cleanUpFailed"]
    /\ UNCHANGED <<cur, volume, unjudged, applied>> /\ Track

\* Mutant: the directories of other runs stay.
mkdirOnly(r) ==
    /\ Goes("plan", r, "start", "clone")
    /\ trees' = [trees EXCEPT ![r] = "made"]
    /\ UNCHANGED <<cur, planFile, planJSON, unjudged, applied, faults>> /\ Track

clearRuns(r) ==
    /\ Goes("plan", r, "start", "clone")
    /\ trees' = [q \in Runs |-> IF q = r THEN "made" ELSE "absent"]
    /\ UNCHANGED <<cur, planFile, planJSON, unjudged, applied, faults>> /\ Track

cloneRepository(r) ==
    /\ Goes("plan", r, "clone", "terraform")
    /\ trees' = [trees EXCEPT ![r] = "cloned"]
    /\ UNCHANGED <<cur, planFile, planJSON, unjudged, applied, faults>> /\ Track

\* validateSourceDir looks for the source directory, whatever is in it.
validateSourceDir(r) ==
    /\ IF trees[r] \in {"empty", "cloned"} THEN Goes("apply", r, "start", "terraform")
                                           ELSE Goes("apply", r, "start", "failed")
    /\ UNCHANGED <<cur, volume, unjudged, applied, faults>> /\ Track

\* The client makes the directory it is to work in if there is none.
MkdirAll(tree) == IF tree \in {"absent", "made"} THEN "empty" ELSE tree

\* Terraform is installed and initialized.
NewClientFromInstall(k, r) ==
    /\ Goes(k, r, "terraform", IF k = "plan" THEN "plan" ELSE "wait")
    /\ trees' = [trees EXCEPT ![r] = MkdirAll(@)]
    /\ UNCHANGED <<cur, planFile, planJSON, unjudged, applied, faults>> /\ Track

\* Mutant: a plan file that is there is kept.
planOnce(r) ==
    /\ IF trees[r] = "cloned"
       THEN /\ Goes("plan", r, "plan", "show")
            /\ planFile' = [planFile EXCEPT ![spec[r]] = IF @ = NoPlan THEN r ELSE @]
       ELSE Goes("plan", r, "plan", "failed") /\ UNCHANGED planFile
    /\ UNCHANGED <<cur, trees, planJSON, unjudged, applied, faults>> /\ Track

\* Terraform plans nothing where there is no configuration.
terraformPlan(r) ==
    /\ IF trees[r] = "cloned"
       THEN /\ Goes("plan", r, "plan", "show")
            /\ planFile' = [planFile EXCEPT ![spec[r]] = r]
       ELSE Goes("plan", r, "plan", "failed") /\ UNCHANGED planFile
    /\ UNCHANGED <<cur, trees, planJSON, unjudged, applied, faults>> /\ Track

noSelector(r) ==
    /\ spec[r] \notin Validated
    /\ Goes("plan", r, "show", "succeeded")
    /\ UNCHANGED <<cur, volume, unjudged, applied, faults>> /\ Track

ShowPlanFileRaw(r) ==
    /\ spec[r] \in Validated
    /\ IF planFile[spec[r]] = NoPlan
       THEN Goes("plan", r, "show", "failed") /\ UNCHANGED planJSON
       ELSE /\ Goes("plan", r, "show", "policies")
            /\ planJSON' = [planJSON EXCEPT ![spec[r]] = planFile[spec[r]]]
    /\ UNCHANGED <<cur, trees, planFile, unjudged, applied, faults>> /\ Track

\* Mutant: the step after a passed validation is unknown to the rest.
passedStep(r) ==
    /\ Goes("plan", r, "policies", "passed")
    /\ UNCHANGED <<cur, volume, unjudged, applied, faults>> /\ Track

\* Kyverno reports a failed rule.
parseKyvernoReport(r) == planJSON[spec[r]] \in bad

\* Only a report with a failed rule fails the pod: a Kyverno that could not be run, or
\* that reported nothing, counts as passed.
validatePolicies(r) ==
    /\ \/ /\ Goes("plan", r, "policies",
                  IF parseKyvernoReport(r) THEN "failed" ELSE "succeeded")
          /\ UNCHANGED <<unjudged, faults>>
       \/ /\ Fault
          /\ Goes("plan", r, "policies", "succeeded")
          /\ unjudged' = unjudged \cup {r}
    /\ UNCHANGED <<cur, volume, applied>> /\ Track

waitForPlanFile(r) ==
    /\ Goes("apply", r, "wait", IF planFile[spec[r]] = NoPlan THEN "cleanUpFailed" ELSE "apply")
    /\ UNCHANGED <<cur, volume, unjudged, applied, faults>> /\ Track

\* Terraform does not start without its directory.  An apply that fails may have applied
\* some of the plan.
terraformApply(r) ==
    /\ IF planFile[spec[r]] # NoPlan /\ trees[r] \in {"empty", "cloned"}
       THEN /\ \/ Goes("apply", r, "apply", "remove") /\ UNCHANGED faults
               \/ Goes("apply", r, "apply", "cleanUpFailed") /\ FaultOf(r)
            /\ applied' = applied \cup {[run |-> r, plan |-> planFile[spec[r]], tree |-> trees[r]]}
       ELSE Goes("apply", r, "apply", "cleanUpFailed") /\ UNCHANGED <<applied, faults>>
    /\ UNCHANGED <<cur, volume, unjudged>> /\ Track

\* The errors of the two removals are logged.
removePlanFile(r) ==
    /\ Goes("apply", r, "remove", "cleanUp")
    /\ \/ planFile' = [planFile EXCEPT ![spec[r]] = NoPlan] /\ UNCHANGED faults
       \/ UNCHANGED planFile /\ FaultOf(r)
    /\ UNCHANGED <<cur, trees, planJSON, unjudged, applied>> /\ Track

removeRunDir(r) ==
    /\ \/ Goes("apply", r, "cleanUp", "succeeded")
       \/ Goes("apply", r, "cleanUpFailed", "failed")
    /\ \/ trees' = [trees EXCEPT ![r] = "absent"] /\ UNCHANGED faults
       \/ UNCHANGED trees /\ FaultOf(r)
    /\ UNCHANGED <<cur, planFile, planJSON, unjudged, applied>> /\ Track

execTerraform(r) ==
    \/ \E k \in Kinds : NewClientFromInstall(k, r)
    \/ terraformPlan(r) \/ noSelector(r) \/ ShowPlanFileRaw(r) \/ validatePolicies(r)
    \/ waitForPlanFile(r) \/ terraformApply(r) \/ removePlanFile(r) \/ removeRunDir(r)

Next ==
    \/ createPlanPod \/ createApplyPod \/ startFreshCycle
    \/ \E r \in Runs :
         \/ \E k \in Kinds : podKilled(k, r) \/ stepFails(k, r)
         \/ clearRuns(r) \/ cloneRepository(r) \/ validateSourceDir(r)
         \/ execTerraform(r)

Spec == Init /\ [][Next]_vars
-----------------------------------------------------------------------------
(* Properties.                                                              *)

\* Every variable has its type.
TypeOK ==
    /\ cur \in Runs /\ spec \in [Runs -> Specs]
    /\ pods \in [Kinds \X Runs -> Steps \cup Ended]
    /\ trees \in [Runs -> Trees]
    /\ planFile \in [Specs -> Plans] /\ planJSON \in [Specs -> Plans]
    /\ bad \subseteq Runs /\ unjudged \subseteq Runs /\ beside \subseteq Runs
    /\ applied \subseteq [run : Runs, plan : Plans, tree : Trees]
    /\ faults \in 0 .. MaxFaults

\* An apply pod applies the plan of its own run, made of its own clone, and not one
\* that a policy refused, although plan files are named after the spec and are left
\* behind by runs that failed, were killed or were never approved.  It holds as long as
\* no pod of another run worked on the volume meanwhile, and a policy is only refused
\* by a report of Kyverno.
OwnPlanApplied ==
    \A a \in applied : a.run \notin beside =>
        /\ a.plan = a.run /\ a.tree = "cloned"
        /\ a.run \in bad => a.run \in unjudged

\* The volume holds the directory of one run at most, also after pods that were killed
\* before they could remove theirs, unless pods of two runs overlapped.
OneTreeKept ==
    \A q, r \in Runs \ beside : trees[q] # "absent" /\ trees[r] # "absent" => q = r
=============================================================================
