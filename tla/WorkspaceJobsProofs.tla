------------------------ MODULE WorkspaceJobsProofs ------------------------
(***************************************************************************)
(* Proofs about the Jobs of a Workspace and the plans that wait for a       *)
(* reviewer, for every set of specs, edits and faults and every bound: that *)
(* the plan and the apply Job of a spec are not unfinished at once, that an *)
(* apply Job finds the plan that was reviewed, that Applied is reported for *)
(* the run that was applied, and that a parked plan waits for a decision.   *)
(***************************************************************************)
EXTENDS WorkspaceProofs

\* Every leaf is tried with Zenon first and, when that fails, with the SMT solver.
USE ZenonT(10), SMTT(30)

Plan(s)  == jobs[<<"plan", s>>]
Apply(s) == jobs[<<"apply", s>>]

(***************************************************************************)
(* What a reconcile can come to when it has read the object.               *)
(***************************************************************************)

\* It deletes Jobs of other specs only, and both Jobs of a spec or none, unless
\* a delete of an apply Job fails.
Clears ==
    /\ pc = "idle" /\ rc' = ws.spec /\ UNCHANGED <<ws, applied, vars>>
    /\ first \subseteq first' /\ (torn => torn')
    /\ \A n \in JobNames : jobs'[n] = jobs[n] \/ (jobs'[n] = NoJob /\ n[2] # ws.spec)
    /\ ~torn' => \A s \in Specs : Plan(s)' = Plan(s) \/ Apply(s)' = NoJob

\* A fresh cycle also finds or makes the Jobs of other specs gone.
Restarts ==
    /\ pc' = "deletePlan" /\ write'.phase = "Pending"
    /\ ws.status.phase = "Planned" => PlanJob = NoJob
    /\ ~torn' => \A s \in Specs \ {ws.spec} : Apply(s)' = NoJob

Plans ==
    /\ pc' = "createPlan" /\ write'.phase = "Planning" /\ PlanJob = NoJob
    /\ mem'.status.run # 0
    /\ IF ws.status.run = 0 THEN mem'.status.run \in first' ELSE mem'.status.run = ws.status.run

Approves ==
    /\ pc' \in {"consume", "createApply"} /\ write'.phase = "Applying"
    /\ PlanJob.state = "succeeded" /\ ApplyJob = NoJob
    /\ mem' = ws

\* It goes on with the run in the status, or the run of a Job if that has none.
KeepsRun ==
    \/ mem'.status.run = ws.status.run
    \/ ws.status.run = 0 /\ \E n \in JobNames : jobs[n] # NoJob /\ mem'.status.run = jobs[n].run

Succeeds ==
    /\ pc' = "status" /\ write'.phase = "Applied" /\ ApplyJob.state = "succeeded"
    /\ mem'.status.run = IF ws.status.run = 0 THEN ApplyJob.run ELSE ws.status.run

Reports ==
    /\ pc' = "status" /\ write'.phase # "Applied" /\ KeepsRun
    /\ write'.phase = "Planned" => PlanJob.state = "succeeded"
    /\ \/ write'.phase = "Planned" \/ ws.ann.decision # "" \/ ApplyJob # NoJob
       \/ ws.status.phase # "Planned" \/ PlanJob.state # "succeeded" \/ vars = Unresolved

GivesUp ==
    pc' \in {"error", "next"} /\ mem' = ws /\ (pc' = "error" => write'.phase = "Failed")

(* What Begin does to the Jobs.                                              *)
LEMMA BeginClears ==
    ASSUME TypeOK, NEW step, NEW phase, NEW keys, NEW logs, NEW m,
           Begin(step, phase, keys, logs, m)
    PROVE  /\ pc = "idle" /\ rc' = ws.spec /\ pc' = step /\ mem' = m /\ write'.phase = phase
           /\ torn => torn'
           /\ \A n \in JobNames : jobs'[n] = jobs[n] \/ (jobs'[n] = NoJob /\ n[2] # ws.spec)
           /\ ~torn' => \A s \in Specs : Plan(s)' = Plan(s) \/ Apply(s)' = NoJob
           /\ ~torn' /\ ws.status.phase \notin {"Planning", "Applying"} =>
                 \A s \in Specs \ {ws.spec} : Apply(s)' = NoJob
<1>1. PICK kept \in SUBSET cleanupOrphanedJobs, lost \in BOOLEAN :
         /\ jobs' = [n \in JobNames |->
                        IF n \in cleanupOrphanedJobs \ kept THEN NoJob ELSE jobs[n]]
         /\ write' = [phase |-> phase, keys |-> keys, archive |-> logs /\ ~lost]
         /\ torn' = (torn \/ \E n \in kept : n[1] = "apply")
  BY DEF Begin
<1>2. pc = "idle" /\ rc' = ws.spec /\ pc' = step /\ mem' = m /\ write'.phase = phase
  BY <1>1 DEF Begin
<1>3. torn => torn'
  BY <1>1
<1>4. \A n \in cleanupOrphanedJobs : n \in JobNames /\ n[2] # ws.spec
  BY DEF cleanupOrphanedJobs
<1>5. \A n \in JobNames : jobs'[n] = jobs[n] \/ (jobs'[n] = NoJob /\ n[2] # ws.spec)
  BY <1>1, <1>4
<1>6. ASSUME ~torn', NEW s \in Specs
      PROVE  /\ <<"plan", s>> \in JobNames /\ <<"apply", s>> \in JobNames
             /\ <<"apply", s>> \notin kept
  <2>1. <<"plan", s>> \in JobNames /\ <<"apply", s>> \in JobNames
    BY DEF JobNames, Kinds
  <2> QED BY <1>6, <1>1, <2>1
<1>7. ASSUME ~torn', NEW s \in Specs, Plan(s)' # Plan(s)
      PROVE  Apply(s)' = NoJob
  <2>1. <<"plan", s>> \in cleanupOrphanedJobs
    BY <1>6, <1>7, <1>1 DEF Plan
  <2>2. s # ws.spec /\ ws.status.phase \notin {"Planning", "Applying"}
    BY <2>1 DEF cleanupOrphanedJobs
  <2>3. Apply(s) = NoJob \/ <<"apply", s>> \in cleanupOrphanedJobs
    BY <2>2, <1>6, <1>7 DEF cleanupOrphanedJobs, Apply
  <2> QED BY <2>3, <1>6, <1>7, <1>1 DEF Apply
<1>8. ASSUME ~torn', ws.status.phase \notin {"Planning", "Applying"}, NEW s \in Specs \ {ws.spec}
      PROVE  Apply(s)' = NoJob
  <2>1. Apply(s) = NoJob \/ <<"apply", s>> \in cleanupOrphanedJobs
    BY <1>6, <1>8 DEF cleanupOrphanedJobs, Apply
  <2> QED BY <2>1, <1>6, <1>8, <1>1 DEF Apply
<1> QED BY <1>2, <1>3, <1>5, <1>7, <1>8

LEMMA BeginSets ==
    ASSUME TypeOK, NEW step, NEW phase, NEW keys, NEW logs, NEW m,
           Begin(step, phase, keys, logs, m)
    PROVE  pc' = step /\ mem' = m /\ write'.phase = phase
  BY BeginClears

(* The run a copy of the object has.                                         *)
LEMMA CopyRun ==
    ASSUME TypeOK, NEW r
    PROVE  /\ [ws EXCEPT !.status.run = r].status.run = r
           /\ \A o : [[ws EXCEPT !.status.run = r] EXCEPT !.status.observed = o].status.run = r
  BY DEF TypeOK, WorkspaceType, StatusType

LEMMA RunOfCopy ==
    ASSUME TypeOK, NEW job
    PROVE  WithRunOf(job).status.run = IF ws.status.run = 0 THEN job.run ELSE ws.status.run
  BY CopyRun DEF WithRunOf

(* Every branch of reconcileWorkspace is one of these.                        *)
LEMMA Branches ==
    ASSUME TypeOK, reconcileWorkspace
    PROVE  Clears /\ (Restarts \/ Plans \/ Approves \/ Succeeds \/ Reports \/ GivesUp)
<1>ty. /\ ws.status.run \in 0 .. MaxRuns /\ lastRun \in 0 .. MaxRuns /\ ws.spec \in Specs
       /\ <<"plan", ws.spec>> \in JobNames /\ <<"apply", ws.spec>> \in JobNames
       /\ NoJob.state = "none" /\ MaxRuns \in Nat
  BY WorkspaceAssumption
     DEF TypeOK, WorkspaceType, StatusType, JobNames, Kinds, NoJob
<1>kp. ASSUME NEW job \in {PlanJob, ApplyJob}, job # NoJob, mem' = WithRunOf(job) PROVE KeepsRun
  <2>1. mem'.status.run = IF ws.status.run = 0 THEN job.run ELSE ws.status.run
    BY <1>kp, RunOfCopy
  <2> QED BY <2>1, <1>kp, <1>ty DEF KeepsRun, PlanJob, ApplyJob
<1>1. CASE ReconcileError
  <2>1. GivesUp
    BY <1>1 DEF ReconcileError, GivesUp
  <2>2. PICK gone \in {{}, cleanupOrphanedJobs} :
          jobs' = [n \in JobNames |-> IF n \in gone THEN NoJob ELSE jobs[n]]
    BY <1>1 DEF ReconcileError
  <2>3. \A n \in gone : n \in JobNames /\ n[2] # ws.spec
    BY <2>2 DEF cleanupOrphanedJobs
  <2>4. ASSUME NEW s \in Specs PROVE Plan(s)' = Plan(s) \/ Apply(s)' = NoJob
    <3>1. <<"plan", s>> \in JobNames /\ <<"apply", s>> \in JobNames
      BY DEF JobNames, Kinds
    <3>2. CASE <<"plan", s>> \in gone
      <4>1. s # ws.spec /\ ws.status.phase \notin {"Planning", "Applying"}
        BY <3>2, <2>2 DEF cleanupOrphanedJobs
      <4>2. Apply(s) = NoJob \/ <<"apply", s>> \in cleanupOrphanedJobs
        BY <4>1, <3>1 DEF cleanupOrphanedJobs, Apply
      <4>3. gone = cleanupOrphanedJobs
        BY <3>2, <2>2
      <4> QED BY <4>2, <4>3, <3>1, <2>2 DEF Apply
    <3>3. CASE <<"plan", s>> \notin gone
      BY <3>3, <3>1, <2>2 DEF Plan
    <3> QED BY <3>2, <3>3
  <2>5. \A n \in JobNames : jobs'[n] = jobs[n] \/ (jobs'[n] = NoJob /\ n[2] # ws.spec)
    BY <2>2, <2>3
  <2>6. Clears
    BY <1>1, <2>4, <2>5 DEF ReconcileError, Clears, Unread, history
  <2> QED BY <2>1, <2>6
<1>2. CASE ReconcileUnresolved
  <2>1. Clears
    BY <1>2, BeginClears DEF ReconcileUnresolved, Clears, Unread, history
  <2>b. pc' = "status" /\ mem' = ws /\ write'.phase = "Failed"
    BY <1>2, BeginSets DEF ReconcileUnresolved
  <2>2. Reports
    BY <1>2, <2>b DEF ReconcileUnresolved, Reports, KeepsRun
  <2> QED BY <2>1, <2>2
<1>3. CASE startFreshCycle
  <2>1. Clears
    BY <1>3, BeginClears DEF startFreshCycle, Clears, Unread, history
  <2>2. checkCycleNeeded # "" =>
           /\ ws.status.phase \notin {"Planning", "Applying"}
           /\ ws.status.phase = "Planned" => PlanJob = NoJob
    BY DEF checkCycleNeeded, terminalWorkspaceRunRecorded
  <2>3. Restarts
    BY <1>3, <2>2, BeginClears DEF startFreshCycle, Restarts
  <2> QED BY <2>1, <2>3
<1>4. CASE AwaitRollout
  <2>1. Clears
    BY <1>4, BeginClears DEF AwaitRollout, Clears, Unread, history
  <2>b. pc' = "status" /\ mem' = ws /\ write'.phase = "Pending"
    BY <1>4, BeginSets DEF AwaitRollout
  <2>2. Reports
    BY <1>4, <2>b DEF AwaitRollout, Reports, KeepsRun
  <2> QED BY <2>1, <2>2
<1>5. CASE NotAllowed
  <2>1. Clears
    BY <1>5, BeginClears DEF NotAllowed, Clears, Unread, history
  <2>b. pc' = "next" /\ mem' = ws
    BY <1>5, BeginSets DEF NotAllowed
  <2>2. GivesUp
    BY <2>b DEF GivesUp
  <2> QED BY <2>1, <2>2
<1>6. CASE WaitForPreviousJob
  <2>1. Clears
    BY <1>6, BeginClears DEF WaitForPreviousJob, Clears, Unread, history
  <2>b. pc' = "next" /\ mem' = ws
    BY <1>6, BeginSets DEF WaitForPreviousJob
  <2>2. GivesUp
    BY <2>b DEF GivesUp
  <2> QED BY <2>1, <2>2
<1>7. CASE PlanMissing
  <2> DEFINE r == IF ws.status.run = 0 THEN lastRun + 1 ELSE ws.status.run
             m == [ws EXCEPT !.status.run = r]
  <2>1. Begin("createPlan", "Planning", {}, FALSE, m)
    BY <1>7 DEF PlanMissing
  <2>2. /\ PlanJob = NoJob /\ UNCHANGED <<Unread, credit, applied>>
        /\ IF ws.status.run = 0 THEN first' = first \cup {lastRun + 1} ELSE first' = first
    BY <1>7 DEF PlanMissing
  <2>3. m.status.run = r
    BY CopyRun
  <2>4. r # 0 /\ (IF ws.status.run = 0 THEN r \in first' ELSE r = ws.status.run)
    BY <2>2, <1>ty
  <2> HIDE DEF m, r
  <2>5. Clears
    BY <2>1, <2>2, BeginClears DEF Clears, Unread
  <2>b. pc' = "createPlan" /\ mem' = m /\ write'.phase = "Planning"
    BY <2>1, <2>2, <2>3, <2>4, BeginSets
  <2>6. Plans
    BY <2>1, <2>2, <2>3, <2>4, <2>b DEF Plans
  <2> QED BY <2>5, <2>6
<1>8. CASE PlanFailed
  <2>0. PICK phase \in {"Failed", "ValidationFailed"} :
          Begin("status", phase, {"exec", "request"}, TRUE, WithRunOf(PlanJob))
    BY <1>8 DEF PlanFailed
  <2>1. Clears
    BY <1>8, <2>0, BeginClears DEF PlanFailed, Clears, Unread, history
  <2>2. PlanJob.state = "failed" /\ PlanJob # NoJob
    BY <1>8, <1>ty DEF PlanFailed
  <2>3. KeepsRun
    BY <2>0, <2>2, <1>kp, BeginSets
  <2>b. pc' = "status" /\ mem' = WithRunOf(PlanJob) /\ write'.phase = phase
    BY <2>0, <2>2, <2>3, BeginSets
  <2>4. Reports
    BY <2>0, <2>2, <2>3, <2>b DEF Reports
  <2> QED BY <2>1, <2>4
<1>9. CASE PlanRunning
  <2>1. Clears
    BY <1>9, BeginClears DEF PlanRunning, Clears, Unread, history
  <2>b. pc' = "status" /\ mem' = ws /\ write'.phase = "Planning"
    BY <1>9, BeginSets DEF PlanRunning
  <2>2. Reports
    BY <1>9, <2>b DEF PlanRunning, Reports, KeepsRun
  <2> QED BY <2>1, <2>2
<1>10. CASE RejectPlan
  <2>1. Clears
    BY <1>10, BeginClears DEF RejectPlan, Clears, Unread, history
  <2>2. PlanJob # NoJob /\ Begin("status", "Rejected", AnnotationKeys, TRUE, WithRunOf(PlanJob))
        /\ ws.ann.decision # ""
    BY <1>10, <1>ty DEF RejectPlan, PlanDone
  <2>3. KeepsRun
    BY <2>2, <1>kp, BeginSets
  <2>b. pc' = "status" /\ mem' = WithRunOf(PlanJob) /\ write'.phase = "Rejected"
    BY <2>2, <2>3, BeginSets
  <2>4. Reports
    BY <2>2, <2>3, <2>b DEF Reports
  <2> QED BY <2>1, <2>4
<1>11. CASE ParkPlan
  <2> DEFINE logs == ws.status.phase # "Planned"
             m == IF logs THEN WithRunOf(PlanJob) ELSE ws
  <2>0. Begin("status", "Planned", {}, logs, m)
    BY <1>11 DEF ParkPlan
  <2>2. PlanJob.state = "succeeded" /\ PlanJob # NoJob
    BY <1>11, <1>ty DEF ParkPlan, PlanDone
  <2>m. m = WithRunOf(PlanJob) \/ m = ws
    OBVIOUS
  <2> HIDE DEF logs, m
  <2>1. Clears
    BY <1>11, <2>0, BeginClears DEF ParkPlan, Clears, Unread, history
  <2>3. KeepsRun
    <3>1. mem' = m
      BY <2>0, BeginClears
    <3>2. m = ws => KeepsRun
      BY <3>1 DEF KeepsRun
    <3> QED BY <3>1, <3>2, <2>m, <2>2, <1>kp
  <2>b. pc' = "status" /\ mem' = m /\ write'.phase = "Planned"
    BY <2>0, <2>2, <2>3, BeginSets
  <2>4. Reports
    BY <2>0, <2>2, <2>3, <2>b DEF Reports
  <2> QED BY <2>1, <2>4
<1>12. CASE ApprovePlan
  <2>1. Clears
    BY <1>12, BeginClears DEF ApprovePlan, Clears, Unread, history
  <2>2. Approves
    BY <1>12, BeginClears DEF ApprovePlan, PlanDone, Approves
  <2> QED BY <2>1, <2>2
<1>13. CASE ApplyFailed
  <2>1. Clears
    BY <1>13, BeginClears DEF ApplyFailed, Clears, Unread, history
  <2>2. ApplyJob # NoJob /\ Begin("status", "Failed", {"exec", "request"}, TRUE, WithRunOf(ApplyJob))
    BY <1>13, <1>ty DEF ApplyFailed
  <2>3. KeepsRun
    BY <2>2, <1>kp, BeginSets
  <2>b. pc' = "status" /\ mem' = WithRunOf(ApplyJob) /\ write'.phase = "Failed"
    BY <2>2, <2>3, BeginSets
  <2>4. Reports
    BY <2>2, <2>3, <2>b DEF Reports
  <2> QED BY <2>1, <2>4
<1>14. CASE ApplyRunning
  <2>1. Clears
    BY <1>14, BeginClears DEF ApplyRunning, Clears, Unread, history
  <2>b. pc' = "status" /\ mem' = ws /\ write'.phase = "Applying"
    BY <1>14, <1>ty, BeginSets DEF ApplyRunning
  <2>2. Reports
    BY <1>14, <1>ty, <2>b DEF ApplyRunning, Reports, KeepsRun
  <2> QED BY <2>1, <2>2
<1>15. CASE handleApplySuccess
  <2> DEFINE o == IF ws.ann.detected # 0 THEN ws.ann.detected ELSE Branch
             m == [WithRunOf(ApplyJob) EXCEPT !.status.observed = o]
  <2>0. Begin("status", "Applied", {"exec", "detected", "request"}, TRUE, m)
    BY <1>15 DEF handleApplySuccess
  <2>1. m.status.run = IF ws.status.run = 0 THEN ApplyJob.run ELSE ws.status.run
    <3> DEFINE r == IF ws.status.run = 0 THEN ApplyJob.run ELSE ws.status.run
    <3>1. WithRunOf(ApplyJob) = [ws EXCEPT !.status.run = r]
      BY DEF WithRunOf
    <3> HIDE DEF r, o
    <3>2. m.status.run = r
      BY <3>1, CopyRun
    <3> QED BY <3>2 DEF r
  <2> HIDE DEF m, o
  <2>2. Clears
    BY <1>15, <2>0, BeginClears DEF handleApplySuccess, Clears, Unread, history
  <2>3. Succeeds
    BY <1>15, <2>0, <2>1, BeginSets DEF handleApplySuccess, Succeeds
  <2> QED BY <2>2, <2>3
<1> QED
  BY <1>1, <1>2, <1>3, <1>4, <1>5, <1>6, <1>7, <1>8, <1>9, <1>10, <1>11, <1>12, <1>13, <1>14,
     <1>15 DEF reconcileWorkspace

(***************************************************************************)
(* What the other writers and the pods leave alone.                         *)
(***************************************************************************)

(* The other writers of the object touch neither its Jobs nor the reconcile   *)
(* in progress, nor the phase and the run in the status.                      *)
LEMMA OthersQuiet ==
    ASSUME TypeOK, Environment
    PROVE  /\ UNCHANGED <<jobs, pc, mem, rc, write, torn, applied, first>>
           /\ ws'.status.phase = ws.status.phase /\ ws'.status.run = ws.status.run
<1>ty. ws \in WorkspaceType /\ ws.status \in StatusType /\ ws.ann \in AnnotationType
  BY DEF TypeOK, WorkspaceType
<1>1. CASE ProjectGrant
  BY <1>1, <1>ty DEF ProjectGrant, cluster, control, history, WorkspaceType
<1>2. CASE RefWatcherPoll
  <2>1. ws' = ws \/ ws' = [ws EXCEPT !.ann.detected = head]
    BY <1>2 DEF RefWatcherPoll
  <2>2. ws'.status = ws.status
    BY <2>1, <1>ty DEF WorkspaceType
  <2> QED BY <1>2, <2>2 DEF RefWatcherPoll, cluster, control, history
<1>3. CASE decide
  BY <1>3 DEF decide, cluster, control, history
<1>4. CASE decidePatch
  <2>1. PICK d \in Decisions :
          /\ ws' = [ws EXCEPT !.ann.decision = d] \/ ws' = ws
          /\ UNCHANGED <<cluster, lastSHA, rows, control, lastRun, inputs, applied, first>>
    BY <1>4 DEF decidePatch
  <2>2. ws'.status = ws.status
    BY <2>1, <1>ty DEF WorkspaceType
  <2> QED BY <2>1, <2>2 DEF cluster, control
<1>5. CASE RequestReconcile
  BY <1>5, <1>ty DEF RequestReconcile, cluster, control, history, WorkspaceType
<1>6. CASE EditSpec
  <2>1. PICK s \in Specs : ws' = [ws EXCEPT !.spec = s]
    BY <1>6 DEF EditSpec
  <2>2. ws'.status = ws.status
    BY <2>1, <1>ty DEF WorkspaceType
  <2> QED BY <1>6, <2>2 DEF EditSpec, cluster, control, history
<1>7. CASE ChangeVariables
  BY <1>7 DEF ChangeVariables, control, history
<1>8. CASE PushCommit
  BY <1>8 DEF PushCommit, control, history
<1>9. CASE ScheduleDue
  <2>1. ws'.status = [ws.status EXCEPT !.next = "due"]
    BY <1>9, <1>ty DEF ScheduleDue, WorkspaceType
  <2> QED BY <1>9, <2>1, <1>ty DEF ScheduleDue, cluster, control, history, StatusType
<1> QED
  BY <1>1, <1>2, <1>3, <1>4, <1>5, <1>6, <1>7, <1>8, <1>9 DEF Environment

(* A pod makes no Job, removes none, leaves what has ended as it is, and what *)
(* was applied last is what an apply Job has just applied.                    *)
LEMMA PodsKeepJobs ==
    ASSUME TypeOK, Pods
    PROVE  /\ UNCHANGED <<ws, vars, pc, mem, rc, write, torn, first>>
           /\ \A n \in JobNames :
                 /\ (jobs'[n] = NoJob) <=> (jobs[n] = NoJob)
                 /\ jobs'[n].run = jobs[n].run
                 /\ jobs[n].state = "succeeded" => jobs'[n] = jobs[n]
           /\ \/ /\ applied' = applied
                 /\ \A s \in Specs : Apply(s)'.state = "succeeded" => Apply(s).state = "succeeded"
              \/ \E s \in Specs :
                 /\ Apply(s) # NoJob /\ applied'.run = Apply(s).run
                 /\ \A q \in Specs \ {s} : Apply(q)' = Apply(q)
<1> DEFINE Same(n) == /\ (jobs'[n] = NoJob) <=> (jobs[n] = NoJob)
                      /\ jobs'[n].run = jobs[n].run
                      /\ jobs[n].state = "succeeded" => jobs'[n] = jobs[n]
<1>ty. jobs \in [JobNames -> JobType] /\ NoJob.state = "none"
  BY DEF TypeOK, NoJob
<1>nm. \A s \in Specs : <<"plan", s>> \in JobNames /\ <<"apply", s>> \in JobNames
  BY DEF JobNames, Kinds
<1>st. ASSUME NEW n \in JobNames, NEW st \in {"active", "succeeded", "failed"},
              jobs[n].state \in {"created", "active"},
              jobs' = [jobs EXCEPT ![n].state = st]
       PROVE  /\ \A k \in JobNames : Same(k)
              /\ jobs'[n].state = st
              /\ \A k \in JobNames \ {n} : jobs'[k] = jobs[k]
  <2>1. jobs'[n] = [jobs[n] EXCEPT !.state = st] /\ jobs[n] \in JobType
    BY <1>st, <1>ty
  <2>2. jobs'[n].state = st /\ jobs'[n].run = jobs[n].run
    BY <2>1 DEF JobType
  <2>3. \A k \in JobNames \ {n} : jobs'[k] = jobs[k]
    BY <1>st, <1>ty
  <2>4. jobs'[n] # NoJob /\ jobs[n] # NoJob /\ jobs[n].state # "succeeded"
    BY <2>2, <1>st, <1>ty
  <2> QED BY <2>2, <2>3, <2>4
<1>1. CASE JobStarts
  <2>1. PICK n \in JobNames : /\ jobs[n].state = "created"
                              /\ jobs' = [jobs EXCEPT ![n].state = "active"]
    BY <1>1 DEF JobStarts
  <2>2. (\A k \in JobNames : Same(k)) /\ jobs'[n].state = "active"
        /\ \A k \in JobNames \ {n} : jobs'[k] = jobs[k]
    BY <2>1, <1>st
  <2>3. \A s \in Specs : Apply(s)'.state = "succeeded" => Apply(s).state = "succeeded"
    BY <2>2, <1>nm DEF Apply
  <2> QED BY <1>1, <2>2, <2>3 DEF JobStarts, control, history
<1>2. CASE cloneRepository
  <2>1. PICK s \in Specs : /\ jobs[<<"plan", s>>].state = "active"
                           /\ jobs' = [jobs EXCEPT ![<<"plan", s>>].commit = head]
    BY <1>2 DEF cloneRepository
  <2>2. /\ jobs'[<<"plan", s>>] = [jobs[<<"plan", s>>] EXCEPT !.commit = head]
        /\ jobs[<<"plan", s>>] \in JobType
    BY <2>1, <1>ty, <1>nm
  <2>3. jobs'[<<"plan", s>>].state = "active" /\ jobs'[<<"plan", s>>].run = jobs[<<"plan", s>>].run
    BY <2>1, <2>2 DEF JobType
  <2>4. \A k \in JobNames \ {<<"plan", s>>} : jobs'[k] = jobs[k]
    BY <2>1, <1>ty
  <2>5. \A k \in JobNames : Same(k)
    BY <2>1, <2>3, <2>4, <1>ty
  <2>6. \A q \in Specs : Apply(q)' = Apply(q)
    BY <2>4, <1>nm DEF Apply
  <2> QED BY <1>2, <2>5, <2>6 DEF cloneRepository, control, history
<1>3. CASE terraformPlan
  <2>1. PICK s \in Specs, result \in {"succeeded", "failed"} :
          /\ jobs[<<"plan", s>>].state = "active"
          /\ jobs' = [jobs EXCEPT ![<<"plan", s>>].state = result]
    BY <1>3 DEF terraformPlan
  <2>2. (\A k \in JobNames : Same(k)) /\ \A k \in JobNames \ {<<"plan", s>>} : jobs'[k] = jobs[k]
    BY <2>1, <1>nm, <1>st
  <2>3. \A q \in Specs : Apply(q)' = Apply(q)
    BY <2>2, <1>nm DEF Apply
  <2> QED BY <1>3, <2>2, <2>3 DEF terraformPlan, control, history
<1>4. CASE terraformApply
  <2>1. PICK s \in Specs :
          /\ jobs[<<"apply", s>>].state = "active"
          /\ jobs' = [jobs EXCEPT ![<<"apply", s>>].state = "succeeded"]
          /\ applied' = [spec |-> s, run |-> jobs[<<"apply", s>>].run, commit |-> volume[s].commit]
    BY <1>4 DEF terraformApply
  <2>2. (\A k \in JobNames : Same(k)) /\ \A k \in JobNames \ {<<"apply", s>>} : jobs'[k] = jobs[k]
    BY <2>1, <1>nm, <1>st
  <2>3. Apply(s) # NoJob /\ applied'.run = Apply(s).run /\ \A q \in Specs \ {s} : Apply(q)' = Apply(q)
    BY <2>1, <2>2, <1>nm, <1>ty DEF Apply
  <2> QED BY <1>4, <2>2, <2>3 DEF terraformApply, control
<1>5. CASE JobFails
  <2>1. PICK n \in JobNames : /\ jobs[n].state \in {"created", "active"}
                              /\ jobs' = [jobs EXCEPT ![n].state = "failed"]
    BY <1>5 DEF JobFails
  <2>2. (\A k \in JobNames : Same(k)) /\ jobs'[n].state = "failed"
        /\ \A k \in JobNames \ {n} : jobs'[k] = jobs[k]
    BY <2>1, <1>st
  <2>3. \A s \in Specs : Apply(s)'.state = "succeeded" => Apply(s).state = "succeeded"
    BY <2>2, <1>nm DEF Apply
  <2> QED BY <1>5, <2>2, <2>3 DEF JobFails, control, history
<1> QED
  BY <1>1, <1>2, <1>3, <1>4, <1>5 DEF Pods

(***************************************************************************)
(* An apply Job has a plan Job that succeeded beside it, except between the *)
(* two deletes of a fresh cycle.                                            *)
(***************************************************************************)

Paired ==
    /\ \A s \in Specs : Apply(s) # NoJob =>
          Plan(s).state = "succeeded" \/ (Plan(s) = NoJob /\ pc = "deleteApply" /\ rc = s)
    /\ pc = "createPlan" => Apply(rc) = NoJob
    /\ pc \in {"consume", "createApply"} => Plan(rc).state = "succeeded"

PairedInv == ~torn => Paired

LEMMA InitPaired == Init => PairedInv
<1> SUFFICES ASSUME Init PROVE Paired
  BY DEF PairedInv
<1>1. \A s \in Specs : Apply(s) = NoJob
  BY DEF Init, Apply, JobNames, Kinds
<1> QED BY <1>1 DEF Init, Paired

LEMMA ReconcilePaired ==
    ASSUME TypeOK, PairedInv, reconcileWorkspace, ~torn'
    PROVE  Paired'
<1>1. Clears /\ (Restarts \/ Plans \/ Approves \/ Succeeds \/ Reports \/ GivesUp)
  BY Branches
<1>2. Paired /\ pc = "idle" /\ rc' = ws.spec
  BY <1>1 DEF Clears, PairedInv
<1>3. ws.spec \in Specs /\ PlanJob = Plan(ws.spec) /\ ApplyJob = Apply(ws.spec)
      /\ NoJob.state = "none"
  BY DEF TypeOK, WorkspaceType, PlanJob, ApplyJob, Plan, Apply, NoJob
<1>4. ASSUME NEW s \in Specs PROVE Apply(s)' = Apply(s) \/ Apply(s)' = NoJob
  <2>1. <<"apply", s>> \in JobNames
    BY DEF JobNames, Kinds
  <2> QED BY <2>1, <1>1 DEF Clears, Apply
<1>5. \A s \in Specs : Apply(s)' # NoJob => Plan(s)'.state = "succeeded"
  <2> SUFFICES ASSUME NEW s \in Specs, Apply(s)' # NoJob PROVE Plan(s)'.state = "succeeded"
    OBVIOUS
  <2>1. Plan(s)' = Plan(s)
    BY <1>1 DEF Clears
  <2>2. Apply(s) # NoJob
    BY <1>4
  <2>3. Plan(s).state = "succeeded"
    BY <2>2, <1>2 DEF Paired
  <2> QED BY <2>1, <2>3
<1>6. Plan(ws.spec)' = Plan(ws.spec) /\ Apply(ws.spec)' = Apply(ws.spec)
  <2>1. <<"plan", ws.spec>> \in JobNames /\ <<"apply", ws.spec>> \in JobNames
    BY <1>3 DEF JobNames, Kinds
  <2>2. ws' = ws
    BY <1>1 DEF Clears
  <2>3. jobs'[<<"plan", ws.spec>>] = jobs[<<"plan", ws.spec>>]
        /\ jobs'[<<"apply", ws.spec>>] = jobs[<<"apply", ws.spec>>]
    BY <2>1, <1>1 DEF Clears
  <2> QED BY <2>2, <2>3 DEF Plan, Apply
<1>7. pc' = "createPlan" => Apply(rc)' = NoJob
  <2> SUFFICES ASSUME pc' = "createPlan" PROVE Apply(rc)' = NoJob
    OBVIOUS
  <2>1. Plans
    BY <1>1 DEF Restarts, Approves, Succeeds, Reports, GivesUp
  <2>2. Plan(ws.spec) = NoJob
    BY <2>1, <1>3 DEF Plans
  <2>3. Apply(ws.spec) = NoJob
    BY <2>2, <1>2, <1>3 DEF Paired
  <2>4. ws' = ws
    BY <1>1 DEF Clears
  <2> QED BY <2>3, <2>4, <1>2, <1>6 DEF Apply
<1>8. pc' \in {"consume", "createApply"} => Plan(rc)'.state = "succeeded"
  <2> SUFFICES ASSUME pc' \in {"consume", "createApply"} PROVE Plan(rc)'.state = "succeeded"
    OBVIOUS
  <2>1. Approves
    BY <1>1 DEF Restarts, Plans, Succeeds, Reports, GivesUp
  <2>2. Plan(ws.spec).state = "succeeded"
    BY <2>1, <1>3 DEF Approves
  <2>4. ws' = ws
    BY <1>1 DEF Clears
  <2> QED BY <2>2, <2>4, <1>2, <1>6 DEF Plan
<1> QED BY <1>5, <1>7, <1>8 DEF Paired

LEMMA WritesPaired ==
    ASSUME TypeOK, PairedInv, Writes \/ Restart, ~torn'
    PROVE  Paired'
<1>ty. jobs \in [JobNames -> JobType] /\ NoJob.state = "none" /\ rc \in Specs
  BY DEF TypeOK, NoJob
<1>nm. \A s \in Specs : <<"plan", s>> \in JobNames /\ <<"apply", s>> \in JobNames
  BY DEF JobNames, Kinds
<1>1. CASE DeleteJob
  <2>1. PICK kind \in Kinds :
          /\ pc = IF kind = "plan" THEN "deletePlan" ELSE "deleteApply"
          /\ pc' = IF kind = "plan" THEN "deleteApply" ELSE "status"
          /\ jobs' = [jobs EXCEPT ![<<kind, rc>>] = NoJob] \/ jobs' = jobs
          /\ torn' = (torn \/ (kind = "apply" /\ jobs'[<<kind, rc>>] # NoJob))
          /\ rc' = rc
    BY <1>1 DEF DeleteJob, Unread
  <2>2. Paired
    BY <2>1 DEF PairedInv
  <2>3. \A n \in JobNames \ {<<kind, rc>>} : jobs'[n] = jobs[n]
    BY <2>1, <1>ty
  <2>4. jobs'[<<kind, rc>>] = NoJob \/ jobs'[<<kind, rc>>] = jobs[<<kind, rc>>]
    BY <2>1, <1>ty, <1>nm
  <2>5. ASSUME NEW s \in Specs, Apply(s)' # NoJob
        PROVE  Plan(s)'.state = "succeeded" \/ (Plan(s)' = NoJob /\ pc' = "deleteApply" /\ rc' = s)
    <3>1. CASE kind = "plan"
      <4>1. Apply(s)' = Apply(s)
        BY <3>1, <2>3, <1>nm DEF Apply
      <4>2. Plan(s).state = "succeeded"
        BY <4>1, <2>5, <2>2, <2>1, <3>1 DEF Paired
      <4>3. Plan(s)' = Plan(s) \/ (s = rc /\ Plan(s)' = NoJob)
        BY <3>1, <2>3, <2>4, <1>nm DEF Plan
      <4> QED BY <4>2, <4>3, <3>1, <2>1
    <3>2. CASE kind = "apply"
      <4>1. s # rc
        BY <3>2, <2>1, <2>5 DEF Apply
      <4>2. Apply(s)' = Apply(s) /\ Plan(s)' = Plan(s)
        BY <3>2, <4>1, <2>3, <1>nm DEF Apply, Plan
      <4> QED BY <4>1, <4>2, <2>5, <2>2 DEF Paired
    <3> QED BY <3>1, <3>2 DEF Kinds
  <2> QED BY <2>5, <2>1 DEF Paired, Kinds
<1>2. CASE createPlanJob
  <2>0. Paired /\ rc' = rc /\ pc = "createPlan" /\ pc' \in {"status", "error"}
    BY <1>2 DEF createPlanJob, PairedInv, Fail
  <2>1. jobs' = jobs \/ \E job : jobs' = [jobs EXCEPT ![<<"plan", rc>>] = job]
    BY <1>2 DEF createPlanJob
  <2>2. \A n \in JobNames \ {<<"plan", rc>>} : jobs'[n] = jobs[n]
    BY <2>1, <1>ty
  <2>3. ASSUME NEW s \in Specs, Apply(s)' # NoJob PROVE Plan(s)'.state = "succeeded"
    <3>1. Apply(s)' = Apply(s)
      BY <2>2, <1>nm DEF Apply
    <3>2. s # rc
      BY <3>1, <2>3, <2>0 DEF Paired
    <3>3. Plan(s)' = Plan(s)
      BY <3>2, <2>2, <1>nm DEF Plan
    <3> QED BY <3>1, <3>3, <2>3, <2>0 DEF Paired
  <2> QED BY <2>0, <2>3 DEF Paired
<1>3. CASE consumeDecision
  <2>0. Paired /\ UNCHANGED <<rc, jobs>> /\ pc = "consume" /\ pc' \in {"createApply", "error"}
    BY <1>3 DEF consumeDecision, PairedInv, Fail, cluster
  <2> QED BY <2>0 DEF Paired, Plan, Apply
<1>4. CASE createApplyJob
  <2>0. Paired /\ rc' = rc /\ pc = "createApply" /\ pc' \in {"status", "error"}
    BY <1>4 DEF createApplyJob, PairedInv, Fail
  <2>1. jobs' = jobs \/ \E job : jobs' = [jobs EXCEPT ![<<"apply", rc>>] = job]
    BY <1>4 DEF createApplyJob
  <2>2. \A n \in JobNames \ {<<"apply", rc>>} : jobs'[n] = jobs[n]
    BY <2>1, <1>ty
  <2>3. ASSUME NEW s \in Specs, Apply(s)' # NoJob PROVE Plan(s)'.state = "succeeded"
    <3>1. Plan(s)' = Plan(s)
      BY <2>2, <1>nm DEF Plan
    <3>2. s = rc \/ Apply(s)' = Apply(s)
      BY <2>2, <1>nm DEF Apply
    <3> QED BY <3>1, <3>2, <2>3, <2>0 DEF Paired
  <2> QED BY <2>0, <2>3 DEF Paired
<1>5. CASE updateStatus \/ deleteAnnotations \/ updateNextReconcileTime
  <2>1. /\ ~torn /\ jobs' = jobs /\ pc' \in {"idle", "patch", "next", "error"}
        /\ pc \in {"status", "error", "patch", "next"}
    <3>1. updateStatus => /\ pc \in {"status", "error"} /\ pc' \in {"idle", "patch", "next"}
                          /\ UNCHANGED <<jobs, torn>>
      BY DEF updateStatus, AfterStatus, cluster
    <3>2. deleteAnnotations => pc = "patch" /\ pc' \in {"next", "error"} /\ UNCHANGED <<jobs, torn>>
      BY DEF deleteAnnotations, Fail, cluster
    <3>3. updateNextReconcileTime => pc = "next" /\ pc' = "idle" /\ UNCHANGED <<jobs, torn>>
      BY DEF updateNextReconcileTime, cluster
    <3> QED BY <1>5, <3>1, <3>2, <3>3
  <2> QED BY <2>1 DEF PairedInv, Paired, Plan, Apply
<1>6. CASE Restart
  <2>1. ~torn /\ jobs' = jobs /\ pc' = "idle" /\ ~(pc = "deleteApply" /\ Apply(rc) # NoJob)
    BY <1>6 DEF Restart, cluster, Apply
  <2> QED BY <2>1 DEF PairedInv, Paired, Plan, Apply
<1> QED
  BY <1>1, <1>2, <1>3, <1>4, <1>5, <1>6 DEF Writes

LEMMA NextPaired == TypeOK /\ PairedInv /\ [Next]_vs => PairedInv'
<1> SUFFICES ASSUME TypeOK, PairedInv, [Next]_vs, ~torn' PROVE Paired'
  BY DEF PairedInv
<1>1. CASE reconcileWorkspace
  BY <1>1, ReconcilePaired
<1>2. CASE Writes \/ Restart
  BY <1>2, WritesPaired
<1>3. CASE Environment
  BY <1>3, OthersQuiet DEF PairedInv, Paired, Plan, Apply
<1>4. CASE Pods
  <2>1. Paired /\ UNCHANGED <<pc, rc>>
    BY <1>4, PodsKeepJobs DEF PairedInv
  <2>2. rc \in Specs
    BY DEF TypeOK
  <2>3. \A s \in Specs : /\ (Apply(s)' = NoJob) <=> (Apply(s) = NoJob)
                         /\ (Plan(s)' = NoJob) <=> (Plan(s) = NoJob)
                         /\ Plan(s).state = "succeeded" => Plan(s)' = Plan(s)
    BY <1>4, PodsKeepJobs DEF Plan, Apply, JobNames, Kinds
  <2>4. Apply(rc)' = NoJob <=> Apply(rc) = NoJob
    BY <2>1, <2>2, <2>3 DEF Apply
  <2>5. Plan(rc).state = "succeeded" => Plan(rc)' = Plan(rc)
    BY <2>1, <2>2, <2>3 DEF Plan
  <2> QED BY <2>1, <2>3, <2>4, <2>5 DEF Paired
<1>5. CASE UNCHANGED vs
  BY <1>5 DEF PairedInv, Paired, Plan, Apply, vs, cluster, control
<1> QED BY <1>1, <1>2, <1>3, <1>4, <1>5 DEF Next

(* The plan Job and the apply Job of one spec are never unfinished together,   *)
(* whatever is edited, fails or crashes, as long as no apply Job has stayed    *)
(* that was to be deleted: startFreshCycle removes the plan Job first and then *)
(* the apply Job, and no Job is created in between.                            *)
THEOREM JobsAlone == Spec => []OneActiveJob
<1>1. TypeOK /\ PairedInv => OneActiveJob
  <2> SUFFICES ASSUME PairedInv, ~torn, NEW s \in Specs
               PROVE  \E kind \in Kinds : jobs[<<kind, s>>] = NoJob \/ Finished(jobs[<<kind, s>>])
    BY DEF OneActiveJob
  <2>1. Apply(s) = NoJob \/ Plan(s).state = "succeeded" \/ Plan(s) = NoJob
    BY DEF PairedInv, Paired
  <2> QED BY <2>1 DEF Apply, Plan, Finished, Kinds
<1> QED
  BY <1>1, TypeCorrect, InitPaired, NextPaired, PTL DEF Spec

(***************************************************************************)
(* The plan file of a spec and the plan Job that made it.                   *)
(***************************************************************************)

\* The file of a spec whose plan Job has succeeded is the one of that Job, until an
\* apply has removed it.
Filed ==
    \A s \in Specs : Plan(s).state = "succeeded" => volume[s] \in {NoPlan, PlanOf(s)}

\* A step after which every plan Job that has succeeded is one that had before, with
\* its file.
FilesStay ==
    /\ volume' = volume
    /\ \A s \in Specs : Plan(s)'.state = "succeeded" => Plan(s)' = Plan(s)

LEMMA FilesStayFiled == Filed /\ FilesStay => Filed'
<1> SUFFICES ASSUME Filed, FilesStay, NEW s \in Specs, Plan(s)'.state = "succeeded"
             PROVE  volume'[s] \in {NoPlan, PlanOf(s)'}
  BY DEF Filed
<1>1. Plan(s)' = Plan(s) /\ volume'[s] = volume[s]
  BY DEF FilesStay
<1>2. PlanOf(s)' = PlanOf(s)
  BY <1>1 DEF PlanOf, Plan
<1> QED BY <1>1, <1>2 DEF Filed

(* The controller and the other writers leave the files alone, and no Job is   *)
(* made to have succeeded by them.                                             *)
LEMMA ControlFiles ==
    ASSUME TypeOK, reconcileWorkspace \/ Writes \/ Restart \/ Environment
    PROVE  FilesStay
<1>ty. jobs \in [JobNames -> JobType] /\ NoJob.state = "none" /\ rc \in Specs
  BY DEF TypeOK, NoJob
<1>nm. \A s \in Specs : <<"plan", s>> \in JobNames /\ <<"apply", s>> \in JobNames
  BY DEF JobNames, Kinds
<1>1. CASE reconcileWorkspace
  <2>1. volume' = volume
    <3>1. ReconcileError \/ ReconcileUnresolved \/ startFreshCycle \/ AwaitRollout \/ NotAllowed
            => UNCHANGED Unread
      BY DEF ReconcileError, ReconcileUnresolved, startFreshCycle, AwaitRollout, NotAllowed
    <3>2. WaitForPreviousJob \/ PlanMissing \/ PlanFailed \/ PlanRunning => UNCHANGED Unread
      BY DEF WaitForPreviousJob, PlanMissing, PlanFailed, PlanRunning
    <3>3. RejectPlan \/ ParkPlan \/ ApprovePlan => UNCHANGED Unread
      BY DEF RejectPlan, ParkPlan, ApprovePlan
    <3>4. ApplyFailed \/ ApplyRunning \/ handleApplySuccess => UNCHANGED Unread
      BY DEF ApplyFailed, ApplyRunning, handleApplySuccess
    <3>5. UNCHANGED Unread
      BY <1>1, <3>1, <3>2, <3>3, <3>4 DEF reconcileWorkspace
    <3> QED BY <3>5 DEF Unread
  <2>2. \A n \in JobNames : jobs'[n] = jobs[n] \/ jobs'[n] = NoJob
    BY <1>1, Branches DEF Clears
  <2>3. \A s \in Specs : Plan(s)' = Plan(s) \/ Plan(s)' = NoJob
    BY <2>2, <1>nm DEF Plan
  <2> QED BY <2>1, <2>3, <1>ty DEF FilesStay
<1>2. CASE DeleteJob
  <2>1. PICK kind \in Kinds : jobs' = [jobs EXCEPT ![<<kind, rc>>] = NoJob] \/ jobs' = jobs
    BY <1>2 DEF DeleteJob
  <2>2. \A n \in JobNames : jobs'[n] = jobs[n] \/ jobs'[n] = NoJob
    BY <2>1, <1>ty
  <2>3. \A s \in Specs : Plan(s)' = Plan(s) \/ Plan(s)' = NoJob
    BY <2>2, <1>nm DEF Plan
  <2>4. volume' = volume
    BY <1>2 DEF DeleteJob, Unread
  <2> QED BY <2>3, <2>4, <1>ty DEF FilesStay
<1>3. CASE createPlanJob
  <2>1. jobs' = jobs \/ jobs' = [jobs EXCEPT ![<<"plan", rc>>] =
                                   [state |-> "created", run |-> mem.status.run, commit |-> 0]]
    BY <1>3 DEF createPlanJob
  <2>2. jobs'[<<"plan", rc>>] = jobs[<<"plan", rc>>] \/ jobs'[<<"plan", rc>>].state = "created"
    BY <2>1, <1>ty, <1>nm
  <2>3. \A n \in JobNames \ {<<"plan", rc>>} : jobs'[n] = jobs[n]
    BY <2>1, <1>ty
  <2>4. \A s \in Specs : Plan(s)' = Plan(s) \/ Plan(s)'.state = "created"
    BY <2>2, <2>3, <1>nm DEF Plan
  <2>5. volume' = volume
    BY <1>3 DEF createPlanJob, Unread
  <2> QED BY <2>4, <2>5 DEF FilesStay
<1>4. CASE createApplyJob
  <2>1. jobs' = jobs \/ \E job : jobs' = [jobs EXCEPT ![<<"apply", rc>>] = job]
    BY <1>4 DEF createApplyJob
  <2>2. \A s \in Specs : Plan(s)' = Plan(s)
    BY <2>1, <1>ty, <1>nm DEF Plan
  <2>3. volume' = volume
    BY <1>4 DEF createApplyJob
  <2> QED BY <2>2, <2>3 DEF FilesStay
<1>5. CASE consumeDecision \/ updateStatus \/ deleteAnnotations \/ updateNextReconcileTime \/ Restart
  <2>1. jobs' = jobs /\ volume' = volume
    BY <1>5 DEF consumeDecision, updateStatus, deleteAnnotations, updateNextReconcileTime, Restart, cluster
  <2> QED BY <2>1 DEF FilesStay, Plan
<1>6. CASE Environment
  <2>1. jobs' = jobs /\ volume' = volume
    BY <1>6 DEF Environment, ProjectGrant, RefWatcherPoll, decide, decidePatch, RequestReconcile, EditSpec,
                ChangeVariables, PushCommit, ScheduleDue, cluster
  <2> QED BY <2>1 DEF FilesStay, Plan
<1> QED BY <1>1, <1>2, <1>3, <1>4, <1>5, <1>6 DEF Writes

(* A plan pod that ends leaves the file of its own spec and no other, and an   *)
(* apply pod removes the one it has applied.                                   *)
LEMMA PodsFiled ==
    ASSUME TypeOK, Filed, Pods
    PROVE  Filed'
<1>ty. jobs \in [JobNames -> JobType] /\ volume \in [Specs -> PlanType]
  BY DEF TypeOK
<1>nm. \A s \in Specs : <<"plan", s>> \in JobNames /\ <<"apply", s>> \in JobNames
  BY DEF JobNames, Kinds
<1>pn. \A s, q \in Specs : s # q => <<"plan", s>> # <<"plan", q>>
  OBVIOUS
<1>1. ASSUME NEW n \in JobNames, NEW st \in {"active", "failed"},
             jobs' = [jobs EXCEPT ![n].state = st], volume' = volume
      PROVE  Filed'
  <2>1. \A k \in JobNames : jobs'[k] = jobs[k] \/ jobs'[k].state = st
    BY <1>1, <1>ty DEF JobType
  <2>2. \A s \in Specs : Plan(s)' = Plan(s) \/ Plan(s)'.state = st
    BY <2>1, <1>nm DEF Plan
  <2>3. FilesStay
    BY <2>2, <1>1 DEF FilesStay
  <2> QED BY <2>3, FilesStayFiled
<1>2. CASE JobStarts
  BY <1>1, <1>2 DEF JobStarts
<1>3. CASE JobFails
  BY <1>1, <1>3 DEF JobFails
<1>4. CASE cloneRepository
  <2>1. PICK q \in Specs : /\ jobs[<<"plan", q>>].state = "active" /\ volume' = volume
                           /\ jobs' = [jobs EXCEPT ![<<"plan", q>>].commit = head]
    BY <1>4 DEF cloneRepository
  <2>2. jobs'[<<"plan", q>>] = [jobs[<<"plan", q>>] EXCEPT !.commit = head] /\ jobs[<<"plan", q>>] \in JobType
    BY <2>1, <1>ty, <1>nm
  <2>3. Plan(q)'.state = "active"
    BY <2>1, <2>2 DEF JobType, Plan
  <2>4. \A s \in Specs \ {q} : Plan(s)' = Plan(s)
    BY <2>1, <1>ty, <1>nm, <1>pn DEF Plan
  <2>5. FilesStay
    BY <2>1, <2>3, <2>4 DEF FilesStay
  <2> QED BY <2>5, FilesStayFiled
<1>5. CASE terraformPlan
  <2>1. PICK q \in Specs, result \in {"succeeded", "failed"} :
          /\ jobs' = [jobs EXCEPT ![<<"plan", q>>].state = result]
          /\ volume' = [volume EXCEPT ![q] = PlanOf(q)]
    BY <1>5 DEF terraformPlan
  <2>2. jobs'[<<"plan", q>>] = [jobs[<<"plan", q>>] EXCEPT !.state = result] /\ jobs[<<"plan", q>>] \in JobType
    BY <2>1, <1>ty, <1>nm
  <2>3. jobs'[<<"plan", q>>].run = jobs[<<"plan", q>>].run
        /\ jobs'[<<"plan", q>>].commit = jobs[<<"plan", q>>].commit
    BY <2>2 DEF JobType
  <2>4. PlanOf(q)' = PlanOf(q) /\ volume'[q] = PlanOf(q)
    BY <2>1, <2>3, <1>ty DEF PlanOf
  <2>5. ASSUME NEW s \in Specs, s # q, Plan(s)'.state = "succeeded"
        PROVE  volume'[s] \in {NoPlan, PlanOf(s)'}
    <3>1. jobs'[<<"plan", s>>] = jobs[<<"plan", s>>] /\ volume'[s] = volume[s]
      BY <2>1, <2>5, <1>ty, <1>nm, <1>pn
    <3>2. Plan(s).state = "succeeded" /\ PlanOf(s)' = PlanOf(s)
      BY <2>5, <3>1 DEF Plan, PlanOf
    <3> QED BY <3>1, <3>2 DEF Filed
  <2> QED BY <2>4, <2>5 DEF Filed
<1>6. CASE terraformApply
  <2>1. PICK q \in Specs : /\ jobs' = [jobs EXCEPT ![<<"apply", q>>].state = "succeeded"]
                           /\ volume' = [volume EXCEPT ![q] = NoPlan]
    BY <1>6 DEF terraformApply
  <2>2. \A s \in Specs : Plan(s)' = Plan(s) /\ PlanOf(s)' = PlanOf(s)
    BY <2>1, <1>ty, <1>nm DEF Plan, PlanOf
  <2>3. \A s \in Specs : volume'[s] = volume[s] \/ volume'[s] = NoPlan
    BY <2>1, <1>ty
  <2> QED BY <2>2, <2>3 DEF Filed
<1> QED BY <1>2, <1>3, <1>4, <1>5, <1>6 DEF Pods

(* An apply Job that is not finished stands beside the plan Job that was       *)
(* reviewed and can only find the plan of that Job on the PVC, whatever is     *)
(* edited, fails or crashes and however many Jobs of other specs share the     *)
(* PVC, as long as no apply Job has stayed that was to be deleted: the plan    *)
(* file is named after the specHash and written before its Job succeeds.       *)
THEOREM ReviewedPlanFound == Spec => []ApplyFindsReviewedPlan
<1>1. Init => Filed
  <2> SUFFICES ASSUME Init, NEW s \in Specs PROVE volume[s] = NoPlan
    BY DEF Filed
  <2> QED BY DEF Init
<1>2. TypeOK /\ Filed /\ [Next]_vs => Filed'
  <2> SUFFICES ASSUME TypeOK, Filed, [Next]_vs PROVE Filed'
    OBVIOUS
  <2>1. CASE reconcileWorkspace \/ Writes \/ Restart \/ Environment
    BY <2>1, ControlFiles, FilesStayFiled
  <2>2. CASE Pods
    BY <2>2, PodsFiled
  <2>3. CASE UNCHANGED vs
    <3>1. FilesStay
      BY <2>3 DEF FilesStay, Plan, vs, cluster
    <3> QED BY <3>1, FilesStayFiled
  <2> QED BY <2>1, <2>2, <2>3 DEF Next
<1>3. PairedInv /\ Filed => ApplyFindsReviewedPlan
  <2> SUFFICES ASSUME PairedInv, Filed, ~torn, NEW s \in Specs, Apply(s) # NoJob,
                      ~(pc = "deleteApply" /\ rc = s)
               PROVE  Plan(s).state = "succeeded" /\ volume[s] \in {NoPlan, PlanOf(s)}
    BY DEF ApplyFindsReviewedPlan, Apply, Plan
  <2>1. Plan(s).state = "succeeded"
    BY DEF PairedInv, Paired
  <2> QED BY <2>1 DEF Filed
<1> QED
  BY <1>1, <1>2, <1>3, TypeCorrect, InitPaired, NextPaired, PTL DEF Spec

(***************************************************************************)
(* Which run the Jobs belong to.                                            *)
(***************************************************************************)

\* A Job has a run, and one of the first run's IDs while none is stored.
JobsRun ==
    \A n \in JobNames : jobs[n] # NoJob =>
        jobs[n].run # 0 /\ (ws.status.run = 0 => jobs[n].run \in first)

\* The apply Jobs are of the run in the status, and of the run the reconcile works
\* on unless it is about to delete them.
AppliesRun ==
    \A s \in Specs : Apply(s) # NoJob =>
        /\ ws.status.run # 0 => SameRun(Apply(s).run, ws.status.run)
        /\ mem.status.run # 0 => \/ SameRun(Apply(s).run, mem.status.run)
                                 \/ pc \in {"deletePlan", "deleteApply"} /\ rc = s

\* What a reconcile that is about to create a Job works on.
CreatesRun ==
    /\ pc = "createPlan" =>
          mem.status.run # 0 /\ (ws.status.run = 0 => mem.status.run \in first)
    /\ pc \in {"consume", "createApply"} => mem.status.run = ws.status.run

\* What was applied last is what an apply Job that succeeded has applied, what the
\* reconcile is about to report, and what has been reported.
AppliedRun ==
    /\ \A s \in Specs : Apply(s).state = "succeeded" => SameRun(applied.run, Apply(s).run)
    /\ pc \in BeforeStatus \cup {"error"} /\ write.phase = "Applied" =>
          pc = "status" /\ mem.status.run # 0 /\ SameRun(applied.run, mem.status.run)
    /\ ws.status.phase = "Applied" =>
          ws.status.run # 0 /\ SameRun(applied.run, ws.status.run)

Own == JobsRun /\ AppliesRun /\ CreatesRun /\ AppliedRun

OwnInv == ~torn => Own

(* SameRun is an equivalence, and IDs once the same stay so.                  *)
LEMMA SameRunFacts ==
    /\ \A r : SameRun(r, r)
    /\ \A r, q : SameRun(r, q) => SameRun(q, r)
    /\ \A r, q, p : SameRun(r, q) /\ SameRun(q, p) => SameRun(r, p)
    /\ \A r, q : r \in first /\ q \in first => SameRun(r, q)
  BY DEF SameRun

LEMMA SameRunStays ==
    ASSUME first \subseteq first', NEW r, NEW q, SameRun(r, q)
    PROVE  r = q \/ {r, q} \subseteq first'
  BY DEF SameRun

(* All apply Jobs are of one run.                                              *)
LEMMA AppliesAgree ==
    ASSUME Own, NEW s \in Specs, NEW q \in Specs, Apply(s) # NoJob, Apply(q) # NoJob
    PROVE  SameRun(Apply(s).run, Apply(q).run)
<1>1. <<"apply", s>> \in JobNames /\ <<"apply", q>> \in JobNames
  BY DEF JobNames, Kinds
<1>2. CASE ws.status.run = 0
  <2>1. Apply(s).run \in first /\ Apply(q).run \in first
    BY <1>1, <1>2 DEF Own, JobsRun, Apply
  <2> QED BY <2>1, SameRunFacts
<1>3. CASE ws.status.run # 0
  <2>1. SameRun(Apply(s).run, ws.status.run) /\ SameRun(Apply(q).run, ws.status.run)
    BY <1>3 DEF Own, AppliesRun
  <2>2. SameRun(ws.status.run, Apply(q).run)
    BY <2>1, SameRunFacts
  <2> QED BY <2>1, <2>2, SameRunFacts
<1> QED BY <1>2, <1>3

LEMMA InitOwn == Init => OwnInv
<1> SUFFICES ASSUME Init PROVE Own
  BY DEF OwnInv
<1>1. \A n \in JobNames : jobs[n] = NoJob
  BY DEF Init
<1>2. \A s \in Specs : Apply(s) = NoJob
  BY <1>1 DEF Apply, JobNames, Kinds
<1>3. NoJob.state = "none" /\ ws.status.phase = "" /\ pc = "idle"
  BY DEF Init, NoJob, NewWorkspace
<1> QED
  BY <1>1, <1>2, <1>3 DEF Own, JobsRun, AppliesRun, CreatesRun, AppliedRun, BeforeStatus

LEMMA ReconcileOwn ==
    ASSUME TypeOK, OwnInv, reconcileWorkspace, ~torn'
    PROVE  Own'
<1> DEFINE Still(r, q) == r = q \/ {r, q} \subseteq first'
<1>1. Clears /\ (Restarts \/ Plans \/ Approves \/ Succeeds \/ Reports \/ GivesUp)
  BY Branches
<1>2. /\ Own /\ pc = "idle" /\ rc' = ws.spec /\ ws' = ws /\ applied' = applied
      /\ first \subseteq first'
  BY <1>1 DEF Clears, OwnInv
<1>3. /\ ws.spec \in Specs /\ ApplyJob = Apply(ws.spec) /\ NoJob.state = "none"
      /\ <<"apply", ws.spec>> \in JobNames
  BY DEF TypeOK, WorkspaceType, ApplyJob, Apply, NoJob, JobNames, Kinds
<1>4. \A r, q : SameRun(r, q) => Still(r, q)
  BY <1>2, SameRunStays
<1>5. \A n \in JobNames : jobs'[n] # NoJob => jobs'[n] = jobs[n] /\ jobs[n] # NoJob
  BY <1>1 DEF Clears
<1>6. \A s \in Specs : Apply(s)' # NoJob => Apply(s)' = Apply(s) /\ Apply(s) # NoJob
  BY <1>5 DEF Apply, JobNames, Kinds
<1>7. JobsRun'
  <2>1. ASSUME NEW n \in JobNames, jobs'[n] # NoJob
        PROVE  jobs'[n].run # 0 /\ (ws'.status.run = 0 => jobs'[n].run \in first')
    <3>1. jobs'[n] = jobs[n] /\ jobs[n] # NoJob
      BY <2>1, <1>5
    <3>2. jobs[n].run # 0 /\ (ws.status.run = 0 => jobs[n].run \in first)
      BY <3>1, <1>2 DEF Own, JobsRun
    <3> QED BY <3>1, <3>2, <1>2
  <2> QED BY <2>1 DEF JobsRun
<1>8. ASSUME NEW s \in Specs, Apply(s)' # NoJob, ws.status.run # 0
      PROVE  Still(Apply(s)'.run, ws.status.run)
  <2>1. SameRun(Apply(s).run, ws.status.run)
    BY <1>8, <1>6, <1>2 DEF Own, AppliesRun
  <2> QED BY <2>1, <1>8, <1>6, <1>4
<1>9. ASSUME NEW s \in Specs, Apply(s)' # NoJob, mem'.status.run # 0
      PROVE  \/ Still(Apply(s)'.run, mem'.status.run)
             \/ pc' \in {"deletePlan", "deleteApply"} /\ rc' = s
  <2>1. CASE Restarts
    BY <2>1, <1>9, <1>2 DEF Restarts
  <2>2. CASE Plans \/ Approves \/ Succeeds \/ Reports \/ GivesUp
    <3>1. mem'.status.run = ws.status.run \/ (ws.status.run = 0 /\ mem'.status.run \in first')
      <4>1. CASE Plans
        BY <4>1 DEF Plans
      <4>2. CASE Approves \/ GivesUp
        BY <4>2 DEF Approves, GivesUp
      <4>3. CASE Succeeds
        <5>1. Apply(ws.spec) # NoJob
          BY <4>3, <1>3 DEF Succeeds
        <5>2. ws.status.run = 0 => Apply(ws.spec).run \in first
          BY <5>1, <1>2, <1>3 DEF Own, JobsRun, Apply
        <5> QED BY <5>2, <4>3, <1>2, <1>3 DEF Succeeds
      <4>4. CASE Reports
        BY <4>4, <1>2 DEF Reports, KeepsRun, Own, JobsRun
      <4> QED BY <2>2, <4>1, <4>2, <4>3, <4>4
    <3>2. CASE ws.status.run # 0
      BY <3>1, <3>2, <1>8, <1>9
    <3>3. CASE ws.status.run = 0
      <4>1. mem'.status.run \in first'
        BY <3>1, <3>3, <1>9
      <4>2. Apply(s) # NoJob /\ Apply(s)' = Apply(s)
        BY <1>9, <1>6
      <4>3. Apply(s).run \in first
        BY <4>2, <3>3, <1>2 DEF Own, JobsRun, Apply, JobNames, Kinds
      <4> QED BY <4>1, <4>2, <4>3, <1>2
    <3> QED BY <3>2, <3>3
  <2> QED BY <1>1, <2>1, <2>2
<1>10. AppliesRun'
  BY <1>2, <1>8, <1>9 DEF AppliesRun, SameRun
<1>11. CreatesRun'
  <2>1. pc' = "createPlan" => Plans
    BY <1>1 DEF Restarts, Approves, Succeeds, Reports, GivesUp
  <2>2. pc' \in {"consume", "createApply"} => Approves
    BY <1>1 DEF Restarts, Plans, Succeeds, Reports, GivesUp
  <2>3. Plans => mem'.status.run # 0 /\ (ws'.status.run = 0 => mem'.status.run \in first')
    BY <1>2 DEF Plans
  <2>4. Approves => mem'.status.run = ws'.status.run
    BY <1>2 DEF Approves
  <2> QED BY <2>1, <2>2, <2>3, <2>4 DEF CreatesRun
<1>12. AppliedRun'
  <2>1. ASSUME NEW s \in Specs, Apply(s)'.state = "succeeded"
        PROVE  Still(applied'.run, Apply(s)'.run)
    <3>1. Apply(s)' = Apply(s)
      BY <2>1, <1>6, <1>3
    <3>2. SameRun(applied.run, Apply(s).run)
      BY <3>1, <2>1, <1>2 DEF Own, AppliedRun
    <3> QED BY <3>1, <3>2, <1>2, <1>4
  <2>2. ASSUME pc' \in BeforeStatus \cup {"error"}, write'.phase = "Applied"
        PROVE  pc' = "status" /\ mem'.status.run # 0 /\ Still(applied'.run, mem'.status.run)
    <3>1. Succeeds
      BY <1>1, <2>2 DEF Restarts, Plans, Approves, Reports, GivesUp, BeforeStatus
    <3>2. Apply(ws.spec).state = "succeeded" /\ Apply(ws.spec) # NoJob
      BY <3>1, <1>3 DEF Succeeds
    <3>3. SameRun(applied.run, Apply(ws.spec).run)
      BY <3>2, <1>2, <1>3 DEF Own, AppliedRun
    <3>4. CASE ws.status.run = 0
      <4>1. mem'.status.run = Apply(ws.spec).run
        BY <3>1, <3>4, <1>3 DEF Succeeds
      <4>2. Apply(ws.spec).run # 0
        BY <3>2, <1>2, <1>3 DEF Own, JobsRun, Apply
      <4> QED BY <4>1, <4>2, <3>1, <3>3, <1>2, <1>4 DEF Succeeds
    <3>5. CASE ws.status.run # 0
      <4>1. mem'.status.run = ws.status.run
        BY <3>1, <3>5 DEF Succeeds
      <4>2. SameRun(Apply(ws.spec).run, ws.status.run)
        BY <3>2, <3>5, <1>2, <1>3 DEF Own, AppliesRun
      <4>3. SameRun(applied.run, ws.status.run)
        BY <4>2, <3>3, SameRunFacts
      <4> QED BY <4>1, <4>3, <3>1, <3>5, <1>2, <1>4 DEF Succeeds
    <3> QED BY <3>4, <3>5
  <2>3. ws'.status.phase = "Applied" =>
           ws'.status.run # 0 /\ Still(applied'.run, ws'.status.run)
    BY <1>2, <1>4 DEF Own, AppliedRun
  <2> QED BY <2>1, <2>2, <2>3 DEF AppliedRun, SameRun
<1> QED BY <1>7, <1>10, <1>11, <1>12 DEF Own

(* A write that makes no Job leaves the runs of Jobs as they are, if the run   *)
(* in the status and in memory come from those there were.                     *)
LEMMA WriteOwn ==
    ASSUME Own, UNCHANGED <<jobs, applied, first>>, pc \notin {"deletePlan", "deleteApply"},
           pc' \notin BeforeStatus \cup {"error"} \/ write'.phase = "Failed",
           pc' \notin {"createPlan", "consume", "createApply"},
           ws'.status.run \in {ws.status.run, mem.status.run} /\ (ws'.status.run = 0 => ws.status.run = 0),
           mem'.status.run \in {0, ws.status.run, mem.status.run},
           ws'.status.phase = "Applied" =>
              ws'.status.run # 0 /\ SameRun(applied.run, ws'.status.run)
    PROVE  Own'
<1>1. \A s \in Specs : Apply(s)' = Apply(s)
  BY DEF Apply
<1>2. JobsRun'
  BY DEF Own, JobsRun
<1>3. ASSUME NEW s \in Specs, Apply(s) # NoJob, NEW r \in {ws.status.run, mem.status.run}, r # 0
      PROVE  SameRun(Apply(s).run, r)
  BY <1>3 DEF Own, AppliesRun
<1>4. AppliesRun'
  BY <1>1, <1>3 DEF AppliesRun, SameRun
<1>5. CreatesRun'
  BY DEF CreatesRun
<1>6. \A s \in Specs : Apply(s).state = "succeeded" => SameRun(applied.run, Apply(s).run)
  BY DEF Own, AppliedRun
<1>7. AppliedRun'
  BY <1>1, <1>6 DEF AppliedRun, SameRun
<1> QED BY <1>2, <1>4, <1>5, <1>7 DEF Own

LEMMA WritesOwn ==
    ASSUME TypeOK, PairedInv, OwnInv, Writes \/ Restart, ~torn'
    PROVE  Own'
<1>ty. /\ jobs \in [JobNames -> JobType] /\ NoJob.state = "none" /\ rc \in Specs
       /\ ws \in WorkspaceType /\ mem \in WorkspaceType
       /\ ws.status \in StatusType /\ mem.status \in StatusType
       /\ NewWorkspace.status.run = 0
  BY DEF TypeOK, NoJob, WorkspaceType, NewWorkspace
<1>nm. \A s \in Specs : <<"plan", s>> \in JobNames /\ <<"apply", s>> \in JobNames
  BY DEF JobNames, Kinds
<1>fl. Fail => pc' = "error" /\ write'.phase = "Failed"
  BY DEF Fail
<1>1. CASE DeleteJob
  <2>1. PICK kind \in Kinds :
          /\ pc = IF kind = "plan" THEN "deletePlan" ELSE "deleteApply"
          /\ pc' = IF kind = "plan" THEN "deleteApply" ELSE "status"
          /\ jobs' = [jobs EXCEPT ![<<kind, rc>>] = NoJob] \/ jobs' = jobs
          /\ torn' = (torn \/ (kind = "apply" /\ jobs'[<<kind, rc>>] # NoJob))
          /\ UNCHANGED <<rc, ws, mem, write, applied, first>>
    BY <1>1 DEF DeleteJob, Unread, history
  <2>2. Own
    BY <2>1 DEF OwnInv
  <2>3. \A n \in JobNames : jobs'[n] # NoJob => jobs'[n] = jobs[n]
    BY <2>1, <1>ty
  <2>4. \A s \in Specs : Apply(s)' # NoJob => Apply(s)' = Apply(s)
    BY <2>3, <1>nm DEF Apply
  <2>5. kind = "apply" => Apply(rc)' = NoJob
    BY <2>1 DEF Apply
  <2>6. JobsRun'
    BY <2>1, <2>2, <2>3 DEF Own, JobsRun
  <2>7. ASSUME NEW s \in Specs, Apply(s)' # NoJob
        PROVE  /\ ws.status.run # 0 => SameRun(Apply(s)'.run, ws.status.run)
               /\ mem.status.run # 0 => \/ SameRun(Apply(s)'.run, mem.status.run)
                                        \/ pc' = "deleteApply" /\ rc = s
    <3>1. Apply(s)' = Apply(s) /\ Apply(s) # NoJob
      BY <2>4, <2>7
    <3>2. kind = "plan" \/ rc # s
      BY <2>5, <2>7, <2>1 DEF Kinds, Apply
    <3>3. pc' = "deleteApply" \/ kind # "plan"
      BY <2>1
    <3>4. /\ ws.status.run # 0 => SameRun(Apply(s).run, ws.status.run)
          /\ mem.status.run # 0 => SameRun(Apply(s).run, mem.status.run) \/ rc = s
      BY <3>1, <2>2 DEF Own, AppliesRun
    <3> QED BY <3>1, <3>2, <3>3, <3>4
  <2>8. AppliesRun'
    BY <2>7, <2>1 DEF AppliesRun, SameRun
  <2>9. CreatesRun'
    BY <2>1 DEF CreatesRun
  <2>10. write.phase # "Applied"
    BY <2>1, <2>2 DEF Own, AppliedRun, BeforeStatus
  <2>11. ASSUME NEW s \in Specs, Apply(s)'.state = "succeeded"
         PROVE  SameRun(applied.run, Apply(s)'.run)
    BY <2>11, <2>4, <2>2, <1>ty DEF Own, AppliedRun
  <2>12. ws.status.phase = "Applied" => ws.status.run # 0 /\ SameRun(applied.run, ws.status.run)
    BY <2>2 DEF Own, AppliedRun
  <2>13. AppliedRun'
    BY <2>1, <2>10, <2>11, <2>12 DEF AppliedRun, SameRun
  <2> QED BY <2>6, <2>8, <2>9, <2>13 DEF Own
<1>2. CASE createPlanJob
  <2>1. /\ pc = "createPlan" /\ UNCHANGED <<ws, mem, rc, applied, first>> /\ ~torn
        /\ pc' \in {"status", "error"} /\ (write' = write \/ write'.phase = "Failed")
    BY <1>2, <1>fl DEF createPlanJob, Unread, history
  <2>2. jobs' = jobs \/ jobs' = [jobs EXCEPT ![<<"plan", rc>>] =
                                    [state |-> "created", run |-> mem.status.run, commit |-> 0]]
    BY <1>2 DEF createPlanJob
  <2>3. Own
    BY <2>1 DEF OwnInv
  <2>4. \A n \in JobNames : jobs'[n] = jobs[n] \/ jobs'[n].run = mem.status.run
    BY <2>2, <1>ty
  <2>5. \A s \in Specs : Apply(s)' = Apply(s)
    BY <2>2, <1>ty, <1>nm DEF Apply
  <2>6. mem.status.run # 0 /\ (ws.status.run = 0 => mem.status.run \in first)
    BY <2>1, <2>3 DEF Own, CreatesRun
  <2>7. JobsRun'
    BY <2>1, <2>3, <2>4, <2>6 DEF Own, JobsRun
  <2>8. AppliesRun'
    BY <2>1, <2>3, <2>5 DEF Own, AppliesRun, SameRun
  <2>9. CreatesRun'
    BY <2>1 DEF CreatesRun
  <2>10. write.phase # "Applied"
    BY <2>1, <2>3 DEF Own, AppliedRun, BeforeStatus
  <2>11. AppliedRun'
    BY <2>1, <2>3, <2>5, <2>10 DEF Own, AppliedRun, SameRun
  <2> QED BY <2>7, <2>8, <2>9, <2>11 DEF Own
<1>3. CASE consumeDecision
  <2>1. /\ pc = "consume" /\ UNCHANGED <<jobs, rc, applied, first>> /\ ~torn
        /\ \/ ws' = [ws EXCEPT !.ann.decision = ""] /\ mem' = ws' /\ pc' = "createApply" /\ write' = write
           \/ UNCHANGED <<ws, mem>> /\ pc' = "error" /\ write'.phase = "Failed"
    BY <1>3, <1>fl DEF consumeDecision, cluster, history
  <2>2. ws'.status = ws.status /\ (mem'.status = ws.status \/ mem' = mem)
    BY <2>1, <1>ty DEF WorkspaceType
  <2>3. Own
    BY <2>1 DEF OwnInv
  <2>4. mem.status.run = ws.status.run
    BY <2>1, <2>3 DEF Own, CreatesRun
  <2>5. mem'.status.run = ws.status.run /\ ws'.status.run = ws.status.run
        /\ ws'.status.phase = ws.status.phase
    BY <2>2, <2>4
  <2>6. \A s \in Specs : Apply(s)' = Apply(s)
    BY <2>1 DEF Apply
  <2>7. JobsRun'
    BY <2>1, <2>3, <2>5 DEF Own, JobsRun
  <2>8. AppliesRun'
    BY <2>1, <2>3, <2>5, <2>6 DEF Own, AppliesRun, SameRun
  <2>9. CreatesRun'
    BY <2>1, <2>5 DEF CreatesRun
  <2>10. write.phase # "Applied"
    BY <2>1, <2>3 DEF Own, AppliedRun, BeforeStatus
  <2>11. write'.phase # "Applied"
    BY <2>1, <2>10
  <2>12. AppliedRun'
    BY <2>1, <2>3, <2>5, <2>6, <2>11 DEF Own, AppliedRun, SameRun
  <2> QED BY <2>7, <2>8, <2>9, <2>12 DEF Own
<1>4. CASE createApplyJob
  <2> DEFINE run == ApplyRun
  <2>1. /\ pc = "createApply" /\ UNCHANGED <<ws, rc, applied, first>> /\ ~torn
        /\ pc' \in {"status", "error"}
        /\ mem' = [mem EXCEPT !.status.run = run]
    BY <1>4, <1>fl DEF createApplyJob
  <2>2. jobs' = jobs \/ jobs' = [jobs EXCEPT ![<<"apply", rc>>] =
                                    [state |-> "created", run |-> run, commit |-> 0]]
    BY <1>4 DEF createApplyJob
  <2>3. Own /\ Paired
    BY <2>1 DEF OwnInv, PairedInv
  <2>4. Plan(rc) # NoJob /\ mem.status.run = ws.status.run
    BY <2>1, <2>3, <1>ty DEF Own, CreatesRun, Paired
  <2>5. Plan(rc).run # 0 /\ (ws.status.run = 0 => Plan(rc).run \in first)
    BY <2>3, <2>4, <1>ty, <1>nm DEF Own, JobsRun, Plan
  <2>6. run # 0 /\ (IF ws.status.run = 0 THEN run \in first ELSE run = ws.status.run)
    BY <2>4, <2>5 DEF ApplyRun, Plan
  <2>7. mem'.status.run = run
    BY <2>1, <1>ty DEF WorkspaceType, StatusType
  <2>8. write.phase # "Applied"
    BY <2>1, <2>3 DEF Own, AppliedRun, BeforeStatus
  <2>9. write'.phase # "Applied"
    <3>1. write' = [write EXCEPT !.archive = FALSE] \/ write'.phase = "Failed"
      BY <1>4, <1>fl DEF createApplyJob
    <3>2. [write EXCEPT !.archive = FALSE].phase = write.phase
      BY DEF TypeOK, WriteType
    <3> QED BY <3>1, <3>2, <2>8
  <2> HIDE DEF run
  <2>10. \A n \in JobNames : jobs'[n] = jobs[n] \/ jobs'[n].run = run
    BY <2>2, <1>ty
  <2>11. \A s \in Specs : Apply(s)' = Apply(s) \/ (Apply(s)'.run = run /\ Apply(s)'.state = "created")
    <3> SUFFICES ASSUME NEW s \in Specs
                 PROVE  Apply(s)' = Apply(s) \/ (Apply(s)'.run = run /\ Apply(s)'.state = "created")
      OBVIOUS
    <3> DEFINE job == [state |-> "created", run |-> run, commit |-> 0]
    <3>1. job.run = run /\ job.state = "created"
      OBVIOUS
    <3> HIDE DEF job
    <3>2. jobs'[<<"apply", s>>] = jobs[<<"apply", s>>] \/ jobs'[<<"apply", s>>] = job
      BY <2>2, <1>ty, <1>nm DEF job
    <3> QED BY <3>1, <3>2 DEF Apply
  <2>12. JobsRun'
    BY <2>1, <2>3, <2>6, <2>10 DEF Own, JobsRun
  <2>13. ASSUME NEW s \in Specs, Apply(s) # NoJob PROVE SameRun(Apply(s).run, run)
    <3>1. ws.status.run # 0 => SameRun(Apply(s).run, ws.status.run)
      BY <2>13, <2>3 DEF Own, AppliesRun
    <3>2. ws.status.run = 0 => Apply(s).run \in first
      BY <2>13, <2>3, <1>nm DEF Own, JobsRun, Apply
    <3> QED BY <3>1, <3>2, <2>6, SameRunFacts
  <2>14. ASSUME NEW s \in Specs, Apply(s)' # NoJob PROVE SameRun(Apply(s)'.run, run)
    BY <2>13, <2>14, <2>11, SameRunFacts
  <2>15. ws.status.run # 0 => run = ws.status.run
    BY <2>6
  <2>16. AppliesRun'
    BY <2>1, <2>7, <2>14, <2>15 DEF AppliesRun, SameRun
  <2>17. CreatesRun'
    BY <2>1 DEF CreatesRun
  <2>18. AppliedRun'
    BY <2>1, <2>3, <2>9, <2>11 DEF Own, AppliedRun, SameRun
  <2> QED BY <2>12, <2>16, <2>17, <2>18 DEF Own
<1>5. CASE updateStatus
  <2> DEFINE stored == IF mem.status.run # 0 THEN mem.status.run ELSE ws.status.run
  <2>1. /\ pc \in {"status", "error"} /\ pc' \in {"idle", "patch", "next"}
        /\ UNCHANGED <<jobs, applied, first, torn>>
    BY <1>5 DEF updateStatus, AfterStatus, cluster, history
  <2>2. ws' = [ws EXCEPT !.status = StoredStatus] \/ ws' = ws
    BY <1>5 DEF updateStatus
  <2>3. mem' \in {NewWorkspace, mem, [mem EXCEPT !.status = StoredStatus]}
    BY <1>5 DEF updateStatus, Forget
  <2>4. StoredStatus.run = stored /\ StoredStatus.phase = write.phase
    BY DEF StoredStatus
  <2>5. (ws'.status = StoredStatus \/ ws' = ws) /\ mem'.status.run \in {0, mem.status.run, stored}
    BY <2>2, <2>3, <2>4, <1>ty DEF WorkspaceType
  <2>6. Own
    BY <2>1 DEF OwnInv
  <2>7. ws'.status.phase = "Applied" => ws'.status.run # 0 /\ SameRun(applied.run, ws'.status.run)
    <3>1. CASE ws' = ws
      BY <3>1, <2>6 DEF Own, AppliedRun
    <3>2. CASE ws'.status = StoredStatus
      BY <3>2, <2>4, <2>1, <2>6 DEF Own, AppliedRun, BeforeStatus
    <3> QED BY <3>1, <3>2, <2>5
  <2>8. ws'.status.run \in {ws.status.run, mem.status.run} /\ (ws'.status.run = 0 => ws.status.run = 0)
    BY <2>4, <2>5
  <2>9. mem'.status.run \in {0, ws.status.run, mem.status.run}
    BY <2>5
  <2> QED BY <2>1, <2>6, <2>7, <2>8, <2>9, WriteOwn DEF BeforeStatus
<1>6. CASE deleteAnnotations
  <2>1. /\ pc = "patch" /\ UNCHANGED <<jobs, applied, first, torn, mem>>
        /\ pc' = "next" \/ (pc' = "error" /\ write'.phase = "Failed")
    BY <1>6, <1>fl DEF deleteAnnotations, cluster, history
  <2>2. ws' = ws \/ \E a : ws' = [ws EXCEPT !.ann = a]
    BY <1>6 DEF deleteAnnotations
  <2>3. ws'.status = ws.status
    BY <2>2, <1>ty DEF WorkspaceType
  <2>4. Own
    BY <2>1 DEF OwnInv
  <2>5. ws'.status.phase = "Applied" => ws'.status.run # 0 /\ SameRun(applied.run, ws'.status.run)
    BY <2>3, <2>4 DEF Own, AppliedRun
  <2> QED BY <2>1, <2>3, <2>4, <2>5, WriteOwn DEF BeforeStatus
<1>7. CASE updateNextReconcileTime
  <2>1. /\ pc = "next" /\ UNCHANGED <<jobs, applied, first, torn>> /\ mem' = NewWorkspace
        /\ pc' = "idle"
    BY <1>7 DEF updateNextReconcileTime, Forget, cluster, history
  <2>2. ws' = ws \/ ws' = [ws EXCEPT !.status.next = "future"]
    BY <1>7 DEF updateNextReconcileTime
  <2>3. ws'.status.run = ws.status.run /\ ws'.status.phase = ws.status.phase
    <3>1. ws'.status = ws.status \/ ws'.status = [ws.status EXCEPT !.next = "future"]
      BY <2>2, <1>ty DEF WorkspaceType
    <3> QED BY <3>1, <1>ty DEF StatusType
  <2>4. Own
    BY <2>1 DEF OwnInv
  <2>5. ws'.status.phase = "Applied" => ws'.status.run # 0 /\ SameRun(applied.run, ws'.status.run)
    BY <2>3, <2>4 DEF Own, AppliedRun
  <2>6. mem'.status.run = 0
    BY <2>1, <1>ty
  <2> QED BY <2>1, <2>3, <2>4, <2>5, <2>6, WriteOwn DEF BeforeStatus
<1>8. CASE Restart
  <2>1. /\ UNCHANGED <<jobs, applied, first, ws>> /\ ~torn /\ mem' = NewWorkspace
        /\ pc' = "idle"
    BY <1>8 DEF Restart, Forget, cluster, history
  <2>2. Own /\ mem'.status.run = 0
    BY <2>1, <1>ty DEF OwnInv
  <2>3. \A s \in Specs : Apply(s)' = Apply(s)
    BY <2>1 DEF Apply
  <2>4. JobsRun'
    BY <2>1, <2>2 DEF Own, JobsRun
  <2>5. AppliesRun'
    BY <2>1, <2>2, <2>3 DEF Own, AppliesRun, SameRun
  <2>6. CreatesRun'
    BY <2>1 DEF CreatesRun
  <2>7. AppliedRun'
    BY <2>1, <2>2, <2>3 DEF Own, AppliedRun, SameRun, BeforeStatus
  <2> QED BY <2>4, <2>5, <2>6, <2>7 DEF Own
<1> QED
  BY <1>1, <1>2, <1>3, <1>4, <1>5, <1>6, <1>7, <1>8 DEF Writes

LEMMA PodsOwn ==
    ASSUME TypeOK, OwnInv, Pods, ~torn'
    PROVE  Own'
<1>1. UNCHANGED <<ws, pc, mem, rc, write, torn, first>>
  BY PodsKeepJobs
<1>2. Own /\ NoJob.state = "none"
  BY <1>1 DEF OwnInv, NoJob
<1>3. \A n \in JobNames : ((jobs'[n] = NoJob) <=> (jobs[n] = NoJob)) /\ jobs'[n].run = jobs[n].run
  BY PodsKeepJobs
<1>4. \A s \in Specs : ((Apply(s)' = NoJob) <=> (Apply(s) = NoJob)) /\ Apply(s)'.run = Apply(s).run
  BY <1>3 DEF Apply, JobNames, Kinds
<1>5. JobsRun'
  BY <1>1, <1>2, <1>3 DEF Own, JobsRun
<1>6. AppliesRun'
  BY <1>1, <1>2, <1>4 DEF Own, AppliesRun, SameRun
<1>7. CreatesRun'
  BY <1>1, <1>2 DEF Own, CreatesRun
<1>8. CASE /\ applied' = applied
           /\ \A s \in Specs : Apply(s)'.state = "succeeded" => Apply(s).state = "succeeded"
  <2>1. AppliedRun'
    BY <1>1, <1>2, <1>4, <1>8 DEF Own, AppliedRun, SameRun
  <2> QED BY <2>1, <1>5, <1>6, <1>7 DEF Own
<1>9. ASSUME NEW s \in Specs, Apply(s) # NoJob, applied'.run = Apply(s).run
      PROVE  AppliedRun'
  <2>1. ASSUME NEW q \in Specs, Apply(q)'.state = "succeeded"
        PROVE  SameRun(applied'.run, Apply(q)'.run)
    <3>1. Apply(q) # NoJob
      BY <2>1, <1>2, <1>4
    <3>2. SameRun(Apply(s).run, Apply(q).run)
      BY <3>1, <1>2, <1>9, AppliesAgree
    <3> QED BY <3>2, <1>4, <1>9
  <2>2. ASSUME pc \in BeforeStatus \cup {"error"}, write.phase = "Applied"
        PROVE  pc = "status" /\ mem.status.run # 0 /\ SameRun(applied'.run, mem.status.run)
    <3>1. pc = "status" /\ mem.status.run # 0
      BY <2>2, <1>2 DEF Own, AppliedRun
    <3>2. SameRun(Apply(s).run, mem.status.run)
      BY <3>1, <1>2, <1>9 DEF Own, AppliesRun
    <3> QED BY <3>1, <3>2, <1>9
  <2>3. ASSUME ws.status.phase = "Applied"
        PROVE  ws.status.run # 0 /\ SameRun(applied'.run, ws.status.run)
    <3>1. ws.status.run # 0
      BY <2>3, <1>2 DEF Own, AppliedRun
    <3>2. SameRun(Apply(s).run, ws.status.run)
      BY <3>1, <1>2, <1>9 DEF Own, AppliesRun
    <3> QED BY <3>1, <3>2, <1>9
  <2> QED BY <1>1, <2>1, <2>2, <2>3 DEF AppliedRun, SameRun
<1>10. CASE \E s \in Specs : Apply(s) # NoJob /\ applied'.run = Apply(s).run
  BY <1>10, <1>9, <1>5, <1>6, <1>7 DEF Own
<1> QED BY <1>8, <1>10, PodsKeepJobs

LEMMA NextOwn == TypeOK /\ PairedInv /\ OwnInv /\ [Next]_vs => OwnInv'
<1> SUFFICES ASSUME TypeOK, PairedInv, OwnInv, [Next]_vs, ~torn' PROVE Own'
  BY DEF OwnInv
<1>1. CASE reconcileWorkspace
  BY <1>1, ReconcileOwn
<1>2. CASE Writes \/ Restart
  BY <1>2, WritesOwn
<1>3. CASE Environment
  <2>1. /\ UNCHANGED <<jobs, pc, mem, rc, write, torn, applied, first>>
        /\ ws'.status.phase = ws.status.phase /\ ws'.status.run = ws.status.run
    BY <1>3, OthersQuiet
  <2> QED
    BY <2>1 DEF OwnInv, Own, JobsRun, AppliesRun, CreatesRun, AppliedRun, SameRun, Apply
<1>4. CASE Pods
  BY <1>4, PodsOwn
<1>5. CASE UNCHANGED vs
  <2>1. UNCHANGED <<ws, jobs, pc, mem, rc, write, torn, applied, first>>
    BY <1>5 DEF vs, cluster, control, history
  <2> QED
    BY <2>1 DEF OwnInv, Own, JobsRun, AppliesRun, CreatesRun, AppliedRun, SameRun, Apply
<1> QED BY <1>1, <1>2, <1>3, <1>4, <1>5 DEF Next

(* Applied is reported for the run whose apply Job succeeded last, whatever is *)
(* edited, fails or crashes, unless an apply Job has stayed that was to be     *)
(* deleted: startFreshCycle finds or makes all apply Jobs gone before it       *)
(* stamps a new run.                                                           *)
THEOREM AppliedOwnRun == Spec => []AppliedIsOwnRun
<1>1. OwnInv => AppliedIsOwnRun
  BY DEF OwnInv, Own, AppliedRun, AppliedIsOwnRun
<1> QED
  BY <1>1, TypeCorrect, InitPaired, NextPaired, InitOwn, NextOwn, PTL DEF Spec

(***************************************************************************)
(* A parked plan.                                                           *)
(***************************************************************************)

\* The plan that is parked, or about to be, has succeeded, no Job is about to be
\* deleted or planned again, and a reconcile that is about to end the wait has a
\* decision or an apply Job to show for it.
Waits ==
    /\ ws.spec = InitSpec /\ rc = InitSpec /\ vars # Unresolved
    /\ ws.status.phase = "Planned" =>
          /\ PlanJob.state = "succeeded"
          /\ pc \notin {"deletePlan", "deleteApply", "createPlan"}
          /\ pc = "status" =>
                write.phase = "Planned" \/ ws.ann.decision # "" \/ ApplyJob # NoJob
    /\ pc \in BeforeStatus \cup {"error"} /\ write.phase = "Planned" =>
          pc = "status" /\ PlanJob.state = "succeeded"
LEMMA InitWaits == Unresolved \notin VarStates /\ Init => Waits
<1> SUFFICES ASSUME Unresolved \notin VarStates, Init PROVE Waits
  OBVIOUS
<1>1. ws.spec = InitSpec /\ ws.status.phase = "" /\ pc = "idle" /\ rc = InitSpec
  BY DEF Init, NewWorkspace
<1>2. vars # Unresolved
  BY WorkspaceAssumption DEF Init
<1> QED BY <1>1, <1>2 DEF Waits, BeforeStatus

LEMMA ReconcileWaits ==
    ASSUME TypeOK, Waits, reconcileWorkspace
    PROVE  Waits'
<1>1. Clears /\ (Restarts \/ Plans \/ Approves \/ Succeeds \/ Reports \/ GivesUp)
  BY Branches
<1>2. rc' = ws.spec /\ ws' = ws /\ vars' = vars
  BY <1>1 DEF Clears
<1>3. PlanJob' = PlanJob /\ ApplyJob' = ApplyJob
  <2>1. <<"plan", ws.spec>> \in JobNames /\ <<"apply", ws.spec>> \in JobNames
    BY DEF TypeOK, WorkspaceType, JobNames, Kinds
  <2>2. /\ jobs'[<<"plan", ws.spec>>] = jobs[<<"plan", ws.spec>>]
        /\ jobs'[<<"apply", ws.spec>>] = jobs[<<"apply", ws.spec>>]
    BY <2>1, <1>1 DEF Clears
  <2> QED BY <2>2, <1>2 DEF PlanJob, ApplyJob
<1>4. NoJob.state = "none"
  BY DEF NoJob
<1>5. ASSUME ws.status.phase = "Planned"
      PROVE  /\ pc' \notin {"deletePlan", "deleteApply", "createPlan"}
             /\ pc' = "status" =>
                   write'.phase = "Planned" \/ ws.ann.decision # "" \/ ApplyJob # NoJob
  <2>1. PlanJob.state = "succeeded" /\ PlanJob # NoJob /\ vars # Unresolved
    BY <1>5, <1>4 DEF Waits
  <2>2. ~Restarts /\ ~Plans
    BY <1>5, <2>1 DEF Restarts, Plans
  <2>3. Approves \/ GivesUp => pc' \in {"consume", "createApply", "error", "next"}
    BY DEF Approves, GivesUp
  <2>4. Succeeds => pc' = "status" /\ ApplyJob # NoJob
    BY <1>4 DEF Succeeds
  <2>5. Reports => pc' = "status" /\
                   (write'.phase = "Planned" \/ ws.ann.decision # "" \/ ApplyJob # NoJob)
    BY <1>5, <2>1 DEF Reports
  <2> QED BY <1>1, <2>2, <2>3, <2>4, <2>5
<1>6. pc' \in BeforeStatus \cup {"error"} /\ write'.phase = "Planned" =>
         pc' = "status" /\ PlanJob.state = "succeeded"
  BY <1>1 DEF Restarts, Plans, Approves, Succeeds, Reports, GivesUp, BeforeStatus
<1> QED BY <1>2, <1>3, <1>5, <1>6 DEF Waits

LEMMA WritesWaits ==
    ASSUME TypeOK, Waits, Writes \/ Restart
    PROVE  Waits'
<1>ty. /\ jobs \in [JobNames -> JobType] /\ NoJob.state = "none" /\ ws \in WorkspaceType
       /\ rc = ws.spec /\ ws.spec = InitSpec /\ ws.status \in StatusType /\ vars # Unresolved
       /\ <<"plan", rc>> \in JobNames /\ <<"apply", rc>> \in JobNames
       /\ PlanJob = jobs[<<"plan", rc>>] /\ ApplyJob = jobs[<<"apply", rc>>]
  BY DEF TypeOK, NoJob, WorkspaceType, Waits, JobNames, Kinds, PlanJob, ApplyJob
<1>1. CASE DeleteJob
  <2>1. /\ pc \in {"deletePlan", "deleteApply"} /\ UNCHANGED <<ws, vars, rc, write>>
        /\ pc' \in {"deleteApply", "status"}
    BY <1>1 DEF DeleteJob, Unread, Kinds
  <2>2. ws.status.phase # "Planned"
    BY <2>1 DEF Waits
  <2>3. write.phase # "Planned"
    BY <2>1 DEF Waits, BeforeStatus
  <2> QED BY <2>1, <2>2, <2>3, <1>ty DEF Waits
<1>2. CASE createPlanJob
  <2>1. /\ pc = "createPlan" /\ UNCHANGED <<ws, vars, rc>>
        /\ (pc' = "error" /\ write'.phase = "Failed") \/ (pc' = "status" /\ write' = write)
    BY <1>2 DEF createPlanJob, Unread, Fail
  <2>2. ws.status.phase # "Planned" /\ write.phase # "Planned"
    BY <2>1 DEF Waits, BeforeStatus
  <2> QED BY <2>1, <2>2, <1>ty DEF Waits, BeforeStatus
<1>3. CASE consumeDecision
  <2>f. Fail => pc' = "error" /\ write'.phase = "Failed"
    BY DEF Fail
  <2>1. /\ pc = "consume" /\ UNCHANGED <<vars, rc, jobs>>
        /\ (pc' = "error" /\ write'.phase = "Failed") \/ (pc' = "createApply" /\ write' = write)
        /\ ws' = ws \/ ws' = [ws EXCEPT !.ann.decision = ""]
    BY <1>3, <2>f DEF consumeDecision, cluster
  <2>2. ws'.spec = ws.spec /\ ws'.status = ws.status
    BY <2>1, <1>ty DEF WorkspaceType
  <2>3. write.phase # "Planned"
    BY <2>1 DEF Waits, BeforeStatus
  <2>4. PlanJob' = PlanJob
    BY <2>1, <2>2 DEF PlanJob
  <2> QED BY <2>1, <2>2, <2>3, <2>4, <1>ty DEF Waits, BeforeStatus
<1>4. CASE createApplyJob
  <2> DEFINE job == [state |-> "created", run |-> ApplyRun, commit |-> 0]
  <2>1. /\ pc = "createApply" /\ UNCHANGED <<ws, vars, rc>>
        /\ \/ pc' = "error" /\ jobs' = jobs /\ write'.phase = "Failed"
           \/ /\ pc' = "status" /\ write' = [write EXCEPT !.archive = FALSE]
              /\ jobs' = [jobs EXCEPT ![<<"apply", rc>>] = job]
    BY <1>4 DEF createApplyJob, Fail
  <2>2. write.phase # "Planned" /\ [write EXCEPT !.archive = FALSE].phase = write.phase
    BY <2>1 DEF Waits, BeforeStatus, TypeOK, WriteType
  <2>3. job # NoJob
    BY DEF NoJob
  <2>4. ws.status.phase = "Planned" => PlanJob.state = "succeeded"
    BY DEF Waits
  <2> HIDE DEF job
  <2>5. PlanJob' = PlanJob
    BY <2>1, <1>ty DEF PlanJob
  <2>6. pc' = "status" => ApplyJob' = job
    BY <2>1, <1>ty DEF ApplyJob
  <2> QED BY <2>1, <2>2, <2>3, <2>4, <2>5, <2>6, <1>ty DEF Waits, BeforeStatus
<1>5. CASE updateStatus
  <2>1. /\ pc \in {"status", "error"} /\ pc' \in {"idle", "patch", "next"}
        /\ UNCHANGED <<jobs, vars>> /\ rc' \in {rc, InitSpec}
    BY <1>5 DEF updateStatus, AfterStatus, cluster, Forget
  <2>2. ws' = [ws EXCEPT !.status = StoredStatus] \/ ws' = ws
    BY <1>5 DEF updateStatus
  <2>3. ws'.spec = ws.spec /\ (ws' = ws \/ ws'.status.phase = write.phase)
    BY <2>2, <1>ty DEF WorkspaceType, StoredStatus
  <2>4. ws'.status.phase = "Planned" => PlanJob.state = "succeeded"
    BY <2>1, <2>3 DEF Waits, BeforeStatus
  <2>5. PlanJob' = PlanJob
    BY <2>1, <2>3 DEF PlanJob
  <2> QED BY <2>1, <2>3, <2>4, <2>5, <1>ty DEF Waits, BeforeStatus
<1>6. CASE deleteAnnotations
  <2>f. Fail => pc' = "error" /\ write'.phase = "Failed"
    BY DEF Fail
  <2>1. /\ pc = "patch" /\ UNCHANGED <<jobs, vars, rc>>
        /\ pc' = "next" \/ (pc' = "error" /\ write'.phase = "Failed")
    BY <1>6, <2>f DEF deleteAnnotations, cluster
  <2>2. ws' = ws \/ \E a : ws' = [ws EXCEPT !.ann = a]
    BY <1>6 DEF deleteAnnotations
  <2>3. ws'.spec = ws.spec /\ ws'.status = ws.status
    BY <2>2, <1>ty DEF WorkspaceType
  <2>4. PlanJob' = PlanJob
    BY <2>1, <2>3 DEF PlanJob
  <2> QED BY <2>1, <2>3, <2>4, <1>ty DEF Waits, BeforeStatus
<1>7. CASE updateNextReconcileTime
  <2>1. pc' = "idle" /\ UNCHANGED <<jobs, vars>> /\ rc' = InitSpec
    BY <1>7 DEF updateNextReconcileTime, Forget, cluster
  <2>2. ws' = ws \/ ws' = [ws EXCEPT !.status.next = "future"]
    BY <1>7 DEF updateNextReconcileTime
  <2>3. ws'.spec = ws.spec /\ ws'.status.phase = ws.status.phase
    BY <2>2, <1>ty DEF WorkspaceType, StatusType
  <2>4. PlanJob' = PlanJob
    BY <2>1, <2>3 DEF PlanJob
  <2> QED BY <2>1, <2>3, <2>4, <1>ty DEF Waits, BeforeStatus
<1>8. CASE Restart
  <2>1. pc' = "idle" /\ UNCHANGED <<jobs, vars, ws>> /\ rc' = InitSpec
    BY <1>8 DEF Restart, Forget, cluster
  <2>2. PlanJob' = PlanJob
    BY <2>1 DEF PlanJob
  <2> QED BY <2>1, <2>2, <1>ty DEF Waits, BeforeStatus
<1> QED
  BY <1>1, <1>2, <1>3, <1>4, <1>5, <1>6, <1>7, <1>8 DEF Writes

(* The other writers leave a decision on the object, and the spec as it is     *)
(* where nobody edits it.                                                      *)
LEMMA OthersWait ==
    ASSUME Edits = {}, Unresolved \notin VarStates, TypeOK, Waits, Environment
    PROVE  Waits'
<1>1. UNCHANGED <<jobs, pc, rc, write>> /\ ws'.status.phase = ws.status.phase
  BY OthersQuiet
<1>ty. ws \in WorkspaceType /\ ws.ann \in AnnotationType
  BY DEF TypeOK, WorkspaceType
<1>2. vars' # Unresolved
  BY DEF Environment, ProjectGrant, RefWatcherPoll, decide, decidePatch, RequestReconcile,
         EditSpec, ChangeVariables, PushCommit, ScheduleDue, cluster, Waits
<1>3. ws'.spec = ws.spec /\ (ws'.ann.decision = ws.ann.decision \/ ws'.ann.decision \in Decisions)
  <2>1. CASE ProjectGrant \/ RequestReconcile \/ RefWatcherPoll
    <3>1. \/ ws' = ws \/ ws' = [ws EXCEPT !.ann.exec = TRUE]
          \/ ws' = [ws EXCEPT !.ann.request = TRUE] \/ ws' = [ws EXCEPT !.ann.detected = head]
      BY <2>1 DEF ProjectGrant, RequestReconcile, RefWatcherPoll
    <3>2. ws'.spec = ws.spec
      BY <3>1, <1>ty DEF WorkspaceType
    <3>3. \/ ws'.ann = ws.ann \/ ws'.ann = [ws.ann EXCEPT !.exec = TRUE]
          \/ ws'.ann = [ws.ann EXCEPT !.request = TRUE]
          \/ ws'.ann = [ws.ann EXCEPT !.detected = head]
      BY <3>1, <1>ty DEF WorkspaceType
    <3>4. ws'.ann.decision = ws.ann.decision
      BY <3>3, <1>ty DEF AnnotationType
    <3> QED BY <3>2, <3>4
  <2>2. CASE decide \/ ChangeVariables \/ PushCommit
    BY <2>2 DEF decide, ChangeVariables, PushCommit
  <2>3. CASE decidePatch
    <3>1. PICK d \in Decisions : ws' = [ws EXCEPT !.ann.decision = d] \/ ws' = ws
      BY <2>3 DEF decidePatch
    <3>2. CASE ws' = ws
      BY <3>2
    <3>3. CASE ws' = [ws EXCEPT !.ann.decision = d]
      <4>1. ws'.spec = ws.spec /\ ws'.ann = [ws.ann EXCEPT !.decision = d]
        BY <3>3, <1>ty DEF WorkspaceType
      <4> QED BY <4>1, <1>ty DEF AnnotationType
    <3> QED BY <3>1, <3>2, <3>3
  <2>4. CASE EditSpec
    BY <2>4 DEF EditSpec
  <2>5. CASE ScheduleDue
    <3>1. ws' = [ws EXCEPT !.status.next = "due"]
      BY <2>5 DEF ScheduleDue
    <3> QED BY <3>1, <1>ty DEF WorkspaceType
  <2> QED BY <2>1, <2>2, <2>3, <2>4, <2>5 DEF Environment
<1>4. ws.ann.decision # "" => ws'.ann.decision # ""
  BY <1>3 DEF Decisions
<1>5. PlanJob' = PlanJob /\ ApplyJob' = ApplyJob
  BY <1>1, <1>3 DEF PlanJob, ApplyJob
<1> QED BY <1>1, <1>2, <1>3, <1>4, <1>5 DEF Waits

LEMMA NextWaits ==
    ASSUME Edits = {}, Unresolved \notin VarStates
    PROVE  TypeOK /\ Waits /\ [Next]_vs => Waits'
<1> SUFFICES ASSUME TypeOK, Waits, [Next]_vs PROVE Waits'
  OBVIOUS
<1>1. CASE reconcileWorkspace
  BY <1>1, ReconcileWaits
<1>2. CASE Writes \/ Restart
  BY <1>2, WritesWaits
<1>3. CASE Environment
  BY <1>3, OthersWait
<1>4. CASE Pods
  <2>1. UNCHANGED <<ws, vars, pc, rc, write>>
    BY <1>4, PodsKeepJobs
  <2>2. <<"plan", ws.spec>> \in JobNames /\ <<"apply", ws.spec>> \in JobNames
    BY DEF TypeOK, WorkspaceType, JobNames, Kinds
  <2>3. /\ PlanJob.state = "succeeded" => PlanJob' = PlanJob
        /\ (ApplyJob' = NoJob) <=> (ApplyJob = NoJob)
    BY <1>4, <2>1, <2>2, PodsKeepJobs DEF PlanJob, ApplyJob
  <2> QED BY <2>1, <2>3 DEF Waits
<1>5. CASE UNCHANGED vs
  BY <1>5 DEF vs, cluster, control, Waits, PlanJob, ApplyJob
<1> QED BY <1>1, <1>2, <1>3, <1>4, <1>5 DEF Next

(* A plan that waits for its reviewer waits until there is a decision on the    *)
(* object or an apply that has used one up, or an API call fails: no commit,    *)
(* request, schedule or change of variables ends the wait, with any number of   *)
(* each.  Where the spec is edited there is a new plan to wait for, and         *)
(* variables that do not resolve set Failed.                                    *)
THEOREM PlansWait ==
    ASSUME Edits = {}, Unresolved \notin VarStates
    PROVE  Spec => ParkedPlanWaits
<1>1. TypeOK /\ Waits /\ [Next]_vs =>
        [ (ws.status.phase = "Planned" /\ ws'.status.phase # "Planned") =>
             ws.ann.decision # "" \/ ApplyJob # NoJob \/ pc = "error" ]_vs
  <2> SUFFICES ASSUME TypeOK, Waits, Next, ws.status.phase = "Planned",
                      ws'.status.phase # "Planned"
               PROVE  ws.ann.decision # "" \/ ApplyJob # NoJob \/ pc = "error"
    OBVIOUS
  <2>ty. ws \in WorkspaceType /\ ws.status \in StatusType
    BY DEF TypeOK, WorkspaceType
  <2>1. ~reconcileWorkspace
    <3> SUFFICES ASSUME reconcileWorkspace PROVE FALSE
      OBVIOUS
    <3>1. Clears
      BY Branches
    <3>2. ws' = ws
      BY <3>1 DEF Clears
    <3> QED BY <3>2
  <2>2. ~Environment /\ ~Pods
    BY OthersQuiet, PodsKeepJobs
  <2>3. ~Restart /\ ~DeleteJob /\ ~createPlanJob /\ ~createApplyJob
    BY DEF Restart, DeleteJob, createPlanJob, createApplyJob, Unread
  <2>4. ~consumeDecision
    <3>1. consumeDecision => ws' = ws \/ ws' = [ws EXCEPT !.ann.decision = ""]
      BY DEF consumeDecision
    <3> QED BY <3>1, <2>ty DEF WorkspaceType
  <2>5. ~deleteAnnotations
    <3>1. deleteAnnotations => ws' = ws \/ \E a : ws' = [ws EXCEPT !.ann = a]
      BY DEF deleteAnnotations
    <3> QED BY <3>1, <2>ty DEF WorkspaceType
  <2>6. ~updateNextReconcileTime
    <3>1. updateNextReconcileTime => ws' = ws \/ ws' = [ws EXCEPT !.status.next = "future"]
      BY DEF updateNextReconcileTime
    <3>2. updateNextReconcileTime => ws'.status = ws.status
                                     \/ ws'.status = [ws.status EXCEPT !.next = "future"]
      BY <3>1, <2>ty DEF WorkspaceType
    <3> QED BY <3>2, <2>ty DEF StatusType
  <2>7. updateStatus
    BY <2>1, <2>2, <2>3, <2>4, <2>5, <2>6 DEF Next, Writes
  <2>8. ws' = ws \/ ws' = [ws EXCEPT !.status = StoredStatus]
    BY <2>7 DEF updateStatus
  <2>9. pc \in {"status", "error"} /\ write.phase # "Planned"
    BY <2>7, <2>8, <2>ty DEF updateStatus, WorkspaceType, StoredStatus
  <2> QED BY <2>9 DEF Waits
<1> QED
  BY <1>1, TypeCorrect, InitWaits, NextWaits, PTL DEF Spec, ParkedPlanWaits
=============================================================================
