--------------------------- MODULE WorkspaceProofs ---------------------------
(***************************************************************************)
(* Proofs about the Workspace, for every set of specs, every set of faults  *)
(* and every bound: its types, that one approval starts at most one apply,  *)
(* and that the execution permission is released after the outcome is       *)
(* stored.                                                                  *)
(***************************************************************************)
EXTENDS Workspace, TLAPS

\* Every leaf is tried with Zenon first and, when that fails, with the SMT solver.
USE ZenonT(10), SMTT(30)

(* What the first step of a reconcile leaves behind has the right types,     *)
(* whatever branch it takes.                                                *)
LEMMA BeginType ==
    ASSUME TypeOK, NEW step \in Steps, NEW phase \in Phases,
           NEW keys \in SUBSET AnnotationKeys, NEW logs \in BOOLEAN,
           NEW m \in WorkspaceType, Begin(step, phase, keys, logs, m)
    PROVE  /\ pc' \in Steps /\ mem' \in WorkspaceType /\ rc' \in Specs
           /\ write' \in WriteType /\ jobs' \in [JobNames -> JobType]
           /\ faults' \in 0 .. MaxFaults /\ torn' \in BOOLEAN
<1>1. ws.spec \in Specs
  BY DEF TypeOK, WorkspaceType
<1>2. NoJob \in JobType
  BY WorkspaceAssumption DEF NoJob, JobType, JobStates
<1>3. faults' \in 0 .. MaxFaults
  BY WorkspaceAssumption DEF Begin, TypeOK
<1>4. jobs' \in [JobNames -> JobType]
  BY <1>2 DEF Begin, TypeOK
<1>5. write' \in WriteType
  BY DEF Begin, WriteType
<1>6. torn' \in BOOLEAN
  BY DEF Begin, TypeOK
<1> QED
  BY <1>1, <1>3, <1>4, <1>5, <1>6 DEF Begin

(* The copy an archiving branch works on is a Workspace.                      *)
LEMMA WithRunOfType ==
    ASSUME TypeOK, NEW job \in JobType
    PROVE  WithRunOf(job) \in WorkspaceType
<1>1. ws \in WorkspaceType /\ job.run \in 0 .. MaxRuns /\ ws.status.run \in 0 .. MaxRuns
  BY DEF TypeOK, JobType, WorkspaceType, StatusType
<1>2. \A r \in 0 .. MaxRuns : [ws EXCEPT !.status.run = r] \in WorkspaceType
  BY <1>1 DEF WorkspaceType, StatusType
<1> QED
  BY <1>1, <1>2 DEF WithRunOf

(* A branch of reconcileWorkspace whose first step is typed, and that         *)
(* otherwise touches only lastRun, keeps            every type.               *)
LEMMA BranchType ==
    ASSUME TypeOK, NEW step \in Steps, NEW phase \in Phases,
           NEW keys \in SUBSET AnnotationKeys, NEW logs \in BOOLEAN,
           NEW m \in WorkspaceType, Begin(step, phase, keys, logs, m),
           UNCHANGED <<Unread, history>>, lastRun' \in 0 .. MaxRuns
    PROVE  TypeOK'
<1>1. /\ pc' \in Steps /\ mem' \in WorkspaceType /\ rc' \in Specs
      /\ write' \in WriteType /\ jobs' \in [JobNames -> JobType]
      /\ faults' \in 0 .. MaxFaults /\ torn' \in BOOLEAN
  BY BeginType
<1> QED
  BY <1>1 DEF TypeOK, Unread, history

(* Every branch of reconcileWorkspace keeps the types.                       *)
LEMMA ReconcileType == TypeOK /\ reconcileWorkspace => TypeOK'
<1> SUFFICES ASSUME TypeOK, reconcileWorkspace PROVE TypeOK'
  OBVIOUS
<1> USE WorkspaceAssumption
<1>ws. /\ ws \in WorkspaceType /\ ws.status.phase \in Phases /\ ws.spec \in Specs
       /\ ws.status.run \in 0 .. MaxRuns /\ lastRun \in 0 .. MaxRuns
       /\ ws.ann.detected \in 0 .. MaxCommit
       /\ vars \in VarStates
  BY DEF TypeOK, WorkspaceType, StatusType, AnnotationType
<1>jb. PlanJob \in JobType /\ ApplyJob \in JobType
  BY <1>ws DEF TypeOK, PlanJob, ApplyJob, JobNames, Kinds
<1>st. /\ {"deletePlan", "createPlan", "consume", "createApply", "status", "next"} \subseteq Steps
       /\ {"Pending", "Planning", "Planned", "Applying", "Applied",
           "Failed", "ValidationFailed", "Rejected"} \subseteq Phases
       /\ {} \in SUBSET AnnotationKeys /\ {"exec"} \in SUBSET AnnotationKeys
       /\ {"exec", "request"} \in SUBSET AnnotationKeys
       /\ {"exec", "detected", "request"} \in SUBSET AnnotationKeys
       /\ AnnotationKeys \in SUBSET AnnotationKeys
  BY DEF Steps, Phases, AnnotationKeys
<1>wr. WithRunOf(PlanJob) \in WorkspaceType /\ WithRunOf(ApplyJob) \in WorkspaceType
  BY <1>jb, WithRunOfType
<1>1. CASE ReconcileError
  <2>1. NoJob \in JobType
    BY DEF NoJob, JobType, JobStates
  <2>2. jobs' \in [JobNames -> JobType]
    BY <1>1, <2>1 DEF ReconcileError, TypeOK
  <2>3. faults' \in 0 .. MaxFaults
    BY <1>1 DEF ReconcileError, Fault, TypeOK
  <2>4. write' \in WriteType /\ pc' \in Steps
    BY <1>1 DEF ReconcileError, WriteType, Phases, AnnotationKeys, Steps
  <2> QED
    BY <1>1, <1>ws, <2>2, <2>3, <2>4 DEF ReconcileError, TypeOK, Unread, history
<1>2. CASE ReconcileUnresolved
  BY <1>2, <1>ws, <1>st, BranchType DEF ReconcileUnresolved, history
<1>3. CASE startFreshCycle
  <2> DEFINE m == [ws EXCEPT !.status.run = lastRun + 1, !.status.vars = vars]
  <2>0. lastRun < MaxRuns /\ lastRun' = lastRun + 1
    BY <1>3 DEF startFreshCycle
  <2>1. lastRun' \in 0 .. MaxRuns /\ lastRun + 1 \in 0 .. MaxRuns
    BY <2>0, <1>ws
  <2>2. m \in WorkspaceType
    <3> DEFINE w == [ws EXCEPT !.status.run = lastRun + 1]
    <3>1. w \in WorkspaceType
      BY <2>1, <1>ws DEF WorkspaceType, StatusType
    <3>2. m = [w EXCEPT !.status.vars = vars]
      OBVIOUS
    <3> HIDE DEF w
    <3> QED
      BY <3>1, <3>2, <1>ws DEF WorkspaceType, StatusType
  <2>3. (checkCycleNeeded = "ScheduledReconcile") \in BOOLEAN
    OBVIOUS
  <2>4. Begin("deletePlan", "Pending", {"exec"}, checkCycleNeeded = "ScheduledReconcile", m)
    BY <1>3 DEF startFreshCycle
  <2>5. UNCHANGED <<Unread, history>>
    BY <1>3 DEF startFreshCycle
  <2> HIDE DEF m
  <2> QED
    BY <1>st, <2>1, <2>2, <2>3, <2>4, <2>5, BranchType
<1>4. CASE AwaitRollout
  BY <1>4, <1>ws, <1>st, BranchType DEF AwaitRollout, history
<1>5. CASE NotAllowed
  BY <1>5, <1>ws, <1>st, BranchType DEF NotAllowed, history
<1>6. CASE WaitForPreviousJob
  BY <1>6, <1>ws, <1>st, BranchType DEF WaitForPreviousJob, history
<1>7. CASE PlanMissing
  <2> DEFINE r == IF ws.status.run = 0 THEN lastRun + 1 ELSE ws.status.run
             m == [ws EXCEPT !.status.run = r]
  <2>1. lastRun' \in 0 .. MaxRuns /\ r \in 0 .. MaxRuns
    BY <1>7, <1>ws DEF PlanMissing
  <2>2. m \in WorkspaceType
    <3> HIDE DEF r
    <3> QED BY <2>1, <1>ws DEF WorkspaceType, StatusType
  <2>3. Begin("createPlan", "Planning", {}, FALSE, m)
    BY <1>7 DEF PlanMissing
  <2>4. UNCHANGED <<Unread, credit, applied>>
    BY <1>7 DEF PlanMissing
  <2>5. first' \subseteq Runs
    <3>1. first' = first \/ (first' = first \cup {lastRun + 1} /\ lastRun < MaxRuns)
      BY <1>7 DEF PlanMissing
    <3>2. first \subseteq Runs
      BY DEF TypeOK
    <3>3. lastRun < MaxRuns => lastRun + 1 \in Runs
      BY <1>ws DEF Runs
    <3> QED BY <3>1, <3>2, <3>3
  <2> HIDE DEF m
  <2>6. /\ pc' \in Steps /\ mem' \in WorkspaceType /\ rc' \in Specs
        /\ write' \in WriteType /\ jobs' \in [JobNames -> JobType]
        /\ faults' \in 0 .. MaxFaults /\ torn' \in BOOLEAN
    BY <1>st, <2>2, <2>3, BeginType
  <2> QED
    BY <2>1, <2>4, <2>5, <2>6 DEF TypeOK, Unread
<1>8. CASE PlanFailed
  BY <1>8, <1>ws, <1>st, <1>wr, BranchType DEF PlanFailed, history
<1>9. CASE PlanRunning
  BY <1>9, <1>ws, <1>st, BranchType DEF PlanRunning, history
<1>10. CASE RejectPlan
  BY <1>10, <1>ws, <1>st, <1>wr, BranchType DEF RejectPlan, history
<1>11. CASE ParkPlan
  <2>1. (ws.status.phase # "Planned") \in BOOLEAN
    OBVIOUS
  <2>2. (IF ws.status.phase # "Planned" THEN WithRunOf(PlanJob) ELSE ws) \in WorkspaceType
    BY <1>ws, <1>wr
  <2> QED
    BY <1>11, <1>ws, <1>st, <2>1, <2>2, BranchType DEF ParkPlan, history
<1>12. CASE ApprovePlan
  <2>1. (IF ws.ann.decision = "" THEN "createApply" ELSE "consume") \in Steps
    BY <1>st
  <2> QED
    BY <1>12, <1>ws, <1>st, <2>1, BranchType DEF ApprovePlan, history
<1>13. CASE ApplyFailed
  BY <1>13, <1>ws, <1>st, <1>wr, BranchType DEF ApplyFailed, history
<1>14. CASE ApplyRunning
  BY <1>14, <1>ws, <1>st, BranchType DEF ApplyRunning, history
<1>15. CASE handleApplySuccess
  <2> DEFINE o == IF ws.ann.detected # 0 THEN ws.ann.detected ELSE Branch
             m == [WithRunOf(ApplyJob) EXCEPT !.status.observed = o]
  <2>1. o \in Revisions
    BY <1>ws DEF Revisions, Branch
  <2>2. m \in WorkspaceType
    <3> HIDE DEF o
    <3> QED BY <2>1, <1>wr DEF WorkspaceType, StatusType
  <2>3. Begin("status", "Applied", {"exec", "detected", "request"}, TRUE, m)
    BY <1>15 DEF handleApplySuccess
  <2>4. UNCHANGED Unread /\ UNCHANGED lastRun /\ UNCHANGED history
    BY <1>15 DEF handleApplySuccess
  <2> HIDE DEF m
  <2> QED
    BY <1>st, <1>ws, <2>2, <2>3, <2>4, BranchType DEF history
<1> QED
  BY <1>1, <1>2, <1>3, <1>4, <1>5, <1>6, <1>7, <1>8, <1>9, <1>10, <1>11, <1>12, <1>13,
     <1>14, <1>15 DEF reconcileWorkspace

(* Every write of a reconcile, and a restart, keeps the types.               *)
LEMMA WritesType == TypeOK /\ (Writes \/ Restart) => TypeOK'
<1> SUFFICES ASSUME TypeOK, Writes \/ Restart PROVE TypeOK'
  OBVIOUS
<1> USE WorkspaceAssumption
<1>ty. /\ ws \in WorkspaceType /\ mem \in WorkspaceType /\ rc \in Specs /\ write \in WriteType
       /\ ws.status \in StatusType /\ mem.status \in StatusType /\ ws.ann \in AnnotationType
       /\ mem.status.run \in 0 .. MaxRuns
       /\ jobs \in [JobNames -> JobType]
       /\ faults \in 0 .. MaxFaults
  BY DEF TypeOK, WorkspaceType, StatusType
<1>nj. NoJob \in JobType /\ NoWrite \in WriteType /\ NewWorkspace \in WorkspaceType
  BY DEF NoJob, JobType, JobStates, NoWrite, WriteType, Phases, NewWorkspace, WorkspaceType,
         AnnotationType, StatusType, Revisions, Branch, Decisions
<1>nm. <<"plan", rc>> \in JobNames /\ <<"apply", rc>> \in JobNames
  BY <1>ty DEF JobNames, Kinds
<1>ft. ASSUME NEW kind, Fault(kind) PROVE faults' \in 0 .. MaxFaults
  BY <1>ft, <1>ty DEF Fault
<1>fl. Fail => pc' \in Steps /\ write' \in WriteType
  BY DEF Fail, Steps, WriteType, Phases
<1>fg. Forget => mem' \in WorkspaceType /\ rc' \in Specs /\ write' \in WriteType
  BY <1>nj DEF Forget
<1>ar. ASSUME NEW r \in 0 .. MaxRuns, Archive(r)
       PROVE  rows' \in [Runs -> {"absent", "undecided"} \cup Decisions]
  BY <1>ar DEF Archive, TypeOK, Runs
<1>1. CASE DeleteJob
  <2>1. PICK kind \in Kinds :
          /\ pc' = IF kind = "plan" THEN "deleteApply" ELSE "status"
          /\ \/ jobs' = [jobs EXCEPT ![<<kind, rc>>] = NoJob] /\ UNCHANGED faults
             \/ Fault("delete") /\ UNCHANGED jobs
          /\ torn' = (torn \/ (kind = "apply" /\ jobs'[<<kind, rc>>] # NoJob))
          /\ UNCHANGED <<Unread, mem, rc, write, lastRun, history>>
    BY <1>1 DEF DeleteJob
  <2>5. torn' \in BOOLEAN
    BY <2>1 DEF TypeOK
  <2>2. jobs' \in [JobNames -> JobType]
    BY <2>1, <1>ty, <1>nj
  <2>3. faults' \in 0 .. MaxFaults
    BY <2>1, <1>ty, <1>ft
  <2>4. pc' \in Steps
    BY <2>1 DEF Steps
  <2> QED
    BY <2>1, <2>2, <2>3, <2>4, <2>5 DEF TypeOK, Unread, history
<1>2. CASE createPlanJob
  <2>1. jobs' \in [JobNames -> JobType]
    <3> DEFINE job == [state |-> "created", run |-> mem.status.run, commit |-> 0]
    <3>1. job \in JobType
      BY <1>ty DEF JobType, JobStates
    <3>2. jobs' = [jobs EXCEPT ![<<"plan", rc>>] = job] \/ UNCHANGED jobs
      BY <1>2 DEF createPlanJob
    <3> HIDE DEF job
    <3>3. jobs \in [JobNames -> JobType]
      BY DEF TypeOK
    <3> QED
      BY <3>1, <3>2, <3>3
  <2>2. faults' \in 0 .. MaxFaults
    BY <1>2, <1>ty, <1>ft DEF createPlanJob
  <2>3. pc' \in Steps /\ write' \in WriteType
    BY <1>2, <1>ty, <1>fl DEF createPlanJob, Steps
  <2> QED
    BY <1>2, <2>1, <2>2, <2>3 DEF createPlanJob, TypeOK, Unread, history
<1>3. CASE consumeDecision
  <2>1. [ws EXCEPT !.ann.decision = ""] \in WorkspaceType
    BY <1>ty DEF WorkspaceType, AnnotationType
  <2>2. ws' \in WorkspaceType /\ mem' \in WorkspaceType
    BY <1>3, <1>ty, <2>1 DEF consumeDecision
  <2>3. faults' \in 0 .. MaxFaults
    BY <1>3, <1>ty, <1>ft DEF consumeDecision
  <2>4. pc' \in Steps /\ write' \in WriteType
    BY <1>3, <1>ty, <1>fl DEF consumeDecision, Steps
  <2> QED
    BY <1>3, <2>2, <2>3, <2>4 DEF consumeDecision, TypeOK, cluster, history
<1>4. CASE createApplyJob
  <2>1. ApplyRun \in 0 .. MaxRuns
    BY <1>ty, <1>nm DEF ApplyRun, JobType
  <2>2. jobs' \in [JobNames -> JobType] /\ credit' \in Int
    <3> DEFINE job == [state |-> "created", run |-> ApplyRun, commit |-> 0]
    <3>1. job \in JobType
      BY <2>1 DEF JobType, JobStates
    <3>2. \/ jobs' = [jobs EXCEPT ![<<"apply", rc>>] = job]
             /\ credit' = IF rc \in AutoApply THEN credit ELSE credit - 1
          \/ UNCHANGED <<jobs, credit>>
      BY <1>4 DEF createApplyJob
    <3> HIDE DEF job
    <3>3. jobs \in [JobNames -> JobType] /\ credit \in Int
      BY DEF TypeOK
    <3>4. jobs' \in [JobNames -> JobType]
      BY <3>1, <3>2, <3>3
    <3>5. credit' \in Int
      BY <3>2, <3>3
    <3> QED
      BY <3>4, <3>5
  <2>3. mem' \in WorkspaceType
    <3>1. mem' = [mem EXCEPT !.status.run = ApplyRun]
      BY <1>4 DEF createApplyJob
    <3> QED
      BY <3>1, <2>1, <1>ty DEF WorkspaceType, StatusType
  <2>4. faults' \in 0 .. MaxFaults
    BY <1>4, <1>ty, <1>ft DEF createApplyJob
  <2>5. pc' \in Steps /\ write' \in WriteType
    <3>1. [write EXCEPT !.archive = FALSE] \in WriteType
      BY <1>ty DEF WriteType
    <3> QED
      BY <1>4, <3>1, <1>fl DEF createApplyJob, Steps
  <2>6. rows' \in [Runs -> {"absent", "undecided"} \cup Decisions]
    BY <1>4, <2>1, <1>ar DEF createApplyJob
  <2> QED
    BY <1>4, <2>2, <2>3, <2>4, <2>5, <2>6 DEF createApplyJob, TypeOK
<1>5. CASE updateStatus
  <2>1. StoredStatus \in StatusType
    BY <1>ty DEF StoredStatus, StatusType, WriteType
  <2>2. ws' \in WorkspaceType
    BY <1>5, <2>1, <1>ty DEF updateStatus, WorkspaceType
  <2>3. mem' \in WorkspaceType /\ rc' \in Specs /\ write' \in WriteType
    <3>1. [mem EXCEPT !.status = StoredStatus] \in WorkspaceType
      BY <2>1, <1>ty DEF WorkspaceType
    <3> QED
      BY <1>5, <3>1, <1>ty, <1>fg DEF updateStatus
  <2>4. faults' \in 0 .. MaxFaults
    BY <1>5, <1>ty, <1>ft DEF updateStatus
  <2>5. pc' \in Steps
    BY <1>5 DEF updateStatus, AfterStatus, Steps
  <2>6. rows' \in [Runs -> {"absent", "undecided"} \cup Decisions]
    BY <1>5, <1>ty, <1>ar DEF updateStatus
  <2> QED
    BY <1>5, <2>2, <2>3, <2>4, <2>5, <2>6 DEF updateStatus, TypeOK, cluster, history
<1>6. CASE deleteAnnotations
  <2>1. ws' \in WorkspaceType
    <3> DEFINE e == IF Drop("exec")     THEN FALSE ELSE ws.ann.exec
               d == IF Drop("detected") THEN 0     ELSE ws.ann.detected
               q == IF Drop("request")  THEN FALSE ELSE ws.ann.request
               c == IF Drop("decision") THEN ""    ELSE ws.ann.decision
               left == [exec |-> e, detected |-> d, request |-> q, decision |-> c]
    <3>0. /\ ws.ann.exec \in BOOLEAN /\ ws.ann.detected \in 0 .. MaxCommit
          /\ ws.ann.request \in BOOLEAN /\ ws.ann.decision \in Decisions \cup {""}
      BY <1>ty DEF AnnotationType
    <3>e. e \in BOOLEAN /\ q \in BOOLEAN
      BY <3>0
    <3>z. 0 \in 0 .. MaxCommit /\ "" \in Decisions \cup {""}
      OBVIOUS
    <3>d. d \in 0 .. MaxCommit /\ c \in Decisions \cup {""}
      BY <3>0, <3>z
    <3>1. left \in AnnotationType
      <4> HIDE DEF e, d, q, c
      <4> QED BY <3>e, <3>d DEF AnnotationType
    <3>2. ws' = [ws EXCEPT !.ann = left] \/ ws' = ws
      BY <1>6 DEF deleteAnnotations
    <3> HIDE DEF left
    <3> QED
      BY <3>1, <3>2, <1>ty DEF WorkspaceType
  <2>2. faults' \in 0 .. MaxFaults
    BY <1>6, <1>ty, <1>ft DEF deleteAnnotations
  <2>3. pc' \in Steps /\ write' \in WriteType
    BY <1>6, <1>ty, <1>fl DEF deleteAnnotations, Steps
  <2> QED
    BY <1>6, <2>1, <2>2, <2>3 DEF deleteAnnotations, TypeOK, cluster, history
<1>7. CASE updateNextReconcileTime
  <2>1. [ws EXCEPT !.status.next = "future"] \in WorkspaceType
    BY <1>ty DEF WorkspaceType, StatusType
  <2>2. ws' \in WorkspaceType /\ faults' \in 0 .. MaxFaults
    BY <1>7, <2>1, <1>ty, <1>ft DEF updateNextReconcileTime
  <2>3. pc' \in Steps
    BY <1>7 DEF updateNextReconcileTime, Steps
  <2> QED
    BY <1>7, <2>2, <2>3, <1>fg DEF updateNextReconcileTime, TypeOK, cluster, history
<1>8. CASE Restart
  <2>1. pc' \in Steps /\ faults' \in 0 .. MaxFaults
    BY <1>8, <1>ft DEF Restart, Steps
  <2>2. lastSHA' \in Revisions
    BY <1>8, <1>ty DEF Restart, StatusType
  <2> QED
    BY <1>8, <2>1, <2>2, <1>fg DEF Restart, TypeOK, cluster, history
<1> QED
  BY <1>1, <1>2, <1>3, <1>4, <1>5, <1>6, <1>7, <1>8 DEF Writes

(* Every step of the other controllers, of users and of the API keeps the     *)
(* types.                                                                    *)
LEMMA EnvironmentType == TypeOK /\ Environment => TypeOK'
<1> SUFFICES ASSUME TypeOK, Environment PROVE TypeOK'
  OBVIOUS
<1> USE WorkspaceAssumption
<1>ty. /\ ws \in WorkspaceType /\ ws.ann \in AnnotationType /\ ws.status \in StatusType
       /\ head \in 0 .. MaxCommit /\ lastRun + 1 \in 0 .. MaxRuns + 1
       /\ ws.status.run \in 0 .. MaxRuns
  BY DEF TypeOK, WorkspaceType, StatusType, Commits
<1>in. Input => inputs' \in 0 .. MaxInputs
  BY DEF Input, TypeOK
<1>1. CASE ProjectGrant
  <2>1. ws' \in WorkspaceType
    BY <1>1, <1>ty DEF ProjectGrant, WorkspaceType, AnnotationType
  <2> QED
    BY <1>1, <2>1 DEF ProjectGrant, TypeOK, cluster, control, history
<1>2. CASE RefWatcherPoll
  <2>1. [ws EXCEPT !.ann.detected = head] \in WorkspaceType
    BY <1>ty DEF WorkspaceType, AnnotationType
  <2>2. ws' \in WorkspaceType /\ lastSHA' \in Revisions
    BY <1>2, <1>ty, <2>1 DEF RefWatcherPoll, Revisions, Branch, TypeOK
  <2> QED
    BY <1>2, <2>2 DEF RefWatcherPoll, TypeOK, cluster, control, history
<1>3. CASE decide
  <2>1. PICK d \in Decisions :
          /\ rows' = [rows EXCEPT ![ws.status.run] = d]
          /\ decides' = [decides EXCEPT ![d] = @ + 1]
    BY <1>3 DEF decide
  <2>2. rows' \in [Runs -> {"absent", "undecided"} \cup Decisions]
    BY <2>1 DEF TypeOK
  <2>3. decides' \in [Decisions -> Nat]
    BY <2>1 DEF TypeOK
  <2>4. inputs' \in 0 .. MaxInputs
    BY <1>3, <1>in DEF decide
  <2> QED
    BY <1>3, <2>2, <2>3, <2>4 DEF decide, TypeOK, cluster, control, history
<1>4. CASE decidePatch
  <2>1. PICK d \in Decisions :
          /\ decides[d] > 0
          /\ decides' = [decides EXCEPT ![d] = @ - 1]
          /\ \/ /\ ws' = [ws EXCEPT !.ann.decision = d]
                /\ credit' = IF d = "approved" THEN credit + 1 ELSE credit
                /\ UNCHANGED faults
             \/ Fault("api") /\ UNCHANGED <<ws, credit>>
          /\ UNCHANGED <<cluster, lastSHA, rows, control, lastRun, inputs, applied, first>>
    BY <1>4 DEF decidePatch
  <2>2. [ws EXCEPT !.ann.decision = d] \in WorkspaceType
    BY <1>ty DEF WorkspaceType, AnnotationType
  <2>5. ws \in WorkspaceType /\ faults \in 0 .. MaxFaults /\ credit \in Int
    BY DEF TypeOK
  <2>3. ws' \in WorkspaceType /\ faults' \in 0 .. MaxFaults /\ credit' \in Int
    BY <2>1, <2>2, <2>5 DEF Fault
  <2>4. decides' \in [Decisions -> Nat]
    BY <2>1 DEF TypeOK
  <2> QED
    BY <2>1, <2>3, <2>4 DEF TypeOK, cluster, control
<1>5. CASE RequestReconcile
  <2>1. ws' \in WorkspaceType
    BY <1>5, <1>ty DEF RequestReconcile, WorkspaceType, AnnotationType
  <2> QED
    BY <1>5, <2>1, <1>in DEF RequestReconcile, TypeOK, cluster, control, history
<1>6. CASE EditSpec
  <2>1. ws' \in WorkspaceType
    BY <1>6, <1>ty DEF EditSpec, WorkspaceType
  <2> QED
    BY <1>6, <2>1, <1>in DEF EditSpec, TypeOK, cluster, control, history
<1>7. CASE ChangeVariables
  BY <1>7, <1>in DEF ChangeVariables, TypeOK, control, history
<1>8. CASE PushCommit
  BY <1>8 DEF PushCommit, TypeOK, Commits, control, history
<1>9. CASE ScheduleDue
  <2>1. ws' \in WorkspaceType
    BY <1>9, <1>ty DEF ScheduleDue, WorkspaceType, StatusType
  <2> QED
    BY <1>9, <2>1 DEF ScheduleDue, TypeOK, cluster, control, history
<1> QED
  BY <1>1, <1>2, <1>3, <1>4, <1>5, <1>6, <1>7, <1>8, <1>9 DEF Environment

(* Every step of a Job keeps the types.                                      *)
LEMMA PodsType == TypeOK /\ Pods => TypeOK'
<1> SUFFICES ASSUME TypeOK, Pods PROVE TypeOK'
  OBVIOUS
<1> USE WorkspaceAssumption
<1>jb. ASSUME NEW n \in JobNames PROVE jobs[n] \in JobType
  BY DEF TypeOK
<1>nm. ASSUME NEW s \in Specs PROVE <<"plan", s>> \in JobNames /\ <<"apply", s>> \in JobNames
  BY DEF JobNames, Kinds
<1>st. ASSUME NEW n \in JobNames, NEW state \in JobStates, jobs' = [jobs EXCEPT ![n].state = state]
       PROVE  jobs' \in [JobNames -> JobType]
  <2>1. [jobs[n] EXCEPT !.state = state] \in JobType
    BY <1>jb DEF JobType
  <2> QED
    BY <1>st, <2>1 DEF TypeOK
<1>1. CASE JobStarts
  <2>1. jobs' \in [JobNames -> JobType]
    BY <1>1, <1>st DEF JobStarts, JobStates
  <2> QED
    BY <1>1, <2>1 DEF JobStarts, TypeOK, control, history
<1>2. CASE cloneRepository
  <2>1. PICK s \in Specs :
          /\ jobs' = [jobs EXCEPT ![<<"plan", s>>].commit = head]
          /\ source' = jobs[<<"plan", s>>].run
    BY <1>2 DEF cloneRepository
  <2>2. /\ jobs[<<"plan", s>>] \in JobType
        /\ [jobs[<<"plan", s>>] EXCEPT !.commit = head] \in JobType
    <3>1. jobs[<<"plan", s>>] \in JobType
      BY <1>jb, <1>nm
    <3>2. head \in 0 .. MaxCommit
      BY DEF TypeOK, Commits
    <3> QED
      BY <3>1, <3>2 DEF JobType
  <2>3. jobs' \in [JobNames -> JobType] /\ source' \in 0 .. MaxRuns
    BY <2>1, <2>2, <1>nm DEF TypeOK, JobType
  <2> QED
    BY <1>2, <2>3 DEF cloneRepository, TypeOK, control, history
<1>3. CASE terraformPlan
  <2>1. PICK s \in Specs, result \in {"succeeded", "failed"} :
          /\ jobs' = [jobs EXCEPT ![<<"plan", s>>].state = result]
          /\ volume' = [volume EXCEPT ![s] = PlanOf(s)]
    BY <1>3 DEF terraformPlan
  <2>2. jobs' \in [JobNames -> JobType]
    BY <2>1, <1>nm, <1>st DEF JobStates
  <2>3. volume' \in [Specs -> PlanType]
    <3>1. jobs[<<"plan", s>>].run \in 0 .. MaxRuns /\ jobs[<<"plan", s>>].commit \in 0 .. MaxCommit
      BY <1>nm, <1>jb DEF JobType
    <3> QED
      BY <2>1, <3>1 DEF TypeOK, PlanOf, PlanType
  <2> QED
    BY <1>3, <2>2, <2>3 DEF terraformPlan, TypeOK, control, history
<1>4. CASE terraformApply
  <2>1. PICK s \in Specs :
          /\ jobs' = [jobs EXCEPT ![<<"apply", s>>].state = "succeeded"]
          /\ volume' = [volume EXCEPT ![s] = NoPlan]
          /\ source' = 0
          /\ applied' = [spec |-> s, run |-> jobs[<<"apply", s>>].run, commit |-> volume[s].commit]
    BY <1>4 DEF terraformApply
  <2>2. jobs' \in [JobNames -> JobType]
    BY <2>1, <1>nm, <1>st DEF JobStates
  <2>3. volume' \in [Specs -> PlanType]
    BY <2>1, WorkspaceAssumption DEF TypeOK, PlanType, NoPlan
  <2>4. applied' \in PlanType
    BY <2>1, <1>nm, <1>jb DEF TypeOK, JobType, PlanType
  <2>5. source' \in 0 .. MaxRuns
    BY <2>1
  <2> QED
    BY <1>4, <2>2, <2>3, <2>4, <2>5 DEF terraformApply, TypeOK, control
<1>5. CASE JobFails
  <2>1. jobs' \in [JobNames -> JobType]
    BY <1>5, <1>st DEF JobFails, JobStates
  <2>2. source' \in 0 .. MaxRuns
    BY <1>5 DEF JobFails, TypeOK
  <2> QED
    BY <1>5, <2>1, <2>2 DEF JobFails, TypeOK, control, history
<1> QED
  BY <1>1, <1>2, <1>3, <1>4, <1>5 DEF Pods

(* Every variable keeps its type, for every choice of the constants: no step  *)
(* of the controller, of another writer or of a Job takes the object, a Job,  *)
(* the run store or the reconcile's own memory out of the values the code     *)
(* gives them.                                                                *)
THEOREM TypeCorrect == Spec => []TypeOK
<1>1. Init => TypeOK
  <2> SUFFICES ASSUME Init PROVE TypeOK
    OBVIOUS
  <2> USE WorkspaceAssumption
  <2>1. NewWorkspace \in WorkspaceType /\ NoJob \in JobType /\ NoWrite \in WriteType
    BY DEF NoJob, JobType, JobStates, NoWrite, WriteType, Phases, NewWorkspace, WorkspaceType,
           AnnotationType, StatusType, Revisions, Branch, Decisions
  <2>2. ws \in WorkspaceType /\ mem \in WorkspaceType /\ write \in WriteType
        /\ jobs \in [JobNames -> JobType]
    BY <2>1 DEF Init
  <2>3. lastSHA \in Revisions /\ head \in Commits /\ source \in 0 .. MaxRuns
    BY DEF Init, Revisions, Branch, Commits
  <2>4. applied \in PlanType /\ volume \in [Specs -> PlanType]
    BY WorkspaceAssumption DEF Init, NoPlan, PlanType
  <2>5. pc \in Steps /\ rows \in [Runs -> {"absent", "undecided"} \cup Decisions]
    BY DEF Init, Steps
  <2>6. first \subseteq Runs /\ torn \in BOOLEAN
    BY DEF Init
  <2> QED
    BY <2>2, <2>3, <2>4, <2>5, <2>6 DEF Init, TypeOK
<1>2. TypeOK /\ [Next]_vs => TypeOK'
  <2>1. TypeOK /\ UNCHANGED vs => TypeOK'
    BY DEF TypeOK, vs, cluster, control, history
  <2> QED
    BY <2>1, ReconcileType, WritesType, EnvironmentType, PodsType DEF Next
<1> QED
  BY <1>1, <1>2, PTL DEF Spec

-----------------------------------------------------------------------------
(* One approval starts at most one apply.  credit >= 0 is not inductive: a    *)
(* reconcile that is about to create an apply Job for a spec without           *)
(* autoApply has an approval to spend, an approval on the object is still to   *)
(* be spent, and in the step that creates the Job these are two different      *)
(* approvals, the first one having been consumed.                              *)

Spending == pc \in {"consume", "createApply"} /\ rc \notin AutoApply
Approved == ws.ann.decision = "approved"

CreditCovers ==
    /\ credit >= 0
    /\ Approved => credit >= 1
    /\ Spending => credit >= 1
    /\ Spending /\ pc = "createApply" /\ Approved => credit >= 2

(* A step that leads to neither consume nor createApply, and approves nothing. *)
LEMMA LeaveCredit ==
    ASSUME TypeOK, CreditCovers, Approved' => Approved,
           UNCHANGED credit, pc' \notin {"createApply", "consume"}
    PROVE  CreditCovers'
  BY DEF CreditCovers, Spending, TypeOK

(* A step that leaves the reconcile, the decision and credit alone.            *)
LEMMA SameCredit ==
    ASSUME CreditCovers, UNCHANGED <<pc, rc, credit>>, ws'.ann.decision = ws.ann.decision
    PROVE  CreditCovers'
  BY DEF CreditCovers, Spending, Approved

(* Every step keeps enough credit for the tokens.                              *)
LEMMA CreditStep == TypeOK /\ CreditCovers /\ [Next]_vs => CreditCovers'
<1> SUFFICES ASSUME TypeOK, CreditCovers, [Next]_vs PROVE CreditCovers'
  OBVIOUS
<1>ty. /\ ws \in WorkspaceType /\ ws.ann \in AnnotationType /\ credit \in Int
       /\ ws.ann.decision \in {"approved", "rejected", ""}
  BY DEF TypeOK, WorkspaceType, AnnotationType, Decisions
<1>1. CASE reconcileWorkspace
  <2>1. CASE ApprovePlan
    <3>1. /\ UNCHANGED <<ws, credit>> /\ rc' = ws.spec
          /\ pc' = IF ws.ann.decision = "" THEN "createApply" ELSE "consume"
      BY <2>1 DEF ApprovePlan, Begin, Unread, history
    <3>2. ws.spec \in AutoApply \/ ws.ann.decision = "approved"
      BY <2>1 DEF ApprovePlan, isApproved
    <3>3. pc = "idle"
      BY <2>1 DEF ApprovePlan, Begin
    <3> QED
      BY <3>1, <3>2, <3>3, <1>ty DEF CreditCovers, Spending, Approved
  <2>2. CASE ReconcileError
    BY <2>2, LeaveCredit DEF Approved, ReconcileError, Unread, history
  <2>3. CASE startFreshCycle
    <3>1. pc = "idle" /\ pc' = "deletePlan" /\ UNCHANGED <<ws, credit>>
      BY <2>3 DEF startFreshCycle, Begin, Unread, history
    <3> QED
      BY <3>1, LeaveCredit DEF Approved
  <2>4. CASE ReconcileUnresolved \/ AwaitRollout \/ NotAllowed \/ WaitForPreviousJob \/ PlanMissing
    <3>1. pc = "idle" /\ pc' \notin {"createApply", "consume"} /\ UNCHANGED <<ws, credit>>
      BY <2>4 DEF ReconcileUnresolved, AwaitRollout, NotAllowed, WaitForPreviousJob, PlanMissing,
                  Begin, Unread, history
    <3> QED
      BY <3>1, LeaveCredit DEF Approved
  <2>5. CASE PlanFailed \/ PlanRunning \/ RejectPlan \/ ParkPlan
    <3>1. pc = "idle" /\ pc' \notin {"createApply", "consume"} /\ UNCHANGED <<ws, credit>>
      BY <2>5 DEF PlanFailed, PlanRunning, RejectPlan, ParkPlan, Begin, Unread, history
    <3> QED
      BY <3>1, LeaveCredit DEF Approved
  <2>6. CASE ApplyFailed \/ ApplyRunning \/ handleApplySuccess
    <3>1. pc = "idle" /\ pc' \notin {"createApply", "consume"} /\ UNCHANGED <<ws, credit>>
      BY <2>6 DEF ApplyFailed, ApplyRunning, handleApplySuccess, Begin, Unread, history
    <3> QED
      BY <3>1, LeaveCredit DEF Approved
  <2> QED
    BY <1>1, <2>1, <2>2, <2>3, <2>4, <2>5, <2>6 DEF reconcileWorkspace
<1>2. CASE Writes \/ Restart
  <2>1. CASE DeleteJob
    <3>1. UNCHANGED <<ws, credit>> /\ pc' \notin {"createApply", "consume"}
      BY <2>1 DEF DeleteJob, Unread, history
    <3> QED
      BY <3>1, LeaveCredit DEF Approved
  <2>2. CASE createPlanJob
    <3>1. UNCHANGED <<ws, credit>> /\ pc' \notin {"createApply", "consume"}
      BY <2>2 DEF createPlanJob, Fail, Unread, history
    <3> QED
      BY <3>1, LeaveCredit DEF Approved
  <2>3. CASE consumeDecision
    <3>1. CASE ws' = [ws EXCEPT !.ann.decision = ""] /\ pc' = "createApply"
      <4>1. ws'.ann.decision = ""
        BY <3>1, <1>ty DEF WorkspaceType, AnnotationType
      <4>2. pc = "consume" /\ rc' = rc /\ credit' = credit
        BY <2>3 DEF consumeDecision, history
      <4> QED
        BY <4>1, <4>2, <1>ty DEF CreditCovers, Spending, Approved
    <3>2. CASE Fail /\ UNCHANGED <<ws, mem>>
      <4>1. pc' = "error" /\ UNCHANGED <<ws, credit>>
        BY <2>3, <3>2 DEF consumeDecision, Fail, history
      <4> QED
        BY <4>1, <3>2, LeaveCredit DEF Approved
    <3> QED
      BY <2>3, <3>1, <3>2 DEF consumeDecision
  <2>4. CASE createApplyJob
    <3>1. CASE pc' = "status" /\ credit' = IF rc \in AutoApply THEN credit ELSE credit - 1
      <4>1. pc = "createApply" /\ UNCHANGED <<ws, rc>>
        BY <2>4 DEF createApplyJob
      <4>2. (Approved' <=> Approved) /\ ~Spending' /\ (Spending <=> rc \notin AutoApply)
        BY <3>1, <4>1 DEF Approved, Spending
      <4>3. credit \in Int
        BY <1>ty
      <4>4. CASE rc \in AutoApply
        <5>1. credit' = credit
          BY <3>1, <4>4
        <5> QED
          BY <4>2, <4>3, <5>1 DEF CreditCovers
      <4>5. CASE rc \notin AutoApply
        <5>1. credit' = credit - 1 /\ Spending
          BY <3>1, <4>2, <4>5
        <5> QED
          BY <4>1, <4>2, <4>3, <5>1 DEF CreditCovers
      <4> QED
        BY <4>4, <4>5
    <3>2. CASE Fail /\ UNCHANGED credit
      <4>1. pc' = "error" /\ UNCHANGED ws
        BY <2>4, <3>2 DEF createApplyJob, Fail
      <4> QED
        BY <3>2, <4>1, LeaveCredit DEF Approved
    <3> QED
      BY <2>4, <3>1, <3>2 DEF createApplyJob
  <2>5. CASE updateStatus
    <3>1. pc' \notin {"createApply", "consume"} /\ UNCHANGED credit
      BY <2>5 DEF updateStatus, AfterStatus, history
    <3>2. ws'.ann.decision = ws.ann.decision
      BY <2>5, <1>ty DEF updateStatus, WorkspaceType
    <3> QED
      BY <3>1, <3>2, LeaveCredit DEF Approved
  <2>6. CASE deleteAnnotations
    <3>1. pc' \notin {"createApply", "consume"} /\ UNCHANGED credit
      BY <2>6 DEF deleteAnnotations, Fail, history
    <3>2. ws'.ann.decision \in {ws.ann.decision, ""}
      <4> DEFINE left == [exec     |-> IF Drop("exec")     THEN FALSE ELSE ws.ann.exec,
                          detected |-> IF Drop("detected") THEN 0     ELSE ws.ann.detected,
                          request  |-> IF Drop("request")  THEN FALSE ELSE ws.ann.request,
                          decision |-> IF Drop("decision") THEN ""    ELSE ws.ann.decision]
      <4>1. ws' = [ws EXCEPT !.ann = left] \/ ws' = ws
        BY <2>6 DEF deleteAnnotations
      <4>2. left.decision \in {ws.ann.decision, ""}
        OBVIOUS
      <4> HIDE DEF left
      <4> QED
        BY <4>1, <4>2, <1>ty DEF WorkspaceType
    <3> QED
      BY <3>1, <3>2, LeaveCredit DEF Approved
  <2>7. CASE updateNextReconcileTime
    <3>1. pc' \notin {"createApply", "consume"} /\ UNCHANGED credit
      BY <2>7 DEF updateNextReconcileTime, history
    <3>2. ws'.ann.decision = ws.ann.decision
      BY <2>7, <1>ty DEF updateNextReconcileTime, WorkspaceType
    <3> QED
      BY <3>1, <3>2, LeaveCredit DEF Approved
  <2>8. CASE Restart
    BY <2>8, LeaveCredit DEF Approved, Restart, history
  <2> QED
    BY <1>2, <2>1, <2>2, <2>3, <2>4, <2>5, <2>6, <2>7, <2>8 DEF Writes
<1>3. CASE Environment
  <2>1. CASE decidePatch
    <3>1. PICK d \in Decisions :
            \/ /\ ws' = [ws EXCEPT !.ann.decision = d]
               /\ credit' = IF d = "approved" THEN credit + 1 ELSE credit
            \/ UNCHANGED <<ws, credit>>
      BY <2>1 DEF decidePatch
    <3>2. UNCHANGED <<pc, rc>>
      BY <2>1 DEF decidePatch, control
    <3>3. CASE UNCHANGED <<ws, credit>>
      BY <3>2, <3>3, SameCredit
    <3>4. CASE /\ ws' = [ws EXCEPT !.ann.decision = d]
               /\ credit' = IF d = "approved" THEN credit + 1 ELSE credit
      <4>1. ws'.ann.decision = d
        BY <3>4, <1>ty DEF WorkspaceType, AnnotationType
      <4>2. Approved' <=> d = "approved"
        BY <4>1 DEF Approved
      <4>3. (Spending' <=> Spending) /\ pc' = pc
        BY <3>2 DEF Spending
      <4>4. credit \in Int
        BY <1>ty
      <4>5. CASE d = "approved"
        <5>1. credit' = credit + 1 /\ Approved'
          BY <3>4, <4>2, <4>5
        <5> QED
          BY <4>3, <4>4, <5>1 DEF CreditCovers
      <4>6. CASE d # "approved"
        <5>1. credit' = credit /\ ~Approved'
          BY <3>4, <4>2, <4>6
        <5> QED
          BY <4>3, <4>4, <5>1 DEF CreditCovers
      <4> QED
        BY <4>5, <4>6
    <3> QED
      BY <3>1, <3>3, <3>4
  <2>2. CASE ProjectGrant \/ RefWatcherPoll \/ RequestReconcile \/ EditSpec \/ ScheduleDue
    <3>1. ws'.ann.decision = ws.ann.decision
      <4>1. CASE ProjectGrant
        BY <4>1, <1>ty DEF ProjectGrant, WorkspaceType, AnnotationType
      <4>2. CASE RefWatcherPoll
        <5>1. ws' = ws \/ ws' = [ws EXCEPT !.ann.detected = head]
          BY <4>2 DEF RefWatcherPoll
        <5>2. CASE ws' = [ws EXCEPT !.ann.detected = head]
          BY <5>2, <1>ty DEF WorkspaceType, AnnotationType
        <5> QED
          BY <5>1, <5>2
      <4>3. CASE RequestReconcile
        BY <4>3, <1>ty DEF RequestReconcile, WorkspaceType, AnnotationType
      <4>4. CASE EditSpec
        BY <4>4, <1>ty DEF EditSpec, WorkspaceType
      <4>5. CASE ScheduleDue
        BY <4>5, <1>ty DEF ScheduleDue, WorkspaceType
      <4> QED
        BY <2>2, <4>1, <4>2, <4>3, <4>4, <4>5
    <3>2. UNCHANGED <<pc, rc, credit>>
      BY <2>2 DEF ProjectGrant, RefWatcherPoll, RequestReconcile, EditSpec, ScheduleDue,
                  control, history
    <3> QED
      BY <3>1, <3>2, SameCredit
  <2>3. CASE decide \/ ChangeVariables \/ PushCommit
    BY <2>3, SameCredit DEF decide, ChangeVariables, PushCommit, control, history
  <2> QED
    BY <1>3, <2>1, <2>2, <2>3 DEF Environment
<1>4. CASE Pods
  <2>1. UNCHANGED <<ws, pc, rc, credit>>
    BY <1>4 DEF Pods, JobStarts, cloneRepository, terraformPlan, terraformApply, JobFails,
                control, history
  <2> QED
    BY <2>1, SameCredit
<1>5. CASE UNCHANGED vs
  BY <1>5, SameCredit DEF vs, control, history
<1> QED
  BY <1>1, <1>2, <1>3, <1>4, <1>5 DEF Next

(* One approval starts at most one apply, for every choice of the constants:    *)
(* under any interleaving of the controller with decisions, edits, crashes and  *)
(* failed calls, no more applies of specs without autoApply are created than    *)
(* approvals were patched onto the object.                                      *)
THEOREM ApprovalUsedOnceHolds == Spec => []ApprovalUsedOnce
<1>1. Init => CreditCovers
  <2> SUFFICES ASSUME Init PROVE CreditCovers
    OBVIOUS
  <2>1. pc = "idle" /\ credit = 0 /\ ws.ann.decision = ""
    BY DEF Init, NewWorkspace
  <2>2. ~Approved /\ ~Spending
    BY <2>1 DEF Approved, Spending
  <2>3. credit = 0 /\ credit \in Int
    BY DEF Init
  <2> QED
    BY <2>2, <2>3 DEF CreditCovers
<1>2. TypeOK /\ CreditCovers => ApprovalUsedOnce
  BY DEF CreditCovers, ApprovalUsedOnce
<1> QED
  BY <1>1, <1>2, TypeCorrect, CreditStep, PTL DEF Spec

-----------------------------------------------------------------------------
(* The permission is released after the outcome is stored.  The argument       *)
(* follows one reconcile: a branch that will drop annotations carries a        *)
(* settled phase in its pending write, the status write stores that phase, and *)
(* no other actor changes the phase before the patch that drops the            *)
(* permission.  It needs status writes to succeed: updateStatus only logs an   *)
(* error, and the reconcile goes on to the patch.                              *)

Settled(phase) == terminalWorkspaceRunRecorded(phase) \/ phase = "Pending"

BeforeStatus == {"deletePlan", "deleteApply", "createPlan", "consume", "createApply", "status"}

OutcomeFirst ==
    /\ (pc \in BeforeStatus /\ write.keys # {}) => Settled(write.phase)
    /\ pc = "patch" => Settled(ws.status.phase)

(* A step that leaves the reconcile and the phase alone.                       *)
LEMMA SameOutcome ==
    ASSUME OutcomeFirst, UNCHANGED <<pc, write>>, ws'.status.phase = ws.status.phase
    PROVE  OutcomeFirst'
  BY DEF OutcomeFirst, Settled, terminalWorkspaceRunRecorded

(* A branch of reconcileWorkspace: what it is about to write.                  *)
LEMMA BeginOutcome ==
    ASSUME NEW step, NEW phase, NEW keys, NEW logs, NEW m, Begin(step, phase, keys, logs, m),
           step # "patch", keys # {} => Settled(phase)
    PROVE  OutcomeFirst'
<1>1. PICK lost \in BOOLEAN :
        write' = [phase |-> phase, keys |-> keys, archive |-> logs /\ ~lost]
  BY DEF Begin
<1>2. (write'.keys # {} => Settled(write'.phase)) /\ pc' # "patch"
  BY <1>1 DEF Begin
<1> QED
  BY <1>2 DEF OutcomeFirst

(* Every branch of reconcileWorkspace announces a settled phase when it is     *)
(* going to drop annotations, and writes nothing yet.                          *)
LEMMA BranchOutcome ==
    ASSUME reconcileWorkspace
    PROVE  OutcomeFirst' /\ ws' = ws
<1>1. \A phase \in {"Pending", "Failed", "ValidationFailed", "Rejected", "Applied"} : Settled(phase)
  BY DEF Settled, terminalWorkspaceRunRecorded
<1>2. CASE ReconcileError
  BY <1>2 DEF ReconcileError, Unread, OutcomeFirst, BeforeStatus
<1>3. CASE startFreshCycle
  <2>1. UNCHANGED ws
    BY <1>3 DEF startFreshCycle, Unread
  <2>2. PICK logs, m : Begin("deletePlan", "Pending", {"exec"}, logs, m)
    BY <1>3 DEF startFreshCycle
  <2> QED
    BY <1>1, <2>1, <2>2, BeginOutcome
<1>4. CASE ReconcileUnresolved \/ AwaitRollout \/ NotAllowed \/ WaitForPreviousJob \/ PlanRunning
           \/ ApplyRunning
  <2>1. UNCHANGED ws
    BY <1>4 DEF ReconcileUnresolved, AwaitRollout, NotAllowed, WaitForPreviousJob,
                       PlanRunning, ApplyRunning, Unread
  <2>2. PICK phase : Begin("status", phase, {}, FALSE, ws) \/ Begin("next", phase, {}, FALSE, ws)
    BY <1>4 DEF ReconcileUnresolved, AwaitRollout, NotAllowed, WaitForPreviousJob,
                       PlanRunning, ApplyRunning
  <2> QED
    BY <2>1, <2>2, BeginOutcome
<1>5. CASE PlanMissing
  <2>1. UNCHANGED ws
    BY <1>5 DEF PlanMissing, Unread
  <2>2. PICK m : Begin("createPlan", "Planning", {}, FALSE, m)
    BY <1>5 DEF PlanMissing
  <2> QED
    BY <2>1, <2>2, BeginOutcome
<1>6. CASE ParkPlan
  <2>1. UNCHANGED ws
    BY <1>6 DEF ParkPlan, Unread
  <2>2. PICK logs, m : Begin("status", "Planned", {}, logs, m)
    BY <1>6 DEF ParkPlan
  <2> QED
    BY <2>1, <2>2, BeginOutcome
<1>7. CASE ApprovePlan
  <2>1. UNCHANGED ws
    BY <1>7 DEF ApprovePlan, Unread
  <2>2. PICK step \in {"createApply", "consume"} : Begin(step, "Applying", {}, TRUE, ws)
    BY <1>7 DEF ApprovePlan
  <2> QED
    BY <2>1, <2>2, BeginOutcome
<1>8. CASE PlanFailed \/ RejectPlan \/ ApplyFailed \/ handleApplySuccess
  <2>1. UNCHANGED ws
    BY <1>8 DEF PlanFailed, RejectPlan, ApplyFailed, handleApplySuccess, Unread
  <2>2. PICK phase, keys, m : Settled(phase) /\ Begin("status", phase, keys, TRUE, m)
    BY <1>1, <1>8 DEF PlanFailed, RejectPlan, ApplyFailed, handleApplySuccess
  <2> QED
    BY <2>1, <2>2, BeginOutcome
<1> QED
  BY <1>2, <1>3, <1>4, <1>5, <1>6, <1>7, <1>8 DEF reconcileWorkspace

(* Without lost status writes, every step keeps the order and none but the      *)
(* patch of a settled Workspace takes the permission away.                      *)
LEMMA OutcomeStep ==
    ASSUME "status" \notin Faults, TypeOK, OutcomeFirst, [Next]_vs
    PROVE  /\ OutcomeFirst'
           /\ ws.ann.exec /\ ~ws'.ann.exec => Settled(ws.status.phase)
<1>ty. /\ ws \in WorkspaceType /\ ws.ann \in AnnotationType /\ ws.status \in StatusType
       /\ ~Fault("status")
  BY DEF TypeOK, WorkspaceType, Fault
<1>1. CASE reconcileWorkspace
  BY <1>1, BranchOutcome
<1>2. CASE DeleteJob \/ createPlanJob \/ createApplyJob
  <2>1. UNCHANGED ws /\ pc \in BeforeStatus /\ pc' # "patch"
    BY <1>2 DEF DeleteJob, createPlanJob, createApplyJob, Fail, Unread, BeforeStatus
  <2>2. write'.keys = {} \/ (write'.keys = write.keys /\ write'.phase = write.phase)
    <3>1. CASE DeleteJob
      BY <3>1 DEF DeleteJob
    <3>2. CASE createPlanJob
      BY <3>2 DEF createPlanJob, Fail
    <3>3. CASE createApplyJob
      <4>1. write' = [write EXCEPT !.archive = FALSE] \/ Fail
        BY <3>3 DEF createApplyJob
      <4> QED
        BY <4>1 DEF Fail, TypeOK, WriteType
    <3> QED
      BY <1>2, <3>1, <3>2, <3>3
  <2> QED
    BY <2>1, <2>2 DEF OutcomeFirst
<1>3. CASE consumeDecision
  <2>1. pc = "consume" /\ ((pc' = "createApply" /\ UNCHANGED write) \/ pc' = "error")
    BY <1>3 DEF consumeDecision, Fail
  <2>2. ws'.ann.exec = ws.ann.exec
    <3>1. ws' = ws \/ ws' = [ws EXCEPT !.ann.decision = ""]
      BY <1>3 DEF consumeDecision
    <3>2. CASE ws' = [ws EXCEPT !.ann.decision = ""]
      BY <3>2, <1>ty DEF WorkspaceType, AnnotationType
    <3> QED
      BY <3>1, <3>2
  <2> QED
    BY <2>1, <2>2 DEF OutcomeFirst, BeforeStatus
<1>4. CASE updateStatus
  <2>1. ws' = [ws EXCEPT !.status = StoredStatus]
    BY <1>4, <1>ty DEF updateStatus
  <2>2. ws'.ann = ws.ann /\ ws'.status.phase = write.phase
    BY <2>1, <1>ty DEF StoredStatus, WorkspaceType
  <2>3. pc' \in {"idle", "next"} \/ (pc = "status" /\ pc' = "patch" /\ write.keys # {})
    BY <1>4 DEF updateStatus, AfterStatus
  <2> QED
    BY <2>2, <2>3 DEF OutcomeFirst, BeforeStatus
<1>5. CASE deleteAnnotations
  <2>1. pc = "patch" /\ pc' \in {"next", "error"}
    BY <1>5 DEF deleteAnnotations, Fail
  <2> QED
    BY <2>1 DEF OutcomeFirst, BeforeStatus
<1>6. CASE updateNextReconcileTime \/ Restart
  <2>1. pc' = "idle"
    BY <1>6 DEF updateNextReconcileTime, Restart
  <2>2. ws'.ann = ws.ann
    BY <1>6, <1>ty DEF updateNextReconcileTime, Restart, WorkspaceType
  <2> QED
    BY <2>1, <2>2 DEF OutcomeFirst, BeforeStatus
<1>7. CASE Environment
  <2>1. UNCHANGED <<pc, write>>
    BY <1>7 DEF Environment, ProjectGrant, RefWatcherPoll, decide, decidePatch, RequestReconcile,
                EditSpec, ChangeVariables, PushCommit, ScheduleDue, control
  <2>2. /\ ws'.status.phase = ws.status.phase
        /\ ws.ann.exec => ws'.ann.exec
    <3>1. CASE ProjectGrant
      BY <3>1, <1>ty DEF ProjectGrant, WorkspaceType, AnnotationType
    <3>2. CASE RefWatcherPoll
      <4>1. ws' = ws \/ ws' = [ws EXCEPT !.ann.detected = head]
        BY <3>2 DEF RefWatcherPoll
      <4>2. CASE ws' = [ws EXCEPT !.ann.detected = head]
        BY <4>2, <1>ty DEF WorkspaceType, AnnotationType
      <4> QED
        BY <4>1, <4>2
    <3>3. CASE decidePatch
      <4>1. PICK d : ws' = ws \/ ws' = [ws EXCEPT !.ann.decision = d]
        BY <3>3 DEF decidePatch
      <4>2. CASE ws' = [ws EXCEPT !.ann.decision = d]
        BY <4>2, <1>ty DEF WorkspaceType, AnnotationType
      <4> QED
        BY <4>1, <4>2
    <3>4. CASE RequestReconcile
      BY <3>4, <1>ty DEF RequestReconcile, WorkspaceType, AnnotationType
    <3>5. CASE EditSpec
      BY <3>5, <1>ty DEF EditSpec, WorkspaceType
    <3>6. CASE ScheduleDue
      BY <3>6, <1>ty DEF ScheduleDue, WorkspaceType, StatusType
    <3>7. CASE decide \/ ChangeVariables \/ PushCommit
      BY <3>7 DEF decide, ChangeVariables, PushCommit
    <3> QED
      BY <1>7, <3>1, <3>2, <3>3, <3>4, <3>5, <3>6, <3>7 DEF Environment
  <2> QED
    BY <2>1, <2>2, SameOutcome
<1>8. CASE Pods \/ UNCHANGED vs
  <2>1. UNCHANGED <<ws, pc, write>>
    BY <1>8 DEF Pods, JobStarts, cloneRepository, terraformPlan, terraformApply, JobFails,
                control, vs
  <2> QED
    BY <2>1, SameOutcome
<1> QED
  BY <1>1, <1>2, <1>3, <1>4, <1>5, <1>6, <1>7, <1>8 DEF Next, Writes

(* When no status write is lost, the execution permission goes away only after  *)
(* the outcome of the turn is stored, for every choice of the constants: the    *)
(* order of the writes in startFreshCycle and at the three ends of a run holds  *)
(* against every interleaving of edits, polls, decisions, crashes and failed    *)
(* patches.                                                                     *)
THEOREM PermissionOutlivesTurn ==
    ASSUME "status" \notin Faults
    PROVE  Spec => PermissionReleasedAfterOutcome
<1>1. Init => OutcomeFirst
  BY DEF Init, OutcomeFirst, BeforeStatus
<1>2. TypeOK /\ OutcomeFirst /\ [Next]_vs => OutcomeFirst'
  BY OutcomeStep
<1>3. TypeOK /\ OutcomeFirst /\ [Next]_vs
        => [ ws.ann.exec /\ ~ws'.ann.exec =>
               terminalWorkspaceRunRecorded(ws.status.phase) \/ ws.status.phase = "Pending" ]_vs
  BY OutcomeStep DEF Settled
<1> QED
  BY <1>1, <1>2, <1>3, TypeCorrect, PTL DEF Spec, PermissionReleasedAfterOutcome

=============================================================================
