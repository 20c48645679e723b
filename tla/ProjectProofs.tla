--------------------------- MODULE ProjectProofs ---------------------------
(***************************************************************************)
(* For any Workspaces, strategies and number of inputs and faults: levels   *)
(* are kept by whatever runs with the permission of the Rollout.            *)
(***************************************************************************)
EXTENDS Project, WellFoundedInduction, TLAPS

\* Every leaf is tried with Zenon first and, when that fails, with the SMT solver.
USE ZenonT(10), SMTT(30)

NotBegun == {"", "Pending"}

\* A grant still to be written was decided when all earlier levels were done.
GrantsCleared == \A w \in grants : cleared[w]

\* A permission the Rollout gave is there, and its Workspace, unless it has begun
\* or is about to drop the permission, is cleared.
RolloutsOwn ==
    \A w \in Workspaces :
        by[w] = "rollout" =>
            /\ ws[w].exec
            /\ ws[w].phase \in NotBegun /\ "exec" \notin ws[w].keys => cleared[w]

IInv == PTypeOK /\ GrantsCleared /\ RolloutsOwn
-----------------------------------------------------------------------------
(* Levels.                                                                  *)

\* A set of numbers that is not empty has a minimum.
LEMMA Minimum ==
    ASSUME NEW S \in SUBSET Nat, S # {}
    PROVE  Min(S) \in S /\ \A y \in S : Min(S) <= y
<1>1. PICK x \in S : \A y \in S : ~ (<<y, x>> \in OpToRel(<, Nat))
  BY WFMin, NatLessThanWellFounded
<1>2. \A y \in Nat : y < x => <<y, x>> \in OpToRel(<, Nat)
  BY DEF OpToRel
<1>3. \A y \in S : x <= y
  <2>1. ASSUME NEW y \in S PROVE x <= y
    <3>1. x \in Nat /\ y \in Nat /\ ~ (y < x)
      BY <1>1, <1>2
    <3>q. QED
      BY <3>1
  <2>q. QED
    BY <2>1
<1>q. QED
  BY <1>3 DEF Min

\* The steps of a strategy are numbered from one.
LEMMA StepNumbers ==
    ASSUME TypeOK
    PROVE  /\ DOMAIN steps = 1 .. Len(steps) /\ Len(steps) \in Nat
           /\ LevelStarts \subseteq DOMAIN steps /\ PendingLevels \subseteq LevelStarts
           /\ EmptySteps \subseteq DOMAIN steps
<1>1. steps \in Seq(SUBSET Workspaces)
  BY RolloutAssumption DEF TypeOK
<1>q. QED
  BY <1>1 DEF LevelStarts, PendingLevels, EmptySteps

\* The current level is the first step that selects a Workspace with work, not just the
\* first level that does: the steps of one level select the same Workspaces.
LEMMA CurrentIsFirst ==
    ASSUME TypeOK, PendingLevels # {}
    PROVE  /\ currentLevel \in PendingLevels
           /\ \A i \in DOMAIN steps : i < currentLevel => \A u \in Selected(i) : ~hasPendingWork(u)
<1>0. /\ DOMAIN steps = 1 .. Len(steps) /\ Len(steps) \in Nat
      /\ LevelStarts \subseteq DOMAIN steps /\ PendingLevels \subseteq LevelStarts
  BY StepNumbers
<1>1. currentLevel \in PendingLevels /\ \A j \in PendingLevels : currentLevel <= j
  <2>1. PendingLevels \in SUBSET Nat
    BY <1>0
  <2>q. QED
    BY <2>1, Minimum DEF currentLevel
<1> DEFINE Busy == {i \in DOMAIN steps : \E u \in Selected(i) : hasPendingWork(u)}
<1>2. ASSUME NEW i \in DOMAIN steps, i < currentLevel, NEW u \in Selected(i), hasPendingWork(u)
      PROVE  FALSE
  <2>1. Busy \in SUBSET Nat /\ i \in Busy
    BY <1>0, <1>2
  <2>2. Min(Busy) \in Busy /\ \A y \in Busy : Min(Busy) <= y
    BY <2>1, Minimum
  <2>3. PICK m \in Busy : \A y \in Busy : m <= y
    BY <2>2
  <2>4. m \in Nat /\ i \in Nat /\ currentLevel \in Nat /\ m <= i
    BY <1>0, <1>1, <2>1, <2>3
  <2>5. m \in LevelStarts
    <3>1. CASE m = 1
      BY <3>1, <2>3 DEF LevelStarts
    <3>2. CASE m # 1 /\ Selected(m) = Selected(m - 1)
      <4>1. m - 1 \in DOMAIN steps
        BY <1>0, <2>3, <2>4, <3>2
      <4>2. m - 1 \in Busy
        BY <2>3, <3>2, <4>1
      <4>q. QED
        BY <2>3, <2>4, <4>2
    <3>3. CASE Selected(m) # Selected(m - 1)
      BY <2>3, <3>3 DEF LevelStarts
    <3>q. QED
      BY <3>1, <3>2, <3>3
  <2>6. m \in PendingLevels
    BY <2>3, <2>5 DEF PendingLevels
  <2>q. QED
    BY <1>1, <1>2, <2>4, <2>6
<1>q. QED
  BY <1>1, <1>2

\* What reconcileRollout grants has all earlier levels done.
LEMMA GrantedInTurn ==
    ASSUME TypeOK, PendingLevels # {}, NEW w \in Selected(currentLevel)
    PROVE  EarlierDone(w)
<1>1. /\ currentLevel \in DOMAIN steps /\ DOMAIN steps = 1 .. Len(steps) /\ Len(steps) \in Nat
  BY StepNumbers, CurrentIsFirst
<1>2. ASSUME NEW i \in DOMAIN steps, \A j \in 1 .. i : w \notin Selected(j)
      PROVE  i < currentLevel
  BY <1>1, <1>2
<1>q. QED
  BY <1>2, CurrentIsFirst DEF EarlierDone
-----------------------------------------------------------------------------
(* Steps.                                                                   *)

\* What a step does to a Workspace w that runs, or will run, with a permission of the
\* Rollout.
Carries(w) ==
    /\ ws'[w].phase = "Planning" => ws[w].phase = "Planning" \/ ws[w].keys = {}
    /\ by'[w] = "rollout" =>
        /\ ws'[w].exec
        /\ ws'[w].phase \in NotBegun /\ "exec" \notin ws'[w].keys =>
              \/ w \in grants
              \/ /\ by[w] = "rollout"
                 /\ ws[w].phase \in NotBegun /\ "exec" \notin ws[w].keys

\* The part of the type invariant each actor keeps.
WsType == ws \in [Workspaces -> WorkspaceType] /\ by \in [Workspaces -> {"none", "rollout", "project"}]

\* A Workspace that keeps its phase, its permission and what it is about to drop.
LEMMA SameCarries ==
    ASSUME PTypeOK, NEW w \in Workspaces, NEW c \in {"none", "rollout", "project"}, Granted(c),
           RolloutsOwn, ws'[w].phase = ws[w].phase, ws'[w].exec = ws[w].exec, ws'[w].keys = ws[w].keys
    PROVE  Carries(w)
BY DEF PTypeOK, Granted, Carries, RolloutsOwn

\* A step that leaves the permissions and the Workspaces alone.
LEMMA StillCarries ==
    ASSUME RolloutsOwn, UNCHANGED <<ws, by>>
    PROVE  \A w \in Workspaces : Carries(w)
BY DEF Carries, RolloutsOwn

\* Granted records who gave the permissions.
LEMMA GrantedType ==
    ASSUME PTypeOK, NEW c \in {"none", "rollout", "project"}, Granted(c)
    PROVE  by' \in [Workspaces -> {"none", "rollout", "project"}]
BY DEF PTypeOK, Granted

\* A step of the Rollout.
LEMMA RolloutSteps ==
    ASSUME PTypeOK, RolloutsOwn, rolloutReconcile
    PROVE  /\ WsType' /\ \A w \in Workspaces : Carries(w)
           /\ grants' \subseteq grants \/ (UNCHANGED ws /\ \A w \in grants' : EarlierDone(w))
<1>0. /\ TypeOK /\ Granted("rollout") /\ reconcileRollout
      /\ ws \in [Workspaces -> WorkspaceType] /\ grants \subseteq Workspaces
  BY DEF rolloutReconcile, PTypeOK, TypeOK
<1>1. by' \in [Workspaces -> {"none", "rollout", "project"}]
  BY <1>0, GrantedType
<1>2. CASE UNCHANGED ws
  <2>1. \A w \in Workspaces : Carries(w)
    BY <1>0, <1>2, SameCarries
  <2>2. grants' \subseteq grants \/ LevelProgressing
    BY <1>0 DEF reconcileRollout, NoSteps, ReconcileError, NoWorkspacesFound, RolloutCompleted, StepFailed,
                updateStatus, grantPermission, revokePermission, Ends
  <2>3. LevelProgressing => \A w \in grants' : EarlierDone(w)
    BY <1>0, GrantedInTurn DEF LevelProgressing
  <2>q. QED
    BY <1>0, <1>1, <1>2, <2>1, <2>2, <2>3 DEF WsType
<1>3. ASSUME NEW v \in grants, grants' = grants \ {v}, ws' = [ws EXCEPT ![v].exec = TRUE]
      PROVE  WsType' /\ \A w \in Workspaces : Carries(w)
  <2>1. ws' \in [Workspaces -> WorkspaceType] /\ ws'[v].exec /\ ws'[v].phase = ws[v].phase
    BY <1>0, <1>3 DEF WorkspaceType
  <2>2. ASSUME NEW w \in Workspaces PROVE Carries(w)
    <3>1. CASE w = v
      BY <1>3, <2>1, <3>1 DEF Carries
    <3>2. CASE w # v
      <4>1. ws'[w] = ws[w]
        BY <1>0, <1>3, <3>2
      <4>q. QED
        BY <1>0, <4>1, SameCarries
    <3>q. QED
      BY <3>1, <3>2
  <2>q. QED
    BY <1>1, <2>1, <2>2 DEF WsType
<1>4. ASSUME NEW v \in Workspaces, ws' = [ws EXCEPT ![v].exec = FALSE]
      PROVE  WsType' /\ \A w \in Workspaces : Carries(w)
  <2>1. ws' \in [Workspaces -> WorkspaceType] /\ ~ws'[v].exec /\ ws'[v].phase = ws[v].phase
    BY <1>0, <1>4 DEF WorkspaceType
  <2>2. ASSUME NEW w \in Workspaces PROVE Carries(w)
    <3>1. CASE w = v
      BY <1>0, <2>1, <3>1 DEF Carries, Granted
    <3>2. CASE w # v
      <4>1. ws'[w] = ws[w]
        BY <1>0, <1>4, <3>2
      <4>q. QED
        BY <1>0, <4>1, SameCarries
    <3>q. QED
      BY <3>1, <3>2
  <2>q. QED
    BY <1>1, <2>1, <2>2 DEF WsType
<1>5. \/ UNCHANGED ws
      \/ \E v \in grants : grants' = grants \ {v} /\ ws' = [ws EXCEPT ![v].exec = TRUE]
      \/ \E v \in Workspaces : UNCHANGED grants /\ ws' = [ws EXCEPT ![v].exec = FALSE]
  BY <1>0 DEF reconcileRollout, NoSteps, ReconcileError, NoWorkspacesFound, RolloutCompleted, StepFailed,
              LevelProgressing, updateStatus, grantPermission, revokePermission
<1>q. QED
  BY <1>2, <1>3, <1>4, <1>5

\* A step of the Project, and the comings and goings of both.
LEMMA ProjectSteps ==
    ASSUME PTypeOK, RolloutsOwn,
           reconcileProject \/ statusNotFound \/ createRollout \/ deleteRollout \/ deleteProject
    PROVE  /\ WsType' /\ \A w \in Workspaces : Carries(w)
           /\ UNCHANGED grants
<1>0. ws \in [Workspaces -> WorkspaceType] /\ by \in [Workspaces -> {"none", "rollout", "project"}]
  BY DEF PTypeOK, TypeOK
<1>1. \/ UNCHANGED <<ws, by, grants>>
      \/ \E v \in Workspaces : grantParallel(v)
  BY DEF reconcileProject, AddFinalizer, handleDeletion, deferToRollout, defaultParallel, reconcileError,
         statusNotFound, createRollout, deleteRollout, deleteProject, Rest, rollout
<1>2. CASE UNCHANGED <<ws, by, grants>>
  BY <1>0, <1>2, StillCarries DEF WsType
<1>3. ASSUME NEW v \in Workspaces, grantParallel(v)
      PROVE  /\ WsType' /\ \A w \in Workspaces : Carries(w)
             /\ UNCHANGED grants
  <2>1. /\ Granted("project") /\ UNCHANGED grants
        /\ UNCHANGED ws \/ ws' = [ws EXCEPT ![v].exec = TRUE]
    BY <1>3 DEF grantParallel, Rest, rollout
  <2>2. ws' \in [Workspaces -> WorkspaceType]
    <3>1. [ws[v] EXCEPT !.exec = TRUE] \in WorkspaceType
      BY <1>0 DEF WorkspaceType
    <3>2. ws' = ws \/ ws' = [ws EXCEPT ![v] = [ws[v] EXCEPT !.exec = TRUE]]
      BY <2>1
    <3>q. QED
      BY <1>0, <3>1, <3>2
  <2>3. ASSUME NEW w \in Workspaces PROVE Carries(w)
    <3>1. CASE ws'[w] = ws[w]
      BY <2>1, <3>1, SameCarries
    <3>2. CASE ws'[w] # ws[w]
      <4>1. ws'[w] = [ws[w] EXCEPT !.exec = TRUE] /\ ws[w] \in WorkspaceType
        BY <1>0, <2>1, <3>2
      <4>2. CASE ws[w].exec
        BY <3>2, <4>1, <4>2 DEF WorkspaceType
      <4>3. CASE ~ws[w].exec
        <5>1. by'[w] = "project"
          BY <2>1, <4>1, <4>3 DEF Granted, WorkspaceType
        <5>2. ws'[w].phase = ws[w].phase
          BY <4>1 DEF WorkspaceType
        <5>q. QED
          BY <5>1, <5>2 DEF Carries
      <4>q. QED
        BY <4>2, <4>3
    <3>q. QED
      BY <3>1, <3>2
  <2>q. QED
    BY <2>1, <2>2, <2>3, GrantedType DEF WsType
<1>q. QED
  BY <1>1, <1>2, <1>3


\* What Moves does to its Workspace.
LEMMA MovesFields ==
    ASSUME PTypeOK, NEW v \in Workspaces, NEW from, NEW to \in Phases, NEW keys \in SUBSET Keys,
           Moves(v, from, to, keys)
    PROVE  /\ ws' \in [Workspaces -> WorkspaceType]
           /\ \A w \in Workspaces \ {v} : ws'[w] = ws[w]
           /\ ws'[v].phase = to /\ ws'[v].exec = ws[v].exec
           /\ "exec" \in keys /\ ws[v].exec => "exec" \in ws'[v].keys
           /\ ws[v].phase \in from /\ ws[v].keys = {}
<1> DEFINE kept == {k \in keys : CASE k = "exec"     -> ws[v].exec
                                   [] k = "detected" -> ws[v].detected
                                   [] k = "request"  -> ws[v].request}
<1>1. ws \in [Workspaces -> WorkspaceType] /\ ws[v] \in WorkspaceType
  BY DEF PTypeOK, TypeOK
<1>2. kept \in SUBSET Keys /\ ("exec" \in keys /\ ws[v].exec => "exec" \in kept)
  BY DEF Keys
<1>3. /\ ws' = [ws EXCEPT ![v].phase = to, ![v].keys = kept]
      /\ ws[v].phase \in from /\ ws[v].keys = {}
  BY DEF Moves
<1> HIDE DEF kept
<1>4. /\ ws'[v] = [ws[v] EXCEPT !.phase = to, !.keys = kept]
      /\ \A w \in Workspaces \ {v} : ws'[w] = ws[w]
  BY <1>1, <1>3
<1>5. /\ ws'[v].phase = to /\ ws'[v].exec = ws[v].exec /\ ws'[v].keys = kept
      /\ ws'[v] \in WorkspaceType
  BY <1>1, <1>2, <1>4 DEF WorkspaceType
<1>6. ws' \in [Workspaces -> WorkspaceType]
  BY <1>1, <1>3, <1>4, <1>5
<1>q. QED
  BY <1>2, <1>3, <1>4, <1>5, <1>6

\* A Workspace drops the permission it has when it begins anew, and has begun after
\* every other move.
LEMMA MovesCarry ==
    ASSUME PTypeOK, RolloutsOwn, Granted("none"), NEW v \in Workspaces,
           NEW from, NEW to \in Phases, NEW keys \in SUBSET Keys, Moves(v, from, to, keys),
           to \notin NotBegun \/ "exec" \in keys \/ ~ws[v].exec
    PROVE  WsType' /\ \A w \in Workspaces : Carries(w)
<1>0. /\ ws' \in [Workspaces -> WorkspaceType]
      /\ \A w \in Workspaces \ {v} : ws'[w] = ws[w]
      /\ ws'[v].phase = to /\ ws'[v].exec = ws[v].exec
      /\ "exec" \in keys /\ ws[v].exec => "exec" \in ws'[v].keys
  BY MovesFields
<1>1. ASSUME NEW w \in Workspaces PROVE Carries(w)
  <2>1. CASE w # v
    BY <1>0, <2>1, SameCarries
  <2>2. CASE w = v
    <3>1. by'[w] = "rollout" => ws'[w].exec
      BY DEF Granted
    <3>2. ws[w].keys = {}
      BY <2>2 DEF Moves
    <3>q. QED
      BY <1>0, <2>2, <3>1, <3>2 DEF Carries
  <2>q. QED
    BY <2>1, <2>2
<1>q. QED
  BY <1>0, <1>1, GrantedType DEF WsType

\* A step of a Workspace.
LEMMA WorkspaceSteps ==
    ASSUME PTypeOK, RolloutsOwn, NEW v \in Workspaces, Granted("none"),
           \/ reconcileWorkspace(v) \/ createApplyJobIfApproved(v) \/ configurationChanged(v)
           \/ variablesUnresolved(v) \/ workArrives(v) \/ createWorkspace(v)
    PROVE  WsType' /\ \A w \in Workspaces : Carries(w)
<1>0. ws \in [Workspaces -> WorkspaceType] /\ ws[v] \in WorkspaceType
  BY DEF PTypeOK, TypeOK
<1>1. CASE startFreshCycle(v) \/ configurationChanged(v)
  <2>1. PICK from : Moves(v, from, "Pending", {"exec"})
    BY <1>1 DEF startFreshCycle, configurationChanged
  <2>q. QED
    BY <2>1, MovesCarry DEF Phases, Keys
<1>b. ASSUME NEW from, NEW to \in {"Planning", "Planned", "Applying", "Applied", "Failed", "Rejected"},
             NEW keys \in SUBSET Keys, Moves(v, from, to, keys)
      PROVE  WsType' /\ \A w \in Workspaces : Carries(w)
  <2>1. to \in Phases /\ to \notin NotBegun
    BY <1>b DEF Phases, NotBegun
  <2>q. QED
    BY <1>b, <2>1, MovesCarry
<1>2. CASE awaitRollout(v)
  <2>1. ~ws[v].exec /\ Moves(v, {""}, "Pending", {})
    BY <1>2 DEF awaitRollout
  <2>2. "Pending" \in Phases /\ {} \in SUBSET Keys
    BY DEF Phases
  <2>q. QED
    BY <2>1, <2>2, MovesCarry
<1>3. CASE reconcilePlanJob(v)
  <2>1. \/ Moves(v, {"", "Pending"}, "Planning", {})
        \/ Moves(v, {"Planning"}, "Failed", {"exec", "request"})
        \/ Moves(v, {"Planning"}, "Planned", {})
        \/ Moves(v, {"Planning"}, "Applying", {})
    BY <1>3 DEF reconcilePlanJob
  <2>2. {} \in SUBSET Keys /\ {"exec", "request"} \in SUBSET Keys
    BY DEF Keys
  <2>q. QED
    BY <1>b, <2>1, <2>2
<1>4. CASE reconcileApplyJob(v) \/ createApplyJobIfApproved(v)
  <2>1. \/ Moves(v, {"Applying"}, "Applied", Keys)
        \/ Moves(v, {"Applying"}, "Failed", {"exec", "request"})
        \/ Moves(v, {"Planned"}, "Applying", {})
        \/ Moves(v, {"Planned"}, "Rejected", Keys)
    BY <1>4 DEF reconcileApplyJob, createApplyJobIfApproved
  <2>2. {} \in SUBSET Keys /\ {"exec", "request"} \in SUBSET Keys /\ Keys \in SUBSET Keys
    BY DEF Keys
  <2>q. QED
    BY <1>b, <2>1, <2>2
<1>5. CASE variablesUnresolved(v)
  <2>1. Moves(v, Phases \ {"Failed"}, "Failed", {})
    BY <1>5 DEF variablesUnresolved
  <2>q. QED
    BY <1>b, <2>1
<1>6. CASE deleteAnnotations(v)
  <2>1. /\ ws' \in [Workspaces -> WorkspaceType]
        /\ \A w \in Workspaces \ {v} : ws'[w] = ws[w]
        /\ ws'[v].phase = ws[v].phase /\ ws'[v].keys = {}
        /\ ws'[v].exec = (ws[v].exec /\ "exec" \notin ws[v].keys)
    BY <1>0, <1>6 DEF deleteAnnotations, WorkspaceType
  <2>2. ASSUME NEW w \in Workspaces PROVE Carries(w)
    <3>1. CASE w # v
      BY <2>1, <3>1, SameCarries
    <3>2. CASE w = v /\ "exec" \in ws[v].keys
      BY <2>1, <3>2 DEF Carries, Granted
    <3>3. CASE w = v /\ "exec" \notin ws[v].keys
      <4>1. ws'[w].exec = ws[w].exec
        BY <1>0, <2>1, <3>3 DEF WorkspaceType
      <4>2. by'[w] = "rollout" => by[w] = "rollout" /\ ws'[w].exec
        BY <4>1, <2>1 DEF Granted, PTypeOK
      <4>q. QED
        BY <2>1, <3>3, <4>2 DEF Carries
    <3>q. QED
      BY <3>1, <3>2, <3>3
  <2>q. QED
    BY <2>1, <2>2, GrantedType DEF WsType
<1>7. CASE workArrives(v)
  <2>1. /\ ws' \in [Workspaces -> WorkspaceType]
        /\ \A w \in Workspaces : /\ ws'[w].phase = ws[w].phase /\ ws'[w].keys = ws[w].keys
                                  /\ ws'[w].exec = ws[w].exec
    <3>1. CASE ws' = [ws EXCEPT ![v].detected = TRUE]
      BY <1>0, <3>1 DEF WorkspaceType
    <3>2. CASE ws' = [ws EXCEPT ![v].request = TRUE]
      BY <1>0, <3>2 DEF WorkspaceType
    <3>q. QED
      BY <1>7, <3>1, <3>2 DEF workArrives
  <2>q. QED
    BY <2>1, SameCarries, GrantedType DEF WsType
<1>8. CASE createWorkspace(v)
  <2>1. /\ ws' \in [Workspaces -> WorkspaceType] /\ ~ws'[v].exec /\ ws'[v].phase # "Planning"
        /\ \A w \in Workspaces \ {v} : ws'[w] = ws[w]
    BY <1>0, <1>8 DEF createWorkspace, NewWorkspace, WorkspaceType, Phases
  <2>2. ASSUME NEW w \in Workspaces PROVE Carries(w)
    <3>1. CASE w # v
      BY <2>1, <3>1, SameCarries
    <3>2. CASE w = v
      BY <2>1, <3>2 DEF Carries, Granted
    <3>q. QED
      BY <3>1, <3>2
  <2>q. QED
    BY <2>1, <2>2, GrantedType DEF WsType
<1>q. QED
  BY <1>1, <1>2, <1>3, <1>4, <1>5, <1>6, <1>7, <1>8 DEF reconcileWorkspace
-----------------------------------------------------------------------------
(* The invariant.                                                           *)

\* Every step keeps the history of the levels.
LEMMA Tracked ==
    ASSUME PNext
    PROVE  Track
BY DEF PNext, WorkspaceStep, rolloutReconcile, reconcileRollout, NoSteps, ReconcileError, NoWorkspacesFound,
       RolloutCompleted, StepFailed, LevelProgressing, updateStatus, grantPermission, revokePermission,
       reconcileProject, AddFinalizer, handleDeletion, deferToRollout, defaultParallel, reconcileError,
       grantParallel, Rest, statusNotFound, createRollout, deleteRollout, deleteProject,
       reconcileWorkspace, startFreshCycle, deleteAnnotations, awaitRollout, reconcilePlanJob,
       reconcileApplyJob, createApplyJobIfApproved, configurationChanged, variablesUnresolved,
       workArrives, createWorkspace

\* Only the Rollout changes what it is going to grant.
LEMMA GrantsOfOthers ==
    ASSUME NEW v \in Workspaces,
           \/ reconcileWorkspace(v) \/ createApplyJobIfApproved(v) \/ configurationChanged(v)
           \/ variablesUnresolved(v) \/ workArrives(v) \/ createWorkspace(v)
    PROVE  UNCHANGED rollout
BY DEF reconcileWorkspace, startFreshCycle, deleteAnnotations, awaitRollout, reconcilePlanJob,
       reconcileApplyJob, createApplyJobIfApproved, configurationChanged, variablesUnresolved,
       workArrives, createWorkspace, Moves

\* Whoever acts: what every step does to the Workspaces and the grants.
LEMMA EveryStep ==
    ASSUME PTypeOK, RolloutsOwn, PNext
    PROVE  /\ WsType' /\ \A w \in Workspaces : Carries(w)
           /\ grants' \subseteq grants \/ (UNCHANGED ws /\ \A w \in grants' : EarlierDone(w))
<1>1. CASE rolloutReconcile
  BY <1>1, RolloutSteps
<1>2. CASE reconcileProject \/ statusNotFound \/ createRollout \/ deleteRollout \/ deleteProject
  BY <1>2, ProjectSteps
<1>3. ASSUME NEW v \in Workspaces, Granted("none"),
             \/ reconcileWorkspace(v) \/ createApplyJobIfApproved(v) \/ configurationChanged(v)
             \/ variablesUnresolved(v) \/ workArrives(v) \/ createWorkspace(v)
      PROVE  /\ WsType' /\ \A w \in Workspaces : Carries(w)
             /\ UNCHANGED grants
  <2>1. UNCHANGED grants
    BY <1>3, GrantsOfOthers DEF rollout
  <2>q. QED
    BY <1>3, <2>1, WorkspaceSteps
<1>q. QED
  BY <1>1, <1>2, <1>3 DEF PNext, WorkspaceStep

RolloutStatus == [phase : {"", "Ready", "Failed", "Applied", "Reconciling"}, step : 0 .. Len(steps) + 1]

\* A reconcile of the Rollout writes the number of a step, or the one after the last.
LEMMA RolloutTypes ==
    ASSUME TypeOK, reconcileRollout
    PROVE  /\ status' \in RolloutStatus /\ write' \in RolloutStatus
           /\ grants' \subseteq Workspaces /\ revokes' \subseteq Workspaces
<1>0. /\ status \in RolloutStatus /\ write \in RolloutStatus
      /\ grants \subseteq Workspaces /\ revokes \subseteq Workspaces
  BY DEF TypeOK, RolloutStatus
<1>n. /\ DOMAIN steps = 1 .. Len(steps) /\ Len(steps) \in Nat
      /\ LevelStarts \subseteq DOMAIN steps /\ PendingLevels \subseteq LevelStarts
      /\ EmptySteps \subseteq DOMAIN steps
  BY StepNumbers
<1>e. ASSUME NEW phase \in {"Ready", "Failed", "Applied", "Reconciling"}, NEW n \in 0 .. Len(steps) + 1
      PROVE  [phase |-> phase, step |-> n] \in RolloutStatus
  BY DEF RolloutStatus
<1>c. PendingLevels # {} => currentLevel \in 0 .. Len(steps) + 1
  BY <1>n, CurrentIsFirst
<1>s. status.step \in 0 .. Len(steps) + 1 /\ Len(steps) + 1 \in 0 .. Len(steps) + 1
  <2>1. status.step \in 0 .. Len(steps) + 1
    BY <1>0 DEF RolloutStatus
  <2>2. Len(steps) + 1 \in 0 .. Len(steps) + 1
    BY <1>n
  <2>q. QED
    BY <2>1, <2>2
<1>1. CASE NoSteps \/ ReconcileError \/ RolloutCompleted \/ StepFailed
  BY <1>0, <1>1, <1>c, <1>e, <1>s DEF NoSteps, ReconcileError, RolloutCompleted, StepFailed, Ends
<1>2. CASE NoWorkspacesFound
  <2>1. EmptySteps \in SUBSET Nat /\ EmptySteps # {}
    BY <1>2, <1>n DEF NoWorkspacesFound
  <2>2. Min(EmptySteps) \in EmptySteps
    BY <2>1, Minimum
  <2>3. Min(EmptySteps) \in 0 .. Len(steps) + 1
    BY <1>n, <2>2
  <2>q. QED
    BY <1>0, <1>2, <1>e, <2>3 DEF NoWorkspacesFound, Ends
<1>3. CASE LevelProgressing
  <2>1. \A i \in DOMAIN steps : Selected(i) \subseteq Workspaces
    <3>1. steps \in Seq(SUBSET Workspaces)
      BY RolloutAssumption DEF TypeOK
    <3>q. QED
      BY <3>1 DEF Selected
  <2>2. currentLevel \in DOMAIN steps
    BY <1>3, <1>n, CurrentIsFirst DEF LevelProgressing
  <2>3. grants' \subseteq Selected(currentLevel) /\ status' = status
        /\ revokes' \subseteq UNION {Selected(j) : j \in LevelStarts \ {currentLevel}}
        /\ write' = [phase |-> "Reconciling", step |-> currentLevel]
    BY <1>3 DEF LevelProgressing
  <2>4. write' \in RolloutStatus
    BY <1>3, <1>c, <1>e, <2>3 DEF LevelProgressing
  <2>5. UNION {Selected(j) : j \in LevelStarts \ {currentLevel}} \subseteq Workspaces
    BY <1>n, <2>1
  <2>q. QED
    BY <1>0, <2>1, <2>2, <2>3, <2>4, <2>5
<1>4. CASE updateStatus \/ \E w \in Workspaces : grantPermission(w) \/ revokePermission(w)
  <2>1. NoStatus \in RolloutStatus
    BY <1>n DEF NoStatus, RolloutStatus
  <2>q. QED
    BY <1>0, <1>4, <2>1 DEF updateStatus, grantPermission, revokePermission
<1>q. QED
  BY <1>1, <1>2, <1>3, <1>4 DEF reconcileRollout

\* The bound on inputs and faults.
LEMMA EventsType ==
    ASSUME TypeOK, PNext
    PROVE  events' \in 0 .. MaxEvents
<1>1. UNCHANGED events \/ Input
  BY DEF PNext, WorkspaceStep, rolloutReconcile, reconcileRollout, NoSteps, ReconcileError, NoWorkspacesFound,
         RolloutCompleted, StepFailed, LevelProgressing, updateStatus, grantPermission, revokePermission,
         reconcileProject, AddFinalizer, handleDeletion, deferToRollout, defaultParallel, reconcileError,
         grantParallel, statusNotFound, createRollout, deleteRollout, deleteProject, Writes, Fault,
         reconcileWorkspace, startFreshCycle, deleteAnnotations, awaitRollout, reconcilePlanJob,
         reconcileApplyJob, createApplyJobIfApproved, configurationChanged, variablesUnresolved,
         workArrives, createWorkspace
<1>q. QED
  <2>1. events \in 0 .. MaxEvents
    BY DEF TypeOK
  <2>2. MaxEvents \in Nat
    BY RolloutAssumption
  <2>q. QED
    BY <1>1, <2>1, <2>2 DEF Input

\* Every step keeps the types.
LEMMA TypeKept ==
    ASSUME PTypeOK, RolloutsOwn, PNext
    PROVE  PTypeOK'
<1>0. TypeOK /\ WsType' /\ Track
  BY EveryStep, Tracked DEF PTypeOK
<1>1. steps' = steps /\ steps' \in Strategies
  BY <1>0 DEF TypeOK, Track
<1>2. cleared' \in [Workspaces -> BOOLEAN]
  <2>1. ASSUME NEW w \in Workspaces
        PROVE  (EarlierDone(w)' \/ (cleared[w] /\ (hasWork(w)' => hasWork(w) \/ w \in grants))) \in BOOLEAN
    OBVIOUS
  <2>q. QED
    BY <1>0, <2>1 DEF Track
<1>3. /\ status' \in RolloutStatus /\ write' \in RolloutStatus
      /\ grants' \subseteq Workspaces /\ revokes' \subseteq Workspaces
  <2>0. /\ status \in RolloutStatus /\ write \in RolloutStatus
        /\ grants \subseteq Workspaces /\ revokes \subseteq Workspaces
    BY <1>0 DEF TypeOK, RolloutStatus
  <2>1. CASE reconcileRollout
    BY <1>0, <2>1, RolloutTypes
  <2>2. CASE UNCHANGED rollout
    BY <2>0, <2>2 DEF rollout
  <2>3. CASE statusNotFound \/ createRollout
    <3>1. NoStatus \in RolloutStatus
      BY <1>0, StepNumbers DEF NoStatus, RolloutStatus
    <3>q. QED
      BY <2>0, <2>3, <3>1 DEF statusNotFound, createRollout
  <2>4. reconcileProject \/ deleteRollout \/ deleteProject => UNCHANGED rollout
    BY DEF reconcileProject, AddFinalizer, handleDeletion, deferToRollout, defaultParallel, reconcileError,
           grantParallel, deleteRollout, deleteProject, Rest
  <2>q. QED
    BY <2>1, <2>2, <2>3, <2>4, GrantsOfOthers DEF PNext, WorkspaceStep, rolloutReconcile
<1>4. /\ exists' \in BOOLEAN
      /\ project' \in {"new", "live", "deleting", "gone"}
      /\ reason' \in {"", "ManagedByRollout", "DefaultParallel", "ReconcileError", "Deleting"}
      /\ pgrants' \subseteq Workspaces
  <2>0. /\ exists \in BOOLEAN
        /\ project \in {"new", "live", "deleting", "gone"}
        /\ reason \in {"", "ManagedByRollout", "DefaultParallel", "ReconcileError", "Deleting"}
        /\ pgrants \subseteq Workspaces
    BY DEF PTypeOK
  <2>1. CASE UNCHANGED pvars
    BY <2>0, <2>1 DEF pvars
  <2>2. CASE reconcileProject
    BY <2>0, <2>2 DEF reconcileProject, AddFinalizer, handleDeletion, deferToRollout, defaultParallel,
                      reconcileError, grantParallel, Writes, Rest
  <2>3. CASE createRollout \/ deleteRollout \/ deleteProject
    BY <2>0, <2>3 DEF createRollout, deleteRollout, deleteProject
  <2>q. QED
    BY <2>1, <2>2, <2>3 DEF PNext, WorkspaceStep, rolloutReconcile, statusNotFound
<1>5. TypeOK'
  BY <1>0, <1>1, <1>2, <1>3, EventsType DEF TypeOK, WsType, RolloutStatus
<1>q. QED
  BY <1>0, <1>4, <1>5 DEF PTypeOK, WsType

\* The invariant holds at first.
LEMMA InitIInv == PInit => IInv
<1> SUFFICES ASSUME PInit PROVE IInv
  OBVIOUS
<1>1. steps \in Seq(SUBSET Workspaces) /\ MaxEvents \in Nat
  BY RolloutAssumption DEF PInit, Init
<1>2. NoStatus \in [phase : {"", "Ready", "Failed", "Applied", "Reconciling"}, step : 0 .. Len(steps) + 1]
  <2>1. 0 \in 0 .. Len(steps) + 1
    BY <1>1
  <2>q. QED
    BY <2>1 DEF NoStatus
<1>3. ws \in [Workspaces -> WorkspaceType]
  BY DEF PInit, Init, NewWorkspace, WorkspaceType, Phases
<1>4. cleared \in [Workspaces -> BOOLEAN]
  <2>1. \A w \in Workspaces : EarlierDone(w) \in BOOLEAN
    BY DEF EarlierDone
  <2>q. QED
    BY <2>1 DEF PInit, Init
<1>5. TypeOK
  <2>1. /\ steps \in Strategies /\ status = NoStatus /\ write = NoStatus
        /\ grants = {} /\ revokes = {}
    BY DEF PInit, Init
  <2>2. events \in 0 .. MaxEvents
    <3>1. events = 0
      BY DEF PInit, Init
    <3>q. QED
      BY <1>1, <3>1
  <2>3. LET Status == [phase : {"", "Ready", "Failed", "Applied", "Reconciling"}, step : 0 .. Len(steps) + 1]
        IN  status \in Status /\ write \in Status
    BY <1>2, <2>1
  <2>q. QED
    BY <1>3, <1>4, <2>1, <2>2, <2>3 DEF TypeOK
<1>6. PTypeOK
  BY <1>5 DEF PTypeOK, PInit
<1>q. QED
  <2>1. grants = {} /\ \A w \in Workspaces : by[w] # "rollout"
    BY DEF PInit, Init
  <2>q. QED
    BY <1>6, <2>1 DEF IInv, GrantsCleared, RolloutsOwn

\* A Workspace that was cleared stays so while its grant is on the way or its work waits.
LEMMA StaysCleared ==
    ASSUME PTypeOK, Track, NEW w \in Workspaces, cleared[w], w \in grants \/ ws[w].phase \in NotBegun
    PROVE  cleared'[w]
<1>1. w \in grants \/ hasWork(w)
  BY DEF NotBegun, hasWork, hasPendingWork, workspaceFullyApplied, Absent
<1>q. QED
  BY <1>1 DEF Track

\* Every step keeps the invariant.
LEMMA NextIInv == IInv /\ [PNext]_all => IInv'
<1> SUFFICES ASSUME IInv, [PNext]_all PROVE IInv'
  OBVIOUS
<1>1. CASE UNCHANGED all
  BY <1>1 DEF all, vs, pvars, rollout, IInv, PTypeOK, TypeOK, GrantsCleared, RolloutsOwn
<1>2. CASE PNext
  <2>0. /\ PTypeOK /\ GrantsCleared /\ RolloutsOwn /\ Track /\ PTypeOK'
        /\ \A w \in Workspaces : Carries(w)
        /\ grants' \subseteq grants \/ (UNCHANGED ws /\ \A w \in grants' : EarlierDone(w))
        /\ grants \subseteq Workspaces /\ grants' \subseteq Workspaces
    BY <1>2, EveryStep, Tracked, TypeKept DEF IInv, PTypeOK, TypeOK
  <2>1. ASSUME NEW w \in grants' PROVE cleared'[w]
    <3>1. CASE w \in grants
      BY <2>0, <3>1, StaysCleared DEF GrantsCleared
    <3>2. CASE UNCHANGED ws /\ EarlierDone(w)
      <4>1. UNCHANGED <<ws, steps>>
        BY <2>0, <3>2 DEF Track
      <4>2. EarlierDone(w)'
        BY <3>2, <4>1 DEF EarlierDone, Selected, hasPendingWork, workspaceFullyApplied
      <4>q. QED
        BY <2>0, <2>1, <4>2 DEF Track
    <3>q. QED
      BY <2>0, <2>1, <3>1, <3>2
  <2>2. ASSUME NEW w \in Workspaces, by'[w] = "rollout"
        PROVE  /\ ws'[w].exec
               /\ ws'[w].phase \in NotBegun /\ "exec" \notin ws'[w].keys => cleared'[w]
    <3>1. Carries(w)
      BY <2>0
    <3>2. ASSUME ws'[w].phase \in NotBegun, "exec" \notin ws'[w].keys PROVE cleared'[w]
      <4>1. \/ w \in grants
            \/ by[w] = "rollout" /\ ws[w].phase \in NotBegun /\ "exec" \notin ws[w].keys
        BY <2>2, <3>1, <3>2 DEF Carries
      <4>2. cleared[w]
        BY <2>0, <4>1 DEF GrantsCleared, RolloutsOwn
      <4>q. QED
        BY <2>0, <4>1, <4>2, StaysCleared
    <3>q. QED
      BY <2>2, <3>1, <3>2 DEF Carries
  <2>q. QED
    BY <2>0, <2>1, <2>2 DEF IInv, GrantsCleared, RolloutsOwn
<1>q. QED
  BY <1>1, <1>2
-----------------------------------------------------------------------------
(* Theorems.                                                                *)

\* Every variable of the Project, the Rollout and the Workspaces keeps its type; the
\* currentStep a Rollout reports is one of its steps or the one after the last.
THEOREM TypeCorrect == PSpec => []PTypeOK
<1>1. IInv => PTypeOK
  BY DEF IInv
<1>q. QED
  BY InitIInv, NextIInv, <1>1, PTL DEF PSpec

\* Levels are kept: a Workspace that starts to plan with the permission of the Rollout
\* was cleared, for any number of Workspaces, levels, inputs and faults, and however often
\* the Rollout comes and goes.
THEOREM LevelsKept == PSpec => TurnFollowsLevels
<1> DEFINE Turn == \A w \in Workspaces :
                     ws[w].phase \in {"", "Pending"} /\ ws'[w].phase = "Planning" /\ by[w] = "rollout"
                       => cleared[w]
<1>1. ASSUME IInv, [PNext]_all PROVE Turn
  <2>0. PTypeOK /\ RolloutsOwn /\ ws \in [Workspaces -> WorkspaceType]
    BY <1>1 DEF IInv, PTypeOK, TypeOK
  <2> SUFFICES ASSUME NEW w \in Workspaces, ws[w].phase \in {"", "Pending"}, ws'[w].phase = "Planning",
                      by[w] = "rollout"
               PROVE  "exec" \notin ws[w].keys
    BY <2>0 DEF RolloutsOwn, NotBegun
  <2>q. QED
    <3>1. CASE UNCHANGED all
      BY <3>1 DEF all, vs
    <3>2. CASE PNext
      <4>1. Carries(w)
        BY <2>0, <3>2, EveryStep
      <4>q. QED
        BY <4>1 DEF Carries
    <3>q. QED
      BY <1>1, <3>1, <3>2
<1>q. QED
  BY InitIInv, NextIInv, <1>1, PTL DEF PSpec, TurnFollowsLevels
=============================================================================
