---------------------------- MODULE JobPodProofs ----------------------------
(***************************************************************************)
(* For any number of runs, specs and faults: what an apply pod applies is   *)
(* the plan of its run, and the directories of old runs do not pile up,     *)
(* except for runs whose pods shared the volume with those of another run.  *)
(***************************************************************************)
EXTENDS JobPod, TLAPS

\* Every leaf is tried with Zenon first and, when that fails, with the SMT solver.
USE ZenonT(10), SMTT(30)

planPod(r)  == pods[<<"plan", r>>]
applyPod(r) == pods[<<"apply", r>>]

\* Run r has cleared the volume and has not ended.
Cleared(r) ==
    \/ planPod(r) \in Steps \ {"start"}
    \/ r = cur /\ planPod(r) = "succeeded" /\ applyPod(r) = "none"
    \/ applyPod(r) \in Steps

\* The plan of run r is made and not yet applied.
ToApply(r) ==
    \/ r = cur /\ planPod(r) = "succeeded" /\ applyPod(r) = "none"
    \/ applyPod(r) \in {"start", "terraform", "wait", "apply"}

\* What run r finds on the volume if it is alone there.
Ready(r) ==
    /\ Cleared(r) => \A q \in Runs \ {r} : trees[q] = "absent"
    /\ planPod(r) \in {"terraform", "plan", "show", "policies"} => trees[r] = "cloned"
    /\ planPod(r) \in {"show", "policies"} => planFile[spec[r]] = r
    /\ planPod(r) = "policies" => planJSON[spec[r]] = r
    /\ ToApply(r) => /\ trees[r] = "cloned" /\ planFile[spec[r]] = r
                     /\ r \in bad => r \in unjudged

ApplyFollowsPlan == \A r \in Runs : applyPod(r) # "none" => planPod(r) = "succeeded"
Alone            == \A r \in Runs \ beside : InProgress(r) => \A q \in Runs \ {r} : ~Running(q)
NotYet           == \A r \in Runs : r > cur => planPod(r) = "none" /\ applyPod(r) = "none"
BadOnes          == \A r \in bad : spec[r] \in Validated
AllReady         == \A r \in Runs \ beside : Ready(r)

IInv == TypeOK /\ ApplyFollowsPlan /\ Alone /\ NotYet /\ BadOnes /\ AllReady /\ OwnPlanApplied /\ OneTreeKept

\* The invariant holds at first.
LEMMA InitIInv == Init => IInv
<1> SUFFICES ASSUME Init PROVE IInv
  OBVIOUS
<1> USE JobPodAssumption
<1>1. TypeOK
  BY DEF Init, TypeOK, Runs, Plans, NoPlan, Ended, Trees, Kinds
<1>2. ApplyFollowsPlan /\ NotYet /\ Alone
  BY DEF Init, ApplyFollowsPlan, NotYet, planPod, applyPod, Kinds, Alone, InProgress, Running, Steps, Runs
<1>3. AllReady
  BY DEF Init, AllReady, Ready, Cleared, ToApply, planPod, applyPod, Kinds, Steps
<1>4. BadOnes /\ OwnPlanApplied /\ OneTreeKept
  BY DEF Init, BadOnes, OwnPlanApplied, OneTreeKept
<1> QED
  BY <1>1, <1>2, <1>3, <1>4 DEF IInv

\* What was applied by a run that is alone on the volume.
Own(a) == /\ a.plan = a.run /\ a.tree = "cloned"
          /\ a.run \in bad => a.run \in unjudged

\* A run that a running pod of another one does not disturb: it is not in progress.
LEMMA OtherRuns ==
    ASSUME IInv, Track, cur' = cur,
           NEW s \in Runs, Running(s),
           \A r \in Runs \ {s} : planPod(r)' = planPod(r) /\ applyPod(r)' = applyPod(r)
    PROVE  \A r \in Runs \ {s} : r \notin beside' => Ready(r)'
<1> SUFFICES ASSUME NEW r \in Runs \ {s}, r \notin beside' PROVE Ready(r)'
  OBVIOUS
<1>1. r \notin beside
  BY DEF Track
<1>2. ~InProgress(r)
  BY <1>1 DEF IInv, Alone
<1>3. /\ planPod(r) \notin Steps /\ applyPod(r) \notin Steps
      /\ ~(r = cur /\ planPod(r) = "succeeded" /\ applyPod(r) = "none")
  BY <1>2 DEF InProgress, Running, planPod, applyPod, Kinds
<1>4. ~Cleared(r)' /\ ~ToApply(r)' /\ planPod(r)' \notin Steps
  BY <1>3 DEF Cleared, ToApply, Steps
<1> QED
  BY <1>4 DEF Ready, Steps

\* A step of a pod of run s keeps the invariant if it does so for run s.
LEMMA PodStep ==
    ASSUME IInv, Track, cur' = cur,
           NEW s \in Runs, Running(s), TypeOK',
           \A r \in Runs \ {s} : planPod(r)' = planPod(r) /\ applyPod(r)' = applyPod(r),
           applyPod(s)' # "none" => planPod(s)' = "succeeded",
           s \notin beside' => Ready(s)',
           unjudged \subseteq unjudged',
           \A a \in applied' : a \in applied \/ (a.run = s /\ (s \notin beside => Own(a)')),
           \A q \in Runs \ {s} : trees'[q] \in {trees[q], "absent"},
           s \notin beside /\ trees'[s] # "absent" =>
               trees[s] # "absent" \/ \A q \in Runs \ {s} : trees'[q] = "absent"
    PROVE  IInv'
<1>1. ApplyFollowsPlan'
  BY DEF IInv, ApplyFollowsPlan
<1>2. Alone'
  BY DEF Track, Alone
<1>3. NotYet'
  <2>1. ~(s > cur)
    BY DEF IInv, NotYet, Running, planPod, applyPod, Kinds, Steps
  <2> QED
    BY <2>1 DEF IInv, NotYet
<1>4. BadOnes'
  BY DEF IInv, BadOnes, Track
<1>5. AllReady'
  BY OtherRuns DEF AllReady
<1>6. beside \subseteq beside' /\ bad' = bad
  BY DEF Track
<1>7. OwnPlanApplied'
  <2> SUFFICES ASSUME NEW a \in applied', a.run \notin beside' PROVE Own(a)'
    BY DEF OwnPlanApplied, Own
  <2>1. CASE a \in applied
    BY <2>1, <1>6 DEF IInv, OwnPlanApplied, Own
  <2>2. CASE a.run = s /\ (s \notin beside => Own(a)')
    BY <2>2, <1>6
  <2> QED
    BY <2>1, <2>2
<1>8. OneTreeKept'
  <2> SUFFICES ASSUME NEW q \in Runs \ beside', NEW r \in Runs \ beside',
                      trees'[q] # "absent", trees'[r] # "absent"
               PROVE  q = r
    BY DEF OneTreeKept
  <2>1. q \notin beside /\ r \notin beside
    BY <1>6
  <2>2. trees[q] # "absent" /\ trees[r] # "absent" => q = r
    BY <2>1 DEF IInv, OneTreeKept
  <2> QED
    BY <2>1, <2>2
<1> QED
  BY <1>1, <1>2, <1>3, <1>4, <1>5, <1>7, <1>8 DEF IInv

\* The bound on faults.
LEMMA FaultType ==
    ASSUME faults \in 0 .. MaxFaults
    PROVE  /\ Fault => faults' \in 0 .. MaxFaults
           /\ \A r : FaultOf(r) => faults' \in 0 .. MaxFaults
  BY JobPodAssumption DEF Fault, FaultOf

PodsType == [Kinds \X Runs -> Steps \cup Ended]

\* A pod that goes to its next step changes nothing about the other pods.
LEMMA GoesFacts ==
    ASSUME TypeOK, NEW k \in Kinds, NEW s \in Runs, NEW from \in Steps, NEW to \in Steps \cup Ended,
           Goes(k, s, from, to)
    PROVE  /\ pods' \in PodsType /\ Running(s)
           /\ \A r \in Runs \ {s} : planPod(r)' = planPod(r) /\ applyPod(r)' = applyPod(r)
           /\ k = "plan"  => planPod(s) = from /\ planPod(s)' = to /\ applyPod(s)' = applyPod(s)
           /\ k = "apply" => applyPod(s) = from /\ applyPod(s)' = to /\ planPod(s)' = planPod(s)
<1>1. pods \in PodsType
  BY DEF TypeOK, PodsType
<1>2. pods' \in PodsType
  BY <1>1 DEF PodsType, Goes
<1>3. \A j \in Kinds, r \in Runs : pods'[<<j, r>>] = IF j = k /\ r = s THEN to ELSE pods[<<j, r>>]
  BY <1>1 DEF PodsType, Goes
<1>4. "plan" \in Kinds /\ "apply" \in Kinds
  BY DEF Kinds
<1>5. pods[<<k, s>>] = from
  BY DEF Goes
<1>6. Running(s)
  BY <1>5 DEF Running
<1>7. \A r \in Runs \ {s} : planPod(r)' = planPod(r) /\ applyPod(r)' = applyPod(r)
  BY <1>3, <1>4 DEF planPod, applyPod
<1>8. k = "plan" => planPod(s) = from /\ planPod(s)' = to /\ applyPod(s)' = applyPod(s)
  BY <1>3, <1>4, <1>5 DEF planPod, applyPod
<1>9. k = "apply" => applyPod(s) = from /\ applyPod(s)' = to /\ planPod(s)' = planPod(s)
  BY <1>3, <1>4, <1>5 DEF planPod, applyPod
<1> QED
  BY <1>2, <1>6, <1>7, <1>8, <1>9

\* What a step of the plan pod, and one of the apply pod, of run s is about.
LEMMA PlanGoes ==
    ASSUME IInv, Track, NEW s \in Runs, NEW from \in Steps, NEW to \in Steps \cup Ended,
           Goes("plan", s, from, to)
    PROVE  /\ pods' \in PodsType /\ Running(s)
           /\ \A r \in Runs \ {s} : planPod(r)' = planPod(r) /\ applyPod(r)' = applyPod(r)
           /\ planPod(s) = from /\ planPod(s)' = to
           /\ applyPod(s) = "none" /\ applyPod(s)' = "none"
           /\ s \notin beside' => s \notin beside
           /\ s \notin beside => Ready(s)
<1>1. "plan" \in Kinds
  BY DEF Kinds
<1>2. /\ pods' \in PodsType /\ Running(s)
      /\ \A r \in Runs \ {s} : planPod(r)' = planPod(r) /\ applyPod(r)' = applyPod(r)
      /\ planPod(s) = from /\ planPod(s)' = to /\ applyPod(s)' = applyPod(s)
  BY <1>1, GoesFacts DEF IInv
<1>3. applyPod(s) = "none"
  BY <1>2 DEF IInv, ApplyFollowsPlan, Steps
<1> QED
  BY <1>2, <1>3 DEF Track, IInv, AllReady

\* The same for the apply pod.
LEMMA ApplyGoes ==
    ASSUME IInv, Track, NEW s \in Runs, NEW from \in Steps, NEW to \in (Steps \cup Ended) \ {"none"},
           Goes("apply", s, from, to)
    PROVE  /\ pods' \in PodsType /\ Running(s)
           /\ \A r \in Runs \ {s} : planPod(r)' = planPod(r) /\ applyPod(r)' = applyPod(r)
           /\ applyPod(s) = from /\ applyPod(s)' = to
           /\ planPod(s) = "succeeded" /\ planPod(s)' = "succeeded"
           /\ s \notin beside' => s \notin beside
           /\ s \notin beside => Ready(s)
<1>1. "apply" \in Kinds
  BY DEF Kinds
<1>2. /\ pods' \in PodsType /\ Running(s)
      /\ \A r \in Runs \ {s} : planPod(r)' = planPod(r) /\ applyPod(r)' = applyPod(r)
      /\ applyPod(s) = from /\ applyPod(s)' = to /\ planPod(s)' = planPod(s)
  BY <1>1, GoesFacts DEF IInv
<1>3. planPod(s) = "succeeded"
  BY <1>2 DEF IInv, ApplyFollowsPlan, Steps
<1> QED
  BY <1>2, <1>3 DEF Track, IInv, AllReady

\* clearRuns leaves the directory of no other run.
LEMMA ClearKeeps ==
    ASSUME IInv, NEW s \in Runs, clearRuns(s)
    PROVE  IInv'
<1>1. Goes("plan", s, "start", "clone") /\ Track
  BY DEF clearRuns
<1>2. /\ pods' \in PodsType /\ Running(s)
      /\ \A r \in Runs \ {s} : planPod(r)' = planPod(r) /\ applyPod(r)' = applyPod(r)
      /\ planPod(s) = "start" /\ planPod(s)' = "clone"
      /\ applyPod(s) = "none" /\ applyPod(s)' = "none"
      /\ s \notin beside' => s \notin beside
      /\ s \notin beside => Ready(s)
  BY <1>1, PlanGoes DEF Steps
<1>3. trees' = [q \in Runs |-> IF q = s THEN "made" ELSE "absent"]
  BY DEF clearRuns
<1>4. TypeOK'
  BY <1>2, <1>3 DEF clearRuns, IInv, TypeOK, PodsType, Trees, Track
<1>5. Ready(s)'
  BY <1>2, <1>3 DEF Ready, ToApply, Steps
<1> QED
  BY <1>1, <1>2, <1>3, <1>4, <1>5, PodStep DEF clearRuns

\* The clone makes the tree the plan is made from.
LEMMA CloneKeeps ==
    ASSUME IInv, NEW s \in Runs, cloneRepository(s)
    PROVE  IInv'
<1>1. Goes("plan", s, "clone", "terraform") /\ Track
  BY DEF cloneRepository
<1>2. /\ pods' \in PodsType /\ Running(s)
      /\ \A r \in Runs \ {s} : planPod(r)' = planPod(r) /\ applyPod(r)' = applyPod(r)
      /\ planPod(s) = "clone" /\ planPod(s)' = "terraform"
      /\ applyPod(s) = "none" /\ applyPod(s)' = "none"
      /\ s \notin beside' => s \notin beside
      /\ s \notin beside => Ready(s)
  BY <1>1, PlanGoes DEF Steps
<1>3. trees' = [trees EXCEPT ![s] = "cloned"] /\ trees \in [Runs -> Trees]
  BY DEF cloneRepository, IInv, TypeOK
<1>4. TypeOK'
  BY <1>2, <1>3 DEF cloneRepository, IInv, TypeOK, PodsType, Trees, Track
<1>5. s \notin beside => \A q \in Runs \ {s} : trees[q] = "absent"
  BY <1>2 DEF Ready, Cleared, Steps
<1>6. s \notin beside => Ready(s)'
  BY <1>2, <1>3, <1>5 DEF Ready, ToApply, Steps
<1> QED
  BY <1>1, <1>2, <1>3, <1>4, <1>5, <1>6, PodStep DEF cloneRepository

\* terraform plan writes the plan file of the run.
LEMMA PlanKeeps ==
    ASSUME IInv, NEW s \in Runs, terraformPlan(s)
    PROVE  IInv'
<1> DEFINE to == IF trees[s] = "cloned" THEN "show" ELSE "failed"
<1>1. Goes("plan", s, "plan", to) /\ Track /\ to \in {"show", "failed"}
  BY DEF terraformPlan
<1>2. /\ pods' \in PodsType /\ Running(s)
      /\ \A r \in Runs \ {s} : planPod(r)' = planPod(r) /\ applyPod(r)' = applyPod(r)
      /\ planPod(s) = "plan" /\ planPod(s)' = to
      /\ applyPod(s) = "none" /\ applyPod(s)' = "none"
      /\ s \notin beside' => s \notin beside
      /\ s \notin beside => Ready(s)
  BY <1>1, PlanGoes DEF Steps, Ended
<1>3. trees' = trees /\ planFile' \in [Specs -> Plans]
  BY DEF terraformPlan, IInv, TypeOK, Plans
<1>4. TypeOK'
  BY <1>2, <1>3 DEF terraformPlan, IInv, TypeOK, PodsType, Track
<1>5. to = "show" => planFile'[spec[s]] = s
  BY DEF terraformPlan, IInv, TypeOK
<1>6. s \notin beside => Ready(s)'
  BY <1>1, <1>2, <1>3, <1>5 DEF Ready, Cleared, ToApply, Steps, Track
<1> HIDE DEF to
<1> QED
  BY <1>1, <1>2, <1>3, <1>4, <1>6, PodStep DEF terraformPlan

\* A spec without policies goes past them.
LEMMA NoSelectorKeeps ==
    ASSUME IInv, NEW s \in Runs, noSelector(s)
    PROVE  IInv'
<1>1. Goes("plan", s, "show", "succeeded") /\ Track
  BY DEF noSelector
<1>2. /\ pods' \in PodsType /\ Running(s)
      /\ \A r \in Runs \ {s} : planPod(r)' = planPod(r) /\ applyPod(r)' = applyPod(r)
      /\ planPod(s) = "show" /\ planPod(s)' = "succeeded"
      /\ applyPod(s) = "none" /\ applyPod(s)' = "none"
      /\ s \notin beside' => s \notin beside
      /\ s \notin beside => Ready(s)
  BY <1>1, PlanGoes DEF Steps, Ended
<1>3. trees' = trees /\ planFile' = planFile /\ spec' = spec /\ bad' = bad /\ cur' = cur
  BY DEF noSelector, volume, Track
<1>4. TypeOK'
  BY <1>2 DEF noSelector, IInv, TypeOK, PodsType, Track, volume
<1>5. s \notin bad
  BY DEF noSelector, IInv, BadOnes
<1>6. s \notin beside => Ready(s)'
  BY <1>2, <1>3, <1>5 DEF Ready, Cleared, ToApply, Steps
<1> QED
  BY <1>1, <1>2, <1>3, <1>4, <1>6, PodStep DEF noSelector

\* terraform show writes the plan as JSON.
LEMMA ShowKeeps ==
    ASSUME IInv, NEW s \in Runs, ShowPlanFileRaw(s)
    PROVE  IInv'
<1> DEFINE to == IF planFile[spec[s]] = NoPlan THEN "failed" ELSE "policies"
<1>1. Goes("plan", s, "show", to) /\ Track /\ to \in {"policies", "failed"}
  BY DEF ShowPlanFileRaw
<1>2. /\ pods' \in PodsType /\ Running(s)
      /\ \A r \in Runs \ {s} : planPod(r)' = planPod(r) /\ applyPod(r)' = applyPod(r)
      /\ planPod(s) = "show" /\ planPod(s)' = to
      /\ applyPod(s) = "none" /\ applyPod(s)' = "none"
      /\ s \notin beside' => s \notin beside
      /\ s \notin beside => Ready(s)
  BY <1>1, PlanGoes DEF Steps, Ended
<1>3. trees' = trees /\ planFile' = planFile /\ planJSON' \in [Specs -> Plans]
  BY DEF ShowPlanFileRaw, IInv, TypeOK
<1>4. TypeOK'
  BY <1>2, <1>3 DEF ShowPlanFileRaw, IInv, TypeOK, PodsType, Track
<1>5. to = "policies" => planJSON'[spec[s]] = planFile[spec[s]]
  BY DEF ShowPlanFileRaw, IInv, TypeOK
<1>6. s \notin beside => Ready(s)'
  BY <1>1, <1>2, <1>3, <1>5 DEF Ready, Cleared, ToApply, Steps, Track
<1> HIDE DEF to
<1> QED
  BY <1>1, <1>2, <1>3, <1>4, <1>6, PodStep DEF ShowPlanFileRaw

\* The policies judge the JSON of the run.
LEMMA PoliciesKeep ==
    ASSUME IInv, NEW s \in Runs, validatePolicies(s)
    PROVE  IInv'
<1>1. PICK to \in {"failed", "succeeded"} :
         /\ Goes("plan", s, "policies", to)
         /\ to = "succeeded" => planJSON[spec[s]] \notin bad \/ s \in unjudged'
  BY DEF validatePolicies, parseKyvernoReport
<1>2. /\ pods' \in PodsType /\ Running(s)
      /\ \A r \in Runs \ {s} : planPod(r)' = planPod(r) /\ applyPod(r)' = applyPod(r)
      /\ planPod(s) = "policies" /\ planPod(s)' = to
      /\ applyPod(s) = "none" /\ applyPod(s)' = "none"
      /\ s \notin beside' => s \notin beside
      /\ s \notin beside => Ready(s)
  BY <1>1, PlanGoes DEF Steps, Ended, validatePolicies
<1>3. /\ trees' = trees /\ planFile' = planFile /\ spec' = spec /\ bad' = bad /\ cur' = cur
      /\ unjudged \subseteq unjudged' /\ Track /\ applied' = applied
  BY DEF validatePolicies, volume, Track
<1>4. TypeOK'
  <2>1. faults' \in 0 .. MaxFaults
    BY FaultType DEF validatePolicies, IInv, TypeOK
  <2>2. unjudged' \subseteq Runs
    BY DEF validatePolicies, IInv, TypeOK
  <2> QED
    BY <1>2, <2>1, <2>2 DEF validatePolicies, IInv, TypeOK, PodsType, Track, volume
<1>5. s \notin beside => Ready(s)'
  BY <1>1, <1>2, <1>3 DEF Ready, Cleared, ToApply, Steps
<1> QED
  BY <1>2, <1>3, <1>4, <1>5, PodStep

\* An apply pod looks for the directory of its run.
LEMMA ValidateKeeps ==
    ASSUME IInv, NEW s \in Runs, validateSourceDir(s)
    PROVE  IInv'
<1>1. PICK to \in {"terraform", "failed"} : Goes("apply", s, "start", to)
  BY DEF validateSourceDir
<1>2. /\ Track /\ trees' = trees /\ planFile' = planFile /\ spec' = spec /\ bad' = bad /\ cur' = cur
      /\ unjudged' = unjudged /\ applied' = applied
  BY DEF validateSourceDir, volume, Track
<1>3. /\ pods' \in PodsType /\ Running(s)
      /\ \A r \in Runs \ {s} : planPod(r)' = planPod(r) /\ applyPod(r)' = applyPod(r)
      /\ applyPod(s) = "start" /\ applyPod(s)' = to
      /\ planPod(s) = "succeeded" /\ planPod(s)' = "succeeded"
      /\ s \notin beside' => s \notin beside
      /\ s \notin beside => Ready(s)
  BY <1>1, <1>2, ApplyGoes DEF Steps, Ended
<1>4. TypeOK'
  BY <1>3 DEF validateSourceDir, IInv, TypeOK, PodsType, Track, volume
<1>5. s \notin beside => Ready(s)'
  BY <1>1, <1>2, <1>3 DEF Ready, Cleared, ToApply, Steps
<1> QED
  BY <1>1, <1>2, <1>3, <1>4, <1>5, PodStep

\* A pod that finds or installs terraform.
LEMMA ClientKeeps ==
    ASSUME IInv, NEW s \in Runs, NEW k \in Kinds, NewClientFromInstall(k, s)
    PROVE  IInv'
<1>1. trees' = [trees EXCEPT ![s] = MkdirAll(@)] /\ trees \in [Runs -> Trees]
  BY DEF NewClientFromInstall, IInv, TypeOK
<1>2. /\ Track /\ cur' = cur /\ planFile' = planFile /\ spec' = spec /\ bad' = bad
      /\ unjudged' = unjudged /\ applied' = applied
  BY DEF NewClientFromInstall, Track
<1>3. trees[s] = "cloned" => trees'[s] = "cloned"
  BY <1>1 DEF MkdirAll
<1>4. \A q \in Runs \ {s} : trees'[q] = trees[q]
  BY <1>1
<1>5. trees' \in [Runs -> Trees]
  BY <1>1 DEF Trees, MkdirAll
<1>6. CASE k = "plan"
  <2>1. Goes("plan", s, "terraform", "plan")
    BY <1>6 DEF NewClientFromInstall
  <2>2. /\ pods' \in PodsType /\ Running(s)
        /\ \A r \in Runs \ {s} : planPod(r)' = planPod(r) /\ applyPod(r)' = applyPod(r)
        /\ planPod(s) = "terraform" /\ planPod(s)' = "plan"
        /\ applyPod(s) = "none" /\ applyPod(s)' = "none"
        /\ s \notin beside' => s \notin beside
        /\ s \notin beside => Ready(s)
    BY <2>1, <1>2, PlanGoes DEF Steps
  <2>3. TypeOK'
    BY <2>2, <1>5 DEF NewClientFromInstall, IInv, TypeOK, PodsType, Track
  <2>4. s \notin beside => trees[s] = "cloned"
    BY <2>2 DEF Ready
  <2>5. s \notin beside => Ready(s)'
    BY <2>2, <2>4, <1>2, <1>3, <1>4 DEF Ready, Cleared, ToApply, Steps
  <2> QED
    BY <1>2, <1>4, <2>2, <2>3, <2>4, <2>5, PodStep
<1>7. CASE k = "apply"
  <2>1. Goes("apply", s, "terraform", "wait")
    BY <1>7 DEF NewClientFromInstall
  <2>2. /\ pods' \in PodsType /\ Running(s)
        /\ \A r \in Runs \ {s} : planPod(r)' = planPod(r) /\ applyPod(r)' = applyPod(r)
        /\ applyPod(s) = "terraform" /\ applyPod(s)' = "wait"
        /\ planPod(s) = "succeeded" /\ planPod(s)' = "succeeded"
        /\ s \notin beside' => s \notin beside
        /\ s \notin beside => Ready(s)
    BY <2>1, <1>2, ApplyGoes DEF Steps
  <2>3. TypeOK'
    BY <2>2, <1>5 DEF NewClientFromInstall, IInv, TypeOK, PodsType, Track
  <2>4. s \notin beside => trees[s] = "cloned"
    BY <2>2 DEF Ready, ToApply
  <2>5. s \notin beside => Ready(s)'
    BY <2>2, <2>4, <1>2, <1>3, <1>4 DEF Ready, Cleared, ToApply, Steps
  <2> QED
    BY <1>2, <1>4, <2>2, <2>3, <2>4, <2>5, PodStep
<1> QED
  BY <1>6, <1>7 DEF Kinds

\* An apply pod waits for the plan file.
LEMMA WaitKeeps ==
    ASSUME IInv, NEW s \in Runs, waitForPlanFile(s)
    PROVE  IInv'
<1>1. PICK to \in {"apply", "cleanUpFailed"} : Goes("apply", s, "wait", to)
  BY DEF waitForPlanFile
<1>2. /\ Track /\ trees' = trees /\ planFile' = planFile /\ spec' = spec /\ bad' = bad /\ cur' = cur
      /\ unjudged' = unjudged /\ applied' = applied
  BY DEF waitForPlanFile, volume, Track
<1>3. /\ pods' \in PodsType /\ Running(s)
      /\ \A r \in Runs \ {s} : planPod(r)' = planPod(r) /\ applyPod(r)' = applyPod(r)
      /\ applyPod(s) = "wait" /\ applyPod(s)' = to
      /\ planPod(s) = "succeeded" /\ planPod(s)' = "succeeded"
      /\ s \notin beside' => s \notin beside
      /\ s \notin beside => Ready(s)
  BY <1>1, <1>2, ApplyGoes DEF Steps
<1>4. TypeOK'
  BY <1>3 DEF waitForPlanFile, IInv, TypeOK, PodsType, Track, volume
<1>5. s \notin beside => Ready(s)'
  BY <1>1, <1>2, <1>3 DEF Ready, Cleared, ToApply, Steps
<1> QED
  BY <1>1, <1>2, <1>3, <1>4, <1>5, PodStep

\* An apply pod applies the plan file it finds.
LEMMA ApplyKeeps ==
    ASSUME IInv, NEW s \in Runs, terraformApply(s)
    PROVE  IInv'
<1> DEFINE new == [run |-> s, plan |-> planFile[spec[s]], tree |-> trees[s]]
<1>1. PICK to \in {"remove", "cleanUpFailed"} : Goes("apply", s, "apply", to)
  BY DEF terraformApply
<1>2. /\ Track /\ trees' = trees /\ planFile' = planFile /\ spec' = spec /\ bad' = bad /\ cur' = cur
      /\ unjudged' = unjudged
  BY DEF terraformApply, volume, Track
<1>3. /\ pods' \in PodsType /\ Running(s)
      /\ \A r \in Runs \ {s} : planPod(r)' = planPod(r) /\ applyPod(r)' = applyPod(r)
      /\ applyPod(s) = "apply" /\ applyPod(s)' = to
      /\ planPod(s) = "succeeded" /\ planPod(s)' = "succeeded"
      /\ s \notin beside' => s \notin beside
      /\ s \notin beside => Ready(s)
  BY <1>1, <1>2, ApplyGoes DEF Steps
<1>4. applied' \in {applied, applied \cup {new}}
  BY DEF terraformApply
<1>5. new \in [run : Runs, plan : Plans, tree : Trees]
  BY DEF IInv, TypeOK
<1>6. TypeOK'
  <2>1. applied' \subseteq [run : Runs, plan : Plans, tree : Trees]
    BY <1>4, <1>5 DEF IInv, TypeOK
  <2>2. faults' \in 0 .. MaxFaults
    BY FaultType DEF terraformApply, IInv, TypeOK
  <2> QED
    BY <1>2, <1>3, <2>1, <2>2 DEF terraformApply, IInv, TypeOK, PodsType, Track, volume
<1>7. s \notin beside => Ready(s)'
  BY <1>1, <1>2, <1>3 DEF Ready, Cleared, ToApply, Steps
<1>8. /\ new.run = s
      /\ s \notin beside => /\ new.plan = s /\ new.tree = "cloned"
                            /\ s \in bad' => s \in unjudged'
  BY <1>2, <1>3 DEF Ready, ToApply
<1>9. \A a \in applied' : a \in applied \/ (a.run = s /\ (s \notin beside => Own(a)'))
  <2> SUFFICES ASSUME NEW a \in applied', a \notin applied
               PROVE  a.run = s /\ (s \notin beside => Own(a)')
    OBVIOUS
  <2>1. a = new
    BY <1>4
  <2> HIDE DEF new
  <2> QED
    BY <2>1, <1>8 DEF Own
<1> QED
  BY <1>1, <1>2, <1>3, <1>6, <1>7, <1>9, PodStep

\* The plan file goes after the apply.
LEMMA RemovePlanKeeps ==
    ASSUME IInv, NEW s \in Runs, removePlanFile(s)
    PROVE  IInv'
<1>1. Goes("apply", s, "remove", "cleanUp")
  BY DEF removePlanFile
<1>2. /\ Track /\ trees' = trees /\ spec' = spec /\ bad' = bad /\ cur' = cur
      /\ unjudged' = unjudged /\ applied' = applied
  BY DEF removePlanFile, Track
<1>3. /\ pods' \in PodsType /\ Running(s)
      /\ \A r \in Runs \ {s} : planPod(r)' = planPod(r) /\ applyPod(r)' = applyPod(r)
      /\ applyPod(s) = "remove" /\ applyPod(s)' = "cleanUp"
      /\ planPod(s) = "succeeded" /\ planPod(s)' = "succeeded"
      /\ s \notin beside' => s \notin beside
      /\ s \notin beside => Ready(s)
  BY <1>1, <1>2, ApplyGoes DEF Steps
<1>4. TypeOK'
  <2>1. faults' \in 0 .. MaxFaults
    BY FaultType DEF removePlanFile, IInv, TypeOK
  <2>2. planFile' \in [Specs -> Plans]
    BY DEF removePlanFile, IInv, TypeOK, Plans
  <2> QED
    BY <2>1, <2>2, <1>3 DEF removePlanFile, IInv, TypeOK, PodsType, Track
<1>5. s \notin beside => Ready(s)'
  BY <1>2, <1>3 DEF Ready, Cleared, ToApply, Steps
<1> QED
  BY <1>2, <1>3, <1>4, <1>5, PodStep

\* The directory of the run goes with its apply pod.
LEMMA RemoveDirKeeps ==
    ASSUME IInv, NEW s \in Runs, removeRunDir(s)
    PROVE  IInv'
<1>1. PICK from \in {"cleanUp", "cleanUpFailed"}, to \in {"succeeded", "failed"} : Goes("apply", s, from, to)
  BY DEF removeRunDir
<1>2. /\ Track /\ spec' = spec /\ bad' = bad /\ cur' = cur
      /\ unjudged' = unjudged /\ applied' = applied
      /\ trees' = trees \/ trees' = [trees EXCEPT ![s] = "absent"]
      /\ trees \in [Runs -> Trees]
  BY DEF removeRunDir, Track, IInv, TypeOK
<1>3. /\ pods' \in PodsType /\ Running(s)
      /\ \A r \in Runs \ {s} : planPod(r)' = planPod(r) /\ applyPod(r)' = applyPod(r)
      /\ applyPod(s) = from /\ applyPod(s)' = to
      /\ planPod(s) = "succeeded" /\ planPod(s)' = "succeeded"
      /\ s \notin beside' => s \notin beside
      /\ s \notin beside => Ready(s)
  BY <1>1, <1>2, ApplyGoes DEF Steps, Ended
<1>4. TypeOK'
  <2>1. faults' \in 0 .. MaxFaults
    BY FaultType DEF removeRunDir, IInv, TypeOK
  <2>2. trees' \in [Runs -> Trees]
    BY <1>2 DEF Trees
  <2> QED
    BY <2>1, <2>2, <1>3 DEF removeRunDir, IInv, TypeOK, PodsType, Track
<1>5. s \notin beside => Ready(s)'
  BY <1>1, <1>2, <1>3 DEF Ready, Cleared, ToApply, Steps
<1> QED
  BY <1>2, <1>3, <1>4, <1>5, PodStep

\* The end of a pod leaves the volume as it is.
LEMMA EndKeeps ==
    ASSUME IInv, NEW s \in Runs, NEW k \in Kinds, Track, FaultOf(s),
           UNCHANGED <<cur, volume, unjudged, applied>>,
           pods[<<k, s>>] \in Steps,
           NEW to \in {"failed", "cleanUpFailed"}, to = "cleanUpFailed" => k = "apply",
           pods' = [pods EXCEPT ![<<k, s>>] = to]
    PROVE  IInv'
<1> DEFINE from == pods[<<k, s>>]
<1>1. Goes(k, s, from, to) /\ from \in Steps
  BY DEF Goes
<1> HIDE DEF from
<1>2. /\ trees' = trees /\ planFile' = planFile /\ spec' = spec /\ bad' = bad /\ cur' = cur
      /\ unjudged' = unjudged /\ applied' = applied
  BY DEF volume, Track
<1>3. TypeOK'
  <2>1. pods' \in PodsType
    BY <1>1, GoesFacts DEF IInv, Steps, Ended
  <2>2. faults' \in 0 .. MaxFaults
    BY FaultType DEF IInv, TypeOK
  <2> QED
    BY <2>1, <2>2 DEF IInv, TypeOK, PodsType, Track, volume
<1>4. CASE k = "plan"
  <2>1. Goes("plan", s, from, "failed")
    BY <1>1, <1>4
  <2>2. /\ pods' \in PodsType /\ Running(s)
        /\ \A r \in Runs \ {s} : planPod(r)' = planPod(r) /\ applyPod(r)' = applyPod(r)
        /\ planPod(s) = from /\ planPod(s)' = "failed"
        /\ applyPod(s) = "none" /\ applyPod(s)' = "none"
        /\ s \notin beside' => s \notin beside
        /\ s \notin beside => Ready(s)
    BY <1>1, <2>1, PlanGoes DEF Ended
  <2>3. s \notin beside => Ready(s)'
    BY <2>2 DEF Ready, Cleared, ToApply, Steps
  <2> QED
    BY <1>2, <1>3, <2>2, <2>3, PodStep
<1>5. CASE k = "apply"
  <2>1. Goes("apply", s, from, to)
    BY <1>1, <1>5
  <2>2. /\ pods' \in PodsType /\ Running(s)
        /\ \A r \in Runs \ {s} : planPod(r)' = planPod(r) /\ applyPod(r)' = applyPod(r)
        /\ applyPod(s) = from /\ applyPod(s)' = to
        /\ planPod(s) = "succeeded" /\ planPod(s)' = "succeeded"
        /\ s \notin beside' => s \notin beside
        /\ s \notin beside => Ready(s)
    BY <1>1, <2>1, ApplyGoes DEF Steps, Ended
  <2>3. s \notin beside => \A q \in Runs \ {s} : trees[q] = "absent"
    BY <1>1, <2>2 DEF Ready, Cleared
  <2>4. s \notin beside => Ready(s)'
    BY <1>2, <2>2, <2>3 DEF Ready, ToApply, Steps
  <2> QED
    BY <1>2, <1>3, <2>2, <2>4, PodStep
<1> QED
  BY <1>4, <1>5 DEF Kinds

\* A pod is killed at any step.
LEMMA PodKilledKeeps ==
    ASSUME IInv, NEW s \in Runs, NEW k \in Kinds, podKilled(k, s)
    PROVE  IInv'
  BY EndKeeps DEF podKilled

\* A step of a pod fails.
LEMMA StepFailsKeeps ==
    ASSUME IInv, NEW s \in Runs, NEW k \in Kinds, stepFails(k, s)
    PROVE  IInv'
<1>1. CASE pods[<<k, s>>] \in Steps /\ pods' = [pods EXCEPT ![<<k, s>>] = "failed"]
  BY <1>1, EndKeeps DEF stepFails
<1>2. CASE k = "apply" /\ pods[<<k, s>>] \in {"wait", "apply"} /\ pods' = [pods EXCEPT ![<<k, s>>] = "cleanUpFailed"]
  BY <1>2, EndKeeps DEF stepFails, Steps
<1> QED
  BY <1>1, <1>2 DEF stepFails

\* A new pod of the current run: whoever is still in progress shares the volume now.
LEMMA CreateKeeps ==
    ASSUME IInv, Track, UNCHANGED <<cur, volume, unjudged, applied, faults>>,
           NEW k \in Kinds, Goes(k, cur, "none", "start"),
           k = "apply" => planPod(cur) = "succeeded"
    PROVE  IInv'
<1>1. /\ trees' = trees /\ planFile' = planFile /\ planJSON' = planJSON /\ cur' = cur /\ cur \in Runs
      /\ spec' = spec /\ bad' = bad /\ unjudged' = unjudged /\ applied' = applied
      /\ beside \subseteq beside'
  BY DEF volume, Track, IInv, TypeOK
<1>2. pods \in PodsType /\ "plan" \in Kinds /\ "apply" \in Kinds
  BY DEF IInv, TypeOK, PodsType, Kinds
<1>3. \A j \in Kinds, r \in Runs : pods'[<<j, r>>] = IF j = k /\ r = cur THEN "start" ELSE pods[<<j, r>>]
  BY <1>1, <1>2 DEF PodsType, Goes
<1>4. pods' \in PodsType
  BY <1>1, <1>2 DEF PodsType, Goes, Steps
<1>5. TypeOK'
  BY <1>4 DEF IInv, TypeOK, PodsType, Track, volume
<1>6. \A r \in Runs \ {cur} : planPod(r)' = planPod(r) /\ applyPod(r)' = applyPod(r)
  BY <1>2, <1>3 DEF planPod, applyPod
<1>7. /\ k = "plan"  => planPod(cur) = "none" /\ planPod(cur)' = "start" /\ applyPod(cur)' = applyPod(cur)
      /\ k = "apply" => applyPod(cur) = "none" /\ applyPod(cur)' = "start" /\ planPod(cur)' = planPod(cur)
  BY <1>1, <1>2, <1>3 DEF planPod, applyPod, Goes
<1>8. ApplyFollowsPlan'
  BY <1>1, <1>6, <1>7 DEF IInv, ApplyFollowsPlan, Kinds
<1>9. Alone'
  BY DEF Track, Alone
<1>10. NotYet'
  BY <1>1, <1>6 DEF IInv, NotYet, TypeOK, Runs
<1>11. BadOnes' /\ OwnPlanApplied' /\ OneTreeKept'
  BY <1>1 DEF IInv, BadOnes, OwnPlanApplied, OneTreeKept
<1>12. AllReady'
  <2> SUFFICES ASSUME NEW r \in Runs \ beside' PROVE Ready(r)'
    BY DEF AllReady
  <2>1. Ready(r)
    BY <1>1 DEF IInv, AllReady
  <2>2. CASE r = cur
    <3>1. CASE k = "plan"
      <4>1. applyPod(cur) = "none"
        BY <3>1, <1>1, <1>7 DEF IInv, ApplyFollowsPlan
      <4> QED
        BY <2>2, <3>1, <4>1, <1>1, <1>7 DEF Ready, Cleared, ToApply, Steps
    <3>2. CASE k = "apply"
      BY <2>1, <2>2, <3>2, <1>1, <1>7 DEF Ready, Cleared, ToApply, Steps
    <3> QED
      BY <3>1, <3>2 DEF Kinds
  <2>3. CASE r # cur
    <3>1. Cleared(r)' = Cleared(r) /\ ToApply(r)' = ToApply(r)
      BY <2>3, <1>1, <1>6 DEF Cleared, ToApply
    <3> QED
      BY <2>1, <2>3, <3>1, <1>1, <1>6 DEF Ready
  <2> QED
    BY <2>2, <2>3
<1> QED
  BY <1>5, <1>8, <1>9, <1>10, <1>11, <1>12 DEF IInv

\* The next run begins.
LEMMA FreshCycleKeeps ==
    ASSUME IInv, startFreshCycle
    PROVE  IInv'
<1>1. /\ trees' = trees /\ planFile' = planFile /\ planJSON' = planJSON /\ cur' = cur + 1 /\ cur \in Runs
      /\ spec' = spec /\ bad' = bad /\ unjudged' = unjudged /\ applied' = applied /\ pods' = pods
      /\ beside \subseteq beside' /\ Track /\ cur < MaxRuns
  BY DEF startFreshCycle, volume, Track, IInv, TypeOK
<1>2. TypeOK'
  <2>1. cur' \in Runs
    BY <1>1, JobPodAssumption DEF Runs
  <2>2. faults' \in 0 .. MaxFaults
    BY FaultType DEF startFreshCycle, IInv, TypeOK
  <2> QED
    BY <2>1, <2>2 DEF startFreshCycle, IInv, TypeOK, Track, volume
<1>3. \A r \in Runs : planPod(r)' = planPod(r) /\ applyPod(r)' = applyPod(r)
  BY <1>1 DEF planPod, applyPod
<1>4. ApplyFollowsPlan'
  BY <1>3 DEF IInv, ApplyFollowsPlan
<1>5. Alone'
  BY <1>1 DEF Track, Alone
<1>6. NotYet'
  BY <1>1, <1>3 DEF IInv, NotYet, Runs
<1>7. BadOnes' /\ OwnPlanApplied' /\ OneTreeKept'
  BY <1>1 DEF IInv, BadOnes, OwnPlanApplied, OneTreeKept
<1>8. AllReady'
  <2> SUFFICES ASSUME NEW r \in Runs \ beside' PROVE Ready(r)'
    BY DEF AllReady
  <2>1. Ready(r)
    BY <1>1 DEF IInv, AllReady
  <2>2. ~(r = cur' /\ planPod(r)' = "succeeded")
    BY <1>1, <1>3 DEF IInv, NotYet, Runs
  <2>3. (Cleared(r)' => Cleared(r)) /\ (ToApply(r)' => ToApply(r))
    BY <1>3, <2>2 DEF Cleared, ToApply
  <2> QED
    BY <2>1, <2>3, <1>1, <1>3 DEF Ready
<1> QED
  BY <1>2, <1>4, <1>5, <1>6, <1>7, <1>8 DEF IInv

\* Every step keeps the invariant.
LEMMA NextIInv == IInv /\ [Next]_vars => IInv'
<1> SUFFICES ASSUME IInv, [Next]_vars PROVE IInv'
  OBVIOUS
<1>1. CASE createPlanPod
  BY <1>1, CreateKeeps DEF createPlanPod, Kinds
<1>2. CASE createApplyPod
  BY <1>2, CreateKeeps DEF createApplyPod, Kinds, planPod
<1>3. CASE startFreshCycle
  BY <1>3, FreshCycleKeeps
<1>4. ASSUME NEW r \in Runs, NEW k \in Kinds, podKilled(k, r) \/ stepFails(k, r) PROVE IInv'
  BY <1>4, PodKilledKeeps, StepFailsKeeps
<1>5. ASSUME NEW r \in Runs, clearRuns(r) \/ cloneRepository(r) \/ validateSourceDir(r) PROVE IInv'
  BY <1>5, ClearKeeps, CloneKeeps, ValidateKeeps
<1>6. ASSUME NEW r \in Runs, execTerraform(r) PROVE IInv'
  BY <1>6, ClientKeeps, PlanKeeps, NoSelectorKeeps, ShowKeeps, PoliciesKeep, WaitKeeps, ApplyKeeps,
     RemovePlanKeeps, RemoveDirKeeps DEF execTerraform
<1>7. CASE UNCHANGED vars
  <2> USE <1>7 DEF vars, volume
  <2>1. TypeOK'
    BY DEF IInv, TypeOK
  <2>2. ApplyFollowsPlan' /\ NotYet'
    BY DEF IInv, ApplyFollowsPlan, NotYet, planPod, applyPod
  <2>3. Alone'
    BY DEF IInv, Alone, InProgress, Running
  <2>4. BadOnes' /\ OwnPlanApplied' /\ OneTreeKept'
    BY DEF IInv, BadOnes, OwnPlanApplied, OneTreeKept
  <2>5. ASSUME NEW r \in Runs PROVE Ready(r)' = Ready(r)
    <3>1. Cleared(r)' = Cleared(r) /\ ToApply(r)' = ToApply(r) /\ planPod(r)' = planPod(r)
      BY DEF Cleared, ToApply, planPod, applyPod
    <3> QED
      BY <3>1 DEF Ready
  <2>6. AllReady'
    BY <2>5 DEF IInv, AllReady
  <2> QED
    BY <2>1, <2>2, <2>3, <2>4, <2>6 DEF IInv
<1> QED
  BY <1>1, <1>2, <1>3, <1>4, <1>5, <1>6, <1>7 DEF Next

\* The inductive invariant holds in every state of the pods and their volume.
THEOREM Invariant == Spec => []IInv
  BY InitIInv, NextIInv, PTL DEF Spec

\* Every variable keeps its type, for any number of runs.
THEOREM TypeCorrect == Spec => []TypeOK
<1>1. IInv => TypeOK
  BY DEF IInv
<1> QED
  BY <1>1, Invariant, PTL

\* An apply pod (execTerraform) applies the plan of its own run, made of its own clone
\* and not refused by a policy, however many runs have left their plan files behind.
THEOREM OwnPlans == Spec => []OwnPlanApplied
<1>1. IInv => OwnPlanApplied
  BY DEF IInv
<1> QED
  BY <1>1, Invariant, PTL

\* Directories of runs do not pile up on the volume, however many pods were killed
\* before they could remove theirs.
THEOREM TreesBounded == Spec => []OneTreeKept
<1>1. IInv => OneTreeKept
  BY DEF IInv
<1> QED
  BY <1>1, Invariant, PTL
=============================================================================
