-------------------------- MODULE RunRecordsProofs --------------------------
(***************************************************************************)
(* The run history, proved for any number of runs, reviewers and faults and *)
(* any page size.                                                           *)
(*                                                                          *)
(* Decided: a request that has got past RecordApproval holds the decision   *)
(* on record, which nobody can change any more; this is what makes the      *)
(* table implement RunDecisions.  Stored: every report that is or may get   *)
(* under way is of a phase whose log has been stored.  Ordered: the sort    *)
(* time of a row lies among the times of its run, so that rows of different *)
(* runs never change places; Walking: a cursor parts the runs for good.     *)
(* Consistent: all that is said of a phase of a run, in its row and in the  *)
(* reports of it, agrees, because it comes from one Job.                    *)
(***************************************************************************)
EXTENDS RunRecords, FiniteSetTheorems, WellFoundedInduction, TLAPS

\* Every leaf is tried with Zenon first and, when that fails, with the SMT solver.
USE ZenonT(10), SMTT(30)

Working == ctl.pc # "idle" => ctl.then \in Phases /\ ctl.report \in Reports

Decided ==
    \A q \in Requests :
        /\ reqs[q].pc = "idle" <=> reqs[q].run = 0
        /\ reqs[q].pc = "patch" => rows[reqs[q].run].approval = Wants[q]

Kept(m) ==
    /\ m.plan # "none" => <<m.run, "plan">> \in logs \cup lostLogs
    /\ m.apply # "none" => <<m.run, "apply">> \in logs \cup lostLogs

Stored ==
    /\ PhaseLogReadable
    /\ \A m \in net : Kept(m)
    /\ ctl.pc \in {"send", "wait"} => Kept(ctl.report)
    /\ ctl.pc = "put" => /\ ctl.report.run = ws.run
                         /\ ctl.report.plan # "none" => job[1] = "plan"
                         /\ ctl.report.apply # "none" => job[1] = "apply"

\* The rows of different runs lie apart, and what is left of a walk lies after its cursor.
Within(time, r) == time \in Minted(r) .. ApplyStarted(r)

Ordered == \A r \in Runs : rows[r].exists => Within(rows[r].sort, r)

Walking ==
    reader # NoReader =>
        LET c == reader.cursor[2] IN
        /\ c \in Runs /\ Within(reader.cursor[1], c)
        /\ \A r \in reader.present : rows[r].exists /\ (r \in reader.seen \/ r < c)

\* What the reports and the rows say of the phases of a run.
Outcomes == {"Succeeded", "Failed"}
Says(m, phase, x) == (phase = "plan" /\ m.plan = x) \/ (phase = "apply" /\ m.apply = x)
Said(r, phase, x) ==
    \/ Says(rows[r], phase, x)
    \/ \E m \in net : m.run = r /\ Says(m, phase, x)
    \/ ctl.pc # "idle" /\ ctl.report.run = r /\ Says(ctl.report, phase, x)

\* What may be said of the current run follows from its Job.
Current(phase, x) ==
    job = <<phase, x>> \/ (phase = "plan" /\ x = "Succeeded" /\ job[1] = "apply")

Consistent ==
    /\ \A r \in Runs, phase \in {"plan", "apply"}, x \in Outcomes :
         Said(r, phase, x) =>
             /\ r <= ws.run
             /\ r = ws.run => Current(phase, x)
             /\ \A y \in Outcomes : Said(r, phase, y) => x = y
    /\ \A r \in Runs : rows[r].started \in {0, Started(r)}
    /\ ctl.pc # "idle" /\ ctl.then = "Applying" => job = <<"plan", "Succeeded">>

TInv == TypeOK /\ Working
-----------------------------------------------------------------------------
\* What a report may say.
LEMMA ReportFields ==
    ASSUME NEW m \in Reports
    PROVE  /\ m.run \in Runs
           /\ m.started \in {0, Started(m.run)}
           /\ m.finished \in BOOLEAN /\ m.scheduled \in BOOLEAN /\ m.revision \in BOOLEAN
           /\ m.plan \in Results /\ m.apply \in Results
           /\ m.plan # "none" => m.started = Started(m.run) /\ m.apply = "none"
<1>1. PICK r \in Runs : \/ m = ReportScheduled(r)
                        \/ \E res \in {"Succeeded", "Failed"} : m = ReportPlan(r, res)
                        \/ \E res \in {"Succeeded", "Failed"} : m = ReportApply(r, res)
  BY DEF Reports
<1>2. CASE m = ReportScheduled(r)
  BY <1>2 DEF ReportScheduled, NoReport, Results
<1>3. CASE \E res \in {"Succeeded", "Failed"} : m = ReportPlan(r, res)
  BY <1>3 DEF ReportPlan, NoReport, Results
<1>4. CASE \E res \in {"Succeeded", "Failed"} : m = ReportApply(r, res)
  BY <1>4 DEF ReportApply, NoReport, Results
<1>q. QED
  BY <1>1, <1>2, <1>3, <1>4

\* The reports the controller makes are reports.
LEMMA MakesReports ==
    ASSUME NEW r \in Runs, NEW res \in {"Succeeded", "Failed"}
    PROVE  /\ ReportScheduled(r) \in Reports
           /\ ReportPlan(r, res) \in Reports
           /\ ReportApply(r, res) \in Reports
BY DEF Reports

\* The times of a run are numbers.
LEMMA RunTimes ==
    ASSUME NEW r \in Runs
    PROVE  r \in Nat \ {0} /\ Minted(r) \in Nat /\ Started(r) \in Nat /\ ApplyStarted(r) \in Nat
BY RecordsAssumption DEF Runs, Minted, Started, ApplyStarted

\* What UpsertRun leaves in each field it merges.
LEMMA UpsertMerges ==
    ASSUME NEW row, NEW m
    PROVE  /\ UpsertRun(row, m).exists
           /\ UpsertRun(row, m).started = firstNonEmpty(m.started, row.started)
           /\ row.finished => UpsertRun(row, m).finished
           /\ row.scheduled => UpsertRun(row, m).scheduled
           /\ row.revision => UpsertRun(row, m).revision
           /\ UpsertRun(row, m).plan = coalesce(m.plan, row.plan)
           /\ UpsertRun(row, m).apply = coalesce(m.apply, row.apply)
BY DEF UpsertRun

\* A row with a report merged into it is a row.
LEMMA UpsertType ==
    ASSUME NEW row \in RowType, NEW m \in Reports
    PROVE  /\ UpsertRun(row, m) \in RowType
           /\ UpsertRun(row, m).approval = row.approval
<1>1. m.run \in Runs /\ m.started \in Nat
  BY ReportFields, RunTimes
<1>2. sortTime(m) \in Nat /\ firstNonEmpty(m.started, row.started) \in Nat
  BY <1>1, RunTimes DEF sortTime, firstNonEmpty, RowType
<1>3. coalesce(m.plan, row.plan) \in Results /\ coalesce(m.apply, row.apply) \in Results
  BY ReportFields DEF coalesce, RowType
<1>4. m.finished \in BOOLEAN /\ m.scheduled \in BOOLEAN /\ m.revision \in BOOLEAN
  BY ReportFields
<1>q. QED
  BY <1>2, <1>3, <1>4 DEF UpsertRun, RowType
-----------------------------------------------------------------------------
(* Pages.                                                                   *)

\* A set of numbers has a least one, and a set of runs a greatest one.
LEMMA Least ==
    ASSUME NEW T \in SUBSET Nat, T # {}
    PROVE  \E x \in T : \A y \in T : x <= y
<1>1. \E x \in T : \A y \in T : ~ (<<y, x>> \in OpToRel(<, Nat))
  BY WFMin, NatLessThanWellFounded
<1>2. \A x, y \in Nat : y < x => <<y, x>> \in OpToRel(<, Nat)
  BY DEF OpToRel
<1>3. PICK x \in T : \A y \in T : ~ (<<y, x>> \in OpToRel(<, Nat))
  BY <1>1
<1>4. ASSUME NEW y \in T PROVE x <= y
  <2>1. x \in Nat /\ y \in Nat
    OBVIOUS
  <2>2. ~ (y < x)
    BY <1>2, <1>3, <2>1
  <2>q. QED
    BY <2>1, <2>2
<1>q. QED
  BY <1>3, <1>4

\* A set of runs that is not empty has a latest run.
LEMMA Greatest ==
    ASSUME NEW T \in SUBSET Runs, T # {}
    PROVE  \E x \in T : \A y \in T : y <= x
<1> DEFINE U == {MaxRuns - r : r \in T}
<1>1. U \in SUBSET Nat /\ U # {}
  <2>1. \A r \in Runs : MaxRuns - r \in Nat
    BY RecordsAssumption DEF Runs
  <2>q. QED
    BY <2>1
<1>2. PICK u \in U : \A v \in U : u <= v
  BY <1>1, Least
<1>3. PICK x \in T : u = MaxRuns - x
  BY <1>2
<1>4. \A y \in T : MaxRuns - x <= MaxRuns - y
  BY <1>2, <1>3
<1>q. QED
  BY <1>3, <1>4, RecordsAssumption DEF Runs

\* The rows of different runs are listed in the order of the runs.
LEMMA RowOrder ==
    ASSUME TypeOK, Ordered, NEW r \in Runs, NEW n \in Runs, rows[r].exists, rows[n].exists
    PROVE  Before(Key(r), Key(n)) <=> r < n
<1>1. r \in Nat /\ n \in Nat /\ rows[r].sort \in Nat /\ rows[n].sort \in Nat
  BY RunTimes DEF TypeOK, RowType
<1>2. /\ 3 * r <= rows[r].sort /\ rows[r].sort <= 3 * r + 2
      /\ 3 * n <= rows[n].sort /\ rows[n].sort <= 3 * n + 2
  BY <1>1 DEF Ordered, Within, Minted, ApplyStarted
<1>q. QED
  BY <1>1, <1>2 DEF Before, Key

\* A cursor that lies in run c leaves exactly the rows of earlier runs, and maybe c.
LEMMA CursorOrder ==
    ASSUME TypeOK, Ordered, NEW cursor, NEW c \in Runs, cursor = <<cursor[1], c>>,
           Within(cursor[1], c), NEW r \in Runs, rows[r].exists, r < c
    PROVE  r \in Rest(cursor)
<1>1. r \in Nat /\ c \in Nat /\ rows[r].sort \in Nat
  BY RunTimes DEF TypeOK, RowType
<1>2. /\ rows[r].sort <= 3 * r + 2
      /\ cursor[1] \in Int /\ 3 * c <= cursor[1]
  BY <1>1 DEF Ordered, Within, Minted, ApplyStarted
<1>3. Before(Key(r), cursor)
  BY <1>1, <1>2 DEF Before, Key
<1>q. QED
  BY <1>3 DEF Rest

\* What ListRuns returns: all that is left and no cursor, or a page and a cursor such that
\* all that is left out lies after it.
LEMMA PageAndCursor ==
    ASSUME TypeOK, Ordered, NEW cursor
    PROVE  \/ nextCursor(cursor) = NoCursor /\ Page(cursor) = Rest(cursor)
           \/ \E c \in Runs : /\ nextCursor(cursor) = Key(c) /\ rows[c].exists
                              /\ \A r \in Rest(cursor) \ Page(cursor) : r < c
<1> DEFINE S == Rest(cursor)
           Above(r) == {n \in S : Before(Key(r), Key(n))}
<1>1. S \subseteq Runs /\ IsFiniteSet(S) /\ \A r \in S : rows[r].exists
  <2>1. S \in SUBSET Runs /\ \A r \in S : rows[r].exists
    BY DEF Rest
  <2>2. IsFiniteSet(Runs)
    BY FS_Interval, RecordsAssumption DEF Runs
  <2>q. QED
    BY <2>1, <2>2, FS_Subset
<1>2. Page(cursor) = {r \in S : Cardinality(Above(r)) < Limit}
  BY DEF Page
<1>3. \A r \in S : Above(r) = {n \in S : r < n}
  BY <1>1, RowOrder
<1>n. S \subseteq Nat
  BY <1>1, RunTimes
<1> HIDE DEF S
<1>4. CASE Cardinality(S) <= Limit
  <2>1. ASSUME NEW r \in S PROVE Cardinality(Above(r)) < Limit
    <3>1. Above(r) \in SUBSET (S \ {r})
      BY <1>3, <1>n
    <3>2. /\ IsFiniteSet(S \ {r}) /\ Cardinality(S \ {r}) = Cardinality(S) - 1
          /\ Cardinality(S) \in Nat
      BY <1>1, FS_RemoveElement, FS_CardinalityType
    <3>3. IsFiniteSet(Above(r)) /\ Cardinality(Above(r)) <= Cardinality(S) - 1
      BY <3>1, <3>2, FS_Subset
    <3>4. Cardinality(Above(r)) \in Nat
      BY <3>3, FS_CardinalityType
    <3> HIDE DEF Above
    <3>q. QED
      BY <1>4, <3>2, <3>3, <3>4, RecordsAssumption
  <2>2. Page(cursor) = S
    BY <1>2, <2>1
  <2>3. nextCursor(cursor) = NoCursor
    BY <1>4 DEF nextCursor, S
  <2>q. QED
    BY <2>2, <2>3 DEF S
<1>5. CASE ~ Cardinality(S) <= Limit
  <2> DEFINE P == Page(cursor)
  <2>1. P \subseteq S
    BY <1>2
  <2>2. P # {}
    <3>1. S # {}
      <4>1. S = {} => Cardinality(S) = 0
        BY FS_EmptySet
      <4>q. QED
        BY <1>5, <4>1, RecordsAssumption
    <3>2. PICK g \in S : \A y \in S : y <= g
      BY <1>1, <3>1, Greatest
    <3>3. Above(g) = {}
      <4>1. ASSUME NEW n \in S PROVE ~ (g < n)
        <5>1. n \in Nat /\ g \in Nat /\ n <= g
          BY <1>n, <3>2
        <5>q. QED
          BY <5>1
      <4>q. QED
        BY <1>3, <3>2, <4>1
    <3>4. Cardinality(Above(g)) < Limit
      BY <3>3, FS_EmptySet, RecordsAssumption
    <3>q. QED
      BY <1>2, <3>2, <3>4
  <2>3. \E r \in P : \A n \in P : n = r \/ Before(Key(r), Key(n))
    <3>1. PICK r \in P : \A n \in P : r <= n
      BY <1>n, <2>1, <2>2, Least
    <3>2. \A n \in P : n = r \/ r < n
      <4>1. ASSUME NEW n \in P PROVE n = r \/ r < n
        <5>1. n \in Nat /\ r \in Nat /\ r <= n
          BY <1>n, <2>1, <3>1
        <5>q. QED
          BY <5>1
      <4>q. QED
        BY <4>1
    <3>q. QED
      BY <1>1, <2>1, <3>1, <3>2, RowOrder
  <2> DEFINE c == CHOOSE r \in P : \A n \in P : n = r \/ Before(Key(r), Key(n))
  <2>4. c \in P
    BY <2>3
  <2>5. nextCursor(cursor) = Key(c)
    BY <1>5 DEF nextCursor, S
  <2> HIDE DEF c
  <2>6. ASSUME NEW r \in S \ P PROVE r < c
    <3>1. c \in S /\ c \in Nat /\ r \in Nat
      BY <1>n, <2>1, <2>4
    <3>2. CASE c <= r
      <4>1. Above(r) \in SUBSET Above(c) /\ Above(c) \in SUBSET S
        <5>1. \A n \in S : r < n => c < n
          BY <1>n, <3>1, <3>2
        <5>2. Above(r) = {n \in S : r < n} /\ Above(c) = {n \in S : c < n}
          BY <1>3, <2>6, <3>1
        <5>q. QED
          BY <5>1, <5>2
      <4>2. IsFiniteSet(Above(c))
        BY <1>1, <4>1, FS_Subset
      <4>3. IsFiniteSet(Above(r)) /\ Cardinality(Above(r)) <= Cardinality(Above(c))
        BY <4>1, <4>2, FS_Subset
      <4>4. Cardinality(Above(r)) \in Nat /\ Cardinality(Above(c)) \in Nat
        BY <4>2, <4>3, FS_CardinalityType
      <4>5. Cardinality(Above(c)) < Limit /\ ~ Cardinality(Above(r)) < Limit
        BY <1>2, <2>4, <2>6
      <4> HIDE DEF Above
      <4>q. QED
        BY <4>3, <4>4, <4>5, RecordsAssumption
    <3>q. QED
      BY <3>1, <3>2
  <2>7. c \in Runs /\ rows[c].exists
    BY <1>1, <2>1, <2>4
  <2>q. QED
    BY <2>5, <2>6, <2>7 DEF S
<1>q. QED
  BY <1>4, <1>5
-----------------------------------------------------------------------------
(* Types.                                                                   *)

\* The first state has the types.
LEMMA InitTInv == Init => TInv
<1> SUFFICES ASSUME Init PROVE TInv
  OBVIOUS
<1>1. 1 \in Runs /\ faults \in 0 .. MaxFaults
  BY RecordsAssumption DEF Runs, Init
<1>2. NoRow \in RowType
  BY DEF NoRow, RowType, Results, Decisions
<1>3. ws \in WsType /\ wsC \in WsType /\ rows \in [Runs -> RowType]
  BY <1>1, <1>2 DEF Init, WsType, Phases, Decisions
<1>4. reader \in ReaderType
  BY DEF Init, NoReader, NoCursor, ReaderType
<1>5. reqs \in [Requests -> ReqType]
  BY DEF Init, ReqType
<1>6. ctl \in CtlType /\ ctl.pc = "idle"
  BY DEF Init, Idle, CtlType
<1>7. job \in JobType
  BY DEF Init, JobType
<1>q. QED
  BY <1>1, <1>3, <1>4, <1>5, <1>6, <1>7 DEF Init, TInv, TypeOK, Working

\* The steps of the Workspace controller keep the types.
LEMMA ControllerTInv ==
    ASSUME TInv, Controller
    PROVE  TInv'
<1>0. /\ TypeOK /\ Working
      /\ ws \in [run : Runs, phase : Phases, decision : Decisions]
      /\ ctl \in CtlType
      /\ job[1] \in {"plan", "apply"} /\ job[2] \in {"runs", "Succeeded", "Failed"}
  BY DEF TInv, TypeOK, WsType, JobType
<1>f. Fault \/ NoFault => faults' \in 0 .. MaxFaults
  <2>1. faults \in 0 .. MaxFaults /\ MaxFaults \in Nat
    BY <1>0, RecordsAssumption DEF TypeOK
  <2>q. QED
    BY <2>1 DEF Fault, NoFault
<1>i. Idle \in CtlType /\ Idle.pc = "idle"
  BY DEF Idle, CtlType
<1>m. ASSUME NEW pc \in {"send", "wait"}, ctl.pc # "idle", ctl' = [ctl EXCEPT !.pc = pc]
      PROVE  ctl' \in CtlType /\ Working'
  BY <1>0, <1>m DEF CtlType, Working
<1>1. CASE startFreshCycle
  <2>1. ws.run + 1 \in Runs
    BY <1>0, <1>1, RecordsAssumption DEF startFreshCycle, Runs
  <2>2. ReportScheduled(ws.run + 1) \in Reports
    BY <2>1, MakesReports
  <2>3. ws' \in WsType
    <3> DEFINE n == ws.run + 1
    <3>1. n \in Runs /\ ws' = [ws EXCEPT !.run = n, !.phase = "Planning"]
      BY <1>1, <2>1 DEF startFreshCycle
    <3> HIDE DEF n
    <3>q. QED
      BY <1>0, <3>1 DEF WsType, Phases
  <2>4. ctl' \in CtlType /\ Working'
    <3>1. CASE UNCHANGED ctl
      BY <1>0, <3>1 DEF Working
    <3>2. CASE ctl' = [pc |-> "send", report |-> ReportScheduled(ws.run + 1), then |-> "Planning"]
      BY <2>2, <3>2 DEF CtlType, Working, Phases
    <3>q. QED
      BY <1>1, <3>1, <3>2 DEF startFreshCycle
  <2>5. job' \in JobType
    BY <1>1 DEF startFreshCycle, JobType
  <2>q. QED
    BY <1>0, <1>f, <1>1, <2>3, <2>4, <2>5 DEF startFreshCycle, Outside, TInv, TypeOK
<1>2. ASSUME NEW res \in {"Succeeded", "Failed"}, jobEnds(res) PROVE TInv'
  <2>1. job' \in JobType
    BY <1>0, <1>2 DEF jobEnds, JobType
  <2>q. QED
    BY <1>0, <1>f, <1>2, <2>1 DEF jobEnds, Outside, TInv, TypeOK, Working
<1>3. ASSUME NEW m \in Reports, NEW then \in Phases, archiveRunLogs(m, then), ws' \in WsType
      PROVE  TInv'
  <2>1. ctl' \in CtlType /\ Working'
    BY <1>3 DEF archiveRunLogs, CtlType, Working
  <2>q. QED
    BY <1>0, <1>f, <1>3, <2>1 DEF archiveRunLogs, Outside, TInv, TypeOK
<1>4. /\ ws' = ws => ws' \in WsType
      /\ ws' = [ws EXCEPT !.decision = "none"] => ws' \in WsType
  BY <1>0 DEF WsType, Decisions
<1>r. \A res \in {"Succeeded", "Failed"} :
          ReportPlan(ws.run, res) \in Reports /\ ReportApply(ws.run, res) \in Reports
  BY <1>0, MakesReports
<1>5. CASE planFailed
  BY <1>3, <1>4, <1>5, <1>r DEF planFailed, Phases
<1>6. CASE createApplyJobIfApproved
  BY <1>3, <1>4, <1>6, <1>r DEF createApplyJobIfApproved, Phases
<1>7. CASE applyFinished
  <2>1. job[2] \in {"Succeeded", "Failed"}
    BY <1>7 DEF applyFinished
  <2>q. QED
    BY <1>3, <1>4, <1>7, <1>r, <2>1 DEF applyFinished, Phases
<1>8. CASE archiveFails \/ recorderReturns
  <2>1. ctl.pc # "idle" /\ archiveEnds /\ (Fault \/ NoFault)
        /\ UNCHANGED <<logs, lostLogs, net>> /\ Outside
    BY <1>8 DEF archiveFails, recorderReturns
  <2>2. ws' \in WsType
    <3> DEFINE d == IF ctl.then = "Rejected" THEN "none" ELSE ws.decision
    <3>1. d \in Decisions /\ ctl.then \in Phases
      BY <1>0, <2>1 DEF Working, Decisions
    <3>2. ws' = [ws EXCEPT !.phase = ctl.then, !.decision = d]
      BY <2>1 DEF archiveEnds
    <3> HIDE DEF d
    <3>q. QED
      BY <1>0, <3>1, <3>2 DEF WsType
  <2>3. job' \in JobType
    BY <1>0, <2>1 DEF archiveEnds, JobType, TypeOK
  <2>4. ctl' = Idle
    BY <2>1 DEF archiveEnds
  <2>q. QED
    BY <1>0, <1>f, <1>i, <2>1, <2>2, <2>3, <2>4 DEF Outside, TInv, TypeOK, Working
<1>9. CASE PutRunPhaseLog
  <2>1. <<ws.run, job[1]>> \in LogType
    BY <1>0 DEF LogType
  <2>q. QED
    BY <1>0, <1>f, <1>m, <1>9, <2>1 DEF PutRunPhaseLog, Outside, TInv, TypeOK
<1>10. CASE bucketLost
  BY <1>0, <1>f, <1>10 DEF bucketLost, Outside, TInv, TypeOK, Working
<1>11. CASE RecordRunPhase
  <2>1. ctl.report \in Reports
    BY <1>0, <1>11 DEF RecordRunPhase, Working
  <2>q. QED
    BY <1>0, <1>f, <1>m, <1>11, <2>1 DEF RecordRunPhase, Outside, TInv, TypeOK
<1>12. CASE controllerCrashes
  BY <1>0, <1>f, <1>i, <1>12 DEF controllerCrashes, Outside, TInv, TypeOK, Working
<1>q. QED
  BY <1>1, <1>2, <1>5, <1>6, <1>7, <1>8, <1>9, <1>10, <1>11, <1>12 DEF Controller

\* The steps of the API server keep the types.
LEMMA APITInv ==
    ASSUME TInv, Decided, Ordered, API
    PROVE  TInv'
<1>0. TypeOK /\ Working
  BY DEF TInv
<1>f. Fault \/ NoFault => faults' \in 0 .. MaxFaults
  <2>1. faults \in 0 .. MaxFaults /\ MaxFaults \in Nat
    BY <1>0, RecordsAssumption DEF TypeOK
  <2>q. QED
    BY <2>1 DEF Fault, NoFault
<1>1. CASE sync
  BY <1>0, <1>1 DEF sync, TInv, TypeOK, Working
<1>2. ASSUME NEW m \in net, recordReport(m) PROVE TInv'
  <2>1. m \in Reports /\ m.run \in Runs
    BY <1>0, ReportFields DEF TypeOK
  <2>2. UpsertRun(rows[m.run], m) \in RowType
    BY <1>0, <2>1, UpsertType DEF TypeOK
  <2>3. rows' \in [Runs -> RowType] /\ net' \subseteq Reports
    BY <1>0, <1>2, <2>1, <2>2 DEF recordReport, TypeOK
  <2>q. QED
    BY <1>0, <1>f, <1>2, <2>3 DEF recordReport, TInv, TypeOK, Working
<1>3. ASSUME NEW q \in Requests, Request(q) PROVE TInv'
  <2>0. /\ reqs \in [Requests -> ReqType] /\ rows \in [Runs -> RowType]
        /\ Wants[q] \in Decisions
    BY <1>0, RecordsAssumption DEF TypeOK, Decisions
  <2>m. ASSUME NEW pc \in {"get", "patch"}, Moves(q, pc) PROVE reqs' \in [Requests -> ReqType]
    BY <2>0, <2>m DEF Moves, ReqType
  <2>a. ASSUME NEW a \in {"none", "ok", "conflict"}, Answers(q, a)
        PROVE  reqs' \in [Requests -> ReqType]
    BY <2>0, <2>a DEF Answers, ReqType
  <2>1. CASE decide(q)
    <3>1. wsC.run \in Runs
      BY <1>0 DEF TypeOK, WsType
    <3>2. [pc |-> "update", run |-> wsC.run, answer |-> "none"] \in ReqType
      BY <3>1 DEF ReqType
    <3>3. reqs' \in [Requests -> ReqType]
      BY <2>0, <2>1, <3>2 DEF decide
    <3>q. QED
      BY <1>0, <2>1, <3>3 DEF decide, TInv, TypeOK, Working
  <2>2. CASE RecordApproval(q)
    <3>1. reqs' \in [Requests -> ReqType]
      BY <2>2, <2>m DEF RecordApproval
    <3>2. rows' \in [Runs -> RowType]
      BY <2>0, <2>2 DEF RecordApproval, RowType
    <3>q. QED
      BY <1>0, <2>2, <3>1, <3>2 DEF RecordApproval, TInv, TypeOK, Working
  <2>3. CASE GetApproval(q)
    <3>1. reqs' \in [Requests -> ReqType]
      BY <2>3, <2>m, <2>a DEF GetApproval
    <3>q. QED
      BY <1>0, <2>3, <3>1 DEF GetApproval, TInv, TypeOK, Working
  <2>4. CASE Patch(q)
    <3>1. reqs' \in [Requests -> ReqType]
      BY <2>4, <2>a DEF Patch
    <3>2. ws' \in WsType
      BY <1>0, <2>0, <2>4 DEF Patch, TypeOK, WsType
    <3>3. signalled' \subseteq Runs \X Decisions
      <4>1. reqs[q].run \in Runs
        BY <2>0, <2>4 DEF Patch, Decided, ReqType
      <4>q. QED
        BY <1>0, <2>0, <2>4, <4>1 DEF Patch, TypeOK
    <3>q. QED
      BY <1>0, <1>f, <2>4, <3>1, <3>2, <3>3 DEF Patch, TInv, TypeOK, Working
  <2>5. CASE requestFails(q)
    <3>1. reqs' \in [Requests -> ReqType]
      BY <2>5, <2>a DEF requestFails
    <3>q. QED
      BY <1>0, <1>f, <2>5, <3>1 DEF requestFails, TInv, TypeOK, Working
  <2>q. QED
    BY <1>3, <2>1, <2>2, <2>3, <2>4, <2>5 DEF Request
<1>4. CASE ListRuns
  <2> DEFINE next == nextCursor(reader.cursor)
  <2>1. next \in Nat \X Nat
    <3>1. NoCursor \in Nat \X Nat
      BY DEF NoCursor
    <3>2. \A c \in Runs : Key(c) \in Nat \X Nat
      BY <1>0, RunTimes DEF Key, TypeOK, RowType
    <3>q. QED
      BY <1>0, <3>1, <3>2, PageAndCursor
  <2>2. Page(reader.cursor) \subseteq Runs /\ Rest(NoCursor) \subseteq Runs
    BY DEF Page, Rest
  <2>3. NoReader \in ReaderType
    BY DEF NoReader, NoCursor, ReaderType
  <2>4. reader' = IF next = NoCursor THEN NoReader
                  ELSE [cursor  |-> next,
                        seen    |-> reader.seen \cup Page(reader.cursor),
                        present |-> IF reader = NoReader THEN Rest(NoCursor) ELSE reader.present]
    BY <1>4 DEF ListRuns
  <2>5. reader \in ReaderType
    BY <1>0 DEF TypeOK
  <2> HIDE DEF next
  <2>6. reader' \in ReaderType
    BY <2>1, <2>2, <2>3, <2>4, <2>5 DEF ReaderType
  <2>q. QED
    BY <1>0, <1>4, <2>6 DEF ListRuns, TInv, TypeOK, Working
<1>q. QED
  BY <1>1, <1>2, <1>3, <1>4 DEF API
-----------------------------------------------------------------------------
(* The invariants.                                                          *)

IInv == TInv /\ Decided /\ Stored /\ Ordered /\ Walking /\ Consistent

\* A report is merged into the row of its run; nothing else changes the table but
\* RecordApproval, and that only the decision.
LEMMA RowSteps ==
    ASSUME TInv, [Next]_vars
    PROVE  \/ rows' = rows
           \/ \E m \in net : /\ m.run \in Runs
                             /\ rows' = [rows EXCEPT ![m.run] = UpsertRun(rows[m.run], m)]
                             /\ UNCHANGED <<ws, wsC, job, ctl, logs, lostLogs, reqs, signalled, reader>>
           \/ \E q \in Requests : RecordApproval(q)
<1>0. TypeOK
  BY DEF TInv
<1>1. CASE Controller
  BY <1>1 DEF Controller, startFreshCycle, jobEnds, planFailed, createApplyJobIfApproved,
              applyFinished, archiveRunLogs, PutRunPhaseLog, archiveFails, bucketLost,
              RecordRunPhase, recorderReturns, controllerCrashes, Outside
<1>2. ASSUME NEW m \in net, recordReport(m)
      PROVE  \/ rows' = rows
             \/ /\ m.run \in Runs
                /\ rows' = [rows EXCEPT ![m.run] = UpsertRun(rows[m.run], m)]
                /\ UNCHANGED <<ws, wsC, job, ctl, logs, lostLogs, reqs, signalled, reader>>
  <2>1. m \in Reports /\ m.run \in Runs
    BY <1>0, ReportFields DEF TypeOK
  <2>q. QED
    BY <1>2, <2>1 DEF recordReport
<1>3. ASSUME NEW q \in Requests, Request(q) PROVE rows' = rows \/ RecordApproval(q)
  BY <1>3 DEF Request, decide, GetApproval, Patch, requestFails
<1>4. CASE sync \/ ListRuns \/ UNCHANGED vars
  BY <1>4 DEF sync, ListRuns, vars
<1>q. QED
  BY <1>1, <1>2, <1>3, <1>4 DEF Next, API

\* A step changes the decision of a run only by RecordApproval.
LEMMA ApprovalSteps ==
    ASSUME TInv, [Next]_vars, ~ \E q \in Requests : RecordApproval(q)
    PROVE  \A r \in Runs : rows'[r].approval = rows[r].approval
<1>0. rows \in [Runs -> RowType] /\ net \subseteq Reports
  BY DEF TInv, TypeOK
<1>1. ASSUME NEW m \in net, m.run \in Runs,
             rows' = [rows EXCEPT ![m.run] = UpsertRun(rows[m.run], m)]
      PROVE  \A r \in Runs : rows'[r].approval = rows[r].approval
  <2>1. UpsertRun(rows[m.run], m).approval = rows[m.run].approval
    BY <1>0, <1>1, UpsertType
  <2>q. QED
    BY <1>0, <1>1, <2>1
<1>q. QED
  BY <1>1, RowSteps

\* The requests move only by Request.
LEMMA RequestSteps ==
    ASSUME [Next]_vars, ~ \E q \in Requests : Request(q)
    PROVE  reqs' = reqs /\ signalled' = signalled
<1>1. CASE Controller
  BY <1>1 DEF Controller, startFreshCycle, jobEnds, planFailed, createApplyJobIfApproved,
              applyFinished, archiveRunLogs, PutRunPhaseLog, archiveFails, bucketLost,
              RecordRunPhase, recorderReturns, controllerCrashes, Outside
<1>q. QED
  BY <1>1 DEF Next, API, sync, recordReport, ListRuns, vars

\* A decision on record is not changed under a request that relies on it.
LEMMA DecidedKept ==
    ASSUME TInv, Decided, [Next]_vars
    PROVE  Decided'
<1>0. /\ reqs \in [Requests -> ReqType] /\ rows \in [Runs -> RowType]
      /\ \A q \in Requests : Wants[q] \in {"approved", "rejected"} /\ reqs[q].run \in Runs \cup {0}
      /\ 0 \notin Runs
  BY RecordsAssumption DEF TInv, TypeOK, ReqType, Runs
<1>s. ASSUME NEW p \in Requests, reqs[p].pc = "patch" PROVE reqs[p].run \in Runs
  BY <1>0, <1>s DEF Decided
<1>1. CASE ~ \E q \in Requests : Request(q)
  <2>1. reqs' = reqs /\ \A r \in Runs : rows'[r].approval = rows[r].approval
    BY <1>1, RequestSteps, ApprovalSteps DEF Request
  <2>q. QED
    BY <1>s, <2>1 DEF Decided
<1>2. ASSUME NEW q \in Requests, Request(q) PROVE Decided'
  <2>r. CASE RecordApproval(q)
    <3>0. reqs[q].run \in Runs
      BY <1>0, <2>r DEF RecordApproval, Decided
    <3>1. CASE rows[reqs[q].run].exists /\ rows[reqs[q].run].approval = "none"
      <4>1. /\ rows' = [rows EXCEPT ![reqs[q].run].approval = Wants[q]]
            /\ reqs' = [reqs EXCEPT ![q].pc = "patch"]
        BY <2>r, <3>1 DEF RecordApproval, Moves
      <4>2. \A r \in Runs : rows'[r].approval = IF r = reqs[q].run THEN Wants[q] ELSE rows[r].approval
        BY <1>0, <3>0, <4>1 DEF RowType
      <4>3. \A p \in Requests : /\ reqs'[p].run = reqs[p].run
                                /\ reqs'[p].pc = IF p = q THEN "patch" ELSE reqs[p].pc
        BY <1>0, <4>1 DEF ReqType
      <4>4. ASSUME NEW p \in Requests, p # q, reqs[p].pc = "patch" PROVE reqs[p].run # reqs[q].run
        BY <1>0, <3>1, <4>4 DEF Decided
      <4>5. reqs[q].pc # "idle"
        BY <2>r DEF RecordApproval
      <4>q. QED
        BY <1>s, <3>0, <4>2, <4>3, <4>4, <4>5 DEF Decided
    <3>2. CASE ~ (rows[reqs[q].run].exists /\ rows[reqs[q].run].approval = "none")
      <4>1. rows' = rows /\ reqs' = [reqs EXCEPT ![q].pc = "get"]
        BY <2>r, <3>2 DEF RecordApproval, Moves
      <4>3. \A p \in Requests : /\ reqs'[p].run = reqs[p].run
                                /\ reqs'[p].pc = IF p = q THEN "get" ELSE reqs[p].pc
        BY <1>0, <4>1 DEF ReqType
      <4>5. reqs[q].pc # "idle"
        BY <2>r DEF RecordApproval
      <4>q. QED
        BY <4>1, <4>3, <4>5 DEF Decided
    <3>q. QED
      BY <3>1, <3>2
  <2>n. CASE ~ RecordApproval(q)
    <3>0. rows' = rows
      BY <1>2, <2>n DEF Request, decide, GetApproval, Patch, requestFails
    <3>1. ASSUME NEW a, Answers(q, a) PROVE Decided'
      <4>1. \A p \in Requests : reqs'[p] = IF p = q THEN [pc |-> "idle", run |-> 0, answer |-> a]
                                           ELSE reqs[p]
        BY <1>0, <3>1 DEF Answers
      <4>q. QED
        BY <3>0, <4>1 DEF Decided
    <3>2. CASE decide(q)
      <4>1. \A p \in Requests : reqs'[p] = IF p = q THEN [pc |-> "update", run |-> wsC.run, answer |-> "none"]
                                           ELSE reqs[p]
        BY <1>0, <3>2 DEF decide
      <4>2. wsC.run \in Runs
        BY DEF TInv, TypeOK, WsType
      <4>q. QED
        BY <1>0, <3>0, <4>1, <4>2 DEF Decided
    <3>3. ASSUME reqs[q].pc # "idle", rows[reqs[q].run].approval = Wants[q], Moves(q, "patch")
          PROVE  Decided'
      <4>3. \A p \in Requests : /\ reqs'[p].run = reqs[p].run
                                /\ reqs'[p].pc = IF p = q THEN "patch" ELSE reqs[p].pc
        BY <1>0, <3>3 DEF ReqType, Moves
      <4>q. QED
        BY <3>0, <3>3, <4>3 DEF Decided
    <3>q. QED
      BY <1>2, <2>n, <3>1, <3>2, <3>3 DEF Request, GetApproval, Patch, requestFails
  <2>q. QED
    BY <2>r, <2>n
<1>q. QED
  BY <1>1, <1>2

\* What UpsertRun does to the fields the invariants speak of.
LEMMA UpsertFields ==
    ASSUME NEW row, NEW m \in Reports
    PROVE  /\ UpsertRun(row, m).exists
           /\ UpsertRun(row, m).plan # "none" => row.plan # "none" \/ m.plan # "none"
           /\ UpsertRun(row, m).apply # "none" => row.apply # "none" \/ m.apply # "none"
           /\ \/ row.exists /\ UpsertRun(row, m).sort = row.sort
              \/ Within(UpsertRun(row, m).sort, m.run)
<1>1. Within(sortTime(m), m.run)
  <2>1. m.run \in Nat /\ m.started \in {0, 3 * m.run + 1}
    BY ReportFields, RunTimes DEF Started
  <2>q. QED
    BY <2>1 DEF Within, sortTime, firstNonEmpty, Minted, ApplyStarted
<1>q. QED
  BY <1>1 DEF UpsertRun, coalesce

\* archiveRunLogs stores the log of a phase before it reports the phase.
LEMMA StoredKept ==
    ASSUME TInv, Stored, [Next]_vars
    PROVE  Stored'
<1>0. /\ rows \in [Runs -> RowType] /\ net \subseteq Reports /\ ws.run \in Runs
      /\ \A m \in net : m.run \in Runs
      /\ job[1] \in {"plan", "apply"} /\ ws \in WsType /\ ctl \in CtlType
  BY ReportFields DEF TInv, TypeOK, WsType, JobType
<1>k. logs \cup lostLogs \subseteq logs' \cup lostLogs' => \A m : Kept(m) => Kept(m)'
  BY DEF Kept
<1>r. ASSUME rows' = rows, logs \cup lostLogs \subseteq logs' \cup lostLogs' PROVE PhaseLogReadable'
  BY <1>r DEF Stored, PhaseLogReadable
<1>1. CASE Controller
  <2>1. rows' = rows
    BY <1>1 DEF Controller, startFreshCycle, jobEnds, planFailed, createApplyJobIfApproved,
                applyFinished, archiveRunLogs, PutRunPhaseLog, archiveFails, bucketLost,
                RecordRunPhase, recorderReturns, controllerCrashes, Outside
  <2>2. CASE startFreshCycle
    <3>1. Kept(ReportScheduled(ws.run + 1))
      BY DEF Kept, ReportScheduled, NoReport
    <3>2. UNCHANGED <<logs, lostLogs, net>>
      BY <2>2 DEF startFreshCycle
    <3>3. ctl'.pc \in {"idle", "send"} /\ (ctl'.pc = "send" => Kept(ctl'.report))
      BY <2>2, <3>1 DEF startFreshCycle
    <3>4. ctl'.pc = "send" => Kept(ctl.report)'
      BY <3>2, <3>3 DEF Kept
    <3>q. QED
      BY <1>k, <1>r, <2>1, <3>2, <3>3, <3>4 DEF Stored
  <2>3. ASSUME NEW res, jobEnds(res) PROVE Stored'
    <3>1. UNCHANGED <<ws, ctl, logs, lostLogs, net>> /\ job'[1] = job[1]
      BY <2>3 DEF jobEnds
    <3>q. QED
      BY <1>k, <1>r, <2>1, <3>1 DEF Stored, Kept
  <2>4. ASSUME NEW m, NEW then, archiveRunLogs(m, then), ws'.run = ws.run, m.run = ws.run,
               m.plan # "none" => job[1] = "plan", m.apply # "none" => job[1] = "apply"
        PROVE  Stored'
    <3>1. UNCHANGED <<job, logs, lostLogs, net>> /\ ctl'.pc = "put" /\ ctl'.report = m
      BY <2>4 DEF archiveRunLogs
    <3>q. QED
      BY <1>k, <1>r, <2>1, <2>4, <3>1 DEF Stored
  <2>5. CASE planFailed \/ createApplyJobIfApproved
    <3>1. \A res : /\ ReportPlan(ws.run, res).run = ws.run
                   /\ ReportPlan(ws.run, res).apply = "none"
      BY DEF ReportPlan, NoReport
    <3>2. ws'.run = ws.run /\ job[1] = "plan"
      BY <2>5 DEF planFailed, createApplyJobIfApproved, TInv, TypeOK, WsType
    <3>q. QED
      BY <2>4, <2>5, <3>1, <3>2 DEF planFailed, createApplyJobIfApproved
  <2>6. CASE applyFinished
    <3>1. \A res : /\ ReportApply(ws.run, res).run = ws.run
                   /\ ReportApply(ws.run, res).plan = "none"
      BY DEF ReportApply, NoReport
    <3>2. ws'.run = ws.run /\ job[1] = "apply"
      BY <2>6 DEF applyFinished
    <3>q. QED
      BY <2>4, <2>6, <3>1, <3>2 DEF applyFinished
  <2>7. CASE PutRunPhaseLog
    <3>1. /\ UNCHANGED <<ws, job, lostLogs, net>> /\ logs' = logs \cup {<<ws.run, job[1]>>}
          /\ ctl'.pc = "send" /\ ctl'.report = ctl.report
      BY <1>0, <2>7 DEF PutRunPhaseLog, CtlType
    <3>2. Kept(ctl.report)'
      BY <2>7, <3>1 DEF Kept, Stored, PutRunPhaseLog
    <3>q. QED
      BY <1>k, <1>r, <2>1, <3>1, <3>2 DEF Stored
  <2>8. CASE archiveFails \/ recorderReturns \/ controllerCrashes
    <3>0. ctl' = Idle /\ UNCHANGED <<logs, lostLogs, net>>
      BY <2>8 DEF archiveFails, recorderReturns, controllerCrashes, archiveEnds
    <3>1. UNCHANGED <<logs, lostLogs, net>> /\ ctl'.pc = "idle"
      BY <3>0 DEF Idle
    <3>q. QED
      BY <1>k, <1>r, <2>1, <3>1 DEF Stored
  <2>9. CASE bucketLost
    <3>1. UNCHANGED <<ws, job, ctl, net>> /\ logs' \cup lostLogs' = logs \cup lostLogs
      BY <2>9 DEF bucketLost
    <3>q. QED
      BY <1>k, <1>r, <2>1, <3>1 DEF Stored, Kept
  <2>10. CASE RecordRunPhase
    <3>1. /\ UNCHANGED <<logs, lostLogs>> /\ net' = net \cup {ctl.report}
          /\ ctl'.pc = "wait" /\ ctl'.report = ctl.report /\ Kept(ctl.report)
      BY <2>10 DEF RecordRunPhase, TInv, TypeOK, CtlType, Stored
    <3>2. Kept(ctl.report)'
      BY <3>1 DEF Kept
    <3>q. QED
      BY <1>k, <1>r, <2>1, <3>1, <3>2 DEF Stored
  <2>q. QED
    BY <1>1, <2>2, <2>3, <2>5, <2>6, <2>7, <2>8, <2>9, <2>10 DEF Controller
<1>2. ASSUME UNCHANGED <<job, ctl, logs, lostLogs>>, net' \subseteq net, ws'.run = ws.run,
             PhaseLogReadable'
      PROVE  Stored'
  BY <1>k, <1>2 DEF Stored, Kept
<1>3. ASSUME NEW m \in net, recordReport(m) PROVE Stored'
  <2>1. PhaseLogReadable'
    <3>1. CASE rows' = rows
      BY <1>3, <1>r, <3>1 DEF recordReport
    <3>2. CASE rows' = [rows EXCEPT ![m.run] = UpsertRun(rows[m.run], m)]
      <4>1. Kept(m) /\ m \in Reports /\ m.run \in Runs /\ PhaseLogReadable
        BY <1>0, <1>3 DEF Stored
      <4>2. \A r \in Runs : /\ rows'[r].plan # "none" => rows[r].plan # "none" \/ (r = m.run /\ m.plan # "none")
                            /\ rows'[r].apply # "none" => rows[r].apply # "none" \/ (r = m.run /\ m.apply # "none")
        BY <1>0, <3>2, <4>1, UpsertFields
      <4>3. UNCHANGED <<logs, lostLogs>>
        BY <1>3 DEF recordReport
      <4>q. QED
        BY <4>1, <4>2, <4>3 DEF PhaseLogReadable, Kept
    <3>q. QED
      BY <1>3, <3>1, <3>2 DEF recordReport
  <2>q. QED
    BY <1>2, <1>3, <2>1 DEF recordReport
<1>4. ASSUME NEW q \in Requests, Request(q) PROVE Stored'
  <2>0. ws' = ws \/ ws' = [ws EXCEPT !.decision = Wants[q]]
    BY <1>4 DEF Request, decide, RecordApproval, GetApproval, Patch, requestFails
  <2>1. UNCHANGED <<job, ctl, logs, lostLogs, net>> /\ ws'.run = ws.run
    <3>1. ws'.run = ws.run
      BY <1>0, <2>0 DEF WsType
    <3>q. QED
      BY <1>4, <3>1 DEF Request, decide, RecordApproval, GetApproval, Patch, requestFails
  <2>2. \A r \in Runs : rows'[r].plan = rows[r].plan /\ rows'[r].apply = rows[r].apply
    <3>1. CASE RecordApproval(q)
      BY <1>0, <3>1 DEF RecordApproval, RowType
    <3>2. CASE ~ RecordApproval(q)
      BY <1>4, <3>2 DEF Request, decide, GetApproval, Patch, requestFails
    <3>q. QED
      BY <3>1, <3>2
  <2>3. PhaseLogReadable'
    <3>1. PhaseLogReadable
      BY DEF Stored
    <3>q. QED
      BY <2>1, <2>2, <3>1 DEF PhaseLogReadable
  <2>q. QED
    BY <1>2, <2>1, <2>3
<1>5. CASE sync \/ ListRuns \/ UNCHANGED vars
  BY <1>2, <1>5, <1>r DEF sync, ListRuns, vars
<1>q. QED
  BY <1>1, <1>3, <1>4, <1>5 DEF Next, API

\* Rows appear and stay, and their sort times keep within their runs.
LEMMA OrderedKept ==
    ASSUME TInv, Ordered, [Next]_vars
    PROVE  Ordered' /\ \A r \in Runs : rows[r].exists => rows'[r].exists
<1>0. rows \in [Runs -> RowType] /\ net \subseteq Reports
  BY DEF TInv, TypeOK
<1>1. CASE rows' = rows
  BY <1>1 DEF Ordered
<1>2. ASSUME NEW m \in net, m.run \in Runs,
             rows' = [rows EXCEPT ![m.run] = UpsertRun(rows[m.run], m)]
      PROVE  Ordered' /\ \A r \in Runs : rows[r].exists => rows'[r].exists
  <2>1. \A r \in Runs : r # m.run => rows'[r] = rows[r]
    BY <1>0, <1>2
  <2>2. /\ rows'[m.run].exists
        /\ \/ rows[m.run].exists /\ rows'[m.run].sort = rows[m.run].sort
           \/ Within(rows'[m.run].sort, m.run)
    BY <1>0, <1>2, UpsertFields
  <2>q. QED
    BY <1>2, <2>1, <2>2 DEF Ordered
<1>3. ASSUME NEW q \in Requests, RecordApproval(q)
      PROVE  Ordered' /\ \A r \in Runs : rows[r].exists => rows'[r].exists
  <2>1. \A r \in Runs : rows'[r].exists = rows[r].exists /\ rows'[r].sort = rows[r].sort
    BY <1>0, <1>3 DEF RecordApproval, RowType
  <2>q. QED
    BY <2>1 DEF Ordered
<1>q. QED
  BY <1>1, <1>2, <1>3, RowSteps

\* Only ListRuns moves the reader.
LEMMA ReaderSteps ==
    ASSUME [Next]_vars, ~ ListRuns
    PROVE  reader' = reader
<1>1. CASE Controller
  BY <1>1 DEF Controller, startFreshCycle, jobEnds, planFailed, createApplyJobIfApproved,
              applyFinished, archiveRunLogs, PutRunPhaseLog, archiveFails, bucketLost,
              RecordRunPhase, recorderReturns, controllerCrashes, Outside
<1>q. QED
  BY <1>1 DEF Next, API, sync, recordReport, Request, decide, RecordApproval, GetApproval,
              Patch, requestFails, vars

\* What a walk has not seen yet is in what is left after its cursor.
LEMMA WalkLeft ==
    ASSUME TInv, Ordered, Walking, reader # NoReader, NEW r \in reader.present
    PROVE  r \in reader.seen \/ r \in Rest(reader.cursor)
<1>1. TypeOK /\ reader \in ReaderType /\ r \in Runs
  BY DEF TInv, TypeOK, ReaderType
<1>2. reader.cursor = <<reader.cursor[1], reader.cursor[2]>>
  BY <1>1 DEF ReaderType
<1>3. /\ reader.cursor[2] \in Runs /\ Within(reader.cursor[1], reader.cursor[2])
      /\ rows[r].exists /\ (r \in reader.seen \/ r < reader.cursor[2])
  BY DEF Walking
<1>q. QED
  BY <1>1, <1>2, <1>3, CursorOrder

\* Reports that arrive between two pages take nothing across the cursor.
LEMMA WalkingKept ==
    ASSUME TInv, Ordered, Walking, [Next]_vars
    PROVE  Walking'
<1>0. TypeOK /\ reader \in ReaderType
  BY DEF TInv, TypeOK
<1>1. CASE ~ ListRuns
  <2>1. reader' = reader /\ (reader.present \subseteq Runs)
    BY <1>0, <1>1, ReaderSteps DEF ReaderType
  <2>2. \A r \in Runs : rows[r].exists => rows'[r].exists
    BY OrderedKept
  <2>q. QED
    BY <2>1, <2>2 DEF Walking
<1>2. CASE ListRuns
  <2> DEFINE next == nextCursor(reader.cursor)
             present == IF reader = NoReader THEN Rest(NoCursor) ELSE reader.present
             seen == reader.seen \cup Page(reader.cursor)
  <2>1. /\ rows' = rows
        /\ reader' = IF next = NoCursor THEN NoReader
                     ELSE [cursor |-> next, seen |-> seen, present |-> present]
    BY <1>2 DEF ListRuns
  <2>2. CASE next = NoCursor
    BY <2>1, <2>2 DEF Walking
  <2>3. CASE next # NoCursor
    <3>1. PICK c \in Runs : /\ next = Key(c) /\ rows[c].exists
                            /\ \A r \in Rest(reader.cursor) \ Page(reader.cursor) : r < c
      BY <1>0, <2>3, PageAndCursor
    <3>2. next[2] = c /\ next[1] = rows[c].sort
      BY <3>1 DEF Key
    <3>3. Within(next[1], c)
      BY <3>1, <3>2 DEF Ordered
    <3>4. ASSUME NEW r \in present
          PROVE  rows[r].exists /\ (r \in reader.seen \/ r \in Rest(reader.cursor))
      <4>1. CASE reader = NoReader
        BY <3>4, <4>1 DEF NoReader, Rest
      <4>2. CASE reader # NoReader
        BY <3>4, <4>2, WalkLeft DEF Walking
      <4>q. QED
        BY <4>1, <4>2
    <3>5. ASSUME NEW r \in present PROVE rows[r].exists /\ (r \in seen \/ r < c)
      BY <3>1, <3>4
    <3>6. reader' = [cursor |-> next, seen |-> seen, present |-> present]
      BY <2>1, <2>3
    <3> HIDE DEF next, seen, present
    <3>7. reader'.cursor = next /\ reader'.seen = seen /\ reader'.present = present
      BY <3>6
    <3>q. QED
      BY <2>1, <3>2, <3>3, <3>5, <3>7 DEF Walking
  <2>q. QED
    BY <2>2, <2>3
<1>q. QED
  BY <1>1, <1>2

\* The last page completes the walk.
LEMMA WalkStep ==
    ASSUME TInv, Ordered, Walking, [Next]_vars, reader # NoReader, reader' = NoReader
    PROVE  reader.present \subseteq reader.seen \cup Page(reader.cursor)
<1>0. TypeOK
  BY DEF TInv
<1>1. ListRuns
  BY ReaderSteps
<1>2. nextCursor(reader.cursor) = NoCursor
  <2>1. \/ nextCursor(reader.cursor) = NoCursor
        \/ reader'.cursor = nextCursor(reader.cursor)
    BY <1>1 DEF ListRuns
  <2>2. NoReader.cursor = NoCursor
    BY DEF NoReader
  <2>q. QED
    BY <2>1, <2>2
<1>3. Page(reader.cursor) = Rest(reader.cursor)
  <2>1. ASSUME NEW c \in Runs PROVE Key(c) # NoCursor
    BY RunTimes DEF Key, NoCursor
  <2>q. QED
    BY <1>0, <1>2, <2>1, PageAndCursor
<1>q. QED
  BY <1>3, WalkLeft

\* A run's Job says one thing of a phase.
LEMMA CurrentOnce ==
    ASSUME NEW phase \in {"plan", "apply"}, NEW x, NEW y, Current(phase, x), Current(phase, y)
    PROVE  x = y
<1>1. job = <<phase, x>> => job[1] = phase /\ job[2] = x
  OBVIOUS
<1>2. job = <<phase, y>> => job[1] = phase /\ job[2] = y
  OBVIOUS
<1>q. QED
  BY <1>1, <1>2 DEF Current

\* Consistent outlives a step that says nothing new, or one result of the current run's Job.
LEMMA SaidGrows ==
    ASSUME TInv, Consistent, ws'.run = ws.run, job' = job,
           \A r \in Runs, phase \in {"plan", "apply"}, x \in Outcomes :
               Said(r, phase, x)' => Said(r, phase, x) \/ (r = ws.run /\ Current(phase, x)),
           \A r \in Runs : rows'[r].started \in {0, Started(r)},
           ctl'.pc # "idle" /\ ctl'.then = "Applying" => job = <<"plan", "Succeeded">>
    PROVE  Consistent'
<1>0. ws.run \in Nat
  BY RunTimes DEF TInv, TypeOK, WsType
<1>1. \A phase, x : Current(phase, x)' <=> Current(phase, x)
  BY DEF Current
<1>2. ASSUME NEW r \in Runs, NEW phase \in {"plan", "apply"}, NEW x \in Outcomes,
             Said(r, phase, x)'
      PROVE  /\ r <= ws'.run
             /\ r = ws'.run => Current(phase, x)'
             /\ \A y \in Outcomes : Said(r, phase, y)' => x = y
  <2>1. r <= ws'.run /\ (r = ws'.run => Current(phase, x)')
    BY <1>0, <1>1, <1>2 DEF Consistent
  <2>2. ASSUME NEW y \in Outcomes, Said(r, phase, y)' PROVE x = y
    <3>1. CASE Said(r, phase, x) /\ Said(r, phase, y)
      BY <3>1 DEF Consistent
    <3>2. CASE r = ws.run
      <4>1. Current(phase, x) /\ Current(phase, y)
        BY <1>2, <2>2, <3>2 DEF Consistent
      <4>q. QED
        BY <4>1, CurrentOnce
    <3>q. QED
      BY <1>2, <2>2, <3>1, <3>2
  <2>q. QED
    BY <2>1, <2>2
<1>q. QED
  BY <1>2 DEF Consistent

\* All that is reported of a phase of a run comes from one Job.
LEMMA ConsistentKept ==
    ASSUME TInv, Consistent, [Next]_vars
    PROVE  Consistent'
<1>0. /\ rows \in [Runs -> RowType] /\ net \subseteq Reports /\ ws \in WsType /\ ctl \in CtlType
      /\ ws.run \in Runs /\ ws.run \in Nat
      /\ \A m \in net : m.run \in Runs
  BY ReportFields, RunTimes DEF TInv, TypeOK, WsType
<1>s. ASSUME rows' = rows PROVE \A r \in Runs : rows'[r].started \in {0, Started(r)}
  BY <1>s DEF Consistent
<1>1. CASE Controller
  <2>1. rows' = rows
    BY <1>1 DEF Controller, startFreshCycle, jobEnds, planFailed, createApplyJobIfApproved,
                applyFinished, archiveRunLogs, PutRunPhaseLog, archiveFails, bucketLost,
                RecordRunPhase, recorderReturns, controllerCrashes, Outside
  <2>2. CASE startFreshCycle
    <3>1. net' = net /\ ws'.run = ws.run + 1
      BY <1>0, <2>2 DEF startFreshCycle, WsType
    <3>2. ctl.pc = "idle" /\ (ctl' = ctl \/ (/\ ctl'.report = ReportScheduled(ws.run + 1)
                                             /\ ctl'.then = "Planning"))
      BY <2>2 DEF startFreshCycle
    <3>3. ASSUME NEW r \in Runs, NEW phase \in {"plan", "apply"}, NEW x \in Outcomes,
                 Said(r, phase, x)'
          PROVE  Said(r, phase, x)
      <4>1. \A n : ~ Says(ReportScheduled(n), phase, x)
        BY DEF Says, ReportScheduled, NoReport, Outcomes
      <4>q. QED
        BY <2>1, <3>1, <3>2, <3>3, <4>1 DEF Said, Says
    <3>4. ASSUME NEW r \in Runs, NEW phase \in {"plan", "apply"}, NEW x \in Outcomes,
                 Said(r, phase, x)'
          PROVE  /\ r <= ws'.run /\ r # ws'.run
                 /\ \A y \in Outcomes : Said(r, phase, y)' => x = y
      <4>1. r <= ws.run /\ r \in Nat
        BY <3>3, <3>4, RunTimes DEF Consistent
      <4>2. \A y \in Outcomes : Said(r, phase, y)' => x = y
        BY <3>3, <3>4 DEF Consistent
      <4>q. QED
        BY <1>0, <3>1, <4>1, <4>2
    <3>q. QED
      BY <1>s, <2>1, <3>2, <3>4 DEF Consistent
  <2>3. ASSUME NEW res \in Outcomes, jobEnds(res) PROVE Consistent'
    <3>1. UNCHANGED <<ws, ctl, net>> /\ job[2] = "runs" /\ job' = <<job[1], res>>
      BY <2>3 DEF jobEnds
    <3>2. \A r, phase, x : Said(r, phase, x)' <=> Said(r, phase, x)
      BY <2>1, <3>1 DEF Said, Says
    <3>3. ASSUME NEW phase, NEW x \in Outcomes, Current(phase, x) PROVE Current(phase, x)'
      <4>1. job # <<phase, x>>
        BY <3>1 DEF Outcomes
      <4>q. QED
        BY <3>1, <3>3, <4>1 DEF Current
    <3>4. ~ (ctl'.pc # "idle" /\ ctl'.then = "Applying")
      BY <3>1 DEF Consistent
    <3>q. QED
      BY <1>s, <2>1, <3>1, <3>2, <3>3, <3>4 DEF Consistent
  <2>4. ASSUME NEW m, NEW then, archiveRunLogs(m, then), ws'.run = ws.run, m.run = ws.run,
               \A phase \in {"plan", "apply"}, x \in Outcomes :
                   Says(m, phase, x) => Current(phase, x),
               then = "Applying" => job = <<"plan", "Succeeded">>
        PROVE  Consistent'
    <3>1. UNCHANGED <<job, net>> /\ ctl'.pc = "put" /\ ctl'.report = m /\ ctl'.then = then
      BY <2>4 DEF archiveRunLogs
    <3>2. \A r \in Runs, phase \in {"plan", "apply"}, x \in Outcomes :
              Said(r, phase, x)' => Said(r, phase, x) \/ (r = ws.run /\ Says(m, phase, x))
      BY <2>1, <2>4, <3>1 DEF Said, Says
    <3>q. QED
      BY <1>s, <2>1, <2>4, <3>1, <3>2, SaidGrows
  <2>5. CASE planFailed \/ createApplyJobIfApproved
    <3>1. ASSUME NEW n, NEW x \in Outcomes
          PROVE  /\ ReportPlan(n, x).run = n
                 /\ \A phase \in {"plan", "apply"}, y \in Outcomes :
                        Says(ReportPlan(n, x), phase, y) => phase = "plan" /\ y = x
      BY DEF ReportPlan, NoReport, Says, Outcomes
    <3>2. ws'.run = ws.run
      BY <1>0, <2>5 DEF planFailed, createApplyJobIfApproved, WsType
    <3>3. CASE planFailed
      <4>1. /\ job = <<"plan", "Failed">> /\ archiveRunLogs(ReportPlan(ws.run, "Failed"), "Failed")
            /\ "Failed" \in Outcomes
        BY <3>3 DEF planFailed, Outcomes
      <4>q. QED
        BY <2>4, <3>1, <3>2, <4>1 DEF Current
    <3>4. CASE createApplyJobIfApproved
      <4>1. /\ job = <<"plan", "Succeeded">> /\ "Succeeded" \in Outcomes
            /\ \E then : archiveRunLogs(ReportPlan(ws.run, "Succeeded"), then)
        BY <3>4 DEF createApplyJobIfApproved, Outcomes
      <4>q. QED
        BY <2>4, <3>1, <3>2, <4>1 DEF Current
    <3>q. QED
      BY <2>5, <3>3, <3>4
  <2>6. CASE applyFinished
    <3>1. ASSUME NEW n, NEW x \in Outcomes
          PROVE  /\ ReportApply(n, x).run = n
                 /\ \A phase \in {"plan", "apply"}, y \in Outcomes :
                        Says(ReportApply(n, x), phase, y) => phase = "apply" /\ y = x
      BY DEF ReportApply, NoReport, Says, Outcomes
    <3>2. /\ ws'.run = ws.run /\ job[2] \in Outcomes /\ job = <<"apply", job[2]>>
          /\ \E then : archiveRunLogs(ReportApply(ws.run, job[2]), then) /\ then # "Applying"
      BY <2>6 DEF applyFinished, Outcomes
    <3>q. QED
      BY <2>4, <3>1, <3>2 DEF Current
  <2>7. CASE PutRunPhaseLog \/ RecordRunPhase
    <3>1. /\ UNCHANGED <<ws, job>> /\ ctl.pc # "idle" /\ net' \subseteq net \cup {ctl.report}
          /\ ctl'.pc # "idle" /\ ctl'.report = ctl.report /\ ctl'.then = ctl.then
      BY <1>0, <2>7 DEF PutRunPhaseLog, RecordRunPhase, CtlType
    <3>2. \A r, phase, x : Said(r, phase, x)' => Said(r, phase, x)
      BY <2>1, <3>1 DEF Said, Says
    <3>3. ctl'.then = "Applying" => job = <<"plan", "Succeeded">>
      BY <3>1 DEF Consistent
    <3>q. QED
      BY <1>s, <2>1, <3>1, <3>2, <3>3, SaidGrows
  <2>8. CASE archiveFails \/ recorderReturns
    <3>1. ctl.pc # "idle" /\ archiveEnds /\ net' = net
      BY <2>8 DEF archiveFails, recorderReturns
    <3>2. ctl'.pc = "idle" /\ ws'.run = ws.run
      BY <1>0, <3>1 DEF archiveEnds, Idle, WsType
    <3>3. \A r, phase, x : Said(r, phase, x)' => Said(r, phase, x)
      BY <2>1, <3>1, <3>2 DEF Said, Says
    <3>4. job' = job \/ (job = <<"plan", "Succeeded">> /\ job' = <<"apply", "runs">>)
      BY <3>1 DEF archiveEnds, Consistent
    <3>5. ASSUME NEW phase, NEW x, Current(phase, x) PROVE Current(phase, x)'
      BY <3>4, <3>5 DEF Current
    <3>q. QED
      BY <1>s, <2>1, <3>2, <3>3, <3>5 DEF Consistent
  <2>9. CASE bucketLost \/ controllerCrashes
    <3>1. UNCHANGED <<ws, job, net>> /\ (ctl' = ctl \/ ctl'.pc = "idle")
      <4>1. Idle.pc = "idle"
        BY DEF Idle
      <4>q. QED
        BY <2>9, <4>1 DEF bucketLost, controllerCrashes
    <3>2. \A r, phase, x : Said(r, phase, x)' => Said(r, phase, x)
      BY <2>1, <3>1 DEF Said, Says
    <3>3. ctl'.pc # "idle" /\ ctl'.then = "Applying" => job = <<"plan", "Succeeded">>
      BY <3>1 DEF Consistent
    <3>q. QED
      BY <1>s, <2>1, <3>1, <3>2, <3>3, SaidGrows
  <2>q. QED
    BY <1>1, <2>2, <2>3, <2>5, <2>6, <2>7, <2>8, <2>9 DEF Controller, Outcomes
<1>c. ctl' = ctl => (ctl'.pc # "idle" /\ ctl'.then = "Applying" => job = <<"plan", "Succeeded">>)
  BY DEF Consistent
<1>2. ASSUME NEW m \in net, recordReport(m) PROVE Consistent'
  <2>0. m \in Reports /\ m.run \in Runs /\ UNCHANGED <<ws, job, ctl>> /\ net' \subseteq net
    BY <1>0, <1>2 DEF recordReport
  <2>1. CASE rows' = rows
    <3>1. \A r, phase, x : Said(r, phase, x)' => Said(r, phase, x)
      BY <2>0, <2>1 DEF Said, Says
    <3>q. QED
      BY <1>c, <1>s, <2>0, <2>1, <3>1, SaidGrows
  <2>2. CASE rows' = [rows EXCEPT ![m.run] = UpsertRun(rows[m.run], m)]
    <3>1. ASSUME NEW r \in Runs
          PROVE  /\ rows'[r].started \in {0, Started(r)}
                 /\ \A phase, x : Says(rows'[r], phase, x) =>
                        Says(rows[r], phase, x) \/ (r = m.run /\ Says(m, phase, x))
      <4>1. CASE r # m.run
        BY <1>0, <2>2, <4>1 DEF Consistent
      <4>2. CASE r = m.run
        <5>1. rows'[r] = UpsertRun(rows[r], m)
          BY <1>0, <2>2, <4>2
        <5>2. /\ rows'[r].started \in {rows[r].started, m.started}
              /\ rows'[r].plan \in {rows[r].plan, m.plan}
              /\ rows'[r].apply \in {rows[r].apply, m.apply}
          <6>1. rows'[r].started \in {rows[r].started, m.started}
            BY <5>1, UpsertMerges DEF firstNonEmpty
          <6>2. rows'[r].plan \in {rows[r].plan, m.plan}
            BY <5>1, UpsertMerges DEF coalesce
          <6>3. rows'[r].apply \in {rows[r].apply, m.apply}
            BY <5>1, UpsertMerges DEF coalesce
          <6>q. QED
            BY <6>1, <6>2, <6>3
        <5>3. rows[r].started \in {0, Started(r)} /\ m.started \in {0, Started(r)}
          BY <2>0, <4>2, ReportFields DEF Consistent
        <5>4. \A phase, x : Says(rows'[r], phase, x) => Says(rows[r], phase, x) \/ Says(m, phase, x)
          BY <5>2 DEF Says
        <5>5. rows'[r].started \in {0, Started(r)}
          BY <5>2, <5>3
        <5>q. QED
          BY <4>2, <5>4, <5>5
      <4>q. QED
        BY <4>1, <4>2
    <3>2. \A r \in Runs : \A phase, x : Said(r, phase, x)' => Said(r, phase, x)
      BY <2>0, <3>1 DEF Said, Says
    <3>q. QED
      BY <1>c, <2>0, <3>1, <3>2, SaidGrows
  <2>q. QED
    BY <1>2, <2>1, <2>2 DEF recordReport
<1>3. ASSUME NEW q \in Requests, Request(q) PROVE Consistent'
  <2>1. UNCHANGED <<job, ctl, net>> /\ (ws' = ws \/ ws' = [ws EXCEPT !.decision = Wants[q]])
    BY <1>3 DEF Request, decide, RecordApproval, GetApproval, Patch, requestFails
  <2>2. ws'.run = ws.run
    BY <1>0, <2>1 DEF WsType
  <2>3. \A r \in Runs : /\ rows'[r].plan = rows[r].plan /\ rows'[r].apply = rows[r].apply
                        /\ rows'[r].started = rows[r].started
    <3>1. CASE RecordApproval(q)
      BY <1>0, <3>1 DEF RecordApproval, RowType
    <3>2. CASE ~ RecordApproval(q)
      BY <1>3, <3>2 DEF Request, decide, GetApproval, Patch, requestFails
    <3>q. QED
      BY <3>1, <3>2
  <2>4. \A r \in Runs : \A phase, x : Said(r, phase, x)' => Said(r, phase, x)
    BY <2>1, <2>3 DEF Said, Says
  <2>5. \A r \in Runs : rows'[r].started \in {0, Started(r)}
    BY <2>3 DEF Consistent
  <2>q. QED
    BY <1>c, <2>1, <2>2, <2>4, <2>5, SaidGrows
<1>4. CASE sync \/ ListRuns \/ UNCHANGED vars
  <2>1. UNCHANGED <<ws, job, ctl, net, rows>>
    BY <1>4 DEF sync, ListRuns, vars
  <2>2. \A r, phase, x : Said(r, phase, x)' => Said(r, phase, x)
    BY <2>1 DEF Said, Says
  <2>q. QED
    BY <1>c, <1>s, <2>1, <2>2, SaidGrows
<1>q. QED
  BY <1>1, <1>2, <1>3, <1>4 DEF Next, API

\* The inductive invariant holds at first,
LEMMA InitIInv == Init => IInv
<1> SUFFICES ASSUME Init PROVE IInv
  OBVIOUS
<1>1. TInv
  BY InitTInv
<1>2. /\ \A r \in Runs : rows[r] = NoRow
      /\ \A q \in Requests : reqs[q] = [pc |-> "idle", run |-> 0, answer |-> "none"]
      /\ net = {} /\ ctl.pc = "idle" /\ reader = NoReader
  BY DEF Init, Idle
<1>3. Decided
  BY <1>2 DEF Decided
<1>4. NoRow.plan = "none" /\ NoRow.apply = "none" /\ NoRow.exists = FALSE
  BY DEF NoRow
<1>5. Stored /\ Ordered /\ Walking
  BY <1>2, <1>4 DEF Stored, PhaseLogReadable, Ordered, Walking
<1>6. \A r \in Runs, phase \in {"plan", "apply"}, x \in Outcomes : ~ Said(r, phase, x)
  BY <1>2, <1>4 DEF Said, Says, Outcomes
<1>7. Consistent
  BY <1>2, <1>6 DEF Consistent, NoRow
<1>q. QED
  BY <1>1, <1>3, <1>5, <1>7 DEF IInv

\* and every step keeps it.
LEMMA NextIInv == IInv /\ [Next]_vars => IInv'
<1> SUFFICES ASSUME IInv, [Next]_vars PROVE IInv'
  OBVIOUS
<1>0. TInv /\ Decided /\ Stored /\ Ordered /\ Walking /\ Consistent
  BY DEF IInv
<1>1. TInv'
  <2>1. CASE UNCHANGED vars
    BY <1>0, <2>1 DEF vars, TInv, TypeOK, Working
  <2>q. QED
    BY <1>0, <2>1, ControllerTInv, APITInv DEF Next
<1>q. QED
  BY <1>0, <1>1, DecidedKept, StoredKept, OrderedKept, WalkingKept, ConsistentKept
     DEF IInv
-----------------------------------------------------------------------------
(* Theorems.                                                                *)

\* Every variable keeps its type: the table, the requests and the reports.
THEOREM TypeCorrect == Spec => []TypeOK
<1>1. IInv => TypeOK
  BY DEF IInv, TInv
<1>q. QED
  BY InitIInv, NextIInv, <1>1, PTL DEF Spec

\* archiveRunLogs stores a log before it reports its phase, so a row never tells of a
\* phase whose log was not stored, however late or often the report comes.
THEOREM LogsReadable == Spec => []PhaseLogReadable
<1>1. IInv => PhaseLogReadable
  BY DEF IInv, Stored
<1>q. QED
  BY InitIInv, NextIInv, <1>1, PTL DEF Spec

\* A walk over the pages of ListRuns returns every run that was there when it began,
\* for any page size and whatever is reported meanwhile.
THEOREM WalksComplete == Spec => WalkMissesNoRun
<1>1. IInv /\ [Next]_vars =>
        [reader # NoReader /\ reader' = NoReader =>
           reader.present \subseteq reader.seen \cup Page(reader.cursor)]_vars
  BY WalkStep DEF IInv
<1>q. QED
  BY InitIInv, NextIInv, <1>1, PTL DEF Spec, WalkMissesNoRun

\* UpsertRun merges the reports of a run into its row and takes nothing back, in whatever
\* order, how late and how often they come.
THEOREM RowsGrow == Spec => RowsOnlyGrow
<1> DEFINE Grows(a, b) == /\ a.exists => b.exists
                          /\ a.started # 0 => b.started = a.started
                          /\ a.finished => b.finished
                          /\ a.scheduled => b.scheduled
                          /\ a.revision => b.revision
                          /\ a.plan # "none" => b.plan = a.plan
                          /\ a.apply # "none" => b.apply = a.apply
<1>1. ASSUME IInv, [Next]_vars PROVE \A r \in Runs : Grows(rows[r], rows'[r])
  <2>0. TInv /\ Consistent /\ rows \in [Runs -> RowType] /\ net \subseteq Reports
    BY <1>1 DEF IInv, TInv, TypeOK
  <2>1. CASE rows' = rows
    BY <2>1
  <2>2. ASSUME NEW q \in Requests, RecordApproval(q), NEW r \in Runs
        PROVE  Grows(rows[r], rows'[r])
    BY <2>0, <2>2 DEF RecordApproval, RowType
  <2>3. ASSUME NEW m \in net, m.run \in Runs,
               rows' = [rows EXCEPT ![m.run] = UpsertRun(rows[m.run], m)], NEW r \in Runs
        PROVE  Grows(rows[r], rows'[r])
    <3>1. CASE r # m.run
      BY <2>0, <2>3, <3>1
    <3>2. CASE r = m.run
      <4>1. rows'[r] = UpsertRun(rows[r], m)
        BY <2>0, <2>3, <3>2
      <4>2. rows[r] \in RowType /\ m \in Reports
        BY <2>0
      <4>3. /\ m.plan # "none" => m.plan \in Outcomes
            /\ m.apply # "none" => m.apply \in Outcomes
            /\ rows[r].plan # "none" => rows[r].plan \in Outcomes
            /\ rows[r].apply # "none" => rows[r].apply \in Outcomes
        BY <4>2, ReportFields DEF RowType, Results, Outcomes
      <4>4. /\ rows[r].plan # "none" /\ m.plan # "none" => m.plan = rows[r].plan
            /\ rows[r].apply # "none" /\ m.apply # "none" => m.apply = rows[r].apply
        <5>1. ASSUME NEW phase \in {"plan", "apply"}, NEW x \in Outcomes, NEW y \in Outcomes,
                     Says(rows[r], phase, x), Says(m, phase, y)
              PROVE  y = x
          <6>1. Said(r, phase, x) /\ Said(r, phase, y)
            BY <2>3, <3>2, <5>1 DEF Said
          <6>q. QED
            BY <2>0, <6>1 DEF Consistent
        <5>2. /\ Says(rows[r], "plan", rows[r].plan) /\ Says(m, "plan", m.plan)
              /\ Says(rows[r], "apply", rows[r].apply) /\ Says(m, "apply", m.apply)
          BY DEF Says
        <5>q. QED
          BY <4>3, <5>1, <5>2
      <4>5. /\ rows[r].started # 0 /\ m.started # 0 => m.started = rows[r].started
        BY <2>0, <3>2, <4>2, ReportFields DEF Consistent
      <4>6. rows[r].started # 0 => rows'[r].started = rows[r].started
        BY <4>1, <4>5, UpsertMerges DEF firstNonEmpty
      <4>7. /\ rows[r].plan # "none" => rows'[r].plan = rows[r].plan
            /\ rows[r].apply # "none" => rows'[r].apply = rows[r].apply
        BY <4>1, <4>4, UpsertMerges DEF coalesce
      <4>8. /\ rows'[r].exists
            /\ rows[r].finished => rows'[r].finished
            /\ rows[r].scheduled => rows'[r].scheduled
            /\ rows[r].revision => rows'[r].revision
        BY <4>1, UpsertMerges
      <4>q. QED
        BY <4>6, <4>7, <4>8
    <3>q. QED
      BY <3>1, <3>2
  <2>q. QED
    BY <1>1, <2>0, <2>1, <2>2, <2>3, RowSteps
<1>2. IInv /\ [Next]_vars => [\A r \in Runs : Grows(rows[r], rows'[r])]_vars
  BY <1>1
<1>q. QED
  BY InitIInv, NextIInv, <1>2, PTL DEF Spec, RowsOnlyGrow
-----------------------------------------------------------------------------
(* The table implements RunDecisions.                                       *)

\* The first state of the table is the first state of RunDecisions.
LEMMA InitDecisions == Init => D!Init
BY DEF Init, D!Init, NoRow

\* A request's steps are steps of RunDecisions or leave what it speaks of alone.
LEMMA RequestDecides ==
    ASSUME TInv, Decided, NEW q \in Requests, Request(q)
    PROVE  [D!Next]_(D!dvars)
<1> DEFINE approval == [r \in Runs |-> rows[r].approval]
           asked    == [p \in Requests |-> reqs[p].run]
           answer   == [p \in Requests |-> reqs[p].answer]
<1>0. /\ reqs \in [Requests -> ReqType] /\ rows \in [Runs -> RowType]
      /\ 0 \notin Runs /\ reqs[q].run \in Runs \cup {0}
  BY RecordsAssumption DEF TInv, TypeOK, ReqType, Runs
<1>1. reqs[q].pc # "idle" => asked[q] # 0 /\ asked[q] \in Runs
  BY <1>0 DEF Decided
<1>a. ASSUME NEW a, Answers(q, a), reqs[q].pc # "idle" PROVE D!Reply(q, a)
  <2>1. reqs' = [reqs EXCEPT ![q] = [pc |-> "idle", run |-> 0, answer |-> a]]
    BY <1>a DEF Answers
  <2>2. /\ asked' = [asked EXCEPT ![q] = 0]
        /\ answer' = [answer EXCEPT ![q] = a]
    BY <1>0, <2>1
  <2>q. QED
    BY <1>1, <1>a, <2>2 DEF D!Reply
<1>m. ASSUME NEW pc, Moves(q, pc) PROVE asked' = asked /\ answer' = answer
  BY <1>0, <1>m DEF Moves, ReqType
<1>2. CASE decide(q)
  <2>1. wsC.run \in Runs
    BY DEF TInv, TypeOK, WsType
  <2>2. reqs' = [reqs EXCEPT ![q] = [pc |-> "update", run |-> wsC.run, answer |-> "none"]]
    BY <1>2 DEF decide
  <2>3. /\ asked' = [asked EXCEPT ![q] = wsC.run]
        /\ answer' = [answer EXCEPT ![q] = "none"]
    BY <1>0, <2>2
  <2>4. asked[q] = 0 /\ approval' = approval /\ signalled' = signalled
    BY <1>2 DEF decide, Decided
  <2>5. D!Ask(q)
    BY <2>1, <2>3, <2>4 DEF D!Ask
  <2>q. QED
    BY <2>5 DEF D!Next
<1>3. CASE RecordApproval(q)
  <2>1. asked' = asked /\ answer' = answer /\ signalled' = signalled
    BY <1>3, <1>m DEF RecordApproval
  <2>2. CASE rows[reqs[q].run].exists /\ rows[reqs[q].run].approval = "none"
    <3>1. rows' = [rows EXCEPT ![reqs[q].run].approval = Wants[q]]
      BY <1>3, <2>2 DEF RecordApproval
    <3>2. asked[q] = reqs[q].run /\ asked[q] # 0 /\ asked[q] \in Runs /\ approval[asked[q]] = "none"
      BY <1>1, <1>3, <2>2 DEF RecordApproval
    <3>3. approval' = [approval EXCEPT ![asked[q]] = Wants[q]]
      BY <1>0, <3>1, <3>2 DEF RowType
    <3>4. D!Record(q)
      BY <2>1, <3>2, <3>3 DEF D!Record
    <3>q. QED
      BY <3>4 DEF D!Next
  <2>3. CASE ~ (rows[reqs[q].run].exists /\ rows[reqs[q].run].approval = "none")
    <3>1. approval' = approval
      BY <1>3, <2>3 DEF RecordApproval
    <3>q. QED
      BY <2>1, <3>1 DEF D!dvars
  <2>q. QED
    BY <2>2, <2>3
<1>4. CASE GetApproval(q)
  <2>1. approval' = approval /\ signalled' = signalled /\ reqs[q].pc # "idle"
    BY <1>4 DEF GetApproval
  <2>2. approval[asked[q]] = rows[reqs[q].run].approval
    BY <1>1, <2>1
  <2>3. CASE Answers(q, "none")
    <3>1. D!Fail(q)
      BY <1>a, <2>1, <2>3 DEF D!Fail
    <3>q. QED
      BY <3>1 DEF D!Next
  <2>4. CASE Moves(q, "patch")
    BY <1>m, <2>1, <2>4 DEF D!dvars
  <2>5. CASE rows[reqs[q].run].approval \notin {"none", Wants[q]} /\ Answers(q, "conflict")
    <3>1. D!Refuse(q)
      BY <1>1, <1>a, <2>1, <2>2, <2>5 DEF D!Refuse
    <3>q. QED
      BY <3>1 DEF D!Next
  <2>q. QED
    BY <1>4, <2>3, <2>4, <2>5 DEF GetApproval
<1>5. CASE Patch(q)
  <2>1. /\ approval' = approval /\ reqs[q].pc = "patch"
        /\ signalled' = signalled \cup {<<reqs[q].run, Wants[q]>>}
        /\ Answers(q, "ok") \/ Answers(q, "none")
    BY <1>5 DEF Patch
  <2>2. asked[q] = reqs[q].run /\ asked[q] # 0 /\ approval[asked[q]] = Wants[q]
    BY <1>1, <2>1 DEF Decided
  <2>3. D!Reply(q, "ok") \/ D!Reply(q, "none")
    BY <1>a, <2>1
  <2>4. D!Signal(q)
    BY <2>1, <2>2, <2>3 DEF D!Signal
  <2>q. QED
    BY <2>4 DEF D!Next
<1>6. CASE requestFails(q)
  <2>1. approval' = approval /\ signalled' = signalled /\ D!Reply(q, "none")
    BY <1>6, <1>a DEF requestFails
  <2>2. D!Fail(q)
    BY <2>1 DEF D!Fail
  <2>q. QED
    BY <2>2 DEF D!Next
<1>q. QED
  BY <1>2, <1>3, <1>4, <1>5, <1>6 DEF Request

\* What RunDecisions promises holds for any number of reviewers and runs: RecordApproval's
\* UPDATE asks for approval IS NULL, so the first decision on a run stands, a request that
\* disagrees is told so, and nothing but the decision on record is patched onto the Workspace.
THEOREM DecisionsRefined == Spec => OneDecisionPerRun
<1>1. IInv /\ [Next]_vars => [D!Next]_(D!dvars)
  <2> SUFFICES ASSUME IInv, [Next]_vars PROVE [D!Next]_(D!dvars)
    OBVIOUS
  <2>1. TInv /\ Decided
    BY DEF IInv
  <2>2. CASE \E q \in Requests : Request(q)
    BY <2>1, <2>2, RequestDecides
  <2>3. CASE ~ \E q \in Requests : Request(q)
    <3>1. reqs' = reqs /\ signalled' = signalled
      BY <2>3, RequestSteps
    <3>2. \A r \in Runs : rows'[r].approval = rows[r].approval
      BY <2>1, <2>3, ApprovalSteps DEF Request
    <3>q. QED
      BY <3>1, <3>2 DEF D!dvars
  <2>q. QED
    BY <2>2, <2>3
<1>q. QED
  BY InitDecisions, InitIInv, NextIInv, <1>1, PTL DEF Spec, OneDecisionPerRun, D!Spec
=============================================================================
