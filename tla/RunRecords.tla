----------------------------- MODULE RunRecords -----------------------------
(***************************************************************************)
(* The history of runs of one Workspace: the controller archives the log of *)
(* each phase and reports it to the API server, which merges what it is     *)
(* told into one row per run (api/internal/runs), lets reviewers decide on  *)
(* a parked plan and lists the rows page by page.                           *)
(*                                                                          *)
(* A report is an HTTP request: the controller gives up on it after a       *)
(* timeout, and the API server may still carry it out later, or twice.  The *)
(* API server reads the Workspace from an informer cache.  Of the           *)
(* Workspace controller this module has what concerns the records; module   *)
(* Workspace has the rest.                                                  *)
(***************************************************************************)
EXTENDS Integers, FiniteSets

CONSTANTS
    Requests,   \* the reviewers
    Wants,      \* what each of them decides: "approved" or "rejected"
    Limit,      \* rows on a page
    MaxRuns,    \* bound: runs of the Workspace
    MaxFaults   \* bound: calls that fail, are late or come twice, and crashes

ASSUME RecordsAssumption ==
    /\ Wants \in [Requests -> {"approved", "rejected"}]
    /\ Limit \in Nat \ {0} /\ MaxRuns \in Nat \ {0} /\ MaxFaults \in Nat

\* Run IDs begin with the time they were minted at, so later runs have greater IDs.
Runs == 1 .. MaxRuns

\* The times of a run, in order; the next run comes after them.  0 is no time.
Minted(r)       == 3 * r
Started(r)      == 3 * r + 1
ApplyStarted(r) == 3 * r + 2

NoRow == [exists |-> FALSE, sort |-> 0, started |-> 0, finished |-> FALSE, scheduled |-> FALSE,
          revision |-> FALSE, plan |-> "none", apply |-> "none", approval |-> "none"]

\* The reports: of a scheduled run that starts, and of a phase that ended.
NoReport == [run |-> 0, started |-> 0, finished |-> FALSE, scheduled |-> FALSE,
             revision |-> FALSE, plan |-> "none", apply |-> "none"]
ReportScheduled(r)  == [NoReport EXCEPT !.run = r, !.scheduled = TRUE]
ReportPlan(r, res)  == [NoReport EXCEPT !.run = r, !.started = Started(r), !.revision = TRUE,
                                        !.finished = (res = "Failed"), !.plan = res]
ReportApply(r, res) == [NoReport EXCEPT !.run = r, !.finished = TRUE, !.revision = TRUE,
                                        !.apply = res]

Reports ==
    UNION {{ReportScheduled(r)} \cup {ReportPlan(r, res) : res \in {"Succeeded", "Failed"}}
             \cup {ReportApply(r, res) : res \in {"Succeeded", "Failed"}} : r \in Runs}

NoCursor == <<0, 0>>
NoReader == [cursor |-> NoCursor, seen |-> {}, present |-> {}]

VARIABLES
    ws, wsC,    \* the Workspace (run, phase, decision annotation): stored and cached
    job,        \* its Job: none, or a phase and how it stands
    ctl,        \* the controller: where its archiving stands, the report, what follows
    logs,       \* the phase logs in the object store
    lostLogs,   \* history: those the object store has lost
    net,        \* the reports under way
    rows,       \* the table runs
    reqs,       \* the reviewers' requests
    signalled,  \* history: the decisions patched onto the Workspace, by run
    reader,     \* someone who lists the runs page by page: the cursor, the runs seen, and
                \* those that were there at the start
    faults

vars == <<ws, wsC, job, ctl, logs, lostLogs, net, rows, reqs, signalled, reader, faults>>

Idle == [pc |-> "idle", report |-> NoReport, then |-> ""]

\* The first run has started.
Init ==
    /\ ws = [run |-> 1, phase |-> "Planning", decision |-> "none"]
    /\ wsC = ws
    /\ job = <<"plan", "runs">>
    /\ ctl = Idle
    /\ logs = {} /\ lostLogs = {}
    /\ net = {}
    /\ rows = [r \in Runs |-> NoRow]
    /\ reqs = [q \in Requests |-> [pc |-> "idle", run |-> 0, answer |-> "none"]]
    /\ signalled = {}
    /\ reader = NoReader
    /\ faults = 0

Fault   == faults < MaxFaults /\ faults' = faults + 1
NoFault == UNCHANGED faults
-----------------------------------------------------------------------------
(* The table (api/internal/runs/store.go).                                  *)

firstNonEmpty(a, b) == IF a # 0 THEN a ELSE b

sortTime(m) ==
    firstNonEmpty(m.started, IF m.apply # "none" THEN ApplyStarted(m.run) ELSE Minted(m.run))

\* Mutant: a phase the report does not have is stored as an empty text.
emptyText(a, b) == IF a # "none" THEN a ELSE ""

coalesce(a, b) == IF a # "none" THEN a ELSE b

\* Mutant: what the report does not have is forgotten.
replaceRow(row, m) ==
    [exists |-> TRUE, started |-> m.started, finished |-> m.finished,
     scheduled |-> m.scheduled, revision |-> m.revision, plan |-> m.plan, apply |-> m.apply,
     sort |-> sortTime(m), approval |-> row.approval]

UpsertRun(row, m) ==
    [exists    |-> TRUE,
     started   |-> firstNonEmpty(m.started, row.started),
     finished  |-> m.finished \/ row.finished,
     scheduled |-> row.scheduled \/ m.scheduled,
     revision  |-> m.revision \/ row.revision,
     plan      |-> coalesce(m.plan, row.plan),
     apply     |-> coalesce(m.apply, row.apply),
     sort      |-> IF row.exists /\ m.started = 0 THEN row.sort ELSE sortTime(m),
     approval  |-> row.approval]

\* The order of a list: newest first, the run ID breaks ties.
Key(r)       == <<rows[r].sort, r>>
Before(a, b) == a[1] < b[1] \/ (a[1] = b[1] /\ a[2] < b[2])

Rest(cursor) == {r \in Runs : rows[r].exists /\ (cursor = NoCursor \/ Before(Key(r), cursor))}
Page(cursor) ==
    {r \in Rest(cursor) : Cardinality({n \in Rest(cursor) : Before(Key(r), Key(n))}) < Limit}

\* Mutant: the cursor is the first row that is left out.
firstLeftOut(cursor) ==
    IF Cardinality(Rest(cursor)) <= Limit THEN NoCursor
    ELSE Key(CHOOSE r \in Rest(cursor) \ Page(cursor) :
               \A n \in Rest(cursor) \ Page(cursor) : n = r \/ Before(Key(n), Key(r)))

nextCursor(cursor) ==
    IF Cardinality(Rest(cursor)) <= Limit THEN NoCursor
    ELSE Key(CHOOSE r \in Page(cursor) :
               \A n \in Page(cursor) : n = r \/ Before(Key(r), Key(n)))
-----------------------------------------------------------------------------
(* The Workspace controller, as far as records are concerned.               *)

\* What it does not touch; what goes on meanwhile.
Outside == UNCHANGED <<wsC, rows, reqs, signalled, reader>>

\* CurrentRunID changes and the old Jobs go.  Only a scheduled run is reported at once;
\* a run follows a plan that is parked when the spec was edited.
startFreshCycle ==
    /\ ctl.pc = "idle" /\ ws.run < MaxRuns
    /\ ws.phase \in {"Planned", "Applied", "Failed", "Rejected"}
    /\ ws' = [ws EXCEPT !.run = @ + 1, !.phase = "Planning"]
    /\ job' = <<"plan", "runs">>
    /\ \/ /\ ws.phase = "Applied"
          /\ ctl' = [pc |-> "send", report |-> ReportScheduled(ws.run + 1), then |-> "Planning"]
       \/ UNCHANGED ctl
    /\ UNCHANGED <<logs, lostLogs, net>> /\ Outside /\ NoFault

jobEnds(res) ==
    /\ job[2] = "runs"
    /\ job' = <<job[1], res>>
    /\ UNCHANGED <<ws, ctl, logs, lostLogs, net>> /\ Outside /\ NoFault

\* A phase is archived and phase then follows, whatever becomes of the archiving.
archiveRunLogs(report, then) ==
    /\ ctl.pc = "idle"
    /\ ctl' = [pc |-> "put", report |-> report, then |-> then]
    /\ UNCHANGED <<job, logs, lostLogs, net>> /\ Outside /\ NoFault

planFailed ==
    /\ job = <<"plan", "Failed">> /\ ws.phase = "Planning"
    /\ archiveRunLogs(ReportPlan(ws.run, "Failed"), "Failed")
    /\ UNCHANGED ws

\* The annotation goes before the Job is created, and after a rejection is recorded.
createApplyJobIfApproved ==
    /\ job = <<"plan", "Succeeded">>
    /\ \/ /\ ws.decision = "rejected"
          /\ archiveRunLogs(ReportPlan(ws.run, "Succeeded"), "Rejected")
          /\ UNCHANGED ws
       \/ /\ ws.decision = "approved"
          /\ archiveRunLogs(ReportPlan(ws.run, "Succeeded"), "Applying")
          /\ ws' = [ws EXCEPT !.decision = "none"]
       \/ /\ ws.decision = "none" /\ ws.phase = "Planning"
          /\ archiveRunLogs(ReportPlan(ws.run, "Succeeded"), "Planned")
          /\ UNCHANGED ws

applyFinished ==
    /\ job \in {<<"apply", "Succeeded">>, <<"apply", "Failed">>} /\ ws.phase = "Applying"
    /\ archiveRunLogs(ReportApply(ws.run, job[2]), IF job[2] = "Failed" THEN "Failed" ELSE "Applied")
    /\ UNCHANGED ws

\* The end of the archiving, whatever became of it: the status is written, and what
\* follows it.
archiveEnds ==
    /\ ws' = [ws EXCEPT !.phase = ctl.then,
                        !.decision = IF ctl.then = "Rejected" THEN "none" ELSE @]
    /\ job' = IF ctl.then = "Applying" THEN <<"apply", "runs">> ELSE job
    /\ ctl' = Idle

\* Mutant: the phase is reported, its log is not stored.
reportOnly ==
    /\ ctl.pc = "put"
    /\ net' = net \cup {ctl.report}
    /\ ctl' = [ctl EXCEPT !.pc = "send"]
    /\ UNCHANGED <<ws, job, logs, lostLogs>> /\ Outside /\ NoFault

\* An object store that has lost its bucket is given a new one.
PutRunPhaseLog ==
    /\ ctl.pc = "put"
    /\ logs' = logs \cup {<<ws.run, job[1]>>}
    /\ ctl' = [ctl EXCEPT !.pc = "send"]
    /\ UNCHANGED <<ws, job, lostLogs, net>> /\ Outside /\ NoFault

\* The pod is gone or the object store does not answer.
archiveFails ==
    /\ ctl.pc = "put" /\ Fault
    /\ archiveEnds
    /\ UNCHANGED <<logs, lostLogs, net>> /\ Outside

bucketLost ==
    /\ logs # {} /\ Fault
    /\ logs' = {} /\ lostLogs' = lostLogs \cup logs
    /\ UNCHANGED <<ws, job, ctl, net>> /\ Outside

RecordRunPhase ==
    /\ ctl.pc = "send"
    /\ net' = net \cup {ctl.report}
    /\ ctl' = [ctl EXCEPT !.pc = "wait"]
    /\ UNCHANGED <<ws, job, logs, lostLogs>> /\ Outside /\ NoFault

\* The answer, good or bad, or the timeout with the report still under way.
recorderReturns ==
    /\ ctl.pc = "wait"
    /\ IF ctl.report \in net THEN Fault ELSE NoFault
    /\ archiveEnds
    /\ UNCHANGED <<logs, lostLogs, net>> /\ Outside

controllerCrashes ==
    /\ ctl.pc # "idle" /\ Fault
    /\ ctl' = Idle
    /\ UNCHANGED <<ws, job, logs, lostLogs, net>> /\ Outside

Controller ==
    \/ startFreshCycle \/ \E res \in {"Succeeded", "Failed"} : jobEnds(res)
    \/ planFailed \/ createApplyJobIfApproved \/ applyFinished
    \/ PutRunPhaseLog \/ archiveFails \/ bucketLost \/ RecordRunPhase \/ recorderReturns
    \/ controllerCrashes
-----------------------------------------------------------------------------
(* The API server.                                                          *)

sync ==
    /\ wsC # ws
    /\ wsC' = ws
    /\ UNCHANGED <<ws, job, ctl, logs, lostLogs, net, rows, reqs, signalled, reader, faults>>

\* A report is carried out, once or twice, or the database refuses it.
recordReport(m) ==
    /\ \/ /\ rows' = [rows EXCEPT ![m.run] = UpsertRun(rows[m.run], m)]
          /\ \/ net' = net \ {m} /\ NoFault
             \/ UNCHANGED net /\ Fault
       \/ UNCHANGED rows /\ net' = net \ {m} /\ Fault
    /\ UNCHANGED <<ws, wsC, job, ctl, logs, lostLogs, reqs, signalled, reader>>

IsApprovalPending == wsC.phase = "Planned" /\ wsC.decision = "none"

\* The answer is "none" when the request fails, or its answer is lost.
Moves(q, pc) == reqs' = [reqs EXCEPT ![q].pc = pc]
Answers(q, a) == reqs' = [reqs EXCEPT ![q] = [pc |-> "idle", run |-> 0, answer |-> a]]

\* The checks, on the cached Workspace.  A request that fails them changes nothing.
decide(q) ==
    /\ reqs[q].pc = "idle" /\ IsApprovalPending
    /\ reqs' = [reqs EXCEPT ![q] = [pc |-> "update", run |-> wsC.run, answer |-> "none"]]
    /\ UNCHANGED <<ws, wsC, job, ctl, logs, lostLogs, net, rows, signalled, reader, faults>>

\* Mutant: the UPDATE does not ask for approval IS NULL.
overwriteApproval(q) ==
    /\ reqs[q].pc = "update"
    /\ LET row == rows[reqs[q].run] IN
       IF row.exists
       THEN /\ rows' = [rows EXCEPT ![reqs[q].run].approval = Wants[q]]
            /\ Moves(q, "patch")
       ELSE UNCHANGED rows /\ Moves(q, "get")
    /\ UNCHANGED <<ws, wsC, job, ctl, logs, lostLogs, net, signalled, reader, faults>>

RecordApproval(q) ==
    /\ reqs[q].pc = "update"
    /\ LET row == rows[reqs[q].run] IN
       IF row.exists /\ row.approval = "none"
       THEN /\ rows' = [rows EXCEPT ![reqs[q].run].approval = Wants[q]]
            /\ Moves(q, "patch")
       ELSE UNCHANGED rows /\ Moves(q, "get")
    /\ UNCHANGED <<ws, wsC, job, ctl, logs, lostLogs, net, signalled, reader, faults>>

\* No row, or a row that came after the UPDATE and has no decision: not found.
GetApproval(q) ==
    /\ reqs[q].pc = "get"
    /\ LET row == rows[reqs[q].run] IN
       \/ row.approval = "none" /\ Answers(q, "none")
       \/ row.approval = Wants[q] /\ Moves(q, "patch")
       \/ row.approval \notin {"none", Wants[q]} /\ Answers(q, "conflict")
    /\ UNCHANGED <<ws, wsC, job, ctl, logs, lostLogs, net, rows, signalled, reader, faults>>

\* The patch names no run: it lands on whatever run the Workspace is in.
Patch(q) ==
    /\ reqs[q].pc = "patch"
    /\ ws' = [ws EXCEPT !.decision = Wants[q]]
    /\ signalled' = signalled \cup {<<reqs[q].run, Wants[q]>>}
    /\ \/ Answers(q, "ok") /\ NoFault
       \/ Answers(q, "none") /\ Fault
    /\ UNCHANGED <<wsC, job, ctl, logs, lostLogs, net, rows, reader>>

requestFails(q) ==
    /\ reqs[q].pc # "idle" /\ Fault
    /\ Answers(q, "none")
    /\ UNCHANGED <<ws, wsC, job, ctl, logs, lostLogs, net, rows, signalled, reader>>

\* One page; the reader comes back with the cursor, if there is one.
ListRuns ==
    /\ LET next == nextCursor(reader.cursor) IN
       reader' = IF next = NoCursor THEN NoReader
                 ELSE [cursor  |-> next,
                       seen    |-> reader.seen \cup Page(reader.cursor),
                       present |-> IF reader = NoReader THEN Rest(NoCursor) ELSE reader.present]
    /\ UNCHANGED <<ws, wsC, job, ctl, logs, lostLogs, net, rows, reqs, signalled, faults>>

Request(q) == decide(q) \/ RecordApproval(q) \/ GetApproval(q) \/ Patch(q) \/ requestFails(q)

API ==
    \/ sync \/ \E m \in net : recordReport(m)
    \/ \E q \in Requests : Request(q)
    \/ ListRuns

Next == Controller \/ API

Spec == Init /\ [][Next]_vars
-----------------------------------------------------------------------------
(* Properties.                                                              *)

Phases == {"Planning", "Planned", "Applying", "Applied", "Failed", "Rejected"}
Results == {"none", "Succeeded", "Failed"}
Decisions == {"none", "approved", "rejected"}
WsType == [run : Runs, phase : Phases, decision : Decisions]
RowType == [exists : BOOLEAN, sort : Nat, started : Nat, finished : BOOLEAN, scheduled : BOOLEAN,
            revision : BOOLEAN, plan : Results, apply : Results, approval : Decisions]

JobType == {"plan", "apply"} \X {"runs", "Succeeded", "Failed"}
CtlType == [pc : {"idle", "put", "send", "wait"}, report : Reports \cup {NoReport},
            then : Phases \cup {""}]
ReqType == [pc : {"idle", "update", "get", "patch"}, run : Runs \cup {0},
            answer : {"none", "ok", "conflict"}]
ReaderType == [cursor : Nat \X Nat, seen : SUBSET Runs, present : SUBSET Runs]
LogType == Runs \X {"plan", "apply"}

\* Every variable has its type.
TypeOK ==
    /\ ws \in WsType /\ wsC \in WsType /\ job \in JobType /\ ctl \in CtlType
    /\ logs \subseteq LogType /\ lostLogs \subseteq LogType
    /\ net \subseteq Reports
    /\ rows \in [Runs -> RowType]
    /\ reqs \in [Requests -> ReqType]
    /\ signalled \subseteq Runs \X Decisions
    /\ reader \in ReaderType
    /\ faults \in 0 .. MaxFaults

\* The log of a phase that a run's row tells of is in the object store, unless the
\* store itself lost it: archiveRunLogs puts the log before it reports the phase, and
\* a late or repeated report does not change that.
PhaseLogReadable ==
    \A r \in Runs :
        /\ rows[r].plan # "none" => <<r, "plan">> \in logs \cup lostLogs
        /\ rows[r].apply # "none" => <<r, "apply">> \in logs \cup lostLogs

\* What a row says is not taken back, whatever order the reports of its phases arrive
\* in: UpsertRun merges.
RowsOnlyGrow ==
    [][\A r \in Runs :
        LET a == rows[r] b == rows'[r] IN
        /\ a.exists => b.exists
        /\ a.started # 0 => b.started = a.started
        /\ a.finished => b.finished
        /\ a.scheduled => b.scheduled
        /\ a.revision => b.revision
        /\ a.plan # "none" => b.plan = a.plan
        /\ a.apply # "none" => b.apply = a.apply]_vars

\* A reader who follows the cursors to the end has seen every run that was there at
\* the beginning, although reports that arrive meanwhile change the times rows are
\* sorted by.
WalkMissesNoRun ==
    [][reader # NoReader /\ reader' = NoReader =>
         reader.present \subseteq reader.seen \cup Page(reader.cursor)]_vars

\* The API server keeps what RunDecisions promises of decisions.
D == INSTANCE RunDecisions WITH
        approval <- [r \in Runs |-> rows[r].approval],
        asked    <- [q \in Requests |-> reqs[q].run],
        answer   <- [q \in Requests |-> reqs[q].answer]

OneDecisionPerRun == D!Spec
=============================================================================
