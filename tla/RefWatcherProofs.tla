-------------------------- MODULE RefWatcherProofs --------------------------
(***************************************************************************)
(* For any number of Workspaces, sources, workers, commits, inputs and      *)
(* faults: the registry knows only commits that were reported, and a        *)
(* registered Workspace is forgotten only when the channel of work is full, *)
(* which does not happen if it has room for every Workspace and every edit, *)
(* since only Workspaces and changes of their sources start a poll.         *)
(***************************************************************************)
EXTENDS RefWatcher, FiniteSetTheorems, TLAPS

\* Every leaf is tried with Zenon first and, when that fails, with the SMT solver.
USE ZenonT(10), SMTT(30)

\* A worker has a key while it polls, the source it polls once it has read the entry,
\* and a commit once the remote has answered.
WorkersKnow ==
    \A w \in Workers :
        /\ workers[w].step = "idle" <=> workers[w].key = NoKey
        /\ workers[w].step = "resolve" => workers[w].source \in Sources
        /\ workers[w].step \in {"get", "patch", "record"} => workers[w].sha \in SHAs

\* The commits that objects and workers carry back to the registry were reported.
CarriedReported ==
    /\ \A k \in Keys : /\ ws[k].observed \in SHAs => ws[k].observed \in seen[k]
                       /\ ws[k].detected \in SHAs => ws[k].detected \in seen[k]
    /\ \A w \in Workers : workers[w].step = "record" => workers[w].sha \in seen[workers[w].key]

IInv == TypeOK /\ WorkersKnow /\ CarriedReported /\ RecordedMeansReported

\* The empty revision and the names of branches are not commits.
LEMMA Distinct ==
    /\ NoSHA \notin SHAs /\ \A s \in Sources : BranchName(s) \notin SHAs /\ BranchName(s) \in Revisions
    /\ NoSHA \in Revisions /\ SHAs \subseteq Revisions
    /\ 0 \notin Sources
BY RefWatcherAssumption DEF NoSHA, SHAs, BranchName, Revisions

\* No entry of the registry is the empty one.
LEMMA EntryOrNot ==
    ASSUME NEW e \in EntryType \cup {NoEntry}
    PROVE  /\ e.last \in Revisions
           /\ e # NoEntry => e \in EntryType /\ e.source \in Sources
           /\ e = NoEntry => e.last = NoSHA /\ e.source = 0
BY Distinct DEF EntryType, NoEntry

\* The invariant holds at first.
LEMMA InitIInv == Init => IInv
<1> SUFFICES ASSUME Init PROVE IInv
  OBVIOUS
<1>1. ws \in [Keys -> WorkspaceType]
  BY Distinct, RefWatcherAssumption DEF Init, WorkspaceType
<1>2. workers \in [Workers -> WorkerType]
  BY Distinct DEF Init, WorkerType, IdleWorker, WorkerSteps
<1>3. 0 \in 0 .. MaxInputs /\ 0 \in 0 .. MaxFaults /\ 1 \in 1 .. MaxCommit /\ 0 <= QueueSize
  BY RefWatcherAssumption
<1>4. /\ entries \in [Keys -> EntryType \cup {NoEntry}]
      /\ due \in [Keys -> Nat] /\ later \in [Keys -> Nat]
      /\ seen \in [Keys -> SUBSET SHAs]
  BY DEF Init
<1>h. heads \in [Sources -> 1 .. MaxCommit]
  <2>1. heads = [s \in Sources |-> 1]
    BY DEF Init
  <2>q. QED
    BY <1>3, <2>1
<1>5. /\ queue \subseteq Keys /\ workCh \in Seq(Keys) /\ Len(workCh) <= QueueSize
      /\ updateCh \in BOOLEAN /\ upserting \in Keys \cup {NoKey} /\ dispatching \in BOOLEAN
  <2>1. workCh = <<>> /\ queue = Keys /\ updateCh = FALSE /\ upserting = NoKey /\ dispatching = FALSE
    BY DEF Init
  <2>2. workCh \in Seq(Keys) /\ Len(workCh) = 0
    BY <2>1
  <2>q. QED
    BY <1>3, <2>1, <2>2
<1>6. inputs \in 0 .. MaxInputs /\ faults \in 0 .. MaxFaults /\ moves \in 0 .. inputs
  BY <1>3 DEF Init
<1>7. WorkersKnow
  BY DEF Init, WorkersKnow, IdleWorker
<1>8. CarriedReported
  BY Distinct, RefWatcherAssumption DEF Init, CarriedReported, IdleWorker
<1>9. RecordedMeansReported
  BY Distinct DEF Init, RecordedMeansReported, NoEntry
<1>q. QED
  BY <1>1, <1>2, <1>4, <1>h, <1>5, <1>6, <1>7, <1>8, <1>9 DEF IInv, TypeOK
-----------------------------------------------------------------------------
(* Types.                                                                   *)

\* The scheduler, the queue and the counters keep their types.
LEMMA SchedulerTypes ==
    ASSUME TypeOK, WorkersKnow, Next
    PROVE  /\ queue' \subseteq Keys
           /\ due' \in [Keys -> Nat] /\ later' \in [Keys -> Nat]
           /\ workCh' \in Seq(Keys) /\ Len(workCh') <= QueueSize
           /\ updateCh' \in BOOLEAN /\ upserting' \in Keys \cup {NoKey} /\ dispatching' \in BOOLEAN
<1>0. /\ queue \subseteq Keys
      /\ due \in [Keys -> Nat] /\ later \in [Keys -> Nat]
      /\ workCh \in Seq(Keys) /\ Len(workCh) <= QueueSize /\ QueueSize \in Nat
      /\ updateCh \in BOOLEAN /\ upserting \in Keys \cup {NoKey} /\ dispatching \in BOOLEAN
      /\ workers \in [Workers -> WorkerType]
  BY RefWatcherAssumption DEF TypeOK
<1>k. \A w \in Workers : workers[w].step # "idle" => workers[w].key \in Keys
  BY <1>0 DEF WorkersKnow, WorkerType
<1>p. ASSUME NEW k \in Keys, push(k)
      PROVE  later' \in [Keys -> Nat] /\ due' = due /\ updateCh' = TRUE /\ dispatching' = dispatching
  BY <1>0, <1>p DEF push
<1>1. ASSUME NEW k \in Keys, Reconcile(k) \/ wakeUp \/ dispatchDone
      PROVE  /\ UNCHANGED <<due, later, workCh>>
             /\ queue' \subseteq Keys /\ updateCh' \in BOOLEAN
             /\ upserting' \in Keys \cup {NoKey} /\ dispatching' \in BOOLEAN
  BY <1>0, <1>1 DEF Reconcile, removeEntry, upsertEntry, scheduler, wakeUp, dispatchDone
<1>2. CASE wakeUp \/ dispatchDone
  BY <1>0, <1>2 DEF wakeUp, dispatchDone
<1>3. CASE signalScheduler
  <2>1. upserting \in Keys /\ push(upserting) /\ upserting' = NoKey /\ UNCHANGED <<queue, workCh>>
    BY <1>0, <1>3 DEF signalScheduler
  <2>q. QED
    BY <1>0, <1>p, <2>1
<1>4. ASSUME NEW k \in Keys, dispatchDue(k)
      PROVE  /\ due' \in [Keys -> Nat] /\ workCh' \in Seq(Keys) /\ Len(workCh') <= QueueSize
             /\ UNCHANGED <<queue, later, updateCh, upserting, dispatching>>
  <2>1. due' \in [Keys -> Nat]
    BY <1>0, <1>4 DEF dispatchDue
  <2>2. \/ workCh' = workCh
        \/ workCh' = Append(workCh, k) /\ Len(workCh) < QueueSize
    BY <1>4 DEF dispatchDue
  <2>3. workCh' \in Seq(Keys) /\ Len(workCh') <= QueueSize
    <3>1. CASE workCh' = Append(workCh, k) /\ Len(workCh) < QueueSize
      <4>1. Append(workCh, k) \in Seq(Keys) /\ Len(Append(workCh, k)) = Len(workCh) + 1 /\ Len(workCh) \in Nat
        BY <1>0
      <4>2. Len(workCh) + 1 <= QueueSize
        BY <1>0, <3>1, <4>1
      <4>q. QED
        BY <3>1, <4>1, <4>2
    <3>q. QED
      BY <1>0, <2>2, <3>1
  <2>q. QED
    BY <1>4, <2>1, <2>3 DEF dispatchDue
<1>5. ASSUME NEW k \in Keys, nextPollAtPasses(k)
      PROVE  /\ due' \in [Keys -> Nat] /\ later' \in [Keys -> Nat]
             /\ UNCHANGED <<queue, workCh, updateCh, upserting, dispatching>>
  BY <1>0, <1>5 DEF nextPollAtPasses
<1>6. ASSUME NEW k \in Keys, EditWorkspace(k) \/ ParkOrDecide(k) \/ recordApplied(k)
      PROVE  /\ queue' \subseteq Keys
             /\ UNCHANGED <<due, later, workCh, updateCh, upserting, dispatching>>
  BY <1>0, <1>6 DEF EditWorkspace, ParkOrDecide, recordApplied, Writes, scheduler
<1>7. ASSUME NEW w \in Workers, receive(w)
      PROVE  /\ workCh' \in Seq(Keys) /\ Len(workCh') <= QueueSize
             /\ UNCHANGED <<queue, due, later, updateCh, upserting, dispatching>>
  BY <1>0, <1>7 DEF receive, scheduler
<1>8. ASSUME NEW w \in Workers, snapshot(w) \/ resolveRef(w) \/ get(w) \/ patch(w) \/ record(w)
      PROVE  /\ queue' \subseteq Keys
             /\ UNCHANGED <<due, later, workCh, updateCh, upserting, dispatching>>
  BY <1>0, <1>8, <1>k DEF snapshot, resolveRef, get, patch, record, scheduler
<1>9. ASSUME NEW w \in Workers, reschedule(w)
      PROVE  /\ due' \in [Keys -> Nat] /\ later' \in [Keys -> Nat]
             /\ updateCh' \in BOOLEAN /\ dispatching' \in BOOLEAN
             /\ UNCHANGED <<queue, workCh, upserting>>
  <2>1. workers[w].key \in Keys /\ push(workers[w].key)
    BY <1>9, <1>k DEF reschedule
  <2>q. QED
    <3>1. UNCHANGED <<queue, workCh, upserting>>
      BY <1>9 DEF reschedule
    <3>2. later' \in [Keys -> Nat] /\ due' = due /\ updateCh' = TRUE /\ dispatching' = dispatching
      BY <1>p, <2>1
    <3>q. QED
      BY <1>0, <3>1, <3>2
<1>10. CASE \E s \in Sources : PushCommit(s)
  BY <1>0, <1>10 DEF PushCommit, scheduler
<1>11. CASE Start
  <2>1. /\ workCh' = <<>> /\ updateCh' = FALSE /\ upserting' = NoKey /\ dispatching' = FALSE
        /\ queue' \subseteq Keys /\ due' \in [Keys -> Nat] /\ later' \in [Keys -> Nat]
    BY <1>11 DEF Start
  <2>2. workCh' \in Seq(Keys) /\ Len(workCh') = 0
    BY <2>1
  <2>3. Len(workCh') <= QueueSize
    BY <1>0, <2>2
  <2>4. updateCh' \in BOOLEAN /\ upserting' \in Keys \cup {NoKey} /\ dispatching' \in BOOLEAN
    BY <2>1
  <2>q. QED
    BY <2>1, <2>2, <2>3, <2>4
<1>q. QED
  BY <1>0, <1>1, <1>2, <1>3, <1>4, <1>5, <1>6, <1>7, <1>8, <1>9, <1>10, <1>11 DEF Next, pollRemote

\* The counters keep within their bounds.
LEMMA CounterTypes ==
    ASSUME TypeOK, Next
    PROVE  /\ heads' \in [Sources -> 1 .. MaxCommit] /\ inputs' \in 0 .. MaxInputs
           /\ faults' \in 0 .. MaxFaults /\ moves' \in 0 .. inputs'
<1>0. /\ heads \in [Sources -> 1 .. MaxCommit] /\ inputs \in 0 .. MaxInputs /\ faults \in 0 .. MaxFaults
      /\ moves \in 0 .. inputs
  BY DEF TypeOK
<1>n. MaxCommit \in Nat /\ MaxInputs \in Nat /\ MaxFaults \in Nat
  BY RefWatcherAssumption
<1>1. UNCHANGED heads \/ \E s \in Sources : heads[s] < MaxCommit /\ heads' = [heads EXCEPT ![s] = @ + 1]
  BY DEF Next, Reconcile, removeEntry, upsertEntry, dispatchDue, nextPollAtPasses, EditWorkspace, ParkOrDecide,
         recordApplied, Writes, receive, pollRemote, snapshot, resolveRef, get, patch, record, reschedule,
         PushCommit, signalScheduler, wakeUp, dispatchDone, Start, objects
<1>2. UNCHANGED <<inputs, moves>> \/ (Input /\ (moves' = moves \/ moves' = moves + 1))
  BY DEF Next, Reconcile, removeEntry, upsertEntry, dispatchDue, nextPollAtPasses, EditWorkspace, ParkOrDecide,
         recordApplied, receive, pollRemote, snapshot, resolveRef, get, patch, record, reschedule,
         PushCommit, signalScheduler, wakeUp, dispatchDone, Start, objects
<1>3. UNCHANGED faults \/ Fault
  BY DEF Next, Reconcile, removeEntry, upsertEntry, dispatchDue, nextPollAtPasses, EditWorkspace, ParkOrDecide,
         recordApplied, Writes, receive, pollRemote, snapshot, resolveRef, get, patch, record, reschedule,
         PushCommit, signalScheduler, wakeUp, dispatchDone, Start
<1>4. heads' \in [Sources -> 1 .. MaxCommit]
  BY <1>0, <1>1, <1>n
<1>5. inputs' \in 0 .. MaxInputs /\ moves' \in 0 .. inputs'
  BY <1>0, <1>2, <1>n DEF Input
<1>6. faults' \in 0 .. MaxFaults
  BY <1>0, <1>3, <1>n DEF Fault
<1>q. QED
  BY <1>4, <1>5, <1>6
-----------------------------------------------------------------------------
(* What is reported, carried and recorded.                                  *)

Core ==
    /\ ws \in [Keys -> WorkspaceType] /\ entries \in [Keys -> EntryType \cup {NoEntry}]
    /\ workers \in [Workers -> WorkerType] /\ seen \in [Keys -> SUBSET SHAs]
    /\ WorkersKnow /\ CarriedReported /\ RecordedMeansReported

\* Reconcile takes the baseline of a new entry from the object.
LEMMA ReconcileKeeps ==
    ASSUME Core, NEW k \in Keys, Reconcile(k)
    PROVE  Core'
<1>0. /\ ws[k] \in WorkspaceType /\ entries[k] \in EntryType \cup {NoEntry}
      /\ entries \in [Keys -> EntryType \cup {NoEntry}]
  BY DEF Core
<1>1. UNCHANGED <<ws, workers, seen>>
  BY DEF Reconcile, removeEntry, upsertEntry, objects
<1>2. /\ entries' \in [Keys -> EntryType \cup {NoEntry}]
      /\ \A j \in Keys \ {k} : entries'[j] = entries[j]
      /\ entries'[k].last \in {entries[k].last, ws[k].observed, NoSHA}
  <2>1. CASE removeEntry(k)
    BY <1>0, <2>1 DEF removeEntry, NoEntry
  <2>2. CASE upsertEntry(k) /\ entries[k].source = ws[k].source
    BY <1>0, <2>2 DEF upsertEntry
  <2>3. CASE upsertEntry(k) /\ entries[k].source # ws[k].source
    <3>1. PICK last \in {entries[k].last, ws[k].observed} :
             entries' = [entries EXCEPT ![k] = [source |-> ws[k].source, last |-> last]]
      BY <1>0, <2>3 DEF upsertEntry
    <3>2. ws[k].source \in Sources /\ last \in Revisions
      BY <1>0, <2>3, EntryOrNot DEF upsertEntry, WorkspaceType
    <3>3. [source |-> ws[k].source, last |-> last] \in EntryType
      BY <3>2 DEF EntryType
    <3>q. QED
      BY <1>0, <3>1, <3>3
  <2>q. QED
    BY <2>1, <2>2, <2>3 DEF Reconcile
<1>3. RecordedMeansReported'
  <2>1. ASSUME NEW j \in Keys, entries'[j].last \in SHAs PROVE entries'[j].last \in seen[j]
    <3>1. CASE j # k
      BY <1>2, <2>1, <3>1 DEF Core, RecordedMeansReported
    <3>2. CASE j = k
      BY <1>2, <2>1, <3>2, Distinct DEF Core, RecordedMeansReported, CarriedReported
    <3>q. QED
      BY <3>1, <3>2
  <2>q. QED
    BY <1>1, <2>1 DEF RecordedMeansReported
<1>q. QED
  BY <1>1, <1>2, <1>3 DEF Core, WorkersKnow, CarriedReported

\* What is written to an object by others than the workers.
LEMMA ObjectsKeep ==
    ASSUME Core, NEW k \in Keys, EditWorkspace(k) \/ ParkOrDecide(k) \/ recordApplied(k)
    PROVE  Core'
<1>0. ws \in [Keys -> WorkspaceType] /\ ws[k] \in WorkspaceType
  BY DEF Core
<1>1. PICK obj \in WorkspaceType :
          /\ Writes(k, obj)
          /\ obj.observed \in {NoSHA, ws[k].observed, ws[k].detected} \cup {BranchName(s) : s \in Sources}
          /\ obj.detected \in {NoSHA, ws[k].detected}
  <2>1. CASE EditWorkspace(k)
    <3>1. PICK s \in Sources \cup {0} : Writes(k, IF s # 0 /\ ws[k].source # 0
                   THEN [ws[k] EXCEPT !.source = s]
                   ELSE [source |-> s, observed |-> NoSHA, detected |-> NoSHA, pending |-> FALSE])
      BY <2>1 DEF EditWorkspace
    <3>2. /\ [ws[k] EXCEPT !.source = s] \in WorkspaceType
          /\ [ws[k] EXCEPT !.source = s].observed = ws[k].observed
          /\ [ws[k] EXCEPT !.source = s].detected = ws[k].detected
      BY <1>0 DEF WorkspaceType
    <3>3. [source |-> s, observed |-> NoSHA, detected |-> NoSHA, pending |-> FALSE] \in WorkspaceType
      BY Distinct DEF WorkspaceType
    <3>q. QED
      BY <3>1, <3>2, <3>3
  <2>2. CASE ParkOrDecide(k)
    <3>1. Writes(k, [ws[k] EXCEPT !.pending = ~ws[k].pending])
      BY <2>2 DEF ParkOrDecide
    <3>2. /\ [ws[k] EXCEPT !.pending = ~ws[k].pending] \in WorkspaceType
          /\ [ws[k] EXCEPT !.pending = ~ws[k].pending].observed = ws[k].observed
          /\ [ws[k] EXCEPT !.pending = ~ws[k].pending].detected = ws[k].detected
      BY <1>0 DEF WorkspaceType
    <3>q. QED
      BY <3>1, <3>2
  <2>3. CASE recordApplied(k)
    <3>1. PICK rev \in {ws[k].detected, BranchName(ws[k].source)} :
             Writes(k, [ws[k] EXCEPT !.observed = rev, !.detected = NoSHA])
      BY <2>3 DEF recordApplied
    <3>2. ws[k].source \in Sources /\ rev \in Revisions
      BY <1>0, <2>3, Distinct DEF recordApplied, WorkspaceType
    <3>3. /\ [ws[k] EXCEPT !.observed = rev, !.detected = NoSHA] \in WorkspaceType
          /\ [ws[k] EXCEPT !.observed = rev, !.detected = NoSHA].observed = rev
          /\ [ws[k] EXCEPT !.observed = rev, !.detected = NoSHA].detected = NoSHA
      BY <1>0, <3>2 DEF WorkspaceType
    <3>q. QED
      BY <3>1, <3>2, <3>3
  <2>q. QED
    BY <2>1, <2>2, <2>3
<1>2. /\ ws' \in [Keys -> WorkspaceType] /\ ws'[k] = obj /\ \A j \in Keys \ {k} : ws'[j] = ws[j]
      /\ UNCHANGED <<entries, workers, seen>>
  BY <1>0, <1>1 DEF Writes
<1>3. CarriedReported'
  <2>1. ASSUME NEW j \in Keys
        PROVE  /\ ws'[j].observed \in SHAs => ws'[j].observed \in seen[j]
               /\ ws'[j].detected \in SHAs => ws'[j].detected \in seen[j]
    <3>1. CASE j # k
      BY <1>2, <3>1 DEF Core, CarriedReported
    <3>2. CASE j = k
      BY <1>1, <1>2, <3>2, Distinct DEF Core, CarriedReported
    <3>q. QED
      BY <3>1, <3>2
  <2>q. QED
    BY <1>2, <2>1 DEF Core, CarriedReported
<1>q. QED
  BY <1>2, <1>3 DEF Core, WorkersKnow, RecordedMeansReported

\* A worker that becomes x while commits may be reported.
LEMMA WorkerMoves ==
    ASSUME Core, NEW w \in Workers, NEW x \in WorkerType, workers' = [workers EXCEPT ![w] = x],
           x.step = "idle" <=> x.key = NoKey,
           x.step = "resolve" => x.source \in Sources,
           x.step \in {"get", "patch", "record"} => x.sha \in SHAs,
           x.step = "record" => x.sha \in seen'[x.key],
           seen' \in [Keys -> SUBSET SHAs], \A k \in Keys : seen[k] \subseteq seen'[k]
    PROVE  /\ workers' \in [Workers -> WorkerType] /\ WorkersKnow'
           /\ \A v \in Workers : workers'[v].step = "record" => workers'[v].sha \in seen'[workers'[v].key]
<1>0. workers \in [Workers -> WorkerType]
  BY DEF Core
<1>1. workers' \in [Workers -> WorkerType] /\ workers'[w] = x /\ \A v \in Workers \ {w} : workers'[v] = workers[v]
  BY <1>0
<1>2. ASSUME NEW v \in Workers
      PROVE  /\ workers'[v].step = "idle" <=> workers'[v].key = NoKey
             /\ workers'[v].step = "resolve" => workers'[v].source \in Sources
             /\ workers'[v].step \in {"get", "patch", "record"} => workers'[v].sha \in SHAs
             /\ workers'[v].step = "record" => workers'[v].sha \in seen'[workers'[v].key]
  <2>1. CASE v = w
    BY <1>1, <2>1
  <2>2. CASE v # w
    <3>1. workers'[v] = workers[v] /\ workers[v] \in WorkerType
      BY <1>0, <1>1, <2>2
    <3>2. workers[v].step = "record" => workers[v].key \in Keys /\ workers[v].sha \in seen[workers[v].key]
      BY <3>1 DEF Core, WorkersKnow, CarriedReported, WorkerType
    <3>q. QED
      BY <3>1, <3>2 DEF Core, WorkersKnow
  <2>q. QED
    BY <2>1, <2>2
<1>q. QED
  BY <1>1, <1>2 DEF WorkersKnow

\* The objects and the registry need nothing when more is reported.
LEMMA ReportedGrows ==
    ASSUME Core, UNCHANGED <<ws, entries>>,
           seen' \in [Keys -> SUBSET SHAs], \A k \in Keys : seen[k] \subseteq seen'[k],
           workers' \in [Workers -> WorkerType], WorkersKnow',
           \A v \in Workers : workers'[v].step = "record" => workers'[v].sha \in seen'[workers'[v].key]
    PROVE  Core'
<1>1. RecordedMeansReported'
  BY DEF Core, RecordedMeansReported
<1>2. CarriedReported'
  BY DEF Core, CarriedReported
<1>q. QED
  BY <1>1, <1>2 DEF Core

\* A worker that goes to a step where nothing more is asked of what it knows.
LEMMA GoesOn ==
    ASSUME Core, NEW w \in Workers, workers[w].step # "idle", Goes(w, "reschedule"), UNCHANGED seen
    PROVE  /\ workers' \in [Workers -> WorkerType] /\ WorkersKnow'
           /\ \A v \in Workers : workers'[v].step = "record" => workers'[v].sha \in seen'[workers'[v].key]
<1> DEFINE x == [workers[w] EXCEPT !.step = "reschedule"]
<1>1. workers \in [Workers -> WorkerType] /\ workers[w] \in WorkerType /\ workers[w].key # NoKey
  BY DEF Core, WorkersKnow
<1>2. workers' = [workers EXCEPT ![w] = x]
  BY <1>1 DEF Goes
<1>3. x \in WorkerType /\ x.step = "reschedule" /\ x.key = workers[w].key
  BY <1>1 DEF WorkerType, WorkerSteps
<1>4. seen' \in [Keys -> SUBSET SHAs] /\ \A k \in Keys : seen[k] \subseteq seen'[k]
  BY DEF Core
<1> HIDE DEF x
<1>q. QED
  BY <1>1, <1>2, <1>3, <1>4, WorkerMoves

\* A worker takes a key, reads its entry, or is done.
LEMMA TakesKey ==
    ASSUME Core, workCh \in Seq(Keys), NEW w \in Workers, receive(w) \/ snapshot(w) \/ reschedule(w)
    PROVE  Core'
<1>0. /\ workers \in [Workers -> WorkerType] /\ workers[w] \in WorkerType
      /\ entries \in [Keys -> EntryType \cup {NoEntry}]
      /\ IdleWorker \in WorkerType /\ IdleWorker.step = "idle" /\ IdleWorker.key = NoKey
  BY Distinct DEF Core, IdleWorker, WorkerType, WorkerSteps
<1>s. /\ UNCHANGED <<ws, entries, seen>>
      /\ seen' \in [Keys -> SUBSET SHAs] /\ \A k \in Keys : seen[k] \subseteq seen'[k]
  BY DEF Core, receive, snapshot, reschedule, objects
<1>1. CASE workers' = [workers EXCEPT ![w] = IdleWorker]
  <2>1. /\ workers' \in [Workers -> WorkerType] /\ WorkersKnow'
        /\ \A v \in Workers : workers'[v].step = "record" => workers'[v].sha \in seen'[workers'[v].key]
    BY <1>0, <1>1, <1>s, WorkerMoves
  <2>q. QED
    BY <1>s, <2>1, ReportedGrows
<1>2. CASE receive(w)
  <2> DEFINE x == [IdleWorker EXCEPT !.step = "snapshot", !.key = Head(workCh)]
  <2>1. Head(workCh) \in Keys /\ workers' = [workers EXCEPT ![w] = x]
    BY <1>2 DEF receive
  <2>2. x \in WorkerType /\ x.step = "snapshot" /\ x.key # NoKey
    BY <2>1, Distinct, RefWatcherAssumption DEF IdleWorker, WorkerType, WorkerSteps
  <2> HIDE DEF x
  <2>3. /\ workers' \in [Workers -> WorkerType] /\ WorkersKnow'
        /\ \A v \in Workers : workers'[v].step = "record" => workers'[v].sha \in seen'[workers'[v].key]
    BY <1>s, <2>1, <2>2, WorkerMoves
  <2>q. QED
    BY <1>s, <2>3, ReportedGrows
<1>3. CASE snapshot(w) /\ entries[workers[w].key] # NoEntry
  <2> DEFINE e == entries[workers[w].key]
             x == [workers[w] EXCEPT !.step = "resolve", !.source = e.source, !.last = e.last]
  <2>1. workers' = [workers EXCEPT ![w] = x]
    BY <1>3 DEF snapshot
  <2>2. workers[w].key \in Keys /\ workers[w].key # NoKey
    BY <1>0, <1>3 DEF snapshot, Core, WorkersKnow, WorkerType
  <2>3. e.source \in Sources /\ e.last \in Revisions
    BY <1>0, <1>3, <2>2, EntryOrNot
  <2> HIDE DEF e
  <2>4. x \in WorkerType /\ x.step = "resolve" /\ x.key # NoKey /\ x.source \in Sources
    BY <1>0, <2>2, <2>3 DEF WorkerType, WorkerSteps
  <2> HIDE DEF x
  <2>5. /\ workers' \in [Workers -> WorkerType] /\ WorkersKnow'
        /\ \A v \in Workers : workers'[v].step = "record" => workers'[v].sha \in seen'[workers'[v].key]
    BY <1>s, <2>1, <2>4, WorkerMoves
  <2>q. QED
    BY <1>s, <2>5, ReportedGrows
<1>4. CASE snapshot(w) /\ entries[workers[w].key] = NoEntry
  BY <1>1, <1>4 DEF snapshot
<1>5. CASE reschedule(w)
  BY <1>1, <1>5 DEF reschedule
<1>q. QED
  BY <1>2, <1>3, <1>4, <1>5

\* The first commit of a Workspace becomes its baseline; any other is to be reported.
LEMMA ResolveKeeps ==
    ASSUME Core, heads \in [Sources -> 1 .. MaxCommit], NEW w \in Workers, resolveRef(w)
    PROVE  Core'
<1>0. /\ workers \in [Workers -> WorkerType] /\ workers[w] \in WorkerType /\ workers[w].step = "resolve"
      /\ workers[w].key \in Keys /\ workers[w].key # NoKey /\ workers[w].source \in Sources
      /\ seen \in [Keys -> SUBSET SHAs] /\ UNCHANGED <<ws, entries>>
  BY DEF Core, resolveRef, WorkersKnow, WorkerType, objects
<1> DEFINE sha  == <<workers[w].source, heads[workers[w].source]>>
           last == workers[w].last
           step == IF last = sha THEN "reschedule" ELSE IF last = NoSHA THEN "record" ELSE "get"
           x    == [workers[w] EXCEPT !.sha = sha, !.step = step]
<1>1. sha \in SHAs
  BY <1>0 DEF SHAs
<1>2. CASE /\ workers' = [workers EXCEPT ![w].sha = sha, ![w].step = step]
           /\ seen' = [seen EXCEPT ![workers[w].key] = @ \cup {y \in {sha} : last = NoSHA}]
  <2>1. step \in {"reschedule", "record", "get"} /\ (step = "record" => last = NoSHA)
    OBVIOUS
  <2> HIDE DEF sha, last, step
  <2>2. workers' = [workers EXCEPT ![w] = x]
    BY <1>0, <1>2
  <2>3. x \in WorkerType /\ x.step = step /\ x.sha = sha /\ x.key = workers[w].key
    BY <1>0, <1>1, <2>1 DEF WorkerType, WorkerSteps
  <2>4. /\ seen' \in [Keys -> SUBSET SHAs] /\ \A k \in Keys : seen[k] \subseteq seen'[k]
        /\ last = NoSHA => sha \in seen'[workers[w].key]
    BY <1>0, <1>1, <1>2
  <2> HIDE DEF x
  <2>5. /\ workers' \in [Workers -> WorkerType] /\ WorkersKnow'
        /\ \A v \in Workers : workers'[v].step = "record" => workers'[v].sha \in seen'[workers'[v].key]
    BY <1>0, <1>1, <2>1, <2>2, <2>3, <2>4, WorkerMoves
  <2>q. QED
    BY <1>0, <2>4, <2>5, ReportedGrows
<1>3. CASE Goes(w, "reschedule") /\ UNCHANGED seen
  BY <1>0, <1>3, GoesOn, ReportedGrows
<1>q. QED
  BY <1>2, <1>3 DEF resolveRef

\* The object is read, and told of the commit before the commit is recorded.
LEMMA ReportKeeps ==
    ASSUME Core, NEW w \in Workers, get(w) \/ patch(w)
    PROVE  Core'
<1> DEFINE k == workers[w].key
<1>0. /\ workers \in [Workers -> WorkerType] /\ workers[w] \in WorkerType
      /\ k \in Keys /\ k # NoKey /\ workers[w].sha \in SHAs /\ workers[w].step # "idle"
      /\ seen \in [Keys -> SUBSET SHAs] /\ ws \in [Keys -> WorkspaceType]
      /\ UNCHANGED entries
  BY DEF Core, get, patch, WorkersKnow, WorkerType
<1>g. ASSUME NEW step \in {"patch", "record"}, Goes(w, step)
      PROVE  \E x \in WorkerType : /\ workers' = [workers EXCEPT ![w] = x] /\ x.step = step
                                   /\ x.key = k /\ x.sha = workers[w].sha
  <2> DEFINE x == [workers[w] EXCEPT !.step = step]
  <2>1. workers' = [workers EXCEPT ![w] = x]
    BY <1>0, <1>g DEF Goes
  <2>2. x \in WorkerType /\ x.step = step /\ x.key = k /\ x.sha = workers[w].sha
    BY <1>0 DEF WorkerType, WorkerSteps
  <2>q. QED
    BY <2>1, <2>2
<1>1. CASE Goes(w, "reschedule") /\ UNCHANGED <<ws, seen>>
  <2>1. /\ workers' \in [Workers -> WorkerType] /\ WorkersKnow'
        /\ \A v \in Workers : workers'[v].step = "record" => workers'[v].sha \in seen'[workers'[v].key]
    BY <1>0, <1>1, GoesOn
  <2>q. QED
    BY <1>0, <1>1, <2>1, ReportedGrows
<1>2. CASE Goes(w, "patch") /\ UNCHANGED <<ws, seen>>
  <2>1. PICK x \in WorkerType : /\ workers' = [workers EXCEPT ![w] = x] /\ x.step = "patch"
                                /\ x.key = k /\ x.sha = workers[w].sha
    BY <1>2, <1>g
  <2>2. seen' \in [Keys -> SUBSET SHAs] /\ \A j \in Keys : seen[j] \subseteq seen'[j]
    BY <1>0, <1>2
  <2>3. /\ workers' \in [Workers -> WorkerType] /\ WorkersKnow'
        /\ \A v \in Workers : workers'[v].step = "record" => workers'[v].sha \in seen'[workers'[v].key]
    BY <1>0, <2>1, <2>2, WorkerMoves
  <2>q. QED
    BY <1>0, <1>2, <2>2, <2>3, ReportedGrows
<1>3. CASE /\ Goes(w, "record") /\ ws' = [ws EXCEPT ![k].detected = workers[w].sha]
           /\ seen' = [seen EXCEPT ![k] = @ \cup {workers[w].sha}]
  <2>1. PICK x \in WorkerType : /\ workers' = [workers EXCEPT ![w] = x] /\ x.step = "record"
                                /\ x.key = k /\ x.sha = workers[w].sha
    BY <1>3, <1>g
  <2>2. /\ seen' \in [Keys -> SUBSET SHAs] /\ \A j \in Keys : seen[j] \subseteq seen'[j]
        /\ workers[w].sha \in seen'[k]
    BY <1>0, <1>3
  <2>3. /\ workers' \in [Workers -> WorkerType] /\ WorkersKnow'
        /\ \A v \in Workers : workers'[v].step = "record" => workers'[v].sha \in seen'[workers'[v].key]
    BY <1>0, <2>1, <2>2, WorkerMoves
  <2>4. /\ ws' \in [Keys -> WorkspaceType]
        /\ \A j \in Keys : ws'[j].observed = ws[j].observed
        /\ \A j \in Keys : ws'[j].detected = IF j = k THEN workers[w].sha ELSE ws[j].detected
    BY <1>0, <1>3 DEF WorkspaceType
  <2>5. CarriedReported'
    BY <2>2, <2>3, <2>4 DEF Core, CarriedReported
  <2>6. RecordedMeansReported'
    BY <1>0, <2>2 DEF Core, RecordedMeansReported
  <2>q. QED
    BY <1>0, <2>2, <2>3, <2>4, <2>5, <2>6 DEF Core
<1>4. CASE get(w)
  BY <1>1, <1>2, <1>4 DEF get, objects
<1>5. CASE patch(w)
  BY <1>1, <1>3, <1>5 DEF patch
<1>q. QED
  BY <1>4, <1>5

\* What a worker records was reported.
LEMMA RecordKeeps ==
    ASSUME Core, NEW w \in Workers, record(w)
    PROVE  Core'
<1> DEFINE k == workers[w].key
<1>0. /\ workers[w] \in WorkerType /\ workers[w].step = "record" /\ k \in Keys
      /\ workers[w].sha \in SHAs /\ workers[w].sha \in seen[k]
      /\ entries \in [Keys -> EntryType \cup {NoEntry}] /\ seen \in [Keys -> SUBSET SHAs]
      /\ UNCHANGED <<ws, seen>>
  BY DEF Core, record, WorkersKnow, CarriedReported, WorkerType, objects
<1>1. /\ workers' \in [Workers -> WorkerType] /\ WorkersKnow'
      /\ \A v \in Workers : workers'[v].step = "record" => workers'[v].sha \in seen'[workers'[v].key]
  BY <1>0, GoesOn DEF record
<1>2. CarriedReported'
  BY <1>0, <1>1 DEF Core, CarriedReported
<1>3. CASE entries' = entries
  BY <1>0, <1>1, <1>2, <1>3 DEF Core, RecordedMeansReported
<1>4. CASE entries[k] # NoEntry /\ entries' = [entries EXCEPT ![k].last = workers[w].sha]
  <2>1. entries[k] \in EntryType /\ workers[w].sha \in Revisions
    BY <1>0, <1>4, Distinct
  <2>2. [entries[k] EXCEPT !.last = workers[w].sha] \in EntryType
    BY <2>1 DEF EntryType
  <2>3. /\ entries' \in [Keys -> EntryType \cup {NoEntry}]
        /\ \A j \in Keys : entries'[j].last = IF j = k THEN workers[w].sha ELSE entries[j].last
    BY <1>0, <1>4, <2>1, <2>2 DEF EntryType
  <2>4. RecordedMeansReported'
    BY <1>0, <2>3 DEF Core, RecordedMeansReported
  <2>q. QED
    BY <1>0, <1>1, <1>2, <2>3, <2>4 DEF Core
<1>q. QED
  BY <1>3, <1>4 DEF record

\* Every step keeps the invariant.
LEMMA NextIInv == IInv /\ [Next]_vs => IInv'
<1> SUFFICES ASSUME IInv, [Next]_vs PROVE IInv'
  OBVIOUS
<1>0. Core /\ TypeOK /\ WorkersKnow /\ workCh \in Seq(Keys) /\ heads \in [Sources -> 1 .. MaxCommit]
  BY DEF IInv, TypeOK, Core
<1>1. CASE UNCHANGED vs
  BY <1>1 DEF vs, objects, scheduler, IInv, TypeOK, WorkersKnow, CarriedReported, RecordedMeansReported
<1>2. ASSUME Next PROVE Core'
  <2>1. CASE UNCHANGED <<ws, entries, workers, seen>>
    BY <1>0, <2>1 DEF Core, WorkersKnow, CarriedReported, RecordedMeansReported
  <2>2. CASE Start
    <3>1. workers' \in [Workers -> WorkerType] /\ \A w \in Workers : workers'[w] = IdleWorker
      BY <2>2, Distinct DEF Start, IdleWorker, WorkerType, WorkerSteps
    <3>2. entries' \in [Keys -> EntryType \cup {NoEntry}] /\ \A k \in Keys : entries'[k] = NoEntry
      BY <2>2 DEF Start
    <3>3. UNCHANGED <<ws, seen>>
      BY <2>2 DEF Start, objects
    <3>4. WorkersKnow' /\ CarriedReported'
      BY <1>0, <3>1, <3>3 DEF Core, WorkersKnow, CarriedReported, IdleWorker
    <3>5. RecordedMeansReported'
      BY <3>2, Distinct DEF RecordedMeansReported, NoEntry
    <3>q. QED
      BY <1>0, <3>1, <3>2, <3>3, <3>4, <3>5 DEF Core
  <2>3. ASSUME NEW k \in Keys, dispatchDue(k) \/ nextPollAtPasses(k)
        PROVE  UNCHANGED <<ws, entries, workers, seen>>
    BY <2>3 DEF dispatchDue, nextPollAtPasses, objects
  <2>4. ASSUME \/ signalScheduler \/ wakeUp \/ dispatchDone \/ \E s \in Sources : PushCommit(s)
        PROVE  UNCHANGED <<ws, entries, workers, seen>>
    BY <2>4 DEF signalScheduler, wakeUp, dispatchDone, PushCommit, objects
  <2>5. ASSUME NEW w \in Workers, receive(w) \/ pollRemote(w) PROVE Core'
    BY <1>0, <2>5, TakesKey, ResolveKeeps, ReportKeeps, RecordKeeps DEF pollRemote
  <2>6. ASSUME NEW k \in Keys, Reconcile(k) \/ EditWorkspace(k) \/ ParkOrDecide(k) \/ recordApplied(k)
        PROVE  Core'
    BY <1>0, <2>6, ReconcileKeeps, ObjectsKeep
  <2>q. QED
    BY <1>2, <2>1, <2>2, <2>3, <2>4, <2>5, <2>6 DEF Next
<1>3. CASE Next
  BY <1>0, <1>2, <1>3, SchedulerTypes, CounterTypes DEF Core, IInv, TypeOK
<1>q. QED
  BY <1>1, <1>3
-----------------------------------------------------------------------------
(* Theorems.                                                                *)

\* Every variable keeps its type, and the channel of work its capacity.
THEOREM TypeCorrect == Spec => []TypeOK
<1>1. IInv => TypeOK
  BY DEF IInv
<1>q. QED
  BY InitIInv, NextIInv, <1>1, PTL DEF Spec

\* pollRemote tells the Workspace of a commit before it records it: what the registry
\* takes for known was reported or was a baseline, also after restarts of the manager and
\* when the Workspace is edited, deleted or created again meanwhile.
THEOREM ReportsPrecedeRecords == Spec => []RecordedMeansReported
<1>1. IInv => RecordedMeansReported
  BY DEF IInv
<1>q. QED
  BY InitIInv, NextIInv, <1>1, PTL DEF Spec

\* k is on the heap, in the channel, with a worker, or about to be pushed.
Remembered(k) ==
    \/ due[k] + later[k] > 0
    \/ \E i \in 1 .. Len(workCh) : workCh[i] = k
    \/ \E w \in Workers : workers[w].key = k
    \/ upserting = k

\* A step that finds room in the channel forgets no key that stays registered.
LEMMA StepRemembers ==
    ASSUME IInv, NeverForgotten, Next, NEW k \in Keys, entries'[k] # NoEntry,
           \A j \in Keys : due[j] > 0 => Len(workCh) < QueueSize
    PROVE  Remembered(k)'
<1> USE DEF Remembered
<1>0. /\ due \in [Keys -> Nat] /\ later \in [Keys -> Nat] /\ workCh \in Seq(Keys)
      /\ upserting \in Keys \cup {NoKey} /\ workers \in [Workers -> WorkerType]
      /\ due' \in [Keys -> Nat] /\ later' \in [Keys -> Nat]
      /\ entries \in [Keys -> EntryType \cup {NoEntry}]
      /\ NoKey \notin Keys
  BY SchedulerTypes, RefWatcherAssumption DEF IInv, TypeOK
<1>k. /\ \A w \in Workers : workers[w].step # "idle" => workers[w].key \in Keys
      /\ \A w \in Workers : workers[w].step = "idle" => workers[w].key = NoKey
  BY <1>0 DEF IInv, WorkersKnow, WorkerType
<1>r. entries[k] # NoEntry => Remembered(k)
  BY DEF NeverForgotten
<1>g. ASSUME NEW w \in Workers, NEW step, Goes(w, step)
      PROVE  \A v \in Workers : workers'[v].key = workers[v].key
  BY <1>0, <1>g DEF Goes, WorkerType
<1>1. ASSUME NEW j \in Keys, Reconcile(j) PROVE Remembered(k)'
  <2>1. UNCHANGED <<due, later, workCh, workers>>
    BY <1>1 DEF Reconcile, removeEntry, upsertEntry, scheduler
  <2>2. CASE removeEntry(j)
    <3>1. entries'[k] = entries[k] /\ UNCHANGED upserting
      BY <1>0, <2>2 DEF removeEntry
    <3>q. QED
      BY <1>r, <2>1, <3>1
  <2>3. CASE upsertEntry(j)
    <3>1. upserting = NoKey
      BY <2>3 DEF upsertEntry, registryFree
    <3>2. \/ upserting' = k
          \/ entries'[k] = entries[k]
      BY <1>0, <2>3 DEF upsertEntry
    <3>q. QED
      BY <1>0, <1>r, <2>1, <3>1, <3>2
  <2>q. QED
    BY <1>1, <2>2, <2>3 DEF Reconcile
<1>p. ASSUME NEW j \in Keys, push(j)
      PROVE  /\ j = k => due'[k] + later'[k] > 0
             /\ due[k] + later[k] > 0 => due'[k] + later'[k] > 0
  BY <1>0, <1>p DEF push
<1>2. CASE signalScheduler
  <2>1. upserting \in Keys /\ push(upserting) /\ UNCHANGED <<entries, workCh, workers>>
    BY <1>0, <1>2 DEF signalScheduler
  <2>q. QED
    BY <1>p, <1>r, <2>1
<1>3. ASSUME NEW j \in Keys, dispatchDue(j) PROVE Remembered(k)'
  <2>1. UNCHANGED <<entries, workers, upserting, later>> /\ due' = [due EXCEPT ![j] = due[j] - 1]
    BY <1>3 DEF dispatchDue
  <2>2. CASE j = k
    <3>1. workCh' = Append(workCh, k)
      BY <1>3, <2>1, <2>2 DEF dispatchDue
    <3>2. Len(workCh') = Len(workCh) + 1 /\ workCh'[Len(workCh) + 1] = k /\ Len(workCh) \in Nat
      BY <1>0, <3>1
    <3>3. Len(workCh) + 1 \in 1 .. Len(workCh')
      BY <3>2
    <3>q. QED
      BY <3>2, <3>3
  <2>3. CASE j # k
    <3>1. due'[k] = due[k]
      BY <1>0, <2>1, <2>3
    <3>2. workCh' = workCh \/ workCh' = Append(workCh, j)
      BY <1>3 DEF dispatchDue
    <3>3. \A i \in 1 .. Len(workCh) : i \in 1 .. Len(workCh') /\ workCh'[i] = workCh[i]
      <4>1. CASE workCh' = Append(workCh, j)
        <5>1. Len(workCh') = Len(workCh) + 1 /\ Len(workCh) \in Nat
          BY <1>0, <4>1
        <5>2. \A i \in 1 .. Len(workCh) : workCh'[i] = workCh[i]
          BY <1>0, <4>1
        <5>q. QED
          BY <5>1, <5>2
      <4>q. QED
        BY <3>2, <4>1
    <3>q. QED
      BY <1>r, <2>1, <3>1, <3>3
  <2>q. QED
    BY <2>2, <2>3
<1>4. ASSUME NEW j \in Keys, nextPollAtPasses(j) PROVE Remembered(k)'
  <2>1. UNCHANGED <<entries, workers, upserting, workCh>>
    BY <1>4 DEF nextPollAtPasses
  <2>2. due[k] + later[k] > 0 => due'[k] + later'[k] > 0
    BY <1>0, <1>4 DEF nextPollAtPasses
  <2>q. QED
    BY <1>r, <2>1, <2>2
<1>5. CASE UNCHANGED <<entries, due, later, workCh, workers, upserting>>
  BY <1>5, <1>r
<1>6. ASSUME NEW w \in Workers, receive(w) PROVE Remembered(k)'
  <2>1. /\ UNCHANGED <<entries, due, later, upserting>> /\ workCh # <<>> /\ workCh' = Tail(workCh)
        /\ workers[w].key = NoKey
    BY <1>6, <1>k DEF receive, scheduler
  <2>2. workers'[w].key = Head(workCh) /\ \A v \in Workers \ {w} : workers'[v] = workers[v]
    BY <1>0, <1>6 DEF receive, IdleWorker
  <2>3. ASSUME NEW i \in 1 .. Len(workCh), workCh[i] = k PROVE Remembered(k)'
    <3>1. CASE i = 1
      BY <1>0, <2>1, <2>2, <2>3, <3>1
    <3>2. CASE i # 1
      <4>1. i - 1 \in 1 .. Len(workCh') /\ workCh'[i - 1] = k
        BY <1>0, <2>1, <2>3, <3>2
      <4>q. QED
        BY <4>1
    <3>q. QED
      BY <3>1, <3>2
  <2>4. ASSUME NEW v \in Workers, workers[v].key = k PROVE workers'[v].key = k
    BY <1>0, <2>1, <2>2, <2>4
  <2>q. QED
    BY <1>r, <2>1, <2>3, <2>4
<1>7. ASSUME NEW w \in Workers, snapshot(w) PROVE Remembered(k)'
  <2>1. UNCHANGED <<entries, due, later, workCh, upserting>>
    BY <1>7 DEF snapshot, scheduler
  <2>2. ASSUME NEW v \in Workers, workers[v].key = k PROVE workers'[v].key = k
    <3>1. CASE v # w
      BY <1>0, <1>7, <2>2, <3>1 DEF snapshot
    <3>2. CASE v = w
      <4>1. workers'[w] = [workers[w] EXCEPT !.step = "resolve", !.source = entries[k].source, !.last = entries[k].last]
        BY <1>0, <1>7, <2>1, <2>2, <3>2 DEF snapshot
      <4>q. QED
        BY <1>0, <2>2, <3>2, <4>1 DEF WorkerType
    <3>q. QED
      BY <3>1, <3>2
  <2>q. QED
    BY <1>r, <2>1, <2>2
<1>8. ASSUME NEW w \in Workers, resolveRef(w) \/ get(w) \/ patch(w) \/ record(w) PROVE Remembered(k)'
  <2>1. UNCHANGED <<due, later, workCh, upserting>>
    BY <1>8 DEF resolveRef, get, patch, record, scheduler
  <2>2. entries[k] # NoEntry
    BY <1>0, <1>8 DEF resolveRef, get, patch, record
  <2>3. \A v \in Workers : workers'[v].key = workers[v].key
    <3>1. CASE resolveRef(w)
      <4>1. CASE \E x, y : workers' = [workers EXCEPT ![w].sha = x, ![w].step = y]
        BY <1>0, <4>1 DEF WorkerType
      <4>q. QED
        BY <1>g, <3>1, <4>1 DEF resolveRef
    <3>2. CASE get(w) \/ patch(w) \/ record(w)
      BY <1>g, <3>2 DEF get, patch, record
    <3>q. QED
      BY <1>8, <3>1, <3>2
  <2>q. QED
    BY <1>r, <2>1, <2>2, <2>3
<1>9. ASSUME NEW w \in Workers, reschedule(w) PROVE Remembered(k)'
  <2>1. workers[w].key \in Keys /\ push(workers[w].key) /\ UNCHANGED <<entries, workCh, upserting>>
    BY <1>9, <1>k DEF reschedule
  <2>2. \A v \in Workers \ {w} : workers'[v] = workers[v]
    BY <1>0, <1>9 DEF reschedule
  <2>q. QED
    BY <1>p, <1>r, <2>1, <2>2
<1>10. ~Start
  BY DEF Start
<1>11. ASSUME \/ wakeUp \/ dispatchDone \/ \E s \in Sources : PushCommit(s)
              \/ \E j \in Keys : EditWorkspace(j) \/ ParkOrDecide(j) \/ recordApplied(j)
       PROVE  Remembered(k)'
  BY <1>5, <1>11 DEF wakeUp, dispatchDone, PushCommit, EditWorkspace, ParkOrDecide, recordApplied, Writes, scheduler
<1> HIDE DEF Remembered
<1>q. QED
  BY <1>1, <1>2, <1>3, <1>4, <1>6, <1>7, <1>8, <1>9, <1>10, <1>11 DEF Next, pollRemote

\* dispatchDue drops a key when the channel is full, and that is the only way a registered
\* Workspace is ever forgotten: no order of edits, polls, failures and restarts forgets one
\* in a step that finds room in the channel.
THEOREM OnlyFullChannelForgets ==
    Spec => [][NeverForgotten /\ Len(workCh) < QueueSize => NeverForgotten']_vs
<1>1. IInv /\ [Next]_vs => [NeverForgotten /\ Len(workCh) < QueueSize => NeverForgotten']_vs
  <2> SUFFICES ASSUME IInv, Next, NeverForgotten, Len(workCh) < QueueSize PROVE NeverForgotten'
    BY DEF vs
  <2>1. \A k \in Keys : entries'[k] # NoEntry => Remembered(k)'
    BY StepRemembers
  <2>q. QED
    BY <2>1 DEF NeverForgotten, Remembered
<1>q. QED
  BY InitIInv, NextIInv, <1>1, PTL DEF Spec

-----------------------------------------------------------------------------
(* The load of the scheduler.                                               *)

\* The keys for which Reconcile has something to do.
Stale == {k \in Keys : entries[k].source # ws[k].source}

\* Every poll under way, in whatever place, and every one that Reconcile is still to start.
Load ==
    Cardinality(Heap) + Len(workCh) + Cardinality(Busy)
      + (IF upserting = NoKey THEN 0 ELSE 1) + Cardinality(Stale)

\* There is at most one poll under way for each Workspace and each change of a source.
Bounded ==
    /\ IsFiniteSet(Heap) /\ IsFiniteSet(Busy)
    /\ Load <= Cardinality(Keys) + moves

\* push puts one entry more on the heap.
LEMMA HeapGrows ==
    ASSUME due \in [Keys -> Nat], later \in [Keys -> Nat], NEW k \in Keys, push(k), IsFiniteSet(Heap)
    PROVE  IsFiniteSet(Heap') /\ Cardinality(Heap') = Cardinality(Heap) + 1
<1> DEFINE n == due[k] + later[k]
<1>1. /\ n \in Nat /\ due'[k] + later'[k] = n + 1
      /\ \A j \in Keys \ {k} : due'[j] + later'[j] = due[j] + later[j]
  BY DEF push
<1>2. <<k, n + 1>> \notin Heap
  BY <1>1 DEF Heap
<1>3. 1 .. n + 1 = (1 .. n) \cup {n + 1}
  BY <1>1
<1> DEFINE E(j) == {j} \X (1 .. due[j] + later[j])
           F(j) == {j} \X (1 .. due'[j] + later'[j])
<1>4. F(k) = E(k) \cup {<<k, n + 1>>} /\ \A j \in Keys \ {k} : F(j) = E(j)
  BY <1>1, <1>3
<1>5. Heap = UNION {E(j) : j \in Keys} /\ Heap' = UNION {F(j) : j \in Keys}
  BY DEF Heap
<1> HIDE DEF E, F
<1>6. Heap' = Heap \cup {<<k, n + 1>>}
  BY <1>4, <1>5
<1>q. QED
  BY <1>2, <1>6, FS_AddElement

\* A due entry that is popped leaves the heap.
LEMMA HeapShrinks ==
    ASSUME due \in [Keys -> Nat], later \in [Keys -> Nat], NEW k \in Keys, due[k] > 0,
           due' = [due EXCEPT ![k] = @ - 1], later' = later, IsFiniteSet(Heap)
    PROVE  IsFiniteSet(Heap') /\ Cardinality(Heap') = Cardinality(Heap) - 1
<1> DEFINE n == due[k] + later[k]
<1>1. /\ n \in Nat /\ n > 0 /\ due'[k] + later'[k] = n - 1
      /\ \A j \in Keys \ {k} : due'[j] + later'[j] = due[j] + later[j]
  OBVIOUS
<1>2. <<k, n>> \in Heap
  BY <1>1 DEF Heap
<1>3. 1 .. n - 1 = (1 .. n) \ {n}
  BY <1>1
<1> DEFINE E(j) == {j} \X (1 .. due[j] + later[j])
           F(j) == {j} \X (1 .. due'[j] + later'[j])
<1>4. F(k) = E(k) \ {<<k, n>>} /\ \A j \in Keys \ {k} : F(j) = E(j) /\ <<k, n>> \notin E(j)
  BY <1>1, <1>3
<1>5. Heap = UNION {E(j) : j \in Keys} /\ Heap' = UNION {F(j) : j \in Keys}
  BY DEF Heap
<1> HIDE DEF E, F
<1>6. Heap' = Heap \ {<<k, n>>}
  BY <1>4, <1>5
<1>q. QED
  BY <1>2, <1>6, FS_RemoveElement

LEMMA HeapKeeps ==
    ASSUME \A k \in Keys : due'[k] + later'[k] = due[k] + later[k]
    PROVE  Heap' = Heap
BY DEF Heap

\* A worker that takes a key, and one that is done with it.
LEMMA BusyChanges ==
    ASSUME IsFiniteSet(Busy), NEW w \in Workers, \A v \in Workers \ {w} : workers'[v] = workers[v]
    PROVE  /\ workers'[w].key = workers[w].key => Busy' = Busy
           /\ workers[w].key = NoKey /\ workers'[w].key # NoKey =>
                IsFiniteSet(Busy') /\ Cardinality(Busy') = Cardinality(Busy) + 1
           /\ workers[w].key # NoKey /\ workers'[w].key = NoKey =>
                IsFiniteSet(Busy') /\ Cardinality(Busy') = Cardinality(Busy) - 1
<1>1. workers'[w].key = workers[w].key => Busy' = Busy
  BY DEF Busy
<1>2. ASSUME workers[w].key = NoKey, workers'[w].key # NoKey
      PROVE  IsFiniteSet(Busy') /\ Cardinality(Busy') = Cardinality(Busy) + 1
  <2>1. w \notin Busy /\ Busy' = Busy \cup {w}
    BY <1>2 DEF Busy
  <2>q. QED
    BY <2>1, FS_AddElement
<1>3. ASSUME workers[w].key # NoKey, workers'[w].key = NoKey
      PROVE  IsFiniteSet(Busy') /\ Cardinality(Busy') = Cardinality(Busy) - 1
  <2>1. w \in Busy /\ Busy' = Busy \ {w}
    BY <1>3 DEF Busy
  <2>q. QED
    BY <2>1, FS_RemoveElement
<1>q. QED
  BY <1>1, <1>2, <1>3

\* No step takes on more polls than it counts changes of a source.
LEMMA NextBounded ==
    ASSUME IsFiniteSet(Keys), IInv, IInv', Bounded, [Next]_vs
    PROVE  Bounded'
<1> DEFINE U == IF upserting = NoKey THEN 0 ELSE 1
           S == Cardinality(Stale)
           H == Cardinality(Heap)
           B == Cardinality(Busy)
           K == Cardinality(Keys)
<1>0. /\ due \in [Keys -> Nat] /\ later \in [Keys -> Nat] /\ workCh \in Seq(Keys)
      /\ upserting \in Keys \cup {NoKey} /\ workers \in [Workers -> WorkerType]
      /\ entries \in [Keys -> EntryType \cup {NoEntry}] /\ ws \in [Keys -> WorkspaceType]
      /\ moves \in 0 .. inputs /\ inputs \in 0 .. MaxInputs /\ MaxInputs \in Nat /\ NoKey \notin Keys
  BY RefWatcherAssumption DEF IInv, TypeOK
<1>k. /\ \A w \in Workers : workers[w].step # "idle" => workers[w].key \in Keys /\ workers[w].key # NoKey
      /\ \A w \in Workers : workers[w].step = "idle" => workers[w].key = NoKey
  BY <1>0 DEF IInv, WorkersKnow, WorkerType
<1>f. IsFiniteSet(Stale) /\ IsFiniteSet(Stale') /\ IsFiniteSet(Heap) /\ IsFiniteSet(Busy)
  BY FS_Subset DEF Stale, Bounded
<1>n. /\ H \in Nat /\ B \in Nat /\ S \in Nat /\ S' \in Nat /\ K \in Nat /\ Len(workCh) \in Nat
      /\ U \in {0, 1} /\ Len(workCh') \in Nat /\ moves \in Nat
  BY <1>0, <1>f, FS_CardinalityType DEF IInv, TypeOK
<1>b. H + Len(workCh) + B + U + S <= K + moves
  BY DEF Bounded, Load
<1> DEFINE Goal == /\ IsFiniteSet(Heap') /\ IsFiniteSet(Busy')
                   /\ H' + Len(workCh') + B' + U' + S' <= K + moves'
<1>s. SUFFICES Goal
  BY DEF Bounded, Load
<1>h. ASSUME UNCHANGED <<due, later>> PROVE Heap' = Heap
  BY <1>h, HeapKeeps
<1>v. ASSUME UNCHANGED workers PROVE Busy' = Busy
  BY <1>v DEF Busy
<1>t. ASSUME \A k \in Keys : entries'[k].source = entries[k].source /\ ws'[k].source = ws[k].source
      PROVE  Stale' = Stale
  BY <1>t DEF Stale
<1>1. ASSUME NEW k \in Keys, removeEntry(k) PROVE Goal
  <2>1. UNCHANGED <<due, later, workCh, workers, upserting, moves, ws>>
    BY <1>1 DEF removeEntry, objects
  <2>2. entries'[k].source = ws'[k].source /\ \A j \in Keys \ {k} : entries'[j] = entries[j]
    BY <1>0, <1>1, <2>1 DEF removeEntry, NoEntry
  <2>3. Stale' \in SUBSET Stale
    BY <2>1, <2>2 DEF Stale
  <2>4. S' <= S
    BY <1>f, <2>3, FS_Subset
  <2>5. Heap' = Heap /\ Busy' = Busy /\ U' = U /\ Len(workCh') = Len(workCh)
    BY <1>h, <1>v, <2>1
  <2>q. QED
    BY <1>b, <1>f, <1>n, <2>1, <2>4, <2>5
<1>2. ASSUME NEW k \in Keys, upsertEntry(k) PROVE Goal
  <2>1. UNCHANGED <<due, later, workCh, workers, moves, ws>> /\ upserting = NoKey
    BY <1>2 DEF upsertEntry, objects, scheduler, registryFree
  <2>2. CASE entries[k].source = ws[k].source
    <3>1. UNCHANGED <<entries, upserting>>
      BY <1>2, <2>2 DEF upsertEntry
    <3>2. Stale' = Stale
      BY <2>1, <3>1 DEF Stale
    <3>q. QED
      BY <1>b, <1>f, <1>h, <1>n, <1>v, <2>1, <3>1, <3>2
  <2>3. CASE entries[k].source # ws[k].source
    <3>1. upserting' = k /\ entries'[k].source = ws[k].source /\ \A j \in Keys \ {k} : entries'[j] = entries[j]
      BY <1>0, <1>2, <2>3 DEF upsertEntry
    <3>2. k \in Stale /\ Stale' = Stale \ {k}
      BY <2>1, <2>3, <3>1 DEF Stale
    <3>3. S' = S - 1 /\ U = 0 /\ U' = 1
      BY <1>0, <1>f, <2>1, <3>1, <3>2, FS_RemoveElement
    <3>q. QED
      BY <1>b, <1>f, <1>h, <1>n, <1>v, <2>1, <3>3
  <2>q. QED
    BY <2>2, <2>3
<1>3. ASSUME NEW k \in Keys, dispatchDue(k) PROVE Goal
  <2>1. UNCHANGED <<later, workers, upserting, moves, ws, entries>>
    BY <1>3 DEF dispatchDue, objects
  <2>2. IsFiniteSet(Heap') /\ H' = H - 1
    BY <1>0, <1>3, <1>f, <2>1, HeapShrinks DEF dispatchDue
  <2>3. Len(workCh') <= Len(workCh) + 1
    BY <1>0, <1>3 DEF dispatchDue
  <2>4. Stale' = Stale
    BY <2>1 DEF Stale
  <2>q. QED
    <3>1. Busy' = Busy /\ U' = U /\ S' = S
      BY <1>v, <2>1, <2>4
    <3>q. QED
      BY <1>b, <1>f, <1>n, <2>1, <2>2, <2>3, <3>1
<1>4. ASSUME NEW k \in Keys, nextPollAtPasses(k) PROVE Goal
  <2>1. UNCHANGED <<workCh, workers, upserting, moves, ws, entries>>
    BY <1>4 DEF nextPollAtPasses, objects
  <2>2. Heap' = Heap
    <3>1. \A j \in Keys : due'[j] + later'[j] = due[j] + later[j]
      BY <1>0, <1>4 DEF nextPollAtPasses
    <3>q. QED
      BY <3>1, HeapKeeps
  <2>4. Stale' = Stale
    BY <2>1 DEF Stale
  <2>q. QED
    BY <1>b, <1>f, <1>n, <1>v, <2>1, <2>2, <2>4
<1>5. ASSUME NEW k \in Keys, EditWorkspace(k) PROVE Goal
  <2>1. /\ UNCHANGED <<entries, due, later, workCh, upserting, workers>> /\ moves' = moves + 1
        /\ \E obj : ws' = [ws EXCEPT ![k] = obj]
    BY <1>5 DEF EditWorkspace, Writes, scheduler
  <2>2. Stale' \in SUBSET (Stale \cup {k})
    BY <1>0, <2>1 DEF Stale
  <2>3. S' <= S + 1
    <3>0. /\ IsFiniteSet(Stale \cup {k})
          /\ Cardinality(Stale \cup {k}) = IF k \in Stale THEN S ELSE S + 1
      BY <1>f, FS_AddElement
    <3>1. IsFiniteSet(Stale \cup {k}) /\ Cardinality(Stale \cup {k}) <= S + 1
          /\ Cardinality(Stale \cup {k}) \in Nat
      BY <1>n, <3>0
    <3>2. S' <= Cardinality(Stale \cup {k})
      BY <2>2, <3>1, FS_Subset
    <3>q. QED
      BY <1>n, <3>1, <3>2
  <2>q. QED
    <3>1. Heap' = Heap /\ Busy' = Busy /\ U' = U /\ Len(workCh') = Len(workCh)
      BY <1>h, <1>v, <2>1
    <3>q. QED
      BY <1>b, <1>f, <1>n, <2>1, <2>3, <3>1
<1>o. ASSUME NEW k \in Keys, ParkOrDecide(k) \/ recordApplied(k) PROVE Goal
  <2>1. /\ UNCHANGED <<entries, due, later, workCh, upserting, workers, moves>>
        /\ \/ ws' = [ws EXCEPT ![k] = [ws[k] EXCEPT !.pending = ~ws[k].pending]]
           \/ \E rev : ws' = [ws EXCEPT ![k] = [ws[k] EXCEPT !.observed = rev, !.detected = NoSHA]]
    BY <1>o DEF ParkOrDecide, recordApplied, Writes, scheduler
  <2>2. \E obj : ws' = [ws EXCEPT ![k] = obj] /\ obj.source = ws[k].source
    <3>0. ws[k] \in WorkspaceType
      BY <1>0
    <3>1. /\ [ws[k] EXCEPT !.pending = ~ws[k].pending].source = ws[k].source
          /\ \A rev : [ws[k] EXCEPT !.observed = rev, !.detected = NoSHA].source = ws[k].source
      BY <3>0 DEF WorkspaceType
    <3>q. QED
      BY <2>1, <3>1
  <2>3. \A j \in Keys : ws'[j].source = ws[j].source
    BY <1>0, <2>2
  <2>s. Stale' = Stale
    BY <2>1, <2>3 DEF Stale
  <2>4. Heap' = Heap /\ Busy' = Busy /\ U' = U /\ Len(workCh') = Len(workCh)
    BY <1>h, <1>v, <2>1
  <2>q. QED
    BY <1>b, <1>f, <1>n, <2>1, <2>s, <2>4
<1>6. ASSUME NEW w \in Workers, receive(w) PROVE Goal
  <2>1. UNCHANGED <<due, later, upserting, moves, ws, entries>> /\ workCh # <<>> /\ workCh' = Tail(workCh)
    BY <1>6 DEF receive, objects, scheduler
  <2>2. Len(workCh') = Len(workCh) - 1 /\ Head(workCh) \in Keys
    BY <1>0, <2>1
  <2>3. workers[w].key = NoKey /\ workers'[w].key # NoKey /\ \A v \in Workers \ {w} : workers'[v] = workers[v]
    BY <1>0, <1>6, <1>k, <2>2 DEF receive, IdleWorker
  <2>4. IsFiniteSet(Busy') /\ B' = B + 1
    BY <1>f, <2>3, BusyChanges
  <2>5. Stale' = Stale
    BY <2>1 DEF Stale
  <2>q. QED
    BY <1>b, <1>f, <1>h, <1>n, <2>1, <2>2, <2>4, <2>5
<1>7. ASSUME NEW w \in Workers, snapshot(w) PROVE Goal
  <2>1. UNCHANGED <<due, later, workCh, upserting, moves, ws, entries>>
    BY <1>7 DEF snapshot, objects, scheduler
  <2>2. /\ workers[w].key # NoKey /\ \A v \in Workers \ {w} : workers'[v] = workers[v]
        /\ workers'[w].key \in {NoKey, workers[w].key}
    BY <1>0, <1>7, <1>k DEF snapshot, IdleWorker, WorkerType
  <2>3. IsFiniteSet(Busy') /\ (B' = B \/ B' = B - 1)
    BY <1>f, <2>2, BusyChanges
  <2>4. Stale' = Stale
    BY <2>1 DEF Stale
  <2>5. Heap' = Heap /\ U' = U /\ Len(workCh') = Len(workCh) /\ S' = S
    BY <1>h, <2>1, <2>4
  <2>q. QED
    BY <1>b, <1>f, <1>n, <2>1, <2>3, <2>5
<1>8. ASSUME NEW w \in Workers, resolveRef(w) \/ get(w) \/ patch(w) \/ record(w) PROVE Goal
  <2>1. UNCHANGED <<due, later, workCh, upserting, moves>>
    BY <1>8 DEF resolveRef, get, patch, record, objects, scheduler
  <2>2. \A v \in Workers : workers'[v].key = workers[v].key
    <3>1. ASSUME NEW x, Goes(w, x) PROVE \A v \in Workers : workers'[v].key = workers[v].key
      BY <1>0, <3>1 DEF Goes, WorkerType
    <3>2. CASE \E x, y : workers' = [workers EXCEPT ![w].sha = x, ![w].step = y]
      BY <1>0, <3>2 DEF WorkerType
    <3>q. QED
      BY <1>8, <3>1, <3>2 DEF resolveRef, get, patch, record
  <2>3. Busy' = Busy
    BY <2>2 DEF Busy
  <2>4. Stale' = Stale
    <3>1. CASE resolveRef(w) \/ get(w)
      <4>1. UNCHANGED <<ws, entries>>
        BY <3>1 DEF resolveRef, get, objects
      <4>q. QED
        BY <4>1, <1>t
    <3>2. CASE patch(w)
      <4>1. entries' = entries /\ (ws' = ws \/ ws' = [ws EXCEPT ![workers[w].key].detected = workers[w].sha])
        BY <3>2 DEF patch
      <4>2. \A k \in Keys : ws'[k].source = ws[k].source
        <5>1. ASSUME NEW k \in Keys, NEW j, NEW x, ws' = [ws EXCEPT ![j].detected = x]
              PROVE  ws'[k].source = ws[k].source
          <6>1. ws'[k] = ws[k] \/ ws'[k] = [ws[k] EXCEPT !.detected = x]
            BY <1>0, <5>1
          <6>2. ws[k] \in WorkspaceType
            BY <1>0
          <6>q. QED
            BY <6>1, <6>2 DEF WorkspaceType
        <5>q. QED
          BY <4>1, <5>1
      <4>q. QED
        BY <4>1, <4>2, <1>t
    <3>3. CASE record(w)
      <4>1. ws' = ws /\ (entries' = entries \/ entries' = [entries EXCEPT ![workers[w].key].last = workers[w].sha])
        BY <3>3 DEF record, objects
      <4>2. \A k \in Keys : entries'[k].source = entries[k].source
        <5>1. ASSUME NEW k \in Keys, NEW j, NEW x, entries' = [entries EXCEPT ![j].last = x]
              PROVE  entries'[k].source = entries[k].source
          <6>1. entries'[k] = entries[k] \/ entries'[k] = [entries[k] EXCEPT !.last = x]
            BY <1>0, <5>1
          <6>2. entries[k] \in [source : Sources \cup {0}, last : Revisions]
            BY <1>0, Distinct DEF EntryType, NoEntry
          <6>q. QED
            BY <6>1, <6>2
        <5>q. QED
          BY <4>1, <5>1
      <4>q. QED
        BY <4>1, <4>2, <1>t
    <3>q. QED
      BY <1>8, <3>1, <3>2, <3>3
  <2>q. QED
    BY <1>b, <1>f, <1>h, <1>n, <2>1, <2>3, <2>4
<1>9. ASSUME NEW w \in Workers, reschedule(w) PROVE Goal
  <2>1. UNCHANGED <<workCh, upserting, moves, ws, entries>> /\ push(workers[w].key) /\ workers[w].key \in Keys
    BY <1>9, <1>k DEF reschedule, objects
  <2>2. IsFiniteSet(Heap') /\ H' = H + 1
    BY <1>0, <1>f, <2>1, HeapGrows
  <2>3. /\ workers[w].key # NoKey /\ workers'[w].key = NoKey
        /\ \A v \in Workers \ {w} : workers'[v] = workers[v]
    BY <1>0, <1>9, <1>k DEF reschedule, IdleWorker
  <2>4. IsFiniteSet(Busy') /\ B' = B - 1
    BY <1>f, <2>3, BusyChanges
  <2>5. Stale' = Stale
    BY <2>1 DEF Stale
  <2>q. QED
    BY <1>b, <1>n, <2>1, <2>2, <2>4, <2>5
<1>10. ASSUME signalScheduler PROVE Goal
  <2>1. /\ UNCHANGED <<workCh, workers, moves, ws, entries>> /\ push(upserting)
        /\ upserting # NoKey /\ upserting' = NoKey /\ upserting \in Keys
    BY <1>0, <1>10 DEF signalScheduler, objects
  <2>2. IsFiniteSet(Heap') /\ H' = H + 1
    BY <1>0, <1>f, <2>1, HeapGrows
  <2>3. Stale' = Stale
    BY <2>1 DEF Stale
  <2>4. U = 1 /\ U' = 0
    BY <2>1
  <2>q. QED
    BY <1>b, <1>f, <1>n, <1>v, <2>1, <2>2, <2>3, <2>4
<1>11. ASSUME Start PROVE Goal
  <2>1. /\ due' = [k \in Keys |-> 0] /\ later' = [k \in Keys |-> 0] /\ workCh' = <<>>
        /\ upserting' = NoKey /\ workers' = [w \in Workers |-> IdleWorker] /\ moves' = moves
    BY <1>11 DEF Start, objects
  <2>2. Heap' = {} /\ Busy' = {}
    BY <2>1 DEF Heap, Busy, IdleWorker
  <2>3. S' <= K
    BY FS_Subset DEF Stale
  <2>4. Len(workCh') = 0 /\ U' = 0
    BY <2>1
  <2>q. QED
    BY <1>0, <1>n, <2>1, <2>2, <2>3, <2>4, FS_EmptySet
<1>12. ASSUME UNCHANGED <<due, later, workCh, workers, upserting, moves, ws, entries>> PROVE Goal
  BY <1>12, <1>b, <1>f, <1>h, <1>n, <1>t, <1>v
<1>13. ASSUME wakeUp \/ dispatchDone \/ (\E s \in Sources : PushCommit(s)) \/ UNCHANGED vs PROVE Goal
  BY <1>12, <1>13 DEF wakeUp, dispatchDone, PushCommit, vs, objects, scheduler
<1> HIDE DEF Goal
<1>q. QED
  BY <1>1, <1>2, <1>3, <1>4, <1>5, <1>o, <1>6, <1>7, <1>8, <1>9, <1>10, <1>11, <1>13 DEF Next, Reconcile, pollRemote

LEMMA InitBounded ==
    ASSUME IsFiniteSet(Keys), Init
    PROVE  Bounded
<1>1. Heap = {} /\ Busy = {} /\ Stale \in SUBSET Keys
  <2>1. \A k \in Keys : due[k] + later[k] = 0
    BY DEF Init
  <2>2. \A w \in Workers : workers[w].key = NoKey
    BY DEF Init, IdleWorker
  <2>3. \A k \in Keys : {k} \X (1 .. due[k] + later[k]) = {}
    BY <2>1
  <2>4. Heap = {}
    BY <2>3 DEF Heap
  <2>5. Busy = {}
    BY <2>2 DEF Busy
  <2> QED BY <2>4, <2>5 DEF Stale
<1>2. Cardinality(Stale) <= Cardinality(Keys) /\ Cardinality(Stale) \in Nat /\ Cardinality(Keys) \in Nat
  BY <1>1, FS_Subset, FS_CardinalityType
<1>3. Len(workCh) = 0 /\ upserting = NoKey /\ moves = 0
  BY DEF Init
<1>q. QED
  BY <1>1, <1>2, <1>3, FS_EmptySet DEF Bounded, Load

\* There are never more polls under way than Workspaces and changes of their sources: a
\* poll ends where it began, on the heap, and upsertEntry starts another one only for a
\* source that it does not know.
THEOREM PollsStayBounded ==
    ASSUME IsFiniteSet(Keys)
    PROVE  Spec => []PollsBounded
<1> DEFINE J == IInv /\ Bounded
<1>1. Init => J
  BY InitIInv, InitBounded
<1>2. J /\ [Next]_vs => J'
  BY NextIInv, NextBounded
<1>3. J => PollsBounded
  <2> SUFFICES ASSUME J PROVE PollsBounded
    OBVIOUS
  <2>1. /\ Cardinality(Heap) \in Nat /\ Cardinality(Busy) \in Nat /\ Cardinality(Stale) \in Nat
        /\ Cardinality(Keys) \in Nat /\ Len(workCh) \in Nat /\ moves \in Nat
    BY FS_CardinalityType, FS_Subset, RefWatcherAssumption DEF Bounded, Stale, IInv, TypeOK
  <2> DEFINE u == IF upserting = NoKey THEN 0 ELSE 1
  <2>2. u \in Nat /\ Cardinality(Heap) + Len(workCh) + Cardinality(Busy) + u + Cardinality(Stale)
                       <= Cardinality(Keys) + moves
    BY DEF Bounded, Load
  <2> HIDE DEF u
  <2>q. QED
    BY <2>1, <2>2 DEF PollsBounded
<1>q. QED
  BY <1>1, <1>2, <1>3, PTL DEF Spec

\* With a channel that takes a poll of every Workspace and one more for every write of a
\* Workspace, dispatchDue never finds it full, and no registered Workspace is ever forgotten:
\* two polls of the same Workspace come only of a change of its source.
THEOREM NeverForgets ==
    ASSUME IsFiniteSet(Keys), Cardinality(Keys) + MaxInputs <= QueueSize
    PROVE  Spec => []NeverForgotten
<1> DEFINE J == IInv /\ Bounded /\ NeverForgotten
<1>1. Init => J
  <2>1. Init => NeverForgotten
    BY DEF Init, NeverForgotten
  <2>q. QED
    BY <2>1, InitIInv, InitBounded
<1>2. J /\ [Next]_vs => J'
  <2> SUFFICES ASSUME J, [Next]_vs PROVE J'
    OBVIOUS
  <2>1. IInv' /\ Bounded'
    BY NextIInv, NextBounded
  <2>2. ASSUME NEW j \in Keys, due[j] > 0 PROVE Len(workCh) < QueueSize
    <3>1. /\ due \in [Keys -> Nat] /\ later \in [Keys -> Nat] /\ workCh \in Seq(Keys)
          /\ moves \in 0 .. MaxInputs /\ MaxInputs \in Nat /\ QueueSize \in Nat
      BY RefWatcherAssumption DEF IInv, TypeOK
    <3>2. /\ Cardinality(Heap) \in Nat /\ Cardinality(Busy) \in Nat /\ Cardinality(Stale) \in Nat
          /\ Cardinality(Keys) \in Nat /\ Len(workCh) \in Nat
      BY <3>1, FS_CardinalityType, FS_Subset DEF Bounded, Stale
    <3>3. Heap # {}
      <4>1. 1 \in 1 .. due[j] + later[j]
        BY <2>2, <3>1
      <4>2. <<j, 1>> \in {j} \X (1 .. due[j] + later[j])
        BY <4>1
      <4>q. QED
        BY <4>2 DEF Heap
    <3>4. Cardinality(Heap) # 0
      BY <3>3, FS_EmptySet DEF Bounded
    <3>5. Load <= Cardinality(Keys) + moves
      BY DEF Bounded
    <3> DEFINE u == IF upserting = NoKey THEN 0 ELSE 1
               h == Cardinality(Heap)
               b == Cardinality(Busy)
               s == Cardinality(Stale)
               c == Cardinality(Keys)
               l == Len(workCh)
    <3>6. u \in Nat /\ h + l + b + u + s <= c + moves /\ c + MaxInputs <= QueueSize
      BY <3>5 DEF Load
    <3>7. h \in Nat /\ b \in Nat /\ s \in Nat /\ c \in Nat /\ l \in Nat /\ h # 0
      BY <3>2, <3>4
    <3> HIDE DEF u, h, b, s, c, l
    <3>8. l < QueueSize
      BY <3>1, <3>6, <3>7
    <3>q. QED
      BY <3>8 DEF l
  <2>3. CASE Next
    <3>1. \A k \in Keys : entries'[k] # NoEntry => Remembered(k)'
      BY <2>2, <2>3, StepRemembers
    <3>q. QED
      BY <2>1, <3>1 DEF NeverForgotten, Remembered
  <2>4. CASE UNCHANGED vs
    BY <2>1, <2>4 DEF vs, scheduler, NeverForgotten
  <2>q. QED
    BY <2>3, <2>4
<1>3. J => NeverForgotten
  OBVIOUS
<1>q. QED
  BY <1>1, <1>2, <1>3, PTL DEF Spec
=============================================================================
