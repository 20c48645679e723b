----------------------------- MODULE RefWatcher -----------------------------
(***************************************************************************)
(* The RefWatcher (internal/controller/refwatcher): a reconciler that keeps *)
(* a registry of the Workspaces to poll, a scheduler with a heap of poll    *)
(* times, a bounded channel of work and a pool of workers that ask the Git  *)
(* remotes and report new commits in an annotation.                         *)
(*                                                                          *)
(* Two locks guard the shared state, registry.mu and heapMu.  A critical    *)
(* section that takes one of them is one action, guarded by the lock being  *)
(* free.  The two nested ones span several actions: upsertEntry holds       *)
(* registry.mu while it waits for heapMu, and dispatchDue holds heapMu      *)
(* while it asks for registry.mu once per entry.                            *)
(***************************************************************************)
EXTENDS Integers, Sequences, FiniteSets

CONSTANTS
    Keys,        \* the names of Workspaces
    Sources,     \* 1..n: the values of spec.source (URL and revision)
    InitSource,  \* ... and the one the Workspaces have at first
    NoKey,       \* no name
    Workers,     \* the worker goroutines
    QueueSize,   \* the capacity of workCh
    MaxCommit,   \* bound: commits pushed to each source
    MaxInputs,   \* bound: writes of Workspaces by users and the Workspace controller
    MaxFaults    \* bound: failed calls and restarts of the manager

ASSUME RefWatcherAssumption ==
    /\ Sources \subseteq Nat \ {0} /\ InitSource \in Sources
    /\ NoKey \notin Keys
    /\ QueueSize \in Nat \ {0}
    /\ MaxCommit \in Nat \ {0} /\ MaxInputs \in Nat /\ MaxFaults \in Nat

\* Revisions: the empty string, the name of a source's branch, and its commits.
NoSHA         == <<0, 0>>
BranchName(s) == <<s, 0>>
SHAs          == Sources \X (1 .. MaxCommit)
Revisions     == {NoSHA} \cup {BranchName(s) : s \in Sources} \cup SHAs

\* A Workspace object; source 0 stands for a deleted one.
WorkspaceType == [source : Sources \cup {0}, observed : Revisions,
                  detected : SHAs \cup {NoSHA}, pending : BOOLEAN]
EntryType     == [source : Sources, last : Revisions]
NoEntry       == [source |-> 0, last |-> NoSHA]

\* A worker between two critical sections or calls of pollRemote.
WorkerSteps == {"idle", "snapshot", "resolve", "get", "patch", "record", "reschedule"}
WorkerType  == [step : WorkerSteps, key : Keys \cup {NoKey}, source : Sources \cup {0},
                last : Revisions, sha : SHAs \cup {NoSHA}]
IdleWorker  == [step |-> "idle", key |-> NoKey, source |-> 0, last |-> NoSHA, sha |-> NoSHA]

VARIABLES
    ws,           \* the Workspaces in the API server
    queue,        \* the keys the controller has to reconcile
    entries,      \* registry.entries
    due, later,   \* the heap: how many entries of each key are due, and are not
    workCh,       \* the keys the workers have to poll
    updateCh,     \* whether a wake-up for the scheduler is pending
    upserting,    \* the key upsertEntry is about to push; it holds registry.mu
    dispatching,  \* dispatchDue is running; it holds heapMu
    workers,
    heads,        \* the newest commit of each source
    inputs, faults

\* History variables, read by properties only.
VARIABLES
    seen,         \* the commits reported or taken as the baseline of each key
    moves         \* how often a Workspace got another source, was deleted or was created again

objects   == <<ws, heads, inputs, moves>>
scheduler == <<due, later, updateCh, dispatching>>
vs == <<objects, queue, entries, scheduler, workCh, upserting, workers, faults, seen>>

Init ==
    /\ ws \in [Keys -> [source : {InitSource}, observed : {NoSHA, BranchName(InitSource)},
                       detected : {NoSHA}, pending : {FALSE}]]
    /\ queue = Keys
    /\ entries = [k \in Keys |-> NoEntry]
    /\ due = [k \in Keys |-> 0] /\ later = [k \in Keys |-> 0]
    /\ workCh = <<>> /\ updateCh = FALSE
    /\ upserting = NoKey /\ dispatching = FALSE
    /\ workers = [w \in Workers |-> IdleWorker]
    /\ heads = [s \in Sources |-> 1]
    /\ inputs = 0 /\ faults = 0
    /\ seen = [k \in Keys |-> {}]
    /\ moves = 0

Fault == faults < MaxFaults /\ faults' = faults + 1
Input == inputs < MaxInputs /\ inputs' = inputs + 1

registryFree == upserting = NoKey
heapFree     == ~dispatching
-----------------------------------------------------------------------------
(* Reconcile: one goroutine that keeps the registry in step with the objects. *)

removeEntry(k) ==
    /\ k \in queue
    /\ ws[k].source = 0
    /\ registryFree
    /\ queue' = queue \ {k}
    /\ entries' = [entries EXCEPT ![k] = NoEntry]
    /\ updateCh' = (updateCh \/ entries[k] # NoEntry)
    /\ UNCHANGED <<objects, due, later, dispatching, workCh, upserting, workers, faults, seen>>

\* Mutant: an entry whose source has not changed is pushed again.
upsertAlways(k) ==
    /\ k \in queue
    /\ ws[k].source # 0
    /\ registryFree
    /\ queue' = queue \ {k}
    /\ entries' = [entries EXCEPT ![k] =
                      [source |-> ws[k].source,
                       last   |-> IF entries[k] = NoEntry THEN ws[k].observed ELSE @.last]]
    /\ upserting' = k
    /\ UNCHANGED <<objects, scheduler, workCh, workers, faults, seen>>

\* A new entry takes the observed revision as its baseline.  An entry whose
\* source has changed keeps the baseline of the old source.  Both go on to push
\* the key on the heap without releasing registry.mu.
upsertEntry(k) ==
    /\ k \in queue
    /\ ws[k].source # 0
    /\ registryFree
    /\ queue' = queue \ {k}
    /\ IF entries[k].source = ws[k].source
       THEN UNCHANGED <<entries, upserting>>
       ELSE /\ entries' = [entries EXCEPT ![k] =
                  [source |-> ws[k].source,
                   last   |-> IF entries[k] = NoEntry THEN ws[k].observed ELSE @.last]]
            /\ upserting' = k
    /\ UNCHANGED <<objects, scheduler, workCh, workers, faults, seen>>

push(k) ==
    /\ heapFree
    /\ later' = [later EXCEPT ![k] = @ + 1]
    /\ updateCh' = TRUE
    /\ UNCHANGED <<due, dispatching>>

signalScheduler ==
    /\ upserting # NoKey
    /\ push(upserting)
    /\ upserting' = NoKey
    /\ UNCHANGED <<objects, queue, entries, workCh, workers, faults, seen>>

-----------------------------------------------------------------------------
(* The scheduler goroutine.                                                 *)

\* It sleeps until a signal arrives or the timer of the first entry runs out.
wakeUp ==
    /\ heapFree
    /\ \/ updateCh /\ updateCh' = FALSE
       \/ (\E k \in Keys : due[k] > 0) /\ UNCHANGED updateCh
    /\ dispatching' = TRUE
    /\ UNCHANGED <<objects, queue, entries, due, later, workCh, upserting, workers, faults, seen>>

\* Mutant: the loop does not look whether an entry is due.
dispatchAny(k) ==
    /\ dispatching
    /\ registryFree
    /\ due' = [due EXCEPT ![k] = @ - 1]
    /\ workCh' = IF entries[k] # NoEntry /\ Len(workCh) < QueueSize
                 THEN Append(workCh, k) ELSE workCh
    /\ UNCHANGED <<objects, queue, entries, later, updateCh, dispatching, upserting, workers,
                   faults, seen>>

\* One iteration of the loop: pop a due entry, look its key up in the registry,
\* and send it unless the channel is full, in which case the key is dropped.
dispatchDue(k) ==
    /\ dispatching
    /\ due[k] > 0
    /\ registryFree
    /\ due' = [due EXCEPT ![k] = @ - 1]
    /\ workCh' = IF entries[k] # NoEntry /\ Len(workCh) < QueueSize
                 THEN Append(workCh, k) ELSE workCh
    /\ UNCHANGED <<objects, queue, entries, later, updateCh, dispatching, upserting, workers,
                   faults, seen>>

dispatchDone ==
    /\ dispatching
    /\ \A k \in Keys : due[k] = 0
    /\ dispatching' = FALSE
    /\ UNCHANGED <<objects, queue, entries, due, later, updateCh, workCh, upserting, workers,
                   faults, seen>>

-----------------------------------------------------------------------------
(* The workers: pollRemote.                                                 *)

Goes(w, step) == workers' = [workers EXCEPT ![w].step = step]

receive(w) ==
    /\ workers[w].step = "idle"
    /\ workCh # <<>>
    /\ workers' = [workers EXCEPT ![w] = [IdleWorker EXCEPT !.step = "snapshot", !.key = Head(workCh)]]
    /\ workCh' = Tail(workCh)
    /\ UNCHANGED <<objects, queue, entries, scheduler, upserting, faults, seen>>

\* The entry is copied under the lock, which is released during the calls.
snapshot(w) ==
    LET entry == entries[workers[w].key]
    IN  /\ workers[w].step = "snapshot"
        /\ registryFree
        /\ workers' = [workers EXCEPT ![w] =
              IF entry = NoEntry THEN IdleWorker
              ELSE [@ EXCEPT !.step = "resolve", !.source = entry.source, !.last = entry.last]]
        /\ UNCHANGED <<objects, queue, entries, scheduler, workCh, upserting, faults, seen>>

\* Mutant: a baseline that is a branch name counts as unchanged.
branchUnchanged(w) ==
    /\ workers[w].step = "resolve"
    /\ LET sha  == <<workers[w].source, heads[workers[w].source]>>
           last == workers[w].last
       IN  /\ workers' = [workers EXCEPT ![w].sha = sha,
                 ![w].step = IF last \in {sha, BranchName(workers[w].source)} THEN "reschedule"
                             ELSE IF last = NoSHA THEN "record" ELSE "get"]
           /\ seen' = [seen EXCEPT ![workers[w].key] = @ \cup {x \in {sha} : last = NoSHA}]
    /\ UNCHANGED <<objects, queue, entries, scheduler, workCh, upserting, faults>>

\* An unchanged revision is only rescheduled, the first one is recorded without
\* a report, any other is reported.
resolveRef(w) ==
    /\ workers[w].step = "resolve"
    /\ LET sha  == <<workers[w].source, heads[workers[w].source]>>
           last == workers[w].last
       IN  \/ /\ workers' = [workers EXCEPT ![w].sha = sha,
                    ![w].step = IF last = sha THEN "reschedule"
                                ELSE IF last = NoSHA THEN "record" ELSE "get"]
              /\ seen' = [seen EXCEPT ![workers[w].key] = @ \cup {x \in {sha} : last = NoSHA}]
              /\ UNCHANGED faults
           \/ Fault /\ Goes(w, "reschedule") /\ UNCHANGED seen
    /\ UNCHANGED <<objects, queue, entries, scheduler, workCh, upserting>>

\* Reads the object; a plan waiting for its reviewer defers the report.
get(w) ==
    /\ workers[w].step = "get"
    /\ LET obj == ws[workers[w].key]
       IN  \/ /\ Goes(w, IF obj.source = 0 \/ obj.pending THEN "reschedule" ELSE "patch")
              /\ UNCHANGED faults
           \/ Fault /\ Goes(w, "reschedule")
    /\ UNCHANGED <<objects, queue, entries, scheduler, workCh, upserting, seen>>

\* Mutant: the revision is recorded although the patch has failed.
recordAnyway(w) ==
    LET k == workers[w].key
    IN  /\ workers[w].step = "patch"
        /\ Goes(w, "record")
        /\ \/ /\ ws[k].source # 0
              /\ ws' = [ws EXCEPT ![k].detected = workers[w].sha]
              /\ queue' = queue \cup {k}
              /\ seen' = [seen EXCEPT ![k] = @ \cup {workers[w].sha}]
           \/ ws[k].source = 0 /\ UNCHANGED <<ws, queue, seen>>
        /\ UNCHANGED <<heads, inputs, moves, entries, scheduler, workCh, upserting, faults>>

patch(w) ==
    LET k == workers[w].key
    IN  /\ workers[w].step = "patch"
        /\ \/ /\ ws[k].source # 0
              /\ ws' = [ws EXCEPT ![k].detected = workers[w].sha]
              /\ queue' = queue \cup {k}
              /\ seen' = [seen EXCEPT ![k] = @ \cup {workers[w].sha}]
              /\ Goes(w, "record")
              /\ UNCHANGED faults
           \/ ws[k].source = 0 /\ Goes(w, "reschedule") /\ UNCHANGED <<ws, queue, seen, faults>>
           \/ Fault /\ Goes(w, "reschedule") /\ UNCHANGED <<ws, queue, seen>>
        /\ UNCHANGED <<heads, inputs, moves, entries, scheduler, workCh, upserting>>

record(w) ==
    LET k == workers[w].key
    IN  /\ workers[w].step = "record"
        /\ registryFree
        /\ entries' = IF entries[k] = NoEntry THEN entries
                      ELSE [entries EXCEPT ![k].last = workers[w].sha]
        /\ Goes(w, "reschedule")
        /\ UNCHANGED <<objects, queue, scheduler, workCh, upserting, faults, seen>>

\* Mutant: a poll that ends is not put back on the heap when a signal is pending.
rescheduleOnce(w) ==
    /\ workers[w].step = "reschedule"
    /\ registryFree
    /\ IF updateCh THEN UNCHANGED scheduler ELSE push(workers[w].key)
    /\ workers' = [workers EXCEPT ![w] = IdleWorker]
    /\ UNCHANGED <<objects, queue, entries, workCh, upserting, faults, seen>>

\* Takes the locks one after the other; the entry's own nextPollAt is never read.
reschedule(w) ==
    /\ workers[w].step = "reschedule"
    /\ registryFree
    /\ push(workers[w].key)
    /\ workers' = [workers EXCEPT ![w] = IdleWorker]
    /\ UNCHANGED <<objects, queue, entries, workCh, upserting, faults, seen>>

pollRemote(w) ==
    snapshot(w) \/ resolveRef(w) \/ get(w) \/ patch(w) \/ record(w) \/ reschedule(w)
-----------------------------------------------------------------------------
(* The surroundings.                                                        *)

nextPollAtPasses(k) ==
    /\ later[k] > 0
    /\ later' = [later EXCEPT ![k] = @ - 1]
    /\ due' = [due EXCEPT ![k] = @ + 1]
    /\ UNCHANGED <<objects, queue, entries, updateCh, dispatching, workCh, upserting, workers,
                   faults, seen>>

Start ==
    /\ Fault
    /\ queue' = {k \in Keys : ws[k].source # 0}
    /\ entries' = [k \in Keys |-> NoEntry]
    /\ due' = [k \in Keys |-> 0] /\ later' = [k \in Keys |-> 0]
    /\ workCh' = <<>> /\ updateCh' = FALSE
    /\ upserting' = NoKey /\ dispatching' = FALSE
    /\ workers' = [w \in Workers |-> IdleWorker]
    /\ UNCHANGED <<objects, seen>>

PushCommit(s) ==
    /\ heads[s] < MaxCommit
    /\ heads' = [heads EXCEPT ![s] = @ + 1]
    /\ UNCHANGED <<ws, inputs, moves, queue, entries, scheduler, workCh, upserting, workers, faults,
                   seen>>

Writes(k, obj) ==
    /\ ws' = [ws EXCEPT ![k] = obj]
    /\ queue' = queue \cup {k}
    /\ UNCHANGED <<heads, entries, scheduler, workCh, upserting, workers, faults, seen>>

\* A user edits the source, deletes the Workspace (s = 0), or creates it again.
EditWorkspace(k) ==
    \E s \in (Sources \cup {0}) \ {ws[k].source} :
      /\ Input
      /\ Writes(k, IF s # 0 /\ ws[k].source # 0
                   THEN [ws[k] EXCEPT !.source = s]
                   ELSE [source |-> s, observed |-> NoSHA, detected |-> NoSHA, pending |-> FALSE])
      /\ moves' = moves + 1

\* The Workspace controller parks a plan, or ends the wait.
ParkOrDecide(k) ==
    /\ ws[k].source # 0
    /\ Input
    /\ Writes(k, [ws[k] EXCEPT !.pending = ~@])
    /\ UNCHANGED moves

\* The Workspace controller's handleApplySuccess.
recordApplied(k) ==
    /\ ws[k].source # 0 /\ ~ws[k].pending
    /\ Writes(k, [ws[k] EXCEPT
           !.observed = IF ws[k].detected # NoSHA THEN ws[k].detected ELSE BranchName(ws[k].source),
           !.detected = NoSHA])
    /\ Input
    /\ UNCHANGED moves

Reconcile(k) == removeEntry(k) \/ upsertEntry(k)

Next ==
    \/ \E k \in Keys : Reconcile(k) \/ dispatchDue(k) \/ nextPollAtPasses(k)
    \/ \E k \in Keys : EditWorkspace(k) \/ ParkOrDecide(k) \/ recordApplied(k)
    \/ \E w \in Workers : receive(w) \/ pollRemote(w)
    \/ \E s \in Sources : PushCommit(s)
    \/ signalScheduler \/ wakeUp \/ dispatchDone \/ Start

Spec == Init /\ [][Next]_vs

\* Every goroutine that can go on does.  A sync.Mutex hands itself to a waiter
\* that has waited for long, so waiting for a lock is strongly fair.
Fairness ==
    /\ \A k \in Keys : WF_vs(nextPollAtPasses(k)) /\ SF_vs(Reconcile(k)) /\ WF_vs(dispatchDue(k))
    /\ SF_vs(signalScheduler) /\ WF_vs(wakeUp) /\ WF_vs(dispatchDone)
    /\ \A w \in Workers : WF_vs(receive(w)) /\ SF_vs(pollRemote(w))

FairSpec == Spec /\ Fairness
-----------------------------------------------------------------------------
(* Properties.                                                              *)

\* Every variable has its type, and workCh its capacity.
TypeOK ==
    /\ ws \in [Keys -> WorkspaceType]
    /\ queue \subseteq Keys
    /\ entries \in [Keys -> EntryType \cup {NoEntry}]
    /\ due \in [Keys -> Nat] /\ later \in [Keys -> Nat]
    /\ workCh \in Seq(Keys) /\ Len(workCh) <= QueueSize
    /\ updateCh \in BOOLEAN
    /\ upserting \in Keys \cup {NoKey}
    /\ dispatching \in BOOLEAN
    /\ workers \in [Workers -> WorkerType]
    /\ heads \in [Sources -> 1 .. MaxCommit]
    /\ inputs \in 0 .. MaxInputs /\ faults \in 0 .. MaxFaults
    /\ seen \in [Keys -> SUBSET SHAs]
    /\ moves \in 0 .. inputs

\* A registered Workspace is never forgotten: its key is on the heap, in the
\* channel, with a worker, or about to be pushed.  dispatchDue's comment says
\* that a key it skips is retried.
NeverForgotten ==
    \A k \in Keys : entries[k] # NoEntry =>
        \/ due[k] + later[k] > 0
        \/ \E i \in 1 .. Len(workCh) : workCh[i] = k
        \/ \E w \in Workers : workers[w].key = k
        \/ upserting = k

\* The registry takes a commit for known only after the Workspace was told of
\* it, or as the baseline of a new Workspace (the order of patch and record in
\* pollRemote).
RecordedMeansReported ==
    \A k \in Keys : entries[k].last \in SHAs => entries[k].last \in seen[k]

\* The entries of the heap, numbered for each key, and the workers that poll.
Heap == UNION {{k} \X (1 .. due[k] + later[k]) : k \in Keys}
Busy == {w \in Workers : workers[w].key # NoKey}

\* A Workspace is polled by one entry that goes from the heap through the channel to
\* a worker and back: there are no more of them than Workspaces, and one more for
\* each time a source was changed or a Workspace created again.  Whatever else is
\* written to a Workspace, reports included, starts no poll (upsertEntry's comment
\* says that an unrelated update should not disturb the poll schedule), and
\* neither does a poll that fails or a pending signal.
PollsBounded ==
    Cardinality(Heap) + Len(workCh) + Cardinality(Busy) <= Cardinality(Keys) + moves

\* upsertEntry and dispatchDue each hold the lock the other one waits for.
LockCycle == dispatching /\ upserting # NoKey /\ \E k \in Keys : due[k] > 0

\* The two locks of the RefWatcher are never waited for in a cycle.
NoLockCycle == ~LockCycle

\* Unless the two locks are ever waited for in a cycle, a Workspace that keeps its
\* source and is not left waiting for a reviewer is told of the newest commit of
\* that source, whatever polls, reads and patches have failed before.
HeadReported ==
    []NoLockCycle =>
        \A k \in Keys, s \in Sources :
            <>[](ws[k].source = s /\ ~ws[k].pending) => <>[](<<s, heads[s]>> \in seen[k])
=============================================================================
