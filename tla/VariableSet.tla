---------------------------- MODULE VariableSet ----------------------------
(***************************************************************************)
(* The VariableSet controller (internal/controller/variableset): it         *)
(* resolves each set against the Secrets and ConfigMaps the set refers to   *)
(* and keeps the outcome on the set's status.                               *)
(*                                                                          *)
(* The controller reads from the informer caches, which lag behind the API  *)
(* server, and writes to the API server, which refuses a write of an        *)
(* outdated resourceVersion.  The arrival of a change in a cache and the    *)
(* event that enqueues the sets concerned are one step.                     *)
(***************************************************************************)
EXTENDS Resolver

CONSTANTS
    Names, Values,  \* of variables
    Sources,        \* the Secrets and ConfigMaps
    Sets,           \* the names of VariableSets
    SpecsOf,        \* the specs a user may give to each set
    Begin,          \* the spec each set has at first
    Written,        \* bound: the sets users write
    Becomes,        \* bound: the states users bring a source into
    MaxEvents       \* bound: writes of users and failed calls of the controller

Variables == {Inline(n, v) : n \in Names, v \in Values}
                \cup {From(n, k, o) : n \in Names, k \in Sources, o \in BOOLEAN}

ASSUME VariableSetAssumption ==
    /\ SpecsOf \in [Sets -> SUBSET Seq(Variables)]
    /\ Begin \in [Sets -> Seq(Variables)]
    /\ \A s \in Sets : Begin[s] \in SpecsOf[s]
    /\ Written \subseteq Sets /\ Becomes \subseteq SourceStates
    /\ MaxEvents \in Nat

NoStatus == [phase |-> "", gen |-> 0, unresolved |-> {}, resolved |-> 0]

\* Mutant: the unresolved variables are taken off the resolved ones.
netCount(res, gen) ==
    [phase      |-> IF Unresolved(res) = {} THEN "Ready" ELSE "Failed",
     gen        |-> gen,
     unresolved |-> {res[i] : i \in Unresolved(res)},
     resolved   |-> Cardinality(ResolvedVariables(res)) - Cardinality(Unresolved(res))]

StatusOf(res, gen) ==
    [phase      |-> IF Unresolved(res) = {} THEN "Ready" ELSE "Failed",
     gen        |-> gen,
     unresolved |-> {res[i] : i \in Unresolved(res)},
     resolved   |-> Cardinality(ResolvedVariables(res))]

\* The phase a set that is not resolved is given: Failed or Deleting.
Bare(phase, gen) == [NoStatus EXCEPT !.phase = phase, !.gen = gen]

NewSet(spec) ==
    [exists |-> TRUE, rv |-> 1, gen |-> 1, spec |-> spec, finalizer |-> FALSE,
     deleting |-> FALSE, status |-> NoStatus]

Idle == [pc |-> "idle", rv |-> 0, status |-> NoStatus, retry |-> FALSE]

VARIABLES
    objs, objsC,   \* the sources: on the API server and in the cache
    sets, setsC,   \* the VariableSets: on the API server and in the cache
    queue,         \* the sets waiting in the work queue
    work,          \* for each set: where its reconcile is and what it holds
    lost,          \* history: the sets whose last status write failed for another
                   \* reason than a conflict
    events

api  == <<objs, sets>>
vars == <<objs, objsC, sets, setsC, queue, work, lost, events>>

\* The manager has been running for a while: the sources are there and every set has
\* been reconciled.
Init ==
    /\ objs = [k \in Sources |-> [rv |-> 1, state |-> "present"]]
    /\ objsC = objs
    /\ sets = [s \in Sets |->
                 [NewSet(Begin[s]) EXCEPT !.finalizer = TRUE,
                                          !.status = StatusOf(Resolve(Begin[s], objs), 1)]]
    /\ setsC = sets
    /\ queue = {}
    /\ work = [s \in Sets |-> Idle]
    /\ lost = {}
    /\ events = 0

Event == events < MaxEvents /\ events' = events + 1
-----------------------------------------------------------------------------
(* Caches and watches.                                                      *)

watchSet(s) ==
    /\ setsC[s] # sets[s]
    /\ setsC' = [setsC EXCEPT ![s] = sets[s]]
    /\ queue' = queue \cup {s}
    /\ UNCHANGED <<objs, objsC, sets, work, lost, events>>

\* Mutant: only required references are looked at.
requiredOnly(k) ==
    {s \in Sets : setsC[s].exists /\ \E i \in DOMAIN setsC[s].spec :
        LET v == setsC[s].spec[i] IN v.kind = "from" /\ v.source = k /\ ~v.optional}

findVariableSetsReferencing(k) ==
    {s \in Sets : setsC[s].exists /\ variableSetReferences(setsC[s].spec, k)}

watchSource(k) ==
    /\ objsC[k] # objs[k]
    /\ objsC' = [objsC EXCEPT ![k] = objs[k]]
    /\ queue' = queue \cup findVariableSetsReferencing(k)
    /\ UNCHANGED <<objs, sets, setsC, work, lost, events>>
-----------------------------------------------------------------------------
(* The controller.  A reconcile reads the set, and writes in later steps.   *)

\* The API server takes a write of version rv only of the newest version.
Accepts(s, rv) == sets[s].exists /\ sets[s].rv = rv

Puts(s, o) == sets' = [sets EXCEPT ![s] = [o EXCEPT !.rv = sets[s].rv + 1]]

Takes(s) ==
    /\ s \in queue
    /\ work[s].pc = "idle"

notFound(s) ==
    /\ Takes(s)
    /\ ~setsC[s].exists
    /\ queue' = queue \ {s}
    /\ UNCHANGED <<api, objsC, setsC, work, lost, events>>

\* A conflict or a failed call leaves the set in the queue and changes nothing.
AddFinalizer(s) ==
    /\ Takes(s)
    /\ setsC[s].exists /\ ~setsC[s].finalizer
    /\ Accepts(s, setsC[s].rv)
    /\ Puts(s, [sets[s] EXCEPT !.finalizer = TRUE])
    /\ queue' = queue \ {s}
    /\ UNCHANGED <<objs, objsC, setsC, work, lost, events>>

handleDeletion(s) ==
    /\ Takes(s)
    /\ setsC[s].exists /\ setsC[s].finalizer /\ setsC[s].deleting
    /\ queue' = queue \ {s}
    /\ work' = [work EXCEPT ![s] = [pc |-> "status", rv |-> setsC[s].rv, retry |-> FALSE,
                                    status |-> Bare("Deleting", setsC[s].gen)]]
    /\ UNCHANGED <<api, objsC, setsC, lost, events>>

reconcileVariableSet(s) ==
    /\ Takes(s)
    /\ setsC[s].exists /\ setsC[s].finalizer /\ ~setsC[s].deleting
    /\ queue' = queue \ {s}
    /\ \/ /\ work' = [work EXCEPT ![s] =
                        [pc |-> "status", rv |-> setsC[s].rv, retry |-> FALSE,
                         status |-> StatusOf(Resolve(setsC[s].spec, objsC), setsC[s].gen)]]
          /\ UNCHANGED events
       \* a source cannot be read
       \/ /\ Event
          /\ work' = [work EXCEPT ![s] = [pc |-> "status", rv |-> setsC[s].rv, retry |-> TRUE,
                                          status |-> Bare("Failed", setsC[s].gen)]]
    /\ UNCHANGED <<api, objsC, setsC, lost>>

\* A set whose reconcile ended with an error comes back.
Ends(s) ==
    /\ work' = [work EXCEPT ![s] = Idle]
    /\ queue' = IF work[s].retry THEN queue \cup {s} ELSE queue

\* After updateStatus: a deletion goes on to the finalizer with version rv.
AfterStatus(s, rv) ==
    IF work[s].status.phase = "Deleting"
    THEN work' = [work EXCEPT ![s].pc = "finalizer", ![s].rv = rv] /\ UNCHANGED queue
    ELSE Ends(s)

\* updateStatus reads the cached set again and writes only what differs; a refused
\* or failed write is logged.
updateStatus(s) ==
    /\ work[s].pc = "status"
    /\ LET latest == setsC[s] IN
       IF ~latest.exists \/ latest.status = work[s].status
       THEN /\ AfterStatus(s, work[s].rv)
            /\ lost' = lost \ {s}
            /\ UNCHANGED <<sets, events>>
       ELSE \/ /\ Accepts(s, latest.rv)
               /\ Puts(s, [sets[s] EXCEPT !.status = work[s].status])
               /\ AfterStatus(s, latest.rv + 1)
               /\ lost' = lost \ {s}
               /\ UNCHANGED events
            \/ /\ ~Accepts(s, latest.rv)
               /\ AfterStatus(s, work[s].rv)
               /\ UNCHANGED <<sets, lost, events>>
            \/ /\ Event
               /\ AfterStatus(s, work[s].rv)
               /\ lost' = lost \cup {s}
               /\ UNCHANGED sets
    /\ UNCHANGED <<objs, objsC, setsC>>

\* The set goes once its finalizer is gone; an error puts it back into the queue.
removeFinalizer(s) ==
    /\ work[s].pc = "finalizer"
    /\ work' = [work EXCEPT ![s] = Idle]
    /\ \/ /\ Accepts(s, work[s].rv)
          /\ Puts(s, [sets[s] EXCEPT !.exists = FALSE, !.finalizer = FALSE])
          /\ UNCHANGED <<queue, events>>
       \/ /\ ~Accepts(s, work[s].rv)
          /\ queue' = queue \cup {s}
          /\ UNCHANGED <<sets, events>>
       \/ /\ Event
          /\ queue' = queue \cup {s}
          /\ UNCHANGED sets
    /\ UNCHANGED <<objs, objsC, setsC, lost>>

Reconcile(s) ==
    \/ notFound(s) \/ AddFinalizer(s) \/ handleDeletion(s) \/ reconcileVariableSet(s)
    \/ updateStatus(s) \/ removeFinalizer(s)
-----------------------------------------------------------------------------
(* Users.                                                                   *)

EditSet(s) ==
    /\ Event
    /\ sets[s].exists /\ ~sets[s].deleting
    /\ \E spec \in SpecsOf[s] \ {sets[s].spec} :
         Puts(s, [sets[s] EXCEPT !.spec = spec, !.gen = @ + 1])
    /\ UNCHANGED <<objs, objsC, setsC, queue, work, lost>>

\* A set with the finalizer stays until the controller has removed it.
DeleteSet(s) ==
    /\ Event
    /\ sets[s].exists /\ ~sets[s].deleting
    /\ IF sets[s].finalizer
       THEN Puts(s, [sets[s] EXCEPT !.deleting = TRUE, !.gen = @ + 1])
       ELSE Puts(s, [sets[s] EXCEPT !.exists = FALSE])
    /\ UNCHANGED <<objs, objsC, setsC, queue, work, lost>>

CreateSet(s) ==
    /\ Event
    /\ ~sets[s].exists
    /\ \E spec \in SpecsOf[s] : Puts(s, NewSet(spec))
    /\ UNCHANGED <<objs, objsC, setsC, queue, work, lost>>

\* A source is created, rotated, deleted, or loses or gains the key.
ChangeSource(k) ==
    /\ Event
    /\ \E state \in Becomes :
         /\ ~(state = "absent" /\ objs[k].state = "absent")
         /\ objs' = [objs EXCEPT ![k] = [rv |-> @.rv + 1, state |-> state]]
    /\ UNCHANGED <<objsC, sets, setsC, queue, work, lost>>

\* Something happens elsewhere that the bound counts too.
Elsewhere == Event /\ UNCHANGED <<objs, objsC, sets, setsC, queue, work, lost>>

User ==
    \/ \E s \in Written : EditSet(s) \/ DeleteSet(s) \/ CreateSet(s)
    \/ \E k \in Sources : ChangeSource(k)

Next ==
    \/ User \/ Elsewhere
    \/ \E s \in Sets : watchSet(s) \/ Reconcile(s)
    \/ \E k \in Sources : watchSource(k)

Spec == Init /\ [][Next]_vars
-----------------------------------------------------------------------------
(* Properties.                                                              *)

\* Every variable has its type.
SourceType == [rv : Nat, state : SourceStates]
StatusType == [phase : {"", "Ready", "Failed", "Deleting"}, gen : Nat, resolved : Nat,
               unresolved : SUBSET [name : Names, as : {"missing"}, source : Sources,
                                    reason : {"ResourceNotFound", "KeyNotFound"}]]
SetType    == [exists : BOOLEAN, rv : Nat, gen : Nat, spec : Seq(Variables),
               finalizer : BOOLEAN, deleting : BOOLEAN, status : StatusType]
WorkType   == [pc : {"idle", "status", "finalizer"}, rv : Nat, retry : BOOLEAN,
               status : StatusType]

TypeOK ==
    /\ objs \in [Sources -> SourceType] /\ objsC \in [Sources -> SourceType]
    /\ sets \in [Sets -> SetType] /\ setsC \in [Sets -> SetType]
    /\ queue \subseteq Sets /\ lost \subseteq Sets
    /\ work \in [Sets -> WorkType]
    /\ events \in 0 .. MaxEvents

\* Nothing concerning set s is under way: no event, no queued or running reconcile.
AtRest(s) ==
    /\ s \notin queue /\ work[s].pc = "idle"
    /\ setsC[s] = sets[s] /\ objsC = objs

\* When nothing concerning a set is under way any more, its status is the outcome of
\* resolving its newest spec against the newest sources: updateStatus may drop a
\* write that conflicts, and read a set that is newer than the one it resolved, but
\* then an event is still to come.  Only a write that failed for another reason
\* leaves an outdated status behind.
StatusTracksSources ==
    \A s \in Sets :
        AtRest(s) /\ s \notin lost /\ sets[s].exists =>
            /\ sets[s].finalizer /\ ~sets[s].deleting
            /\ sets[s].status = StatusOf(Resolve(sets[s].spec, objs), sets[s].gen)
=============================================================================
