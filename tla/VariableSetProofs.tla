------------------------- MODULE VariableSetProofs -------------------------
(***************************************************************************)
(* The status of a VariableSet tracks its sources: proofs for any number of *)
(* sets, sources, variables and events.                                     *)
(*                                                                          *)
(* StatusTracksSources speaks of sets at rest only.  The inductive          *)
(* invariant says what a set not yet at rest has in store: a set that is    *)
(* not queued has either been reported as its cached spec resolves against  *)
(* the cached sources, or its reconcile is about to report exactly that, or *)
(* its cache is behind, so that an event will queue it.                     *)
(***************************************************************************)
EXTENDS WorkspaceVariables, FiniteSetTheorems, TLAPS

\* Every leaf is tried with Zenon first and, when that fails, with the SMT solver.
USE ZenonT(10), SMTT(30)

Outcome(s) == StatusOf(Resolve(setsC[s].spec, objsC), setsC[s].gen)

CacheBehind ==
    \A s \in Sets : setsC[s].rv <= sets[s].rv
                    /\ (setsC[s].rv = sets[s].rv => setsC[s] = sets[s])

Reported(s) ==
    work[s].pc = "idle" /\ setsC[s] = sets[s] /\ s \notin lost =>
        setsC[s].finalizer /\ ~setsC[s].deleting /\ setsC[s].status = Outcome(s)

Reporting(s) ==
    work[s].pc = "status" /\ ~work[s].retry /\ work[s].status.phase # "Deleting" =>
        setsC[s].finalizer /\ ~setsC[s].deleting /\ work[s].status = Outcome(s)

IInv ==
    /\ TypeOK
    /\ CacheBehind
    /\ \A s \in Sets : s \notin queue /\ setsC[s].exists => Reported(s) /\ Reporting(s)
-----------------------------------------------------------------------------
\* Variables have their fields.
LEMMA VariableFields ==
    ASSUME NEW v \in Variables
    PROVE  /\ v.name \in Names
           /\ v.kind \in {"inline", "from"}
           /\ v.kind = "from" => v.source \in Sources /\ v.optional \in BOOLEAN
BY DEF Variables, Inline, From

\* Resolution (resolver.go) looks only at the sources a spec refers to.
LEMMA ResolveLocal ==
    ASSUME NEW spec \in Seq(Variables), NEW o1, NEW o2,
           \A k \in Sources : variableSetReferences(spec, k) => o1[k] = o2[k]
    PROVE  Resolve(spec, o1) = Resolve(spec, o2)
<1>1. ASSUME NEW i \in DOMAIN spec
      PROVE  resolveVariable(spec[i], o1) = resolveVariable(spec[i], o2)
  <2>1. spec[i] \in Variables
    OBVIOUS
  <2>2. CASE spec[i].kind = "inline"
    BY <2>2 DEF resolveVariable
  <2>3. CASE spec[i].kind = "from"
    <3>1. spec[i].source \in Sources
      BY <2>1, <2>3, VariableFields
    <3>2. o1[spec[i].source] = o2[spec[i].source]
      BY <2>3, <3>1 DEF variableSetReferences
    <3>q. QED
      BY <3>2 DEF resolveVariable
  <2>q. QED
    BY <2>1, <2>2, <2>3, VariableFields
<1>q. QED
  BY <1>1 DEF Resolve

\* A resolved variable has one of four shapes.
LEMMA ResolvedShape ==
    ASSUME NEW v \in Variables, NEW o \in [Sources -> SourceType]
    PROVE  /\ resolveVariable(v, o).as = "missing" =>
                resolveVariable(v, o) \in [name : Names, as : {"missing"}, source : Sources,
                                           reason : {"ResourceNotFound", "KeyNotFound"}]
<1>0. v.name \in Names /\ v.kind \in {"inline", "from"}
  BY VariableFields
<1>1. CASE v.kind = "inline"
  BY <1>1 DEF resolveVariable
<1>2. CASE v.kind = "from"
  <2>1. v.source \in Sources /\ v.optional \in BOOLEAN
    BY <1>2, VariableFields
  <2>2. o[v.source].state \in SourceStates
    BY <2>1 DEF SourceType
  <2>3. CASE o[v.source].state = "absent"
    BY <1>0, <1>2, <2>1, <2>3 DEF resolveVariable, missingOrOptional
  <2>4. CASE o[v.source].state = "nokey"
    BY <1>0, <1>2, <2>1, <2>4 DEF resolveVariable, missingOrOptional
  <2>5. CASE o[v.source].state = "present"
    BY <1>2, <2>5 DEF resolveVariable
  <2>q. QED
    BY <2>2, <2>3, <2>4, <2>5 DEF SourceStates
<1>q. QED
  BY <1>0, <1>1, <1>2

\* What the controller reports of a resolution is a status, and not a deletion.
LEMMA StatusOfType ==
    ASSUME NEW spec \in Seq(Variables), NEW o \in [Sources -> SourceType], NEW gen \in Nat
    PROVE  /\ StatusOf(Resolve(spec, o), gen) \in StatusType
           /\ StatusOf(Resolve(spec, o), gen).phase # "Deleting"
<1> DEFINE res == Resolve(spec, o)
<1>1. DOMAIN res = 1 .. Len(spec)
  BY DEF Resolve
<1>2. \A i \in DOMAIN res : res[i] = resolveVariable(spec[i], o) /\ spec[i] \in Variables
  BY DEF Resolve
<1>3. {res[i] : i \in Unresolved(res)}
        \in SUBSET [name : Names, as : {"missing"}, source : Sources,
                    reason : {"ResourceNotFound", "KeyNotFound"}]
  BY <1>2, ResolvedShape DEF Unresolved
<1>4. Cardinality(ResolvedVariables(res)) \in Nat
  <2>1. IsFiniteSet(1 .. Len(spec))
    BY FS_Interval
  <2>2. ResolvedVariables(res) \subseteq 1 .. Len(spec)
    BY <1>1 DEF ResolvedVariables
  <2>q. QED
    BY <2>1, <2>2, FS_Subset, FS_CardinalityType
<1> HIDE DEF res
<1>q. QED
  BY <1>3, <1>4 DEF StatusOf, StatusType, res
-----------------------------------------------------------------------------
\* The initial state satisfies the invariant: every set has been reconciled.
LEMMA InitIInv == Init => IInv
<1> SUFFICES ASSUME Init PROVE IInv
  OBVIOUS
<1>1. objs \in [Sources -> SourceType] /\ objsC = objs
  BY DEF Init, SourceType, SourceStates
<1>2. ASSUME NEW s \in Sets
      PROVE  /\ Begin[s] \in Seq(Variables)
             /\ StatusOf(Resolve(Begin[s], objs), 1) \in StatusType
  BY <1>1, VariableSetAssumption, StatusOfType
<1>3. NoStatus \in StatusType
  BY DEF NoStatus, StatusType
<1>4. sets \in [Sets -> SetType] /\ setsC = sets
  BY <1>2, <1>3 DEF Init, NewSet, SetType
<1>5. work \in [Sets -> WorkType]
  BY <1>3 DEF Init, Idle, WorkType
<1>6. TypeOK
  <2>1. MaxEvents \in Nat
    BY VariableSetAssumption
  <2>2. queue = {} /\ lost = {} /\ events = 0
    BY DEF Init
  <2>q. QED
    BY <1>1, <1>4, <1>5, <2>1, <2>2 DEF TypeOK
<1>7. CacheBehind
  BY <1>4 DEF CacheBehind, SetType
<1>8. ASSUME NEW s \in Sets
      PROVE  Reported(s) /\ Reporting(s)
  <2>1. /\ setsC[s].finalizer /\ ~setsC[s].deleting
        /\ setsC[s].spec = Begin[s] /\ setsC[s].gen = 1
        /\ setsC[s].status = StatusOf(Resolve(Begin[s], objs), 1)
    BY DEF Init, NewSet
  <2>2. work[s].pc = "idle"
    BY DEF Init, Idle
  <2>q. QED
    BY <1>1, <2>1, <2>2 DEF Reported, Reporting, Outcome
<1>q. QED
  BY <1>6, <1>7, <1>8 DEF IInv

\* A write of a set on the API server leaves its cached copy behind.
LEMMA PutsBehind ==
    ASSUME TypeOK, CacheBehind, NEW s \in Sets, NEW o \in SetType, Puts(s, o)
    PROVE  /\ sets' \in [Sets -> SetType]
           /\ sets'[s] # setsC[s]
           /\ \A r \in Sets : setsC[r].rv <= sets'[r].rv
                              /\ (setsC[r].rv = sets'[r].rv => setsC[r] = sets'[r])
           /\ \A r \in Sets \ {s} : sets'[r] = sets[r]
<1>1. sets[s].rv \in Nat /\ setsC[s].rv \in Nat /\ setsC[s].rv <= sets[s].rv
  BY DEF TypeOK, SetType, CacheBehind
<1>2. [o EXCEPT !.rv = sets[s].rv + 1] \in SetType
  BY <1>1 DEF SetType
<1>3. sets' \in [Sets -> SetType] /\ sets'[s].rv = sets[s].rv + 1
  BY <1>2 DEF Puts, TypeOK, SetType
<1>4. \A r \in Sets \ {s} : sets'[r] = sets[r]
  BY DEF Puts, TypeOK
<1>5. setsC[s].rv < sets'[s].rv
  BY <1>1, <1>3
<1>q. QED
  BY <1>1, <1>3, <1>4, <1>5 DEF CacheBehind

\* A user's write of a set, and the controller's first write, disturb the invariant
\* nowhere: the cache is behind for that set until the watch delivers it.
LEMMA WriteKeepsIInv ==
    ASSUME IInv, NEW s \in Sets, NEW o \in SetType, Puts(s, o),
           UNCHANGED <<objs, objsC, setsC, work, lost>>,
           queue' = queue \/ queue' = queue \ {s}, events' \in 0 .. MaxEvents,
           queue' = queue \ {s} => work[s].pc = "idle"
    PROVE  IInv'
<1>1. TypeOK /\ CacheBehind
  BY DEF IInv
<1>2. TypeOK' /\ CacheBehind'
  BY <1>1, PutsBehind DEF TypeOK, CacheBehind
<1>3. ASSUME NEW r \in Sets, r \notin queue', setsC[r].exists
      PROVE  Reported(r)' /\ Reporting(r)'
  <2>1. CASE r = s /\ queue' = queue \ {s}
    BY <1>1, <2>1, PutsBehind DEF Reported, Reporting
  <2>2. CASE r \notin queue
    BY <1>1, <2>2, <1>3, PutsBehind DEF IInv, Reported, Reporting, Outcome
  <2>q. QED
    BY <1>3, <2>1, <2>2
<1>q. QED
  BY <1>2, <1>3 DEF IInv

\* The end of a reconcile keeps the invariant, provided its set comes back to the
\* queue, or its cache is behind, or its status write was lost, or it stands as it
\* should; the API server's copies are as PutsBehind leaves them.
LEMMA EndKeepsIInv ==
    ASSUME IInv, NEW s \in Sets,
           sets' \in [Sets -> SetType], CacheBehind', \A r \in Sets \ {s} : sets'[r] = sets[r],
           work' \in [Sets -> WorkType], \A r \in Sets \ {s} : work'[r] = work[r],
           work'[s].pc # "status",
           queue' = queue \/ queue' = queue \cup {s},
           lost' \subseteq Sets, \A r \in Sets \ {s} : r \in lost' <=> r \in lost,
           events' \in 0 .. MaxEvents,
           UNCHANGED <<objs, objsC, setsC>>,
           s \notin queue' /\ setsC[s].exists /\ work'[s].pc = "idle"
              /\ sets'[s] = setsC[s] /\ s \notin lost' =>
                setsC[s].finalizer /\ ~setsC[s].deleting /\ setsC[s].status = Outcome(s)
    PROVE  IInv'
<1>1. TypeOK'
  BY DEF IInv, TypeOK
<1>2. ASSUME NEW r \in Sets, r \notin queue', setsC[r].exists
      PROVE  Reported(r)' /\ Reporting(r)'
  <2>1. CASE r = s
    BY <1>2, <2>1 DEF Reported, Reporting, Outcome
  <2>2. CASE r # s
    BY <1>2, <2>2 DEF IInv, Reported, Reporting, Outcome
  <2>q. QED
    BY <2>1, <2>2
<1>q. QED
  BY <1>1, <1>2 DEF IInv

\* The informer of VariableSets brings a set into the cache and queues it.
LEMMA watchSetKeeps ==
    ASSUME IInv, NEW s \in Sets, watchSet(s)
    PROVE  IInv'
<1>1. TypeOK' /\ CacheBehind'
  BY DEF IInv, TypeOK, CacheBehind, watchSet, SetType
<1>2. ASSUME NEW r \in Sets, r \notin queue', setsC'[r].exists
      PROVE  Reported(r)' /\ Reporting(r)'
  <2>1. r # s /\ r \notin queue /\ setsC'[r] = setsC[r]
    BY <1>2 DEF watchSet, IInv, TypeOK
  <2>q. QED
    BY <1>2, <2>1 DEF IInv, Reported, Reporting, Outcome, watchSet
<1>q. QED
  BY <1>1, <1>2 DEF IInv

\* The informer of Secrets and ConfigMaps queues the sets that refer to an object.
LEMMA watchSourceKeeps ==
    ASSUME IInv, NEW k \in Sources, watchSource(k)
    PROVE  IInv'
<1>1. TypeOK' /\ CacheBehind'
  BY DEF IInv, TypeOK, CacheBehind, watchSource, findVariableSetsReferencing
<1>2. ASSUME NEW r \in Sets, r \notin queue', setsC[r].exists
      PROVE  Reported(r)' /\ Reporting(r)'
  <2>1. r \notin queue /\ ~variableSetReferences(setsC[r].spec, k)
    BY <1>2 DEF watchSource, findVariableSetsReferencing
  <2>2. \A h \in Sources : variableSetReferences(setsC[r].spec, h) => objsC'[h] = objsC[h]
    BY <2>1 DEF watchSource, IInv, TypeOK
  <2>3. setsC[r].spec \in Seq(Variables)
    BY DEF IInv, TypeOK, SetType
  <2>4. Resolve(setsC[r].spec, objsC') = Resolve(setsC[r].spec, objsC)
    BY <2>2, <2>3, ResolveLocal
  <2>5. Outcome(r)' = Outcome(r)
    BY <2>4 DEF Outcome, watchSource
  <2>q. QED
    BY <1>2, <2>1, <2>5 DEF IInv, Reported, Reporting, watchSource
<1>3. setsC' = setsC
  BY DEF watchSource
<1>q. QED
  BY <1>1, <1>2, <1>3 DEF IInv

\* Starting a reconcile: what it will write is the outcome of the cached set.
LEMMA startKeeps ==
    ASSUME IInv, NEW s \in Sets, handleDeletion(s) \/ reconcileVariableSet(s)
    PROVE  IInv'
<1>0. TypeOK
  BY DEF IInv
<1>1. setsC[s].spec \in Seq(Variables) /\ setsC[s].gen \in Nat /\ setsC[s].rv \in Nat
  BY <1>0 DEF TypeOK, SetType
<1>2. Outcome(s) \in StatusType
  BY <1>0, <1>1, StatusOfType DEF Outcome, TypeOK
<1>3. Bare("Deleting", setsC[s].gen) \in StatusType /\ Bare("Deleting", setsC[s].gen).phase = "Deleting"
  BY <1>1 DEF Bare, NoStatus, StatusType
<1>4. Bare("Failed", setsC[s].gen) \in StatusType
  BY <1>1 DEF Bare, NoStatus, StatusType
<1>5. PICK st \in StatusType, retry \in BOOLEAN :
        /\ work' = [work EXCEPT ![s] = [pc |-> "status", rv |-> setsC[s].rv, retry |-> retry, status |-> st]]
        /\ \/ st.phase = "Deleting"
           \/ retry
           \/ st = Outcome(s) /\ setsC[s].finalizer /\ ~setsC[s].deleting
  BY <1>2, <1>3, <1>4 DEF handleDeletion, reconcileVariableSet, Outcome
<1>6. queue' = queue \ {s} /\ UNCHANGED <<objs, objsC, sets, setsC, lost>> /\ events' \in 0 .. MaxEvents
  <2>1. queue' = queue \ {s} /\ UNCHANGED <<objs, objsC, sets, setsC, lost>>
    BY DEF handleDeletion, reconcileVariableSet, api
  <2>2. events' = events \/ (events < MaxEvents /\ events' = events + 1)
    BY DEF handleDeletion, reconcileVariableSet, Event
  <2>3. events \in 0 .. MaxEvents /\ MaxEvents \in Nat
    BY <1>0, VariableSetAssumption DEF TypeOK
  <2>q. QED
    BY <2>1, <2>2, <2>3
<1>7. work' \in [Sets -> WorkType]
  BY <1>0, <1>1, <1>5 DEF TypeOK, WorkType
<1>8. TypeOK' /\ CacheBehind'
  BY <1>0, <1>6, <1>7 DEF IInv, TypeOK, CacheBehind
<1>9. ASSUME NEW r \in Sets, r \notin queue', setsC[r].exists
      PROVE  Reported(r)' /\ Reporting(r)'
  <2>1. CASE r = s
    <3>1. work'[s] = [pc |-> "status", rv |-> setsC[s].rv, retry |-> retry, status |-> st]
      BY <1>0, <1>5 DEF TypeOK
    <3>2. Outcome(s)' = Outcome(s)
      BY <1>6 DEF Outcome
    <3>q. QED
      BY <1>5, <1>6, <2>1, <3>1, <3>2 DEF Reported, Reporting
  <2>2. CASE r # s
    <3>1. work'[r] = work[r] /\ r \notin queue
      BY <1>0, <1>5, <1>6, <1>9, <2>2 DEF TypeOK
    <3>2. Outcome(r)' = Outcome(r)
      BY <1>6 DEF Outcome
    <3>q. QED
      BY <1>6, <1>9, <3>1, <3>2 DEF IInv, Reported, Reporting
  <2>q. QED
    BY <2>1, <2>2
<1>q. QED
  BY <1>6, <1>8, <1>9 DEF IInv

\* updateStatus either stands by what the cached set says already, or moves the set on
\* the API server past its cached copy, or finds it there, or loses the write.
LEMMA updateStatusKeeps ==
    ASSUME IInv, NEW s \in Sets, updateStatus(s)
    PROVE  IInv'
<1>0. TypeOK /\ CacheBehind /\ MaxEvents \in Nat
  BY VariableSetAssumption DEF IInv
<1>1. work[s] \in WorkType /\ work[s].pc = "status" /\ sets[s] \in SetType /\ setsC[s] \in SetType
  BY <1>0 DEF TypeOK, updateStatus
<1>2. ASSUME NEW rv \in Nat, AfterStatus(s, rv)
      PROVE  /\ work' \in [Sets -> WorkType]
             /\ \A r \in Sets \ {s} : work'[r] = work[r]
             /\ work'[s].pc # "status"
             /\ queue' = queue \/ queue' = queue \cup {s}
             /\ work'[s].pc = "idle" /\ s \notin queue' =>
                  s \notin queue /\ ~work[s].retry /\ work[s].status.phase # "Deleting"
  <2>1. CASE work[s].status.phase = "Deleting"
    BY <1>0, <1>1, <1>2, <2>1 DEF AfterStatus, TypeOK, WorkType
  <2>2. CASE work[s].status.phase # "Deleting"
    <3>1. Idle \in WorkType /\ Idle.pc = "idle"
      BY DEF Idle, WorkType, NoStatus, StatusType
    <3>q. QED
      BY <1>0, <1>1, <1>2, <2>2, <3>1 DEF AfterStatus, Ends, TypeOK
  <2>q. QED
    BY <2>1, <2>2
<1>3. events' = events \/ Event => events' \in 0 .. MaxEvents
  BY <1>0 DEF TypeOK, Event
<1>4. UNCHANGED <<objs, objsC, setsC>>
  BY DEF updateStatus
<1>5. work[s].rv \in Nat /\ setsC[s].rv + 1 \in Nat
  BY <1>1 DEF WorkType, SetType
<1>6. CASE /\ ~setsC[s].exists \/ setsC[s].status = work[s].status
           /\ AfterStatus(s, work[s].rv) /\ lost' = lost \ {s} /\ UNCHANGED <<sets, events>>
  <2>1. s \notin queue /\ setsC[s].exists /\ ~work[s].retry /\ work[s].status.phase # "Deleting" =>
          setsC[s].finalizer /\ ~setsC[s].deleting /\ setsC[s].status = Outcome(s)
    BY <1>1, <1>6 DEF IInv, Reporting
  <2>2. sets' \in [Sets -> SetType] /\ CacheBehind' /\ lost' \subseteq Sets
    BY <1>0, <1>4, <1>6 DEF TypeOK, CacheBehind
  <2>q. QED
    BY <1>2, <1>3, <1>4, <1>5, <1>6, <2>1, <2>2, EndKeepsIInv
<1>7. CASE /\ Puts(s, [sets[s] EXCEPT !.status = work[s].status])
           /\ AfterStatus(s, setsC[s].rv + 1) /\ lost' = lost \ {s} /\ UNCHANGED events
  <2>1. [sets[s] EXCEPT !.status = work[s].status] \in SetType
    BY <1>1 DEF SetType, WorkType
  <2>2. /\ sets' \in [Sets -> SetType] /\ sets'[s] # setsC[s] /\ CacheBehind'
        /\ \A r \in Sets \ {s} : sets'[r] = sets[r]
    BY <1>0, <1>4, <1>7, <2>1, PutsBehind DEF CacheBehind
  <2>3. lost' \subseteq Sets /\ \A r \in Sets \ {s} : r \in lost' <=> r \in lost
    BY <1>0, <1>7 DEF TypeOK
  <2>q. QED
    BY <1>2, <1>3, <1>4, <1>5, <1>7, <2>2, <2>3, EndKeepsIInv
<1>8. CASE /\ ~Accepts(s, setsC[s].rv) /\ setsC[s].exists
           /\ AfterStatus(s, work[s].rv) /\ UNCHANGED <<sets, lost, events>>
  <2>1. sets'[s] # setsC[s]
    BY <1>8 DEF Accepts
  <2>2. sets' \in [Sets -> SetType] /\ CacheBehind' /\ lost' \subseteq Sets
    BY <1>0, <1>4, <1>8 DEF TypeOK, CacheBehind
  <2>q. QED
    BY <1>2, <1>3, <1>4, <1>5, <1>8, <2>1, <2>2, EndKeepsIInv
<1>9. CASE /\ Event /\ AfterStatus(s, work[s].rv) /\ lost' = lost \cup {s} /\ UNCHANGED sets
  <2>1. sets' \in [Sets -> SetType] /\ CacheBehind' /\ lost' \subseteq Sets
    BY <1>0, <1>4, <1>9 DEF TypeOK, CacheBehind
  <2>q. QED
    BY <1>2, <1>3, <1>4, <1>5, <1>9, <2>1, EndKeepsIInv
<1>q. QED
  BY <1>6, <1>7, <1>8, <1>9 DEF updateStatus

\* A set that is deleted loses its finalizer and is gone.
LEMMA removeFinalizerKeeps ==
    ASSUME IInv, NEW s \in Sets, removeFinalizer(s)
    PROVE  IInv'
<1>0. TypeOK /\ CacheBehind /\ MaxEvents \in Nat /\ sets[s] \in SetType
  BY VariableSetAssumption DEF IInv, TypeOK
<1>1. /\ work' \in [Sets -> WorkType] /\ work'[s].pc # "status"
      /\ \A r \in Sets \ {s} : work'[r] = work[r]
  <2>1. Idle \in WorkType /\ Idle.pc = "idle"
    BY DEF Idle, WorkType, NoStatus, StatusType
  <2>q. QED
    BY <1>0, <2>1 DEF removeFinalizer, TypeOK
<1>2. UNCHANGED <<objs, objsC, setsC, lost>> /\ lost' \subseteq Sets
  BY <1>0 DEF removeFinalizer, TypeOK
<1>3. events' = events \/ Event => events' \in 0 .. MaxEvents
  BY <1>0 DEF TypeOK, Event
<1>4. CASE queue' = queue \cup {s} /\ UNCHANGED sets /\ (events' = events \/ Event)
  <2>1. sets' \in [Sets -> SetType] /\ CacheBehind'
    BY <1>0, <1>2, <1>4 DEF TypeOK, CacheBehind
  <2>q. QED
    BY <1>1, <1>2, <1>3, <1>4, <2>1, EndKeepsIInv
<1>5. CASE /\ Puts(s, [sets[s] EXCEPT !.exists = FALSE, !.finalizer = FALSE])
           /\ UNCHANGED <<queue, events>>
  <2>1. [sets[s] EXCEPT !.exists = FALSE, !.finalizer = FALSE] \in SetType
    BY <1>0 DEF SetType
  <2>2. /\ sets' \in [Sets -> SetType] /\ sets'[s] # setsC[s] /\ CacheBehind'
        /\ \A r \in Sets \ {s} : sets'[r] = sets[r]
    BY <1>0, <1>2, <1>5, <2>1, PutsBehind DEF CacheBehind
  <2>q. QED
    BY <1>1, <1>2, <1>3, <1>5, <2>2, EndKeepsIInv
<1>q. QED
  BY <1>4, <1>5 DEF removeFinalizer

\* What users do to sets and objects.
LEMMA UserKeeps == ASSUME IInv, User PROVE IInv'
<1>0. TypeOK /\ MaxEvents \in Nat /\ Written \subseteq Sets /\ Becomes \subseteq SourceStates
  BY VariableSetAssumption DEF IInv
<1>1. \A s \in Sets : SpecsOf[s] \subseteq Seq(Variables)
  BY VariableSetAssumption
<1>2. Event => events' \in 0 .. MaxEvents
  BY <1>0 DEF TypeOK, Event
<1>3. \A spec \in Seq(Variables) : NewSet(spec) \in SetType
  BY DEF NewSet, SetType, NoStatus, StatusType
<1>4. ASSUME NEW s \in Written, EditSet(s) \/ DeleteSet(s) \/ CreateSet(s)
      PROVE  IInv'
  <2>1. sets[s] \in SetType /\ s \in Sets
    BY <1>0 DEF TypeOK
  <2>g. sets[s].gen + 1 \in Nat
    BY <2>1 DEF SetType
  <2>2. \E o \in SetType : Puts(s, o)
    <3>1. CASE EditSet(s)
      <4>1. PICK spec \in SpecsOf[s] : Puts(s, [sets[s] EXCEPT !.spec = spec, !.gen = @ + 1])
        BY <3>1 DEF EditSet
      <4>2. [sets[s] EXCEPT !.spec = spec, !.gen = sets[s].gen + 1] \in SetType
        <5>1. spec \in Seq(Variables)
          BY <1>1, <2>1
        <5> DEFINE g == sets[s].gen + 1
        <5>2. g \in Nat
          BY <2>g
        <5> HIDE DEF g
        <5>3. [sets[s] EXCEPT !.spec = spec, !.gen = g] \in SetType
          BY <5>1, <5>2, <2>1 DEF SetType
        <5>q. QED
          BY <5>3 DEF g
      <4>q. QED
        BY <4>1, <4>2
    <3>2. CASE DeleteSet(s)
      <4>1. /\ [sets[s] EXCEPT !.deleting = TRUE, !.gen = sets[s].gen + 1] \in SetType
            /\ [sets[s] EXCEPT !.exists = FALSE] \in SetType
        <5> DEFINE g == sets[s].gen + 1
        <5>2. g \in Nat
          BY <2>g
        <5> HIDE DEF g
        <5>3. [sets[s] EXCEPT !.deleting = TRUE, !.gen = g] \in SetType
          BY <5>2, <2>1 DEF SetType
        <5>q. QED
          BY <2>1, <5>3 DEF g, SetType
      <4>q. QED
        BY <3>2, <4>1 DEF DeleteSet
    <3>3. CASE CreateSet(s)
      BY <1>1, <1>3, <2>1, <3>3 DEF CreateSet
    <3>q. QED
      BY <1>4, <3>1, <3>2, <3>3
  <2>3. UNCHANGED <<objs, objsC, setsC, work, lost, queue>> /\ Event
    BY <1>4 DEF EditSet, DeleteSet, CreateSet
  <2>4. queue' = queue \ {s} => s \notin queue
    BY <2>3
  <2>5. PICK o \in SetType : Puts(s, o)
    BY <2>2
  <2>6. TypeOK' /\ CacheBehind'
    BY <1>0, <1>2, <2>1, <2>3, <2>5, PutsBehind DEF IInv, TypeOK, CacheBehind
  <2>7. ASSUME NEW r \in Sets, r \notin queue, setsC[r].exists
        PROVE  Reported(r)' /\ Reporting(r)'
    <3>1. setsC[r] = sets'[r] => setsC[r] = sets[r]
      BY <1>0, <2>1, <2>5, PutsBehind DEF IInv
    <3>q. QED
      BY <2>3, <2>7, <3>1 DEF IInv, Reported, Reporting, Outcome
  <2>q. QED
    BY <2>3, <2>6, <2>7 DEF IInv
<1>5. ASSUME NEW k \in Sources, ChangeSource(k)
      PROVE  IInv'
  <2>1. PICK state \in Becomes : objs' = [objs EXCEPT ![k] = [rv |-> @.rv + 1, state |-> state]]
    BY <1>5 DEF ChangeSource
  <2>2. objs[k].rv + 1 \in Nat /\ state \in SourceStates
    BY <1>0 DEF TypeOK, SourceType
  <2>3. objs' \in [Sources -> SourceType]
    BY <1>0, <2>1, <2>2 DEF TypeOK, SourceType
  <2>4. UNCHANGED <<objsC, sets, setsC, queue, work, lost>> /\ Event
    BY <1>5 DEF ChangeSource
  <2>q. QED
    BY <1>0, <1>2, <2>3, <2>4 DEF IInv, TypeOK, CacheBehind, Reported, Reporting, Outcome
<1>q. QED
  BY <1>4, <1>5 DEF User

\* What happens outside the controller leaves the invariant alone.
LEMMA ElsewhereKeeps == ASSUME IInv, Elsewhere PROVE IInv'
<1>1. events' \in 0 .. MaxEvents
  BY VariableSetAssumption DEF IInv, TypeOK, Elsewhere, Event
<1>q. QED
  BY <1>1 DEF Elsewhere, IInv, TypeOK, CacheBehind, Reported, Reporting, Outcome

\* A whole Reconcile keeps the invariant.
LEMMA ReconcileKeeps == ASSUME IInv, NEW s \in Sets, Reconcile(s) PROVE IInv'
<1>1. CASE notFound(s)
  <2>1. TypeOK' /\ CacheBehind'
    BY <1>1 DEF IInv, TypeOK, CacheBehind, notFound, api
  <2>2. ASSUME NEW r \in Sets, r \notin queue', setsC[r].exists
        PROVE  Reported(r)' /\ Reporting(r)'
    BY <1>1, <2>2 DEF IInv, Reported, Reporting, Outcome, notFound, api
  <2>3. setsC' = setsC
    BY <1>1 DEF notFound
  <2>q. QED
    BY <2>1, <2>2, <2>3 DEF IInv
<1>2. CASE AddFinalizer(s)
  <2>1. [sets[s] EXCEPT !.finalizer = TRUE] \in SetType
    BY DEF IInv, TypeOK, SetType
  <2>2. events' \in 0 .. MaxEvents
    BY <1>2 DEF AddFinalizer, IInv, TypeOK
  <2>q. QED
    BY <1>2, <2>1, <2>2, WriteKeepsIInv DEF AddFinalizer, Takes
<1>3. CASE handleDeletion(s) \/ reconcileVariableSet(s)
  BY <1>3, startKeeps
<1>4. CASE updateStatus(s)
  BY <1>4, updateStatusKeeps
<1>5. CASE removeFinalizer(s)
  BY <1>5, removeFinalizerKeeps
<1>q. QED
  BY <1>1, <1>2, <1>3, <1>4, <1>5 DEF Reconcile

\* Every step keeps the invariant.
LEMMA NextIInv == IInv /\ [Next]_vars => IInv'
<1> SUFFICES ASSUME IInv, [Next]_vars PROVE IInv'
  OBVIOUS
<1>1. CASE UNCHANGED vars
  BY <1>1 DEF vars, IInv, TypeOK, CacheBehind, Reported, Reporting, Outcome
<1>q. QED
  BY <1>1, UserKeeps, ElsewhereKeeps, ReconcileKeeps, watchSetKeeps, watchSourceKeeps DEF Next

\* Sets that are at rest have been reported (StatusTracksSources) and every variable
\* has its type in each state of the invariant.
LEMMA IInvImplies == IInv => TypeOK /\ StatusTracksSources
BY DEF IInv, StatusTracksSources, AtRest, Reported, Outcome
-----------------------------------------------------------------------------
\* The variables of the VariableSet controller have their types, in every behaviour
\* of variableset_controller.go, whatever the sets, their specs and the sources are.
THEOREM TypeCorrect == Spec => []TypeOK
<1>q. QED
  BY InitIInv, NextIInv, IInvImplies, PTL DEF Spec

\* The status of a VariableSet that nothing is under way for is the outcome of
\* resolving its newest spec against the newest sources, for any number of sets,
\* sources and failures (variableset_controller.go, updateStatus and its watches).
THEOREM StatusTracks == Spec => []StatusTracksSources
<1>q. QED
  BY InitIInv, NextIInv, IInvImplies, PTL DEF Spec

\* Next to a Workspace that reads the sets, the VariableSet controller still is the
\* one of module VariableSet: what the Workspace controller does changes no set.
THEOREM WorkspaceLeavesSetsAlone == WSpec => Spec
<1>1. WInit => Init
  BY DEF WInit
<1>2. [WNext]_allVars => [Next]_vars
  <2> SUFFICES ASSUME [WNext]_allVars PROVE [Next]_vars
    OBVIOUS
  <2>1. CASE UNCHANGED allVars
    BY <2>1 DEF allVars
  <2>2. CASE EditProject
    BY <2>2 DEF EditProject, Next
  <2>3. CASE reconcileWorkspace
    BY <2>3 DEF reconcileWorkspace, resolveFirst, resolveOther, reconcileUnresolved, startFreshCycle,
                awaitRollout, createJob, jobRunning, handleApplySuccess, jobFailed
  <2>4. CASE projectGrants \/ scheduleDue \/ podStarts \/ deadlineExceeded \/ podSucceeds
    BY <2>4 DEF projectGrants, scheduleDue, podStarts, deadlineExceeded, podSucceeds
  <2>5. CASE User \/ \E s \in Sets : findWorkspacesForVariableSet(s) \/ Reconcile(s)
    BY <2>5 DEF Next, findWorkspacesForVariableSet
  <2>6. CASE \E k \in Sources : watchSource(k)
    BY <2>6 DEF Next
  <2>q. QED
    BY <2>1, <2>2, <2>3, <2>4, <2>5, <2>6 DEF WNext
<1>q. QED
  BY <1>1, <1>2, PTL DEF WSpec, Spec
=============================================================================
