------------------------------ MODULE Resolver ------------------------------
(***************************************************************************)
(* How VariableSets resolve (internal/controller/variableset/resolver.go):  *)
(* the pure operators shared by the VariableSet controller, which reports   *)
(* the outcome on status, and by the Workspace controller, which composes   *)
(* several sets into the environment of a run.                              *)
(*                                                                          *)
(* A source is one Secret or ConfigMap, of which one key matters.  Its      *)
(* contents are known by its resourceVersion: no controller reads the bytes.*)
(***************************************************************************)
EXTENDS Integers, Sequences, FiniteSets

\* "nokey": the object is there, the key is not.
SourceStates == {"absent", "nokey", "present"}

\* A variable of a spec is inline or refers to a source.
Inline(name, value) == [name |-> name, kind |-> "inline", value |-> value]
From(name, source, optional) ==
    [name |-> name, kind |-> "from", source |-> source, optional |-> optional]
-----------------------------------------------------------------------------
(* Resolution of one VariableSet against the sources objs.                  *)

missingOrOptional(v, reason) ==
    IF v.optional
    THEN [name |-> v.name, as |-> "optionalMissing"]
    ELSE [name |-> v.name, as |-> "missing", source |-> v.source, reason |-> reason]

resolveVariable(v, objs) ==
    IF v.kind = "inline"
    THEN [name |-> v.name, as |-> "inline", value |-> v.value]
    ELSE CASE objs[v.source].state = "absent"  -> missingOrOptional(v, "ResourceNotFound")
           [] objs[v.source].state = "nokey"   -> missingOrOptional(v, "KeyNotFound")
           [] objs[v.source].state = "present" ->
                [name |-> v.name, as |-> "ref", source |-> v.source,
                 rv |-> objs[v.source].rv, optional |-> v.optional]

Resolve(spec, objs) == [i \in DOMAIN spec |-> resolveVariable(spec[i], objs)]

Unresolved(res)        == {i \in DOMAIN res : res[i].as = "missing"}
ResolvedVariables(res) == {i \in DOMAIN res : res[i].as \in {"inline", "ref"}}

\* The spec refers to the source, optionally or not.
variableSetReferences(spec, source) ==
    \E i \in DOMAIN spec : spec[i].kind = "from" /\ spec[i].source = source
-----------------------------------------------------------------------------
(* Composition of several sets.  all is what they resolve to, one set after *)
(* the other.  The effective list is a function of the variable name: the   *)
(* order of the environment carries no meaning.                             *)

Kept(all) == {i \in DOMAIN all : all[i].as # "optionalMissing"}

\* Mutant: the set that comes first wins.
FirstWins(all) ==
    [n \in {all[i].name : i \in Kept(all)} |->
        all[CHOOSE i \in Kept(all) :
              all[i].name = n /\ \A j \in Kept(all) : all[j].name = n => i <= j]]

ComposeEffective(all) ==
    [n \in {all[i].name : i \in Kept(all)} |->
        all[CHOOSE i \in Kept(all) :
              all[i].name = n /\ \A j \in Kept(all) : all[j].name = n => j <= i]]

\* What the hash of an effective list tells apart.  An empty list has the hash of
\* a Workspace that was never stamped.
Fingerprint(effective) ==
    [n \in DOMAIN effective |->
        IF effective[n].as = "missing"
        THEN [as |-> "missing", source |-> effective[n].source]
        ELSE effective[n]]

NoHash == Fingerprint(ComposeEffective(<<>>))
=============================================================================
