---------------------------- MODULE RunDecisions ----------------------------
(***************************************************************************)
(* What the API server promises of decisions on parked plans: each run is   *)
(* decided at most once, whoever asks and however often; the controller is  *)
(* signalled nothing but the decision on record; a request that is told     *)
(* "ok" agrees with the record, one that is told "conflict" does not.       *)
(***************************************************************************)
CONSTANTS Runs, Requests, Wants

VARIABLES
    approval,   \* the decision on record of each run
    asked,      \* the run each request is about, 0 when it is about none
    answer,     \* the last answer to each request, if it had one
    signalled   \* the decisions the controller was given, by run

dvars == <<approval, asked, answer, signalled>>

Init ==
    /\ approval = [r \in Runs |-> "none"]
    /\ asked = [q \in Requests |-> 0]
    /\ answer = [q \in Requests |-> "none"]
    /\ signalled = {}

Ask(q) ==
    /\ asked[q] = 0
    /\ \E r \in Runs : asked' = [asked EXCEPT ![q] = r]
    /\ answer' = [answer EXCEPT ![q] = "none"]
    /\ UNCHANGED <<approval, signalled>>

Record(q) ==
    /\ asked[q] # 0 /\ approval[asked[q]] = "none"
    /\ approval' = [approval EXCEPT ![asked[q]] = Wants[q]]
    /\ UNCHANGED <<asked, answer, signalled>>

Reply(q, a) ==
    /\ asked[q] # 0
    /\ asked' = [asked EXCEPT ![q] = 0]
    /\ answer' = [answer EXCEPT ![q] = a]

\* The reply to a request that was carried out may be lost.
Signal(q) ==
    /\ asked[q] # 0 /\ approval[asked[q]] = Wants[q]
    /\ signalled' = signalled \cup {<<asked[q], Wants[q]>>}
    /\ Reply(q, "ok") \/ Reply(q, "none")
    /\ UNCHANGED approval

Refuse(q) ==
    /\ asked[q] # 0 /\ approval[asked[q]] \notin {"none", Wants[q]}
    /\ Reply(q, "conflict")
    /\ UNCHANGED <<approval, signalled>>

Fail(q) ==
    /\ Reply(q, "none")
    /\ UNCHANGED <<approval, signalled>>

Next == \E q \in Requests : Ask(q) \/ Record(q) \/ Signal(q) \/ Refuse(q) \/ Fail(q)

Spec == Init /\ [][Next]_dvars
=============================================================================
