------------------------------ MODULE JobBoard ------------------------------
(***************************************************************************)
(* What the registry of background jobs promises a host, without waiters,  *)
(* cancellation or disposal: a session has a bounded number of active      *)
(* jobs, and every job ends once, with an outcome that never changes and   *)
(* that is reported at that moment and never again.                        *)
(***************************************************************************)
EXTENDS Integers, FiniteSets

CONSTANTS Job, Owner, MaxPerOwner

VARIABLES
    state,   \* "none", "active" or the job's outcome
    ownedBy, \* the session that owns the job
    reports  \* how often the job's end was reported

Outcome == {"completed", "killed", "failed"}

Active(o) == {j \in Job : state[j] = "active" /\ ownedBy[j] = o}

Init ==
    /\ state = [j \in Job |-> "none"]
    /\ ownedBy \in [Job -> Owner]
    /\ reports = [j \in Job |-> 0]

Begin(j, o) ==
    /\ state[j] = "none" /\ Cardinality(Active(o)) < MaxPerOwner
    /\ state' = [state EXCEPT ![j] = "active"]
    /\ ownedBy' = [ownedBy EXCEPT ![j] = o]
    /\ UNCHANGED reports

(* several jobs may end in one step of the host *)
Finish(E, out) ==
    /\ E # {} /\ \A j \in E : state[j] = "active" /\ reports[j] = 0
    /\ state' = [j \in Job |-> IF j \in E THEN out ELSE state[j]]
    /\ reports' = [j \in Job |-> IF j \in E THEN 1 ELSE reports[j]]
    /\ UNCHANGED ownedBy

Next ==
    \/ \E j \in Job, o \in Owner : Begin(j, o)
    \/ \E E \in SUBSET Job, out \in Outcome : Finish(E, out)

Spec == Init /\ [][Next]_<<state, ownedBy, reports>>
=============================================================================
