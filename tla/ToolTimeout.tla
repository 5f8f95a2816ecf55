---------------------------- MODULE ToolTimeout ----------------------------
(***************************************************************************)
(* runWithToolTimeout() of agent/tool-timeout.ts: the body of one tool     *)
(* under a wall-clock budget, with a grace timer, the caller's signal and  *)
(* the signal derived for the body.  The body ends when it likes, heeds    *)
(* its signal or not, and may never end.  Time is counted in ticks.        *)
(***************************************************************************)
EXTENDS Naturals

CONSTANTS
    Budgets, \* budgets a tool may declare, in ticks; 0 is none
    GraceMs, \* graceMs
    MaxTime  \* bound: ticks

ASSUME TimeAssumption == Budgets \subseteq Nat /\ GraceMs \in Nat \ {0} /\ MaxTime \in Nat

VARIABLES
    now,       \* ticks since the call
    budget,    \* the tool's budget
    armed,     \* timers that may still fire
    outer,     \* the caller's signal is aborted
    hearing,   \* the abort listener on the caller's signal is in place
    signalled, \* the signal the body was given is aborted
    fired,     \* deadlineFired, with the tick it happened at; 0 is never
    body,      \* "running", "value" or "error"
    result     \* "none", or what the caller got

timeoutVars == <<now, budget, armed, outer, hearing, signalled, fired, body, result>>

TimeoutTypeOK ==
    /\ now \in 0 .. MaxTime /\ budget \in Budgets
    /\ armed \subseteq {"deadline", "grace"}
    /\ {outer, hearing, signalled} \subseteq BOOLEAN
    /\ fired \in 0 .. MaxTime
    /\ body \in {"running", "value", "error"}
    /\ result \in {"none", "value", "error", "timeout", "abandoned"}

(* both timers are set before the body is awaited *)
TimeoutInit ==
    /\ now = 0 /\ budget \in Budgets /\ outer \in BOOLEAN
    /\ armed = IF budget > 0 THEN {"deadline", "grace"} ELSE {}
    /\ hearing = (budget > 0 /\ ~outer)
    /\ signalled = outer /\ fired = 0 /\ body = "running" /\ result = "none"

Due(t) == t \in armed /\ now >= (IF t = "deadline" THEN budget ELSE GraceMs)

(* Mutant: the deadline is noted, the body is not told *)
BudgetFires_Silent ==
    /\ Due("deadline")
    /\ armed' = armed \ {"deadline"} /\ fired' = now /\ signalled' = signalled
    /\ UNCHANGED <<now, budget, outer, hearing, body, result>>

BudgetFires ==
    /\ Due("deadline")
    /\ armed' = armed \ {"deadline"} /\ fired' = now /\ signalled' = TRUE
    /\ UNCHANGED <<now, budget, outer, hearing, body, result>>

(* the caller gets its result: the finally block clears what is left *)
Returns(r) == result' = r /\ armed' = {} /\ hearing' = FALSE

GraceExpires ==
    /\ Due("grace") /\ Returns("abandoned")
    /\ UNCHANGED <<now, budget, outer, signalled, fired, body>>

(* a value is used as it is; an error after the deadline is a timeout,     *)
(* unless the caller aborted; the end of an abandoned body is not noticed  *)
BodyEnds(how) ==
    /\ body = "running" /\ body' = how
    /\ IF result # "none" THEN UNCHANGED <<result, armed, hearing>>
       ELSE Returns(IF how = "error" /\ fired > 0 /\ ~outer THEN "timeout" ELSE how)
    /\ UNCHANGED <<now, budget, outer, signalled, fired>>

OuterAbort ==
    /\ ~outer /\ outer' = TRUE
    /\ signalled' = (signalled \/ hearing \/ budget = 0)
    /\ UNCHANGED <<now, budget, armed, hearing, fired, body, result>>

Tick ==
    /\ now < MaxTime /\ \A t \in armed : ~Due(t)
    /\ now' = now + 1
    /\ UNCHANGED <<budget, armed, outer, hearing, signalled, fired, body, result>>

TimeoutNext ==
    \/ BudgetFires \/ GraceExpires \/ OuterAbort \/ Tick
    \/ \E how \in {"value", "error"} : BodyEnds(how)

(* Time passes and due timers fire; nothing is assumed of the body. *)
TimeoutSpec == TimeoutInit /\ [][TimeoutNext]_timeoutVars

TimeoutDue == Tick \/ BudgetFires \/ GraceExpires

---------------------------------------------------------------------------
(* A turn that is cancelled does not leave a body running that was not     *)
(* told, whenever the abort comes: before the call, under its timers or    *)
(* after one fired.  The only bodies that may go on without a word are     *)
(* those given up at the end of the grace period, and only when the budget *)
(* is no shorter than it.                                                  *)
BodyIsTold ==
    /\ outer /\ body = "running" => signalled \/ result = "abandoned"
    /\ result = "abandoned" => signalled \/ budget >= GraceMs

(* An abandoned body that goes on is not taken for a finished one, nor a   *)
(* late end for an answer: a result never changes.                         *)
ResultIsFinal == [][result # "none" => result' = result]_timeoutVars

(* A body with a budget cannot hold its caller, whatever it does.          *)
CallerReturns == budget > 0 ~> result # "none"


(* tool-timeout.ts:78-79: an outer abort is never reported as a timeout.   *)
AbortIsNoTimeout ==
    [][outer /\ fired = 0 /\ result = "none" => result' \notin {"timeout", "abandoned"}]_timeoutVars
=============================================================================
