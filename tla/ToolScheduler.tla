--------------------------- MODULE ToolScheduler ---------------------------
(***************************************************************************)
(* How one assistant message's batch of tool calls is run and how its      *)
(* results reach the transcript: ToolExecutor.executeMany and              *)
(* executeBoundedParallel (agent/tool-executor.ts) over                    *)
(* runToolGroupInModelOrder (agent/tool-scheduler.ts).                     *)
(*                                                                         *)
(* A batch of `task` calls on a host with a mesh submitter runs in a       *)
(* rolling pool and commits at the end; any other batch runs serially and  *)
(* commits as it goes.  A call either resolves, with one result, or        *)
(* rejects: execute() does not catch what the host's ask handler throws.   *)
(* An abort may come at any moment.  Between a call that settles and the   *)
(* continuation of `await Promise.race(inFlight)` other calls may settle.  *)
(***************************************************************************)
EXTENDS Integers, Sequences, FiniteSets

CONSTANTS
    MaxCalls,    \* bound: calls in one assistant message
    MaxParallel, \* getMaxParallelToolCalls(), as configured (clamped below)
    MaxSubagents \* count cap: a larger parallel batch is refused whole

ASSUME SchedulerAssumption ==
    MaxCalls \in Nat /\ MaxParallel \in Int /\ MaxSubagents \in Nat

VARIABLES
    n,       \* number of calls in the batch
    tasks,   \* every call is a `task` and a mesh submitter is configured
    loopAt,  \* where executeMany is
    aborted, \* abortSignal.aborted
    next,    \* index of the first call not started
    call,    \* what became of each call
    first,   \* how the race in progress was settled
    log      \* results appended to the transcript by this batch

schedulerVars == <<n, tasks, loopAt, aborted, next, call, first, log>>

Call      == 1 .. n
CallState == {"idle", "running", "resolved", "rejected"}
Kind      == {"result", "skipped", "refused"}
Entry     == [call : Nat, kind : Kind]

Running == {i \in Call : call[i] = "running"}

(* Math.max(1, Math.floor(options.maxParallel)) *)
Cap == IF MaxParallel < 1 THEN 1 ELSE MaxParallel

SchedulerTypeOK ==
    /\ n \in 0 .. MaxCalls
    /\ tasks \in BOOLEAN
    /\ loopAt \in {"dispatch", "serial", "refill", "race", "commit", "returned", "threw"}
    /\ aborted \in BOOLEAN
    /\ next \in 1 .. n + 1
    /\ call \in [Call -> CallState]
    /\ first \in {"none", "resolved", "rejected"}
    /\ log \in Seq(Entry)

SchedulerInit ==
    /\ n \in 0 .. MaxCalls
    /\ tasks \in BOOLEAN
    /\ loopAt = "dispatch"
    /\ aborted \in BOOLEAN
    /\ next = 1
    /\ call = [i \in Call |-> "idle"]
    /\ first = "none"
    /\ log = <<>>

---------------------------------------------------------------------------
(* executeMany: an empty batch returns, a batch that is not all `task`     *)
(* runs serially, a batch over the count cap is refused whole.             *)

DispatchEmpty ==
    /\ loopAt = "dispatch" /\ n = 0
    /\ loopAt' = "returned"
    /\ UNCHANGED <<n, tasks, aborted, next, call, first, log>>

DispatchSerial ==
    /\ loopAt = "dispatch" /\ n > 0 /\ ~tasks
    /\ loopAt' = "serial"
    /\ UNCHANGED <<n, tasks, aborted, next, call, first, log>>

DispatchRefused ==
    /\ loopAt = "dispatch" /\ n > 0 /\ tasks /\ n > MaxSubagents
    /\ loopAt' = "returned"
    /\ log' = [i \in Call |-> [call |-> i, kind |-> "refused"]]
    /\ UNCHANGED <<n, tasks, aborted, next, call, first>>

DispatchParallel ==
    /\ loopAt = "dispatch" /\ n > 0 /\ tasks /\ n <= MaxSubagents
    /\ loopAt' = "refill"
    /\ UNCHANGED <<n, tasks, aborted, next, call, first, log>>

---------------------------------------------------------------------------
(* The serial path: one call at a time, `break` on abort. *)

SerialStart ==
    /\ loopAt = "serial" /\ Running = {} /\ next <= n /\ ~aborted
    /\ call' = [call EXCEPT ![next] = "running"]
    /\ next' = next + 1
    /\ UNCHANGED <<n, tasks, loopAt, aborted, first, log>>

SerialResolves(i) ==
    /\ loopAt = "serial" /\ i \in Running
    /\ call' = [call EXCEPT ![i] = "resolved"]
    /\ log' = Append(log, [call |-> i, kind |-> "result"])
    /\ UNCHANGED <<n, tasks, loopAt, aborted, next, first>>

SerialRejects(i) ==
    /\ loopAt = "serial" /\ i \in Running
    /\ call' = [call EXCEPT ![i] = "rejected"]
    /\ loopAt' = "threw"
    /\ UNCHANGED <<n, tasks, aborted, next, first, log>>

SerialEnd ==
    /\ loopAt = "serial" /\ Running = {}
    /\ next > n \/ aborted
    /\ loopAt' = "returned"
    /\ UNCHANGED <<n, tasks, aborted, next, call, first, log>>

---------------------------------------------------------------------------
(* The rolling pool. *)

(* the calls the inner `while` starts: as many as the pool has room for *)
LastStarted ==
    LET room == next + Cap - Cardinality(Running) - 1
    IN  IF aborted THEN next - 1 ELSE IF room < n THEN room ELSE n

(* Mutant: an abort commits without draining the pool *)
Refill_NoDrain ==
    /\ loopAt = "refill"
    /\ next' = LastStarted + 1
    /\ call' = [i \in Call |-> IF i \in next .. LastStarted THEN "running" ELSE call[i]]
    /\ loopAt' = IF aborted \/ Running \cup (next .. LastStarted) = {} THEN "commit" ELSE "race"
    /\ first' = "none"
    /\ UNCHANGED <<n, tasks, aborted, log>>

Refill ==
    /\ loopAt = "refill"
    /\ next' = LastStarted + 1
    /\ call' = [i \in Call |-> IF i \in next .. LastStarted THEN "running" ELSE call[i]]
    /\ loopAt' = IF Running \cup (next .. LastStarted) = {} THEN "commit" ELSE "race"
    /\ first' = "none"
    /\ UNCHANGED <<n, tasks, aborted, log>>

(* Mutant: results are appended in completion order *)
Settles_CommitsAtOnce(i, outcome) ==
    /\ loopAt \in {"race", "threw"} /\ tasks /\ i \in Running
    /\ call' = [call EXCEPT ![i] = outcome]
    /\ first' = IF first = "none" THEN outcome ELSE first
    /\ log' = Append(log, [call |-> i, kind |-> "result"])
    /\ UNCHANGED <<n, tasks, loopAt, aborted, next>>

(* a call of the pool settles; the first one settles the race.  After the  *)
(* batch threw, the calls still in flight go on, and nobody hears of them. *)
Settles(i, outcome) ==
    /\ loopAt \in {"race", "threw"} /\ tasks /\ i \in Running
    /\ call' = [call EXCEPT ![i] = outcome]
    /\ first' = IF first = "none" THEN outcome ELSE first
    /\ UNCHANGED <<n, tasks, loopAt, aborted, next, log>>

WakeCall ==
    /\ loopAt = "race" /\ first = "resolved"
    /\ loopAt' = "refill"
    /\ UNCHANGED <<n, tasks, aborted, next, call, first, log>>

WakeThrows ==
    /\ loopAt = "race" /\ first = "rejected"
    /\ loopAt' = "threw"
    /\ UNCHANGED <<n, tasks, aborted, next, call, first, log>>

(* a slot without a result goes through onSkipped *)
Commit ==
    /\ loopAt = "commit"
    /\ log' = [i \in Call |->
                 [call |-> i, kind |-> IF call[i] = "resolved" THEN "result" ELSE "skipped"]]
    /\ loopAt' = "returned"
    /\ UNCHANGED <<n, tasks, aborted, next, call, first>>

Abort ==
    /\ ~aborted /\ loopAt \notin {"returned", "threw"}
    /\ aborted' = TRUE
    /\ UNCHANGED <<n, tasks, loopAt, next, call, first, log>>

---------------------------------------------------------------------------
RunsLoop ==
    \/ DispatchEmpty \/ DispatchSerial \/ DispatchRefused \/ DispatchParallel
    \/ SerialStart \/ SerialEnd
    \/ Refill \/ WakeCall \/ WakeThrows \/ Commit

SomeCallSettles ==
    \E i \in Call :
        \/ SerialResolves(i) \/ SerialRejects(i)
        \/ Settles(i, "resolved") \/ Settles(i, "rejected")

SchedulerNext == RunsLoop \/ SomeCallSettles \/ Abort

SchedulerSpec == SchedulerInit /\ [][SchedulerNext]_schedulerVars

(* The loop is scheduled by the event loop.  A call settles because every  *)
(* tool body runs under a wall-clock budget (agent/tool-timeout.ts).       *)
SchedulerDue == RunsLoop \/ SomeCallSettles

---------------------------------------------------------------------------
Ended == loopAt \in {"returned", "threw"}

(* Results are committed in model order, whatever order the calls settled  *)
(* in (tool-scheduler.ts, property 1).                                     *)
ModelOrder ==
    \A j, k \in DOMAIN log : j < k => log[j].call < log[k].call

(* No more calls run at once than the configured concurrency, and one at a *)
(* time when the batch is serial (tool-scheduler.ts, property 2).          *)
BoundedConcurrency == Cardinality(Running) <= (IF tasks THEN Cap ELSE 1)

(* A batch that returns leaves no call running, and unless it was serial   *)
(* and aborted, its log answers every call once, with the call's own       *)
(* result when there is one.                                               *)
ReturnsComplete ==
    loopAt = "returned" =>
        /\ Running = {}
        /\ tasks \/ ~aborted => Len(log) = n
        /\ \A k \in DOMAIN log :
              log[k].kind = "result" <=> call[log[k].call] = "resolved"

(* The strengthening that is inductive.  The transcript grows in index      *)
(* order, exactly the calls below `next` were started, a serial batch runs *)
(* its latest call only, and a pool writes nothing before it commits.      *)
Started    == \A i \in Call : call[i] = "idle" <=> i >= next
OwnEntries == \A k \in DOMAIN log : log[k].call = k
Phases ==
    /\ loopAt = "dispatch" => next = 1
    /\ loopAt = "serial" => ~tasks
    /\ loopAt \in {"refill", "race", "commit"} => tasks
    /\ loopAt = "commit" => Running = {}
SerialBooks ==
    ~tasks /\ loopAt # "returned" =>
        /\ \A i \in Running : i = next - 1
        /\ \A k \in DOMAIN log : log[k].kind = "result"
        /\ loopAt # "threw" =>
              /\ \A i \in Call : call[i] # "rejected"
              /\ Len(log) = IF Running = {} THEN next - 1 ELSE next - 2
PoolBooks == tasks /\ loopAt # "returned" => log = <<>>

BatchInv ==
    /\ SchedulerTypeOK /\ Started /\ OwnEntries /\ Phases /\ SerialBooks /\ PoolBooks
    /\ BoundedConcurrency /\ ReturnsComplete

(* Once the turn is aborted no further call is started. *)
NoStartAfterAbort == [][aborted => next' = next]_schedulerVars

(* A batch that has begun ends: the rolling pool never waits for a call that is not     *)
(* running, and every call that was started settles in the end.            *)
BatchEnds == loopAt # "dispatch" ~> Ended /\ Running = {}

---------------------------------------------------------------------------
(* What tool-scheduler.ts:23-24 says: the log pairs every tool_call with a *)
(* tool_result.  The serial path does not.                                 *)
Paired == loopAt = "returned" => \A i \in Call : \E k \in DOMAIN log : log[k].call = i

(* What tool-scheduler.ts:62 says of onSkipped: the call never started.  A *)
(* call that rejects behind another one that won the race is skipped too.  *)
SkippedNeverStarted ==
    \A k \in DOMAIN log : log[k].kind = "skipped" => call[log[k].call] = "idle"
=============================================================================
