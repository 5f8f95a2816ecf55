---------------------------- MODULE JobRegistry ----------------------------
(***************************************************************************)
(* The in-memory registry of background jobs (jobs/registry.ts) with its   *)
(* producers: child processes (jobs/process-provider.ts) and sub-agents    *)
(* (spawnBackgroundSubagent in subagent/background.ts).                    *)
(*                                                                         *)
(* A job's producer lives, then resolves hooks.done; the registry hears of *)
(* it one callback later.  kill(), disposeOwner() and dispose() only ask   *)
(* the producer to stop.  hooks.cancel may throw; a producer of a job that *)
(* was cancelled reports "killed".                                         *)
(***************************************************************************)
EXTENDS Integers, FiniteSets

CONSTANTS
    Job,         \* jobs that can be started
    Owner,       \* owning sessions
    Anyone,      \* the owner of a job started without one
    Waiter,      \* calls of wait()
    MaxPerOwner, \* maxConcurrentJobsPerOwner
    CancelThrows \* a producer's cancel may throw

ASSUME JobAssumption ==
    /\ IsFiniteSet(Job) /\ MaxPerOwner \in Nat
    /\ CancelThrows \in BOOLEAN /\ Anyone \in Owner

VARIABLES
    store,     \* jobs the registry knows
    owner,     \* the job's owner
    status,    \* the job's status, "none" before start
    told,      \* how often the done listeners were called for the job
    producer,  \* "none", "alive", "done" (hooks.done resolved), "heard"
    cancelled, \* the producer was asked to stop
    unheeded,  \* jobs whose cancel threw
    waits,     \* what became of each wait() call
    on,        \* the job it waits for
    clocks,    \* wait() calls whose timeout is armed
    leaving,   \* owners with a disposeOwner() in progress
    owned,     \* the jobs it took from the store when it began
    pending,   \* those of them whose producer it awaits
    disposed,  \* "no", "closing" (dispose() awaits), "closed"
    closing    \* the jobs dispose() awaits

vars == <<store, owner, status, told, producer, cancelled, unheeded,
          waits, on, clocks, leaving, owned, pending, disposed, closing>>

Outcome  == {"completed", "killed", "failed"}
Terminal == Outcome
Live     == {"running", "stopping"}

TypeOK ==
    /\ store \subseteq Job
    /\ owner \in [Job -> Owner]
    /\ status \in [Job -> {"none"} \cup Live \cup Outcome]
    /\ told \in [Job -> 0 .. 1]
    /\ producer \in [Job -> {"none", "alive", "done", "heard"}]
    /\ cancelled \in [Job -> BOOLEAN]
    /\ unheeded \subseteq Job
    /\ waits \in [Waiter -> {"idle", "waiting", "resolved", "rejected"}]
    /\ on \in [Waiter -> Job] /\ clocks \subseteq Waiter
    /\ leaving \subseteq Owner
    /\ owned \in [Owner -> SUBSET Job] /\ pending \in [Owner -> SUBSET Job]
    /\ disposed \in {"no", "closing", "closed"} /\ closing \subseteq Job

Init ==
    /\ store = {} /\ unheeded = {} /\ leaving = {}
    /\ owner \in [Job -> {Anyone}]
    /\ status = [j \in Job |-> "none"]
    /\ told = [j \in Job |-> 0]
    /\ producer = [j \in Job |-> "none"]
    /\ cancelled = [j \in Job |-> FALSE]
    /\ waits = [w \in Waiter |-> "idle"]
    /\ on \in [Waiter -> Job] /\ clocks = {}
    /\ owned = [o \in Owner |-> {}] /\ pending = [o \in Owner |-> {}]
    /\ disposed = "no" /\ closing = {}

---------------------------------------------------------------------------
(* Mutant: jobs being stopped do not count *)
ActiveOf_NotStopping(o) == {j \in store : owner[j] = o /\ status[j] = "running"}

(* activeCount() *)
ActiveOf(o) == {j \in store : owner[j] = o /\ status[j] \in Live}

(* expect(): the job exists and the caller may see it *)
Reaches(caller, j) == j \in store /\ owner[j] \in {Anyone, caller}

(* Mutant: the cap is checked with <= *)
Start_OffByOne(j, o) ==
    /\ disposed = "no" /\ status[j] = "none"
    /\ Cardinality(ActiveOf(o)) <= MaxPerOwner
    /\ store' = store \cup {j}
    /\ owner' = [owner EXCEPT ![j] = o]
    /\ status' = [status EXCEPT ![j] = "running"]
    /\ producer' = [producer EXCEPT ![j] = "alive"]
    /\ UNCHANGED <<told, cancelled, unheeded, waits, on, clocks, leaving, owned, pending,
                   disposed, closing>>

Start(j, o) ==
    /\ disposed = "no" /\ status[j] = "none"
    /\ Cardinality(ActiveOf(o)) < MaxPerOwner
    /\ store' = store \cup {j}
    /\ owner' = [owner EXCEPT ![j] = o]
    /\ status' = [status EXCEPT ![j] = "running"]
    /\ producer' = [producer EXCEPT ![j] = "alive"]
    /\ UNCHANGED <<told, cancelled, unheeded, waits, on, clocks, leaving, owned, pending,
                   disposed, closing>>

Kill(j, caller) ==
    /\ disposed = "no" /\ Reaches(caller, j) /\ status[j] \notin Terminal
    /\ cancelled' = [cancelled EXCEPT ![j] = TRUE]
    /\ unheeded' = unheeded \ {j}
    /\ status' = [status EXCEPT ![j] = "stopping"]
    /\ UNCHANGED <<store, owner, told, producer, waits, on, clocks, leaving, owned, pending,
                   disposed, closing>>

Waiting(jobs) == {w \in Waiter : waits[w] = "waiting" /\ on[w] \in jobs}

(* settle(): the first outcome counts; waiters and listeners hear of it *)
Settled(E, out) ==
    LET ends == {j \in E : status[j] \notin Terminal}
    IN  /\ status' = [j \in Job |-> IF j \in ends THEN out ELSE status[j]]
        /\ told'   = [j \in Job |-> IF j \in ends THEN told[j] + 1 ELSE told[j]]
        /\ waits'  = [w \in Waiter |->
                        IF waits[w] = "waiting" /\ on[w] \in ends THEN "resolved" ELSE waits[w]]
        /\ clocks' = clocks \ Waiting(ends)

(* hooks.done resolves *)
ProducerEnds(j) ==
    /\ producer[j] = "alive"
    /\ producer' = [producer EXCEPT ![j] = "done"]
    /\ UNCHANGED <<store, owner, status, told, cancelled, unheeded, waits, on, clocks, leaving,
                   owned, pending, disposed, closing>>

(* the callback on hooks.done; a rejection counts as "failed" *)
DoneHeard(j, out) ==
    /\ producer[j] = "done"
    /\ IF cancelled[j] THEN out = "killed" ELSE out # "killed"
    /\ producer' = [producer EXCEPT ![j] = "heard"]
    /\ Settled({j}, out)
    /\ UNCHANGED <<store, owner, cancelled, unheeded, on, leaving, owned, pending, disposed, closing>>

---------------------------------------------------------------------------
(* a finished job is answered at once; a signal that was aborted before is *)
(* heard before the timer is armed                                         *)
Wait(w, j, caller) ==
    /\ disposed = "no" /\ waits[w] = "idle" /\ Reaches(caller, j)
    /\ on' = [on EXCEPT ![w] = j]
    /\ \/ /\ status[j] \in Terminal
          /\ waits' = [waits EXCEPT ![w] = "resolved"] /\ UNCHANGED clocks
       \/ /\ status[j] \notin Terminal
          /\ waits' = [waits EXCEPT ![w] = "rejected"] /\ UNCHANGED clocks
       \/ /\ status[j] \notin Terminal
          /\ waits' = [waits EXCEPT ![w] = "waiting"] /\ clocks' = clocks \cup {w}
    /\ UNCHANGED <<store, owner, status, told, producer, cancelled, unheeded, leaving, owned,
                   pending, disposed, closing>>

(* the caller's abort signal: the timer stays armed *)
WaitAborted(w) ==
    /\ waits[w] = "waiting"
    /\ waits' = [waits EXCEPT ![w] = "rejected"]
    /\ UNCHANGED <<store, owner, status, told, producer, cancelled, unheeded, on, clocks, leaving,
                   owned, pending, disposed, closing>>

(* the timer, of a wait that may have been aborted since *)
WaitTimesOut(w) ==
    /\ w \in clocks /\ clocks' = clocks \ {w}
    /\ waits' = [waits EXCEPT ![w] = IF @ = "waiting" THEN "rejected" ELSE @]
    /\ UNCHANGED <<store, owner, status, told, producer, cancelled, unheeded, on, leaving,
                   owned, pending, disposed, closing>>

---------------------------------------------------------------------------
(* jobs whose cancel throws: one that was heeded before is a no-op *)
Throwing(T, live) ==
    /\ T \subseteq live /\ \A j \in T : ~cancelled[j]
    /\ CancelThrows \/ T = {}

(* disposeOwner(): a job whose cancel throws is settled as failed and not  *)
(* awaited; the others are awaited through hooks.done.                     *)
DisposeOwner(o, T) ==
    LET mine == {j \in store : owner[j] = o}
        live == {j \in mine : status[j] \in Live}
    IN  /\ o # Anyone /\ o \notin leaving
        /\ Throwing(T, live)
        /\ cancelled' = [j \in Job |-> cancelled[j] \/ j \in live \ T]
        /\ unheeded' = (unheeded \ live) \cup T
        /\ status' = [j \in Job |-> IF j \in T THEN "failed"
                                    ELSE IF j \in live THEN "stopping" ELSE status[j]]
        /\ told' = [j \in Job |-> IF j \in T THEN told[j] + 1 ELSE told[j]]
        /\ waits' = [w \in Waiter |->
                       IF waits[w] = "waiting" /\ on[w] \in T THEN "resolved" ELSE waits[w]]
        /\ clocks' = clocks \ Waiting(T)
        /\ leaving' = leaving \cup {o}
        /\ owned' = [owned EXCEPT ![o] = mine]
        /\ pending' = [pending EXCEPT ![o] = live \ T]
        /\ UNCHANGED <<store, owner, producer, on, disposed, closing>>

DisposeOwnerEnds(o) ==
    /\ o \in leaving /\ \A j \in pending[o] : producer[j] = "heard"
    /\ store' = store \ owned[o]
    /\ leaving' = leaving \ {o}
    /\ owned' = [owned EXCEPT ![o] = {}] /\ pending' = [pending EXCEPT ![o] = {}]
    /\ UNCHANGED <<owner, status, told, producer, cancelled, unheeded, waits, on, clocks, disposed,
                   closing>>

Dispose(T) ==
    LET live == {j \in store : status[j] \in Live}
    IN  /\ disposed = "no"
        /\ Throwing(T, live)
        /\ disposed' = "closing" /\ closing' = store
        /\ cancelled' = [j \in Job |-> cancelled[j] \/ j \in live \ T]
        /\ unheeded' = (unheeded \ live) \cup T
        /\ UNCHANGED <<store, owner, status, told, producer, waits, on, clocks, leaving, owned, pending>>

DisposeEnds ==
    /\ disposed = "closing" /\ \A j \in closing : producer[j] = "heard"
    /\ disposed' = "closed"
    /\ store' = {} /\ closing' = {}
    /\ UNCHANGED <<owner, status, told, producer, cancelled, unheeded, waits, on, clocks, leaving,
                   owned, pending>>

---------------------------------------------------------------------------
Next ==
    \/ \E j \in Job, o \in Owner : Start(j, o) \/ Kill(j, o)
    \/ \E j \in Job : ProducerEnds(j) \/ \E out \in Outcome : DoneHeard(j, out)
    \/ \E w \in Waiter : \E j \in Job, o \in Owner : Wait(w, j, o)
    \/ \E w \in Waiter : WaitAborted(w) \/ WaitTimesOut(w)
    \/ \E o \in Owner, T \in SUBSET Job : DisposeOwner(o, T)
    \/ \E o \in Owner : DisposeOwnerEnds(o)
    \/ \E T \in SUBSET Job : Dispose(T)
    \/ DisposeEnds

Spec == Init /\ [][Next]_vars

(* A producer that heard its cancel ends: the reaper escalates to SIGKILL  *)
(* and a sub-agent settles at once.  Callbacks and timers run.             *)
JobsDue ==
    \/ \E j \in Job : cancelled[j] /\ j \notin unheeded /\ ProducerEnds(j)
    \/ \E j \in Job, out \in Outcome : DoneHeard(j, out)
    \/ DisposeEnds

---------------------------------------------------------------------------
(* A session never has more jobs than its cap, "stopping" ones included.   *)
CapHolds ==
    \A o \in Owner :
        Cardinality({j \in Job : status[j] \in Live /\ owner[j] = o}) <= MaxPerOwner

(* The done listeners hear of a job exactly once, when it ends; nobody     *)
(* waits for a job that has ended, nobody waits without a timer, and only  *)
(* an aborted wait leaves its timer behind; a live job's producer has not  *)
(* been heard of, and an ended job's is gone unless its cancel threw.      *)
JobInv ==
    /\ \A j \in Job : told[j] = IF status[j] \in Terminal THEN 1 ELSE 0
    /\ \A w \in Waiter : waits[w] = "waiting" => status[on[w]] \in Live /\ w \in clocks
    /\ \A w \in clocks : waits[w] \in {"waiting", "rejected"}
    /\ \A j \in Job : status[j] \in Live => producer[j] \in {"alive", "done"}
    /\ \A j \in Job : status[j] \in Terminal => producer[j] = "heard" \/ j \in unheeded

(* A job stays in the store while it lives: disposeOwner forgets none that *)
(* is still running, and dispose() empties the store only when all ended.  *)
LiveJobsAreStored == \A j \in Job : status[j] \in Live => j \in store

(* The strengthening that is inductive: what a disposal will forget has    *)
(* ended or is awaited, and nothing is left outside a closing registry.    *)
Unstarted == \A j \in Job : status[j] = "none" =>
                producer[j] = "none" /\ j \notin store /\ ~cancelled[j]
Leaving ==
    \A o \in Owner : \A j \in owned[o] :
        /\ j \in pending[o] \/ status[j] \in Terminal
        /\ status[j] # "none"
Closing ==
    /\ disposed = "no" => closing = {}
    /\ disposed = "closing" => store \subseteq closing
    /\ disposed = "closed" => store = {}

RegistryInv ==
    /\ TypeOK /\ CapHolds /\ JobInv /\ LiveJobsAreStored
    /\ Unstarted /\ Leaving /\ Closing

(* A job's outcome never changes. *)
OutcomeIsFinal ==
    [][\A j \in Job : status[j] \in Terminal => status'[j] = status[j]]_vars

(* A cancelled job ends, and gives its place in the cap back, again and    *)
(* again, unless its cancel threw; and a disposal that no throwing cancel  *)
(* escaped completes.                                                      *)
CancelledEnds ==
    []<>(\A j \in Job : cancelled[j] /\ j \notin unheeded => status[j] \in Terminal)
DisposalEnds  ==
    /\ \A o \in Owner : o \in leaving ~> o \notin leaving
    /\ disposed = "closing" /\ unheeded = {} ~> disposed = "closed"

(* The registry implements the job board. *)
Board == INSTANCE JobBoard WITH
    state   <- [j \in Job |-> IF status[j] \in Live THEN "active" ELSE status[j]],
    ownedBy <- owner,
    reports <- told
ImplementsBoard == Board!Spec

---------------------------------------------------------------------------
(* What types.ts:104 says of disposeOwner: it cancels every job of the     *)
(* owner and awaits them.  One started meanwhile is neither.               *)
DisposeOwnerLeavesNone ==
    [][\A o \in leaving : o \notin leaving' =>
          \A j \in Job : owner[j] = o => status[j] \notin Live]_vars

=============================================================================
