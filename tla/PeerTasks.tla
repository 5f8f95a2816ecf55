----------------------------- MODULE PeerTasks -----------------------------
(***************************************************************************)
(* One continuable task on a standalone peer: the handle that              *)
(* PeerMeshSubmitter.submitContinuable() returns (submitter.ts), the       *)
(* requests of PeerClient over a JSON-RPC connection, and the task with    *)
(* its inbox and pump in the peer (continuable-peer-tasks.ts).             *)
(*                                                                         *)
(* The connection keeps the order of what it carries and may break; a      *)
(* request may time out although the peer handles it later.  A call is     *)
(* named by what it asks for, and made at most once.                       *)
(***************************************************************************)
EXTENDS Integers, Sequences, FiniteSets

CONSTANTS
    SendCall,   \* calls of handle.send(), each with its own message
    WaitCall,   \* calls of handle.waitSettle()
    ControlCall \* among "interrupt", "close" and "parent", the abort of parentSignal

ASSUME PeerAssumption ==
    /\ SendCall \cap WaitCall = {} /\ ControlCall \subseteq {"interrupt", "close", "parent"}
    /\ {"start", "interrupt", "close", "parent"} \cap (SendCall \cup WaitCall) = {}
    /\ IsFiniteSet(WaitCall)

PeerCall == SendCall \cup WaitCall \cup ControlCall \cup {"start"}

VARIABLES
    link,          \* the connection is up
    requests,      \* calls on their way to the peer
    replies,       \* answers on their way back, [call, says]
    calls,         \* what became of each call
    controls,      \* controlQueue: control calls not yet answered, and the calls
                   \* that await the queue, in order
    closedLocally, \* a control was asked for
    handle,        \* settledResult: "none", or its status
    task,          \* the peer's task
    queue,         \* the inbox: messages not yet executed, the objective first
    at,            \* its pump: "idle", "run" or "verify"
    last,          \* the last answer of the adapter: "none", "pass" or "fail"
    asked,         \* settleWaiters
    ran,           \* ghost: messages whose execution began
    taken          \* ghost: sends the peer accepted

clientVars == <<calls, controls, closedLocally, handle>>
peerVars   == <<task, queue, at, last, asked, ran, taken>>
peerTaskVars == <<link, requests, replies, clientVars, peerVars>>

(* "is" is the presence of the task in the peer's map; a settled one goes  *)
(* when its retention ends.                                                *)
PeerInit ==
    /\ link = TRUE /\ requests = <<"start">> /\ replies = <<>>
    /\ calls = [c \in PeerCall |-> IF c = "start" THEN "sent" ELSE "idle"]
    /\ controls = <<>> /\ closedLocally = FALSE /\ handle = "none"
    /\ \E auto \in BOOLEAN :
          task = [is |-> "new", auto |-> auto, closed |-> FALSE, aborted |-> FALSE, status |-> "running"]
    /\ queue = <<>> /\ at = "idle" /\ last = "none" /\ asked = {}
    /\ ran = {} /\ taken = {}

TaskSettled == task.status # "running"

---------------------------------------------------------------------------
(* The caller's side. *)

(* request(): rejected at once on a closed connection *)
Request(c) ==
    /\ requests' = IF link THEN Append(requests, c) ELSE requests
    /\ calls' = [calls EXCEPT ![c] = IF link THEN "sent" ELSE "failed"]

StartEnded == calls["start"] \in {"ok", "failed"}

(* a call after the handle has settled ends at once, a send with an error *)
OnceSettled(c) == IF c \in SendCall THEN "failed" ELSE "ok"

Invoke(c) ==
    /\ c \in SendCall \cup WaitCall /\ calls[c] = "idle"
    /\ calls' = [calls EXCEPT ![c] = IF handle = "none" THEN "queued" ELSE OnceSettled(c)]
    /\ UNCHANGED <<link, requests, replies, controls, closedLocally, handle, peerVars>>

(* send() and waitSettle() await the start, then the control queue *)
LinesUp(c) ==
    /\ c \in SendCall \cup WaitCall /\ calls[c] = "queued" /\ StartEnded
    /\ \A k \in DOMAIN controls : controls[k] # c
    /\ controls' = Append(controls, c)
    /\ UNCHANGED <<link, requests, replies, calls, closedLocally, handle, peerVars>>

Enqueue(c) ==
    /\ c \in ControlCall /\ calls[c] = "idle"
    /\ handle = "none" \/ c = "parent"
    /\ c = "close" => ~closedLocally
    /\ closedLocally' = (closedLocally \/ c # "parent")
    /\ controls' = Append(controls, c) /\ calls' = [calls EXCEPT ![c] = "queued"]
    /\ UNCHANGED <<link, requests, replies, handle, peerVars>>

(* The head of the queue goes on, looking again whether the handle has     *)
(* settled; a control stays at the head until it is answered.              *)
RunControl ==
    /\ controls # <<>> /\ StartEnded /\ calls[Head(controls)] = "queued"
    /\ LET c == Head(controls) IN
       /\ IF handle = "none" THEN Request(c)
          ELSE calls' = [calls EXCEPT ![c] = OnceSettled(c)] /\ UNCHANGED requests
       /\ controls' = IF c \in ControlCall /\ handle = "none" /\ link THEN controls ELSE Tail(controls)
    /\ UNCHANGED <<link, replies, closedLocally, handle, peerVars>>

(* signedResultToSubagentResult(): the verdict of the last answer decides; *)
(* without an answer the task failed.                                      *)
StatusOf(answer) == IF answer = "pass" THEN "completed" ELSE "failed"

(* the promise of call c ends: a start that failed settles the handle, an  *)
(* answer to waitSettle() does, and a control leaves the queue.            *)
Ends(c, how, answer) ==
    /\ calls' = [calls EXCEPT ![c] = IF c \in WaitCall /\ handle # "none" THEN "ok" ELSE how]
    /\ handle' = IF handle # "none" THEN handle
                 ELSE IF c = "start" /\ how = "failed" THEN "failed"
                 ELSE IF c \in WaitCall /\ how = "ok" THEN StatusOf(answer) ELSE "none"
    /\ controls' = IF c \in ControlCall THEN Tail(controls) ELSE controls
    /\ UNCHANGED closedLocally

Receive ==
    /\ replies # <<>> /\ replies' = Tail(replies)
    /\ LET r == Head(replies)
       IN  Ends(r.call, IF r.says = "error" THEN "failed" ELSE "ok", r.says)
    /\ UNCHANGED <<link, requests, peerVars>>

(* the timer of a request; its answer, if one is on the way, will be ignored *)
AnswerLost(k) == SubSeq(replies, 1, k - 1) \o SubSeq(replies, k + 1, Len(replies))
TimesOut(c) ==
    /\ calls[c] = "sent" /\ Ends(c, "failed", "none")
    /\ LET late == {k \in DOMAIN replies : replies[k].call = c}
       IN  IF late = {} THEN UNCHANGED replies ELSE \E k \in late : replies' = AnswerLost(k)
    /\ UNCHANGED <<link, requests, peerVars>>

(* the connection ends: nothing more arrives, and close() rejects what is  *)
(* pending, in the order of the requests; here one at a time, as timeouts. *)
Breaks ==
    /\ link /\ link' = FALSE /\ requests' = <<>> /\ replies' = <<>>
    /\ UNCHANGED <<clientVars, peerVars>>

---------------------------------------------------------------------------
(* The peer's side: requests are handled in the order they arrive. *)

(* an answer the caller will look at: the call is pending, the connection up *)
Awaited(c) == link /\ calls[c] = "sent"
Reply(c, says) ==
    replies' = IF Awaited(c) THEN Append(replies, [call |-> c, says |-> says]) ELSE replies

HandleStart(c) ==
    /\ c = "start" /\ task' = [task EXCEPT !.is = "live"] /\ queue' = <<"objective">>
    /\ Reply(c, "ok")
    /\ UNCHANGED <<at, last, asked, ran, taken>>

HandleSend(c) ==
    /\ c \in SendCall
    /\ IF task.is = "live" /\ ~TaskSettled
       THEN queue' = Append(queue, c) /\ taken' = taken \cup {c} /\ Reply(c, "ok")
       ELSE Reply(c, "error") /\ UNCHANGED <<queue, taken>>
    /\ UNCHANGED <<task, at, last, asked, ran>>

HandleControl(c) ==
    /\ c \in ControlCall
    /\ IF task.is = "live" /\ ~TaskSettled
       THEN /\ task' = [task EXCEPT !.closed = TRUE, !.aborted = @ \/ c # "close"]
            /\ queue' = IF c = "close" THEN queue ELSE <<>>
       ELSE UNCHANGED <<task, queue>>
    /\ Reply(c, IF task.is = "live" THEN "ok" ELSE "error")
    /\ UNCHANGED <<at, last, asked, ran, taken>>

HandleWait(c) ==
    /\ c \in WaitCall
    /\ IF task.is = "live" /\ ~TaskSettled
       THEN asked' = asked \cup {c} /\ UNCHANGED replies
       ELSE Reply(c, IF task.is = "live" THEN last ELSE "error") /\ UNCHANGED asked
    /\ UNCHANGED <<task, queue, at, last, ran, taken>>

Handle ==
    /\ link /\ requests # <<>> /\ requests' = Tail(requests)
    /\ LET c == Head(requests) IN HandleStart(c) \/ HandleSend(c) \/ HandleControl(c) \/ HandleWait(c)
    /\ UNCHANGED <<link, clientVars>>

(* the peer's own timer of a waitSettle request *)
WaitExpires(c) ==
    /\ c \in asked /\ asked' = asked \ {c}
    /\ Reply(c, "error")
    /\ UNCHANGED <<link, requests, clientVars, task, queue, at, last, ran, taken>>

(* settle(): all that wait get the last answer, in some order *)
SettleTask(status) ==
    /\ task' = [task EXCEPT !.status = status] /\ at' = "idle" /\ asked' = {}
    /\ LET told == {c \in asked : Awaited(c)}
       IN  \E order \in [1 .. Cardinality(told) -> told] :
             /\ \A c \in told : \E k \in DOMAIN order : order[k] = c
             /\ replies' = replies \o [k \in DOMAIN order |-> [call |-> order[k], says |-> last]]
    /\ UNCHANGED <<link, requests, clientVars, queue, last, ran, taken>>

Pumping == task.is = "live" /\ ~TaskSettled /\ at = "idle"

(* the next message is executed, unless the task was interrupted *)
Execute ==
    /\ Pumping /\ queue # <<>> /\ ~task.aborted
    /\ queue' = Tail(queue) /\ ran' = ran \cup {Head(queue)} /\ at' = "run"
    /\ UNCHANGED <<link, requests, replies, clientVars, task, last, asked, taken>>

(* Mutant: a closed task settles although messages wait *)
PumpSettles_LooksNotAtInbox ==
    /\ Pumping
    /\ IF task.aborted THEN SettleTask("failed")
       ELSE /\ (task.closed \/ (queue = <<>> /\ task.auto))
            /\ SettleTask(IF last = "none" THEN "failed" ELSE "completed")

PumpSettles ==
    /\ Pumping
    /\ IF task.aborted THEN SettleTask("failed")
       ELSE /\ queue = <<>> /\ (task.closed \/ task.auto)
            /\ SettleTask(IF last = "none" THEN "failed" ELSE "completed")

(* adapter.execute() throws, or returns to an interrupted task ... *)
ExecuteFails == at = "run" /\ SettleTask("failed")

(* ... or its answer is to be verified, *)
Executed ==
    /\ at = "run" /\ ~task.aborted /\ at' = "verify"
    /\ UNCHANGED <<link, requests, replies, clientVars, task, queue, last, asked, ran, taken>>

(* which an interrupt does not stop. *)
Verified(verdict) ==
    /\ at = "verify" /\ at' = "idle" /\ last' = verdict
    /\ UNCHANGED <<link, requests, replies, clientVars, task, queue, asked, ran, taken>>

Forget ==
    /\ task.is = "live" /\ TaskSettled /\ task' = [task EXCEPT !.is = "gone"]
    /\ UNCHANGED <<link, requests, replies, clientVars, queue, at, last, asked, ran, taken>>

---------------------------------------------------------------------------
PumpSteps ==
    \/ Execute \/ PumpSettles \/ ExecuteFails \/ Executed
    \/ \E v \in {"pass", "fail"} : Verified(v)

PeerNext ==
    \/ \E c \in PeerCall : Invoke(c) \/ LinesUp(c) \/ Enqueue(c) \/ TimesOut(c) \/ WaitExpires(c)
    \/ RunControl \/ Receive \/ Breaks \/ Handle \/ PumpSteps \/ Forget

PeerSpec == PeerInit /\ [][PeerNext]_peerTaskVars

(* A request is answered or its timer fires, the caller's continuations    *)
(* and the pump run, and the adapter ends.                                 *)
PeerDue == RunControl \/ PumpSteps \/ \E c \in PeerCall : LinesUp(c) \/ TimesOut(c)

---------------------------------------------------------------------------
(* A completion is real at both ends.  A task that completed has executed  *)
(* every message the peer accepted, however sends, closes and the idle     *)
(* check of the pump interleave; and a handle completes only over an       *)
(* answer of a task that ended with a verified one: no timeout, broken     *)
(* link or forgotten task completes it.                                    *)
CompletedIsReal ==
    /\ task.status = "completed" => taken \subseteq ran
    /\ handle = "completed" => TaskSettled /\ last = "pass"

(* waitSettle() returns: the answer, an error or a settled handle. *)
WaitsReturn == \A w \in WaitCall : calls[w] = "queued" ~> calls[w] \in {"ok", "failed"}

=============================================================================
