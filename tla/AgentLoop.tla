----------------------------- MODULE AgentLoop -----------------------------
(***************************************************************************)
(* A session's agent: the loop of agent/run-loop.ts, the path of one tool  *)
(* call through agent/tool-executor.ts (agent/mcp-call.ts for unregistered *)
(* MCP tools), the durability barrier of agent/durability.ts, and the      *)
(* repair of a reopened transcript in session/repair.ts.                   *)
(*                                                                         *)
(* The transcript is kept in memory; its first `disk` entries are known to *)
(* be durable, which is what DurableWriter establishes of a flush alone.   *)
(* Flushes of one batch may overlap; nobody else flushes during a turn     *)
(* (the REPL and the one-shot run close the session after their turns).    *)
(* The process may crash at any await; the session is then reopened from   *)
(* disk.                                                                   *)
(***************************************************************************)
EXTENDS Integers, Sequences, FiniteSets, SequencesExt

CONSTANTS
    CallId,        \* ids the provider gives tool calls, used again and again
    Registered,    \* may the model call a registered tool?
    McpRouted,     \* ... or an MCP tool the registry does not hold?
    MaxIterations, \* maxIterations, of one phase
    MaxPhases,     \* maxContinuationPhases
    MaxCalls,      \* bound: tool calls in one response
    MaxPrompts,    \* bound: prompts
    MaxReplies,    \* bound: responses with tool calls
    MaxMishaps     \* bound: notices of background sub-agents, failed flushes
                    \* and crashes, together

ASSUME AgentAssumption ==
    /\ IsFiniteSet(CallId)
    /\ Registered \in BOOLEAN /\ McpRouted \in BOOLEAN
    /\ MaxIterations \in Nat \ {0} /\ MaxPhases \in Nat /\ MaxCalls \in Nat \ {0}
    /\ {MaxPrompts, MaxReplies, MaxMishaps} \subseteq Nat

VARIABLES
    memory,  \* the transcript
    disk,    \* how many of its entries a flush has made durable
    pc,      \* where the run loop is
    round,   \* phaseIterations
    phase,   \* continuationsUsed
    aborted, \* the agent's abort signal, never renewed
    hinted,  \* emptyResponseHinted
    batch,   \* the calls of the last response: state and outcome of each
    fanOut,  \* the batch runs in parallel
    queued,  \* pendingSettlementNotices
    context, \* the prompt's own context is still to be sent
    sent,    \* ghost: what the last model request was given
    replies, \* ghost: count of the responses with tool calls
    ran,     \* ghost: calls <<reply, index>> whose body was started
    masked,  \* calls of the batch whose flush failed and will not tell them
    blind,   \* ghost: calls in ran that such a flush let through, unrecorded yet
    prompts, \* count of prompts
    mishaps  \* count of notices, failed flushes and crashes

vars == <<memory, disk, pc, round, phase, aborted, hinted, batch, fanOut,
          queued, context, sent, replies, ran, blind, masked, prompts, mishaps>>

User     == [is |-> "user"]     \* prompts, hints and notices
Said     == [is |-> "said"]     \* an assistant message without tool calls
Calls(n, ids) == [is |-> "calls", n |-> n, ids |-> ids]
Answer(id, how) == [is |-> "answer", id |-> id, how |-> how]
Context  == [is |-> "context"]  \* git status and the like: sent, never recorded

How   == {"ran", "refused", "unknown"}
Stage == {"queued", "gate", "asking", "barrier", "body", "done"}
Ids   == {s \in SeqOf(CallId, MaxCalls) : s # <<>> /\ IsInjective(s)}

Notices(k) == [i \in 1 .. k |-> User]

TypeOK ==
    /\ \A k \in DOMAIN memory :
          \/ memory[k] \in {User, Said}
          \/ memory[k].is = "calls" /\ memory[k].n \in 1 .. replies /\ memory[k].ids \in Ids
          \/ memory[k].is = "answer" /\ memory[k].id \in CallId /\ memory[k].how \in How
    /\ disk \in 0 .. Len(memory)
    /\ pc \in {"idle", "loop", "barrier", "model", "batch", "down"}
    /\ round \in 0 .. MaxIterations /\ phase \in 0 .. MaxPhases
    /\ {aborted, hinted, fanOut, context} \subseteq BOOLEAN
    /\ \A i \in DOMAIN batch : batch[i].stage \in Stage /\ batch[i].how \in How
    /\ queued \in 0 .. MaxMishaps
    /\ Len(sent) <= Len(memory) + 1 /\ replies \in 0 .. MaxReplies
    /\ blind \subseteq ran /\ ran \subseteq (1 .. replies) \X (1 .. MaxCalls)
    /\ masked \subseteq DOMAIN batch
    /\ prompts \in 0 .. MaxPrompts /\ mishaps \in 0 .. MaxMishaps

Init ==
    /\ memory = <<>> /\ disk = 0 /\ pc = "idle"
    /\ round = 0 /\ phase = 0 /\ aborted = FALSE /\ hinted = FALSE
    /\ batch = <<>> /\ fanOut = FALSE /\ queued = 0
    /\ context = FALSE /\ sent = <<>> /\ replies = 0 /\ ran = {} /\ blind = {} /\ masked = {}
    /\ prompts = 0 /\ mishaps = 0

Mishap == mishaps < MaxMishaps /\ mishaps' = mishaps + 1 /\ UNCHANGED prompts
used == <<prompts, mishaps>>

(* run() returns: its locals are gone *)
Return == pc' = "idle" /\ round' = 0 /\ phase' = 0 /\ hinted' = FALSE /\ context' = FALSE

(* transcript m has call c *)
OnRecord(m, c) ==
    \E k \in DOMAIN m : m[k].is = "calls" /\ m[k].n = c[1] /\ c[2] \in DOMAIN m[k].ids

(* a flush succeeds *)
Flushed == disk' = Len(memory') /\ blind' = {c \in blind : ~OnRecord(memory', c)}

---------------------------------------------------------------------------
(* run(): the queued notices, then the prompt.  A hook or the input guard  *)
(* may veto the prompt, with an assistant note instead.  There may be      *)
(* context that only the first request of the prompt is given.             *)
Run ==
    /\ pc = "idle" /\ prompts < MaxPrompts /\ prompts' = prompts + 1 /\ UNCHANGED mishaps
    /\ \/ memory' = memory \o Notices(queued) \o <<User>> /\ pc' = "loop" /\ context' \in BOOLEAN
       \/ memory' = memory \o Notices(queued) \o <<Said>> /\ UNCHANGED <<pc, context>>
    /\ queued' = 0
    /\ UNCHANGED <<disk, round, phase, aborted, hinted, batch, fanOut, sent, replies, ran,
                   blind, masked>>

(* a new iteration: the wrap-up hint near the budget, the notices, and the *)
(* barrier                                                                 *)
NextRound ==
    /\ pc = "loop" /\ round < MaxIterations /\ ~aborted
    /\ round' = round + 1
    /\ LET near == IF round' = MaxIterations - 1 \/ MaxIterations = 1 THEN <<User>> ELSE <<>>
       IN  memory' = memory \o near \o Notices(queued)
    /\ queued' = 0 /\ pc' = "barrier"
    /\ UNCHANGED <<disk, phase, aborted, hinted, batch, fanOut, context, sent, replies, ran,
                   blind, masked,
                   used>>

LoopEnds ==
    /\ pc = "loop"
    /\ UNCHANGED <<disk, aborted, batch, fanOut, queued, sent, replies, ran, blind, masked, used>>
    /\ \/ /\ round < MaxIterations /\ aborted
          /\ Return /\ UNCHANGED memory
       \/ /\ round = MaxIterations /\ phase < MaxPhases
          /\ memory' = Append(memory, User)
          /\ phase' = phase + 1 /\ round' = 0 /\ UNCHANGED <<pc, hinted, context>>
       \/ /\ round = MaxIterations /\ phase = MaxPhases
          /\ Return /\ UNCHANGED memory

(* Mutant: the request does not wait for the disk *)
Request_NoBarrier ==
    /\ pc = "barrier"
    /\ UNCHANGED <<memory, disk, blind>>
    /\ sent' = (IF context THEN Append(memory, Context) ELSE memory) /\ context' = FALSE
    /\ pc' = "model"
    /\ UNCHANGED <<round, phase, aborted, hinted, batch, fanOut, queued, replies, ran, masked,
                   used>>

(* ensureDurable() before the request; the context goes behind the record *)
Request ==
    /\ pc = "barrier"
    /\ UNCHANGED memory /\ Flushed
    /\ sent' = (IF context THEN Append(memory, Context) ELSE memory) /\ context' = FALSE
    /\ pc' = "model"
    /\ UNCHANGED <<round, phase, aborted, hinted, batch, fanOut, queued, replies, ran, masked,
                   used>>

RequestRefused ==
    /\ pc = "barrier" /\ Mishap
    /\ memory' = Append(memory, Said) /\ Return
    /\ UNCHANGED <<disk, aborted, batch, fanOut, queued, sent, replies, ran, blind, masked>>

---------------------------------------------------------------------------
(* the request fails, after its retries or by the abort signal *)
ModelFails ==
    /\ pc = "model" /\ Return
    /\ memory' = IF aborted THEN memory ELSE Append(memory, Said)
    /\ UNCHANGED <<disk, aborted, batch, fanOut, queued, sent, replies, ran, blind, masked, used>>

(* an empty response is answered with a hint, once; one with no visible    *)
(* text too, and a second one ends the turn with a fallback text           *)
EmptyReply ==
    /\ pc = "model"
    /\ \/ /\ ~hinted /\ hinted' = TRUE /\ pc' = "loop"
          /\ UNCHANGED <<round, phase, context>>
          /\ \/ memory' = Append(memory, User)
             \/ ~aborted /\ memory' = memory \o <<Said, User>>
       \/ /\ ~aborted /\ hinted /\ Return
          /\ memory' = memory \o <<Said, Said>>
    /\ UNCHANGED <<disk, aborted, batch, fanOut, queued, sent, replies, ran, blind, masked, used>>

(* a final answer, or a response dropped because the turn was aborted *)
FinalReply ==
    /\ pc = "model" /\ Return
    /\ memory' = IF aborted THEN memory ELSE Append(memory, Said)
    /\ UNCHANGED <<disk, aborted, batch, fanOut, queued, sent, replies, ran, blind, masked, used>>

(* the response, tool calls or not, took the session over its cost cap *)
CostCapReached ==
    /\ pc = "model" /\ ~aborted
    /\ aborted' = TRUE /\ memory' = Append(memory, Said) /\ Return
    /\ UNCHANGED <<disk, batch, fanOut, queued, sent, replies, ran, blind, masked, used>>

ToolReply(ids, parallel) ==
    /\ pc = "model" /\ ~aborted /\ replies < MaxReplies
    /\ replies' = replies + 1
    /\ memory' = Append(memory, Calls(replies', ids))
    /\ batch' = [i \in DOMAIN ids |-> [stage |-> "queued", how |-> "refused"]]
    /\ fanOut' = parallel /\ pc' = "batch"
    /\ UNCHANGED <<disk, round, phase, aborted, hinted, queued, context, sent, ran, blind,
                   masked, used>>

---------------------------------------------------------------------------
LastIds == memory[CHOOSE k \in DOMAIN memory :
              memory[k].is = "calls" /\ memory[k].n = replies].ids

(* commit of a result: at once in a serial batch, into the slot of the     *)
(* call in a parallel one                                                  *)
Settle(i, how) ==
    /\ batch' = [batch EXCEPT ![i] = [stage |-> "done", how |-> how]]
    /\ memory' = IF fanOut THEN memory ELSE Append(memory, Answer(LastIds[i], how))

AtCall(i, stage) == pc = "batch" /\ batch[i].stage = stage

CallKeeps == UNCHANGED <<pc, round, phase, aborted, hinted, fanOut, queued, context, sent,
                         replies>>

StartCall(i) ==
    /\ AtCall(i, "queued") /\ ~aborted
    /\ fanOut \/ \A h \in 1 .. i - 1 : batch[h].stage = "done"
    /\ batch' = [batch EXCEPT ![i].stage = "gate"]
    /\ UNCHANGED <<memory, disk, ran, blind, masked, used>> /\ CallKeeps

(* Mutant: the body runs while the barrier is awaited *)
Dispatch_BodyFirst(i) ==
    /\ UNCHANGED <<memory, disk, blind, masked, used>>
    /\ \/ /\ Registered /\ batch' = [batch EXCEPT ![i].stage = "barrier"] /\ ran' = ran \cup {<<replies, i>>}
       \/ /\ McpRouted /\ batch' = [batch EXCEPT ![i].stage = "body"]
          /\ ran' = ran \cup {<<replies, i>>}

(* A call that got through the gate: a registered tool goes to the barrier,*)
(* an MCP tool the registry does not hold is called at once.               *)
Dispatch(i) ==
    /\ UNCHANGED <<memory, disk, blind, masked, used>>
    /\ \/ /\ Registered /\ batch' = [batch EXCEPT ![i].stage = "barrier"] /\ UNCHANGED ran
       \/ /\ McpRouted /\ batch' = [batch EXCEPT ![i].stage = "body"]
          /\ ran' = ran \cup {<<replies, i>>}

(* mode, unknown tool, PreToolUse: refused, asked about, or let through *)
Gate(i) ==
    /\ AtCall(i, "gate") /\ CallKeeps
    /\ \/ Settle(i, "refused") /\ UNCHANGED <<disk, ran, blind, masked, used>>
       \/ batch' = [batch EXCEPT ![i].stage = "asking"]
          /\ UNCHANGED <<memory, disk, ran, blind, masked, used>>
       \/ Dispatch(i)

(* the host's answer; a turn cancelled meanwhile denies it *)
Asked(i) ==
    /\ AtCall(i, "asking") /\ CallKeeps
    /\ \/ Settle(i, "refused") /\ UNCHANGED <<disk, ran, blind, masked, used>>
       \/ ~aborted /\ Dispatch(i)

(* the arguments are validated, then the barrier is awaited *)
CallRefused(i) ==
    /\ AtCall(i, "barrier") /\ i \notin masked /\ CallKeeps
    /\ Settle(i, "refused") /\ UNCHANGED <<disk, ran, blind, masked, used>>

(* Mutant: the call is not flushed before its body *)
CallBarrier_NoFlush(i) ==
    /\ AtCall(i, "barrier") /\ i \notin masked /\ CallKeeps
    /\ UNCHANGED <<memory, disk, blind, masked, used>>
    /\ batch' = [batch EXCEPT ![i].stage = "body"]
    /\ ran' = ran \cup {<<replies, i>>}

CallBarrier(i) ==
    /\ AtCall(i, "barrier") /\ i \notin masked /\ CallKeeps
    /\ UNCHANGED <<memory, masked, used>> /\ Flushed
    /\ batch' = [batch EXCEPT ![i].stage = "body"]
    /\ ran' = ran \cup {<<replies, i>>}

(* A flush fails.  The first call to see it takes the writer's error and   *)
(* is refused; others of the batch that waited for the same write will not *)
(* find it any more.                                                       *)
FlushFails(i) ==
    /\ AtCall(i, "barrier") /\ CallKeeps /\ Mishap
    /\ Settle(i, "refused") /\ UNCHANGED <<disk, ran, blind>>
    /\ \E waiting \in SUBSET {h \in DOMAIN batch : batch[h].stage = "barrier"} :
          masked' = (masked \cup waiting) \ {i}

(* ... and run, though nothing was written *)
CallBarrierMasked(i) ==
    /\ AtCall(i, "barrier") /\ i \in masked /\ CallKeeps
    /\ batch' = [batch EXCEPT ![i].stage = "body"]
    /\ ran' = ran \cup {<<replies, i>>} /\ blind' = blind \cup {<<replies, i>>}
    /\ masked' = masked \ {i}
    /\ UNCHANGED <<memory, disk, used>>

(* the body, with its timeout and PostToolUse: a result, or an error *)
BodyEnds(i) ==
    /\ AtCall(i, "body") /\ CallKeeps
    /\ Settle(i, "ran")
    /\ UNCHANGED <<disk, ran, blind, masked, used>>

(* Nothing is in flight and nothing will be started: a parallel batch      *)
(* commits its slots in model order, with a note for a call that was never *)
(* started; then the failure-loop hints, and a truncated response returns. *)
EndBatch ==
    /\ pc = "batch"
    /\ \A i \in DOMAIN batch : batch[i].stage = "done" \/ (batch[i].stage = "queued" /\ aborted)
    /\ LET answers == IF fanOut THEN [i \in DOMAIN batch |-> Answer(LastIds[i], batch[i].how)]
                      ELSE <<>>
       IN  \E hints \in {<<>>, <<User>>} : memory' = memory \o answers \o hints
    /\ batch' = <<>> /\ fanOut' = FALSE /\ masked' = {}
    /\ Return \/ (pc' = "loop" /\ UNCHANGED <<round, phase, hinted, context>>)
    /\ UNCHANGED <<disk, aborted, queued, sent, replies, ran, blind, used>>

(* more `task` calls than maxSubagents are all refused *)
RefuseAll ==
    /\ pc = "batch" /\ fanOut /\ \A i \in DOMAIN batch : batch[i].stage = "queued"
    /\ batch' = [i \in DOMAIN batch |-> [stage |-> "done", how |-> "refused"]]
    /\ UNCHANGED <<memory, disk, ran, blind, masked, used>> /\ CallKeeps

---------------------------------------------------------------------------
(* Agent.abort() *)
Abort ==
    /\ pc # "down" /\ ~aborted /\ aborted' = TRUE
    /\ UNCHANGED <<memory, disk, pc, round, phase, hinted, batch, fanOut, queued, context, sent,
                   replies, ran, blind, masked, used>>

(* Mutant: a notice in the middle of a turn goes straight into the transcript *)
Notice_AtOnce ==
    /\ pc # "down" /\ Mishap /\ memory' = Append(memory, User)
    /\ UNCHANGED <<disk, pc, round, phase, aborted, hinted, batch, fanOut, queued, context, sent,
                   replies, ran, blind, masked>>

(* enqueueSettlementNotice() in the middle of a turn, or of an idle agent  *)
(* without a host hook                                                     *)
Notice ==
    /\ pc # "down" /\ Mishap /\ queued' = queued + 1
    /\ UNCHANGED <<memory, disk, pc, round, phase, aborted, hinted, batch, fanOut, context, sent,
                   replies, ran, blind, masked>>

(* the process dies: of what no flush covered, the writer's own batches   *)
(* may have written any part                                               *)
Crash ==
    /\ pc # "down" /\ Mishap
    /\ pc' = "down" /\ disk' \in disk .. Len(memory)
    /\ memory' = SubSeq(memory, 1, disk')
    /\ batch' = <<>> /\ fanOut' = FALSE /\ masked' = {} /\ queued' = 0
    /\ round' = 0 /\ phase' = 0 /\ hinted' = FALSE /\ aborted' = FALSE /\ context' = FALSE
    /\ UNCHANGED <<sent, replies, ran, blind>>

(* Mutant: an id counts as answered when any result has it *)
Dangling_AnyAnswer(m) ==
    {id \in CallId : \E k \in DOMAIN m :
        /\ m[k].is = "calls" /\ id \in Range(m[k].ids)
        /\ \A l \in DOMAIN m : ~(m[l].is = "answer" /\ m[l].id = id)}

(* repairDanglingToolCalls(): forward over the transcript, a call opens    *)
(* its id and a result behind it closes it                                 *)
Dangling(m) ==
    {id \in CallId : \E k \in DOMAIN m :
        /\ m[k].is = "calls" /\ id \in Range(m[k].ids)
        /\ \A l \in k + 1 .. Len(m) : ~(m[l].is = "answer" /\ m[l].id = id)}

Repaired(m) == m \o SetToSeq({Answer(id, "unknown") : id \in Dangling(m)})

(* PersistedSession.open(): the repair is made durable before it returns   *)
Open ==
    /\ pc = "down"
    /\ memory' = Repaired(memory) /\ Flushed
    /\ pc' = "idle"
    /\ UNCHANGED <<round, phase, aborted, hinted, batch, fanOut, queued, context, sent,
                   replies, ran,
                   masked, used>>

---------------------------------------------------------------------------
Reply == ModelFails \/ EmptyReply \/ FinalReply \/ CostCapReached
           \/ \E ids \in Ids, p \in BOOLEAN : ToolReply(ids, p)
Call(i) == \/ StartCall(i) \/ Gate(i) \/ Asked(i) \/ CallRefused(i) \/ CallBarrier(i)
           \/ FlushFails(i) \/ CallBarrierMasked(i) \/ BodyEnds(i)

Next ==
    \/ Run \/ NextRound \/ LoopEnds \/ Request \/ RequestRefused
    \/ ModelFails \/ EmptyReply \/ FinalReply \/ CostCapReached
    \/ \E ids \in Ids, p \in BOOLEAN : ToolReply(ids, p)
    \/ \E i \in DOMAIN batch : StartCall(i) \/ Gate(i)
    \/ \E i \in DOMAIN batch : Asked(i) \/ CallBarrier(i)
    \/ \E i \in DOMAIN batch : CallRefused(i) \/ FlushFails(i)
    \/ \E i \in DOMAIN batch : CallBarrierMasked(i) \/ BodyEnds(i)
    \/ EndBatch \/ RefuseAll
    \/ Abort \/ Notice \/ Crash \/ Open

Spec == Init /\ [][Next]_vars

---------------------------------------------------------------------------
(* Every tool body that was ever started has its call on disk, so that a   *)
(* reopened session knows of it (durability.ts:9-15), but for a call whose *)
(* failed flush was reported to another call of its batch; that one is on  *)
(* disk with the next flush, unless the process dies before.               *)
EffectsOnRecord ==
    \A c \in ran \ blind : \E k \in 1 .. disk :
        memory[k].is = "calls" /\ memory[k].n = c[1] /\ c[2] \in DOMAIN memory[k].ids

(* What a model was given is on disk, and a resume replays exactly that,   *)
(* but for the context behind it.                                          *)
Kept(s) == IF s # <<>> /\ Last(s) = Context THEN Front(s) ELSE s
RequestsOnRecord == IsPrefix(Kept(sent), SubSeq(memory, 1, disk))

(* The answers to the call of id at entry k: up to the next call with it.  *)
AnswersTo(k, id) ==
    {l \in k + 1 .. Len(memory) :
        /\ memory[l].is = "answer" /\ memory[l].id = id
        /\ \A h \in k + 1 .. l - 1 : ~(memory[h].is = "calls" /\ id \in Range(memory[h].ids))}

(* In a request to the model every tool call has exactly one result and    *)
(* every result is one of a call, whatever was aborted, refused or lost.   *)
RequestsAnswered ==
    pc = "model" =>
      /\ \A k \in DOMAIN memory : memory[k].is = "calls" =>
            \A i \in DOMAIN memory[k].ids : Cardinality(AnswersTo(k, memory[k].ids[i])) = 1
      /\ \A l \in DOMAIN memory : memory[l].is = "answer" =>
            \E k \in 1 .. l - 1 : memory[k].is = "calls" /\ memory[l].id \in Range(memory[k].ids)

(* A result does not lie about its tool: one that says "refused" or "not   *)
(* executed" means that the body never started, across crashes too, and    *)
(* one with an outcome that it did.                                        *)
HonestAnswers ==
    \A k \in DOMAIN memory : memory[k].is = "calls" =>
        \A i \in DOMAIN memory[k].ids : \A l \in AnswersTo(k, memory[k].ids[i]) :
            /\ memory[l].how = "refused" => <<memory[k].n, i>> \notin ran
            /\ memory[l].how = "ran" => <<memory[k].n, i>> \in ran

(* A recorded result stands right behind its call or another result: no    *)
(* notice, hint or prompt comes between.                                   *)
AnswersAdjacent ==
    \A k \in DOMAIN memory : memory[k].is = "answer" /\ memory[k].how # "unknown" =>
        k > 1 /\ memory[k - 1].is \in {"calls", "answer"}

(* A cancelled turn ends, even when nobody answers a permission question.  *)
CancelEndsTurn == aborted /\ pc # "down" ~> pc \in {"idle", "down"}
=============================================================================
