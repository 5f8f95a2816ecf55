------------------------------ MODULE TeamRun ------------------------------
(***************************************************************************)
(* Team.runOnce() of team/runner.ts and the job board that mirrors it:     *)
(* createTeamJobTracker() (team-job-tracker.ts) turns the callbacks of a   *)
(* run into rows of a TeamJobRegistry (protocol/team-job-board.ts).  The   *)
(* tracker belongs to the Team and keeps the id of one job, while a host   *)
(* may start a run before the previous one has ended.                      *)
(***************************************************************************)
EXTENDS Integers, FiniteSets

CONSTANTS
    Agent,     \* the agents of the team
    Run,       \* calls of runOnce()
    MaxRetries \* maxRetries

ASSUME TeamAssumption == "none" \notin Run /\ MaxRetries \in Nat

VARIABLES
    dependsOn, \* the upstream agents of each agent
    parallel,  \* run the agents that are ready together
    stage,     \* "new", "ready", "wave", "refused", "completed" or "failed"
    agents,    \* "waiting", "running", "ok" or "failed", per run
    retried,   \* count of the attempts made again, per run
    jobId,     \* the tracker's job: a run, or "none"
    board,     \* the board's job of each run: its status and its rows
    overlapped \* ghost: a run started while another one was under way

teamVars == <<dependsOn, parallel, stage, agents, retried, jobId, board, overlapped>>

NoJob == [status |-> "none", rows |-> [a \in Agent |-> "none"]]

TeamInit ==
    /\ dependsOn \in [Agent -> SUBSET Agent] /\ parallel \in BOOLEAN
    /\ stage = [r \in Run |-> "new"]
    /\ agents = [r \in Run |-> [a \in Agent |-> "waiting"]]
    /\ retried = [r \in Run |-> [a \in Agent |-> 0]]
    /\ jobId = "none" /\ board = [r \in Run |-> NoJob] /\ overlapped = FALSE

(* topologicalSort() finds an order: no set of agents waits for itself *)
Sortable == \A S \in SUBSET Agent \ {{}} : \E a \in S : dependsOn[a] \cap S = {}

(* the callbacks write to whichever job the tracker holds *)
SetRows(new) ==
    board' = IF jobId = "none" THEN board
             ELSE [board EXCEPT ![jobId].rows =
                     [a \in Agent |-> IF a \in DOMAIN new THEN new[a] ELSE @[a]]]

RunStarts(r) ==
    /\ stage[r] = "new"
    /\ stage' = [stage EXCEPT ![r] = IF Sortable THEN "ready" ELSE "refused"]
    /\ IF Sortable
       THEN /\ jobId' = r
            /\ board' = [board EXCEPT ![r] =
                            [status |-> "running", rows |-> [a \in Agent |-> "pending"]]]
            /\ overlapped' = (overlapped \/ \E q \in Run : stage[q] \in {"ready", "wave"})
       ELSE UNCHANGED <<jobId, board, overlapped>>
    /\ UNCHANGED <<dependsOn, parallel, agents, retried>>

HasResult(r, a) == agents[r][a] \in {"ok", "failed"}
Ready(r) == {a \in Agent : agents[r][a] = "waiting" /\ \A d \in dependsOn[a] : HasResult(r, d)}

(* the agents whose upstream agents have results start together, or one at *)
(* a time in the order of the sort                                         *)
Launch(r) ==
    /\ stage[r] = "ready"
    /\ \E wave \in IF parallel THEN {Ready(r)} ELSE {{a} : a \in Ready(r)} :
          /\ wave # {}
          /\ agents' = [agents EXCEPT ![r] =
                           [a \in Agent |-> IF a \in wave THEN "running" ELSE @[a]]]
          /\ SetRows([a \in wave |-> "running"])
    /\ stage' = [stage EXCEPT ![r] = "wave"]
    /\ UNCHANGED <<dependsOn, parallel, retried, jobId, overlapped>>

(* an attempt that was aborted or threw is made again while retries remain *)
Retry(r, a) ==
    /\ agents[r][a] = "running" /\ retried[r][a] < MaxRetries
    /\ retried' = [retried EXCEPT ![r][a] = @ + 1]
    /\ UNCHANGED <<dependsOn, parallel, stage, agents, jobId, board, overlapped>>

AgentFinishes(r, a, how) ==
    /\ agents[r][a] = "running" /\ (how = "failed" => retried[r][a] = MaxRetries)
    /\ agents' = [agents EXCEPT ![r][a] = how]
    /\ SetRows([x \in {a} |-> IF how = "ok" THEN "completed" ELSE "failed"])
    /\ UNCHANGED <<dependsOn, parallel, stage, retried, jobId, overlapped>>

(* Mutant: finishTeamJob leaves the rows of agents that never started pending *)
Finish_LeavesRows(status) ==
    /\ board' = IF jobId = "none" THEN board
                ELSE [board EXCEPT ![jobId] =
                        [status |-> status,
                         rows |-> [a \in Agent |->
                            IF @.rows[a] = "running" THEN status ELSE @.rows[a]]]]
    /\ jobId' = "none"

(* finishTeamJob(): what is pending or running gets the status of the job *)
Finish(status) ==
    /\ board' = IF jobId = "none" THEN board
                ELSE [board EXCEPT ![jobId] =
                        [status |-> status,
                         rows |-> [a \in Agent |->
                            IF @.rows[a] \in {"pending", "running"} THEN status ELSE @.rows[a]]]]
    /\ jobId' = "none"

(* the wave is awaited as a whole; a failed agent ends the run *)
WaveEnds(r) ==
    /\ stage[r] = "wave" /\ \A a \in Agent : agents[r][a] # "running"
    /\ IF \E a \in Agent : agents[r][a] = "failed"
       THEN stage' = [stage EXCEPT ![r] = "failed"] /\ Finish("failed")
       ELSE IF \E a \in Agent : agents[r][a] = "waiting"
       THEN stage' = [stage EXCEPT ![r] = "ready"] /\ UNCHANGED <<board, jobId>>
       ELSE stage' = [stage EXCEPT ![r] = "completed"] /\ Finish("completed")
    /\ UNCHANGED <<dependsOn, parallel, agents, retried, overlapped>>

AgentStep(r, a) == Retry(r, a) \/ \E how \in {"ok", "failed"} : AgentFinishes(r, a, how)
TeamNext == \E r \in Run :
    RunStarts(r) \/ Launch(r) \/ WaveEnds(r) \/ \E a \in Agent : AgentStep(r, a)

TeamSpec == TeamInit /\ [][TeamNext]_teamVars

---------------------------------------------------------------------------
(* The board tells how a run ended: the job has the run's status, a row    *)
(* completed if its agent succeeded and failed otherwise, one that never   *)
(* started among them, and no row completed behind one that did not.  Runs *)
(* of one team that overlap share the tracker's job id, and void it.       *)
BoardTells == \A r \in Run :
    (stage[r] \in {"completed", "failed"} /\ ~overlapped) =>
        /\ board[r].status = stage[r]
        /\ \A a \in Agent :
              /\ board[r].rows[a] = IF agents[r][a] = "ok" THEN "completed" ELSE "failed"
              /\ board[r].rows[a] = "completed" =>
                    \A d \in dependsOn[a] : board[r].rows[d] = "completed"
=============================================================================
