----------------------------- MODULE MCLiveness -----------------------------
(***************************************************************************)
(* Ten components that share no state, in one graph: `part` says which     *)
(* of them runs, the others stay where they start (compare MCSafety).  The *)
(* fairness is that of each component: of the steps its module calls due,  *)
(* some is taken while its part runs.                                      *)
(***************************************************************************)
EXTENDS
    JobRegistry, Continuable, PeerTasks, ToolScheduler, ToolTimeout, ModelCall,
    StdioClients, HostAsks, Mdns, CommandRun

CONSTANTS j1, j2, s1, open, w1, w2

(* Two jobs, of a session and of nobody; waiters *)
MCTwoJob == {j1, j2}
MCOwner  == {s1, open}
MCOneWaiter == {w1}
MCWaiter == {w1, w2}
(* Budgets on both sides of the grace period, and none *)
MCBudgets == {0, 1, 2, 3, 5}

VARIABLE part

Fixed ==
    /\ part # "jobs" => on = [w \in Waiter |-> j1]
    /\ part # "child" => auto /\ settled = "failed"
    /\ part # "peer" => task.auto
    /\ part # "batch" => n = 0 /\ tasks /\ ~aborted
    /\ part # "budget" => budget = 0 /\ ~outer
    /\ part # "call" => streaming /\ limited
    /\ part # "stdio" => kind = "lsp"
    /\ part # "command" => way = "job" /\ marks

MCInit ==
    /\ part \in {"jobs", "child", "peer", "batch", "budget", "call", "stdio", "asks", "lan",
                 "command"}
    /\ Init /\ ChildInit /\ PeerInit /\ SchedulerInit /\ TimeoutInit /\ CallInit
    /\ StdioInit /\ AsksInit /\ MdnsInit /\ CommandInit
    /\ Fixed

Only(p) ==
    /\ part = p /\ UNCHANGED part
    /\ p # "jobs" => UNCHANGED vars
    /\ p # "child" => UNCHANGED childVars
    /\ p # "peer" => UNCHANGED peerTaskVars
    /\ p # "batch" => UNCHANGED schedulerVars
    /\ p # "budget" => UNCHANGED timeoutVars
    /\ p # "call" => UNCHANGED callVars
    /\ p # "stdio" => UNCHANGED stdioVars
    /\ p # "asks" => UNCHANGED askVars
    /\ p # "lan" => UNCHANGED mdnsVars
    /\ p # "command" => UNCHANGED commandVars

MCNext ==
    \/ Only("jobs") /\ Next
    \/ Only("child") /\ ChildNext
    \/ Only("peer") /\ PeerNext
    \/ Only("batch") /\ SchedulerNext
    \/ Only("budget") /\ TimeoutNext
    \/ Only("call") /\ CallNext
    \/ Only("stdio") /\ StdioNext
    \/ Only("asks") /\ AsksNext
    \/ Only("lan") /\ MdnsNext
    \/ Only("command") /\ CommandNext

mcVars == <<part, vars, childVars, peerTaskVars, schedulerVars, timeoutVars, callVars,
            stdioVars, askVars, mdnsVars, commandVars>>

Fairness ==
    /\ WF_vars(part = "jobs" /\ JobsDue)
    /\ \A o \in Owner : WF_vars(part = "jobs" /\ DisposeOwnerEnds(o))
    /\ WF_childVars(part = "child" /\ ChildDue)
    /\ WF_peerTaskVars(part = "peer" /\ PeerDue)
    /\ WF_schedulerVars(part = "batch" /\ SchedulerDue)
    /\ WF_timeoutVars(part = "budget" /\ TimeoutDue)
    /\ WF_callVars(part = "call" /\ CallDue)
    /\ WF_stdioVars(part = "stdio" /\ StdioDue)
    /\ WF_askVars(part = "asks" /\ AsksDue)
    /\ WF_commandVars(part = "command" /\ CommandDue)
    /\ WF_mdnsVars(part = "lan" /\ Ticks) /\ WF_mdnsVars(part = "lan" /\ Sweeps)
    /\ \A p \in LanPeer :
          /\ WF_mdnsVars(part = "lan" /\ Queries({p}))
          /\ SF_mdnsVars(part = "lan" /\ Arrives(Current(p)))
          /\ WF_mdnsVars(part = "lan" /\ OthersPass(p))

MCSpec == MCInit /\ [][MCNext]_mcVars /\ Fairness

(* Work that was handed over ends, and who waits for it hears of it: a     *)
(* cancelled job, the jobs of an owner that is disposed of, a child of this*)
(* process, a wait for a peer's task whatever the link does.               *)
DelegatedWorkEnds == CancelledEnds /\ DisposalEnds /\ AlwaysSettles /\ WaitsReturn

(* Nobody waits for ever for an answer: not for the model, whose server may*)
(* stay silent, nor for a child process, which may die without a word, nor *)
(* for a command that ignores signals or whose orphans hold its pipes, nor *)
(* for the human, who may never answer, nor for a batch of tool calls and  *)
(* a call in it, whatever order they end in and however long they hang.    *)
RequestsEnd == CallEnds /\ CallsEnd /\ CommandEnds /\ EveryAskEnds /\ BatchEnds /\ CallerReturns

(* Answers are those of their own request: of the server of a child        *)
(* process, and an "allow" is the human's own, to that very request.  A    *)
(* child answers its messages in the order it accepted them, each once.    *)
AnswersAreTheirOwn == NothingDangles /\ AllowIsTheHumans /\ TurnsInOrder

(* What has ended has ended for all: no waiter or listener of a job or of  *)
(* a child is left behind its end, and each hears of it just once; a wait  *)
(* for a job leaves its timer behind only when it was aborted; a kill      *)
(* ladder takes the group of the shell it found, and never starts on  *)
(* a stranger's pid.                                                       *)
EndedForAll == JobInv /\ SettledForAll /\ LadderIsComplete /\ StrangerIsSpared

(* The pool of tool calls and the jobs of an owner never pass their caps,  *)
(* though both refill while members of them end at the same time.          *)
LimitsHold == BoundedConcurrency /\ CapHolds
=============================================================================
