---------------------------- MODULE Continuable ----------------------------
(***************************************************************************)
(* One child of the registry of continuable sub-agents                     *)
(* (subagent/continuable.ts): its inbox, the pump that runs one turn per   *)
(* message, the callers that send, close, interrupt and wait, the deadline *)
(* and the parent's abort signal.  Message 1 is the objective.             *)
(*                                                                         *)
(* What a callback does between two awaits is one step.  settle() resolves *)
(* promises, whose continuations are later steps.                          *)
(***************************************************************************)
EXTENDS Integers, Sequences, SequencesExt

CONSTANTS
    Await,       \* calls of waitSettle()
    MaxMessages, \* bound: messages, the objective included
    BornAborted  \* may the parent's signal be aborted at submission?

ASSUME ChildAssumption == MaxMessages \in Nat \ {0} /\ BornAborted \in BOOLEAN

VARIABLES
    auto,       \* autoSettleAfterIdle: the blocking submit() and one-shot jobs
    inbox,      \* messages not yet taken
    sends,      \* count of the messages accepted
    pump,       \* "turn", "parked" (awaits work), "woken" or "ended"
    turn,       \* the message of the turn in progress, or 0
    closed,     \* close() or an interrupt
    settled,    \* "no" or the status of the result
    registered, \* handles has the child
    deadline,   \* the deadline timer is armed
    listening,  \* the abort listener on the parent's signal is in place
    awaits,     \* what became of each waitSettle() call
    reports,    \* calls of onTurn, as messages
    settles,    \* count of onSettle calls
    late,       \* ghost: messages accepted after close()
    reason      \* ghost: why it was interrupted

childVars == <<auto, inbox, sends, pump, turn, closed, settled, registered,
          deadline, listening, awaits, reports, settles, late, reason>>

Status  == {"completed", "partial", "failed"}
Message == 1 .. MaxMessages

ChildTypeOK ==
    /\ auto \in BOOLEAN /\ closed \in BOOLEAN /\ registered \in BOOLEAN
    /\ deadline \in BOOLEAN /\ listening \in BOOLEAN
    /\ inbox \in Seq(Message) /\ sends \in Message
    /\ pump \in {"turn", "parked", "woken", "ended"} /\ turn \in 0 .. MaxMessages
    /\ settled \in {"no"} \cup Status
    /\ awaits \in [Await -> {"idle", "waiting", "resolved", "rejected"}]
    /\ reports \in Seq(Message) /\ settles \in 0 .. 1
    /\ late \subseteq Message
    /\ reason \in {"none", "deadline", "parent", "tool"}

(* submitContinuable(): the pump takes the objective at once.  A signal    *)
(* that is aborted already settles the child before it is registered.      *)
ChildInit ==
    /\ auto \in BOOLEAN /\ sends = 1 /\ reports = <<>> /\ late = {}
    /\ awaits = [w \in Await |-> "idle"]
    /\ registered = TRUE /\ inbox = <<>>
    /\ \/ /\ pump = "turn" /\ turn = 1 /\ closed = FALSE /\ settled = "no"
          /\ deadline = TRUE /\ listening = TRUE /\ settles = 0 /\ reason = "none"
       \/ /\ BornAborted
          /\ pump = "ended" /\ turn = 0 /\ closed = TRUE /\ settled = "failed"
          /\ deadline = FALSE /\ listening = FALSE /\ settles = 1 /\ reason = "parent"

---------------------------------------------------------------------------
(* Mutant: settle() does not look whether the child has settled *)
Settle_NoGuard(result) ==
    IF FALSE
    THEN UNCHANGED <<settled, registered, deadline, listening, awaits, settles>>
    ELSE /\ settled' = result /\ registered' = FALSE /\ deadline' = FALSE /\ listening' = FALSE
         /\ awaits' = [w \in Await |-> IF awaits[w] = "waiting" THEN "resolved" ELSE awaits[w]]
         /\ settles' = settles + 1

(* settle(): the first result counts *)
Settle(result) ==
    IF settled # "no"
    THEN UNCHANGED <<settled, registered, deadline, listening, awaits, settles>>
    ELSE /\ settled' = result /\ registered' = FALSE /\ deadline' = FALSE /\ listening' = FALSE
         /\ awaits' = [w \in Await |-> IF awaits[w] = "waiting" THEN "resolved" ELSE awaits[w]]
         /\ settles' = settles + 1

Unsettled == UNCHANGED <<settled, registered, deadline, listening, awaits, settles>>

(* Mutant: a parked pump is not woken *)
Wake_Never(p) == IF p = "parked" THEN "parked" ELSE p

Wake(p) == IF p = "parked" THEN "woken" ELSE p

(* the top of the pump's loop, with the status `last` of the turns so far *)
Loop(last) ==
    IF settled # "no" THEN pump' = "ended" /\ turn' = 0 /\ Unsettled /\ UNCHANGED inbox
    ELSE IF inbox # <<>>
    THEN pump' = "turn" /\ turn' = Head(inbox) /\ inbox' = Tail(inbox) /\ Unsettled
    ELSE IF closed \/ auto
    THEN pump' = "ended" /\ turn' = 0 /\ Settle(last) /\ UNCHANGED inbox
    ELSE pump' = "parked" /\ turn' = 0 /\ Unsettled /\ UNCHANGED inbox

(* agent.run() returns: the late result of a settled child is discarded *)
TurnReturns(status, abortedTurn) ==
    /\ pump = "turn" /\ (abortedTurn => status = "failed")
    /\ IF settled # "no"
       THEN /\ pump' = "ended" /\ turn' = 0 /\ Unsettled /\ UNCHANGED <<inbox, reports>>
       ELSE /\ reports' = Append(reports, turn)
            /\ IF abortedTurn
               THEN pump' = "ended" /\ turn' = 0 /\ Settle(status) /\ UNCHANGED inbox
               ELSE Loop(status)
    /\ UNCHANGED <<auto, sends, closed, late, reason>>

(* agent.run() throws *)
TurnThrows ==
    /\ pump = "turn" /\ pump' = "ended" /\ turn' = 0
    /\ Settle("failed")
    /\ UNCHANGED <<auto, inbox, sends, closed, reports, late, reason>>

(* the continuation of the pump's await; the status of the last turn is    *)
(* that of any turn                                                        *)
Resume(last) ==
    /\ pump = "woken" /\ Loop(last)
    /\ UNCHANGED <<auto, sends, closed, reports, late, reason>>

---------------------------------------------------------------------------
Send ==
    /\ settled = "no" /\ sends < MaxMessages
    /\ sends' = sends + 1 /\ inbox' = Append(inbox, sends')
    /\ pump' = Wake(pump)
    /\ late' = IF closed THEN late \cup {sends'} ELSE late
    /\ UNCHANGED <<auto, turn, closed, settled, registered, deadline, listening, awaits,
                   reports, settles, reason>>

Close ==
    /\ settled = "no" /\ ~closed
    /\ closed' = TRUE /\ pump' = Wake(pump)
    /\ UNCHANGED <<auto, inbox, sends, turn, settled, registered, deadline, listening, awaits,
                   reports, settles, late, reason>>

(* interruptHandle(): settles at once, a hung model call or not *)
Interrupt(why) ==
    /\ settled = "no"
    /\ closed' = TRUE /\ inbox' = <<>> /\ reason' = why
    /\ pump' = Wake(pump)
    /\ Settle("failed")
    /\ UNCHANGED <<auto, sends, turn, reports, late>>

(* Mutant: the deadline is armed only for a continuable child *)
Deadline_Unarmed == deadline /\ ~auto /\ Interrupt("deadline")

Deadline == deadline /\ Interrupt("deadline")

(* the parent's turn is aborted; a settled child no longer listens *)
ParentAborts == listening /\ Interrupt("parent")

WaitSettle(w) ==
    /\ awaits[w] = "idle"
    /\ awaits' = [awaits EXCEPT ![w] = IF settled = "no" THEN "waiting" ELSE "resolved"]
    /\ UNCHANGED <<auto, inbox, sends, pump, turn, closed, settled, registered, deadline,
                   listening, reports, settles, late, reason>>

(* the waiter's timeout or signal; the child goes on *)
AwaitGivesUp(w) ==
    /\ awaits[w] = "waiting"
    /\ awaits' = [awaits EXCEPT ![w] = "rejected"]
    /\ UNCHANGED <<auto, inbox, sends, pump, turn, closed, settled, registered, deadline,
                   listening, reports, settles, late, reason>>

TurnEnds ==
    \/ \E status \in Status, a \in BOOLEAN : TurnReturns(status, a)
    \/ TurnThrows
Resumes == \E last \in Status : Resume(last)

ChildNext ==
    \/ TurnEnds \/ Resumes
    \/ Send \/ Close \/ Interrupt("tool") \/ Deadline \/ ParentAborts
    \/ \E w \in Await : WaitSettle(w) \/ AwaitGivesUp(w)

ChildSpec == ChildInit /\ [][ChildNext]_childVars

(* Promise continuations run, and a turn may hang: only the deadline is    *)
(* sure to fire.                                                           *)
ChildDue == Resumes \/ Deadline

---------------------------------------------------------------------------
(* A settled child is settled for everybody: onSettle was called once,     *)
(* nobody waits, no timer or listener is left; an unsettled one has its    *)
(* deadline.                                                               *)
SettledForAll ==
    /\ settles = (IF settled = "no" THEN 0 ELSE 1)
    /\ settled # "no" => /\ \A w \in Await : awaits[w] # "waiting"
                         /\ ~deadline /\ ~listening
    /\ settled = "no" => deadline /\ listening

(* The pump never sleeps on work: a parked pump has an empty inbox and     *)
(* nothing that asks it to settle; a woken or busy one will look again.    *)
NoLostWakeup ==
    /\ pump = "parked" => inbox = <<>> /\ ~closed /\ ~auto /\ settled = "no"
    /\ pump = "ended" => settled # "no"

(* Messages are run in the order they were accepted, each at most once.    *)
TurnsInOrder ==
    LET run == IF turn = 0 THEN reports ELSE Append(reports, turn)
    IN  \A i, j \in DOMAIN run : i < j => run[i] < run[j]

(* The strengthening that is inductive for the order of the turns: the     *)
(* finished turns, the one in progress and the inbox are one increasing    *)
(* line of messages that were accepted.                                    *)
Increasing(s) == \A i, j \in DOMAIN s : i < j => s[i] < s[j]
Line ==
    /\ Increasing(reports) /\ Increasing(inbox)
    /\ \A j \in DOMAIN reports, i \in DOMAIN inbox : reports[j] < inbox[i]
    /\ \A j \in DOMAIN reports : reports[j] <= sends
    /\ \A i \in DOMAIN inbox : inbox[i] <= sends
    /\ turn # 0 => /\ turn <= sends
                   /\ \A j \in DOMAIN reports : reports[j] < turn
                   /\ \A i \in DOMAIN inbox : turn < inbox[i]
    /\ pump = "turn" => turn # 0

ChildInv == ChildTypeOK /\ SettledForAll /\ NoLostWakeup /\ Line /\ TurnsInOrder

(* Behind a job that reported its end nothing moves: no result, no onTurn, *)
(* no message (continuable.ts:458-463).                                    *)
QuietAfterSettle ==
    [][settled # "no" => /\ settled' = settled /\ reports' = reports
                         /\ settles' = settles /\ sends' = sends]_childVars

(* getHandle() finds exactly the children that can be steered              *)
(* (continuable.ts:508-514).                                               *)
GoneWhenSettled == registered <=> settled = "no"

(* An accepted message is run or the child settles; a closed child settles *)
(* even if its deadline is far away.                                       *)
MessagesRun ==
    /\ \A m \in Message : sends >= m ~> settled # "no" \/ Contains(reports, m)
    /\ closed ~> settled # "no"

(* Every child settles, though its model call may hang for ever.           *)
AlwaysSettles == <>(settled # "no")

(* continuable.ts:28-32: close() marks no further inbox messages. *)
CloseTakesNoMore == late = {}

(* background.ts:461-465: interrupt_agent stops the current turn, and the  *)
(* child can be redirected with send_message.                              *)
InterruptedCanBeRedirected == reason = "tool" => settled = "no"
=============================================================================
