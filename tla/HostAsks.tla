----------------------------- MODULE HostAsks ------------------------------
(***************************************************************************)
(* What a session asks of its human: a permission                          *)
(* (createHostAskHandler) or a question (wireHostUserQuestions) of         *)
(* protocol/agent-backend-host.ts, raised by a tool of the running prompt  *)
(* or by a background child, sent with requestHostPermission() or          *)
(* requestHostUserQuestion() over a JsonRpcConnection, and shown by the    *)
(* browser client, which has one slot for each kind                        *)
(* (envoy-harness-web, client/acp/host.ts).                                *)
(***************************************************************************)
EXTENDS Integers, FiniteSets

CONSTANTS
    TurnAsk,  \* permissions asked by the tools of a turn
    ChildAsk, \* permissions asked by background children
    TurnQuiz, \* questions asked by the tools of a turn
    MaxTurn   \* bound: prompts

VARIABLES
    promptNo, running, \* prompts so far, and one is in runSessionPrompt()
    promptCancelled,   \* its controller is aborted
    ask,               \* ask |-> "none", "waiting", "allow" or "deny"; an answer is an "allow"
    wait,              \* live.permissionWait: an ask, or "nobody"
    sent,              \* #pending of the connection: requests without a response
    down,              \* the connection is closed
    dialog,            \* ask |-> "none", "coming", "shown", "buried", "over", or
                       \* "allow" or "deny" on its way back
    slot,              \* "permission", "question" |-> the ask the client shows, or "nobody"
    allowed            \* ghost: asks for which the human pressed "allow" or answered

askVars == <<promptNo, running, promptCancelled, ask, wait, sent, down, dialog, slot, allowed>>
agentVars == <<promptNo, running, promptCancelled>>

Permissions == TurnAsk \cup ChildAsk
Asks == Permissions \cup TurnQuiz
AskKind(a) == IF a \in TurnQuiz THEN "question" ELSE "permission"

AsksInit ==
    /\ promptNo = 0 /\ running = FALSE /\ promptCancelled = FALSE /\ wait = "nobody"
    /\ ask = [a \in Asks |-> "none"] /\ dialog = [a \in Asks |-> "none"]
    /\ slot = [k \in {"permission", "question"} |-> "nobody"]
    /\ sent = {} /\ down = FALSE /\ allowed = {}

---------------------------------------------------------------------------
(* Asks that wait take the answer that `answer` gives them *)
AnswerAsks(as, answer) == [a \in Asks |-> IF a \in as /\ ask[a] = "waiting" THEN answer ELSE ask[a]]

(* runSessionPrompt(), which the client does not call under a dialog *)
StartPrompt ==
    /\ ~running /\ promptNo < MaxTurn /\ ~down /\ slot["permission"] = "nobody"
    /\ promptNo' = promptNo + 1 /\ running' = TRUE /\ promptCancelled' = FALSE
    /\ UNCHANGED <<ask, wait, sent, down, dialog, slot, allowed>>

(* A tool of the turn asks while the turn runs, a child at any time; both  *)
(* ask through the callback of the prompt that runs.                       *)
Raise(a) ==
    /\ ask[a] = "none" /\ (a \in ChildAsk \/ running)
    /\ IF ~running \/ down \/ (promptCancelled /\ a \notin ChildAsk)
       THEN ask' = [ask EXCEPT ![a] = "deny"] /\ UNCHANGED <<wait, sent, dialog>>
       ELSE /\ ask' = [ask EXCEPT ![a] = "waiting"] /\ sent' = sent \cup {a}
            /\ dialog' = [dialog EXCEPT ![a] = "coming"]
            /\ wait' = IF a \in Permissions THEN a ELSE wait
    /\ UNCHANGED <<agentVars, down, slot, allowed>>

(* the client's request handler: the slot is taken, whatever it shows *)
Shows(a) ==
    /\ dialog[a] = "coming" /\ ~down
    /\ slot' = [slot EXCEPT ![AskKind(a)] = a]
    /\ dialog' = [b \in Asks |-> IF b = a THEN "shown"
                                ELSE IF b = slot[AskKind(a)] THEN "buried" ELSE dialog[b]]
    /\ UNCHANGED <<agentVars, ask, wait, sent, down, allowed>>

(* the human decides what is shown *)
Decides(k) ==
    /\ slot[k] # "nobody"
    /\ \E d \in {"allow", "deny"} :
          /\ dialog' = [dialog EXCEPT ![slot[k]] = d]
          /\ allowed' = IF d = "allow" THEN allowed \cup {slot[k]} ELSE allowed
    /\ slot' = [slot EXCEPT ![k] = "nobody"]
    /\ UNCHANGED <<agentVars, ask, wait, sent, down>>

(* the response arrives; permissionWait is forgotten, whoever it is of *)
AnswerArrives(a) ==
    /\ dialog[a] \in {"allow", "deny"} /\ ~down /\ dialog' = [dialog EXCEPT ![a] = "over"]
    /\ IF a \in sent
       THEN /\ sent' = sent \ {a} /\ ask' = AnswerAsks({a}, dialog[a])
            /\ wait' = IF a \in Permissions THEN "nobody" ELSE wait
       ELSE UNCHANGED <<sent, ask, wait>>
    /\ UNCHANGED <<agentVars, down, slot, allowed>>

(* HOST_REQUEST_TIMEOUT_MS; the client is not told *)
AskTimesOut(a) ==
    /\ a \in sent /\ sent' = sent \ {a} /\ ask' = AnswerAsks({a}, "deny")
    /\ wait' = IF a \in Permissions THEN "nobody" ELSE wait
    /\ UNCHANGED <<agentVars, down, dialog, slot, allowed>>

(* a question has a timeout of its own, in the service in front of it *)
QuestionTimesOut(a) ==
    /\ a \in TurnQuiz /\ ask[a] = "waiting" /\ ask' = [ask EXCEPT ![a] = "deny"]
    /\ UNCHANGED <<agentVars, wait, sent, down, dialog, slot, allowed>>

(* session/cancel: the waiter in the slot, every question, and what        *)
(* listens to the signal of the turn are denied; the client keeps its      *)
(* dialogs                                                                 *)
CancelPrompt ==
    /\ running /\ ~promptCancelled /\ ~down /\ promptCancelled' = TRUE
    /\ ask' = AnswerAsks(TurnAsk \cup TurnQuiz \cup {wait}, "deny") /\ wait' = "nobody"
    /\ UNCHANGED <<promptNo, running, sent, down, dialog, slot, allowed>>

(* newSession() and resumeSession(), after their cancel: the client        *)
(* answers its dialogs itself                                              *)
ClearsDialogs ==
    /\ ~down /\ (running => promptCancelled) /\ slot # [k \in DOMAIN slot |-> "nobody"]
    /\ dialog' = [a \in Asks |-> IF dialog[a] = "shown" THEN "deny" ELSE dialog[a]]
    /\ slot' = [k \in DOMAIN slot |-> "nobody"]
    /\ UNCHANGED <<agentVars, ask, wait, sent, down, allowed>>

(* agent.run() has returned: no tool of the turn is left, nor a callback *)
PromptEnds ==
    /\ running /\ \A a \in TurnAsk \cup TurnQuiz : ask[a] # "waiting"
    /\ running' = FALSE /\ wait' = "nobody"
    /\ UNCHANGED <<promptNo, promptCancelled, ask, sent, down, dialog, slot, allowed>>

(* close() of the connection rejects what is pending; the client's         *)
(* #clearPendingHostRequests() empties its slots                           *)
ConnectionCloses ==
    /\ ~down /\ down' = TRUE /\ sent' = {} /\ ask' = AnswerAsks(sent, "deny")
    /\ wait' = IF sent \cap Permissions = {} THEN wait ELSE "nobody"
    /\ slot' = [k \in DOMAIN slot |-> "nobody"] /\ dialog' = [a \in Asks |-> "over"]
    /\ UNCHANGED <<agentVars, allowed>>

AsksNext ==
    \/ StartPrompt \/ CancelPrompt \/ PromptEnds \/ ClearsDialogs \/ ConnectionCloses
    \/ \E a \in Asks : Raise(a) \/ Shows(a) \/ AnswerArrives(a) \/ AskTimesOut(a) \/ QuestionTimesOut(a)
    \/ \E k \in {"permission", "question"} : Decides(k)

AsksSpec == AsksInit /\ [][AsksNext]_askVars

(* timers fire *)
AsksDue == \E a \in Asks : AskTimesOut(a)

---------------------------------------------------------------------------
(* A tool runs on an "allow" only if the human pressed "allow" on the      *)
(* dialog of that very request; no answer reaches another request, however *)
(* dialogs, timeouts, cancels and late answers overlap.                    *)
AllowIsTheHumans == \A a \in Asks : ask[a] = "allow" => a \in allowed

(* An ask that waits has a request that will be answered or time out: the  *)
(* prompt it holds up is never held up for ever.                           *)
EveryAskEnds == []<>(\A a \in Asks : ask[a] # "waiting")
=============================================================================
