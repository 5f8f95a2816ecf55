------------------------------ MODULE PlanMode ------------------------------
(***************************************************************************)
(* Planning before acting: the document of a plan (plan/state.ts), the     *)
(* collaboration mode that decides which tools may run (agent.ts,          *)
(* plan/tool-policy.ts), the human's commands /plan, /mode and /sandbox    *)
(* (REPL and ACP) and the two tools by which the model asks to enter and to*)
(* leave plan mode (plan/mode-tools.ts).  A command meets a tool that waits*)
(* for the human, or an edit between its check and its write, when the turn*)
(* is a settlement follow-up, which no host counts as busy.                *)
(***************************************************************************)

CONSTANTS Draft,  \* texts of plans
          Host    \* "repl" or "acp": whose commands they are

VARIABLES
    document,    \* PlanState: [live, status, content]; content "" is an empty plan
    kind,        \* collaborationMode.kind
    previous,    \* its previousPermissionMode, or "unset"
    sandbox,     \* the mode of the agent's sandboxPolicy
    driver,      \* "nobody", or who started the turn: "prompt", "followUp"
    pendingCall, \* the call that waits for the human, or writes: [tool, seen, shown]
    approved,    \* history: the texts the human approved
    chosen,      \* history: the sandbox the human chose last
    strayed,     \* history: chosen while planning or reviewing
    breached,    \* history: an edit reached the workspace while planning or reviewing
    crossed,     \* history: that began between the check of the edit and its write
    undrafted    \* history: begun with --plan, and no plan was entered or left since

planVars == <<document, kind, previous, sandbox, driver, pendingCall, approved, chosen, strayed,
              breached, crossed, undrafted>>

Sandbox == {"read-only", "workspace-write"}
NoDocument == [live |-> FALSE, status |-> "draft", content |-> ""]
NoCall == [tool |-> "none", seen |-> NoDocument, shown |-> ""]

(* One-shot --plan begins a session in plan mode, read-only, and without a *)
(* plan; --resume opens it again later.                                    *)
PlanInit ==
    /\ \/ kind = "default" /\ sandbox = "workspace-write"
       \/ kind = "plan" /\ sandbox = "read-only"
    /\ document = NoDocument /\ previous = "unset" /\ chosen = sandbox /\ strayed = FALSE
    /\ driver = "nobody" /\ pendingCall = NoCall /\ approved = {}
    /\ breached = FALSE /\ crossed = FALSE /\ undrafted = (kind = "plan")

(* no host takes a command while it is busy with a prompt *)
HostIsIdle == driver # "prompt"
Editable(d) == d.live /\ d.status \in {"draft", "rejected"}
ForcesReadOnly == kind \in {"plan", "review"}
(* Mutant: the context of a tool gets the agent's own policy, whatever the mode *)
EffectiveSandbox_Own == sandbox

EffectiveSandbox == IF ForcesReadOnly THEN "read-only" ELSE sandbox
(* what the next request carries of the plan *)
Injected ==
    IF document.live /\ document.status = "approved" THEN {document.content} \ {""} ELSE {}

---------------------------------------------------------------------------
(* Agent.setCollaborationMode() *)
EntersKind(k) ==
    /\ kind' = k
    /\ previous' = IF kind = "default" \/ previous = "unset" THEN sandbox ELSE previous
    /\ UNCHANGED sandbox
BackToDefault ==
    /\ kind' = "default" /\ previous' = "unset"
    /\ sandbox' = IF previous = "unset" THEN sandbox ELSE previous
(* /plan over ACP overwrites the session's mode, and what it remembers, first *)
PlanCommandEnters ==
    IF Host = "repl" THEN EntersKind("plan")
    ELSE kind' = "plan" /\ previous' = sandbox /\ UNCHANGED sandbox
PlanCommandLeaves ==
    IF Host = "repl" THEN BackToDefault
    ELSE kind' = "default" /\ previous' = "unset" /\ UNCHANGED sandbox

Revises(status) == document' = [document EXCEPT !.status = status]
Commanded == HostIsIdle /\ UNCHANGED <<driver, pendingCall, breached>>
KeepsMode == UNCHANGED <<kind, previous, sandbox, chosen, strayed>>

(* /plan enter *)
Enter ==
    /\ Commanded /\ ~document.live /\ document' = [document EXCEPT !.live = TRUE]
    /\ PlanCommandEnters /\ UNCHANGED <<approved, chosen, strayed>>
(* /plan edit *)
Edit(t) ==
    /\ Commanded /\ Editable(document)
    /\ document' = [document EXCEPT !.content = t, !.status = "draft"]
    /\ KeepsMode /\ UNCHANGED approved
(* /plan propose *)
Propose ==
    /\ Commanded /\ Editable(document) /\ Revises("proposed") /\ KeepsMode /\ UNCHANGED approved
(* /plan approve *)
Approve ==
    /\ Commanded /\ document.live /\ document.status = "proposed" /\ Revises("approved")
    /\ approved' = approved \union {document.content}
    /\ PlanCommandLeaves /\ UNCHANGED <<chosen, strayed>>
(* /plan reject *)
Reject ==
    /\ Commanded /\ document.live /\ Revises("rejected") /\ KeepsMode /\ UNCHANGED approved
(* /plan exit *)
Exit ==
    /\ Commanded /\ document.live /\ document' = [document EXCEPT !.live = FALSE]
    /\ PlanCommandLeaves /\ UNCHANGED <<approved, chosen, strayed>>
(* /mode *)
ChangesKind(k) ==
    /\ Commanded /\ IF k = "default" THEN BackToDefault ELSE EntersKind(k)
    /\ document' = IF k = "plan" THEN [document EXCEPT !.live = TRUE] ELSE document
    /\ UNCHANGED <<approved, chosen, strayed>>
(* /sandbox, /profile apply and the client's setPermission *)
ChoosesSandbox(s) ==
    /\ Commanded /\ sandbox' = s /\ chosen' = s /\ strayed' = (kind # "default")
    /\ UNCHANGED <<document, kind, previous, approved>>
(* The process ends, in a turn or between two, and the session is opened   *)
(* again under the sandbox of the new process: document and mode are in the*)
(* header of the transcript.                                               *)
Reopens(s) ==
    /\ sandbox' = s /\ chosen' = s /\ strayed' = (kind # "default")
    /\ driver' = "nobody" /\ pendingCall' = NoCall
    /\ UNCHANGED <<document, kind, previous, approved, breached>>

---------------------------------------------------------------------------
KeepsPlan == UNCHANGED <<document, approved>> /\ KeepsMode

TurnBegins(d) ==
    /\ driver = "nobody" /\ driver' = d /\ UNCHANGED <<pendingCall, breached>> /\ KeepsPlan
TurnIsOver ==
    /\ driver # "nobody" /\ pendingCall = NoCall /\ driver' = "nobody"
    /\ UNCHANGED <<pendingCall, breached>> /\ KeepsPlan
AsksHuman(tool, shown) ==
    /\ driver # "nobody" /\ pendingCall = NoCall
    /\ pendingCall' = [tool |-> tool, seen |-> document, shown |-> shown]
    /\ UNCHANGED <<driver, breached>> /\ KeepsPlan
(* ToolExecutor.execute(): the mode is asked before anything else; then    *)
(* the hooks and the human, who may take long                              *)
CallsEdit == ~ForcesReadOnly /\ AsksHuman("edit", "")
(* enter_plan_mode, exit_plan_mode: answered at once unless the document is*)
(* as they expect                                                          *)
CallsEnter == ~document.live /\ AsksHuman("enter", "")
CallsExit(t) == document.live /\ AsksHuman("exit", t)

Settles(tool) == pendingCall.tool = tool /\ pendingCall' = NoCall /\ UNCHANGED driver
(* denied, declined, cancelled, "keep planning", the turn is aborted; or an*)
(* edit does not find what it is to replace, or cannot be written          *)
SaysNo ==
    /\ pendingCall # NoCall /\ Settles(pendingCall.tool) /\ UNCHANGED breached /\ KeepsPlan
(* The context of the tool is built now, and write and edit look at it;    *)
(* then they read the file or make its directory, and write it at last     *)
(* without another look.                                                   *)
EditIsAllowed ==
    /\ pendingCall.tool = "edit" /\ KeepsPlan /\ UNCHANGED <<driver, breached>>
    /\ pendingCall' =
        IF EffectiveSandbox = "read-only" THEN NoCall ELSE [pendingCall EXCEPT !.tool = "write"]
EditWrites ==
    /\ Settles("write") /\ KeepsPlan
    /\ breached' = (breached \/ (ForcesReadOnly /\ ~crossed))
EnterIsAllowed ==
    /\ Settles("enter") /\ document' = [pendingCall.seen EXCEPT !.live = TRUE]
    /\ kind' = "plan" /\ previous' = "unset"
    /\ UNCHANGED <<sandbox, approved, chosen, strayed, breached>>
(* The plan that was shown is edited, proposed and approved in one step, on*)
(* the document as it was when the tool was called.  "exit" and "enter" do *)
(* not bring a proposed or approved one back to a draft: the edit throws.  *)
ExitIsAllowed ==
    /\ Settles("exit") /\ UNCHANGED <<sandbox, chosen, strayed, breached>>
    /\ IF Editable(pendingCall.seen)
       THEN /\ document' = [live |-> TRUE, status |-> "approved", content |-> pendingCall.shown]
            /\ approved' = approved \union {pendingCall.shown}
            /\ kind' = "default" /\ previous' = "unset"
       ELSE UNCHANGED <<document, approved, kind, previous>>

PlanStep ==
    \/ Enter \/ Propose \/ Approve \/ Reject \/ Exit
    \/ \E t \in Draft : Edit(t) \/ CallsExit(t)
    \/ \E k \in {"default", "plan", "review"} : ChangesKind(k)
    \/ \E s \in Sandbox : ChoosesSandbox(s) \/ Reopens(s)
    \/ \E d \in {"prompt", "followUp"} : TurnBegins(d)
    \/ TurnIsOver \/ CallsEdit \/ CallsEnter
    \/ SaysNo \/ EditIsAllowed \/ EditWrites \/ EnterIsAllowed \/ ExitIsAllowed

Remembers ==
    /\ crossed' = (pendingCall'.tool = "write" /\ (crossed \/ (~ForcesReadOnly /\ ForcesReadOnly')))
    /\ undrafted' = (undrafted /\ kind' = "plan" /\ ~document'.live)

PlanNext == PlanStep /\ Remembers

PlanSpec == PlanInit /\ [][PlanNext]_planVars

---------------------------------------------------------------------------
(* An edit that was let through and then waited for the human reaches the  *)
(* workspace in default mode only, whatever was commanded meanwhile; unless*)
(* that came between its last look at the policy and its write, which no   *)
(* command waits for.                                                      *)
PlanningIsReadOnly == ~breached

(* What the model is given as the approved plan is a text the human did    *)
(* approve, in that wording, however commands and the review overlapped.   *)
OnlyApprovedIsInjected == Injected \subseteq approved

(* Document and mode, changed by six commands and two tools one after the  *)
(* other, never part so that the session plans without a document: every   *)
(* way out of plan mode (/plan approve, exit_plan_mode) needs a live one.  *)
(* Only a session begun with --plan has none, until one is entered.        *)
PlanningHasADocument == kind = "plan" => document.live \/ undrafted

(* The sandbox is the one the human chose, over all the changes of mode    *)
(* that remember and restore it, unless the choice was made in between.    *)
SandboxIsTheHumans == sandbox # chosen => strayed

(* Plan mode, over commands that meet a tool which waits for the human: no *)
(* edit that was checked in it reaches the workspace, the model gets no    *)
(* plan that was not approved, plans always have a document, except at the *)
(* start of --plan, and the sandbox stays as chosen.                       *)
PlanModeHolds ==
    PlanningIsReadOnly /\ OnlyApprovedIsInjected /\ PlanningHasADocument /\ SandboxIsTheHumans

(* "Force draft via exit+enter if needed so edit is legal"                 *)
(* (mode-tools.ts:158): a plan that is put to the human can be approved.   *)
(* Fails for one that is proposed or approved already.                     *)
ReviewCanSucceed == pendingCall.tool = "exit" => Editable(pendingCall.seen)

(* The human's last word on the sandbox stands.  Fails in the REPL: leaving*)
(* plan mode restores what was before it.                                  *)
LastChoiceStands == sandbox = chosen

(* A new plan is not made under an old one.  Fails: exit and enter keep the*)
(* status "approved".                                                      *)
PlansFromScratch == kind = "plan" => Injected = {}

=============================================================================
