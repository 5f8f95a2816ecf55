---------------------------- MODULE Hosts_proofs ----------------------------
(***************************************************************************)
(* What users of the hosts can rely on: plan mode, for any plans and both  *)
(* hosts; the connection of the browser, for any number of tiers; terminals,*)
(* for any number of them; the board of team runs; and the queue and the   *)
(* screen of the terminal host, for any number of lines, tools and messages.*)
(***************************************************************************)
EXTENDS
  PlanMode, WebLink, Terminals, TeamRun, TuiSession, Storage_proofs,
  FiniteSetTheorems, SequenceTheorems, TLAPS

Status == {"draft", "proposed", "approved", "rejected"}
Content == Draft \union {""}
Document == [live : BOOLEAN, status : Status, content : Content]
Kind == {"default", "plan", "review"}
Call == [tool : {"none", "edit", "write", "enter", "exit"}, seen : Document, shown : Content]

PlanTypeOK ==
    /\ document \in Document /\ kind \in Kind /\ pendingCall \in Call
    /\ sandbox \in Sandbox /\ previous \in Sandbox \union {"unset"} /\ chosen \in Sandbox
    /\ strayed \in BOOLEAN /\ breached \in BOOLEAN
    /\ crossed \in BOOLEAN /\ undrafted \in BOOLEAN

(* A document that is called approved was approved by the human *)
Genuine(d) == d.status = "approved" => d.content \in approved \union {""}

(* A tool that waits may put the document it read back, live or not, so    *)
(* that one must be genuine as well, and so must one that is not live: the *)
(* next planning revives it.                                               *)
PlansAreGenuine == Genuine(document) /\ Genuine(pendingCall.seen)

(* What mode remembers of the sandbox is what the human chose last, unless *)
(* the choice was made in that mode; the default mode remembers nothing.   *)
MemoryIsTrue ==
    /\ sandbox # chosen => strayed
    /\ previous \notin {"unset", chosen} => strayed
    /\ kind = "default" => previous = "unset"

(* An edit that passed its check before the planning began, and only such a*)
(* one, may still write while it lasts.                                    *)
WritesWereChecked == pendingCall.tool = "write" => crossed \/ ~ForcesReadOnly

PlanInv ==
    /\ PlanTypeOK
    /\ PlanningIsReadOnly
    /\ PlansAreGenuine
    /\ PlanningHasADocument
    /\ MemoryIsTrue
    /\ WritesWereChecked

LEMMA NothingIsPlanned == /\ NoDocument \in Document /\ NoCall \in Call /\ NoCall.seen = NoDocument
                          /\ NoCall.tool # "write"
                          /\ NoDocument.status = "draft" /\ ~NoDocument.live
<1>1. NoDocument \in Document /\ NoDocument.status = "draft" /\ ~NoDocument.live
  BY DEF NoDocument, Document, Status, Content
<1>2. "" \in Content
  BY DEF Content
<1> QED
  BY <1>1, <1>2 DEF NoCall, Call

LEMMA InitPlanInv == PlanInit => PlanInv
BY NothingIsPlanned
   DEF PlanInit, PlanInv, PlanTypeOK, Kind, Sandbox, PlanningIsReadOnly, PlansAreGenuine, Genuine,
       PlanningHasADocument, MemoryIsTrue, WritesWereChecked

(* The commands of the human keep the invariant.                           *)
LEMMA CommandPlanInv ==
    ASSUME PlanInv, Remembers,
           \/ Enter \/ Propose \/ Approve \/ Reject \/ Exit
           \/ \E t \in Draft : Edit(t)
           \/ \E k \in Kind : ChangesKind(k)
           \/ \E s \in Sandbox : ChoosesSandbox(s) \/ Reopens(s)
    PROVE  PlanInv'
<1> USE DEF PlanInv, PlanTypeOK, Document, Status, Content, Kind, Sandbox, PlanningIsReadOnly,
            PlansAreGenuine, Genuine, PlanningHasADocument, MemoryIsTrue, Commanded,
            WritesWereChecked, Remembers, ForcesReadOnly
<1>1. CASE Enter
  BY <1>1 DEF Enter, PlanCommandEnters, EntersKind
<1>2. CASE Propose
  BY <1>2 DEF Propose, Revises, KeepsMode, Editable
<1>3. CASE Approve
  BY <1>3 DEF Approve, Revises, PlanCommandLeaves, BackToDefault
<1>4. CASE Reject
  BY <1>4 DEF Reject, Revises, KeepsMode
<1>5. CASE Exit
  BY <1>5 DEF Exit, PlanCommandLeaves, BackToDefault
<1>6. ASSUME NEW t \in Draft, Edit(t) PROVE PlanInv'
  BY <1>6 DEF Edit, KeepsMode, Editable
<1>7. ASSUME NEW k \in Kind, ChangesKind(k) PROVE PlanInv'
  BY <1>7 DEF ChangesKind, BackToDefault, EntersKind
<1>8. ASSUME NEW s \in Sandbox, ChoosesSandbox(s) PROVE PlanInv'
  BY <1>8 DEF ChoosesSandbox
<1>9. ASSUME NEW s \in Sandbox, Reopens(s) PROVE PlanInv'
  BY <1>9, NothingIsPlanned DEF Reopens
<1> QED
  BY <1>1, <1>2, <1>3, <1>4, <1>5, <1>6, <1>7, <1>8, <1>9

(* The steps of a turn keep the invariant.                                 *)
LEMMA TurnPlanInv ==
    ASSUME PlanInv, Remembers,
           \/ \E d \in {"prompt", "followUp"} : TurnBegins(d)
           \/ \E t \in Draft : CallsExit(t)
           \/ TurnIsOver \/ CallsEdit \/ CallsEnter
           \/ SaysNo \/ EditIsAllowed \/ EditWrites \/ EnterIsAllowed \/ ExitIsAllowed
    PROVE  PlanInv'
<1> USE DEF PlanInv, PlanTypeOK, Kind, Sandbox, PlanningIsReadOnly,
            PlansAreGenuine, Genuine, PlanningHasADocument, MemoryIsTrue, KeepsPlan, KeepsMode,
            WritesWereChecked, Remembers, ForcesReadOnly
<1>1. ASSUME NEW tool \in {"edit", "enter", "exit"}, NEW shown \in Content, AsksHuman(tool, shown)
      PROVE  PlanInv'
  BY <1>1 DEF AsksHuman, Call
<1>2. CASE CallsEdit \/ CallsEnter \/ \E t \in Draft : CallsExit(t)
  BY <1>1, <1>2 DEF CallsEdit, CallsEnter, CallsExit, Content
<1>3. CASE TurnIsOver \/ \E d \in {"prompt", "followUp"} : TurnBegins(d)
  <2>1. UNCHANGED <<document, kind, previous, sandbox, pendingCall, approved, chosen, strayed,
                    breached>>
    BY <1>3 DEF TurnIsOver, TurnBegins
  <2> QED
    BY <2>1
<1>5. CASE SaysNo
  BY NothingIsPlanned, <1>5 DEF SaysNo, Settles
<1>6. CASE EditIsAllowed
  <2>1. pendingCall.tool = "edit" /\ pendingCall'.seen \in {pendingCall.seen, NoDocument}
    BY NothingIsPlanned, <1>6 DEF EditIsAllowed, Call
  <2>2. pendingCall' \in Call
    BY NothingIsPlanned, <1>6 DEF EditIsAllowed, Call
  <2>3. pendingCall'.tool = "write" => ~ForcesReadOnly
    BY <1>6 DEF EditIsAllowed, EffectiveSandbox, NoCall
  <2> QED
    BY NothingIsPlanned, <1>6, <2>1, <2>2, <2>3 DEF EditIsAllowed
<1>9. CASE EditWrites
  BY NothingIsPlanned, <1>9 DEF EditWrites, Settles
<1>7. CASE EnterIsAllowed
  BY NothingIsPlanned, <1>7 DEF EnterIsAllowed, Settles, Call, Document
<1>8. CASE ExitIsAllowed
  <2>1. /\ pendingCall'.seen.status = "draft" /\ pendingCall' \in Call
        /\ pendingCall'.tool # "write"
    BY NothingIsPlanned, <1>8 DEF ExitIsAllowed, Settles
  <2>2. CASE Editable(pendingCall.seen)
    <3>1. document' = [live |-> TRUE, status |-> "approved", content |-> pendingCall.shown]
      BY <1>8, <2>2 DEF ExitIsAllowed
    <3>2. document' \in Document /\ document'.live /\ document'.content = pendingCall.shown
      BY <3>1 DEF Call, Document, Status
    <3> QED
      BY <1>8, <2>1, <2>2, <3>2 DEF ExitIsAllowed
  <2>3. CASE ~Editable(pendingCall.seen)
    <3>1. UNCHANGED <<document, kind, previous, sandbox, approved, chosen, strayed, breached>>
      BY <1>8, <2>3 DEF ExitIsAllowed
    <3> QED
      BY <2>1, <3>1
  <2> QED
    BY <2>2, <2>3
<1> QED
  BY <1>2, <1>3, <1>5, <1>6, <1>7, <1>8, <1>9

(* The plan, the mode and what each remembers agree at all times.          *)
THEOREM PlanInvariance == PlanSpec => []PlanInv
<1>1. PlanInit => PlanInv
  BY InitPlanInv
<1>2. PlanInv /\ [PlanNext]_planVars => PlanInv'
  <2> SUFFICES ASSUME PlanInv, [PlanNext]_planVars PROVE PlanInv'
    OBVIOUS
  <2>1. CASE PlanNext
    BY <2>1, CommandPlanInv, TurnPlanInv DEF PlanNext, PlanStep, Kind
  <2>2. CASE UNCHANGED planVars
    BY <2>2 DEF planVars, PlanInv, PlanTypeOK, PlanningIsReadOnly, PlansAreGenuine, Genuine,
                PlanningHasADocument, MemoryIsTrue, WritesWereChecked, ForcesReadOnly
  <2> QED
    BY <2>1, <2>2
<1> QED
  BY <1>1, <1>2, PTL DEF PlanSpec

(* No edit reaches the workspace while planning, the model is given no plan*)
(* but an approved one, a planning session has a document and the sandbox  *)
(* is the human's: whatever is commanded while a tool waits.               *)
THEOREM PlanModeIsSound == PlanSpec => []PlanModeHolds
<1>1. PlanInv => OnlyApprovedIsInjected
  BY DEF PlanInv, PlansAreGenuine, Genuine, OnlyApprovedIsInjected, Injected
<1>2. PlanInv => SandboxIsTheHumans
  BY DEF PlanInv, MemoryIsTrue, SandboxIsTheHumans
<1>3. PlanInv => PlanModeHolds
  BY <1>1, <1>2 DEF PlanInv, PlanModeHolds
<1> QED
  BY <1>3, PlanInvariance, PTL

-----------------------------------------------------------------------------
(* The connection of the browser. *)

LinkTypeOK ==
    /\ status \in {"idle", "connecting", "connected", "disconnected"}
    /\ generation \in 0 .. MaxGen /\ attempt \in 0 .. generation
    /\ linkStage \in {"opening", "session", "optional"}
    /\ client \in 0 .. MaxGen
    /\ socket \in [1 .. MaxGen -> {"none", "open", "closing", "closed"}]
    /\ tries \in Nat

(* No socket is younger than the connect() in flight, nor than the last    *)
(* generation.                                                             *)
NoneIsYounger ==
    \A g \in 1 .. MaxGen :
        (g > generation \/ (attempt # 0 /\ g > attempt)) => socket[g] = "none"

(* A connect() in flight keeps the status, and no timer runs beside it. *)
OneAttempt == attempt # 0 /\ ~disposed => status = "connecting" /\ auto /\ ~retryTimer

(* Who gave up has used up all tiers, or its socket closed while the last  *)
(* connect() still asked for what is optional: nothing can be lost again.  *)
GaveUp ==
    ~auto /\ ~disposed =>
        \/ tries > MaxTries
        \/ status = "connected" /\ attempt = 0 /\ generation > 0 /\ socket[generation] = "closed"

LinkInv ==
    /\ LinkTypeOK /\ NoneIsYounger /\ OneAttempt /\ GaveUp /\ LossIsRetried
    /\ retryTimer => auto /\ status # "idle"
    /\ status = "idle" => generation = 0

(* No socket and no connect() at first. *)
LEMMA InitLinkInv == LinkInit => LinkInv
<1> SUFFICES ASSUME LinkInit PROVE LinkInv
  OBVIOUS
<1>1. LinkTypeOK
  <2>1. socket \in [1 .. MaxGen -> {"none", "open", "closing", "closed"}]
    BY DEF LinkInit
  <2> QED
    BY <2>1, LinkAssumption DEF LinkInit, LinkTypeOK
<1>2. NoneIsYounger
  BY DEF LinkInit, NoneIsYounger
<1> QED
  BY <1>1, <1>2 DEF LinkInit, LinkInv, OneAttempt, GaveUp, LossIsRetried

(* The sockets: who is opened, closed or asked to close is not younger.   *)
LEMMA SocketStep ==
  ASSUME LinkInv, NEW g \in 1 .. MaxGen, NEW how \in {"open", "closing", "closed"},
         socket[g] # "none" \/ g = attempt
  PROVE  /\ [socket EXCEPT ![g] = how] \in [1 .. MaxGen -> {"none", "open", "closing", "closed"}]
         /\ \A h \in 1 .. MaxGen : (h > generation \/ (attempt # 0 /\ h > attempt)) =>
                [socket EXCEPT ![g] = how][h] = "none"
BY DEF LinkInv, LinkTypeOK, NoneIsYounger

(* The retry timer is armed for a host that tries on. *)
LEMMA Drops == ASSUME LinkInv, DropsClient PROVE retryTimer' => auto'
<1>1. (retryTimer => auto) /\ (retryTimer' => retryTimer \/ (Retries /\ tries < MaxTries))
  BY DEF LinkInv, DropsClient
<1>2. auto /\ (Retries => tries < MaxTries) => auto'
  BY DEF DropsClient
<1>3. (retryTimer => ~Retries) /\ (Retries => auto)
  BY DEF Retries
<1> QED
  BY <1>1, <1>2, <1>3

(* A loss: the timer is armed, or the tiers are used up. *)
LEMMA Loss ==
  ASSUME LinkInv, LosesLink, ~disposed, attempt # 0 \/ socket[generation] # "closed"
  PROVE  /\ tries' \in Nat /\ status' = "disconnected" /\ client' = 0
         /\ retryTimer' \/ (~auto' /\ tries' > MaxTries)
         /\ ~auto' => tries' > MaxTries
         /\ retryTimer' => auto'
<1> USE LinkAssumption DEF LinkInv, LinkTypeOK, GaveUp, LosesLink, DropsClient, Retries
<1>1. tries' \in Nat /\ status' = "disconnected" /\ client' = 0
  OBVIOUS
<1>2. ~auto => tries > MaxTries
  OBVIOUS
<1>3. CASE retryTimer
  BY <1>1, <1>3
<1>4. CASE ~retryTimer /\ ~auto
  BY <1>1, <1>2, <1>4
<1>5. CASE ~retryTimer /\ auto /\ tries < MaxTries
  BY <1>1, <1>5
<1>6. CASE ~retryTimer /\ auto /\ ~(tries < MaxTries)
  BY <1>1, <1>6
<1> QED
  BY <1>1, <1>2, <1>3, <1>4, <1>5, <1>6

(* Every step of the host, its sockets and its buttons keeps the invariant. *)
LEMMA NextLinkInv == LinkInv /\ [LinkNext]_linkVars => LinkInv'
<1> SUFFICES ASSUME LinkInv, [LinkNext]_linkVars PROVE LinkInv'
  OBVIOUS
<1> USE LinkAssumption DEF LinkInv, LinkTypeOK, NoneIsYounger, OneAttempt, GaveUp, LossIsRetried
<1>1. CASE Mount
  BY <1>1 DEF Mount, Connects
<1>2. CASE SocketOpens
  <2>1. socket' \in [1 .. MaxGen -> {"none", "open", "closing", "closed"}] /\ NoneIsYounger'
    BY <1>2, SocketStep DEF SocketOpens
  <2> QED
    BY <1>2, <2>1 DEF SocketOpens
<1>3. CASE ConnectFails
  <2>1. attempt # 0 /\ attempt' = 0 /\ UNCHANGED <<generation, linkStage, socket, disposed>>
    BY <1>3 DEF ConnectFails
  <2>2. CASE attempt # generation
    BY <1>3, <2>1, <2>2 DEF ConnectFails
  <2>3. CASE attempt = generation /\ ~disposed
    <3>1. LosesLink
      BY <1>3, <2>3 DEF ConnectFails
    <3> QED
      BY <3>1, <2>1, <2>3, Loss
  <2>4. CASE attempt = generation /\ disposed
    <3>1. status' = "disconnected" /\ client' = 0 /\ tries' \in Nat
      BY <1>3, <2>4 DEF ConnectFails, LosesLink, DropsClient
    <3>2. retryTimer' => auto'
      BY <1>3, <2>4 DEF ConnectFails, LosesLink, DropsClient, Retries
    <3> QED
      BY <2>1, <2>4, <3>1, <3>2
  <2> QED
    BY <2>2, <2>3, <2>4
<1>4. CASE SessionOpened
  BY <1>4 DEF SessionOpened
<1>5. CASE Bootstrapped
  BY <1>5 DEF Bootstrapped, Connected
<1>6. CASE RetryFires
  <2>1. /\ retryTimer /\ ~retryTimer' /\ generation < MaxGen
        /\ Connects /\ UNCHANGED <<client, socket, tries, disposed>>
    BY <1>6 DEF RetryFires
  <2>2. CASE disposed \/ attempt # 0
    <3>1. UNCHANGED <<attempt, generation, linkStage, auto, status>>
      BY <2>1, <2>2 DEF Connects
    <3>2. disposed
      BY <2>1, <2>2
    <3> QED
      BY <2>1, <3>1, <3>2
  <2>3. CASE ~disposed /\ attempt = 0
    <3>1. /\ attempt' = generation + 1 /\ generation' = generation + 1 /\ linkStage' = "opening"
          /\ auto' /\ status' = "connecting"
      BY <2>1, <2>3 DEF Connects
    <3> QED
      BY <2>1, <2>3, <3>1
  <2> QED
    BY <2>2, <2>3
<1>7. CASE Reconnect
  <2>1. socket' \in [1 .. MaxGen -> {"none", "open", "closing", "closed"}] /\ NoneIsYounger'
    BY <1>7, SocketStep DEF Reconnect, Closing
  <2> QED
    BY <1>7, <2>1 DEF Reconnect
<1>8. CASE Dispose
  <2>1. socket' \in [1 .. MaxGen -> {"none", "open", "closing", "closed"}] /\ NoneIsYounger'
    BY <1>8, SocketStep DEF Dispose, Closing
  <2> QED
    BY <1>8, <2>1 DEF Dispose
<1>9. ASSUME NEW g \in 1 .. MaxGen, SocketCloses(g) PROVE LinkInv'
  <2>1. /\ socket' = [socket EXCEPT ![g] = "closed"] /\ socket[g] \in {"open", "closing"}
        /\ UNCHANGED <<generation, linkStage, disposed>>
    BY <1>9 DEF SocketCloses
  <2>2. socket' \in [1 .. MaxGen -> {"none", "open", "closing", "closed"}]
    BY <2>1, SocketStep
  <2>3. CASE attempt = g /\ linkStage = "optional"
    <3>1. /\ status' = "connected" /\ tries' = 0 /\ attempt' = 0
          /\ IF g = generation THEN DropsClient ELSE UNCHANGED <<client, retryTimer, auto>>
      BY <1>9, <2>3 DEF SocketCloses, Connected
    <3>2. client' \in 0 .. MaxGen /\ (retryTimer' => auto')
      BY <3>1, Drops DEF DropsClient
    <3>3. ~auto' /\ ~disposed => g = generation
      BY <2>3, <3>1
    <3>4. NoneIsYounger'
      BY <2>1, <3>1
    <3> QED
      BY <2>1, <2>2, <2>3, <3>1, <3>2, <3>3, <3>4
  <2>4. CASE ~(attempt = g /\ linkStage = "optional") /\ g = generation
    <3>1. LosesLink /\ attempt' = IF attempt = g THEN 0 ELSE attempt
      BY <1>9, <2>4 DEF SocketCloses
    <3>2. attempt' = 0
      BY <2>1, <2>4, <3>1
    <3>3. NoneIsYounger'
      BY <2>1, <3>2
    <3>4. CASE ~disposed
      BY <2>1, <2>2, <2>4, <3>1, <3>2, <3>3, <3>4, Loss
    <3>5. CASE disposed
      <4>1. status' = "disconnected" /\ client' = 0 /\ tries' \in Nat /\ (retryTimer' => auto')
        BY <3>1, Drops DEF LosesLink, DropsClient
      <4> QED
        BY <2>1, <2>2, <3>2, <3>3, <3>5, <4>1
    <3> QED
      BY <3>4, <3>5
  <2>5. CASE ~(attempt = g /\ linkStage = "optional") /\ g # generation
    <3>1. /\ UNCHANGED <<client, status, retryTimer, tries, auto>>
          /\ attempt' = IF attempt = g THEN 0 ELSE attempt
      BY <1>9, <2>5 DEF SocketCloses
    <3> QED
      BY <2>1, <2>2, <2>5, <3>1
  <2> QED
    BY <2>3, <2>4, <2>5
<1>10. CASE UNCHANGED linkVars
  BY <1>10 DEF linkVars
<1> QED
  BY <1>1, <1>2, <1>3, <1>4, <1>5, <1>6, <1>7, <1>8, <1>9, <1>10 DEF LinkNext

(* A host that lost its transport has its retry timer armed, or has used   *)
(* up all tiers: whatever order losses, late closes, manual reconnects and *)
(* failing connects take, for any number of tiers and of connects.         *)
THEOREM LossesAreRetried == LinkSpec => []LossIsRetried
<1>1. LinkInv => LossIsRetried
  BY DEF LinkInv
<1>2. LinkInit => LinkInv
  BY InitLinkInv
<1>3. LinkInv /\ [LinkNext]_linkVars => LinkInv'
  BY NextLinkInv
<1> QED
  BY <1>1, <1>2, <1>3, PTL DEF LinkSpec

-----------------------------------------------------------------------------
TerminalTypeOK ==
    /\ call \in [Terminal -> {"none", "spawning", "live", "rolling", "gone"}]
    /\ name \in [Terminal -> Name \cup {"unnamed"}]
    /\ shell \in [Terminal -> {"none", "running", "exited"}]

(* The disposal awaits every terminal that is left, or its close failed. *)
DisposalKnows == disposing => \A t \in LiveTerminals : t \in doomed \cup failed

(* A shell runs for a call only. *)
ShellHasCall == \A t \in Terminal : call[t] = "none" => shell[t] = "none"

TerminalInv == TerminalTypeOK /\ DisposalKnows /\ ShellHasCall /\ NoOrphanShell /\ NamesAreUnique

(* No terminal at first. *)
LEMMA InitTerminalInv == TerminalsInit => TerminalInv
BY DEF TerminalsInit, TerminalInv, TerminalTypeOK, DisposalKnows, ShellHasCall, NoOrphanShell,
       NamesAreUnique, LiveTerminals

(* A call goes from one state to another in which its name is no less its  *)
(* own, and keeps its shell.                                               *)
LEMMA NextTerminalInv == TerminalInv /\ [TerminalsNext]_terminalVars => TerminalInv'
<1> SUFFICES ASSUME TerminalInv, [TerminalsNext]_terminalVars PROVE TerminalInv'
  OBVIOUS
<1> USE DEF TerminalInv, TerminalTypeOK, DisposalKnows, ShellHasCall, NoOrphanShell,
            NamesAreUnique, LiveTerminals
<1>1. ASSUME NEW t \in Terminal, Spawn(t) PROVE TerminalInv'
  BY <1>1 DEF Spawn, Free, Reserved
<1>2. ASSUME NEW t \in Terminal, BackendStarts(t) PROVE TerminalInv'
  BY <1>2 DEF BackendStarts
<1>3. ASSUME NEW t \in Terminal, BackendFails(t) PROVE TerminalInv'
  BY <1>3 DEF BackendFails
<1>4. ASSUME NEW t \in Terminal, Published(t) PROVE TerminalInv'
  BY <1>4 DEF Published
<1>5. ASSUME NEW t \in Terminal, RollbackEnds(t) PROVE TerminalInv'
  BY <1>5 DEF RollbackEnds
<1>6. ASSUME NEW t \in Terminal, Exits(t) PROVE TerminalInv'
  BY <1>6 DEF Exits
<1>7. ASSUME NEW t \in Terminal, CloseEnds(t) PROVE TerminalInv'
  BY <1>7 DEF CloseEnds
<1>8. CASE DisposeAll
  BY <1>8 DEF DisposeAll
<1>9. CASE Disposed
  BY <1>9 DEF Disposed
<1>10. ASSUME NEW t \in Terminal, AbortSpawn(t) \/ StartSend(t) \/ SendEnds(t) \/ Kill(t)
       PROVE  TerminalInv'
  BY <1>10 DEF AbortSpawn, StartSend, SendEnds, Kill
<1>11. CASE UNCHANGED terminalVars
  BY <1>11 DEF terminalVars
<1> QED
  BY <1>1, <1>2, <1>3, <1>4, <1>5, <1>6, <1>7, <1>8, <1>9, <1>10, <1>11 DEF TerminalsNext

(* A running shell is in the registry or in a call that will close it,     *)
(* unless its close failed, for any number of terminals.                   *)
THEOREM ShellsAreHeld == TerminalsSpec => []NoOrphanShell
<1>1. TerminalInv => NoOrphanShell
  BY DEF TerminalInv
<1> QED
  BY <1>1, InitTerminalInv, NextTerminalInv, PTL DEF TerminalsSpec

(* No two terminals that are asked for, live or closing share a name.      *)
THEOREM NamesTellTerminalsApart == TerminalsSpec => []NamesAreUnique
<1>1. TerminalInv => NamesAreUnique
  BY DEF TerminalInv
<1> QED
  BY <1>1, InitTerminalInv, NextTerminalInv, PTL DEF TerminalsSpec

-----------------------------------------------------------------------------
(* Team runs and the job board. *)

TeamTypeOK ==
    /\ dependsOn \in [Agent -> SUBSET Agent]
    /\ stage \in [Run -> {"new", "ready", "wave", "refused", "completed", "failed"}]
    /\ agents \in [Run -> [Agent -> {"waiting", "running", "ok", "failed"}]]
    /\ retried \in [Run -> [Agent -> Nat]]
    /\ jobId \in Run \cup {"none"}
    /\ board \in [Run -> [status : {"none", "running", "completed", "failed"},
                          rows : [Agent -> {"none", "pending", "running", "completed", "failed"}]]]

UnderWay(r) == stage[r] \in {"ready", "wave"}

(* What a row shows of an agent while the run is under way. *)
RowOf(state) ==
    CASE state = "waiting" -> "pending" [] state = "running" -> "running"
      [] state = "ok" -> "completed" [] state = "failed" -> "failed"

(* An agent starts behind the success of those it depends on.              *)
InOrder(r) ==
    \A a \in Agent : agents[r][a] # "waiting" =>
        \A d \in dependsOn[a] : agents[r][d] = "ok"

RunInv(r) ==
    /\ stage[r] \in {"new", "refused"} => \A a \in Agent : agents[r][a] = "waiting"
    /\ UnderWay(r) => jobId = r /\ \A a \in Agent : board[r].rows[a] = RowOf(agents[r][a])
    /\ jobId = r => UnderWay(r)
    /\ stage[r] # "wave" => \A a \in Agent : agents[r][a] # "running"
    /\ stage[r] = "ready" => \A a \in Agent : agents[r][a] # "failed"
    /\ InOrder(r)

TeamInv == TeamTypeOK /\ (~overlapped => \A r \in Run : RunInv(r)) /\ BoardTells

(* Nothing runs and the board is empty at first. *)
LEMMA InitTeamInv == TeamInit => TeamInv
BY TeamAssumption
   DEF TeamInit, TeamInv, TeamTypeOK, RunInv, UnderWay, InOrder, BoardTells, NoJob

(* A run that starts, while no other is under way, and a run that goes on  *)
(* leave the other runs and their rows alone.                              *)
LEMMA OthersRest ==
  ASSUME TeamInv, ~overlapped, NEW r \in Run, NEW q \in Run, q # r,
         jobId' = jobId \/ ~UnderWay(q), jobId' = q => jobId = q,
         board'[q] = board[q], stage'[q] = stage[q], agents'[q] = agents[q],
         dependsOn' = dependsOn
  PROVE  RunInv(q)'
BY DEF TeamInv, RunInv, UnderWay, InOrder

(* What the board tells of a run that has ended, said of that run alone.   *)
Tells(r) ==
    stage[r] \in {"completed", "failed"} =>
        /\ board[r].status = stage[r]
        /\ \A a \in Agent : board[r].rows[a] = IF agents[r][a] = "ok" THEN "completed" ELSE "failed"

(* The board tells of every run, so it tells of each. *)
LEMMA TellsAll == TeamInv /\ ~overlapped => \A r \in Run : Tells(r)
BY DEF TeamInv, BoardTells, Tells

(* A step of run r is right if it is right for r and leaves the others be. *)
LEMMA StepOfRun ==
  ASSUME TeamInv, NEW r \in Run, TeamTypeOK', overlapped => overlapped',
         ~overlapped' => RunInv(r)' /\ Tells(r)',
         dependsOn' = dependsOn,
         \A q \in Run \ {r} :
            /\ stage'[q] = stage[q] /\ agents'[q] = agents[q]
            /\ ~overlapped' =>
                 board'[q] = board[q] /\ (jobId' = jobId \/ ~UnderWay(q)) /\ (jobId' = q => jobId = q)
  PROVE  TeamInv'
<1>1. ASSUME ~overlapped', NEW q \in Run, q # r PROVE RunInv(q)' /\ Tells(q)'
  <2>1. ~overlapped
    BY <1>1
  <2>2. RunInv(q)'
    BY <1>1, <2>1, OthersRest
  <2>3. Tells(q)'
    BY <1>1, <2>1, TellsAll DEF Tells
  <2> QED
    BY <2>2, <2>3
<1>2. ~overlapped' => \A q \in Run : RunInv(q)' /\ Tells(q)'
  BY <1>1
<1>3. BoardTells'
  <2>1. SUFFICES ASSUME NEW q \in Run, stage'[q] \in {"completed", "failed"}, ~overlapped'
                 PROVE  /\ board'[q].status = stage'[q]
                        /\ \A a \in Agent :
                              /\ board'[q].rows[a] =
                                    IF agents'[q][a] = "ok" THEN "completed" ELSE "failed"
                              /\ board'[q].rows[a] = "completed" =>
                                    \A d \in dependsOn'[a] : board'[q].rows[d] = "completed"
    BY DEF BoardTells
  <2>2. /\ board'[q].status = stage'[q]
        /\ \A a \in Agent : board'[q].rows[a] = IF agents'[q][a] = "ok" THEN "completed" ELSE "failed"
    BY <1>2, <2>1 DEF Tells
  <2>3. \A a \in Agent : agents'[q][a] # "waiting" => \A d \in dependsOn'[a] : agents'[q][d] = "ok"
    BY <1>2, <2>1 DEF RunInv, InOrder
  <2>4. \A a \in Agent : dependsOn'[a] \subseteq Agent
    BY DEF TeamTypeOK
  <2> QED
    BY <2>2, <2>3, <2>4
<1> QED
  BY <1>2, <1>3 DEF TeamInv

(* The steps of the agents of a wave change one agent and its row.         *)
LEMMA FinishesTeamInv ==
  ASSUME TeamInv, NEW r \in Run, NEW a \in Agent, NEW how \in {"ok", "failed"},
         AgentFinishes(r, a, how)
  PROVE  TeamInv'
<1> DEFINE row == IF how = "ok" THEN "completed" ELSE "failed"
<1>1. /\ agents[r][a] = "running" /\ agents' = [agents EXCEPT ![r][a] = how]
      /\ UNCHANGED <<dependsOn, stage, retried, jobId, overlapped>>
  BY DEF AgentFinishes
<1>2. board' = IF jobId = "none" THEN board
               ELSE [board EXCEPT ![jobId].rows = [x \in Agent |-> IF x = a THEN row ELSE @[x]]]
  BY DEF AgentFinishes, SetRows
<1>3. TeamTypeOK'
  <2>1. agents' \in [Run -> [Agent -> {"waiting", "running", "ok", "failed"}]]
    BY <1>1 DEF TeamInv, TeamTypeOK
  <2>2. board' \in [Run -> [status : {"none", "running", "completed", "failed"},
                            rows : [Agent -> {"none", "pending", "running", "completed", "failed"}]]]
    BY <1>2 DEF TeamInv, TeamTypeOK
  <2> QED
    BY <1>1, <2>1, <2>2 DEF TeamInv, TeamTypeOK
<1>4. ASSUME ~overlapped PROVE RunInv(r)' /\ Tells(r)'
  <2>1. RunInv(r)
    BY <1>4 DEF TeamInv
  <2>2. stage[r] = "wave" /\ jobId = r /\ jobId # "none"
    BY <1>1, <2>1, TeamAssumption DEF RunInv, UnderWay
  <2>3. \A x \in Agent : /\ agents'[r][x] = IF x = a THEN how ELSE agents[r][x]
                         /\ board'[r].rows[x] = IF x = a THEN row ELSE board[r].rows[x]
    BY <1>1, <1>2, <2>2 DEF TeamInv, TeamTypeOK
  <2>4. \A x \in Agent : board'[r].rows[x] = RowOf(agents'[r][x])
    BY <2>1, <2>2, <2>3 DEF RunInv, UnderWay, RowOf
  <2>5. InOrder(r)'
    BY <1>1, <2>1, <2>3 DEF RunInv, InOrder, TeamInv, TeamTypeOK
  <2> QED
    BY <1>1, <2>2, <2>4, <2>5 DEF RunInv, UnderWay, Tells
<1>5. \A q \in Run \ {r} : agents'[q] = agents[q] /\ (~overlapped => board'[q] = board[q])
  <2>1. ASSUME ~overlapped PROVE jobId = r
    BY <1>1, <2>1 DEF TeamInv, RunInv, UnderWay
  <2> QED
    BY <1>1, <1>2, <2>1 DEF TeamInv, TeamTypeOK
<1> QED
  BY <1>1, <1>3, <1>4, <1>5, StepOfRun

(* A start takes the tracker over. *)
LEMMA StartsTeamInv == ASSUME TeamInv, NEW r \in Run, RunStarts(r) PROVE TeamInv'
<1>1. /\ stage[r] = "new" /\ UNCHANGED <<dependsOn, agents, retried>>
      /\ stage' = [stage EXCEPT ![r] = IF Sortable THEN "ready" ELSE "refused"]
  BY DEF RunStarts
<1>2. CASE Sortable
  <2>1. /\ jobId' = r
        /\ board' = [board EXCEPT ![r] =
                        [status |-> "running", rows |-> [a \in Agent |-> "pending"]]]
        /\ overlapped' = (overlapped \/ \E q \in Run : UnderWay(q))
    BY <1>2 DEF RunStarts, UnderWay
  <2>2. TeamTypeOK'
    BY <1>1, <1>2, <2>1 DEF TeamInv, TeamTypeOK
  <2>3. ASSUME ~overlapped' PROVE RunInv(r)' /\ Tells(r)'
    <3>1. RunInv(r) /\ \A a \in Agent : agents[r][a] = "waiting"
      BY <1>1, <2>1, <2>3 DEF TeamInv, RunInv
    <3>2. stage'[r] = "ready" /\ \A a \in Agent : board'[r].rows[a] = "pending"
      BY <1>1, <1>2, <2>1 DEF TeamInv, TeamTypeOK
    <3> QED
      BY <1>1, <2>1, <3>1, <3>2 DEF RunInv, UnderWay, RowOf, InOrder, Tells
  <2>4. \A q \in Run \ {r} : stage'[q] = stage[q] /\ board'[q] = board[q]
    BY <1>1, <2>1 DEF TeamInv, TeamTypeOK
  <2> QED
    BY <1>1, <2>1, <2>2, <2>3, <2>4, StepOfRun
<1>3. CASE ~Sortable
  <2>1. UNCHANGED <<jobId, board, overlapped>>
    BY <1>3 DEF RunStarts
  <2>2. TeamTypeOK'
    BY <1>1, <1>3, <2>1 DEF TeamInv, TeamTypeOK
  <2>3. stage'[r] = "refused"
    BY <1>1, <1>3 DEF TeamInv, TeamTypeOK
  <2>4. ASSUME ~overlapped' PROVE RunInv(r)' /\ Tells(r)'
    BY <1>1, <2>1, <2>3, <2>4 DEF TeamInv, RunInv, UnderWay, InOrder, Tells
  <2>5. \A q \in Run \ {r} : stage'[q] = stage[q]
    BY <1>1 DEF TeamInv, TeamTypeOK
  <2> QED
    BY <1>1, <2>1, <2>2, <2>4, <2>5, StepOfRun
<1> QED
  BY <1>2, <1>3

(* A wave starts behind its dependencies. *)
LEMMA LaunchTeamInv == ASSUME TeamInv, NEW r \in Run, Launch(r) PROVE TeamInv'
<1>1. PICK wave \in SUBSET Agent :
        /\ wave \subseteq Ready(r)
        /\ agents' = [agents EXCEPT ![r] = [a \in Agent |-> IF a \in wave THEN "running" ELSE @[a]]]
        /\ SetRows([a \in wave |-> "running"])
  BY DEF Launch, Ready
<1>2. /\ stage[r] = "ready" /\ stage' = [stage EXCEPT ![r] = "wave"]
      /\ UNCHANGED <<dependsOn, retried, jobId, overlapped>>
  BY DEF Launch
<1>3. board' = IF jobId = "none" THEN board
               ELSE [board EXCEPT ![jobId].rows =
                       [a \in Agent |-> IF a \in wave THEN "running" ELSE @[a]]]
  BY <1>1 DEF SetRows
<1>4. TeamTypeOK'
  <2>1. agents' \in [Run -> [Agent -> {"waiting", "running", "ok", "failed"}]]
    BY <1>1 DEF TeamInv, TeamTypeOK
  <2>2. board' \in [Run -> [status : {"none", "running", "completed", "failed"},
                            rows : [Agent -> {"none", "pending", "running", "completed", "failed"}]]]
    BY <1>3 DEF TeamInv, TeamTypeOK
  <2> QED
    BY <1>2, <2>1, <2>2 DEF TeamInv, TeamTypeOK
<1>5. ASSUME ~overlapped PROVE RunInv(r)' /\ Tells(r)'
  <2>1. RunInv(r) /\ jobId = r /\ jobId # "none"
    BY <1>2, <1>5, TeamAssumption DEF TeamInv, RunInv, UnderWay
  <2>2. \A a \in Agent :
           /\ agents'[r][a] = IF a \in wave THEN "running" ELSE agents[r][a]
           /\ board'[r].rows[a] = IF a \in wave THEN "running" ELSE board[r].rows[a]
    BY <1>1, <1>3, <2>1 DEF TeamInv, TeamTypeOK
  <2>3. \A a \in Agent : agents[r][a] \in {"waiting", "ok"}
    BY <1>2, <2>1 DEF RunInv, TeamInv, TeamTypeOK
  <2>4. stage'[r] = "wave"
    BY <1>2 DEF TeamInv, TeamTypeOK
  <2>5. \A a \in Agent : board'[r].rows[a] = RowOf(agents'[r][a])
    BY <1>2, <2>1, <2>2 DEF RunInv, UnderWay, RowOf
  <2>6. InOrder(r)'
    <3>1. SUFFICES ASSUME NEW a \in Agent, agents'[r][a] # "waiting", NEW d \in dependsOn[a]
                   PROVE  agents'[r][d] = "ok"
      BY <1>2 DEF InOrder
    <3>2. d \in Agent
      BY DEF TeamInv, TeamTypeOK
    <3>3. agents[r][d] = "ok"
      BY <1>1, <2>1, <2>2, <2>3, <3>1, <3>2 DEF RunInv, InOrder, Ready, HasResult
    <3>4. d \notin wave
      BY <1>1, <3>3 DEF Ready
    <3> QED
      BY <2>2, <3>2, <3>3, <3>4
  <2> QED
    BY <1>2, <2>1, <2>4, <2>5, <2>6 DEF RunInv, UnderWay, Tells
<1>6. \A q \in Run \ {r} :
         /\ agents'[q] = agents[q] /\ stage'[q] = stage[q]
         /\ ~overlapped => board'[q] = board[q]
  <2>1. ASSUME ~overlapped PROVE jobId = r
    BY <1>2, <2>1 DEF TeamInv, RunInv, UnderWay
  <2> QED
    BY <1>1, <1>2, <1>3, <2>1 DEF TeamInv, TeamTypeOK
<1> QED
  BY <1>2, <1>4, <1>5, <1>6, StepOfRun

(* The end of a run gives its rows the status they keep.                   *)
LEMMA EndsTeamInv ==
  ASSUME TeamInv, NEW r \in Run, NEW verdict \in {"completed", "failed"},
         stage[r] = "wave", \A a \in Agent : agents[r][a] # "running",
         verdict = "completed" => \A a \in Agent : agents[r][a] = "ok",
         stage' = [stage EXCEPT ![r] = verdict], Finish(verdict),
         UNCHANGED <<dependsOn, parallel, agents, retried, overlapped>>
  PROVE  TeamInv'
<1>1. /\ jobId' = "none"
      /\ board' = IF jobId = "none" THEN board
                  ELSE [board EXCEPT ![jobId] =
                          [status |-> verdict,
                           rows |-> [a \in Agent |->
                              IF @.rows[a] \in {"pending", "running"} THEN verdict ELSE @.rows[a]]]]
  BY DEF Finish
<1>2. TeamTypeOK'
  <2>1. board' \in [Run -> [status : {"none", "running", "completed", "failed"},
                            rows : [Agent -> {"none", "pending", "running", "completed", "failed"}]]]
    BY <1>1 DEF TeamInv, TeamTypeOK
  <2> QED
    BY <1>1, <2>1 DEF TeamInv, TeamTypeOK
<1>3. ASSUME ~overlapped PROVE RunInv(r)' /\ Tells(r)'
  <2>1. RunInv(r) /\ jobId = r /\ jobId # "none"
    BY <1>3, TeamAssumption DEF TeamInv, RunInv, UnderWay
  <2>2. /\ board'[r].status = verdict
        /\ \A a \in Agent : board'[r].rows[a] =
              IF board[r].rows[a] \in {"pending", "running"} THEN verdict ELSE board[r].rows[a]
    BY <1>1, <2>1 DEF TeamInv, TeamTypeOK
  <2>3. \A a \in Agent : board[r].rows[a] = RowOf(agents[r][a])
    BY <2>1 DEF RunInv, UnderWay
  <2>4. \A a \in Agent : agents[r][a] \in {"waiting", "ok", "failed"}
    BY DEF TeamInv, TeamTypeOK
  <2>5. \A a \in Agent : board'[r].rows[a] = IF agents[r][a] = "ok" THEN "completed" ELSE "failed"
    BY <2>2, <2>3, <2>4 DEF RowOf
  <2>6. stage'[r] = verdict
    BY DEF TeamInv, TeamTypeOK
  <2>7. r # "none"
    BY TeamAssumption
  <2> QED
    BY <1>1, <2>1, <2>2, <2>5, <2>6, <2>7 DEF RunInv, UnderWay, InOrder, Tells
<1>4. \A q \in Run \ {r} :
         /\ stage'[q] = stage[q] /\ jobId' # q
         /\ ~overlapped => board'[q] = board[q] /\ ~UnderWay(q)
  <2>1. ASSUME ~overlapped PROVE jobId = r /\ \A q \in Run \ {r} : ~UnderWay(q)
    BY <2>1 DEF TeamInv, RunInv, UnderWay
  <2> QED
    BY <1>1, <2>1, TeamAssumption DEF TeamInv, TeamTypeOK
<1> QED
  BY <1>1, <1>2, <1>3, <1>4, StepOfRun

(* A wave ends the run, or the next one can start. *)
LEMMA WaveTeamInv == ASSUME TeamInv, NEW r \in Run, WaveEnds(r) PROVE TeamInv'
<1>1. /\ stage[r] = "wave" /\ \A a \in Agent : agents[r][a] # "running"
      /\ UNCHANGED <<dependsOn, parallel, agents, retried, overlapped>>
  BY DEF WaveEnds
<1>2. CASE \E a \in Agent : agents[r][a] = "failed"
  BY <1>1, <1>2, EndsTeamInv DEF WaveEnds
<1>3. CASE /\ ~\E a \in Agent : agents[r][a] = "failed"
           /\ ~\E a \in Agent : agents[r][a] = "waiting"
  <2>1. \A a \in Agent : agents[r][a] = "ok"
    BY <1>1, <1>3 DEF TeamInv, TeamTypeOK
  <2> QED
    BY <1>1, <1>3, <2>1, EndsTeamInv DEF WaveEnds
<1>4. CASE /\ ~\E a \in Agent : agents[r][a] = "failed"
           /\ \E a \in Agent : agents[r][a] = "waiting"
  <2>1. stage' = [stage EXCEPT ![r] = "ready"] /\ UNCHANGED <<board, jobId>>
    BY <1>4 DEF WaveEnds
  <2>2. TeamTypeOK'
    BY <1>1, <2>1 DEF TeamInv, TeamTypeOK
  <2>3. stage'[r] = "ready"
    BY <2>1 DEF TeamInv, TeamTypeOK
  <2>4. ASSUME ~overlapped PROVE RunInv(r)' /\ Tells(r)'
    BY <1>1, <1>4, <2>1, <2>3, <2>4 DEF TeamInv, RunInv, UnderWay, InOrder, Tells
  <2>5. \A q \in Run \ {r} : stage'[q] = stage[q]
    BY <2>1 DEF TeamInv, TeamTypeOK
  <2> QED
    BY <1>1, <2>1, <2>2, <2>4, <2>5, StepOfRun
<1> QED
  BY <1>2, <1>3, <1>4

(* Every step of every run keeps the invariant. *)
LEMMA NextTeamInv == TeamInv /\ [TeamNext]_teamVars => TeamInv'
<1> SUFFICES ASSUME TeamInv, [TeamNext]_teamVars PROVE TeamInv'
  OBVIOUS
<1>1. ASSUME NEW r \in Run, NEW a \in Agent, Retry(r, a) PROVE TeamInv'
  <2>1. /\ UNCHANGED <<dependsOn, parallel, stage, agents, jobId, board, overlapped>>
        /\ retried' = [retried EXCEPT ![r][a] = @ + 1]
    BY <1>1 DEF Retry
  <2>2. TeamTypeOK'
    BY <2>1 DEF TeamInv, TeamTypeOK
  <2> QED
    BY <2>1, <2>2 DEF TeamInv, RunInv, UnderWay, InOrder, BoardTells
<1>2. CASE UNCHANGED teamVars
  BY <1>2 DEF teamVars, TeamInv, TeamTypeOK, RunInv, UnderWay, InOrder, BoardTells
<1> QED
  BY <1>1, <1>2, StartsTeamInv, LaunchTeamInv, WaveTeamInv, FinishesTeamInv
     DEF TeamNext, AgentStep

(* The board tells how a run ended, unless runs of one team overlapped.    *)
THEOREM BoardTellsTheEnd == TeamSpec => []BoardTells
<1>1. TeamInv => BoardTells
  BY DEF TeamInv
<1> QED
  BY <1>1, InitTeamInv, NextTeamInv, PTL DEF TeamSpec
-----------------------------------------------------------------------------
(* The queue of the terminal host *)
InQueue(s) == {s[i] : i \in 1 .. Len(s)}
(* The invariant.  The queue's runs meet only because nothing waits while  *)
(* the host is idle: what is submitted then overtakes nothing.             *)
QueueInv ==
    /\ submitted \in Nat /\ busy \in BOOLEAN
    /\ sent \in Seq(Nat) /\ waiting \in Seq(Nat)
    /\ \A i, j \in 1 .. Len(sent) : i < j => sent[i] < sent[j]
    /\ \A i, j \in 1 .. Len(waiting) : i < j => waiting[i] < waiting[j]
    /\ \A i \in 1 .. Len(sent), j \in 1 .. Len(waiting) : sent[i] < waiting[j]
    /\ 1 .. submitted = InQueue(sent) \cup InQueue(waiting) \cup dropped
    /\ waiting # <<>> => busy

(* What the screen shows is no part of it.                                 *)
queueVars == <<submitted, busy, sent, waiting, dropped>>

LEMMA QueueStarts == TuiInit => QueueInv
<1> SUFFICES ASSUME TuiInit PROVE QueueInv OBVIOUS
<1>1. Len(sent) = 0 /\ Len(waiting) = 0 /\ sent \in Seq(Nat) /\ waiting \in Seq(Nat)
  BY EmptySeq DEF TuiInit
<1>2. InQueue(sent) = {} /\ InQueue(waiting) = {} BY <1>1 DEF InQueue
<1>3. submitted = 0 /\ busy = FALSE /\ waiting = <<>> /\ dropped = {} /\ 1 .. 0 = {}
  BY DEF TuiInit
<1> QED BY <1>1, <1>2, <1>3 DEF QueueInv

LEMMA QueueStays == ASSUME QueueInv, UNCHANGED queueVars PROVE QueueInv'
BY DEF queueVars, QueueInv, InQueue

LEMMA LinesOfAppend ==
    ASSUME NEW s \in Seq(Nat), NEW k \in Nat
    PROVE  LET more == Append(s, k) IN
           /\ more \in Seq(Nat) /\ Len(more) = Len(s) + 1 /\ more[Len(s) + 1] = k
           /\ \A i \in 1 .. Len(s) : more[i] = s[i]
           /\ InQueue(more) = InQueue(s) \cup {k}
<1> PICK more : more = Append(s, k) OBVIOUS
<1>1. /\ more \in Seq(Nat) /\ Len(s) \in Nat /\ Len(more) = Len(s) + 1 /\ more[Len(s) + 1] = k
      /\ \A i \in 1 .. Len(s) : more[i] = s[i]
  BY AppendProperties
<1>2. InQueue(more) = InQueue(s) \cup {k}
  <2>1. \A i \in 1 .. Len(more) : i \in 1 .. Len(s) \/ i = Len(s) + 1 BY <1>1
  <2>2. InQueue(more) \subseteq InQueue(s) \cup {k} BY <1>1, <2>1 DEF InQueue
  <2>3. Len(s) + 1 \in 1 .. Len(more) /\ 1 .. Len(s) \subseteq 1 .. Len(more) BY <1>1
  <2>4. InQueue(s) \cup {k} \subseteq InQueue(more) BY <1>1, <2>3 DEF InQueue
  <2> QED BY <2>2, <2>4
<1> QED BY <1>1, <1>2

LEMMA LinesOfTail ==
    ASSUME NEW s \in Seq(Nat), s # <<>>
    PROVE  LET rest == Tail(s) IN
           /\ rest \in Seq(Nat) /\ Len(rest) = Len(s) - 1 /\ Len(s) \in Nat \ {0} /\ Head(s) = s[1]
           /\ \A i \in 1 .. Len(rest) : rest[i] = s[i + 1] /\ i + 1 \in 1 .. Len(s)
           /\ InQueue(s) = {s[1]} \cup InQueue(rest)
<1> PICK rest : rest = Tail(s) OBVIOUS
<1>1. /\ rest \in Seq(Nat) /\ Len(rest) = Len(s) - 1 /\ Len(s) \in Nat \ {0} /\ Head(s) = s[1]
      /\ \A i \in 1 .. Len(rest) : rest[i] = s[i + 1] /\ i + 1 \in 1 .. Len(s)
  BY HeadTailProperties, EmptySeq, LenProperties
<1>2. InQueue(s) = {s[1]} \cup InQueue(rest)
  <2>1. {s[1]} \cup InQueue(rest) \subseteq InQueue(s) BY <1>1 DEF InQueue
  <2>2. InQueue(s) \subseteq {s[1]} \cup InQueue(rest)
    <3> SUFFICES ASSUME NEW i \in 1 .. Len(s), i # 1 PROVE s[i] \in InQueue(rest) BY DEF InQueue
    <3> PICK j \in 1 .. Len(rest) : i = j + 1 BY <1>1
    <3> QED BY <1>1 DEF InQueue
  <2> QED BY <2>1, <2>2
<1> QED BY <1>1, <1>2

LEMMA SubmitsKeeps == ASSUME QueueInv, Submits PROVE QueueInv'
<1> PICK k : k = submitted + 1 OBVIOUS
<1>1. k \in Nat /\ submitted' = k /\ 1 .. k = (1 .. submitted) \cup {k} /\ dropped' = dropped /\ submitted \in Nat
  BY DEF QueueInv, Submits
<1>2. \A i \in 1 .. Len(sent) : sent[i] < k
  <2> SUFFICES ASSUME NEW i \in 1 .. Len(sent) PROVE sent[i] < k OBVIOUS
  <2>1. sent[i] \in 1 .. submitted BY DEF QueueInv, InQueue
  <2> QED BY <1>1, <2>1
<1>3. \A i \in 1 .. Len(waiting) : waiting[i] < k
  <2> SUFFICES ASSUME NEW i \in 1 .. Len(waiting) PROVE waiting[i] < k OBVIOUS
  <2>1. waiting[i] \in 1 .. submitted BY DEF QueueInv, InQueue
  <2> QED BY <1>1, <2>1
<1>4. CASE ~busy /\ StartsPrompt(k, ui) /\ UNCHANGED waiting
  <2>1. busy' = TRUE /\ sent' = Append(sent, k) /\ waiting = <<>> /\ waiting' = <<>> /\ Len(waiting') = 0
    BY <1>4 DEF StartsPrompt, QueueInv
  <2>2. /\ sent' \in Seq(Nat) /\ Len(sent') = Len(sent) + 1 /\ sent'[Len(sent) + 1] = k /\ Len(sent) \in Nat
        /\ \A i \in 1 .. Len(sent) : sent'[i] = sent[i]
        /\ InQueue(sent') = InQueue(sent) \cup {k}
    BY <1>1, <2>1, LinesOfAppend DEF QueueInv
  <2>3. 1 .. submitted' = InQueue(sent') \cup InQueue(waiting') \cup dropped'
    BY <1>1, <2>1, <2>2 DEF QueueInv
  <2>4. \A i, j \in 1 .. Len(sent') : i < j => sent'[i] < sent'[j]
    <3> SUFFICES ASSUME NEW i \in 1 .. Len(sent'), NEW j \in 1 .. Len(sent'), i < j PROVE sent'[i] < sent'[j]
      OBVIOUS
    <3>1. i \in 1 .. Len(sent) BY <2>2
    <3>2. CASE j \in 1 .. Len(sent) BY <2>2, <3>1, <3>2 DEF QueueInv
    <3>3. CASE j = Len(sent) + 1 BY <1>2, <2>2, <3>1, <3>3
    <3> QED BY <2>2, <3>2, <3>3
  <2> QED BY <1>1, <2>1, <2>2, <2>3, <2>4 DEF QueueInv
<1>5. CASE busy /\ waiting' = Append(waiting, k) /\ UNCHANGED <<busy, sent>>
  <2>1. /\ waiting' \in Seq(Nat) /\ Len(waiting') = Len(waiting) + 1 /\ waiting'[Len(waiting) + 1] = k /\ Len(waiting) \in Nat
        /\ \A i \in 1 .. Len(waiting) : waiting'[i] = waiting[i]
        /\ InQueue(waiting') = InQueue(waiting) \cup {k}
    BY <1>1, <1>5, LinesOfAppend DEF QueueInv
  <2>2. \A i \in 1 .. Len(waiting') : i \in 1 .. Len(waiting) \/ i = Len(waiting) + 1 BY <2>1
  <2>3. 1 .. submitted' = InQueue(sent') \cup InQueue(waiting') \cup dropped' 
    <3>1. InQueue(sent') = InQueue(sent) BY <1>5 DEF InQueue
    <3> QED BY <1>1, <2>1, <3>1 DEF QueueInv
  <2>4. \A i, j \in 1 .. Len(waiting') : i < j => waiting'[i] < waiting'[j]
    <3> SUFFICES ASSUME NEW i \in 1 .. Len(waiting'), NEW j \in 1 .. Len(waiting'), i < j PROVE waiting'[i] < waiting'[j]
      OBVIOUS
    <3>1. i \in 1 .. Len(waiting) BY <2>1
    <3>2. CASE j \in 1 .. Len(waiting) BY <2>1, <3>1, <3>2 DEF QueueInv
    <3>3. CASE j = Len(waiting) + 1 BY <1>3, <2>1, <3>1, <3>3
    <3> QED BY <2>2, <3>2, <3>3
  <2>5. \A i \in 1 .. Len(sent'), j \in 1 .. Len(waiting') : sent'[i] < waiting'[j]
    BY <1>2, <1>5, <2>1, <2>2 DEF QueueInv
  <2>6. submitted' \in Nat /\ busy' \in BOOLEAN /\ sent' \in Seq(Nat) /\ (waiting' # <<>> => busy')
        /\ \A i, j \in 1 .. Len(sent') : i < j => sent'[i] < sent'[j]
    BY <1>1, <1>5 DEF QueueInv
  <2> QED BY <2>1, <2>3, <2>4, <2>5, <2>6 DEF QueueInv
<1> QED BY <1>4, <1>5 DEF Submits

LEMMA PlacesAround ==
    ASSUME NEW n \in Nat, NEW d \in 1 .. n, NEW f \in Nat, NEW g \in Nat, f = d - 1, g = n - d,
           NEW i \in 1 .. n - 1
    PROVE  /\ f + g = n - 1 /\ i \in 1 .. f + g
           /\ i < d => i \in 1 .. d - 1 /\ i \in 1 .. n /\ i \in 1 .. f
           /\ ~(i < d) => i > f /\ i - f \in 1 .. n - d /\ i - f + d = i + 1 /\ i + 1 \in 1 .. n
OBVIOUS

LEMMA JoinedWithout ==
    ASSUME NEW s, NEW n \in Nat, NEW d \in 1 .. n,
           NEW front \in Seq(Nat), Len(front) = d - 1, \A i \in 1 .. d - 1 : front[i] = s[i],
           NEW back \in Seq(Nat), Len(back) = n - d, \A i \in 1 .. n - d : back[i] = s[i + d],
           NEW i \in 1 .. n - 1, NEW next, next = i + 1
    PROVE  LET joined == front \o back IN
           /\ i < d => i \in 1 .. n /\ joined[i] = s[i]
           /\ ~(i < d) => next \in 1 .. n /\ joined[i] = s[next]
<1> PICK joined : joined = front \o back OBVIOUS
<1> PICK f, g : f = Len(front) /\ g = Len(back) OBVIOUS
<1>1. f \in Nat /\ g \in Nat /\ f = d - 1 /\ g = n - d BY LenProperties
<1>2. /\ f + g = n - 1 /\ i \in 1 .. f + g
      /\ i < d => i \in 1 .. d - 1 /\ i \in 1 .. n /\ i \in 1 .. f
      /\ ~(i < d) => i > f /\ i - f \in 1 .. n - d /\ i - f + d = i + 1 /\ i + 1 \in 1 .. n
  BY <1>1, PlacesAround
<1>3. joined[i] = IF i <= f THEN front[i] ELSE back[i - f] BY <1>2, ConcatProperties
<1>4. CASE i < d
  <2>1. i \in 1 .. d - 1 /\ i \in 1 .. n /\ i <= f BY <1>1, <1>2, <1>4
  <2>2. joined[i] = front[i] BY <1>3, <2>1
  <2>3. joined[i] = s[i] BY <2>1, <2>2
  <2> QED BY <1>4, <2>1, <2>3
<1>5. CASE ~(i < d)
  <2>1. joined[i] = back[i - f] BY <1>1, <1>2, <1>3, <1>5
  <2> QED BY <1>2, <1>5, <2>1
<1> QED BY <1>4, <1>5

LEMMA DropsQueuedKeeps == ASSUME QueueInv, NEW d, DropsQueued(d) PROVE QueueInv'
<1> PICK n : n = Len(waiting) OBVIOUS
<1>1. waiting \in Seq(Nat) /\ n \in Nat /\ d \in 1 .. n /\ waiting' = SubSeq(waiting, 1, d - 1) \o SubSeq(waiting, d + 1, n)
      /\ dropped' = dropped \cup {waiting[d]} /\ UNCHANGED <<submitted, busy, sent>>
  BY DEF QueueInv, DropsQueued, RemoveAt
<1>0. n \in Nat /\ d \in Nat /\ 1 <= d /\ d <= n BY <1>1
<1>c. /\ waiting' \in Seq(Nat) /\ Len(waiting') = n - 1
      /\ \A i \in 1 .. n - 1 : \A next : next = i + 1 =>
            /\ i < d => i \in 1 .. n /\ waiting'[i] = waiting[i]
            /\ ~(i < d) => next \in 1 .. n /\ waiting'[i] = waiting[next]
  <2>1. \E front, back :
           /\ front \in Seq(Nat) /\ Len(front) = d - 1 /\ \A i \in 1 .. d - 1 : front[i] = waiting[i]
           /\ back \in Seq(Nat) /\ Len(back) = n - d /\ \A i \in 1 .. n - d : back[i] = waiting[i + d]
           /\ waiting' = front \o back
    <3> PICK front, back : front = SubSeq(waiting, 1, d - 1) /\ back = SubSeq(waiting, d + 1, n)
      OBVIOUS
    <3>1. front \in Seq(Nat) /\ Len(front) = d - 1 /\ \A i \in 1 .. d - 1 : front[i] = waiting[i]
      BY <1>1, SubSeqProperties
    <3>2. back \in Seq(Nat) /\ Len(back) = n - d /\ \A i \in 1 .. n - d : back[i] = waiting[i + d]
      BY <1>1, SubSeqProperties
    <3>3. waiting' = front \o back BY <1>1
    <3> QED BY <3>1, <3>2, <3>3
  <2> PICK front, back :
           /\ front \in Seq(Nat) /\ Len(front) = d - 1 /\ \A i \in 1 .. d - 1 : front[i] = waiting[i]
           /\ back \in Seq(Nat) /\ Len(back) = n - d /\ \A i \in 1 .. n - d : back[i] = waiting[i + d]
           /\ waiting' = front \o back
    BY <2>1
  <2>2. waiting' \in Seq(Nat) /\ Len(waiting') = n - 1
    <3> PICK f, g : f = Len(front) /\ g = Len(back) OBVIOUS
    <3>1. waiting' \in Seq(Nat) /\ Len(waiting') = f + g BY ConcatProperties
    <3>2. f = d - 1 /\ g = n - d OBVIOUS
    <3>3. f + g = n - 1 BY <1>0, <3>2
    <3> QED BY <3>1, <3>3
  <2>3. d \in 1 .. n BY <1>0
  <2>4. ASSUME NEW i \in 1 .. n - 1, NEW next, next = i + 1
        PROVE  /\ i < d => i \in 1 .. n /\ waiting'[i] = waiting[i]
               /\ ~(i < d) => next \in 1 .. n /\ waiting'[i] = waiting[next]
    BY <1>0, <2>3, <2>4, JoinedWithout
  <2> QED BY <2>2, <2>4
<1>d. ASSUME NEW i \in 1 .. n - 1, i < d PROVE i \in 1 .. n /\ waiting'[i] = waiting[i]
  <2> PICK next : next = i + 1 OBVIOUS
  <2> QED BY <1>c, <1>d
<1>e. ASSUME NEW i \in 1 .. n - 1, NEW k, k = i + 1, ~(i < d) PROVE k \in 1 .. n /\ waiting'[i] = waiting[k]
  BY <1>c, <1>e
<1>4. waiting' \in Seq(Nat) /\ Len(waiting') = n - 1 BY <1>c
<1>5. ASSUME NEW i \in 1 .. n - 1 PROVE \E k \in 1 .. n : waiting'[i] = waiting[k] /\ k >= i /\ k # d /\ k <= i + 1 /\ (k > i <=> ~(i < d))
  <2>1. CASE i < d BY <1>0, <1>d, <2>1
  <2>2. CASE ~(i < d)
    <3> PICK k : k = i + 1 OBVIOUS
    <3>1. k \in 1 .. n /\ waiting'[i] = waiting[k] BY <1>e, <2>2
    <3> QED BY <1>0, <2>2, <3>1
  <2> QED BY <2>1, <2>2
<1>6. \A i, j \in 1 .. Len(waiting') : i < j => waiting'[i] < waiting'[j]
  <2> SUFFICES ASSUME NEW i \in 1 .. n - 1, NEW j \in 1 .. n - 1, i < j PROVE waiting'[i] < waiting'[j]
    BY <1>4
  <2> PICK k \in 1 .. n : waiting'[i] = waiting[k] /\ k <= i + 1 /\ (k > i <=> ~(i < d)) BY <1>5
  <2> PICK m \in 1 .. n : waiting'[j] = waiting[m] /\ m >= j /\ (m > j <=> ~(j < d)) BY <1>5
  <2>1. k < m BY <1>1
  <2> QED BY <2>1 DEF QueueInv
<1>7. InQueue(waiting') \cup {waiting[d]} = InQueue(waiting)
  <2>1. InQueue(waiting') \cup {waiting[d]} \subseteq InQueue(waiting) 
    <3>1. waiting[d] \in InQueue(waiting) BY <1>1 DEF InQueue
    <3> SUFFICES ASSUME NEW i \in 1 .. n - 1 PROVE waiting'[i] \in InQueue(waiting)
      BY <1>4, <3>1 DEF InQueue
    <3> PICK k \in 1 .. n : waiting'[i] = waiting[k] BY <1>5
    <3> QED BY DEF InQueue
  <2>2. ASSUME NEW k \in 1 .. n, k # d PROVE waiting[k] \in InQueue(waiting')
    <3>1. CASE k < d
      <4>1. k \in 1 .. n - 1 /\ waiting'[k] = waiting[k] BY <1>0, <1>d, <3>1
      <4> QED BY <1>4, <4>1 DEF InQueue
    <3>2. CASE k > d
      <4> PICK i : i = k - 1 OBVIOUS
      <4>1. i \in 1 .. n - 1 /\ k = i + 1 /\ ~(i < d) BY <1>1, <3>2
      <4>2. waiting'[i] = waiting[k] BY <1>e, <4>1
      <4> QED BY <1>4, <4>1, <4>2 DEF InQueue
    <3> QED BY <1>0, <2>2, <3>1, <3>2
  <2>3. InQueue(waiting) \subseteq InQueue(waiting') \cup {waiting[d]} BY <2>2 DEF InQueue
  <2> QED BY <2>1, <2>3
<1>8. 1 .. submitted' = InQueue(sent') \cup InQueue(waiting') \cup dropped'
  <2>1. submitted' = submitted /\ sent' = sent /\ dropped' = dropped \cup {waiting[d]}
    BY <1>1
  <2>2. 1 .. submitted = InQueue(sent) \cup InQueue(waiting) \cup dropped BY DEF QueueInv
  <2>3. InQueue(sent') = InQueue(sent) BY <2>1
  <2> QED BY <1>7, <2>1, <2>2, <2>3
<1>9. \A i \in 1 .. Len(sent'), j \in 1 .. Len(waiting') : sent'[i] < waiting'[j]
  <2> SUFFICES ASSUME NEW i \in 1 .. Len(sent), NEW j \in 1 .. n - 1 PROVE sent[i] < waiting'[j]
    BY <1>1, <1>4
  <2> PICK k \in 1 .. n : waiting'[j] = waiting[k] BY <1>5
  <2> QED BY DEF QueueInv
<1>10. waiting' # <<>> => busy'
  <2>1. waiting # <<>> BY <1>1, EmptySeq
  <2> QED BY <1>1, <2>1 DEF QueueInv
<1> QED BY <1>1, <1>4, <1>6, <1>8, <1>9, <1>10 DEF QueueInv

LEMMA DrainsKeeps ==
  ASSUME QueueInv, busy, NEW u, Drains(u), UNCHANGED <<submitted, dropped>>
  PROVE  QueueInv'
<1>1. CASE waiting = <<>>
  <2>1. busy' = FALSE /\ UNCHANGED <<sent, waiting>> BY <1>1 DEF Drains
  <2> QED BY <1>1, <2>1 DEF QueueInv, InQueue
<1>2. CASE waiting # <<>>
  <2> PICK k : k = Head(waiting) OBVIOUS
  <2>1. busy' = TRUE /\ sent' = Append(sent, k) /\ waiting' = Tail(waiting)
    BY <1>2 DEF Drains, StartsPrompt
  <2>2. /\ waiting' \in Seq(Nat) /\ Len(waiting') = Len(waiting) - 1 /\ Len(waiting) \in Nat \ {0} /\ k = waiting[1]
        /\ \A i \in 1 .. Len(waiting') : waiting'[i] = waiting[i + 1] /\ i + 1 \in 1 .. Len(waiting)
        /\ InQueue(waiting) = {k} \cup InQueue(waiting')
    BY <1>2, <2>1, LinesOfTail DEF QueueInv
  <2>3. k \in Nat /\ 1 \in 1 .. Len(waiting) BY <2>2 DEF QueueInv
  <2>4. /\ sent' \in Seq(Nat) /\ Len(sent') = Len(sent) + 1 /\ sent'[Len(sent) + 1] = k /\ Len(sent) \in Nat
        /\ \A i \in 1 .. Len(sent) : sent'[i] = sent[i]
        /\ InQueue(sent') = InQueue(sent) \cup {k}
    BY <2>1, <2>3, LinesOfAppend DEF QueueInv
  <2>5. \A i \in 1 .. Len(sent') : i \in 1 .. Len(sent) \/ i = Len(sent) + 1 BY <2>4
  <2>6. \A i \in 1 .. Len(sent) : sent[i] < k BY <2>2, <2>3 DEF QueueInv
  <2>7. \A j \in 1 .. Len(waiting') : k < waiting'[j]
    <3> SUFFICES ASSUME NEW j \in 1 .. Len(waiting') PROVE k < waiting'[j] OBVIOUS
    <3> PICK m \in 1 .. Len(waiting) : m = j + 1 BY <2>2
    <3>1. 1 < m BY <2>2
    <3> QED BY <2>2, <2>3, <3>1 DEF QueueInv
  <2>8. \A i, j \in 1 .. Len(sent') : i < j => sent'[i] < sent'[j]
    <3> SUFFICES ASSUME NEW i \in 1 .. Len(sent'), NEW j \in 1 .. Len(sent'), i < j PROVE sent'[i] < sent'[j]
      OBVIOUS
    <3>1. i \in 1 .. Len(sent) BY <2>4
    <3>2. CASE j \in 1 .. Len(sent) BY <2>4, <3>1, <3>2 DEF QueueInv
    <3>3. CASE j = Len(sent) + 1 BY <2>4, <2>6, <3>1, <3>3
    <3> QED BY <2>5, <3>2, <3>3
  <2>9. \A i, j \in 1 .. Len(waiting') : i < j => waiting'[i] < waiting'[j]
    <3> SUFFICES ASSUME NEW i \in 1 .. Len(waiting'), NEW j \in 1 .. Len(waiting'), i < j PROVE waiting'[i] < waiting'[j]
      OBVIOUS
    <3> PICK k1 \in 1 .. Len(waiting), k2 \in 1 .. Len(waiting) : k1 = i + 1 /\ k2 = j + 1 BY <2>2
    <3>1. k1 < k2 /\ waiting'[i] = waiting[k1] /\ waiting'[j] = waiting[k2] BY <2>2
    <3> QED BY <3>1 DEF QueueInv
  <2>10. \A i \in 1 .. Len(sent'), j \in 1 .. Len(waiting') : sent'[i] < waiting'[j]
    <3> SUFFICES ASSUME NEW i \in 1 .. Len(sent'), NEW j \in 1 .. Len(waiting') PROVE sent'[i] < waiting'[j]
      OBVIOUS
    <3>1. CASE i \in 1 .. Len(sent)
      <4> PICK m \in 1 .. Len(waiting) : m = j + 1 BY <2>2
      <4> QED BY <2>2, <2>4, <3>1 DEF QueueInv
    <3>2. CASE i = Len(sent) + 1 BY <2>4, <2>7, <3>2
    <3> QED BY <2>5, <3>1, <3>2
  <2>11. 1 .. submitted' = InQueue(sent') \cup InQueue(waiting') \cup dropped'
    BY <2>2, <2>4 DEF QueueInv
  <2> QED BY <2>1, <2>2, <2>4, <2>8, <2>9, <2>10, <2>11 DEF QueueInv
<1> QED BY <1>1, <1>2

LEMMA QueueSteps == QueueInv /\ [TuiNext]_tuiVars => QueueInv'
<1> SUFFICES ASSUME QueueInv, [TuiNext]_tuiVars PROVE QueueInv' OBVIOUS
<1>1. CASE UNCHANGED tuiVars BY <1>1, QueueStays DEF tuiVars, queueVars
<1>2. CASE TokenComes BY <1>2, QueueStays DEF TokenComes, queueVars
<1>3. CASE ToolCalled BY <1>3, QueueStays DEF ToolCalled, queueVars
<1>4. CASE AgentEnds BY <1>4, QueueStays DEF AgentEnds, queueVars
<1>5. CASE Replays BY <1>5, QueueStays DEF Replays, queueVars
<1>6. CASE PromptReturns
  <2> PICK u : Drains(u) BY <1>6 DEF PromptReturns
  <2> QED BY <1>6, DrainsKeeps DEF PromptReturns
<1>7. CASE PromptFails
  <2> PICK u : Drains(u) BY <1>7 DEF PromptFails
  <2> QED BY <1>7, DrainsKeeps DEF PromptFails
<1>8. CASE Cancels BY <1>8, QueueStays DEF Cancels, queueVars
<1>9. CASE Clears BY <1>9, QueueStays DEF Clears, queueVars
<1>10. CASE Opens BY <1>10, QueueStays DEF Opens, queueVars
<1>11. CASE Opened BY <1>11, QueueStays DEF Opened, queueVars
<1>12. CASE OpenFails BY <1>12, QueueStays DEF OpenFails, queueVars
<1>14. CASE Named BY <1>14, QueueStays DEF Named, queueVars
<1>15. CASE FollowUpEnds BY <1>15, QueueStays DEF FollowUpEnds, queueVars
<1>13. ASSUME NEW x \in Text, NEW thought \in BOOLEAN, MessageComes(x, thought) PROVE QueueInv'
  BY <1>13, QueueStays DEF MessageComes, queueVars
<1> QED
  BY <1>1, <1>2, <1>3, <1>4, <1>5, <1>6, <1>7, <1>8, <1>9, <1>10, <1>11, <1>12, <1>13,
     <1>14, <1>15, SubmitsKeeps, DropsQueuedKeeps DEF TuiNext

LEMMA QueueIsInOrder == QueueInv => QueueRuns
<1> SUFFICES ASSUME QueueInv PROVE QueueRuns OBVIOUS
<1>1. DOMAIN sent = 1 .. Len(sent) /\ DOMAIN waiting = 1 .. Len(waiting) BY DEF QueueInv
<1>2. ToSet(sent) = InQueue(sent) /\ ToSet(waiting) = InQueue(waiting) BY <1>1 DEF ToSet, InQueue
<1> QED BY <1>1, <1>2 DEF QueueInv, QueueRuns

-----------------------------------------------------------------------------
(* The screen of the terminal host *)
Utterance == Text \X BOOLEAN
ScreenLine ==
  [kind : {"note", "user", "partial", "reply", "tool", "cancelled"}, turn : Nat,
   text : Utterance \cup {<<>>}]

(* The lines of a turn that are to last, the replies of one text among them, *)
(* and the lines of its tools.                                               *)
Lasts(L, t) == {i \in DOMAIN L : L[i].turn = t /\ L[i].kind \in {"user", "reply"}}
Replies(L, t, x) == {i \in DOMAIN L : L[i] = [kind |-> "reply", turn |-> t, text |-> x]}
ToolLines(L, t) == {i \in DOMAIN L : L[i].turn = t /\ L[i].kind = "tool"}

(* What ScreenIsTrue asks of the lines of a turn and what its model said.    *)
UserFirst(L, t) ==
  \E u \in Lasts(L, t) : /\ L[u].kind = "user"
                         /\ \A i \in Lasts(L, t) \ {u} : L[i].kind # "user" /\ u < i
NotTooOften(L, t, told) ==
  \A x \in Utterance : Cardinality(Replies(L, t, x)) <= Times(told, x)
AllShown(L, t, told) == \A k \in DOMAIN told : Replies(L, t, told[k]) # {}
ShownInOrder(L, t, told) ==
  \A j, k \in DOMAIN told : j < k /\ (\A i \in 1 .. j : told[i] # told[k]) =>
     \E m \in Replies(L, t, told[j]), n \in Replies(L, t, told[k]) : m < n
TrueTo(L, t, told) ==
  UserFirst(L, t) /\ NotTooOften(L, t, told) /\ AllShown(L, t, told) /\ ShownInOrder(L, t, told)

(* Two things a step does to the lasting lines of a turn: it leaves them in  *)
(* their order, wherever they now are, or it adds one behind them.           *)
Keeps(L, M, t) ==
  \E g \in [Lasts(M, t) -> Lasts(L, t)] :
     /\ \A i, j \in Lasts(M, t) : i < j => g[i] < g[j]
     /\ \A l \in Lasts(L, t) : \E i \in Lasts(M, t) : g[i] = l
     /\ \A i \in Lasts(M, t) : M[i] = L[g[i]]
Adds(L, M, t, x) ==
  \E p \in DOMAIN M :
     /\ M[p] = [kind |-> "reply", turn |-> t, text |-> x] /\ Lasts(M, t) = Lasts(L, t) \cup {p}
     /\ \A i \in Lasts(L, t) : i < p /\ M[i] = L[i]

LEMMA LinesCounted ==
  ASSUME NEW L \in Seq(ScreenLine), NEW t, NEW x, NEW told \in Seq(Utterance)
  PROVE  /\ DOMAIN L = 1 .. Len(L) /\ Len(L) \in Nat /\ Lasts(L, t) \subseteq Nat
         /\ Replies(L, t, x) \subseteq Lasts(L, t)
         /\ IsFiniteSet(Replies(L, t, x)) /\ Cardinality(Replies(L, t, x)) \in Nat
         /\ Times(told, x) \in Nat
<1>1. DOMAIN L = 1 .. Len(L) /\ Len(L) \in Nat  BY LenProperties
<1>2. DOMAIN told = 1 .. Len(told) /\ Len(told) \in Nat  BY LenProperties
<1>3. Lasts(L, t) \subseteq Nat  BY <1>1 DEF Lasts
<1>4. Replies(L, t, x) \subseteq Lasts(L, t)  BY DEF Replies, Lasts
<1>5. IsFiniteSet(1 .. Len(L)) /\ IsFiniteSet(1 .. Len(told))  BY <1>1, <1>2, FS_Interval
<1>6. Replies(L, t, x) \in SUBSET (1 .. Len(L))  BY <1>1 DEF Replies
<1>7. IsFiniteSet(Replies(L, t, x)) /\ Cardinality(Replies(L, t, x)) \in Nat
  BY <1>5, <1>6, FS_Subset, FS_CardinalityType
<1>8. Times(told, x) \in Nat
  <2> DEFINE S == {k \in DOMAIN told : told[k] = x \/ (~x[2] /\ told[k][1] = x[1])}
  <2>1. S \in SUBSET (1 .. Len(told))  BY <1>2
  <2>2. IsFiniteSet(S)  BY <1>5, <2>1, FS_Subset
  <2>3. Cardinality(S) \in Nat  BY <2>2, FS_CardinalityType
  <2> QED  BY <2>3 DEF Times
<1> QED  BY <1>1, <1>3, <1>4, <1>7, <1>8

LEMMA KeepsTrue ==
  ASSUME NEW L \in Seq(ScreenLine), NEW M \in Seq(ScreenLine), NEW t, Keeps(L, M, t)
  PROVE  /\ \A x : Replies(M, t, x) = {} <=> Replies(L, t, x) = {}
         /\ \A told \in Seq(Utterance) : TrueTo(L, t, told) => TrueTo(M, t, told)
<1> PICK g \in [Lasts(M, t) -> Lasts(L, t)] :
      /\ \A i, j \in Lasts(M, t) : i < j => g[i] < g[j]
      /\ \A l \in Lasts(L, t) : \E i \in Lasts(M, t) : g[i] = l
      /\ \A i \in Lasts(M, t) : M[i] = L[g[i]]
  BY DEF Keeps
<1>1. Lasts(L, t) \subseteq Nat /\ Lasts(M, t) \subseteq Nat
  BY LinesCounted DEF Lasts
<1>2. \A i, j \in Lasts(M, t) : (i < j <=> g[i] < g[j]) /\ (g[i] = g[j] => i = j)
  <2> TAKE i, j \in Lasts(M, t)
  <2>1. i \in Nat /\ j \in Nat /\ g[i] \in Nat /\ g[j] \in Nat  BY <1>1
  <2> QED  BY <2>1
<1>3. \A x : \A i \in Lasts(M, t) : i \in Replies(M, t, x) <=> g[i] \in Replies(L, t, x)
  BY DEF Replies, Lasts
<1>4. \A x : Replies(M, t, x) \subseteq Lasts(M, t) /\ Replies(L, t, x) \subseteq Lasts(L, t)
  BY DEF Replies, Lasts
<1>5. \A x : \A l \in Replies(L, t, x) : \E i \in Replies(M, t, x) : g[i] = l
  BY <1>3, <1>4
<1>6. \A x : Replies(M, t, x) = {} <=> Replies(L, t, x) = {}
  BY <1>3, <1>4, <1>5
<1>7. ASSUME UserFirst(L, t) PROVE UserFirst(M, t)
  <2>1. PICK u \in Lasts(L, t) :
          L[u].kind = "user" /\ \A i \in Lasts(L, t) \ {u} : L[i].kind # "user" /\ u < i
    BY <1>7 DEF UserFirst
  <2>2. PICK v \in Lasts(M, t) : g[v] = u  OBVIOUS
  <2>3. M[v].kind = "user"  BY <2>1, <2>2
  <2>4. ASSUME NEW i \in Lasts(M, t) \ {v} PROVE M[i].kind # "user" /\ v < i
    <3>1. g[i] \in Lasts(L, t) \ {u}  BY <1>2, <2>2
    <3>2. L[g[i]].kind # "user" /\ g[v] < g[i]  BY <2>1, <2>2, <3>1
    <3> QED  BY <1>2, <3>2
  <2> QED  BY <2>3, <2>4 DEF UserFirst
<1>8. ASSUME NEW x PROVE Cardinality(Replies(M, t, x)) <= Cardinality(Replies(L, t, x))
  <2> DEFINE f == [i \in Replies(M, t, x) |-> g[i]]
  <2>1. f \in [Replies(M, t, x) -> Replies(L, t, x)]  BY <1>3, <1>4
  <2>2. \A a, b \in DOMAIN f : f[a] = f[b] => a = b  BY <1>2, <1>4
  <2>3. f \in Injection(Replies(M, t, x), Replies(L, t, x))
    BY <2>1, <2>2 DEF Injection, IsInjective
  <2>4. IsFiniteSet(Replies(L, t, x))  BY LinesCounted, EmptySeq
  <2> HIDE DEF f
  <2> QED  BY <2>3, <2>4, FS_Injection
<1>9. ASSUME NEW told \in Seq(Utterance), TrueTo(L, t, told) PROVE TrueTo(M, t, told)
  <2>1. UserFirst(M, t)  BY <1>7, <1>9 DEF TrueTo
  <2>2. NotTooOften(M, t, told)
    <3> SUFFICES ASSUME NEW x \in Utterance PROVE Cardinality(Replies(M, t, x)) <= Times(told, x)
      BY DEF NotTooOften
    <3>1. Cardinality(Replies(L, t, x)) <= Times(told, x)  BY <1>9 DEF TrueTo, NotTooOften
    <3>2. /\ Cardinality(Replies(M, t, x)) \in Nat /\ Cardinality(Replies(L, t, x)) \in Nat
          /\ Times(told, x) \in Nat
      BY LinesCounted
    <3> QED  BY <1>8, <3>1, <3>2
  <2>3. AllShown(M, t, told)  BY <1>6, <1>9 DEF TrueTo, AllShown
  <2>4. ShownInOrder(M, t, told)
    <3> SUFFICES ASSUME NEW j \in DOMAIN told, NEW k \in DOMAIN told, j < k,
                        \A i \in 1 .. j : told[i] # told[k]
                 PROVE  \E m \in Replies(M, t, told[j]), n \in Replies(M, t, told[k]) : m < n
      BY DEF ShownInOrder
    <3>1. PICK m \in Replies(L, t, told[j]), n \in Replies(L, t, told[k]) : m < n
      BY <1>9 DEF TrueTo, ShownInOrder
    <3>2. PICK a \in Replies(M, t, told[j]) : g[a] = m  BY <1>5
    <3>3. PICK b \in Replies(M, t, told[k]) : g[b] = n  BY <1>5
    <3>4. a < b  BY <1>2, <1>4, <3>1, <3>2, <3>3
    <3> QED  BY <3>4
  <2> QED  BY <2>1, <2>2, <2>3, <2>4 DEF TrueTo
<1> QED  BY <1>6, <1>9

LEMMA SameIsKept ==
  ASSUME NEW L, NEW M, NEW t, Lasts(M, t) = Lasts(L, t), \A i \in Lasts(L, t) : M[i] = L[i]
  PROVE  Keeps(L, M, t)
<1> DEFINE g == [i \in Lasts(M, t) |-> i]
<1>1. g \in [Lasts(M, t) -> Lasts(L, t)]  OBVIOUS
<1>2. \A l \in Lasts(L, t) : \E i \in Lasts(M, t) : g[i] = l  OBVIOUS
<1>3. \A i, j \in Lasts(M, t) : i < j => g[i] < g[j]  OBVIOUS
<1>4. \A i \in Lasts(M, t) : M[i] = L[g[i]]  OBVIOUS
<1> HIDE DEF g
<1> QED  BY <1>1, <1>2, <1>3, <1>4 DEF Keeps

(* A reply that is added shows one text once more, behind all the others.    *)
LEMMA AddsReply ==
  ASSUME NEW L \in Seq(ScreenLine), NEW M \in Seq(ScreenLine), NEW t, NEW x, Adds(L, M, t, x)
  PROVE  /\ UserFirst(L, t) => UserFirst(M, t)
         /\ \A y : y # x => Replies(M, t, y) = Replies(L, t, y)
         /\ \E p \in Nat : /\ Replies(M, t, x) = Replies(L, t, x) \cup {p}
                           /\ \A i \in Lasts(L, t) : i < p
<1> PICK p \in DOMAIN M :
     /\ M[p] = [kind |-> "reply", turn |-> t, text |-> x] /\ Lasts(M, t) = Lasts(L, t) \cup {p}
     /\ \A i \in Lasts(L, t) : i < p /\ M[i] = L[i]
  BY DEF Adds
<1>1. Lasts(L, t) \subseteq Nat /\ p \in Nat  BY LinesCounted DEF Lasts
<1>2. p \notin Lasts(L, t)  BY <1>1
<1>3. UserFirst(L, t) => UserFirst(M, t)  BY <1>1, <1>2 DEF UserFirst
<1>4. \A y : /\ Replies(M, t, y) \subseteq Lasts(M, t) /\ Replies(L, t, y) \subseteq Lasts(L, t)
             /\ \A i \in Lasts(L, t) : i \in Replies(M, t, y) <=> i \in Replies(L, t, y)
  BY DEF Replies, Lasts
<1>5. \A y : p \in Replies(M, t, y) <=> y = x  BY DEF Replies
<1>6. \A y : y # x => Replies(M, t, y) = Replies(L, t, y)  BY <1>4, <1>5
<1>7. Replies(M, t, x) = Replies(L, t, x) \cup {p}  BY <1>4, <1>5
<1> QED  BY <1>1, <1>3, <1>6, <1>7

(* A text that is replayed, but was said and is not on the screen.           *)
LEMMA AddsReplayed ==
  ASSUME NEW L \in Seq(ScreenLine), NEW M \in Seq(ScreenLine), NEW t, NEW x \in Utterance,
         NEW told \in Seq(Utterance), TrueTo(L, t, told), Adds(L, M, t, x),
         Replies(L, t, x) = {}, Times(told, x) # 0
  PROVE  TrueTo(M, t, told)
<1>1. PICK p \in Nat : Replies(M, t, x) = Replies(L, t, x) \cup {p}
                       /\ \A i \in Lasts(L, t) : i < p
  BY AddsReply
<1>2. UserFirst(M, t)  BY AddsReply DEF TrueTo
<1>3. \A y : y # x => Replies(M, t, y) = Replies(L, t, y)  BY AddsReply
<1>4. \A y : Replies(L, t, y) \subseteq Replies(M, t, y)  BY <1>1, <1>3
<1>5. NotTooOften(M, t, told)
  <2> SUFFICES ASSUME NEW y \in Utterance PROVE Cardinality(Replies(M, t, y)) <= Times(told, y)
    BY DEF NotTooOften
  <2>1. CASE y # x  BY <1>3, <2>1 DEF TrueTo, NotTooOften
  <2>2. CASE y = x
    <3>1. Cardinality(Replies(M, t, x)) = 1
      <4>1. Replies(M, t, x) = {} \cup {p} /\ p \notin {}  BY <1>1
      <4>2. Cardinality({}) = 0 /\ IsFiniteSet({})  BY FS_EmptySet
      <4>3. Cardinality({} \cup {p}) = Cardinality({}) + 1  BY <4>1, <4>2, FS_AddElement
      <4> QED  BY <4>1, <4>2, <4>3
    <3>2. Times(told, x) \in Nat  BY LinesCounted
    <3> QED  BY <2>2, <3>1, <3>2
  <2> QED  BY <2>1, <2>2
<1>6. AllShown(M, t, told)  BY <1>4 DEF TrueTo, AllShown
<1>7. ShownInOrder(M, t, told)
  <2> SUFFICES ASSUME NEW j \in DOMAIN told, NEW k \in DOMAIN told, j < k,
                      \A i \in 1 .. j : told[i] # told[k]
               PROVE  \E m \in Replies(M, t, told[j]), n \in Replies(M, t, told[k]) : m < n
    BY DEF ShownInOrder
  <2>1. PICK m \in Replies(L, t, told[j]), n \in Replies(L, t, told[k]) : m < n
    BY DEF TrueTo, ShownInOrder
  <2> QED  BY <1>4, <2>1
<1> QED  BY <1>2, <1>5, <1>6, <1>7 DEF TrueTo

(* A text that is said once more counts once more.                           *)
LEMMA SaidOnceMore ==
  ASSUME NEW told \in Seq(Utterance), NEW x \in Utterance, NEW more, more = Append(told, x)
  PROVE  /\ more \in Seq(Utterance) /\ Len(told) \in Nat /\ DOMAIN told = 1 .. Len(told)
         /\ DOMAIN more = 1 .. Len(told) + 1 /\ more[Len(told) + 1] = x
         /\ \A k \in 1 .. Len(told) : more[k] = told[k]
         /\ \A y \in Utterance : Times(told, y) <= Times(more, y)
         /\ Times(more, x) = Times(told, x) + 1
<1>1. /\ more \in Seq(Utterance) /\ Len(told) \in Nat /\ DOMAIN told = 1 .. Len(told)
      /\ Len(more) = Len(told) + 1 /\ DOMAIN more = 1 .. Len(more)
      /\ more[Len(told) + 1] = x /\ \A k \in 1 .. Len(told) : more[k] = told[k]
  BY AppendProperties, LenProperties
<1> DEFINE S(q, y) == {k \in DOMAIN q : q[k] = y \/ (~y[2] /\ q[k][1] = y[1])}
<1>2. \A y \in Utterance : Times(told, y) = Cardinality(S(told, y))
                         /\ Times(more, y) = Cardinality(S(more, y))
  BY DEF Times
<1>3. \A y \in Utterance : S(told, y) \subseteq S(more, y)
                         /\ S(more, y) \in SUBSET (1 .. Len(told) + 1)
  BY <1>1
<1>4. S(more, x) = S(told, x) \cup {Len(told) + 1} /\ Len(told) + 1 \notin S(told, x)
  <2>1. \A k \in DOMAIN more : k \in DOMAIN told \/ k = Len(told) + 1  BY <1>1
  <2>2. Len(told) + 1 \notin DOMAIN told /\ Len(told) + 1 \in DOMAIN more  BY <1>1
  <2>3. \A k \in DOMAIN told : k \in DOMAIN more /\ more[k] = told[k]  BY <1>1
  <2> QED  BY <1>1, <2>1, <2>2, <2>3
<1> HIDE DEF S
<1>5. IsFiniteSet(1 .. Len(told) + 1)  BY <1>1, FS_Interval
<1>6. \A y \in Utterance : IsFiniteSet(S(more, y))  BY <1>3, <1>5, FS_Subset
<1>7. \A y \in Utterance : Cardinality(S(told, y)) <= Cardinality(S(more, y)) /\ IsFiniteSet(S(told, y))
  BY <1>3, <1>6, FS_Subset
<1>8. Cardinality(S(more, x)) = Cardinality(S(told, x)) + 1  BY <1>4, <1>7, FS_AddElement
<1> QED  BY <1>1, <1>2, <1>7, <1>8

(* A message that gets a line of its own.                                    *)
LEMMA AddsSaid ==
  ASSUME NEW L \in Seq(ScreenLine), NEW M \in Seq(ScreenLine), NEW t, NEW x \in Utterance,
         NEW told \in Seq(Utterance), TrueTo(L, t, told), Adds(L, M, t, x),
         NEW more, more = Append(told, x)
  PROVE  TrueTo(M, t, more)
<1>1. PICK p \in Nat : Replies(M, t, x) = Replies(L, t, x) \cup {p}
                       /\ \A i \in Lasts(L, t) : i < p
  BY AddsReply
<1>2. UserFirst(M, t)  BY AddsReply DEF TrueTo
<1>3. \A y : y # x => Replies(M, t, y) = Replies(L, t, y)  BY AddsReply
<1>4. \A y : Replies(L, t, y) \subseteq Replies(M, t, y)  BY <1>1, <1>3
<1>a. /\ more \in Seq(Utterance) /\ Len(told) \in Nat /\ DOMAIN told = 1 .. Len(told)
      /\ DOMAIN more = 1 .. Len(told) + 1 /\ more[Len(told) + 1] = x
  BY SaidOnceMore
<1>b. \A k \in 1 .. Len(told) : more[k] = told[k]  BY SaidOnceMore
<1>c. \A y \in Utterance : Times(told, y) <= Times(more, y)  BY SaidOnceMore
<1>d. Times(more, x) = Times(told, x) + 1  BY SaidOnceMore
<1>5. /\ more \in Seq(Utterance) /\ Len(told) \in Nat /\ DOMAIN told = 1 .. Len(told)
      /\ DOMAIN more = 1 .. Len(told) + 1 /\ more[Len(told) + 1] = x
      /\ \A k \in 1 .. Len(told) : more[k] = told[k]
      /\ \A y \in Utterance : Times(told, y) <= Times(more, y)
      /\ Times(more, x) = Times(told, x) + 1
  BY <1>a, <1>b, <1>c, <1>d
<1>6. NotTooOften(M, t, more)
  <2> SUFFICES ASSUME NEW y \in Utterance PROVE Cardinality(Replies(M, t, y)) <= Times(more, y)
    BY DEF NotTooOften
  <2>1. Cardinality(Replies(L, t, y)) <= Times(told, y)  BY DEF TrueTo, NotTooOften
  <2>2. /\ Cardinality(Replies(L, t, y)) \in Nat /\ Times(told, y) \in Nat
        /\ Times(more, y) \in Nat /\ IsFiniteSet(Replies(L, t, y))
    BY <1>5, LinesCounted
  <2>3. CASE y # x  BY <1>3, <1>5, <2>1, <2>2, <2>3
  <2>4. CASE y = x
    <3>1. \/ Cardinality(Replies(M, t, y)) = Cardinality(Replies(L, t, y))
          \/ Cardinality(Replies(M, t, y)) = Cardinality(Replies(L, t, y)) + 1
      BY <1>1, <2>2, <2>4, FS_AddElement
    <3> QED  BY <1>5, <2>1, <2>2, <2>4, <3>1
  <2> QED  BY <2>3, <2>4
<1>7. AllShown(M, t, more)
  <2> SUFFICES ASSUME NEW k \in DOMAIN more PROVE Replies(M, t, more[k]) # {}  BY DEF AllShown
  <2>1. k \in DOMAIN told \/ k = Len(told) + 1  BY <1>5
  <2>2. CASE k \in DOMAIN told  BY <1>4, <1>5, <2>2 DEF TrueTo, AllShown
  <2>3. CASE k = Len(told) + 1  BY <1>1, <1>5, <2>3
  <2> QED  BY <2>1, <2>2, <2>3
<1>8. ShownInOrder(M, t, more)
  <2> SUFFICES ASSUME NEW j \in DOMAIN more, NEW k \in DOMAIN more, j < k,
                      \A i \in 1 .. j : more[i] # more[k]
               PROVE  \E m \in Replies(M, t, more[j]), n \in Replies(M, t, more[k]) : m < n
    BY DEF ShownInOrder
  <2>1. j \in DOMAIN told /\ more[j] = told[j] /\ (k \in DOMAIN told \/ k = Len(told) + 1)
    BY <1>5
  <2>2. CASE k \in DOMAIN told
    <3>1. \A i \in 1 .. j : told[i] # told[k]  BY <1>5, <2>1, <2>2
    <3>2. PICK m \in Replies(L, t, told[j]), n \in Replies(L, t, told[k]) : m < n
      BY <2>1, <2>2, <3>1 DEF TrueTo, ShownInOrder
    <3> QED  BY <1>4, <1>5, <2>1, <2>2, <3>2
  <2>3. CASE k = Len(told) + 1
    <3>1. PICK m \in Replies(L, t, told[j]) : TRUE  BY <2>1 DEF TrueTo, AllShown
    <3>2. m \in Lasts(L, t)  BY <3>1, LinesCounted
    <3>3. p \in Replies(M, t, more[k]) /\ m < p  BY <1>1, <1>5, <2>3, <3>2
    <3> QED  BY <1>4, <2>1, <3>1, <3>3
  <2> QED  BY <2>1, <2>2, <2>3
<1> QED  BY <1>2, <1>6, <1>7, <1>8 DEF TrueTo

(* A message the screen shows already.                                       *)
LEMMA ShownSaid ==
  ASSUME NEW L \in Seq(ScreenLine), NEW t, NEW x \in Utterance,
         NEW told \in Seq(Utterance), TrueTo(L, t, told), Replies(L, t, x) # {},
         NEW first \in DOMAIN told, told[first] = x, NEW more, more = Append(told, x)
  PROVE  TrueTo(L, t, more)
<1>a. /\ more \in Seq(Utterance) /\ Len(told) \in Nat /\ DOMAIN told = 1 .. Len(told)
      /\ DOMAIN more = 1 .. Len(told) + 1 /\ more[Len(told) + 1] = x
  BY SaidOnceMore
<1>b. \A k \in 1 .. Len(told) : more[k] = told[k]  BY SaidOnceMore
<1>c. \A y \in Utterance : Times(told, y) <= Times(more, y)  BY SaidOnceMore
<1>1. /\ more \in Seq(Utterance) /\ Len(told) \in Nat /\ DOMAIN told = 1 .. Len(told)
      /\ DOMAIN more = 1 .. Len(told) + 1 /\ more[Len(told) + 1] = x
      /\ \A k \in 1 .. Len(told) : more[k] = told[k]
      /\ \A y \in Utterance : Times(told, y) <= Times(more, y)
  BY <1>a, <1>b, <1>c
<1>2. NotTooOften(L, t, more)
  <2> SUFFICES ASSUME NEW y \in Utterance PROVE Cardinality(Replies(L, t, y)) <= Times(more, y)
    BY DEF NotTooOften
  <2>1. Cardinality(Replies(L, t, y)) <= Times(told, y)  BY DEF TrueTo, NotTooOften
  <2>2. Cardinality(Replies(L, t, y)) \in Nat /\ Times(told, y) \in Nat /\ Times(more, y) \in Nat
    BY <1>1, LinesCounted
  <2> QED  BY <1>1, <2>1, <2>2
<1>3. AllShown(L, t, more)
  <2> SUFFICES ASSUME NEW k \in DOMAIN more PROVE Replies(L, t, more[k]) # {}  BY DEF AllShown
  <2>1. k \in DOMAIN told \/ k = Len(told) + 1  BY <1>1
  <2>2. CASE k \in DOMAIN told  BY <1>1, <2>2 DEF TrueTo, AllShown
  <2>3. CASE k = Len(told) + 1  BY <1>1, <2>3
  <2> QED  BY <2>1, <2>2, <2>3
<1>4. ShownInOrder(L, t, more)
  <2>1. \A j, k \in DOMAIN more : j < k /\ (\A i \in 1 .. j : more[i] # more[k]) =>
           \E m \in Replies(L, t, more[j]), n \in Replies(L, t, more[k]) : m < n
    <3> TAKE j, k \in DOMAIN more
    <3> HAVE j < k /\ (\A i \in 1 .. j : more[i] # more[k])
    <3>1. j \in DOMAIN told /\ more[j] = told[j] /\ (k \in DOMAIN told \/ k = Len(told) + 1)
      BY <1>1
    <3>2. PICK c \in DOMAIN told : told[c] = more[k] /\ j < c
      <4>1. CASE k \in DOMAIN told  BY <1>1, <4>1
      <4>2. CASE k = Len(told) + 1
        <5>1. more[k] = x /\ more[first] = x  BY <1>1, <4>2
        <5>2. ~(first \in 1 .. j)  BY <5>1
        <5>3. j < first  BY <1>1, <5>2
        <5> QED  BY <5>1, <5>3
      <4> QED  BY <3>1, <4>1, <4>2
    <3>3. \A i \in 1 .. j : told[i] # told[c]  BY <1>1, <3>1, <3>2
    <3>4. PICK m \in Replies(L, t, told[j]), n \in Replies(L, t, told[c]) : m < n
      BY <3>1, <3>2, <3>3 DEF TrueTo, ShownInOrder
    <3> QED  BY <3>1, <3>2, <3>4
  <2> QED  BY <2>1 DEF ShownInOrder
<1> QED  BY <1>2, <1>3, <1>4 DEF TrueTo

-----------------------------------------------------------------------------
(* A line that is pushed, one that is replaced, and those that go *)
LEMMA LineAppended ==
  ASSUME NEW L \in Seq(ScreenLine), NEW line \in ScreenLine, NEW M, M = Append(L, line), NEW t
  PROVE  /\ M \in Seq(ScreenLine) /\ Len(M) = Len(L) + 1 /\ Len(L) \in Nat
         /\ Len(M) \in DOMAIN M /\ M[Len(M)] = line
         /\ \A i \in DOMAIN L : i \in DOMAIN M /\ M[i] = L[i] /\ i < Len(M)
         /\ Lasts(L, t) \subseteq DOMAIN L /\ ToolLines(L, t) \subseteq DOMAIN L
         /\ Lasts(L, t) \subseteq Lasts(M, t) /\ Lasts(M, t) \subseteq Lasts(L, t) \cup {Len(M)}
         /\ ToolLines(L, t) \subseteq ToolLines(M, t)
         /\ ToolLines(M, t) \subseteq ToolLines(L, t) \cup {Len(M)}
<1>1. /\ M \in Seq(ScreenLine) /\ Len(M) = Len(L) + 1 /\ Len(L) \in Nat
      /\ DOMAIN M = 1 .. Len(M) /\ DOMAIN L = 1 .. Len(L)
      /\ \A i \in 1 .. Len(L) : M[i] = L[i]
      /\ M[Len(L) + 1] = line
  BY AppendProperties, LenProperties
<1>2. \A i \in DOMAIN M : i = Len(M) \/ (i \in DOMAIN L /\ M[i] = L[i])  BY <1>1
<1>3. \A i \in DOMAIN L : i \in DOMAIN M /\ M[i] = L[i] /\ i < Len(M)  BY <1>1
<1>4. Len(M) \in DOMAIN M /\ M[Len(M)] = line  BY <1>1
<1>5. Lasts(L, t) \subseteq DOMAIN L /\ ToolLines(L, t) \subseteq DOMAIN L
  BY DEF Lasts, ToolLines
<1>6. Lasts(L, t) \subseteq Lasts(M, t) /\ Lasts(M, t) \subseteq Lasts(L, t) \cup {Len(M)}
  BY <1>2, <1>3 DEF Lasts
<1>7. ToolLines(L, t) \subseteq ToolLines(M, t) /\ ToolLines(M, t) \subseteq ToolLines(L, t) \cup {Len(M)}
  BY <1>2, <1>3 DEF ToolLines
<1> QED  BY <1>1, <1>3, <1>4, <1>5, <1>6, <1>7

LEMMA LineAside ==
  ASSUME NEW L \in Seq(ScreenLine), NEW line \in ScreenLine, NEW M, M = Append(L, line), NEW t,
         line.turn # t \/ line.kind \notin {"user", "reply"}
  PROVE  Keeps(L, M, t) /\ Lasts(M, t) \subseteq Lasts(L, t)
<1>1. M[Len(M)] = line  BY LineAppended
<1>2. Lasts(L, t) \subseteq Lasts(M, t) /\ Lasts(M, t) \subseteq Lasts(L, t) \cup {Len(M)}
  BY LineAppended
<1>3. Len(M) \notin Lasts(M, t)  BY <1>1 DEF Lasts
<1>4. Lasts(M, t) = Lasts(L, t)  BY <1>2, <1>3
<1>5. \A i \in DOMAIN L : M[i] = L[i]  BY LineAppended
<1>6. \A i \in Lasts(L, t) : M[i] = L[i]  BY <1>5 DEF Lasts
<1> QED  BY <1>4, <1>6, SameIsKept

LEMMA NoToolAppended ==
  ASSUME NEW L \in Seq(ScreenLine), NEW line \in ScreenLine, NEW M, M = Append(L, line), NEW t,
         line.turn # t \/ line.kind # "tool"
  PROVE  ToolLines(M, t) \subseteq ToolLines(L, t) /\ ToolLines(L, t) \subseteq ToolLines(M, t)
<1>1. M[Len(M)] = line  BY LineAppended
<1>2. ToolLines(L, t) \subseteq ToolLines(M, t) /\ ToolLines(M, t) \subseteq ToolLines(L, t) \cup {Len(M)}
  BY LineAppended
<1>3. Len(M) \notin ToolLines(M, t)  BY <1>1 DEF ToolLines
<1> QED  BY <1>2, <1>3

LEMMA ToolAppended ==
  ASSUME NEW L \in Seq(ScreenLine), NEW line \in ScreenLine, NEW M, M = Append(L, line), NEW t
  PROVE  /\ ToolLines(L, t) \subseteq ToolLines(M, t)
         /\ ToolLines(M, t) \subseteq ToolLines(L, t) \cup {Len(M)}
BY LineAppended

LEMMA ReplyAppended ==
  ASSUME NEW L \in Seq(ScreenLine), NEW t, NEW x,
         NEW line \in ScreenLine, line.kind = "reply", line.turn = t, line.text = x,
         NEW M, M = Append(L, line)
  PROVE  Adds(L, M, t, x)
<1>1. Len(M) \in DOMAIN M /\ M[Len(M)] = line  BY LineAppended
<1>2. Lasts(L, t) \subseteq Lasts(M, t) /\ Lasts(M, t) \subseteq Lasts(L, t) \cup {Len(M)}
  BY LineAppended
<1>r. line = [kind |-> "reply", turn |-> t, text |-> x]  BY DEF ScreenLine
<1>3. Len(M) \in Lasts(M, t)  BY <1>1 DEF Lasts
<1>4. Lasts(M, t) = Lasts(L, t) \cup {Len(M)}  BY <1>2, <1>3
<1>5. \A i \in DOMAIN L : i < Len(M) /\ M[i] = L[i]  BY LineAppended
<1>6. \A i \in Lasts(L, t) : i < Len(M) /\ M[i] = L[i]  BY <1>5 DEF Lasts
<1> QED  BY <1>1, <1>4, <1>6, <1>r DEF Adds

(* M is L with another line at s *)
Changed(L, M, s, line) ==
  /\ M \in Seq(ScreenLine) /\ DOMAIN M = DOMAIN L /\ M[s] = line
  /\ \A i \in DOMAIN L : i # s => M[i] = L[i]

LEMMA LineReplaced ==
  ASSUME NEW L \in Seq(ScreenLine), NEW s \in DOMAIN L, L[s].kind = "partial",
         NEW line \in ScreenLine, line.kind \in {"partial", "reply", "cancelled"},
         NEW M, Changed(L, M, s, line), NEW t
  PROVE  /\ M \in Seq(ScreenLine) /\ DOMAIN M = DOMAIN L /\ M[s] = line
         /\ Lasts(L, t) \subseteq Lasts(M, t) /\ Lasts(M, t) \subseteq Lasts(L, t) \cup {s}
         /\ \A i \in Lasts(L, t) : M[i] = L[i]
         /\ ToolLines(M, t) \subseteq ToolLines(L, t) /\ ToolLines(L, t) \subseteq ToolLines(M, t)
<1>1. /\ M \in Seq(ScreenLine) /\ DOMAIN M = DOMAIN L /\ M[s] = line
      /\ \A i \in DOMAIN L : i # s => M[i] = L[i]
  BY DEF Changed
<1>2. s \notin ToolLines(L, t) /\ s \notin ToolLines(M, t)  BY <1>1 DEF ToolLines
<1>3. ToolLines(M, t) \subseteq ToolLines(L, t) /\ ToolLines(L, t) \subseteq ToolLines(M, t)
  BY <1>1, <1>2 DEF ToolLines
<1>4. s \notin Lasts(L, t)  BY DEF Lasts
<1>5. Lasts(L, t) \subseteq Lasts(M, t) /\ Lasts(M, t) \subseteq Lasts(L, t) \cup {s}
  BY <1>1, <1>4 DEF Lasts
<1>6. \A i \in Lasts(L, t) : M[i] = L[i]  BY <1>1, <1>4 DEF Lasts
<1> QED  BY <1>1, <1>3, <1>5, <1>6

LEMMA ReplacedAside ==
  ASSUME NEW L \in Seq(ScreenLine), NEW s \in DOMAIN L, L[s].kind = "partial",
         NEW line \in ScreenLine, line.kind \in {"partial", "reply", "cancelled"},
         NEW M, Changed(L, M, s, line), NEW t, line.turn # t \/ line.kind # "reply"
  PROVE  Keeps(L, M, t) /\ Lasts(M, t) \subseteq Lasts(L, t)
<1>1. M[s] = line  BY DEF Changed
<1>2. Lasts(L, t) \subseteq Lasts(M, t) /\ Lasts(M, t) \subseteq Lasts(L, t) \cup {s}
  BY LineReplaced
<1>3. s \notin Lasts(M, t)  BY <1>1 DEF Lasts
<1>4. Lasts(M, t) = Lasts(L, t)  BY <1>2, <1>3
<1>5. \A i \in Lasts(L, t) : M[i] = L[i]  BY LineReplaced
<1> QED  BY <1>4, <1>5, SameIsKept

LEMMA ReplyReplaced ==
  ASSUME NEW L \in Seq(ScreenLine), NEW s \in DOMAIN L, L[s].kind = "partial", NEW t, NEW x,
         NEW line \in ScreenLine, line.kind = "reply", line.turn = t, line.text = x,
         NEW M, Changed(L, M, s, line), \A i \in Lasts(L, t) : i < s
  PROVE  Adds(L, M, t, x)
<1>1. line.kind \in {"partial", "reply", "cancelled"}  OBVIOUS
<1>r. line = [kind |-> "reply", turn |-> t, text |-> x]  BY DEF ScreenLine
<1>2. DOMAIN M = DOMAIN L /\ M[s] = line  BY DEF Changed
<1>3. Lasts(L, t) \subseteq Lasts(M, t) /\ Lasts(M, t) \subseteq Lasts(L, t) \cup {s}
  BY <1>1, LineReplaced
<1>4. s \in Lasts(M, t)  BY <1>2 DEF Lasts
<1>5. Lasts(M, t) = Lasts(L, t) \cup {s}  BY <1>3, <1>4
<1>6. \A i \in Lasts(L, t) : M[i] = L[i]  BY <1>1, LineReplaced
<1> QED  BY <1>2, <1>5, <1>6, <1>r DEF Adds

LEMMA ThinnedExists ==
  ASSUME NEW L, Len(L) \in Nat, NEW gone, NEW rest, rest = Thinned(L, gone)
  PROVE  /\ rest[0] = <<>>
         /\ \A i \in 1 .. Len(L) :
               rest[i] = IF i \in gone THEN rest[i - 1] ELSE Append(rest[i - 1], L[i])
<1> DEFINE Next1(r, i) == IF i \in gone THEN r ELSE Append(r, L[i])
           Upto(n) == \E w : w = [i \in 0..n |-> IF i = 0 THEN <<>> ELSE Next1(w[i - 1], i)]
           Bad == {n \in Nat : ~Upto(n)}
<1> HIDE DEF Next1
<1>1. Bad = {}
  <2> SUFFICES ASSUME Bad # {} PROVE FALSE  OBVIOUS
  <2>1. Bad \subseteq Nat  OBVIOUS
  <2> HIDE DEF Bad
  <2>2. PICK n \in Bad : \A m \in Bad : n <= m  BY <2>1, LeastNumber
  <2> USE DEF Bad
  <2>3. CASE n = 0
    <3> DEFINE w == [i \in 0..0 |-> <<>>]
    <3>1. w = [i \in 0..0 |-> IF i = 0 THEN <<>> ELSE Next1(w[i - 1], i)]  OBVIOUS
    <3> HIDE DEF w
    <3> QED  BY <2>3, <3>1
  <2>4. CASE n # 0
    <3>1. n - 1 \in Nat /\ n \in Nat /\ ~(n <= n - 1)  BY <2>4
    <3>2. n - 1 \notin Bad
      <4> HIDE DEF Bad
      <4> QED  BY <2>2, <3>1
    <3> HIDE DEF Upto
    <3>3. Upto(n - 1)  BY <3>1, <3>2
    <3> USE DEF Upto
    <3>4. PICK w : w = [i \in 0..n - 1 |-> IF i = 0 THEN <<>> ELSE Next1(w[i - 1], i)]
      BY <3>3
    <3> DEFINE v == [i \in 0..n |-> IF i = n THEN Next1(w[n - 1], n) ELSE w[i]]
    <3>5. \A i \in 0..n : v[i] = IF i = 0 THEN <<>> ELSE Next1(v[i - 1], i)
      <4> SUFFICES ASSUME NEW i \in 0..n
                   PROVE  v[i] = IF i = 0 THEN <<>> ELSE Next1(v[i - 1], i)
        OBVIOUS
      <4>1. CASE i = n
        <5>1. i # 0 /\ i - 1 \in 0..n /\ i - 1 # n  BY <2>4, <3>1, <4>1
        <5>2. v[i] = Next1(w[n - 1], n) /\ v[i - 1] = w[n - 1]  BY <4>1, <5>1
        <5> QED  BY <4>1, <5>1, <5>2
      <4>2. CASE i # n
        <5>1. i \in 0..n - 1 /\ v[i] = w[i]  BY <3>1, <4>2
        <5>2. w[i] = IF i = 0 THEN <<>> ELSE Next1(w[i - 1], i)  BY <3>4, <5>1
        <5>3. i # 0 => i - 1 \in 0..n /\ i - 1 # n /\ v[i - 1] = w[i - 1]  BY <3>1, <5>1
        <5> QED  BY <5>1, <5>2, <5>3
      <4> QED  BY <4>1, <4>2
    <3>6. v = [i \in 0..n |-> v[i]]  OBVIOUS
    <3> HIDE DEF v
    <3>7. v = [i \in 0..n |-> IF i = 0 THEN <<>> ELSE Next1(v[i - 1], i)]  BY <3>5, <3>6
    <3>8. Upto(n)  BY <3>7
    <3> QED  BY <3>8
  <2> QED  BY <2>3, <2>4
<1>2. Upto(Len(L))  BY <1>1
<1> HIDE DEF Bad
<1> USE DEF Next1
<1>3. rest = [i \in 0..Len(L) |-> IF i = 0 THEN <<>>
                ELSE IF i \in gone THEN rest[i - 1] ELSE Append(rest[i - 1], L[i])]
  BY <1>2 DEF Thinned
<1>4. 0 \in 0..Len(L) /\ rest[0] = <<>>  BY <1>3
<1>5. ASSUME NEW i \in 1..Len(L)
      PROVE  rest[i] = IF i \in gone THEN rest[i - 1] ELSE Append(rest[i - 1], L[i])
  <2>1. i \in 0..Len(L) /\ i # 0  OBVIOUS
  <2> QED  BY <1>3, <2>1
<1> QED  BY <1>4, <1>5

LEMMA ThinnedType ==
  ASSUME NEW S, NEW L \in Seq(S), NEW gone
  PROVE  Thinned(L, gone)[Len(L)] \in Seq(S)
<1> PICK rest : rest = Thinned(L, gone)  OBVIOUS
<1>1. Len(L) \in Nat /\ \A i \in 1 .. Len(L) : L[i] \in S  BY LenProperties, ElementOfSeq
<1>2. /\ rest[0] = <<>>
      /\ \A i \in 1 .. Len(L) :
            rest[i] = IF i \in gone THEN rest[i - 1] ELSE Append(rest[i - 1], L[i])
  BY <1>1, ThinnedExists
<1> DEFINE Bad == {i \in Nat : i \in 0 .. Len(L) /\ rest[i] \notin Seq(S)}
<1>3. Bad = {}
  <2> SUFFICES ASSUME Bad # {} PROVE FALSE  OBVIOUS
  <2>1. Bad \subseteq Nat  OBVIOUS
  <2>2. PICK i \in Bad : \A k \in Bad : i <= k
    <3> HIDE DEF Bad
    <3> QED  BY <2>1, LeastNumber
  <2>3. i # 0  BY <1>2, EmptySeq
  <2>4. i - 1 \in Nat /\ i - 1 \in 0 .. Len(L) /\ ~(i <= i - 1) /\ i \in 1 .. Len(L)  BY <1>1, <2>3
  <2>5. rest[i - 1] \in Seq(S)  BY <2>2, <2>4
  <2>6. rest[i] \in Seq(S)
    <3>1. CASE i \in gone  BY <1>2, <2>4, <2>5, <3>1
    <3>2. CASE i \notin gone
      <4>1. L[i] \in S /\ rest[i] = Append(rest[i - 1], L[i])  BY <1>1, <1>2, <2>4, <3>2
      <4> QED  BY <2>5, <4>1, AppendProperties
    <3> QED  BY <3>1, <3>2
  <2> QED  BY <2>6
<1>4. Len(L) \in Nat /\ Len(L) \in 0 .. Len(L)  BY <1>1
<1> QED  BY <1>3, <1>4

Below(gone, s) == {i \in gone : i < s}
Place(gone, s) == s - Cardinality(Below(gone, s))

(* What is left of the first n lines are those that stay, in their order,    *)
(* each as far up as lines before it are gone.                               *)
Thins(L, gone, R, n) ==
  /\ R \in Seq(ScreenLine) /\ Len(R) = n - Cardinality(Below(gone, n + 1))
  /\ \E g \in [1 .. Len(R) -> (1 .. n) \ gone] :
        /\ \A i, j \in 1 .. Len(R) : i < j => g[i] < g[j]
        /\ \A i \in 1 .. Len(R) : R[i] = L[g[i]]
        /\ \A s \in (1 .. n) \ gone : Place(gone, s) \in 1 .. Len(R) /\ g[Place(gone, s)] = s

LEMMA ThinsOne ==
  ASSUME NEW L \in Seq(ScreenLine), NEW gone, gone \subseteq 1 .. Len(L),
         NEW n \in 1 .. Len(L), NEW R, Thins(L, gone, R, n - 1)
  PROVE  Thins(L, gone, IF n \in gone THEN R ELSE Append(R, L[n]), n)
<1>1. Len(L) \in Nat /\ L[n] \in ScreenLine  BY LenProperties, ElementOfSeq
<1>2. n \in Nat /\ n - 1 \in Nat /\ (n - 1) + 1 = n  BY <1>1
<1>3. IsFiniteSet(gone) /\ gone \subseteq Nat
  <2>1. IsFiniteSet(1 .. Len(L)) /\ gone \in SUBSET (1 .. Len(L))  BY <1>1, FS_Interval
  <2>2. IsFiniteSet(gone)  BY <2>1, FS_Subset
  <2>3. gone \subseteq Nat  BY <1>1
  <2> QED  BY <2>2, <2>3
<1>4. IsFiniteSet(Below(gone, n)) /\ Cardinality(Below(gone, n)) \in Nat
  <2>1. Below(gone, n) \in SUBSET gone  BY DEF Below
  <2> QED  BY <1>3, <2>1, FS_Subset, FS_CardinalityType
<1>5. R \in Seq(ScreenLine) /\ Len(R) = (n - 1) - Cardinality(Below(gone, n)) /\ Len(R) \in Nat
  BY <1>2, LenProperties DEF Thins
<1>6. PICK g \in [1 .. Len(R) -> (1 .. n - 1) \ gone] :
        /\ \A i, j \in 1 .. Len(R) : i < j => g[i] < g[j]
        /\ \A i \in 1 .. Len(R) : R[i] = L[g[i]]
        /\ \A s \in (1 .. n - 1) \ gone :
              Place(gone, s) \in 1 .. Len(R) /\ g[Place(gone, s)] = s
  BY DEF Thins
<1>7. CASE n \in gone
  <2>1. Below(gone, n + 1) = Below(gone, n) \cup {n} /\ n \notin Below(gone, n)
    <3>1. \A i \in gone : i < n + 1 <=> i < n \/ i = n  BY <1>2, <1>3
    <3>2. ~(n < n)  BY <1>2
    <3> QED  BY <1>7, <3>1, <3>2 DEF Below
  <2>2. Cardinality(Below(gone, n + 1)) = Cardinality(Below(gone, n)) + 1
    BY <1>4, <2>1, FS_AddElement
  <2>3. Len(R) = n - Cardinality(Below(gone, n + 1))  BY <1>2, <1>4, <1>5, <2>2
  <2>4. (1 .. n) \ gone = (1 .. n - 1) \ gone  BY <1>2, <1>7
  <2> QED  BY <1>5, <1>6, <1>7, <2>3, <2>4 DEF Thins
<1>8. CASE n \notin gone
  <2>1. Below(gone, n + 1) = Below(gone, n)
    <3>1. \A i \in gone : i < n + 1 <=> i < n \/ i = n  BY <1>2, <1>3
    <3> QED  BY <1>8, <3>1 DEF Below
  <2> DEFINE Q == Append(R, L[n])
             h == [i \in 1 .. Len(R) + 1 |-> IF i = Len(R) + 1 THEN n ELSE g[i]]
  <2>2. /\ Q \in Seq(ScreenLine) /\ Len(Q) = Len(R) + 1 /\ Q[Len(R) + 1] = L[n]
        /\ \A i \in 1 .. Len(R) : Q[i] = R[i]
    BY <1>1, <1>5, AppendProperties
  <2>3. Len(Q) = n - Cardinality(Below(gone, n + 1)) /\ Place(gone, n) = Len(R) + 1
    BY <1>2, <1>4, <1>5, <2>1, <2>2 DEF Place
  <2>4. \A i \in 1 .. Len(R) : i \in 1 .. Len(R) + 1 /\ i # Len(R) + 1 /\ h[i] = g[i]
    BY <1>5
  <2>5. Len(R) + 1 \in 1 .. Len(R) + 1 /\ h[Len(R) + 1] = n  BY <1>5
  <2>6. \A i \in 1 .. Len(R) + 1 : i \in 1 .. Len(R) \/ i = Len(R) + 1
    <3> PICK m \in Nat : m = Len(R)  BY <1>5
    <3>1. \A i \in 1 .. m + 1 : i \in 1 .. m \/ i = m + 1  OBVIOUS
    <3> QED  BY <3>1
  <2>7. (1 .. n) \ gone = ((1 .. n - 1) \ gone) \cup {n}  BY <1>2, <1>8
  <2>8. DOMAIN h = 1 .. Len(R) + 1 /\ h = [i \in DOMAIN h |-> h[i]]  OBVIOUS
  <2> HIDE DEF Q, h
  <2>9. \A i \in 1 .. Len(R) + 1 : h[i] \in (1 .. n) \ gone
    BY <1>6, <2>4, <2>5, <2>6, <2>7
  <2>10. h \in [1 .. Len(Q) -> (1 .. n) \ gone]  BY <2>2, <2>8, <2>9
  <2>11. \A i \in 1 .. Len(R) : g[i] < n  BY <1>2, <1>6
  <2>12. ASSUME NEW i \in 1 .. Len(Q), NEW j \in 1 .. Len(Q), i < j PROVE h[i] < h[j]
    <3>1. i \in 1 .. Len(R) /\ (j \in 1 .. Len(R) \/ j = Len(R) + 1)  BY <1>5, <2>2, <2>12
    <3> QED  BY <1>6, <2>4, <2>5, <2>11, <2>12, <3>1
  <2>13. \A i \in 1 .. Len(Q) : Q[i] = L[h[i]]  BY <1>6, <2>2, <2>4, <2>5, <2>6
  <2>14. ASSUME NEW s \in (1 .. n) \ gone
         PROVE  Place(gone, s) \in 1 .. Len(Q) /\ h[Place(gone, s)] = s
    <3>1. CASE s = n  BY <2>2, <2>3, <2>5, <3>1
    <3>2. CASE s # n
      <4>1. s \in (1 .. n - 1) \ gone  BY <2>7, <3>2
      <4>2. Place(gone, s) \in 1 .. Len(R) /\ g[Place(gone, s)] = s  BY <1>6, <4>1
      <4> QED  BY <2>2, <2>4, <4>2
    <3> QED  BY <3>1, <3>2
  <2>15. Thins(L, gone, Q, n)  BY <2>2, <2>3, <2>10, <2>12, <2>13, <2>14 DEF Thins
  <2> QED  BY <1>8, <2>15 DEF Q
<1> QED  BY <1>7, <1>8

LEMMA LinesThinned ==
  ASSUME NEW L \in Seq(ScreenLine), NEW gone, \A i \in gone : i \in DOMAIN L /\ L[i].kind = "tool",
         NEW M, M = Thinned(L, gone)[Len(L)], NEW t
  PROVE  /\ M \in Seq(ScreenLine) /\ Keeps(L, M, t)
         /\ ToolLines(L, t) \subseteq gone => ToolLines(M, t) = {}
         /\ \A s \in DOMAIN L \ gone :
               /\ Place(gone, s) \in DOMAIN M /\ M[Place(gone, s)] = L[s]
               /\ (\A i \in Lasts(L, t) : i < s) => \A i \in Lasts(M, t) : i < Place(gone, s)
<1> PICK rest : rest = Thinned(L, gone)  OBVIOUS
<1>1. Len(L) \in Nat /\ DOMAIN L = 1 .. Len(L)  BY LenProperties
<1>2. gone \subseteq 1 .. Len(L) /\ gone \subseteq DOMAIN L  BY <1>1
<1>3. /\ rest[0] = <<>>
      /\ \A i \in 1 .. Len(L) :
            rest[i] = IF i \in gone THEN rest[i - 1] ELSE Append(rest[i - 1], L[i])
  BY <1>1, ThinnedExists
<1> DEFINE Bad == {i \in Nat : i \in 0 .. Len(L) /\ ~Thins(L, gone, rest[i], i)}
<1>4. Bad = {}
  <2> SUFFICES ASSUME Bad # {} PROVE FALSE  OBVIOUS
  <2>1. Bad \subseteq Nat  OBVIOUS
  <2>2. PICK i \in Bad : \A k \in Bad : i <= k
    <3> HIDE DEF Bad
    <3> QED  BY <2>1, LeastNumber
  <2>3. Thins(L, gone, <<>>, 0)
    <3>1. Below(gone, 0 + 1) = {}  BY <1>1, <1>2 DEF Below
    <3>2. Cardinality(Below(gone, 0 + 1)) = 0  BY <3>1, FS_EmptySet
    <3>3. <<>> \in Seq(ScreenLine) /\ Len(<<>>) = 0  BY EmptySeq
    <3> DEFINE g == [a \in {} |-> a]
    <3>4. g \in [{} -> (1 .. 0) \ gone] /\ 1 .. 0 = {}  OBVIOUS
    <3>5. PICK e : e = <<>>  OBVIOUS
    <3>6. 1 .. Len(e) = {}  BY <3>3, <3>5
    <3> HIDE DEF g
    <3>7. \E f \in [1 .. Len(e) -> (1 .. 0) \ gone] :
            /\ \A a, b \in 1 .. Len(e) : a < b => f[a] < f[b]
            /\ \A a \in 1 .. Len(e) : e[a] = L[f[a]]
            /\ \A s \in (1 .. 0) \ gone : Place(gone, s) \in 1 .. Len(e) /\ f[Place(gone, s)] = s
      BY <3>4, <3>6
    <3>8. e \in Seq(ScreenLine) /\ Len(e) = 0 - Cardinality(Below(gone, 0 + 1))
      BY <3>2, <3>3, <3>5
    <3>9. Thins(L, gone, e, 0)  BY <3>7, <3>8 DEF Thins
    <3> QED  BY <3>5, <3>9
  <2>4. i # 0 /\ i \in 0 .. Len(L) /\ i \in Nat  BY <1>3, <2>3
  <2>5. i - 1 \in Nat /\ i - 1 \in 0 .. Len(L) /\ ~(i <= i - 1) /\ i \in 1 .. Len(L)  BY <1>1, <2>4
  <2>6. Thins(L, gone, rest[i - 1], i - 1)  BY <2>2, <2>5
  <2>7. rest[i] = IF i \in gone THEN rest[i - 1] ELSE Append(rest[i - 1], L[i])  BY <1>3, <2>5
  <2>8. Thins(L, gone, rest[i], i)  BY <1>2, <2>5, <2>6, <2>7, ThinsOne
  <2> QED  BY <2>8
<1>5. Len(L) \in 0 .. Len(L)  BY <1>1
<1>6. Thins(L, gone, M, Len(L))  BY <1>1, <1>4, <1>5
<1> HIDE DEF Bad
<1>7. M \in Seq(ScreenLine) /\ DOMAIN M = 1 .. Len(M) /\ Len(M) \in Nat  BY <1>6, LenProperties DEF Thins
<1>8. PICK g \in [DOMAIN M -> DOMAIN L \ gone] :
        /\ \A i, j \in DOMAIN M : i < j => g[i] < g[j]
        /\ \A i \in DOMAIN M : M[i] = L[g[i]]
        /\ \A s \in DOMAIN L \ gone : Place(gone, s) \in DOMAIN M /\ g[Place(gone, s)] = s
  BY <1>1, <1>6, <1>7 DEF Thins
<1>9. \A i \in DOMAIN M : /\ g[i] \in DOMAIN L /\ g[i] \notin gone
                          /\ i \in Lasts(M, t) <=> g[i] \in Lasts(L, t)
                          /\ i \in ToolLines(M, t) => g[i] \in ToolLines(L, t)
  BY <1>8 DEF Lasts, ToolLines
<1>10. Lasts(M, t) \subseteq DOMAIN M /\ Lasts(L, t) \subseteq DOMAIN L \ gone
  BY DEF Lasts
<1>11. Keeps(L, M, t)
  <2> DEFINE h == [i \in Lasts(M, t) |-> g[i]]
  <2>1. h \in [Lasts(M, t) -> Lasts(L, t)]  BY <1>9, <1>10
  <2>2. \A i, j \in Lasts(M, t) : i < j => h[i] < h[j]  BY <1>8, <1>10
  <2>3. \A l \in Lasts(L, t) : \E i \in Lasts(M, t) : h[i] = l
    <3> TAKE l \in Lasts(L, t)
    <3>1. Place(gone, l) \in DOMAIN M /\ g[Place(gone, l)] = l  BY <1>8, <1>10
    <3>2. Place(gone, l) \in Lasts(M, t)  BY <1>9, <3>1
    <3> QED  BY <3>1, <3>2
  <2>4. \A i \in Lasts(M, t) : M[i] = L[h[i]]  BY <1>8, <1>10
  <2> HIDE DEF h
  <2> QED  BY <2>1, <2>2, <2>3, <2>4 DEF Keeps
<1>12. ASSUME ToolLines(L, t) \subseteq gone PROVE ToolLines(M, t) = {}
  <2>1. ToolLines(M, t) \subseteq DOMAIN M  BY DEF ToolLines
  <2> QED  BY <1>9, <1>12, <2>1
<1>13. ASSUME NEW s \in DOMAIN L \ gone
       PROVE  /\ Place(gone, s) \in DOMAIN M /\ M[Place(gone, s)] = L[s]
              /\ (\A i \in Lasts(L, t) : i < s) => \A i \in Lasts(M, t) : i < Place(gone, s)
  <2>1. Place(gone, s) \in DOMAIN M /\ g[Place(gone, s)] = s  BY <1>8
  <2>2. M[Place(gone, s)] = L[s]  BY <1>8, <2>1
  <2>3. ASSUME \A i \in Lasts(L, t) : i < s, NEW i \in Lasts(M, t)
        PROVE  i < Place(gone, s)
    <3>1. g[i] < s /\ g[i] \in Nat /\ s \in Nat  BY <1>1, <1>9, <1>10, <2>3
    <3>2. i \in DOMAIN M /\ i \in Nat /\ Place(gone, s) \in Nat  BY <1>7, <1>10, <2>1
    <3>3. ~(Place(gone, s) < i) /\ i # Place(gone, s)  BY <1>8, <2>1, <3>1, <3>2
    <3> QED  BY <3>2, <3>3
  <2> QED  BY <2>1, <2>2, <2>3
<1> QED  BY <1>7, <1>11, <1>12, <1>13

-----------------------------------------------------------------------------
(* What the operators of the screen do to it *)
UiOK(u, owners) ==
  /\ u \in [lines : Seq(ScreenLine), stream : Int, acts : SUBSET Int, seen : SUBSET Utterance]
  /\ IsFiniteSet(u.acts)
  /\ \A i \in DOMAIN u.lines : u.lines[i].turn \in owners

(* The owners of T are as true as they were, and none of them has new tools.  *)
Apart(L, M, T) ==
  \A t \in T : /\ \A told \in Seq(Utterance) : TrueTo(L, t, told) => TrueTo(M, t, told)
               /\ ToolLines(L, t) = {} => ToolLines(M, t) = {}

(* The indices of turn t mean lines of turn t, and the one that is streamed  *)
(* is behind all that are to last.                                           *)
IndexOK(u, t) ==
  /\ u.stream # 0 => /\ u.stream \in DOMAIN u.lines
                     /\ u.lines[u.stream].turn = t /\ u.lines[u.stream].kind = "partial"
                     /\ \A i \in Lasts(u.lines, t) : i < u.stream
  /\ u.acts \subseteq ToolLines(u.lines, t)

(* Turn t, of which the model has said told, is on the screen, and its tools *)
(* and its texts are known.                                                  *)
Known(u, t) == \A x \in Utterance : x \in u.seen <=> Replies(u.lines, t, x) # {}
PresentOK(u, t, told) ==
  TrueTo(u.lines, t, told) /\ ToolLines(u.lines, t) \subseteq u.acts /\ Known(u, t)
OnlySaid(u, t, told) ==
  \A x \in Utterance : Replies(u.lines, t, x) # {} => \E k \in DOMAIN told : told[k] = x

(* What a step within turn t leaves: the indices are right, other turns are  *)
(* as they were, and turn t shows what it showed.                            *)
Serves(u, v, t) ==
  /\ IndexOK(v, t) /\ \A T : t \notin T => Apart(u.lines, v.lines, T)
  /\ \A told \in Seq(Utterance) : PresentOK(u, t, told) => PresentOK(v, t, told)
  /\ \A told : OnlySaid(u, t, told) => OnlySaid(v, t, told)

LEMMA KeptIsApart ==
  ASSUME NEW L \in Seq(ScreenLine), NEW M \in Seq(ScreenLine), NEW T,
         \A t \in T : Keeps(L, M, t) /\ (ToolLines(L, t) = {} => ToolLines(M, t) = {})
  PROVE  Apart(L, M, T)
BY KeepsTrue DEF Apart

LEMMA ApartTwice ==
  ASSUME NEW L, NEW M, NEW N, NEW T, Apart(L, M, T), Apart(M, N, T)
  PROVE  Apart(L, N, T)
BY DEF Apart

LEMMA ServesTwice ==
  ASSUME NEW u, NEW w, NEW v, NEW t, Serves(u, w, t), Serves(w, v, t)
  PROVE  Serves(u, v, t)
<1>1. \A T : t \notin T => Apart(u.lines, v.lines, T)  BY ApartTwice DEF Serves
<1>2. \A told \in Seq(Utterance) : PresentOK(u, t, told) => PresentOK(v, t, told)
  BY DEF Serves
<1>3. \A told : OnlySaid(u, t, told) => OnlySaid(v, t, told)  BY DEF Serves
<1>4. IndexOK(v, t)  BY DEF Serves
<1> QED  BY <1>1, <1>2, <1>3, <1>4 DEF Serves

(* A line of turn t that is pushed; a note of none.                          *)
LEMMA PushedType ==
  ASSUME NEW owners, NEW u, UiOK(u, owners), NEW line \in ScreenLine, line.turn \in owners,
         NEW v, v = Push(u, line)
  PROVE  /\ UiOK(v, owners) /\ v.lines = Append(u.lines, line) /\ u.lines \in Seq(ScreenLine)
         /\ v.stream = u.stream /\ v.acts = u.acts /\ v.seen = u.seen
         /\ DOMAIN u.lines \subseteq DOMAIN v.lines
         /\ \A i \in DOMAIN u.lines : v.lines[i] = u.lines[i]
<1>1. u \in [lines : Seq(ScreenLine), stream : Int, acts : SUBSET Int, seen : SUBSET Utterance]
  BY DEF UiOK
<1>2. /\ v = [u EXCEPT !.lines = Append(u.lines, line)]
      /\ v.lines = Append(u.lines, line) /\ v.stream = u.stream /\ v.acts = u.acts
      /\ v.seen = u.seen /\ u.lines \in Seq(ScreenLine)
  BY <1>1 DEF Push
<1>3. /\ v.lines \in Seq(ScreenLine) /\ Len(v.lines) = Len(u.lines) + 1 /\ Len(u.lines) \in Nat
      /\ \A i \in 1 .. Len(u.lines) : v.lines[i] = u.lines[i]
      /\ v.lines[Len(u.lines) + 1] = line
  BY <1>2, AppendProperties, LenProperties
<1>4. v \in [lines : Seq(ScreenLine), stream : Int, acts : SUBSET Int, seen : SUBSET Utterance]
  BY <1>1, <1>2, <1>3
<1>5. DOMAIN v.lines = 1 .. Len(v.lines) /\ DOMAIN u.lines = 1 .. Len(u.lines)
  BY <1>2, <1>3, LenProperties
<1>6. \A i \in DOMAIN v.lines : i \in DOMAIN u.lines \/ i = Len(u.lines) + 1  BY <1>3, <1>5
<1>7. \A i \in DOMAIN v.lines : v.lines[i].turn \in owners  BY <1>3, <1>5, <1>6 DEF UiOK
<1>8. DOMAIN u.lines \subseteq DOMAIN v.lines  BY <1>3, <1>5
<1> QED  BY <1>2, <1>3, <1>4, <1>5, <1>7, <1>8 DEF UiOK

LEMMA NotePushed ==
  ASSUME NEW owners, 0 \in owners, NEW u, UiOK(u, owners), NEW v, v = Push(u, Note)
  PROVE  /\ UiOK(v, owners) /\ v.stream = u.stream /\ v.acts = u.acts
         /\ \A T : Apart(u.lines, v.lines, T)
         /\ \A t : IndexOK(u, t) => IndexOK(v, t)
         /\ \A t : \A told \in Seq(Utterance) : PresentOK(u, t, told) => PresentOK(v, t, told)
         /\ \A t : \A told : OnlySaid(u, t, told) => OnlySaid(v, t, told)
         /\ \A t : ToolLines(v.lines, t) = ToolLines(u.lines, t)
<1> PICK note : note = Note  OBVIOUS
<1>1. note \in ScreenLine /\ note.turn = 0 /\ note.kind = "note"  BY DEF Note, ScreenLine
<1>2. /\ UiOK(v, owners) /\ v.lines = Append(u.lines, note) /\ u.lines \in Seq(ScreenLine)
      /\ v.stream = u.stream /\ v.acts = u.acts /\ v.seen = u.seen
      /\ DOMAIN u.lines \subseteq DOMAIN v.lines
      /\ \A i \in DOMAIN u.lines : v.lines[i] = u.lines[i]
  BY <1>1, PushedType
<1>3. v.lines \in Seq(ScreenLine)  BY <1>2 DEF UiOK
<1>4. ASSUME NEW t
      PROVE  /\ Keeps(u.lines, v.lines, t) /\ Lasts(v.lines, t) \subseteq Lasts(u.lines, t)
             /\ ToolLines(v.lines, t) = ToolLines(u.lines, t)
  <2>1. Keeps(u.lines, v.lines, t) /\ Lasts(v.lines, t) \subseteq Lasts(u.lines, t)
    BY <1>1, <1>2, LineAside
  <2>2. ToolLines(v.lines, t) \subseteq ToolLines(u.lines, t)
        /\ ToolLines(u.lines, t) \subseteq ToolLines(v.lines, t)
    BY <1>1, <1>2, NoToolAppended
  <2> QED  BY <2>1, <2>2
<1>5. \A T : Apart(u.lines, v.lines, T)  BY <1>2, <1>3, <1>4, KeptIsApart
<1>6. \A t : IndexOK(u, t) => IndexOK(v, t)  BY <1>2, <1>4 DEF IndexOK
<1>7. \A t : \A x : Replies(v.lines, t, x) = {} <=> Replies(u.lines, t, x) = {}
  BY <1>2, <1>3, <1>4, KeepsTrue
<1>8. \A t : \A told \in Seq(Utterance) : PresentOK(u, t, told) => PresentOK(v, t, told)
  <2> TAKE t
  <2> TAKE told \in Seq(Utterance)
  <2> HAVE PresentOK(u, t, told)
  <2>1. TrueTo(v.lines, t, told)  BY <1>2, <1>3, <1>4, KeepsTrue DEF PresentOK
  <2>2. ToolLines(v.lines, t) \subseteq v.acts  BY <1>2, <1>4 DEF PresentOK
  <2>3. Known(v, t)  BY <1>2, <1>7 DEF PresentOK, Known
  <2> QED  BY <2>1, <2>2, <2>3 DEF PresentOK
<1>9. \A t : \A told : OnlySaid(u, t, told) => OnlySaid(v, t, told)  BY <1>7 DEF OnlySaid
<1> QED  BY <1>2, <1>4, <1>5, <1>6, <1>8, <1>9

LEMMA NoteServes ==
  ASSUME NEW owners, 0 \in owners, NEW u, UiOK(u, owners), NEW t, IndexOK(u, t),
         NEW v, v = Push(u, Note)
  PROVE  Serves(u, v, t)
<1>1. \A T : Apart(u.lines, v.lines, T)  BY NotePushed
<1>2. IndexOK(v, t)  BY NotePushed
<1>3. \A told \in Seq(Utterance) : PresentOK(u, t, told) => PresentOK(v, t, told)  BY NotePushed
<1>4. \A told : OnlySaid(u, t, told) => OnlySaid(v, t, told)  BY NotePushed
<1> QED  BY <1>1, <1>2, <1>3, <1>4 DEF Serves

(* Replace: if the line is there, it is one of this turn, and only it.       *)
LEMMA ReplacedType ==
  ASSUME NEW owners, NEW u, UiOK(u, owners), NEW line \in ScreenLine, line.turn \in owners,
         NEW v, v = Replace(u, line)
  PROVE  /\ UiOK(v, owners) /\ v.stream = u.stream /\ v.acts = u.acts /\ v.seen = u.seen
         /\ u.lines \in Seq(ScreenLine)
         /\ u.stream \in DOMAIN u.lines => Changed(u.lines, v.lines, u.stream, line)
<1>1. u \in [lines : Seq(ScreenLine), stream : Int, acts : SUBSET Int, seen : SUBSET Utterance]
  BY DEF UiOK
<1>2. CASE u.stream \notin DOMAIN u.lines  BY <1>1, <1>2 DEF Replace
<1>3. CASE u.stream \in DOMAIN u.lines
  <2> PICK L : L = [u.lines EXCEPT ![u.stream] = line]  OBVIOUS
  <2>1. v = [u EXCEPT !.lines = L]  BY <1>3 DEF Replace
  <2>2. v.lines = L /\ v.stream = u.stream /\ v.acts = u.acts /\ v.seen = u.seen
    BY <1>1, <2>1
  <2>3. u.lines \in Seq(ScreenLine)  BY <1>1
  <2>4. DOMAIN u.lines = 1 .. Len(u.lines)  BY <2>3, LenProperties
  <2>5. L \in Seq(ScreenLine)  BY <1>3, <2>3, <2>4, ExceptSeq
  <2>6. v \in [lines : Seq(ScreenLine), stream : Int, acts : SUBSET Int, seen : SUBSET Utterance]
    BY <1>1, <2>1, <2>5
  <2>7. \A i \in DOMAIN L : L[i].turn \in owners  BY <1>3 DEF UiOK
  <2>8. Changed(u.lines, v.lines, u.stream, line)
    <3>1. Changed(u.lines, L, u.stream, line)  BY <1>3, <2>5 DEF Changed
    <3> QED  BY <2>2, <3>1
  <2> QED  BY <2>2, <2>3, <2>6, <2>7, <2>8 DEF UiOK
<1> QED  BY <1>2, <1>3


LEMMA ReplacedLine ==
  ASSUME NEW owners, NEW u, UiOK(u, owners), NEW t, IndexOK(u, t), u.stream # 0,
         NEW line \in ScreenLine, line.turn = t, t \in owners,
         line.kind \in {"partial", "cancelled"}, NEW v, v = Replace(u, line)
  PROVE  /\ UiOK(v, owners) /\ v.stream = u.stream /\ v.acts = u.acts
         /\ \A T : Apart(u.lines, v.lines, T)
         /\ v.acts \subseteq ToolLines(v.lines, t)
         /\ line.kind = "partial" => Serves(u, v, t)
<1>1. /\ UiOK(v, owners) /\ v.stream = u.stream /\ v.acts = u.acts /\ v.seen = u.seen
      /\ u.lines \in Seq(ScreenLine)
      /\ u.stream \in DOMAIN u.lines => Changed(u.lines, v.lines, u.stream, line)
  BY ReplacedType
<1>2. /\ u.stream \in DOMAIN u.lines /\ u.lines[u.stream].turn = t
      /\ u.lines[u.stream].kind = "partial" /\ \A i \in Lasts(u.lines, t) : i < u.stream
      /\ u.acts \subseteq ToolLines(u.lines, t)
  BY DEF IndexOK
<1>3. Changed(u.lines, v.lines, u.stream, line)  BY <1>1, <1>2
<1>4. line.kind # "reply" /\ line.kind \in {"partial", "reply", "cancelled"}  OBVIOUS
<1>5. \A s : Keeps(u.lines, v.lines, s) /\ Lasts(v.lines, s) \subseteq Lasts(u.lines, s)
  BY <1>1, <1>2, <1>3, <1>4, ReplacedAside
<1>6. \A s : /\ ToolLines(v.lines, s) \subseteq ToolLines(u.lines, s)
             /\ ToolLines(u.lines, s) \subseteq ToolLines(v.lines, s)
  BY <1>1, <1>2, <1>3, <1>4, LineReplaced
<1>7. v.lines \in Seq(ScreenLine)  BY <1>3 DEF Changed
<1>8. \A T : Apart(u.lines, v.lines, T)
  <2> TAKE T
  <2>1. \A s \in T : Keeps(u.lines, v.lines, s) /\ (ToolLines(u.lines, s) = {} => ToolLines(v.lines, s) = {})
    BY <1>5, <1>6
  <2> QED  BY <1>1, <1>7, <2>1, KeptIsApart
<1>9. v.acts \subseteq ToolLines(v.lines, t)  BY <1>1, <1>2, <1>6
<1>11. ASSUME line.kind = "partial" PROVE IndexOK(v, t)
  <2>1. v.stream \in DOMAIN v.lines /\ v.lines[v.stream] = line  BY <1>1, <1>2, <1>3 DEF Changed
  <2>2. \A i \in Lasts(v.lines, t) : i < v.stream  BY <1>1, <1>2, <1>5
  <2> QED  BY <1>9, <1>11, <2>1, <2>2 DEF IndexOK
<1>12. \A x : Replies(v.lines, t, x) = {} <=> Replies(u.lines, t, x) = {}
  BY <1>1, <1>5, <1>7, KeepsTrue
<1>13. ASSUME NEW told \in Seq(Utterance), PresentOK(u, t, told) PROVE PresentOK(v, t, told)
  <2>1. TrueTo(v.lines, t, told)  BY <1>1, <1>5, <1>7, <1>13, KeepsTrue DEF PresentOK
  <2>2. ToolLines(v.lines, t) \subseteq v.acts  BY <1>1, <1>6, <1>13 DEF PresentOK
  <2>3. Known(v, t)  BY <1>1, <1>12, <1>13 DEF PresentOK, Known
  <2> QED  BY <2>1, <2>2, <2>3 DEF PresentOK
<1>14. \A told : OnlySaid(u, t, told) => OnlySaid(v, t, told)  BY <1>12 DEF OnlySaid
<1>15. line.kind = "partial" => Serves(u, v, t)  BY <1>8, <1>11, <1>13, <1>14 DEF Serves
<1> QED  BY <1>1, <1>8, <1>9, <1>15

(* A message that gets a line: the one that is streamed, or one of its own.  *)
LEMMA ConsumeType ==
  ASSUME NEW owners, NEW u, UiOK(u, owners), Now \in owners, Now \in Nat, NEW x \in Utterance,
         NEW v, v = Consume(u, x)
  PROVE  UiOK(v, owners) /\ (IndexOK(u, Now) => v.stream = 0) /\ v.acts = u.acts
<1>1. u \in [lines : Seq(ScreenLine), stream : Int, acts : SUBSET Int, seen : SUBSET Utterance]
  BY DEF UiOK
<1> PICK line : line = Line("reply", x)  OBVIOUS
<1>2. line \in ScreenLine /\ line.turn \in owners  BY DEF Line, ScreenLine
<1>3. CASE u.stream # 0
  <2> PICK w : w = Replace(u, line)  OBVIOUS
  <2>1. UiOK(w, owners) /\ w.acts = u.acts  BY <1>2, ReplacedType
  <2>2. v = [w EXCEPT !.seen = @ \cup {x}, !.stream = 0]  BY <1>3 DEF Consume
  <2>3. /\ v \in [lines : Seq(ScreenLine), stream : Int, acts : SUBSET Int, seen : SUBSET Utterance]
        /\ v.lines = w.lines /\ v.acts = w.acts /\ v.stream = 0
    <3>1. w \in [lines : Seq(ScreenLine), stream : Int, acts : SUBSET Int, seen : SUBSET Utterance]
      BY <2>1 DEF UiOK
    <3> PICK seen \in SUBSET Utterance : seen = w.seen \cup {x}  BY <3>1
    <3>2. v = [w EXCEPT !.seen = seen, !.stream = 0]  BY <2>2
    <3>3. v.lines = w.lines /\ v.acts = w.acts /\ v.stream = 0 /\ v.seen = seen  BY <3>1, <3>2
    <3>4. v = [lines |-> w.lines, stream |-> 0, acts |-> w.acts, seen |-> seen]
      BY <3>1, <3>2
    <3>5. /\ w.lines \in Seq(ScreenLine) /\ 0 \in Int /\ w.acts \in SUBSET Int
          /\ seen \in SUBSET Utterance
      BY <3>1
    <3> QED  BY <3>3, <3>4, <3>5
  <2> QED  BY <2>1, <2>3 DEF UiOK
<1>4. CASE u.stream = 0 /\ x \in u.seen  BY <1>4 DEF Consume
<1>5. CASE u.stream = 0 /\ x \notin u.seen
  <2> PICK w : w = Push(u, line)  OBVIOUS
  <2>1. UiOK(w, owners) /\ w.acts = u.acts /\ w.stream = 0  BY <1>2, <1>5, PushedType
  <2>2. v = [w EXCEPT !.seen = @ \cup {x}]  BY <1>5 DEF Consume
  <2>3. /\ v \in [lines : Seq(ScreenLine), stream : Int, acts : SUBSET Int, seen : SUBSET Utterance]
        /\ v.lines = w.lines /\ v.acts = w.acts /\ v.stream = 0
    <3>1. w \in [lines : Seq(ScreenLine), stream : Int, acts : SUBSET Int, seen : SUBSET Utterance]
      BY <2>1 DEF UiOK
    <3>2. w.seen \cup {x} \in SUBSET Utterance  BY <3>1
    <3> QED  BY <2>1, <2>2, <3>1, <3>2
  <2> QED  BY <2>1, <2>3 DEF UiOK
<1> QED  BY <1>3, <1>4, <1>5

LEMMA ConsumeAdds ==
  ASSUME NEW owners, NEW u, UiOK(u, owners), Now \in owners, Now \in Nat, NEW x \in Utterance,
         NEW t, t = Now, IndexOK(u, t), u.stream # 0 \/ x \notin u.seen,
         NEW v, v = Consume(u, x)
  PROVE  /\ Adds(u.lines, v.lines, t, x)
         /\ \A s : s # t => Keeps(u.lines, v.lines, s)
         /\ \A s : /\ ToolLines(v.lines, s) \subseteq ToolLines(u.lines, s)
                   /\ ToolLines(u.lines, s) \subseteq ToolLines(v.lines, s)
         /\ v.seen = u.seen \cup {x}
<1>1. /\ u \in [lines : Seq(ScreenLine), stream : Int, acts : SUBSET Int, seen : SUBSET Utterance]
      /\ u.lines \in Seq(ScreenLine)
  BY DEF UiOK
<1> PICK line : line = Line("reply", x)  OBVIOUS
<1>2. /\ line \in ScreenLine /\ line.turn \in owners /\ line.turn = t /\ line.kind = "reply"
      /\ line.text = x
  BY DEF Line, ScreenLine
<1>3. CASE u.stream # 0
  <2> PICK w : w = Replace(u, line)  OBVIOUS
  <2>1. v = [w EXCEPT !.seen = @ \cup {x}, !.stream = 0]  BY <1>3 DEF Consume
  <2>2. UiOK(w, owners) /\ w.seen = u.seen  BY <1>2, ReplacedType
  <2>3. v.lines = w.lines /\ v.seen = u.seen \cup {x}  BY <2>1, <2>2 DEF UiOK
  <2>4. /\ u.stream \in DOMAIN u.lines /\ u.lines[u.stream].kind = "partial"
        /\ \A i \in Lasts(u.lines, t) : i < u.stream
    BY <1>3 DEF IndexOK
  <2>5. Changed(u.lines, v.lines, u.stream, line)  BY <1>2, <2>3, <2>4, ReplacedType
  <2>6. Adds(u.lines, v.lines, t, x)  BY <1>1, <1>2, <2>4, <2>5, ReplyReplaced
  <2>7. line.kind \in {"partial", "reply", "cancelled"}  BY <1>2
  <2>8. \A s : s # t => Keeps(u.lines, v.lines, s)
    BY <1>1, <1>2, <2>4, <2>5, <2>7, ReplacedAside
  <2>9. \A s : /\ ToolLines(v.lines, s) \subseteq ToolLines(u.lines, s)
               /\ ToolLines(u.lines, s) \subseteq ToolLines(v.lines, s)
    BY <1>1, <1>2, <2>4, <2>5, <2>7, LineReplaced
  <2> QED  BY <2>3, <2>6, <2>8, <2>9
<1>4. CASE u.stream = 0
  <2> PICK w : w = Push(u, line)  OBVIOUS
  <2>1. v = [w EXCEPT !.seen = @ \cup {x}]  BY <1>4 DEF Consume
  <2>2. UiOK(w, owners) /\ w.seen = u.seen /\ w.lines = Append(u.lines, line)  BY <1>2, PushedType
  <2>3. v.lines = w.lines /\ v.seen = u.seen \cup {x}  BY <2>1, <2>2 DEF UiOK
  <2>4. v.lines = Append(u.lines, line)  BY <2>2, <2>3
  <2>5. Adds(u.lines, v.lines, t, x)  BY <1>1, <1>2, <2>4, ReplyAppended
  <2>6. \A s : s # t => Keeps(u.lines, v.lines, s)  BY <1>1, <1>2, <2>4, LineAside
  <2>7. line \in ScreenLine /\ line.kind # "tool"  BY <1>2
  <2>8. ASSUME NEW s
        PROVE  /\ ToolLines(v.lines, s) \subseteq ToolLines(u.lines, s)
               /\ ToolLines(u.lines, s) \subseteq ToolLines(v.lines, s)
    <3> PICK L \in Seq(ScreenLine) : L = u.lines  BY <1>1
    <3> PICK M : M = v.lines  OBVIOUS
    <3>1. M = Append(L, line)  BY <2>4
    <3>2. ToolLines(M, s) \subseteq ToolLines(L, s) /\ ToolLines(L, s) \subseteq ToolLines(M, s)
      BY <2>7, <3>1, NoToolAppended
    <3> QED  BY <3>2
  <2> QED  BY <2>3, <2>5, <2>6, <2>8
<1> QED  BY <1>3, <1>4

LEMMA ConsumeKeeps ==
  ASSUME NEW owners, NEW u, UiOK(u, owners), Now \in owners, Now \in Nat, NEW x \in Utterance,
         NEW t, t = Now, IndexOK(u, t), NEW T, t \notin T, NEW v, v = Consume(u, x)
  PROVE  IndexOK(v, t) /\ Apart(u.lines, v.lines, T)
<1>1. CASE u.stream # 0 \/ x \notin u.seen
  <2>1. UiOK(v, owners) /\ v.stream = 0 /\ v.acts = u.acts  BY ConsumeType
  <2>2. \A s : s # t => Keeps(u.lines, v.lines, s)  BY <1>1, ConsumeAdds
  <2>3. \A s : /\ ToolLines(v.lines, s) \subseteq ToolLines(u.lines, s)
               /\ ToolLines(u.lines, s) \subseteq ToolLines(v.lines, s)
    BY <1>1, ConsumeAdds
  <2>4. IndexOK(v, t)  BY <2>1, <2>3 DEF IndexOK
  <2>5. v.lines \in Seq(ScreenLine) /\ u.lines \in Seq(ScreenLine)  BY <2>1 DEF UiOK
  <2>6. \A s \in T : Keeps(u.lines, v.lines, s) /\ (ToolLines(u.lines, s) = {} => ToolLines(v.lines, s) = {})
    BY <2>2, <2>3
  <2> QED  BY <2>4, <2>5, <2>6, KeptIsApart
<1>2. CASE u.stream = 0 /\ x \in u.seen
  <2>1. v = u  BY <1>2 DEF Consume
  <2> QED  BY <2>1 DEF Apart
<1> QED  BY <1>1, <1>2

OnlyNew(L, M, t, x) ==
  \A y \in Utterance : y # x /\ Replies(M, t, y) # {} => Replies(L, t, y) # {}

LEMMA ConsumeSeen ==
  ASSUME NEW owners, NEW u, UiOK(u, owners), Now \in owners, Now \in Nat, NEW x \in Utterance,
         NEW t, t = Now, IndexOK(u, t), u.stream # 0 \/ x \notin u.seen, NEW told,
         PresentOK(u, t, told), NEW v, v = Consume(u, x)
  PROVE  /\ ToolLines(v.lines, t) \subseteq v.acts
         /\ Known(v, t) /\ OnlyNew(u.lines, v.lines, t, x)
<1>1. UiOK(v, owners) /\ v.acts = u.acts  BY ConsumeType
<1>2. v.lines \in Seq(ScreenLine) /\ u.lines \in Seq(ScreenLine)  BY <1>1 DEF UiOK
<1>3. Adds(u.lines, v.lines, t, x)  BY ConsumeAdds
<1>4. v.seen = u.seen \cup {x}  BY ConsumeAdds
<1>5. \A s : ToolLines(v.lines, s) \subseteq ToolLines(u.lines, s)  BY ConsumeAdds
<1>6. \A y : y # x => Replies(v.lines, t, y) = Replies(u.lines, t, y)  BY <1>2, <1>3, AddsReply
<1>7. PICK p \in Nat : Replies(v.lines, t, x) = Replies(u.lines, t, x) \cup {p}
                       /\ \A i \in Lasts(u.lines, t) : i < p
  BY <1>2, <1>3, AddsReply
<1>8. ToolLines(v.lines, t) \subseteq v.acts  BY <1>1, <1>5 DEF PresentOK
<1>9. Known(v, t)  BY <1>4, <1>6, <1>7 DEF PresentOK, Known
<1>10. OnlyNew(u.lines, v.lines, t, x)  BY <1>6 DEF OnlyNew
<1> QED  BY <1>8, <1>9, <1>10

(* A message of the model, while the turn runs.                              *)
LEMMA ConsumeSaid ==
  ASSUME NEW owners, NEW u, UiOK(u, owners), Now \in owners, Now \in Nat, NEW x \in Utterance,
         NEW t, t = Now, IndexOK(u, t), NEW told \in Seq(Utterance),
         PresentOK(u, t, told), OnlySaid(u, t, told),
         NEW v, v = Consume(u, x), NEW more, more = Append(told, x)
  PROVE  PresentOK(v, t, more) /\ OnlySaid(v, t, more)
<1>1. /\ Len(told) \in Nat /\ DOMAIN told = 1 .. Len(told) /\ DOMAIN more = 1 .. Len(told) + 1
      /\ more[Len(told) + 1] = x
  BY SaidOnceMore
<1>2. \A k \in 1 .. Len(told) : more[k] = told[k]  BY SaidOnceMore
<1>3. \A k \in DOMAIN told : k \in DOMAIN more /\ more[k] = told[k]  BY <1>1, <1>2
<1>4. Len(told) + 1 \in DOMAIN more  BY <1>1
<1>5. CASE u.stream # 0 \/ x \notin u.seen
  <2>1. v.lines \in Seq(ScreenLine) /\ u.lines \in Seq(ScreenLine)  BY ConsumeType DEF UiOK
  <2>2. Adds(u.lines, v.lines, t, x)  BY <1>5, ConsumeAdds
  <2>3. TrueTo(u.lines, t, told)  BY DEF PresentOK
  <2>4. TrueTo(v.lines, t, more)  BY <2>1, <2>2, <2>3, AddsSaid
  <2>5. ToolLines(v.lines, t) \subseteq v.acts  BY <1>5, ConsumeSeen
  <2>6. Known(v, t)  BY <1>5, ConsumeSeen
  <2>7. OnlyNew(u.lines, v.lines, t, x)  BY <1>5, ConsumeSeen
  <2>8. OnlySaid(v, t, more)  BY <1>1, <1>3, <1>4, <2>7 DEF OnlySaid, OnlyNew
  <2> QED  BY <2>4, <2>5, <2>6, <2>8 DEF PresentOK
<1>6. CASE u.stream = 0 /\ x \in u.seen
  <2>1. v = u  BY <1>6 DEF Consume
  <2>2. u.lines \in Seq(ScreenLine) /\ TrueTo(u.lines, t, told) /\ Replies(u.lines, t, x) # {}
    BY <1>6 DEF UiOK, PresentOK, Known
  <2>3. PICK first \in DOMAIN told : told[first] = x  BY <2>2 DEF OnlySaid
  <2>4. TrueTo(u.lines, t, more)  BY <2>2, <2>3, ShownSaid
  <2>5. OnlySaid(v, t, more)  BY <1>3, <2>1 DEF OnlySaid
  <2> QED  BY <2>1, <2>4, <2>5 DEF PresentOK
<1> QED  BY <1>5, <1>6

(* A message that comes once more, after the turn.                           *)
LEMMA ConsumeReplayed ==
  ASSUME NEW owners, NEW u, UiOK(u, owners), Now \in owners, Now \in Nat, NEW x \in Utterance,
         NEW t, t = Now, IndexOK(u, t), NEW told \in Seq(Utterance), u.stream = 0,
         PresentOK(u, t, told), Times(told, x) # 0, NEW v, v = Consume(u, x)
  PROVE  PresentOK(v, t, told)
<1>1. CASE x \notin u.seen
  <2>1. v.lines \in Seq(ScreenLine) /\ u.lines \in Seq(ScreenLine)  BY ConsumeType DEF UiOK
  <2>2. Adds(u.lines, v.lines, t, x)  BY <1>1, ConsumeAdds
  <2>3. TrueTo(u.lines, t, told) /\ Replies(u.lines, t, x) = {}  BY <1>1 DEF PresentOK, Known
  <2>4. TrueTo(v.lines, t, told)  BY <2>1, <2>2, <2>3, AddsReplayed
  <2>5. ToolLines(v.lines, t) \subseteq v.acts  BY <1>1, ConsumeSeen
  <2>6. Known(v, t)  BY <1>1, ConsumeSeen
  <2> QED  BY <2>4, <2>5, <2>6 DEF PresentOK
<1>2. CASE x \in u.seen  BY <1>2 DEF Consume
<1> QED  BY <1>1, <1>2

(* A first token gets a line, a tool gets one that is to go.                 *)
LEMMA TokenShown ==
  ASSUME NEW owners, NEW u, UiOK(u, owners), Now \in owners, Now \in Nat, NEW t, t = Now,
         u.stream = 0,
         NEW v, v = [Push(u, Line("partial", <<>>)) EXCEPT !.stream = Len(u.lines) + 1]
  PROVE  UiOK(v, owners) /\ (IndexOK(u, t) => Serves(u, v, t))
<1> PICK line : line = Line("partial", <<>>)  OBVIOUS
<1> PICK w : w = Push(u, line)  OBVIOUS
<1>1. line \in ScreenLine /\ line.turn \in owners /\ line.turn = t /\ line.kind = "partial"
  BY DEF Line, ScreenLine
<1>2. /\ UiOK(w, owners) /\ w.lines = Append(u.lines, line) /\ w.acts = u.acts
      /\ w.seen = u.seen
  BY <1>1, PushedType
<1>3. u.lines \in Seq(ScreenLine) /\ Len(u.lines) \in Nat  BY LenProperties DEF UiOK
<1>4. /\ v.lines = w.lines /\ v.stream = Len(u.lines) + 1 /\ v.acts = u.acts
      /\ v.seen = u.seen
  BY <1>2 DEF UiOK
<1>5. UiOK(v, owners)
  <2>1. w \in [lines : Seq(ScreenLine), stream : Int, acts : SUBSET Int, seen : SUBSET Utterance]
    BY <1>2 DEF UiOK
  <2>2. Len(u.lines) + 1 \in Int  BY <1>3
  <2>3. v \in [lines : Seq(ScreenLine), stream : Int, acts : SUBSET Int, seen : SUBSET Utterance]
    BY <2>1, <2>2
  <2> QED  BY <1>2, <1>4, <2>3 DEF UiOK
<1>6. v.lines = Append(u.lines, line)  BY <1>2, <1>4
<1>7. ASSUME NEW s PROVE Keeps(u.lines, v.lines, s) /\ Lasts(v.lines, s) \subseteq Lasts(u.lines, s)
  BY <1>1, <1>3, <1>6, LineAside
<1>k. line \in ScreenLine /\ line.kind # "tool"  BY <1>1
<1>8. ASSUME NEW s
      PROVE  /\ ToolLines(v.lines, s) \subseteq ToolLines(u.lines, s)
             /\ ToolLines(u.lines, s) \subseteq ToolLines(v.lines, s)
  <2> PICK L \in Seq(ScreenLine) : L = u.lines  BY <1>3
  <2> PICK M : M = v.lines  OBVIOUS
  <2>1. M = Append(L, line)  BY <1>6
  <2>2. ToolLines(M, s) \subseteq ToolLines(L, s) /\ ToolLines(L, s) \subseteq ToolLines(M, s)
    BY <1>k, <2>1, NoToolAppended
  <2> QED  BY <2>2
<1>9. v.lines \in Seq(ScreenLine)  BY <1>5 DEF UiOK
<1>10. ASSUME NEW T, t \notin T PROVE Apart(u.lines, v.lines, T)
  <2>1. \A s \in T : Keeps(u.lines, v.lines, s) /\ (ToolLines(u.lines, s) = {} => ToolLines(v.lines, s) = {})
    BY <1>7, <1>8
  <2> QED  BY <1>3, <1>9, <2>1, KeptIsApart
<1>11. ASSUME IndexOK(u, t) PROVE IndexOK(v, t)
  <2>1. v.acts \subseteq ToolLines(v.lines, t)  BY <1>4, <1>8, <1>11 DEF IndexOK
  <2>2. /\ Len(v.lines) = Len(u.lines) + 1 /\ Len(v.lines) \in DOMAIN v.lines
        /\ v.lines[Len(v.lines)] = line
    BY <1>3, <1>6, LineAppended
  <2>3. \A i \in DOMAIN u.lines : i < Len(v.lines)  BY <1>3, <1>6, LineAppended
  <2>4. \A i \in Lasts(v.lines, t) : i < Len(v.lines)  BY <1>7, <2>3 DEF Lasts
  <2> QED  BY <1>1, <1>4, <2>1, <2>2, <2>4 DEF IndexOK
<1>n. Keeps(u.lines, v.lines, t)  BY <1>7
<1>12. \A x : Replies(v.lines, t, x) = {} <=> Replies(u.lines, t, x) = {}
  BY <1>3, <1>9, <1>n, KeepsTrue
<1>13. ASSUME NEW told \in Seq(Utterance), PresentOK(u, t, told) PROVE PresentOK(v, t, told)
  <2>1. TrueTo(v.lines, t, told)  BY <1>3, <1>7, <1>9, <1>13, KeepsTrue DEF PresentOK
  <2>2. ToolLines(v.lines, t) \subseteq v.acts  BY <1>4, <1>8, <1>13 DEF PresentOK
  <2>3. Known(v, t)  BY <1>4, <1>12, <1>13 DEF PresentOK, Known
  <2> QED  BY <2>1, <2>2, <2>3 DEF PresentOK
<1>14. \A told : OnlySaid(u, t, told) => OnlySaid(v, t, told)  BY <1>12 DEF OnlySaid
<1>15. IndexOK(u, t) => Serves(u, v, t)  BY <1>10, <1>11, <1>13, <1>14 DEF Serves
<1> QED  BY <1>5, <1>15

LEMMA ToolIsShown ==
  ASSUME NEW owners, NEW u, UiOK(u, owners), Now \in owners, Now \in Nat, NEW t, t = Now,
         NEW v, v = ToolShown(u)
  PROVE  UiOK(v, owners) /\ (IndexOK(u, t) => Serves(u, v, t))
<1> PICK line : line = Line("tool", <<>>)  OBVIOUS
<1> PICK w : w = Push(u, line)  OBVIOUS
<1>1. line \in ScreenLine /\ line.turn \in owners /\ line.turn = t /\ line.kind = "tool"
  BY DEF Line, ScreenLine
<1>2. /\ UiOK(w, owners) /\ w.lines = Append(u.lines, line) /\ w.acts = u.acts
      /\ w.seen = u.seen /\ w.stream = u.stream
  BY <1>1, PushedType
<1>3. u.lines \in Seq(ScreenLine) /\ Len(u.lines) \in Nat  BY LenProperties DEF UiOK
<1> PICK n \in Nat : n = Len(u.lines) + 1  BY <1>3
<1>4. v = [w EXCEPT !.acts = w.acts \cup {n}]  BY DEF ToolShown
<1>5. /\ v.lines = w.lines /\ v.stream = u.stream /\ v.acts = u.acts \cup {n}
      /\ v.seen = u.seen
  BY <1>2, <1>4 DEF UiOK
<1>6. UiOK(v, owners)
  <2>1. w \in [lines : Seq(ScreenLine), stream : Int, acts : SUBSET Int, seen : SUBSET Utterance]
    BY <1>2 DEF UiOK
  <2>0. w.acts \cup {n} \in SUBSET Int  BY <2>1
  <2> PICK acts \in SUBSET Int : acts = w.acts \cup {n}  BY <2>0
  <2>2. v = [w EXCEPT !.acts = acts]  BY <1>4
  <2>3. v \in [lines : Seq(ScreenLine), stream : Int, acts : SUBSET Int, seen : SUBSET Utterance]
    BY <2>1, <2>2
  <2>4. IsFiniteSet(w.acts) /\ \A i \in DOMAIN w.lines : w.lines[i].turn \in owners
    BY <1>2 DEF UiOK
  <2>5. IsFiniteSet(u.acts)  BY DEF UiOK
  <2>6. IsFiniteSet(u.acts \cup {n})  BY <2>5, FS_AddElement
  <2> QED  BY <1>5, <2>3, <2>4, <2>6 DEF UiOK
<1>7. v.lines = Append(u.lines, line) /\ v.lines \in Seq(ScreenLine)
  BY <1>2, <1>5, <1>6 DEF UiOK
<1>8. ASSUME NEW s PROVE Keeps(u.lines, v.lines, s) /\ Lasts(v.lines, s) \subseteq Lasts(u.lines, s)
  BY <1>1, <1>3, <1>7, LineAside
<1>9. ASSUME NEW s, s # t
      PROVE  /\ ToolLines(v.lines, s) \subseteq ToolLines(u.lines, s)
             /\ ToolLines(u.lines, s) \subseteq ToolLines(v.lines, s)
  <2> PICK L \in Seq(ScreenLine) : L = u.lines  BY <1>3
  <2> PICK M : M = v.lines  OBVIOUS
  <2>1. M = Append(L, line) /\ line.turn # s  BY <1>1, <1>7, <1>9
  <2>2. ToolLines(M, s) \subseteq ToolLines(L, s) /\ ToolLines(L, s) \subseteq ToolLines(M, s)
    BY <1>1, <2>1, NoToolAppended
  <2> QED  BY <2>2
<1>10. ASSUME NEW T, t \notin T PROVE Apart(u.lines, v.lines, T)
  <2>1. \A s \in T : Keeps(u.lines, v.lines, s) /\ (ToolLines(u.lines, s) = {} => ToolLines(v.lines, s) = {})
    BY <1>8, <1>9, <1>10
  <2> QED  BY <1>3, <1>7, <2>1, KeptIsApart
<1>11. Len(v.lines) = n /\ n \in DOMAIN v.lines /\ v.lines[n] = line
  BY <1>3, <1>7, LineAppended
<1>12. ToolLines(v.lines, t) \subseteq ToolLines(u.lines, t) \cup {Len(v.lines)}
  BY <1>1, <1>3, <1>7, ToolAppended
<1>18. ToolLines(u.lines, t) \subseteq ToolLines(v.lines, t)  BY <1>1, <1>3, <1>7, ToolAppended
<1>13. n \in ToolLines(v.lines, t)  BY <1>1, <1>11 DEF ToolLines
<1>14. ASSUME IndexOK(u, t) PROVE IndexOK(v, t)
  <2>1. v.acts \subseteq ToolLines(v.lines, t)  BY <1>5, <1>18, <1>13, <1>14 DEF IndexOK
  <2>2. \A i \in DOMAIN u.lines : i \in DOMAIN v.lines /\ v.lines[i] = u.lines[i]
    BY <1>3, <1>7, LineAppended
  <2>3. ASSUME v.stream # 0
        PROVE  /\ v.stream \in DOMAIN v.lines
               /\ v.lines[v.stream].turn = t /\ v.lines[v.stream].kind = "partial"
               /\ \A i \in Lasts(v.lines, t) : i < v.stream
    BY <1>5, <1>8, <1>14, <2>2, <2>3 DEF IndexOK
  <2> QED  BY <2>1, <2>3 DEF IndexOK
<1>15. \A x : Replies(v.lines, t, x) = {} <=> Replies(u.lines, t, x) = {}
  BY <1>3, <1>7, <1>8, KeepsTrue
<1>16. ASSUME NEW told \in Seq(Utterance), PresentOK(u, t, told) PROVE PresentOK(v, t, told)
  <2>1. TrueTo(v.lines, t, told)  BY <1>3, <1>7, <1>8, <1>16, KeepsTrue DEF PresentOK
  <2>2. ToolLines(v.lines, t) \subseteq v.acts  BY <1>5, <1>11, <1>12, <1>16 DEF PresentOK
  <2>3. Known(v, t)  BY <1>5, <1>15, <1>16 DEF PresentOK, Known
  <2> QED  BY <2>1, <2>2, <2>3 DEF PresentOK
<1>17. \A told : OnlySaid(u, t, told) => OnlySaid(v, t, told)  BY <1>15 DEF OnlySaid
<1>19. IndexOK(u, t) => Serves(u, v, t)  BY <1>10, <1>14, <1>16, <1>17 DEF Serves
<1> QED  BY <1>6, <1>19

(* The lines of tools go, and the line that is streamed is found where it    *)
(* now is.                                                                   *)
LEMMA CollapseType ==
  ASSUME NEW owners, NEW u, UiOK(u, owners), NEW v, v = Collapse(u)
  PROVE  /\ UiOK(v, owners) /\ v.lines = Thinned(u.lines, u.acts)[Len(u.lines)]
         /\ v.stream = Place(u.acts, u.stream) /\ v.acts = {} /\ v.seen = u.seen
<1>1. u \in [lines : Seq(ScreenLine), stream : Int, acts : SUBSET Int, seen : SUBSET Utterance]
  BY DEF UiOK
<1> PICK L : L = Thinned(u.lines, u.acts)[Len(u.lines)]  OBVIOUS
<1>2. v = [u EXCEPT !.lines = L, !.stream = Place(u.acts, u.stream), !.acts = {}]
  BY DEF Collapse, Place, Below
<1>3. v.lines = L /\ v.stream = Place(u.acts, u.stream) /\ v.acts = {} /\ v.seen = u.seen
  BY <1>1, <1>2
<1>4. Place(u.acts, u.stream) \in Int
  <2>1. Below(u.acts, u.stream) \in SUBSET u.acts /\ IsFiniteSet(u.acts)  BY DEF Below, UiOK
  <2>2. Cardinality(Below(u.acts, u.stream)) \in Nat  BY <2>1, FS_Subset, FS_CardinalityType
  <2> QED  BY <1>1, <2>2 DEF Place
<1> DEFINE S == {l \in ScreenLine : l.turn \in owners}
<1>5. L \in Seq(S)
  <2>1. u.lines \in Seq(ScreenLine)  BY <1>1
  <2>2. Len(u.lines) \in Nat /\ DOMAIN u.lines = 1 .. Len(u.lines)  BY <2>1, LenProperties
  <2>3. \A i \in 1 .. Len(u.lines) : u.lines[i] \in S  BY <2>1, <2>2, ElementOfSeq DEF UiOK
  <2>4. u.lines = [i \in 1 .. Len(u.lines) |-> u.lines[i]]  BY <2>1, <2>2
  <2> HIDE DEF S
  <2>5. u.lines \in [1 .. Len(u.lines) -> S]  BY <2>3, <2>4
  <2>6. u.lines \in Seq(S)  BY <2>2, <2>5, SeqDef
  <2> QED  BY <2>6, ThinnedType
<1>6. L \in Seq(ScreenLine) /\ \A i \in DOMAIN L : L[i].turn \in owners
  <2>1. Len(L) \in Nat /\ DOMAIN L = 1 .. Len(L)
    <3> HIDE DEF S
    <3> QED  BY <1>5, LenProperties
  <2>2. \A i \in 1 .. Len(L) : L[i] \in S
    <3> HIDE DEF S
    <3> QED  BY <1>5, ElementOfSeq
  <2>3. L = [i \in 1 .. Len(L) |-> L[i]]
    <3> HIDE DEF S
    <3> QED  BY <1>5, <2>1
  <2>4. L \in [1 .. Len(L) -> ScreenLine]  BY <2>2, <2>3
  <2>5. L \in Seq(ScreenLine)  BY <2>1, <2>4, SeqDef
  <2> QED  BY <2>1, <2>2, <2>5
<1>7. v \in [lines : Seq(ScreenLine), stream : Int, acts : SUBSET Int, seen : SUBSET Utterance]
  BY <1>1, <1>2, <1>4, <1>6
<1>8. IsFiniteSet({})  BY FS_EmptySet
<1> QED  BY <1>3, <1>6, <1>7, <1>8 DEF UiOK

LEMMA CollapseKeeps ==
  ASSUME NEW owners, NEW u, UiOK(u, owners), NEW t, IndexOK(u, t), NEW v, v = Collapse(u)
  PROVE  Serves(u, v, t) /\ (u.stream = 0 => v.stream = 0)
<1>1. /\ UiOK(v, owners) /\ v.lines = Thinned(u.lines, u.acts)[Len(u.lines)]
      /\ v.stream = Place(u.acts, u.stream) /\ v.acts = {} /\ v.seen = u.seen
  BY CollapseType
<1>2. u.lines \in Seq(ScreenLine) /\ v.lines \in Seq(ScreenLine)  BY <1>1 DEF UiOK
<1>3. \A i \in u.acts : i \in DOMAIN u.lines /\ u.lines[i].kind = "tool"
  BY DEF IndexOK, ToolLines
<1>4. ASSUME NEW s
      PROVE  /\ Keeps(u.lines, v.lines, s)
             /\ ToolLines(u.lines, s) \subseteq u.acts => ToolLines(v.lines, s) = {}
  <2> PICK L \in Seq(ScreenLine) : L = u.lines  BY <1>2
  <2> PICK gone : gone = u.acts  OBVIOUS
  <2> PICK M : M = v.lines  OBVIOUS
  <2>1. M = Thinned(L, gone)[Len(L)] /\ \A i \in gone : i \in DOMAIN L /\ L[i].kind = "tool"
    BY <1>1, <1>3
  <2>2. Keeps(L, M, s)  BY <2>1, LinesThinned
  <2>3. ToolLines(L, s) \subseteq gone => ToolLines(M, s) = {}  BY <2>1, LinesThinned
  <2> QED  BY <2>2, <2>3
<1>5. \A T : Apart(u.lines, v.lines, T)
  <2> TAKE T
  <2>1. \A s \in T : Keeps(u.lines, v.lines, s) /\ (ToolLines(u.lines, s) = {} => ToolLines(v.lines, s) = {})
    BY <1>4
  <2> QED  BY <1>2, <2>1, KeptIsApart
<1>6. ASSUME u.stream = 0 PROVE v.stream = 0
  <2>1. DOMAIN u.lines = 1 .. Len(u.lines) /\ Len(u.lines) \in Nat  BY <1>2, LenProperties
  <2>2. Below(u.acts, 0) = {}  BY <1>3, <2>1 DEF Below
  <2>3. Cardinality(Below(u.acts, 0)) = 0  BY <2>2, FS_EmptySet
  <2> QED  BY <1>1, <1>6, <2>3 DEF Place
<1>7. IndexOK(v, t)
  <2>1. CASE u.stream = 0  BY <1>1, <1>6, <2>1 DEF IndexOK
  <2>2. CASE u.stream # 0
    <3>1. /\ u.stream \in DOMAIN u.lines /\ u.lines[u.stream].turn = t
          /\ u.lines[u.stream].kind = "partial" /\ \A i \in Lasts(u.lines, t) : i < u.stream
      BY <2>2 DEF IndexOK
    <3>2. u.stream \in DOMAIN u.lines \ u.acts  BY <1>3, <3>1
    <3>3. /\ v.stream \in DOMAIN v.lines /\ v.lines[v.stream] = u.lines[u.stream]
          /\ \A i \in Lasts(v.lines, t) : i < v.stream
      <4> PICK L \in Seq(ScreenLine) : L = u.lines  BY <1>2
      <4> PICK gone : gone = u.acts  OBVIOUS
      <4> PICK M : M = v.lines  OBVIOUS
      <4> PICK s : s = u.stream  OBVIOUS
      <4>1. M = Thinned(L, gone)[Len(L)] /\ \A i \in gone : i \in DOMAIN L /\ L[i].kind = "tool"
        BY <1>1, <1>3
      <4>2. s \in DOMAIN L \ gone /\ \A i \in Lasts(L, t) : i < s  BY <3>1, <3>2
      <4>3. Place(gone, s) \in DOMAIN M /\ M[Place(gone, s)] = L[s]  BY <4>1, <4>2, LinesThinned
      <4>4. \A i \in Lasts(M, t) : i < Place(gone, s)  BY <4>1, <4>2, LinesThinned
      <4> QED  BY <1>1, <4>3, <4>4
    <3> QED  BY <1>1, <3>1, <3>3 DEF IndexOK
  <2> QED  BY <2>1, <2>2
<1>8. ASSUME NEW told \in Seq(Utterance), PresentOK(u, t, told) PROVE PresentOK(v, t, told)
  <2>1. TrueTo(v.lines, t, told)  BY <1>2, <1>4, <1>8, KeepsTrue DEF PresentOK
  <2>2. ToolLines(v.lines, t) \subseteq v.acts  BY <1>4, <1>8 DEF PresentOK
  <2>3. \A x : Replies(v.lines, t, x) = {} <=> Replies(u.lines, t, x) = {}
    BY <1>2, <1>4, KeepsTrue
  <2>4. Known(v, t)  BY <1>1, <1>8, <2>3 DEF PresentOK, Known
  <2> QED  BY <2>1, <2>2, <2>4 DEF PresentOK
<1>9. \A told : OnlySaid(u, t, told) => OnlySaid(v, t, told)
  <2>1. \A x : Replies(v.lines, t, x) = {} <=> Replies(u.lines, t, x) = {}
    BY <1>2, <1>4, KeepsTrue
  <2> QED  BY <2>1 DEF OnlySaid
<1>10. Serves(u, v, t)  BY <1>5, <1>7, <1>8, <1>9 DEF Serves
<1> QED  BY <1>6, <1>10

(* What was told is told once more: nothing is added but what is missing.    *)
EachIsConsumed(shown, told) ==
  \A i \in 1 .. Len(told) : shown[i] = Consume(shown[i - 1], <<told[i][1], FALSE>>)

LEMMA ReplayerExists ==
  ASSUME NEW u, NEW told, Len(told) \in Nat, NEW shown, shown = Replayer(u, told)
  PROVE  shown[0] = u /\ EachIsConsumed(shown, told)
<1> DEFINE Then(w, i) == Consume(w, <<told[i][1], FALSE>>)
           Upto(n) == \E w : w = [i \in 0..n |-> IF i = 0 THEN u ELSE Then(w[i - 1], i)]
           Bad == {n \in Nat : ~Upto(n)}
<1> HIDE DEF Then
<1>1. Bad = {}
  <2> SUFFICES ASSUME Bad # {} PROVE FALSE  OBVIOUS
  <2>1. Bad \subseteq Nat  OBVIOUS
  <2> HIDE DEF Bad
  <2>2. PICK n \in Bad : \A m \in Bad : n <= m  BY <2>1, LeastNumber
  <2> USE DEF Bad
  <2>3. CASE n = 0
    <3> DEFINE w == [i \in 0..0 |-> u]
    <3>1. w = [i \in 0..0 |-> IF i = 0 THEN u ELSE Then(w[i - 1], i)]  OBVIOUS
    <3> HIDE DEF w
    <3> QED  BY <2>3, <3>1
  <2>4. CASE n # 0
    <3>1. n - 1 \in Nat /\ n \in Nat /\ ~(n <= n - 1)  BY <2>4
    <3>2. n - 1 \notin Bad
      <4> HIDE DEF Bad
      <4> QED  BY <2>2, <3>1
    <3> HIDE DEF Upto
    <3>3. Upto(n - 1)  BY <3>1, <3>2
    <3> USE DEF Upto
    <3>4. PICK w : w = [i \in 0..n - 1 |-> IF i = 0 THEN u ELSE Then(w[i - 1], i)]
      BY <3>3
    <3> DEFINE v == [i \in 0..n |-> IF i = n THEN Then(w[n - 1], n) ELSE w[i]]
    <3>5. \A i \in 0..n : v[i] = IF i = 0 THEN u ELSE Then(v[i - 1], i)
      <4> SUFFICES ASSUME NEW i \in 0..n
                   PROVE  v[i] = IF i = 0 THEN u ELSE Then(v[i - 1], i)
        OBVIOUS
      <4>1. CASE i = n
        <5>1. i # 0 /\ i - 1 \in 0..n /\ i - 1 # n  BY <2>4, <3>1, <4>1
        <5>2. v[i] = Then(w[n - 1], n) /\ v[i - 1] = w[n - 1]  BY <4>1, <5>1
        <5> QED  BY <4>1, <5>1, <5>2
      <4>2. CASE i # n
        <5>1. i \in 0..n - 1 /\ v[i] = w[i]  BY <3>1, <4>2
        <5>2. w[i] = IF i = 0 THEN u ELSE Then(w[i - 1], i)  BY <3>4, <5>1
        <5>3. i # 0 => i - 1 \in 0..n /\ i - 1 # n /\ v[i - 1] = w[i - 1]  BY <3>1, <5>1
        <5> QED  BY <5>1, <5>2, <5>3
      <4> QED  BY <4>1, <4>2
    <3>6. v = [i \in 0..n |-> v[i]]  OBVIOUS
    <3> HIDE DEF v
    <3>7. v = [i \in 0..n |-> IF i = 0 THEN u ELSE Then(v[i - 1], i)]  BY <3>5, <3>6
    <3>8. Upto(n)  BY <3>7
    <3> QED  BY <3>8
  <2> QED  BY <2>3, <2>4
<1>2. Upto(Len(told))  BY <1>1
<1> HIDE DEF Bad
<1> USE DEF Then
<1>3. shown = [i \in 0..Len(told) |-> IF i = 0 THEN u
                 ELSE Consume(shown[i - 1], <<told[i][1], FALSE>>)]
  BY <1>2 DEF Replayer
<1>4. 0 \in 0..Len(told) /\ shown[0] = u  BY <1>3
<1>5. ASSUME NEW i \in 1..Len(told) PROVE shown[i] = Consume(shown[i - 1], <<told[i][1], FALSE>>)
  <2>1. i \in 0..Len(told) /\ i # 0  OBVIOUS
  <2> QED  BY <1>3, <2>1
<1> QED  BY <1>4, <1>5 DEF EachIsConsumed

LEMMA ReplayedWasSaid ==
  ASSUME NEW told \in Seq(Utterance), NEW i \in 1 .. Len(told), NEW x, x = <<told[i][1], FALSE>>
  PROVE  x \in Utterance /\ Times(told, x) # 0
<1>1. DOMAIN told = 1 .. Len(told) /\ Len(told) \in Nat /\ told[i] \in Utterance
  BY LenProperties, ElementOfSeq
<1>2. x \in Utterance /\ x[1] = told[i][1] /\ ~x[2]  BY <1>1 DEF Utterance
<1> DEFINE S == {k \in DOMAIN told : told[k] = x \/ (~x[2] /\ told[k][1] = x[1])}
<1>3. i \in S /\ S \in SUBSET (1 .. Len(told))  BY <1>1, <1>2
<1> HIDE DEF S
<1>4. IsFiniteSet(1 .. Len(told))  BY <1>1, FS_Interval
<1>5. IsFiniteSet(S)  BY <1>3, <1>4, FS_Subset
<1>6. Cardinality(S) # 0  BY <1>3, <1>5, FS_EmptySet
<1>7. Times(told, x) = Cardinality(S)  BY DEF Times, S
<1> QED  BY <1>2, <1>6, <1>7

(* What the messages that come once more leave as it is: the invariant of    *)
(* their replay, from u on.                                                  *)
Retold(u, w, owners, t, told, T) ==
  /\ UiOK(w, owners) /\ w.acts = u.acts /\ (u.stream = 0 => w.stream = 0)
  /\ IndexOK(u, t) => IndexOK(w, t) /\ Apart(u.lines, w.lines, T)
  /\ IndexOK(u, t) /\ u.stream = 0 /\ PresentOK(u, t, told) => PresentOK(w, t, told)

LEMMA ReplaysOne ==
  ASSUME NEW owners, NEW u, NEW w, NEW t, Now \in owners, Now \in Nat, t = Now,
         NEW told \in Seq(Utterance), NEW T, t \notin T, Retold(u, w, owners, t, told, T),
         NEW x \in Utterance, Times(told, x) # 0, NEW v, v = Consume(w, x)
  PROVE  Retold(u, v, owners, t, told, T)
<1>1. UiOK(w, owners) /\ w.acts = u.acts  BY DEF Retold
<1>2. UiOK(v, owners) /\ v.acts = u.acts  BY <1>1, ConsumeType
<1>3. ASSUME u.stream = 0 PROVE v.stream = 0
  <2>1. w.stream = 0  BY <1>3 DEF Retold
  <2>2. CASE x \in w.seen  BY <2>1, <2>2 DEF Consume
  <2>3. CASE x \notin w.seen
    <3> PICK line : line = Line("reply", x)  OBVIOUS
    <3>1. line \in ScreenLine /\ line.turn \in owners  BY DEF Line, ScreenLine
    <3> PICK p : p = Push(w, line)  OBVIOUS
    <3>2. UiOK(p, owners) /\ p.stream = 0  BY <1>1, <2>1, <3>1, PushedType
    <3>3. v = [p EXCEPT !.seen = @ \cup {x}]  BY <2>1, <2>3 DEF Consume
    <3> QED  BY <3>2, <3>3 DEF UiOK
  <2> QED  BY <2>2, <2>3
<1>4. ASSUME IndexOK(u, t) PROVE IndexOK(v, t) /\ Apart(u.lines, v.lines, T)
  <2>1. IndexOK(w, t) /\ Apart(u.lines, w.lines, T)  BY <1>4 DEF Retold
  <2>2. IndexOK(v, t) /\ Apart(w.lines, v.lines, T)  BY <1>1, <2>1, ConsumeKeeps
  <2> QED  BY <2>1, <2>2, ApartTwice
<1>5. ASSUME IndexOK(u, t), u.stream = 0, PresentOK(u, t, told) PROVE PresentOK(v, t, told)
  <2>1. IndexOK(w, t) /\ w.stream = 0 /\ PresentOK(w, t, told)  BY <1>5 DEF Retold
  <2> QED  BY <1>1, <2>1, ConsumeReplayed
<1> QED  BY <1>2, <1>3, <1>4, <1>5 DEF Retold

LEMMA ReplayKeeps ==
  ASSUME NEW owners, NEW u, UiOK(u, owners), NEW t, Now \in owners, Now \in Nat, t = Now,
         NEW told \in Seq(Utterance), NEW T, t \notin T, NEW v, v = Replayer(u, told)[Len(told)]
  PROVE  Retold(u, v, owners, t, told, T)
<1> PICK shown : shown = Replayer(u, told)  OBVIOUS
<1>1. Len(told) \in Nat  BY LenProperties
<1>2. shown[0] = u /\ EachIsConsumed(shown, told)  BY <1>1, ReplayerExists
<1> DEFINE Bad == {i \in Nat : i \in 0 .. Len(told) /\ ~Retold(u, shown[i], owners, t, told, T)}
<1>3. Bad = {}
  <2> SUFFICES ASSUME Bad # {} PROVE FALSE  OBVIOUS
  <2>1. Bad \subseteq Nat  OBVIOUS
  <2>2. PICK i \in Bad : \A k \in Bad : i <= k
    <3> HIDE DEF Bad
    <3> QED  BY <2>1, LeastNumber
  <2>3. Retold(u, u, owners, t, told, T)  BY DEF Retold, Apart
  <2>4. i # 0 /\ i \in 0 .. Len(told) /\ i \in Nat  BY <1>2, <2>3
  <2>5. i - 1 \in Nat /\ i - 1 \in 0 .. Len(told) /\ ~(i <= i - 1) /\ i \in 1 .. Len(told)
    BY <1>1, <2>4
  <2>6. Retold(u, shown[i - 1], owners, t, told, T)  BY <2>2, <2>5
  <2> PICK x : x = <<told[i][1], FALSE>>  OBVIOUS
  <2>7. x \in Utterance /\ Times(told, x) # 0  BY <2>5, ReplayedWasSaid
  <2>8. shown[i] = Consume(shown[i - 1], x)  BY <1>2, <2>5 DEF EachIsConsumed
  <2>9. Retold(u, shown[i], owners, t, told, T)  BY <2>6, <2>7, <2>8, ReplaysOne
  <2> QED  BY <2>9
<1>4. Len(told) \in Nat /\ Len(told) \in 0 .. Len(told)  BY <1>1
<1> QED  BY <1>3, <1>4

(* The invariant.  A turn that is over and whole is on the screen as it was; *)
(* while a turn runs, the indices mean lines of its own, unless all turns    *)
(* are cut short already; and if it is whole so far and the server runs it,  *)
(* it is on the screen so far.                                               *)
Owners == InQueue(sent) \cup {0}
Judged == {t \in InQueue(sent) \ spoilt : t # Now \/ ~busy}
AllSpoilt == InQueue(sent) \subseteq spoilt

ServerOK ==
  /\ server \in [session : Nat, of : Nat, said : Seq(Utterance), stage : {"runs", "ended", "idle"}]
  /\ server.of \in Owners
CountsOK ==
  /\ current \in Nat /\ opening \in Nat /\ switches \in Nat /\ words \in Nat /\ submitted \in Nat
  /\ submitted + switches + words <= MaxActs

Past(L, T, told) == \A t \in T : TrueTo(L, t, told[t]) /\ ToolLines(L, t) = {}
Live(u, t, serves, session) ==
  /\ PresentOK(u, t, serves.said) /\ serves.session = session
  /\ serves.stage = "runs" => OnlySaid(u, t, serves.said)
  /\ serves.stage # "runs" => u.stream = 0 /\ u.acts = {}

ScreenInv ==
  /\ UiOK(ui, Owners) /\ ServerOK /\ CountsOK /\ ended \in [1 .. MaxActs -> Seq(Utterance)]
  /\ busy => Len(sent) # 0
  /\ Past(ui.lines, Judged, ended)
  /\ busy /\ ~AllSpoilt => IndexOK(ui, Now)
  /\ busy /\ Now \notin spoilt /\ server.of = Now => Live(ui, Now, server, current)

LEMMA SentTurns ==
  ASSUME QueueInv, CountsOK
  PROVE  /\ InQueue(sent) \subseteq 1 .. MaxActs /\ 0 \notin InQueue(sent) /\ Owners \subseteq Nat
         /\ Len(sent) # 0 => Now \in InQueue(sent) /\ Now \in Owners /\ Now \in Nat \ {0}
         /\ busy => Now \notin Judged
<1>1. InQueue(sent) \subseteq 1 .. submitted  BY DEF QueueInv
<1>2. submitted \in Nat /\ switches \in Nat /\ words \in Nat /\ MaxActs \in Nat
      /\ submitted + switches + words <= MaxActs
  BY TuiAssumption DEF CountsOK
<1>3. InQueue(sent) \subseteq 1 .. MaxActs /\ 0 \notin InQueue(sent) /\ Owners \subseteq Nat
  BY <1>1, <1>2 DEF Owners
<1>4. Len(sent) # 0 => Now \in InQueue(sent)
  <2>1. Len(sent) \in Nat  BY LenProperties DEF QueueInv
  <2> QED  BY <2>1 DEF InQueue, Now
<1>5. \A t \in InQueue(sent) : t \in Nat \ {0}  BY <1>2, <1>3
<1> QED  BY <1>3, <1>4, <1>5 DEF Owners, Judged

(* A step within a turn, or while nothing runs.                              *)
LEMMA ScreenMoves ==
  ASSUME QueueInv, ScreenInv, UNCHANGED <<busy, sent, ended>>, spoilt \subseteq spoilt',
         UiOK(ui', Owners), ServerOK', CountsOK',
         ~AllSpoilt => Apart(ui.lines, ui'.lines, Judged \ spoilt'),
         busy /\ ~AllSpoilt /\ ~(InQueue(sent) \subseteq spoilt') => IndexOK(ui', Now),
         busy /\ Now \notin spoilt' /\ server'.of = Now => Live(ui', Now, server', current')
  PROVE  ScreenInv'
<1>1. Owners' = Owners /\ Now' = Now /\ InQueue(sent)' = InQueue(sent)  BY DEF Owners, Now
<1>2. Judged' \subseteq Judged \ spoilt'  BY <1>1 DEF Judged
<1>3. InQueue(sent) \subseteq 1 .. MaxActs  BY SentTurns DEF ScreenInv
<1>4. Past(ui'.lines, Judged', ended')
  <2>1. CASE AllSpoilt
    <3>1. Judged = {}  BY <2>1 DEF AllSpoilt, Judged
    <3> QED  BY <1>2, <3>1 DEF Past
  <2>2. CASE ~AllSpoilt
    <3> SUFFICES ASSUME NEW t \in Judged \ spoilt'
                 PROVE  TrueTo(ui'.lines, t, ended[t]) /\ ToolLines(ui'.lines, t) = {}
      BY <1>2 DEF Past
    <3>1. t \in 1 .. MaxActs  BY <1>3 DEF Judged
    <3>2. ended[t] \in Seq(Utterance)  BY <3>1 DEF ScreenInv
    <3>3. TrueTo(ui.lines, t, ended[t]) /\ ToolLines(ui.lines, t) = {}  BY DEF ScreenInv, Past
    <3>4. Apart(ui.lines, ui'.lines, Judged \ spoilt')  BY <2>2
    <3> QED  BY <3>2, <3>3, <3>4 DEF Apart
  <2> QED  BY <2>1, <2>2
<1>5. busy' /\ ~AllSpoilt' => IndexOK(ui', Now')  BY <1>1 DEF AllSpoilt
<1>6. busy' /\ Now' \notin spoilt' /\ server'.of = Now' => Live(ui', Now', server', current')
  BY <1>1
<1>7. UiOK(ui', Owners')  BY <1>1
<1>8. ended' \in [1 .. MaxActs -> Seq(Utterance)] /\ (busy' => Len(sent') # 0)  BY DEF ScreenInv
<1> QED  BY <1>4, <1>5, <1>6, <1>7, <1>8 DEF ScreenInv

(* A prompt starts: its line is the first of a turn of which there is none.  *)
JustBegun(M, k) == /\ TrueTo(M, k, <<>>) /\ ToolLines(M, k) = {}
               /\ \A x : Replies(M, k, x) = {}
Beside(L, M, k) ==
  \A t : t # k => Keeps(L, M, t) /\ ToolLines(M, t) \subseteq ToolLines(L, t)

LEMMA UserShown ==
  ASSUME NEW owners, NEW L \in Seq(ScreenLine), \A i \in DOMAIN L : L[i].turn \in owners,
         NEW k \in Nat, k \notin owners,
         NEW line \in ScreenLine, line.kind = "user", line.turn = k,
         NEW M, M = Append(L, line)
  PROVE  /\ M \in Seq(ScreenLine) /\ \A i \in DOMAIN M : M[i].turn \in owners \cup {k}
         /\ Beside(L, M, k) /\ JustBegun(M, k)
<1>1. M \in Seq(ScreenLine) /\ Len(M) \in DOMAIN M /\ M[Len(M)] = line  BY LineAppended
<1>2. \A t : t # k => Keeps(L, M, t)  BY LineAside
<1>3. \A t : ToolLines(M, t) \subseteq ToolLines(L, t)  BY NoToolAppended
<1>4. Lasts(L, k) = {} /\ ToolLines(L, k) = {}  BY DEF Lasts, ToolLines
<1>5. Lasts(M, k) \subseteq Lasts(L, k) \cup {Len(M)}  BY LineAppended
<1>6. Lasts(M, k) = {Len(M)}  BY <1>1, <1>4, <1>5 DEF Lasts
<1>7. UserFirst(M, k)  BY <1>1, <1>6 DEF UserFirst
<1>8. \A x : Replies(M, k, x) = {}
  <2> SUFFICES ASSUME NEW x, NEW i \in Replies(M, k, x) PROVE FALSE  OBVIOUS
  <2>1. M[i].kind = "reply" /\ i \in Lasts(M, k)  BY DEF Replies, Lasts
  <2> QED  BY <1>1, <1>6, <2>1
<1>9. <<>> \in Seq(Utterance) /\ DOMAIN <<>> = {}  BY EmptySeq
<1> PICK none : none = <<>>  OBVIOUS
<1>10. none \in Seq(Utterance) /\ DOMAIN none = {}  BY <1>9
<1>11. \A x : Times(none, x) \in Nat  BY <1>1, <1>10, LinesCounted
<1>12. NotTooOften(M, k, none)
  <2> SUFFICES ASSUME NEW x \in Utterance PROVE Cardinality(Replies(M, k, x)) <= Times(none, x)
    BY DEF NotTooOften
  <2>1. Cardinality(Replies(M, k, x)) = 0  BY <1>8, FS_EmptySet
  <2>2. Times(none, x) \in Nat  BY <1>11
  <2> QED  BY <2>1, <2>2
<1>13. AllShown(M, k, none) /\ ShownInOrder(M, k, none)  BY <1>10 DEF AllShown, ShownInOrder
<1>14. TrueTo(M, k, none)  BY <1>7, <1>12, <1>13 DEF TrueTo
<1>15. \A i \in DOMAIN M : M[i].turn \in owners \cup {k}
  <2>1. \A i \in DOMAIN M : i = Len(M) \/ (i \in DOMAIN L /\ M[i] = L[i])
    <3>1. /\ Len(M) = Len(L) + 1 /\ Len(L) \in Nat /\ DOMAIN M = 1 .. Len(M)
          /\ DOMAIN L = 1 .. Len(L) /\ \A i \in 1 .. Len(L) : M[i] = L[i]
      BY AppendProperties, LenProperties
    <3> QED  BY <3>1
  <2> QED  BY <1>1, <2>1
<1>16. Beside(L, M, k)  BY <1>2, <1>3 DEF Beside
<1>17. ToolLines(M, k) = {}  BY <1>3, <1>4
<1>18. JustBegun(M, k)  BY <1>8, <1>14, <1>17 DEF JustBegun
<1> QED  BY <1>1, <1>15, <1>16, <1>18


LEMMA StartsScreen ==
  ASSUME QueueInv, ServerOK, CountsOK, NEW k \in Nat \ {0}, k \notin InQueue(sent),
         NEW u, UiOK(u, Owners), StartsPrompt(k, u), UNCHANGED current, CountsOK',
         ended' \in [1 .. MaxActs -> Seq(Utterance)],
         Past(u.lines, InQueue(sent) \ spoilt', ended')
  PROVE  ScreenInv'
<1> PICK line : line = [kind |-> "user", turn |-> k, text |-> <<>>]  OBVIOUS
<1>1. line \in ScreenLine /\ line.kind = "user" /\ line.turn = k  BY DEF ScreenLine
<1>2. /\ u \in [lines : Seq(ScreenLine), stream : Int, acts : SUBSET Int, seen : SUBSET Utterance]
      /\ u.lines \in Seq(ScreenLine) /\ \A i \in DOMAIN u.lines : u.lines[i].turn \in Owners
  BY DEF UiOK
<1> PICK M : M = Append(u.lines, line)  OBVIOUS
<1>3. /\ busy' = TRUE /\ sent' = Append(sent, k)
      /\ ui' = [lines |-> M, stream |-> 0, acts |-> {}, seen |-> {}]
      /\ server' = IF Refused THEN server
                   ELSE [session |-> current, of |-> k, said |-> <<>>, stage |-> "runs"]
  BY DEF StartsPrompt
<1>4. k \notin Owners  BY DEF Owners
<1>5. M \in Seq(ScreenLine) /\ \A i \in DOMAIN M : M[i].turn \in Owners \cup {k}
  BY <1>1, <1>2, <1>4, UserShown
<1>6. Beside(u.lines, M, k)  BY <1>1, <1>2, <1>4, UserShown
<1>a. JustBegun(M, k)  BY <1>1, <1>2, <1>4, UserShown
<1>7. TrueTo(M, k, <<>>) /\ ToolLines(M, k) = {}  BY <1>a DEF JustBegun
<1>8. \A x : Replies(M, k, x) = {}  BY <1>a DEF JustBegun
<1>9. /\ sent' \in Seq(Nat) /\ Len(sent') = Len(sent) + 1 /\ sent'[Len(sent) + 1] = k
      /\ InQueue(sent') = InQueue(sent) \cup {k} /\ Len(sent) \in Nat
  <2>1. sent \in Seq(Nat) /\ Len(sent) \in Nat  BY LenProperties DEF QueueInv
  <2> QED  BY <1>3, <2>1, LinesOfAppend
<1>10. Now' = k /\ Len(sent') # 0  BY <1>9 DEF Now
<1>11. Owners' = Owners \cup {k}  BY <1>9 DEF Owners
<1>12. UiOK(ui', Owners')
  <2>1. /\ ui' \in [lines : Seq(ScreenLine), stream : Int, acts : SUBSET Int, seen : SUBSET Utterance]
        /\ ui'.lines = M /\ ui'.acts = {}
    BY <1>3, <1>5
  <2>2. IsFiniteSet({})  BY FS_EmptySet
  <2> QED  BY <1>5, <1>11, <2>1, <2>2 DEF UiOK
<1>13. ui'.lines = M /\ ui'.stream = 0 /\ ui'.acts = {} /\ ui'.seen = {}  BY <1>3
<1>14. ServerOK'
  <2>1. <<>> \in Seq(Utterance)  BY EmptySeq
  <2>2. CASE Refused  BY <1>3, <1>11, <2>2 DEF ServerOK
  <2>3. CASE ~Refused
    <3>1. server' = [session |-> current, of |-> k, said |-> <<>>, stage |-> "runs"]
      BY <1>3, <2>3
    <3> QED  BY <1>11, <2>1, <3>1 DEF ServerOK, CountsOK
  <2> QED  BY <2>2, <2>3
<1>15. Past(ui'.lines, Judged', ended')
  <2> SUFFICES ASSUME NEW t \in Judged'
               PROVE  TrueTo(M, t, ended'[t]) /\ ToolLines(M, t) = {}
    BY <1>13 DEF Past
  <2>1. t # k /\ t \in InQueue(sent) \ spoilt'  BY <1>3, <1>9, <1>10 DEF Judged
  <2>2. t \in 1 .. MaxActs
    <3>1. InQueue(sent) \subseteq 1 .. MaxActs  BY SentTurns
    <3> QED  BY <2>1, <3>1
  <2>3. ended'[t] \in Seq(Utterance)  BY <2>2
  <2>4. TrueTo(u.lines, t, ended'[t]) /\ ToolLines(u.lines, t) = {}  BY <2>1 DEF Past
  <2>5. Keeps(u.lines, M, t) /\ ToolLines(M, t) = {}  BY <1>6, <2>1, <2>4 DEF Beside
  <2>6. TrueTo(M, t, ended'[t])  BY <1>2, <1>5, <2>3, <2>4, <2>5, KeepsTrue
  <2> QED  BY <2>5, <2>6
<1>16. IndexOK(ui', Now')  BY <1>10, <1>13 DEF IndexOK
<1>17. ASSUME server'.of = Now' PROVE Live(ui', Now', server', current')
  <2>1. ~Refused
    <3>1. server.of # k  BY <1>4 DEF ServerOK
    <3> QED  BY <1>3, <1>10, <1>17, <3>1
  <2>2. server' = [session |-> current, of |-> k, said |-> <<>>, stage |-> "runs"]
    BY <1>3, <2>1
  <2>3. server'.session = current' /\ server'.said = <<>> /\ server'.stage = "runs"  BY <2>2
  <2>4. Known(ui', k)  BY <1>8, <1>13 DEF Known
  <2>5. PresentOK(ui', k, <<>>)  BY <1>7, <1>13, <2>4 DEF PresentOK
  <2>6. OnlySaid(ui', k, <<>>)  BY <1>8, <1>13 DEF OnlySaid
  <2> QED  BY <1>10, <2>3, <2>5, <2>6 DEF Live
<1> QED  BY <1>3, <1>10, <1>12, <1>14, <1>15, <1>16, <1>17 DEF ScreenInv

(* After a prompt: the next one starts, or nothing runs.                     *)
LEMMA DrainsScreen ==
  ASSUME QueueInv, ScreenInv, busy, NEW u, UiOK(u, Owners), Drains(u), UNCHANGED current,
         CountsOK', ended' \in [1 .. MaxActs -> Seq(Utterance)],
         Past(u.lines, InQueue(sent) \ spoilt', ended')
  PROVE  ScreenInv'
<1> PICK done : done = [u EXCEPT !.stream = 0, !.acts = {}]  OBVIOUS
<1>1. /\ u \in [lines : Seq(ScreenLine), stream : Int, acts : SUBSET Int, seen : SUBSET Utterance]
      /\ \A i \in DOMAIN u.lines : u.lines[i].turn \in Owners
  BY DEF UiOK
<1>2. done.lines = u.lines /\ done.stream = 0 /\ done.acts = {} /\ done.seen = u.seen
  BY <1>1
<1>3. UiOK(done, Owners)
  <2>1. done \in [lines : Seq(ScreenLine), stream : Int, acts : SUBSET Int, seen : SUBSET Utterance]
    <3>1. done = [lines |-> u.lines, stream |-> 0, acts |-> {}, seen |-> u.seen]  BY <1>1
    <3>2. /\ u.lines \in Seq(ScreenLine) /\ 0 \in Int /\ {} \in SUBSET Int
          /\ u.seen \in SUBSET Utterance
      BY <1>1
    <3> QED  BY <3>1, <3>2
  <2>2. IsFiniteSet({})  BY FS_EmptySet
  <2> QED  BY <1>1, <1>2, <2>1, <2>2 DEF UiOK
<1>4. CASE waiting = <<>>
  <2>1. busy' = FALSE /\ ui' = done /\ UNCHANGED <<sent, server>>  BY <1>4 DEF Drains
  <2>2. Owners' = Owners  BY <2>1 DEF Owners
  <2>3. Judged' \subseteq InQueue(sent) \ spoilt'  BY <2>1 DEF Judged
  <2>4. Past(ui'.lines, Judged', ended')  BY <1>2, <2>1, <2>3 DEF Past
  <2>5. ServerOK'  BY <2>1, <2>2 DEF ScreenInv, ServerOK
  <2>6. UiOK(ui', Owners')  BY <1>3, <2>1, <2>2
  <2> QED  BY <2>1, <2>4, <2>5, <2>6 DEF ScreenInv
<1>5. CASE waiting # <<>>
  <2> PICK k : k = Head(waiting)  OBVIOUS
  <2>1. StartsPrompt(k, done)  BY <1>5 DEF Drains
  <2>2. k = waiting[1] /\ Len(waiting) \in Nat \ {0}  BY <1>5, LinesOfTail DEF QueueInv
  <2>3. 1 \in 1 .. Len(waiting)  BY <2>2
  <2>4. k \in 1 .. submitted  BY <2>2, <2>3 DEF QueueInv, InQueue
  <2>5. k \in Nat \ {0}  BY <2>4 DEF ScreenInv, CountsOK
  <2>6. \A i \in 1 .. Len(sent) : sent[i] < k  BY <2>2, <2>3 DEF QueueInv
  <2>7. k \notin InQueue(sent)  BY <2>5, <2>6 DEF InQueue
  <2>8. Past(done.lines, InQueue(sent) \ spoilt', ended')  BY <1>2
  <2> QED  BY <1>3, <2>1, <2>5, <2>7, <2>8, StartsScreen DEF ScreenInv
<1> QED  BY <1>4, <1>5

LEMMA ScreenStarts == TuiInit => ScreenInv
<1> SUFFICES ASSUME TuiInit PROVE ScreenInv  OBVIOUS
<1>1. /\ current = 0 /\ busy = FALSE /\ opening = 0 /\ submitted = 0 /\ switches = 0 /\ words = 0
      /\ ui = [lines |-> <<>>, stream |-> 0, acts |-> {}, seen |-> {}]
      /\ server = [session |-> 0, of |-> 0, said |-> <<>>, stage |-> "idle"]
      /\ sent = <<>> /\ ended = [t \in 1 .. MaxActs |-> <<>>]
  BY DEF TuiInit
<1> PICK none : none = <<>>  OBVIOUS
<1>2. /\ none \in Seq(ScreenLine) /\ none \in Seq(Utterance) /\ DOMAIN none = {}
      /\ Len(none) = 0
  BY EmptySeq
<1>3. InQueue(sent) = {} /\ Judged = {}  BY <1>1, <1>2 DEF InQueue, Judged
<1>4. UiOK(ui, Owners)
  <2>1. /\ ui \in [lines : Seq(ScreenLine), stream : Int, acts : SUBSET Int, seen : SUBSET Utterance]
        /\ ui.lines = none /\ ui.acts = {}
    BY <1>1, <1>2
  <2>2. IsFiniteSet({})  BY FS_EmptySet
  <2> QED  BY <1>2, <2>1, <2>2 DEF UiOK
<1>5. ServerOK  BY <1>1, <1>2 DEF ServerOK, Owners
<1>6. CountsOK  BY <1>1, TuiAssumption DEF CountsOK
<1>7. ended \in [1 .. MaxActs -> Seq(Utterance)]  BY <1>1, <1>2
<1>8. Past(ui.lines, Judged, ended)  BY <1>3 DEF Past
<1> QED  BY <1>1, <1>4, <1>5, <1>6, <1>7, <1>8 DEF ScreenInv

LEMMA InTurn ==
  ASSUME QueueInv, ScreenInv
  PROVE  /\ 0 \in Owners /\ \A T : Judged \ T \subseteq Judged
         /\ busy => Now \in Owners /\ Now \in Nat \ {0} /\ Now \in InQueue(sent) /\ Now \notin Judged
         /\ busy /\ Now \notin spoilt => ~AllSpoilt /\ IndexOK(ui, Now)
<1>1. busy => Now \in Owners /\ Now \in Nat \ {0} /\ Now \in InQueue(sent) /\ Now \notin Judged
  BY SentTurns DEF ScreenInv
<1>2. busy /\ Now \notin spoilt => ~AllSpoilt  BY <1>1 DEF AllSpoilt
<1> QED  BY <1>1, <1>2 DEF ScreenInv, Owners

LEMMA ScreenRests ==
  ASSUME QueueInv, ScreenInv, UNCHANGED <<busy, sent, ended, ui>>, spoilt \subseteq spoilt',
         ServerOK', CountsOK',
         busy /\ Now \notin spoilt' /\ server'.of = Now => Live(ui, Now, server', current')
  PROVE  ScreenInv'
<1>1. Apart(ui.lines, ui'.lines, Judged \ spoilt')  BY DEF Apart
<1>2. UiOK(ui', Owners)  BY DEF ScreenInv
<1>3. busy /\ ~AllSpoilt => IndexOK(ui', Now)  BY DEF ScreenInv
<1> QED  BY <1>1, <1>2, <1>3, ScreenMoves

LEMMA ScreenUntouched ==
  ASSUME QueueInv, ScreenInv, UNCHANGED <<busy, sent, ended, ui, spoilt, server, current>>, CountsOK'
  PROVE  ScreenInv'
<1>1. ServerOK'  BY DEF ScreenInv, ServerOK, Owners
<1> QED  BY <1>1, ScreenRests DEF ScreenInv

LEMMA NoteComes ==
  ASSUME QueueInv, ScreenInv, UNCHANGED <<busy, sent, ended, spoilt, server, current>>, CountsOK',
         ui' = Push(ui, Note)
  PROVE  ScreenInv'
<1>1. ServerOK'  BY DEF ScreenInv, ServerOK, Owners
<1>2. 0 \in Owners /\ UiOK(ui, Owners)  BY DEF Owners, ScreenInv
<1>3. UiOK(ui', Owners) /\ ui'.stream = ui.stream /\ ui'.acts = ui.acts  BY <1>2, NotePushed
<1>4. Apart(ui.lines, ui'.lines, Judged \ spoilt')  BY <1>2, NotePushed
<1>5. busy /\ ~AllSpoilt => IndexOK(ui', Now)  BY <1>2, NotePushed DEF ScreenInv
<1>6. ASSUME busy, Now \notin spoilt, server.of = Now PROVE Live(ui', Now, server, current)
  <2>1. Live(ui, Now, server, current)  BY <1>6 DEF ScreenInv
  <2>2. server.said \in Seq(Utterance)  BY DEF ScreenInv, ServerOK
  <2>3. PresentOK(ui', Now, server.said)  BY <1>2, <2>1, <2>2, NotePushed DEF Live
  <2>4. OnlySaid(ui, Now, server.said) => OnlySaid(ui', Now, server.said)  BY <1>2, NotePushed
  <2> QED  BY <1>3, <2>1, <2>3, <2>4 DEF Live
<1> QED  BY <1>1, <1>3, <1>4, <1>5, <1>6, ScreenMoves

LEMMA SubmitsScreen == ASSUME QueueInv, ScreenInv, Submits PROVE ScreenInv'
<1>1. CountsOK'
  <2>1. /\ current' = current /\ opening' = opening /\ switches' = switches /\ words' = words
        /\ submitted' = submitted + 1 /\ submitted + switches + words < MaxActs
    BY DEF Submits
  <2>2. /\ current \in Nat /\ opening \in Nat /\ switches \in Nat /\ words \in Nat
        /\ submitted \in Nat /\ MaxActs \in Nat
    BY TuiAssumption DEF ScreenInv, CountsOK
  <2> QED  BY <2>1, <2>2 DEF CountsOK
<1>2. CASE busy
  <2>1. ui' = Push(ui, Note) /\ UNCHANGED <<busy, sent, ended, spoilt, server, current>>
    BY <1>2 DEF Submits
  <2> QED  BY <1>1, <2>1, NoteComes
<1>3. CASE ~busy
  <2> PICK k : k = submitted + 1  OBVIOUS
  <2>1. StartsPrompt(k, ui) /\ UNCHANGED <<current, ended, spoilt>>  BY <1>3 DEF Submits
  <2>2. InQueue(sent) \subseteq 1 .. submitted /\ submitted \in Nat  BY DEF QueueInv
  <2>3. k \in Nat \ {0} /\ k \notin InQueue(sent)  BY <2>2
  <2>4. Judged = InQueue(sent) \ spoilt  BY <1>3 DEF Judged
  <2>5. Past(ui.lines, InQueue(sent) \ spoilt', ended')  BY <2>1, <2>4 DEF ScreenInv
  <2>6. ended' \in [1 .. MaxActs -> Seq(Utterance)]  BY <2>1 DEF ScreenInv
  <2>7. UiOK(ui, Owners) /\ ServerOK /\ CountsOK  BY DEF ScreenInv
  <2> QED  BY <1>1, <2>1, <2>3, <2>5, <2>6, <2>7, StartsScreen
<1> QED  BY <1>2, <1>3

(* A step of the turn that runs, of which the server has told nothing new.   *)
LEMMA TurnGoesOn ==
  ASSUME QueueInv, ScreenInv, busy, UNCHANGED <<busy, sent, ended, spoilt, server, current>>,
         CountsOK', UiOK(ui', Owners), IndexOK(ui, Now) => Serves(ui, ui', Now),
         server.stage = "runs"
  PROVE  ScreenInv'
<1>1. ServerOK' /\ server.said \in Seq(Utterance)  BY DEF ScreenInv, ServerOK, Owners
<1>2. Now \notin Judged \ spoilt'  BY InTurn
<1>3. ASSUME ~AllSpoilt PROVE IndexOK(ui', Now) /\ Apart(ui.lines, ui'.lines, Judged \ spoilt')
  BY <1>2, <1>3 DEF ScreenInv, Serves
<1>4. ASSUME Now \notin spoilt, server.of = Now PROVE Live(ui', Now, server, current)
  <2>1. Live(ui, Now, server, current)  BY <1>4 DEF ScreenInv
  <2>2. Serves(ui, ui', Now)  BY <1>4, InTurn
  <2>3. PresentOK(ui', Now, server.said)  BY <1>1, <2>1, <2>2 DEF Live, Serves
  <2>4. OnlySaid(ui', Now, server.said)  BY <2>1, <2>2 DEF Live, Serves
  <2> QED  BY <2>1, <2>3, <2>4 DEF Live
<1> QED  BY <1>1, <1>3, <1>4, ScreenMoves

LEMMA TokenComesScreen == ASSUME QueueInv, ScreenInv, TokenComes PROVE ScreenInv'
<1>1. CountsOK'  BY DEF ScreenInv, CountsOK, TokenComes
<1>2. UNCHANGED <<busy, sent, ended, spoilt, server, current>> /\ server.stage = "runs"
  BY DEF TokenComes
<1>3. CASE ~OnScreen
  <2>1. ui' = ui  BY <1>3 DEF TokenComes
  <2> QED  BY <1>1, <1>2, <2>1, ScreenUntouched
<1>4. CASE OnScreen
  <2>1. busy  BY <1>4 DEF OnScreen
  <2>2. Now \in Owners /\ Now \in Nat /\ UiOK(ui, Owners)  BY <2>1, InTurn DEF ScreenInv
  <2>3. CASE ui.stream = 0
    <3>1. ui' = [Push(ui, Line("partial", <<>>)) EXCEPT !.stream = Len(ui.lines) + 1]
      BY <1>4, <2>3 DEF TokenComes
    <3>2. UiOK(ui', Owners) /\ (IndexOK(ui, Now) => Serves(ui, ui', Now))
      BY <2>2, <2>3, <3>1, TokenShown
    <3> QED  BY <1>1, <1>2, <2>1, <3>2, TurnGoesOn
  <2>4. CASE ui.stream # 0
    <3> PICK line : line = Line("partial", <<>>)  OBVIOUS
    <3>1. line \in ScreenLine /\ line.turn = Now /\ line.kind = "partial"
      BY <2>2 DEF Line, ScreenLine
    <3>2. ui' = Replace(ui, line)  BY <1>4, <2>4 DEF TokenComes
    <3>3. UiOK(ui', Owners)  BY <2>2, <3>1, <3>2, ReplacedType
    <3>4. line.kind \in {"partial", "cancelled"}  BY <3>1
    <3>5. IndexOK(ui, Now) => Serves(ui, ui', Now)
      BY <2>2, <2>4, <3>1, <3>2, <3>4, ReplacedLine
    <3> QED  BY <1>1, <1>2, <2>1, <3>3, <3>5, TurnGoesOn
  <2> QED  BY <2>3, <2>4
<1> QED  BY <1>3, <1>4

LEMMA ToolCalledScreen == ASSUME QueueInv, ScreenInv, ToolCalled PROVE ScreenInv'
<1>1. CountsOK'  BY DEF ScreenInv, CountsOK, ToolCalled
<1>2. /\ UNCHANGED <<busy, sent, ended, spoilt, server, current>> /\ server.stage = "runs"
      /\ busy /\ ui' = ToolShown(ui)
  BY DEF ToolCalled, OnScreen
<1>3. Now \in Owners /\ Now \in Nat /\ UiOK(ui, Owners)  BY <1>2, InTurn DEF ScreenInv
<1>4. UiOK(ui', Owners) /\ (IndexOK(ui, Now) => Serves(ui, ui', Now))
  BY <1>2, <1>3, ToolIsShown
<1> QED  BY <1>1, <1>2, <1>4, TurnGoesOn

LEMMA MessageComesScreen ==
  ASSUME QueueInv, ScreenInv, NEW x \in Text, NEW thought \in BOOLEAN, MessageComes(x, thought)
  PROVE  ScreenInv'
<1> PICK text : text = <<x, thought>>  OBVIOUS
<1> PICK more : more = Append(server.said, text)  OBVIOUS
<1>1. CountsOK'
  <2>1. /\ current' = current /\ opening' = opening /\ switches' = switches
        /\ words' = words + 1 /\ submitted' = submitted /\ submitted + switches + words < MaxActs
    BY DEF MessageComes
  <2>2. /\ current \in Nat /\ opening \in Nat /\ switches \in Nat /\ words \in Nat
        /\ submitted \in Nat /\ MaxActs \in Nat
    BY TuiAssumption DEF ScreenInv, CountsOK
  <2> QED  BY <2>1, <2>2 DEF CountsOK
<1>2. /\ UNCHANGED <<busy, sent, ended, spoilt, current>> /\ server.stage = "runs"
      /\ server' = [server EXCEPT !.said = more]
      /\ ui' = IF OnScreen THEN Consume(ui, text) ELSE ui
  BY DEF MessageComes
<1>3. text \in Utterance  BY DEF Utterance
<1>4. UiOK(ui, Owners) /\ ServerOK /\ server.said \in Seq(Utterance)
  BY DEF ScreenInv, ServerOK
<1>5. more \in Seq(Utterance)  BY <1>3, <1>4, AppendProperties
<1>6. /\ server'.said = more /\ server'.of = server.of /\ server'.stage = server.stage
      /\ server'.session = server.session
  BY <1>2, <1>4 DEF ServerOK
<1>7. ServerOK'
  <2>1. Owners' = Owners  BY <1>2 DEF Owners
  <2> QED  BY <1>2, <1>4, <1>5, <2>1 DEF ServerOK
<1>8. CASE ~OnScreen
  <2>1. ui' = ui  BY <1>2, <1>8
  <2>2. ~(busy /\ Now \notin spoilt' /\ server'.of = Now)
    BY <1>2, <1>6, <1>8 DEF ScreenInv, Live, OnScreen
  <2> QED  BY <1>1, <1>2, <1>7, <2>1, <2>2, ScreenRests
<1>9. CASE OnScreen
  <2>1. busy /\ ui' = Consume(ui, text)  BY <1>2, <1>9 DEF OnScreen
  <2>2. Now \in Owners /\ Now \in Nat /\ Now \notin Judged \ spoilt'  BY <2>1, InTurn
  <2>3. UiOK(ui', Owners)  BY <1>3, <1>4, <2>1, <2>2, ConsumeType
  <2>4. ASSUME ~AllSpoilt
        PROVE  IndexOK(ui', Now) /\ Apart(ui.lines, ui'.lines, Judged \ spoilt')
    <3>1. IndexOK(ui, Now)  BY <2>1, <2>4 DEF ScreenInv
    <3> QED  BY <1>3, <1>4, <2>1, <2>2, <3>1, ConsumeKeeps
  <2>5. ASSUME Now \notin spoilt', server'.of = Now PROVE Live(ui', Now, server', current')
    <3>1. Live(ui, Now, server, current)  BY <1>2, <1>6, <2>1, <2>5 DEF ScreenInv
    <3>2. PresentOK(ui, Now, server.said) /\ OnlySaid(ui, Now, server.said)
      BY <1>2, <3>1 DEF Live
    <3>3. IndexOK(ui, Now)  BY <1>2, <2>1, <2>5, InTurn
    <3>4. PresentOK(ui', Now, more) /\ OnlySaid(ui', Now, more)
      BY <1>3, <1>4, <2>1, <2>2, <3>2, <3>3, ConsumeSaid
    <3> QED  BY <1>2, <1>6, <3>1, <3>4 DEF Live
  <2> QED  BY <1>1, <1>2, <1>7, <2>1, <2>3, <2>4, <2>5, ScreenMoves
<1> QED  BY <1>8, <1>9

LEMMA AgentEndsScreen == ASSUME QueueInv, ScreenInv, AgentEnds PROVE ScreenInv'
<1>1. CountsOK'  BY DEF ScreenInv, CountsOK, AgentEnds
<1>2. /\ UNCHANGED <<busy, sent, ended, current>> /\ server.stage = "runs"
      /\ server' = [server EXCEPT !.stage = "ended"] /\ spoilt \subseteq spoilt'
      /\ spoilt' = IF ui.stream # 0 THEN spoilt \cup {server.of} ELSE spoilt
      /\ ui' = IF OnScreen THEN Push(Collapse(ui), Note) ELSE ui
  BY DEF AgentEnds
<1>3. UiOK(ui, Owners) /\ 0 \in Owners /\ server.said \in Seq(Utterance) /\ ServerOK
  BY InTurn DEF ScreenInv, ServerOK
<1>4. /\ server'.said = server.said /\ server'.of = server.of /\ server'.stage = "ended"
      /\ server'.session = server.session
  BY <1>2, <1>3 DEF ServerOK
<1>5. ServerOK'
  <2>1. Owners' = Owners  BY <1>2 DEF Owners
  <2> QED  BY <1>2, <1>3, <2>1 DEF ServerOK
<1>6. CASE ~OnScreen
  <2>1. ui' = ui  BY <1>2, <1>6
  <2>2. ~(busy /\ Now \notin spoilt' /\ server'.of = Now)
    BY <1>2, <1>4, <1>6 DEF ScreenInv, Live, OnScreen
  <2> QED  BY <1>1, <1>2, <1>5, <2>1, <2>2, ScreenRests
<1>7. CASE OnScreen
  <2> PICK c : c = Collapse(ui)  OBVIOUS
  <2>1. busy /\ ui' = Push(c, Note)  BY <1>2, <1>7 DEF OnScreen
  <2>2. UiOK(c, Owners) /\ c.acts = {}  BY <1>3, CollapseType
  <2>3. UiOK(ui', Owners) /\ ui'.stream = c.stream /\ ui'.acts = {}
    BY <1>3, <2>1, <2>2, NotePushed
  <2>4. ASSUME ~AllSpoilt PROVE Serves(ui, ui', Now) /\ (ui.stream = 0 => ui'.stream = 0)
    <3>1. IndexOK(ui, Now)  BY <2>1, <2>4 DEF ScreenInv
    <3>2. Serves(ui, c, Now) /\ (ui.stream = 0 => c.stream = 0)  BY <1>3, <3>1, CollapseKeeps
    <3>3. IndexOK(c, Now)  BY <3>2 DEF Serves
    <3>4. Serves(c, ui', Now)  BY <1>3, <2>1, <2>2, <3>3, NoteServes
    <3> QED  BY <2>3, <3>2, <3>4, ServesTwice
  <2>5. ASSUME ~AllSpoilt
        PROVE  IndexOK(ui', Now) /\ Apart(ui.lines, ui'.lines, Judged \ spoilt')
    <3>1. Now \notin Judged \ spoilt'  BY <2>1, InTurn
    <3> QED  BY <2>4, <2>5, <3>1 DEF Serves
  <2>6. ASSUME Now \notin spoilt', server'.of = Now PROVE Live(ui', Now, server', current')
    <3>1. Now \notin spoilt /\ server.of = Now /\ ui.stream = 0  BY <1>2, <1>4, <2>6
    <3>2. ~AllSpoilt  BY <2>1, <3>1, InTurn
    <3>3. Live(ui, Now, server, current)  BY <2>1, <3>1 DEF ScreenInv
    <3>4. PresentOK(ui', Now, server.said)  BY <1>3, <2>4, <3>2, <3>3 DEF Live, Serves
    <3>5. ui'.stream = 0  BY <2>4, <3>1, <3>2
    <3> QED  BY <1>2, <1>4, <2>3, <3>3, <3>4, <3>5 DEF Live
  <2> QED  BY <1>1, <1>2, <1>5, <2>1, <2>3, <2>5, <2>6, ScreenMoves
<1> QED  BY <1>6, <1>7

LEMMA FollowUpEndsScreen == ASSUME QueueInv, ScreenInv, FollowUpEnds PROVE ScreenInv'
<1>1. CountsOK'
  <2>1. /\ current' = current /\ opening' = opening /\ words' = words
        /\ switches' = switches + 1 /\ submitted' = submitted
        /\ submitted + switches + words < MaxActs
    BY DEF FollowUpEnds
  <2>2. /\ current \in Nat /\ opening \in Nat /\ switches \in Nat /\ words \in Nat
        /\ submitted \in Nat /\ MaxActs \in Nat
    BY TuiAssumption DEF ScreenInv, CountsOK
  <2> QED  BY <2>1, <2>2 DEF CountsOK
<1> PICK c : c = Collapse(ui)  OBVIOUS
<1>2. /\ UNCHANGED <<busy, sent, ended, spoilt, server, current>> /\ server.stage = "runs"
      /\ busy /\ ui' = Push(c, Note)
  BY DEF FollowUpEnds, OnScreen
<1>3. UiOK(ui, Owners) /\ 0 \in Owners  BY InTurn DEF ScreenInv
<1>4. UiOK(c, Owners)  BY <1>3, CollapseType
<1>5. UiOK(ui', Owners)  BY <1>2, <1>3, <1>4, NotePushed
<1>6. ASSUME IndexOK(ui, Now) PROVE Serves(ui, ui', Now)
  <2>1. Serves(ui, c, Now)  BY <1>3, <1>6, CollapseKeeps
  <2>2. IndexOK(c, Now)  BY <2>1 DEF Serves
  <2>3. Serves(c, ui', Now)  BY <1>2, <1>3, <1>4, <2>2, NoteServes
  <2> QED  BY <2>1, <2>3, ServesTwice
<1> QED  BY <1>1, <1>2, <1>5, <1>6, TurnGoesOn

LEMMA ReplaysScreen == ASSUME QueueInv, ScreenInv, Replays PROVE ScreenInv'
<1>1. CountsOK'  BY DEF ScreenInv, CountsOK, Replays
<1>2. /\ UNCHANGED <<busy, sent, ended, spoilt, current>> /\ server.stage = "ended"
      /\ server' = [server EXCEPT !.stage = "idle"]
      /\ ui' = IF OnScreen THEN Replay(ui) ELSE ui
  BY DEF Replays
<1>3. UiOK(ui, Owners) /\ 0 \in Owners /\ server.said \in Seq(Utterance) /\ ServerOK
  BY InTurn DEF ScreenInv, ServerOK
<1>4. /\ server'.said = server.said /\ server'.of = server.of /\ server'.stage = "idle"
      /\ server'.session = server.session
  BY <1>2, <1>3 DEF ServerOK
<1>5. ServerOK'
  <2>1. Owners' = Owners  BY <1>2 DEF Owners
  <2> QED  BY <1>2, <1>3, <2>1 DEF ServerOK
<1>6. CASE ~OnScreen
  <2>1. ui' = ui  BY <1>2, <1>6
  <2>2. ~(busy /\ Now \notin spoilt' /\ server'.of = Now)
    BY <1>2, <1>4, <1>6 DEF ScreenInv, Live, OnScreen
  <2> QED  BY <1>1, <1>2, <1>5, <2>1, <2>2, ScreenRests
<1>7. CASE OnScreen
  <2>1. busy /\ ui' = Replayer(ui, server.said)[Len(server.said)]
    BY <1>2, <1>7 DEF OnScreen, Replay
  <2>2. Now \in Owners /\ Now \in Nat /\ Now \notin Judged \ spoilt'  BY <2>1, InTurn
  <2>3. Retold(ui, ui', Owners, Now, server.said, Judged \ spoilt')
    BY <1>3, <2>1, <2>2, ReplayKeeps
  <2>4. UiOK(ui', Owners)  BY <2>3 DEF Retold
  <2>5. ASSUME ~AllSpoilt
        PROVE  IndexOK(ui', Now) /\ Apart(ui.lines, ui'.lines, Judged \ spoilt')
    <3>1. IndexOK(ui, Now)  BY <2>1, <2>5 DEF ScreenInv
    <3> QED  BY <2>3, <3>1 DEF Retold
  <2>6. ASSUME Now \notin spoilt', server'.of = Now PROVE Live(ui', Now, server', current')
    <3>1. Live(ui, Now, server, current)  BY <1>2, <1>4, <2>1, <2>6 DEF ScreenInv
    <3>2. IndexOK(ui, Now)  BY <1>2, <2>1, <2>6, InTurn
    <3>3. /\ ui.stream = 0 /\ ui.acts = {} /\ PresentOK(ui, Now, server.said)
          /\ server.session = current
      BY <1>2, <3>1 DEF Live
    <3>4. ui'.stream = 0 /\ ui'.acts = {} /\ PresentOK(ui', Now, server.said)
      BY <2>3, <3>2, <3>3 DEF Retold
    <3> QED  BY <1>2, <1>4, <3>3, <3>4 DEF Live
  <2> QED  BY <1>1, <1>2, <1>5, <2>1, <2>4, <2>5, <2>6, ScreenMoves
<1> QED  BY <1>6, <1>7

(* The answer: what the turn said is on the screen, and is what it ends as.  *)
LEMMA PromptReturnsScreen == ASSUME QueueInv, ScreenInv, PromptReturns PROVE ScreenInv'
<1> PICK r : r = Replayer(ui, server.said)[Len(server.said)]  OBVIOUS
<1> PICK u : u = Push(r, Note)  OBVIOUS
<1>1. CountsOK'  BY DEF ScreenInv, CountsOK, PromptReturns
<1>2. /\ busy /\ server.of = Now /\ server.stage = "idle" /\ UNCHANGED <<current, spoilt>>
      /\ Drains(u) /\ ended' = [ended EXCEPT ![Now] = server.said]
  BY DEF PromptReturns, Replay
<1>3. UiOK(ui, Owners) /\ 0 \in Owners /\ server.said \in Seq(Utterance)
  BY InTurn DEF ScreenInv, ServerOK
<1>4. Now \in Owners /\ Now \in Nat /\ Now \in InQueue(sent) /\ Now \notin Judged  BY <1>2, InTurn
<1>5. InQueue(sent) \subseteq 1 .. MaxActs  BY SentTurns DEF ScreenInv
<1>6. ended' \in [1 .. MaxActs -> Seq(Utterance)]  BY <1>2, <1>3 DEF ScreenInv
<1>7. Retold(ui, r, Owners, Now, server.said, Judged)  BY <1>3, <1>4, ReplayKeeps
<1>8. UiOK(r, Owners)  BY <1>7 DEF Retold
<1>9. UiOK(u, Owners)  BY <1>3, <1>8, NotePushed
<1>10. Past(u.lines, InQueue(sent) \ spoilt', ended')
  <2> SUFFICES ASSUME NEW t \in InQueue(sent) \ spoilt
               PROVE  TrueTo(u.lines, t, ended'[t]) /\ ToolLines(u.lines, t) = {}
    BY <1>2 DEF Past
  <2>1. ~AllSpoilt  BY DEF AllSpoilt
  <2>2. IndexOK(ui, Now)  BY <1>2, <2>1 DEF ScreenInv
  <2>3. t \in 1 .. MaxActs /\ Now \in 1 .. MaxActs  BY <1>4, <1>5
  <2>4. CASE t = Now
    <3>1. ended'[t] = server.said  BY <1>2, <2>3, <2>4 DEF ScreenInv
    <3>2. Live(ui, Now, server, current)  BY <1>2, <2>4 DEF ScreenInv
    <3>3. ui.stream = 0 /\ ui.acts = {} /\ PresentOK(ui, Now, server.said)
      BY <1>2, <3>2 DEF Live
    <3>4. PresentOK(r, Now, server.said) /\ r.acts = {}  BY <1>7, <2>2, <3>3 DEF Retold
    <3>5. PresentOK(u, Now, server.said)  BY <1>3, <1>8, <3>4, NotePushed
    <3>6. u.acts = {}  BY <1>3, <1>8, <3>4, NotePushed
    <3> QED  BY <2>4, <3>1, <3>5, <3>6 DEF PresentOK
  <2>5. CASE t # Now
    <3>1. t \in Judged  BY <2>5 DEF Judged
    <3>2. TrueTo(ui.lines, t, ended[t]) /\ ToolLines(ui.lines, t) = {}
      BY <3>1 DEF ScreenInv, Past
    <3>3. Apart(ui.lines, r.lines, Judged)  BY <1>7, <2>2 DEF Retold
    <3>4. Apart(r.lines, u.lines, Judged)  BY <1>3, <1>8, NotePushed
    <3>5. Apart(ui.lines, u.lines, Judged)  BY <3>3, <3>4, ApartTwice
    <3>6. ended'[t] = ended[t] /\ ended[t] \in Seq(Utterance)  BY <1>2, <2>3, <2>5 DEF ScreenInv
    <3> QED  BY <3>1, <3>2, <3>5, <3>6 DEF Apart
  <2> QED  BY <2>4, <2>5
<1> QED  BY <1>1, <1>2, <1>6, <1>9, <1>10, DrainsScreen

LEMMA PromptFailsScreen == ASSUME QueueInv, ScreenInv, PromptFails PROVE ScreenInv'
<1> PICK u : u = Push(ui, Note)  OBVIOUS
<1>1. CountsOK'  BY DEF ScreenInv, CountsOK, PromptFails
<1>2. /\ busy /\ UNCHANGED <<current, ended>> /\ Drains(u) /\ spoilt' = spoilt \cup {Now}
  BY DEF PromptFails
<1>3. UiOK(ui, Owners) /\ 0 \in Owners  BY InTurn DEF ScreenInv
<1>4. UiOK(u, Owners)  BY <1>3, NotePushed
<1>5. ended' \in [1 .. MaxActs -> Seq(Utterance)]  BY <1>2 DEF ScreenInv
<1>6. InQueue(sent) \subseteq 1 .. MaxActs  BY SentTurns DEF ScreenInv
<1>7. Past(u.lines, InQueue(sent) \ spoilt', ended')
  <2> SUFFICES ASSUME NEW t \in InQueue(sent) \ spoilt'
               PROVE  TrueTo(u.lines, t, ended[t]) /\ ToolLines(u.lines, t) = {}
    BY <1>2 DEF Past
  <2>1. t \in Judged /\ t \in 1 .. MaxActs  BY <1>2, <1>6 DEF Judged
  <2>2. TrueTo(ui.lines, t, ended[t]) /\ ToolLines(ui.lines, t) = {}
    BY <2>1 DEF ScreenInv, Past
  <2>3. Apart(ui.lines, u.lines, Judged)  BY <1>3, NotePushed
  <2>4. ended[t] \in Seq(Utterance)  BY <2>1 DEF ScreenInv
  <2> QED  BY <2>1, <2>2, <2>3, <2>4 DEF Apart
<1> QED  BY <1>1, <1>2, <1>4, <1>5, <1>7, DrainsScreen

LEMMA CancelsScreen == ASSUME QueueInv, ScreenInv, Cancels PROVE ScreenInv'
<1> PICK line : line = Line("cancelled", <<>>)  OBVIOUS
<1> PICK r : r = Replace(ui, line)  OBVIOUS
<1>1. /\ UNCHANGED <<busy, sent, ended, server, current>> /\ busy
      /\ spoilt' = spoilt \cup {Now} /\ ui' = [r EXCEPT !.stream = 0]
  BY DEF Cancels
<1>2. CountsOK'
  <2>1. /\ current' = current /\ opening' = opening /\ words' = words
        /\ switches' = switches + 1 /\ submitted' = submitted
        /\ submitted + switches + words < MaxActs
    BY DEF Cancels
  <2>2. /\ current \in Nat /\ opening \in Nat /\ switches \in Nat /\ words \in Nat
        /\ submitted \in Nat /\ MaxActs \in Nat
    BY TuiAssumption DEF ScreenInv, CountsOK
  <2> QED  BY <2>1, <2>2 DEF CountsOK
<1>3. UiOK(ui, Owners) /\ Now \in Owners /\ Now \in Nat  BY <1>1, InTurn DEF ScreenInv
<1>4. line \in ScreenLine /\ line.turn = Now /\ line.kind = "cancelled"
  BY <1>3 DEF Line, ScreenLine
<1>5. line.kind \in {"partial", "cancelled"}  BY <1>4
<1>6. UiOK(r, Owners) /\ r.acts = ui.acts  BY <1>3, <1>4, ReplacedType
<1>7. /\ r \in [lines : Seq(ScreenLine), stream : Int, acts : SUBSET Int, seen : SUBSET Utterance]
      /\ IsFiniteSet(r.acts) /\ \A i \in DOMAIN r.lines : r.lines[i].turn \in Owners
  BY <1>6 DEF UiOK
<1>8. ui'.lines = r.lines /\ ui'.stream = 0 /\ ui'.acts = r.acts  BY <1>1, <1>7
<1>9. UiOK(ui', Owners)
  <2>1. ui' \in [lines : Seq(ScreenLine), stream : Int, acts : SUBSET Int, seen : SUBSET Utterance]
    <3>1. ui' = [lines |-> r.lines, stream |-> 0, acts |-> r.acts, seen |-> r.seen]
      BY <1>1, <1>7
    <3>2. /\ r.lines \in Seq(ScreenLine) /\ 0 \in Int /\ r.acts \in SUBSET Int
          /\ r.seen \in SUBSET Utterance
      BY <1>7
    <3> QED  BY <3>1, <3>2
  <2> QED  BY <1>7, <1>8, <2>1 DEF UiOK
<1>10. ServerOK'  BY <1>1 DEF ScreenInv, ServerOK, Owners
<1>11. ASSUME ~AllSpoilt
       PROVE  IndexOK(ui', Now) /\ Apart(ui.lines, ui'.lines, Judged \ spoilt')
  <2>1. IndexOK(ui, Now)  BY <1>1, <1>11 DEF ScreenInv
  <2>2. CASE ui.stream # 0
    <3>1. Apart(ui.lines, r.lines, Judged \ spoilt')
      BY <1>3, <1>4, <1>5, <2>1, <2>2, ReplacedLine
    <3>2. r.acts \subseteq ToolLines(r.lines, Now)
      BY <1>3, <1>4, <1>5, <2>1, <2>2, ReplacedLine
    <3> QED  BY <1>8, <3>1, <3>2 DEF IndexOK
  <2>3. CASE ui.stream = 0
    <3>1. DOMAIN ui.lines = 1 .. Len(ui.lines)  BY <1>3, LenProperties DEF UiOK
    <3>2. 0 \notin 1 .. Len(ui.lines)  OBVIOUS
    <3>3. r = ui  BY <2>3, <3>1, <3>2 DEF Replace
    <3> QED  BY <1>8, <2>1, <3>3 DEF IndexOK, Apart
  <2> QED  BY <2>2, <2>3
<1>12. Now \in spoilt' /\ spoilt \subseteq spoilt'  BY <1>1
<1> QED  BY <1>1, <1>2, <1>9, <1>10, <1>11, <1>12, ScreenMoves

(* The screen is emptied: no turn is judged any more.                        *)
LEMMA EmptiedType ==
  ASSUME NEW owners, 0 \in owners, NEW u, UiOK(u, owners), NEW seen \in SUBSET Utterance,
         NEW v, v = [[u EXCEPT !.lines = <<Note>>] EXCEPT !.seen = seen]
  PROVE  UiOK(v, owners)
<1> PICK one : one = <<Note>>  OBVIOUS
<1>1. Note \in ScreenLine /\ Note.turn = 0  BY DEF Note, ScreenLine
<1>2. one \in Seq(ScreenLine) /\ DOMAIN one = {1} /\ one[1] = Note  BY <1>1
<1>3. /\ u \in [lines : Seq(ScreenLine), stream : Int, acts : SUBSET Int, seen : SUBSET Utterance]
      /\ IsFiniteSet(u.acts)
  BY DEF UiOK
<1>4. v = [lines |-> one, stream |-> u.stream, acts |-> u.acts, seen |-> seen]  BY <1>3
<1>5. u.stream \in Int /\ u.acts \in SUBSET Int  BY <1>3
<1>6. v \in [lines : Seq(ScreenLine), stream : Int, acts : SUBSET Int, seen : SUBSET Utterance]
  BY <1>2, <1>4, <1>5
<1> QED  BY <1>1, <1>2, <1>3, <1>4, <1>6 DEF UiOK

LEMMA SentIsQueue == ASSUME QueueInv PROVE ToSet(sent) = InQueue(sent)
<1>1. DOMAIN sent = 1 .. Len(sent)  BY LenProperties DEF QueueInv
<1> QED  BY <1>1 DEF ToSet, InQueue

LEMMA EmptiedScreen ==
  ASSUME QueueInv, ScreenInv, UNCHANGED <<busy, sent, ended, server>>, AllCut, CountsOK',
         UiOK(ui', Owners)
  PROVE  ScreenInv'
<1>1. InQueue(sent) \subseteq spoilt' /\ spoilt \subseteq spoilt'
  BY SentIsQueue DEF AllCut
<1>2. ServerOK'  BY DEF ScreenInv, ServerOK, Owners
<1>3. Apart(ui.lines, ui'.lines, Judged \ spoilt')  BY <1>1 DEF Apart, Judged
<1>4. ~(busy /\ Now \notin spoilt')  BY <1>1, InTurn
<1> QED  BY <1>1, <1>2, <1>3, <1>4, ScreenMoves

LEMMA ClearsScreen == ASSUME QueueInv, ScreenInv, Clears PROVE ScreenInv'
<1>1. CountsOK'
  <2>1. /\ current' = current /\ opening' = opening /\ words' = words
        /\ switches' = switches + 1 /\ submitted' = submitted
        /\ submitted + switches + words < MaxActs
    BY DEF Clears
  <2>2. /\ current \in Nat /\ opening \in Nat /\ switches \in Nat /\ words \in Nat
        /\ submitted \in Nat /\ MaxActs \in Nat
    BY TuiAssumption DEF ScreenInv, CountsOK
  <2> QED  BY <2>1, <2>2 DEF CountsOK
<1>2. UiOK(ui, Owners) /\ 0 \in Owners  BY InTurn DEF ScreenInv
<1>3. ui.seen \in SUBSET Utterance
      /\ [[ui EXCEPT !.lines = <<Note>>] EXCEPT !.seen = ui.seen] = [ui EXCEPT !.lines = <<Note>>]
  BY <1>2 DEF UiOK
<1>4. UiOK([ui EXCEPT !.lines = <<Note>>], Owners)  BY <1>2, <1>3, EmptiedType
<1>5. /\ ui' = [ui EXCEPT !.lines = <<Note>>] /\ AllCut
      /\ UNCHANGED <<busy, sent, ended, server>>
  BY DEF Clears, Emptied
<1> QED  BY <1>1, <1>4, <1>5, EmptiedScreen

LEMMA OpenedScreen == ASSUME QueueInv, ScreenInv, Opened PROVE ScreenInv'
<1>1. CountsOK'  BY DEF ScreenInv, CountsOK, Opened
<1>2. UiOK(ui, Owners) /\ 0 \in Owners  BY InTurn DEF ScreenInv
<1>3. /\ ui' = [[ui EXCEPT !.lines = <<Note>>] EXCEPT !.seen = {}] /\ AllCut
      /\ UNCHANGED <<busy, sent, ended, server>>
  BY DEF Opened, Emptied
<1>4. {} \in SUBSET Utterance  OBVIOUS
<1>5. UiOK(ui', Owners)  BY <1>2, <1>3, <1>4, EmptiedType
<1> QED  BY <1>1, <1>3, <1>5, EmptiedScreen

LEMMA NamedScreen == ASSUME QueueInv, ScreenInv, Named PROVE ScreenInv'
<1>1. CountsOK'  BY DEF ScreenInv, CountsOK, Named
<1>2. UiOK(ui, Owners)  BY DEF ScreenInv
<1>3. ui' = ui /\ AllCut /\ UNCHANGED <<busy, sent, ended, server>>  BY DEF Named
<1>4. UiOK(ui', Owners)  BY <1>2, <1>3
<1> QED  BY <1>1, <1>3, <1>4, EmptiedScreen

LEMMA OpensScreen == ASSUME QueueInv, ScreenInv, Opens PROVE ScreenInv'
<1>1. /\ current' = current /\ opening' = switches' /\ words' = words
      /\ switches' = switches + 1 /\ submitted' = submitted
      /\ submitted + switches + words < MaxActs
  BY DEF Opens
<1>2. /\ current \in Nat /\ opening \in Nat /\ switches \in Nat /\ words \in Nat
      /\ submitted \in Nat /\ MaxActs \in Nat
  BY TuiAssumption DEF ScreenInv, CountsOK
<1>3. CountsOK'  BY <1>1, <1>2 DEF CountsOK
<1> QED  BY <1>3, ScreenUntouched DEF Opens

LEMMA ScreenSteps == QueueInv /\ ScreenInv /\ [TuiNext]_tuiVars => ScreenInv'
<1> SUFFICES ASSUME QueueInv, ScreenInv, [TuiNext]_tuiVars PROVE ScreenInv'  OBVIOUS
<1>1. CASE Submits  BY <1>1, SubmitsScreen
<1>2. CASE TokenComes  BY <1>2, TokenComesScreen
<1>3. CASE ToolCalled  BY <1>3, ToolCalledScreen
<1>4. CASE AgentEnds  BY <1>4, AgentEndsScreen
<1>5. CASE Replays  BY <1>5, ReplaysScreen
<1>6. CASE PromptReturns  BY <1>6, PromptReturnsScreen
<1>7. CASE PromptFails  BY <1>7, PromptFailsScreen
<1>8. CASE Cancels  BY <1>8, CancelsScreen
<1>9. CASE Clears  BY <1>9, ClearsScreen
<1>10. CASE Opens  BY <1>10, OpensScreen
<1>11. CASE Opened  BY <1>11, OpenedScreen
<1>12. CASE OpenFails
  <2>1. CountsOK'  BY <1>12 DEF ScreenInv, CountsOK, OpenFails
  <2> QED  BY <1>12, <2>1, NoteComes DEF OpenFails
<1>13. CASE \E i \in 1 .. MaxActs : DropsQueued(i)
  <2>1. CountsOK'  BY <1>13 DEF ScreenInv, CountsOK, DropsQueued
  <2> QED  BY <1>13, <2>1, ScreenUntouched DEF DropsQueued
<1>14. CASE \E x \in Text, thought \in BOOLEAN : MessageComes(x, thought)
  BY <1>14, MessageComesScreen
<1>15. CASE UNCHANGED tuiVars
  <2>1. CountsOK'  BY <1>15 DEF ScreenInv, CountsOK, tuiVars
  <2> QED  BY <1>15, <2>1, ScreenUntouched DEF tuiVars
<1>16. CASE Named  BY <1>16, NamedScreen
<1>17. CASE FollowUpEnds  BY <1>17, FollowUpEndsScreen
<1> QED
  BY <1>1, <1>2, <1>3, <1>4, <1>5, <1>6, <1>7, <1>8, <1>9, <1>10, <1>11, <1>12, <1>13,
     <1>14, <1>15, <1>16, <1>17 DEF TuiNext

(* The invariant says of the lines what the screen is to show.               *)
LEMMA ScreenShows == QueueInv /\ ScreenInv => ScreenIsTrue
<1> SUFFICES ASSUME QueueInv, ScreenInv, NEW t \in ToSet(sent) \ spoilt, t # Now \/ ~busy
             PROVE
        /\ Cardinality(Of(t, "user")) = 1 /\ Of(t, "tool") = {}
        /\ \A i \in Of(t, "reply") : \A j \in Of(t, "user") : j < i
        /\ \A k \in DOMAIN ended[t] : Shown(t, ended[t][k]) # {}
        /\ \A text \in Text \X BOOLEAN : Cardinality(Shown(t, text)) <= Times(ended[t], text)
        /\ \A j, k \in DOMAIN ended[t] : ended[t][k] \notin ToSet(SubSeq(ended[t], 1, j)) /\ j < k =>
              \E m \in Shown(t, ended[t][j]), n \in Shown(t, ended[t][k]) : m < n
  BY DEF ScreenIsTrue
<1> PICK told : told = ended[t]  OBVIOUS
<1>1. t \in Judged /\ t \in 1 .. MaxActs
  <2>1. t \in InQueue(sent)  BY SentIsQueue
  <2>2. InQueue(sent) \subseteq 1 .. MaxActs  BY SentTurns DEF ScreenInv
  <2> QED  BY <2>1, <2>2 DEF Judged
<1>2. TrueTo(ui.lines, t, told) /\ ToolLines(ui.lines, t) = {}  BY <1>1 DEF ScreenInv, Past
<1>3. told \in Seq(Utterance)  BY <1>1 DEF ScreenInv
<1>4. \A x : Shown(t, x) = Replies(ui.lines, t, x)  BY DEF Shown, Replies
<1>5. Of(t, "tool") = {}  BY <1>2 DEF Of, ToolLines
<1>6. PICK u \in Lasts(ui.lines, t) : /\ ui.lines[u].kind = "user"
                  /\ \A i \in Lasts(ui.lines, t) \ {u} : ui.lines[i].kind # "user" /\ u < i
  BY <1>2 DEF TrueTo, UserFirst
<1>7. Of(t, "user") = {u}  BY <1>6 DEF Of, Lasts
<1>8. Cardinality(Of(t, "user")) = 1  BY <1>7, FS_Singleton
<1>9. \A i \in Of(t, "reply") : \A j \in Of(t, "user") : j < i
  <2> SUFFICES ASSUME NEW i \in Of(t, "reply") PROVE u < i  BY <1>7
  <2>1. i \in Lasts(ui.lines, t) /\ i # u  BY <1>6 DEF Of, Lasts
  <2> QED  BY <1>6, <2>1
<1>10. \A k \in DOMAIN told : Shown(t, told[k]) # {}  BY <1>2, <1>4 DEF TrueTo, AllShown
<1>11. \A text \in Text \X BOOLEAN : Cardinality(Shown(t, text)) <= Times(told, text)
  BY <1>2, <1>4 DEF TrueTo, NotTooOften, Utterance
<1>12. ASSUME NEW j \in DOMAIN told, NEW k \in DOMAIN told,
              told[k] \notin ToSet(SubSeq(told, 1, j)), j < k
       PROVE  \E m \in Shown(t, told[j]), n \in Shown(t, told[k]) : m < n
  <2>1. DOMAIN told = 1 .. Len(told) /\ Len(told) \in Nat  BY <1>3, LenProperties
  <2>2. j \in 1 .. Len(told)  BY <2>1
  <2> PICK first : first = SubSeq(told, 1, j)  OBVIOUS
  <2>3. DOMAIN first = 1 .. j /\ \A i \in 1 .. j : first[i] = told[i]
    <3>1. j \in Nat /\ 1 <= j /\ j <= Len(told)  BY <2>1, <2>2
    <3>2. first = [i \in 1 .. j |-> told[i]]  BY <1>3, <3>1
    <3> QED  BY <3>2
  <2>4. \A i \in 1 .. j : told[i] # told[k]  BY <1>12, <2>3 DEF ToSet
  <2>5. \E m \in Replies(ui.lines, t, told[j]), n \in Replies(ui.lines, t, told[k]) : m < n
    BY <1>2, <1>12, <2>4 DEF TrueTo, ShownInOrder
  <2> QED  BY <1>4, <2>5
<1> QED  BY <1>5, <1>8, <1>9, <1>10, <1>11, <1>12

(* The screen of the terminal host shows every turn that is over and was   *)
(* not cut short as it was, whatever was streamed, replaced, collapsed and *)
(* replayed since (envoy-harness-tui, session.ts), for any number of lines,*)
(* messages, tools and sessions.                                           *)
THEOREM ScreensAreTrue == TuiSpec => []ScreenIsTrue
<1> DEFINE Inv == QueueInv /\ ScreenInv
<1>1. TuiInit => Inv BY QueueStarts, ScreenStarts
<1>2. Inv /\ [TuiNext]_tuiVars => Inv' BY QueueSteps, ScreenSteps
<1>3. Inv => ScreenIsTrue BY ScreenShows
<1> QED BY <1>1, <1>2, <1>3, PTL DEF TuiSpec

=============================================================================
