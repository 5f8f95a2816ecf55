---------------------------- MODULE Calls_proofs ----------------------------
(***************************************************************************)
(* Calls and their answers: the permission asks, for any number of tools   *)
(* that ask at once; the kill ladder of a command; the requests of the MCP *)
(* and LSP clients; a model request with its retries; a batch of tool      *)
(* calls, for every batch size, concurrency cap and count cap; and the     *)
(* time budget of a call, for every set of budgets and every grace period. *)
(***************************************************************************)
EXTENDS
  HostAsks, CommandRun, StdioClients, ModelCall, ToolScheduler, ToolTimeout,
  FiniteSetTheorems, SequenceTheorems, TLAPS

(* The permission asks. *)

AskTypeOK ==
    /\ ask \in [Asks -> {"none", "waiting", "allow", "deny"}]
    /\ dialog \in [Asks -> {"none", "coming", "shown", "buried", "over", "allow", "deny"}]
    /\ slot \in [{"permission", "question"} -> Asks \cup {"nobody"}]

(* An "allow" on its way back is as true as one that has arrived. *)
AskInv == AskTypeOK /\ AllowIsTheHumans /\ \A a \in Asks : dialog[a] = "allow" => a \in allowed

(* Nothing is asked at first. *)
LEMMA InitAskInv == AsksInit => AskInv
BY DEF AsksInit, AskInv, AskTypeOK, AllowIsTheHumans

(* An answer that resolves an ask is a press on its own dialog, or a "deny" *)
(* of a timeout, a cancel or a closed connection.                          *)
LEMMA NextAskInv == AskInv /\ [AsksNext]_askVars => AskInv'
<1> SUFFICES ASSUME AskInv, [AsksNext]_askVars PROVE AskInv'
  OBVIOUS
<1> USE DEF AskInv, AskTypeOK, AllowIsTheHumans
<1>1. ASSUME NEW as, NEW answer \in {"allow", "deny"},
             answer = "allow" => \A a \in as : a \in allowed,
             ask' = AnswerAsks(as, answer), allowed' = allowed
      PROVE  ask' \in [Asks -> {"none", "waiting", "allow", "deny"}] /\ AllowIsTheHumans'
  BY <1>1 DEF AnswerAsks
<1>2. CASE StartPrompt \/ PromptEnds
  BY <1>2 DEF StartPrompt, PromptEnds
<1>3. CASE CancelPrompt
  BY <1>1, <1>3 DEF CancelPrompt
<1>4. CASE ClearsDialogs
  BY <1>4 DEF ClearsDialogs
<1>5. CASE ConnectionCloses
  BY <1>1, <1>5 DEF ConnectionCloses
<1>6. ASSUME NEW a \in Asks, Raise(a) PROVE AskInv'
  BY <1>6 DEF Raise
<1>7. ASSUME NEW a \in Asks, Shows(a) PROVE AskInv'
  <2>1. AskKind(a) \in {"permission", "question"}
    BY DEF AskKind
  <2> QED
    BY <1>7, <2>1 DEF Shows
<1>8. ASSUME NEW a \in Asks, AnswerArrives(a) PROVE AskInv'
  <2>1. CASE a \in sent
    BY <1>1, <1>8, <2>1 DEF AnswerArrives
  <2>2. CASE a \notin sent
    BY <1>8, <2>2 DEF AnswerArrives
  <2> QED
    BY <2>1, <2>2
<1>9. ASSUME NEW a \in Asks, AskTimesOut(a) \/ QuestionTimesOut(a) PROVE AskInv'
  BY <1>1, <1>9 DEF AskTimesOut, QuestionTimesOut
<1>10. ASSUME NEW k \in {"permission", "question"}, Decides(k) PROVE AskInv'
  BY <1>10 DEF Decides
<1>11. CASE UNCHANGED askVars
  BY <1>11 DEF askVars
<1> QED
  BY <1>2, <1>3, <1>4, <1>5, <1>6, <1>7, <1>8, <1>9, <1>10, <1>11 DEF AsksNext

(* A tool is allowed only by a press on the dialog of its own request, for *)
(* any number of asks, however timeouts, cancels and late answers overlap. *)
THEOREM AllowsAreTheHumans == AsksSpec => []AllowIsTheHumans
<1>1. AskInv => AllowIsTheHumans
  BY DEF AskInv
<1> QED
  BY <1>1, InitAskInv, NextAskInv, PTL DEF AsksSpec

-----------------------------------------------------------------------------
(* Commands and the kill ladder. *)

(* A command without the fairness its end needs. *)
CommandSpec == CommandInit /\ [][CommandNext]_commandVars

(* A trigger starts one ladder; the ladder that found the shell alive has  *)
(* struck the group when its grace is over, and nobody is there to fork.   *)
LadderInv ==
    /\ ladder \in [Trigger -> {"none", "grace", "settle", "done"}]
    /\ led \subseteq Trigger
    /\ alive \subseteq {"sh", "bg", "esc"}
    /\ timer = "armed" => ladder["timer"] = "none"
    /\ abort = "armed" => ladder["abort"] = "none"
    /\ \A t \in led : ladder[t] # "none" /\ (ladder[t] # "grace" => Members = {})
    /\ StrangerIsSpared

(* No ladder at first. *)
LEMMA InitLadderInv == CommandInit => LadderInv
BY DEF CommandInit, LadderInv, StrangerIsSpared, Trigger

(* A start of a ladder, when its trigger has not started one before. *)
LEMMA Climb ==
  ASSUME LadderInv, NEW t \in Trigger, ladder[t] = "none", Reap(t),
         timer' = "armed" => timer = "armed" /\ t # "timer",
         abort' = "armed" => abort = "armed" /\ t # "abort", UNCHANGED marks
  PROVE  LadderInv'
<1> USE DEF LadderInv, StrangerIsSpared, Members
<1>1. t \notin led
  OBVIOUS
<1>2. CASE AlreadyClosed \/ ~IdentityMatches \/ NobodyThere
  <2>1. PICK s \in {"done", "settle"} : ladder' = [ladder EXCEPT ![t] = s]
    BY <1>2 DEF Reap
  <2>2. UNCHANGED <<alive, pid, led, struck>>
    BY <1>2 DEF Reap
  <2> QED
    BY <1>1, <2>1, <2>2 DEF Trigger
<1>3. CASE ~AlreadyClosed /\ IdentityMatches /\ ~NobodyThere
  <2>1. /\ ladder' = [ladder EXCEPT ![t] = "grace"]
        /\ led' = IF "sh" \in alive THEN led \cup {t} ELSE led
    BY <1>3 DEF Reap
  <2>2. PICK gone \in SUBSET Members : Signal("SIGTERM", gone)
    BY <1>3 DEF Reap
  <2>3. alive' \subseteq alive
    BY <2>2 DEF Signal, Die
  <2>4. marks => "SIGTERM" \notin struck'
    BY <1>3, <2>2 DEF Signal, IdentityMatches, Group
  <2> QED
    BY <1>1, <2>1, <2>3, <2>4 DEF Trigger
<1> QED
  BY <1>2, <1>3

(* What leaves the ladders alone, and starts nothing in a dead group. *)
LEMMA LadderRests ==
  ASSUME LadderInv, UNCHANGED <<marks, ladder, led, struck>>,
         alive' \subseteq {"sh", "bg", "esc"}, "sh" \in alive \/ alive' \subseteq alive,
         timer' = "armed" => timer = "armed", abort' = "armed" => abort = "armed"
  PROVE  LadderInv'
BY DEF LadderInv, StrangerIsSpared, Members, Group

(* The triggers start a ladder each; the end of its grace strikes all of   *)
(* the group that is left.                                                 *)
LEMMA NextLadderInv == LadderInv /\ [CommandNext]_commandVars => LadderInv'
<1> SUFFICES ASSUME LadderInv, [CommandNext]_commandVars PROVE LadderInv'
  OBVIOUS
<1>0. alive \subseteq {"sh", "bg", "esc"}
  BY DEF LadderInv
<1>1. ASSUME NEW p \in {"sh", "bg", "esc"}, Forks(p) PROVE LadderInv'
  BY <1>0, <1>1, LadderRests DEF Forks
<1>2. ASSUME NEW p \in {"sh", "bg", "esc"}, ProcessExits(p) PROVE LadderInv'
  BY <1>0, <1>2, LadderRests DEF ProcessExits, Die
<1>3. CASE Recycled
  BY <1>0, <1>3, LadderRests DEF Recycled
<1>4. CASE CloseEvent
  BY <1>0, <1>4, LadderRests DEF CloseEvent, EndRun, sys_vars
<1>5. CASE TimeIsUp
  BY <1>5, Climb DEF TimeIsUp, LadderInv, Trigger
<1>6. CASE Aborted
  BY <1>6, Climb DEF Aborted, LadderInv, Trigger
<1>7. ASSUME NEW t \in Trigger, CaptureStops(t) PROVE LadderInv'
  <2>1. CASE "sh" \in alive
    BY <1>0, <1>7, <2>1, LadderRests DEF CaptureStops, Die, Trigger
  <2>2. CASE "sh" \notin alive
    BY <1>7, <2>2, Climb DEF CaptureStops, LadderInv, Trigger
  <2> QED
    BY <2>1, <2>2
<1>8. ASSUME NEW t \in Trigger, GraceEnds(t) PROVE LadderInv'
  <2>1. Signal("SIGKILL", Members) /\ ladder' = [ladder EXCEPT ![t] = "settle"]
        /\ UNCHANGED <<marks, timer, abort, led>> /\ ladder[t] = "grace"
    BY <1>8 DEF GraceEnds
  <2>2. alive' \subseteq alive /\ Members' = {}
    BY <2>1 DEF Signal, Die, Members
  <2>3. "SIGTERM" \notin struck => "SIGTERM" \notin struck'
    BY <2>1 DEF Signal
  <2> QED
    BY <2>1, <2>2, <2>3 DEF LadderInv, StrangerIsSpared, Trigger
<1>9. ASSUME NEW t \in Trigger, WindowEnds(t) PROVE LadderInv'
  <2>1. ladder' = [ladder EXCEPT ![t] = "done"] /\ ladder[t] = "settle"
        /\ UNCHANGED <<marks, alive, led, struck>>
    BY <1>9 DEF WindowEnds, sys_vars
  <2>2. (timer' = "armed" => timer = "armed") /\ (abort' = "armed" => abort = "armed")
    BY <1>9 DEF WindowEnds, EndRun
  <2> QED
    BY <2>1, <2>2 DEF LadderInv, StrangerIsSpared, Trigger, Members
<1>10. CASE UNCHANGED commandVars
  BY <1>0, <1>10, LadderRests DEF commandVars, sys_vars
<1> QED
  BY <1>1, <1>2, <1>3, <1>4, <1>5, <1>6, <1>7, <1>8, <1>9, <1>10
     DEF CommandNext, CommandDue, Processes, Trigger

(* A ladder that found the shell alive leaves nobody of the group behind,  *)
(* though members are deaf, fork, or are struck by two ladders at once.    *)
THEOREM LaddersEndTheGroup == CommandSpec => []LadderIsComplete
<1>1. LadderInv => LadderIsComplete
  BY DEF LadderInv, LadderIsComplete
<1> QED
  BY <1>1, InitLadderInv, NextLadderInv, PTL DEF CommandSpec

(* Where the kernel shows start times, no ladder starts on a recycled pid. *)
THEOREM LaddersSpareStrangers == CommandSpec => []StrangerIsSpared
<1>1. LadderInv => StrangerIsSpared
  BY DEF LadderInv
<1> QED
  BY <1>1, InitLadderInv, NextLadderInv, PTL DEF CommandSpec

-----------------------------------------------------------------------------
(* The stdio clients.  Every request has a number of its own and at most   *)
(* one stands for a call, what the server has yet to answer it was asked   *)
(* under that number, and progress goes to a tool call of an MCP client.   *)
USE StdioAssumption

AsksCall == RpcCall \cup Closer \cup {"connect"}
Outcomes == {"idle", "open", "own", "other", "error"}

NumbersAreOwn ==
  /\ nextId \in Nat
  /\ \A i \in Pending : i \in Nat /\ i < nextId /\ waiting[i] \in AsksCall
  /\ \A i, j \in Pending : waiting[i] = waiting[j] => i = j
  /\ \A r \in fromServer : r.id \in Nat /\ r.id < nextId /\ (r.id \in Pending => waiting[r.id] = r.call)

StdioInv ==
  /\ outcome \in [AnyCall -> Outcomes] /\ kind \in {"mcp", "lsp"}
  /\ waiters \subseteq DiagCall
  /\ listener \in RpcCall \cup {"none"} /\ (kind = "lsp" => listener = "none")
  /\ NumbersAreOwn
  /\ NothingDangles

LEMMA InitStdioInv == StdioInit => StdioInv
<1> SUFFICES ASSUME StdioInit PROVE StdioInv  OBVIOUS
<1>1. Pending = {}  BY DEF StdioInit, Pending
<1> QED  BY <1>1 DEF StdioInit, StdioInv, NumbersAreOwn, NothingDangles, Outcomes

(* A call that has not been made gets a number.                            *)
LEMMA SendKeeps ==
  ASSUME StdioInv, NEW c \in AsksCall, outcome[c] = "idle", ~shut, SendRequest(c),
         outcome' = [outcome EXCEPT ![c] = "open"],
         listener' = listener \/ (listener' = c /\ c \in RpcCall /\ kind = "mcp"),
         UNCHANGED <<kind, shut, waiters, collided>>
  PROVE  StdioInv'
<1>1. /\ Pending' = Pending \cup {nextId} /\ nextId \notin Pending /\ nextId \in Nat
      /\ waiting'[nextId] = c /\ \A i \in Pending : waiting'[i] = waiting[i]
      /\ nextId' = nextId + 1 /\ fromServer' = fromServer \cup {[id |-> nextId, call |-> c]}
  BY DEF SendRequest, StdioInv, NumbersAreOwn, Pending
<1>2. \A i \in Pending : waiting[i] # c  BY DEF StdioInv, NothingDangles, AnyCall, AsksCall
<1>3. NumbersAreOwn'
  BY <1>1, <1>2 DEF StdioInv, NumbersAreOwn
<1>4. c \notin waiters /\ c \in AnyCall  BY DEF StdioInv, AsksCall, AnyCall
<1>5. NothingDangles'
  <2>1. outcome'[c] = "open" /\ \A d \in AnyCall \ {c} : outcome'[d] = outcome[d]
    BY <1>4 DEF StdioInv
  <2>2. ASSUME NEW d \in AnyCall
        PROVE outcome'[d] = "open" <=> (d \in waiters' \/ \E id \in Pending' : waiting'[id] = d)
    BY <1>1, <2>1 DEF StdioInv, NothingDangles
  <2>3. listener' # "none" => outcome'[listener'] = "open"
    BY <2>1 DEF StdioInv, NothingDangles, AnyCall
  <2>4. collided' \/ \A d \in AnyCall : outcome'[d] # "other"
    BY <2>1 DEF StdioInv, NothingDangles
  <2> QED  BY <2>2, <2>3, <2>4 DEF NothingDangles
<1> QED  BY <1>3, <1>4, <1>5 DEF StdioInv, Outcomes

(* A close() goes to its end.                                              *)
LEMMA ShutsKeeps ==
  ASSUME StdioInv, NEW c \in Closer, Shuts("own", {c}), nextId' = nextId, kind' = kind,
         collided => collided'
  PROVE  StdioInv'
<1>1. Pending' = {} /\ waiters' = {} /\ listener' = "none" /\ fromServer' = {}
  BY DEF Shuts, Pending
<1>2. outcome' \in [AnyCall -> Outcomes] /\ \A d \in AnyCall : outcome'[d] # "open"
  BY DEF Shuts, StdioInv, Outcomes
<1>3. collided' \/ \A d \in AnyCall : outcome'[d] # "other"
  BY DEF Shuts, StdioInv, NothingDangles, Outcomes
<1> QED  BY <1>1, <1>2, <1>3 DEF StdioInv, NumbersAreOwn, NothingDangles

(* A pending request settles.                                              *)
LEMMA SettlesKeeps ==
  ASSUME StdioInv, NEW id \in Pending, NEW how \in {"own", "other", "error"}, SettlesCall(id, how),
         nextId' = nextId, kind' = kind, collided => collided', how = "other" => collided',
         waiting[id] \in Closer \/ fromServer' \subseteq fromServer
  PROVE  StdioInv'
<1> DEFINE c == waiting[id]
<1>1. CASE c \in Closer
  <2>1. Shuts("own", {c})  BY <1>1 DEF SettlesCall
  <2> QED  BY <1>1, <2>1, ShutsKeeps
<1>2. CASE c \notin Closer
  <2>1. /\ waiting' = Without(waiting, {id}) /\ outcome' = [outcome EXCEPT ![c] = how]
        /\ listener' = (IF kind = "mcp" /\ c \in RpcCall THEN "none" ELSE listener)
        /\ UNCHANGED <<shut, waiters>>
    BY <1>2 DEF SettlesCall
  <2>2. Pending' = Pending \ {id} /\ \A i \in Pending' : waiting'[i] = waiting[i]
    BY <2>1 DEF Without, Pending
  <2>3. c \in AsksCall /\ c \in AnyCall /\ c \notin waiters /\ \A i \in Pending' : waiting[i] # c
    BY <2>2 DEF StdioInv, NumbersAreOwn, AsksCall, AnyCall
  <2>4. NumbersAreOwn'  BY <1>2, <2>2 DEF StdioInv, NumbersAreOwn
  <2>5. outcome'[c] = how /\ \A d \in AnyCall \ {c} : outcome'[d] = outcome[d]
    BY <2>1, <2>3 DEF StdioInv
  <2>6. NothingDangles'
    <3>1. ASSUME NEW d \in AnyCall
          PROVE outcome'[d] = "open" <=> (d \in waiters' \/ \E i \in Pending' : waiting'[i] = d)
      <4>1. CASE d = c
        <5>1. outcome'[d] # "open"  BY <2>5, <4>1
        <5>2. d \notin waiters' /\ \A i \in Pending' : waiting'[i] # d  BY <2>1, <2>2, <2>3, <4>1
        <5> QED  BY <5>1, <5>2
      <4>2. CASE d # c
        <5>1. outcome'[d] = outcome[d]  BY <2>5, <4>2
        <5>2. (\E i \in Pending' : waiting'[i] = d) <=> (\E i \in Pending : waiting[i] = d)
          BY <2>2, <4>2
        <5> QED  BY <2>1, <5>1, <5>2 DEF StdioInv, NothingDangles
      <4> QED  BY <4>1, <4>2
    <3>2. listener' # "none" => outcome'[listener'] = "open"
      BY <2>1, <2>5 DEF StdioInv, NothingDangles, AnyCall
    <3>3. collided' \/ \A d \in AnyCall : outcome'[d] # "other"
      BY <2>5 DEF StdioInv, NothingDangles
    <3>4. shut' => Pending' \cup waiters' = {}
      BY <2>1, <2>2 DEF StdioInv, NothingDangles
    <3> QED  BY <3>1, <3>2, <3>3, <3>4 DEF NothingDangles
  <2> QED  BY <2>1, <2>3, <2>4, <2>6 DEF StdioInv, Outcomes
<1> QED  BY <1>1, <1>2

(* Those that wait for diagnostics are woken or time out.                  *)
LEMMA WokenKeeps ==
  ASSUME StdioInv, NEW W, W \subseteq waiters, waiters' = waiters \ W,
         outcome' = [c \in AnyCall |-> IF c \in W THEN "own" ELSE outcome[c]],
         UNCHANGED <<kind, ready, ending, shut, nextId, waiting, listener, serverVars>>
  PROVE  StdioInv'
<1>1. Pending' = Pending /\ fromServer' = fromServer /\ collided' = collided  BY DEF Pending, serverVars
<1>2. NumbersAreOwn'  BY <1>1 DEF StdioInv, NumbersAreOwn
<1>3. \A c \in W : c \in DiagCall /\ c \notin RpcCall /\ \A i \in Pending : waiting[i] # c
  BY DEF StdioInv, NumbersAreOwn, AsksCall
<1>4. NothingDangles'
  BY <1>1, <1>3 DEF StdioInv, NothingDangles, AnyCall
<1> QED  BY <1>1, <1>2, <1>4 DEF StdioInv, Outcomes

LEMMA NextStdioInv == StdioInv /\ [StdioNext]_stdioVars => StdioInv'
<1> SUFFICES ASSUME StdioInv, [StdioNext]_stdioVars PROVE StdioInv'  OBVIOUS
<1>1. CASE UNCHANGED stdioVars
  BY <1>1 DEF stdioVars, serverVars, StdioInv, NumbersAreOwn, NothingDangles, Pending
<1>2. CASE Connect
  BY <1>2, SendKeeps DEF Connect, AsksCall
<1>3. ASSUME NEW c \in AnyCall, AsksServer(c) PROVE StdioInv'
  BY <1>3, SendKeeps DEF AsksServer, AsksCall
<1>4. ASSUME NEW c \in AnyCall, AwaitDiagnostics(c) PROVE StdioInv'
  <2>1. /\ c \in DiagCall /\ outcome[c] = "idle" /\ ~shut /\ waiters' = waiters \cup {c}
        /\ outcome' = [outcome EXCEPT ![c] = "open"]
        /\ UNCHANGED <<kind, ready, ending, shut, nextId, waiting, listener, serverVars>>
    BY <1>4 DEF AwaitDiagnostics
  <2>2. Pending' = Pending /\ fromServer' = fromServer /\ collided' = collided
    BY <2>1 DEF Pending, serverVars
  <2>3. NumbersAreOwn'  BY <2>1, <2>2 DEF StdioInv, NumbersAreOwn
  <2>4. NothingDangles'
    BY <2>1, <2>2 DEF StdioInv, NothingDangles, AnyCall
  <2> QED  BY <2>1, <2>2, <2>3, <2>4 DEF StdioInv, Outcomes
<1>5. ASSUME NEW c \in AnyCall, CloseClient(c) PROVE StdioInv'
  <2>1. /\ c \in Closer /\ outcome[c] = "idle"
        /\ UNCHANGED <<kind, ready, unasked, collided>>
    BY <1>5 DEF CloseClient
  <2>2. CASE shut \/ ending
    <3>1. /\ outcome' = [outcome EXCEPT ![c] = "own"]
          /\ UNCHANGED <<shut, nextId, waiting, waiters, listener, fromServer>>
      BY <1>5, <2>2 DEF CloseClient
    <3>2. Pending' = Pending  BY <3>1 DEF Pending
    <3>3. NumbersAreOwn'  BY <3>1, <3>2 DEF StdioInv, NumbersAreOwn
    <3>4. NothingDangles'  BY <2>1, <3>1, <3>2 DEF StdioInv, NothingDangles, AnyCall
    <3> QED  BY <2>1, <3>1, <3>3, <3>4 DEF StdioInv, Outcomes
  <2>3. CASE ~(shut \/ ending) /\ ready
    <3>1. /\ SendRequest(c) /\ outcome' = [outcome EXCEPT ![c] = "open"] /\ ~shut
          /\ UNCHANGED <<shut, waiters, listener>>
      BY <1>5, <2>3 DEF CloseClient
    <3> QED  BY <2>1, <3>1, SendKeeps DEF AsksCall
  <2>4. CASE ~(shut \/ ending) /\ ~ready
    <3>1. Shuts("own", {c}) /\ nextId' = nextId  BY <1>5, <2>4 DEF CloseClient
    <3> QED  BY <2>1, <3>1, ShutsKeeps
  <2> QED  BY <2>2, <2>3, <2>4
<1>6. ASSUME NEW c \in AnyCall, WaiterTimesOut(c) PROVE StdioInv'
  <2>1. {c} \subseteq waiters /\ waiters' = waiters \ {c}  BY <1>6 DEF WaiterTimesOut
  <2>2. outcome' = [d \in AnyCall |-> IF d \in {c} THEN "own" ELSE outcome[d]]
    BY <1>6 DEF WaiterTimesOut, StdioInv
  <2> QED  BY <1>6, <2>1, <2>2, WokenKeeps DEF WaiterTimesOut
<1>7. CASE Published
  <2>1. /\ waiters \subseteq waiters /\ waiters' = waiters \ waiters
        /\ outcome' = [c \in AnyCall |-> IF c \in waiters THEN "own" ELSE outcome[c]]
    BY <1>7 DEF Published
  <2> QED  BY <1>7, <2>1, WokenKeeps DEF Published
<1>8. ASSUME NEW id \in Pending, RequestTimesOut(id) PROVE StdioInv'
  BY <1>8, SettlesKeeps DEF RequestTimesOut
<1>9. ASSUME NEW r \in fromServer, NEW says \in {"own", "error"}, Answered(r, says) PROVE StdioInv'
  <2>1. nextId' = nextId /\ kind' = kind /\ collided' = collided  BY <1>9 DEF Answered
  <2>2. CASE r.id \in Pending
    <3>1. SettlesCall(r.id, says)
      BY <1>9, <2>2 DEF Answered, StdioInv, NumbersAreOwn
    <3>2. waiting[r.id] \in Closer \/ fromServer' \subseteq fromServer  BY <1>9, <2>2 DEF Answered
    <3>3. says \in {"own", "other", "error"} /\ says # "other"  OBVIOUS
    <3> HIDE DEF SettlesCall
    <3> QED  BY <2>1, <2>2, <3>1, <3>2, <3>3, SettlesKeeps
  <2>3. CASE r.id \notin Pending
    <3>1. UNCHANGED <<shut, ready, waiting, outcome, waiters, listener>> /\ fromServer' = fromServer \ {r}
      BY <1>9, <2>3 DEF Answered
    <3>2. Pending' = Pending  BY <3>1 DEF Pending
    <3> QED  BY <2>1, <3>1, <3>2 DEF StdioInv, NumbersAreOwn, NothingDangles
  <2> QED  BY <2>2, <2>3
<1>10. CASE ServerAsks
  <2> DEFINE hit == kind = "mcp" /\ unasked' \in Pending
  <2>1. /\ nextId' = nextId /\ kind' = kind /\ collided' = (collided \/ hit)
    BY <1>10 DEF ServerAsks
  <2>2. CASE hit
    <3>1. /\ SettlesCall(unasked', "other")
          /\ waiting[unasked'] \in Closer \/ fromServer' = fromServer
      BY <1>10, <2>2 DEF ServerAsks
    <3> PICK id \in Pending : id = unasked'  BY <2>2
    <3> QED  BY <2>1, <2>2, <3>1, SettlesKeeps
  <2>3. CASE ~hit
    <3>1. UNCHANGED <<shut, ready, waiting, outcome, waiters, listener, fromServer>>
      BY <1>10, <2>3 DEF ServerAsks
    <3>2. Pending' = Pending  BY <3>1 DEF Pending
    <3> QED  BY <2>1, <3>1, <3>2 DEF StdioInv, NumbersAreOwn, NothingDangles
  <2> QED  BY <2>2, <2>3
<1> QED  BY <1>1, <1>2, <1>3, <1>4, <1>5, <1>6, <1>7, <1>8, <1>9, <1>10 DEF StdioNext

(* No call of a stdio client is left behind or gets the answer to another, *)
(* whatever the server answers, when, and what it asks on its own.         *)
LEMMA ClientsNeverDangle == StdioSpec => []NothingDangles
<1>1. StdioInv => NothingDangles  BY DEF StdioInv
<1> QED  BY <1>1, InitStdioInv, NextStdioInv, PTL DEF StdioSpec

-----------------------------------------------------------------------------
(* A model request.  The deltas of the attempt under way are the last ones *)
(* the host was given, and they end where the whole lines that arrived end.*)
USE PiecesAssumption

Deltas == Seq(Nat \X Nat)
ShownLast ==
  /\ Len(display) >= text
  /\ \A k \in 1..text : display[Len(display) - text + k] = <<retries, k>>

CallInv ==
  /\ display \in Deltas /\ retries \in Nat /\ text \in Nat /\ arrived \in Nat
  /\ phase \in {"idle", "request"} => arrived = 0 /\ text = 0
  /\ phase = "reading" => ShownLast /\ text = arrived \div 2
  /\ phase = "returned" /\ streaming => ShownLast /\ text >= (arrived + 1) \div 2

(* Pieces given to the host stand behind those of the same attempt.        *)
LEMMA ShowKeeps ==
  ASSUME CallInv, ShownLast, NEW upTo \in Nat, upTo >= text, Show(upTo), retries' = retries
  PROVE  display' \in Deltas /\ text' = upTo /\ ShownLast'
<1> DEFINE more == [k \in 1..upTo - text |-> <<retries, text + k>>]
<1>1. /\ text \in Nat /\ retries \in Nat /\ display \in Seq(Nat \X Nat) /\ Len(display) \in Nat
      /\ upTo - text \in Nat
  BY LenProperties DEF CallInv, Deltas
<1>2. more \in Seq(Nat \X Nat) /\ Len(more) = upTo - text
      /\ \A k \in 1..upTo - text : more[k] = <<retries, text + k>>
  <2>1. \A k \in 1..upTo - text : <<retries, text + k>> \in Nat \X Nat  BY <1>1
  <2>2. more \in [1..upTo - text -> Nat \X Nat]  BY <2>1
  <2>3. more \in Seq(Nat \X Nat)  BY <1>1, <2>2, SeqDef
  <2>4. DOMAIN more = 1..Len(more) /\ Len(more) \in Nat /\ DOMAIN more = 1..upTo - text
    BY <2>3, LenProperties
  <2> QED  BY <1>1, <2>3, <2>4
<1>3. display' = display \o more /\ text' = upTo  BY DEF Show
<1> HIDE DEF more
<1>4. /\ display' \in Seq(Nat \X Nat) /\ Len(display') = Len(display) + (upTo - text)
      /\ \A i \in 1..Len(display) + (upTo - text) :
           display'[i] = IF i <= Len(display) THEN display[i] ELSE more[i - Len(display)]
  BY <1>1, <1>2, <1>3, ConcatProperties
<1>5. ASSUME NEW k \in 1..upTo PROVE display'[Len(display') - upTo + k] = <<retries, k>>
  <2>1. Len(display') - upTo + k = Len(display) - text + k  BY <1>1, <1>4
  <2>2. Len(display) >= text  BY DEF ShownLast
  <2>3. CASE k <= text
    <3>1. /\ Len(display) - text + k \in 1..Len(display) + (upTo - text) /\ k \in 1..text
          /\ Len(display) - text + k <= Len(display)
      BY <1>1, <2>2, <2>3
    <3>2. display'[Len(display) - text + k] = display[Len(display) - text + k]  BY <1>4, <3>1
    <3> QED  BY <2>1, <3>1, <3>2 DEF ShownLast
  <2>4. CASE k > text
    <3>1. /\ Len(display) - text + k \in 1..Len(display) + (upTo - text)
          /\ ~(Len(display) - text + k <= Len(display))
          /\ (Len(display) - text + k) - Len(display) = k - text
          /\ k - text \in 1..upTo - text /\ text + (k - text) = k
      BY <1>1, <2>2, <2>4
    <3>2. display'[Len(display) - text + k] = more[k - text]  BY <1>4, <3>1
    <3>3. more[k - text] = <<retries, k>>  BY <1>2, <3>1
    <3> QED  BY <2>1, <3>2, <3>3
  <2> QED  BY <1>1, <2>3, <2>4
<1>6. Len(display') >= upTo  BY <1>1, <1>4 DEF ShownLast
<1> QED  BY <1>3, <1>4, <1>5, <1>6 DEF ShownLast, Deltas

LEMMA FailKeeps ==
  ASSUME CallInv, NEW is, NEW after, Fail(is, after) PROVE CallInv'
<1>1. phase' \in {"backoff", "failed"} /\ (retries' = retries + 1 \/ retries' = retries)
      /\ UNCHANGED <<streaming, limited, stopped, arrived, text, display>>
  BY DEF Fail
<1> QED  BY <1>1 DEF CallInv

LEMMA InitCallInv == CallInit => CallInv
BY EmptySeq DEF CallInit, CallInv, Deltas

LEMMA NextCallInv == CallInv /\ [CallNext]_callVars => CallInv'
<1> SUFFICES ASSUME CallInv, [CallNext]_callVars PROVE CallInv'  OBVIOUS
<1>1. CASE UNCHANGED callVars  BY <1>1 DEF callVars, CallInv, ShownLast
<1>2. CASE FirstAttempt  BY <1>2 DEF FirstAttempt, CallInv
<1>3. CASE ErrorStatus \/ SocketFails \/ Ceiling \/ AbortSeen
  BY <1>3, FailKeeps DEF ErrorStatus, SocketFails, Ceiling, AbortSeen
<1>4. CASE AnswerComes
  <2>1. /\ phase = "request" /\ text = 0 /\ arrived = 0 /\ text' \in Nat
        /\ phase' = (IF streaming THEN "reading" ELSE "returned")
        /\ (streaming => text' = 0)
        /\ UNCHANGED <<streaming, limited, stopped, retries, arrived, display, fault>>
    BY <1>4 DEF AnswerComes, CallInv
  <2>2. Len(display) \in Nat  BY LenProperties DEF CallInv, Deltas
  <2>3. streaming => ShownLast'  BY <2>1, <2>2 DEF ShownLast
  <2> QED  BY <2>1, <2>3 DEF CallInv
<1>5. CASE Chunk
  <2>1. PICK to \in arrived + 1 .. 2 * MaxPieces : arrived' = to /\ Show(to \div 2)
    BY <1>5 DEF Chunk
  <2>2. /\ phase = "reading" /\ ShownLast /\ text = arrived \div 2 /\ arrived \in Nat
        /\ UNCHANGED <<streaming, limited, stopped, phase, retries, fault>>
    BY <1>5 DEF Chunk, CallInv
  <2>3. to \in Nat /\ to \div 2 \in Nat /\ to \div 2 >= text  BY <2>1, <2>2
  <2>4. display' \in Deltas /\ text' = to \div 2 /\ ShownLast'  BY <2>1, <2>2, <2>3, ShowKeeps
  <2> QED  BY <2>1, <2>2, <2>3, <2>4 DEF CallInv
<1>6. CASE StreamEnds
  <2>1. phase = "reading" /\ ShownLast /\ text = arrived \div 2 /\ arrived \in Nat
    BY <1>6 DEF StreamEnds, CallInv
  <2>2. CASE Fail("cut", "none")  BY <2>2, FailKeeps
  <2>3. CASE /\ phase' = "returned" /\ Show((arrived + 1) \div 2)
             /\ UNCHANGED <<streaming, limited, stopped, retries, arrived, fault>>
    <3>1. (arrived + 1) \div 2 \in Nat /\ (arrived + 1) \div 2 >= text  BY <2>1
    <3>2. display' \in Deltas /\ text' = (arrived + 1) \div 2 /\ ShownLast'
      BY <2>1, <2>3, <3>1, ShowKeeps
    <3> QED  BY <2>1, <2>3, <3>1, <3>2 DEF CallInv
  <2> QED  BY <1>6, <2>2, <2>3 DEF StreamEnds
<1>7. CASE BackoffEnds  BY <1>7 DEF BackoffEnds, CallInv
<1>8. CASE AbortCall
  <2>1. (phase' = phase \/ phase' = "failed")
        /\ UNCHANGED <<streaming, limited, retries, arrived, text, display, fault>>
    BY <1>8 DEF AbortCall
  <2> QED  BY <2>1 DEF CallInv, ShownLast
<1> QED  BY <1>1, <1>2, <1>3, <1>4, <1>5, <1>6, <1>7, <1>8 DEF CallNext

(* The reply that joins the transcript is what the host was shown last, and*)
(* whole: no delta of a retried attempt stands behind or between its own,  *)
(* and no piece is forgotten at the end of the stream (llm/openai.ts,      *)
(* llm/retry.ts).                                                          *)
THEOREM RepliesAreShown == CallSpec => []ReplyIsShown
<1>1. CallInv => ReplyIsShown
  <2> SUFFICES ASSUME CallInv, streaming, phase = "returned"
               PROVE  /\ Len(display) >= text /\ text >= (arrived + 1) \div 2
                      /\ SubSeq(display, Len(display) - text + 1, Len(display))
                           = [k \in 1 .. text |-> <<retries, k>>]
    BY DEF ReplyIsShown
  <2>1. ShownLast /\ text >= (arrived + 1) \div 2 /\ text \in Nat /\ display \in Seq(Nat \X Nat)
    BY DEF CallInv, Deltas
  <2> DEFINE s == SubSeq(display, Len(display) - text + 1, Len(display))
  <2>2. Len(display) \in Nat /\ Len(display) >= text  BY <2>1, LenProperties DEF ShownLast
  <2>3. \A i \in Len(display) - text + 1..Len(display) : display[i] \in Nat \X Nat
    <3> SUFFICES ASSUME NEW i \in Len(display) - text + 1..Len(display) PROVE display[i] \in Nat \X Nat
      OBVIOUS
    <3>1. i \in 1..Len(display)  BY <2>1, <2>2
    <3> QED  BY <2>1, <3>1, ElementOfSeq
  <2>4. /\ s \in Seq(Nat \X Nat) /\ Len(s) = text
        /\ \A i \in 1..text : s[i] = display[Len(display) - text + i]
    <3>1. Len(display) - text + 1 \in Int /\ Len(display) \in Int  BY <2>1, <2>2
    <3>2. /\ s \in Seq(Nat \X Nat)
          /\ Len(s) = IF Len(display) - text + 1 <= Len(display)
                      THEN Len(display) - (Len(display) - text + 1) + 1 ELSE 0
          /\ \A i \in 1..Len(display) - (Len(display) - text + 1) + 1 :
               s[i] = display[(Len(display) - text + 1) + i - 1]
      BY <2>3, <3>1, SubSeqProperties
    <3>3. Len(display) - (Len(display) - text + 1) + 1 = text  BY <2>1, <2>2
    <3>4. \A i \in 1..text : (Len(display) - text + 1) + i - 1 = Len(display) - text + i  BY <2>1, <2>2
    <3>5. Len(s) = text
      BY <2>1, <2>2, <3>2, <3>3
    <3> QED  BY <3>2, <3>3, <3>4, <3>5
  <2> HIDE DEF s
  <2>5. s = [k \in 1..text |-> <<retries, k>>]
    <3>1. s = [k \in 1..Len(s) |-> s[k]]  BY <2>4, LenProperties
    <3>2. \A k \in 1..text : s[k] = <<retries, k>>  BY <2>1, <2>4 DEF ShownLast
    <3> QED  BY <2>4, <3>1, <3>2
  <2> QED  BY <2>1, <2>2, <2>5 DEF s
<1> QED  BY <1>1, InitCallInv, NextCallInv, PTL DEF CallSpec

-----------------------------------------------------------------------------
USE SchedulerAssumption

(* The calls in flight are a finite set of indices. *)
LEMMA RunningFinite ==
  ASSUME n \in Nat
  PROVE  IsFiniteSet(Running) /\ Cardinality(Running) \in Nat
<1>1. IsFiniteSet(1 .. n)  BY FS_Interval
<1>2. Running \subseteq 1 .. n  BY DEF Running, Call
<1> QED  BY <1>1, <1>2, FS_Subset, FS_CardinalityType

(* Fewer calls in flight keep the bound. *)
LEMMA FewerRunning ==
  ASSUME n \in Nat, UNCHANGED <<n, tasks>>, Running' \subseteq Running, BoundedConcurrency
  PROVE  BoundedConcurrency'
<1>1. Cardinality(Running') <= Cardinality(Running)
  BY RunningFinite, FS_Subset
<1>2. IsFiniteSet(Running')  BY RunningFinite, FS_Subset
<1>3. Cardinality(Running') \in Nat  BY <1>2, FS_CardinalityType
<1> QED  BY <1>1, <1>3, RunningFinite DEF BoundedConcurrency, Cap

(* What the pool starts fits into the room it has. *)
LEMMA LastStartedFits ==
  ASSUME BatchInv, tasks
  PROVE  /\ LastStarted \in Int /\ next - 1 <= LastStarted /\ LastStarted <= n
         /\ aborted => LastStarted = next - 1
         /\ LastStarted - next + 1 <= Cap - Cardinality(Running)
<1>1. n \in Nat /\ next \in 1 .. n + 1 /\ aborted \in BOOLEAN
  BY DEF BatchInv, SchedulerTypeOK
<1>2. Cardinality(Running) \in Nat  BY <1>1, RunningFinite
<1>3. Cap \in Nat /\ Cardinality(Running) <= Cap
  BY DEF BatchInv, BoundedConcurrency, Cap
<1> QED  BY <1>1, <1>2, <1>3 DEF LastStarted

(* Init establishes the invariant. *)
LEMMA InitBatchInv == SchedulerInit => BatchInv
<1> SUFFICES ASSUME SchedulerInit PROVE BatchInv  OBVIOUS
<1>1. SchedulerTypeOK
  BY DEF SchedulerInit, SchedulerTypeOK, Call, CallState, Entry, Kind
<1>2. Running = {}  BY DEF SchedulerInit, Running
<1>3. BoundedConcurrency  BY <1>2, FS_EmptySet DEF BoundedConcurrency, Cap
<1>4. Started /\ OwnEntries /\ Phases /\ SerialBooks /\ PoolBooks /\ ReturnsComplete
  BY <1>2 DEF SchedulerInit, Started, OwnEntries, Phases, SerialBooks, PoolBooks, ReturnsComplete, Call
<1> QED  BY <1>1, <1>3, <1>4 DEF BatchInv

(* executeMany chooses a path. *)
LEMMA DispatchInv ==
  ASSUME BatchInv,
         DispatchEmpty \/ DispatchSerial \/ DispatchRefused \/ DispatchParallel
  PROVE  BatchInv'
<1> USE DEF BatchInv
<1>0. loopAt = "dispatch" /\ next = 1 /\ log = <<>> /\ Running = {}
  <2>1. loopAt = "dispatch" /\ next = 1
    BY DEF DispatchEmpty, DispatchSerial, DispatchRefused, DispatchParallel, Phases
  <2>2. Running = {}  BY <2>1 DEF Started, Running, Call, SchedulerTypeOK
  <2>3. log = <<>>
    <3>1. CASE tasks  BY <2>1, <3>1 DEF PoolBooks
    <3>2. CASE ~tasks
      <4>1. Len(log) = 0  BY <2>1, <2>2, <3>2 DEF SerialBooks
      <4> QED  BY <4>1 DEF SchedulerTypeOK
    <3> QED  BY <3>1, <3>2
  <2> QED  BY <2>1, <2>2, <2>3
<1>1. /\ UNCHANGED <<n, tasks, aborted, next, call, first>> /\ Running' = Running
      /\ loopAt' \in {"serial", "refill", "returned"}
  BY DEF DispatchEmpty, DispatchSerial, DispatchRefused, DispatchParallel, Running, Call
<1>2. BoundedConcurrency' /\ Started'
  BY <1>1, FewerRunning DEF SchedulerTypeOK, Started, Call
<1>3. CASE DispatchRefused
  <2>1. log' = [i \in 1 .. n |-> [call |-> i, kind |-> "refused"]]
    BY <1>3 DEF DispatchRefused, Call
  <2>2. log' \in Seq(Entry) /\ DOMAIN log' = 1 .. n /\ Len(log') = n
    BY <2>1 DEF Entry, Kind, SchedulerTypeOK
  <2>3. SchedulerTypeOK'  BY <1>1, <2>2, <1>3 DEF SchedulerTypeOK, Call, DispatchRefused
  <2>4. OwnEntries'  BY <2>1, <2>2 DEF OwnEntries
  <2>5. ReturnsComplete'
    <3>1. \A k \in 1 .. n : call[k] = "idle"  BY <1>0 DEF Started, Call, SchedulerTypeOK
    <3> QED  BY <1>0, <1>1, <2>1, <2>2, <3>1 DEF ReturnsComplete
  <2>6. Phases' /\ SerialBooks' /\ PoolBooks'
    BY <1>3, <1>1 DEF DispatchRefused, Phases, SerialBooks, PoolBooks
  <2> QED  BY <1>2, <2>3, <2>4, <2>5, <2>6
<1>4. CASE DispatchEmpty \/ DispatchSerial \/ DispatchParallel
  <2>1. log' = <<>>  BY <1>0, <1>4 DEF DispatchEmpty, DispatchSerial, DispatchParallel
  <2>2. SchedulerTypeOK'
    BY <1>1, <1>4 DEF SchedulerTypeOK, Call, DispatchEmpty, DispatchSerial, DispatchParallel
  <2>3. OwnEntries' /\ PoolBooks'  BY <2>1 DEF OwnEntries, PoolBooks
  <2>4. Phases'
    BY <1>1, <1>4, <1>0 DEF Phases, DispatchEmpty, DispatchSerial, DispatchParallel
  <2>5. SerialBooks'
    <3>1. \A i \in Call' : call'[i] # "rejected"
      BY <1>0, <1>1 DEF Started, Call, SchedulerTypeOK
    <3> QED  BY <1>0, <1>1, <2>1, <3>1 DEF SerialBooks
  <2>6. ReturnsComplete'
    BY <1>0, <1>1, <1>4, <2>1 DEF ReturnsComplete, DispatchEmpty, DispatchSerial, DispatchParallel
  <2> QED  BY <1>2, <2>2, <2>3, <2>4, <2>5, <2>6
<1> QED  BY <1>3, <1>4

(* The serial path starts the next call, alone. *)
LEMMA SerialStartInv ==
  ASSUME BatchInv, SerialStart PROVE BatchInv'
<1> USE DEF BatchInv, SerialStart
<1>0. ~tasks /\ n \in Nat /\ next \in 1 .. n /\ next \in Call /\ call \in [Call -> CallState]
  BY DEF Phases, SchedulerTypeOK, Call
<1>1. SchedulerTypeOK'  BY <1>0 DEF SchedulerTypeOK, Call, CallState
<1>2. Running' = {next}
  BY <1>0 DEF Running, Call, Started, CallState
<1>3. BoundedConcurrency'
  <2>1. Cardinality({next}) = 1  BY FS_Singleton
  <2>2. Cardinality(Running') = 1  BY <1>2, <2>1
  <2> QED  BY <1>0, <2>2 DEF BoundedConcurrency
<1>4. Started'  BY <1>0 DEF Started, Call, CallState
<1>5. SerialBooks'
  BY <1>0, <1>2 DEF SerialBooks, Call, CallState
<1>6. OwnEntries' /\ Phases' /\ PoolBooks' /\ ReturnsComplete'
  BY <1>0 DEF OwnEntries, Phases, PoolBooks, ReturnsComplete
<1> QED  BY <1>1, <1>3, <1>4, <1>5, <1>6

(* A serial call resolves: its result is the next one of the log. *)
LEMMA SerialResolvesInv ==
  ASSUME BatchInv, NEW i \in Call, SerialResolves(i) PROVE BatchInv'
<1> USE DEF BatchInv, SerialResolves
<1>0. /\ ~tasks /\ n \in Nat /\ i \in Running /\ i = next - 1 /\ call \in [Call -> CallState]
      /\ next \in 2 .. n + 1 /\ i \in Nat /\ log \in Seq(Entry) /\ loopAt = "serial"
  BY DEF Phases, SchedulerTypeOK, Call, SerialBooks
<1>1. [call |-> i, kind |-> "result"] \in Entry  BY <1>0 DEF Entry, Kind
<1>2. /\ log' \in Seq(Entry) /\ Len(log') = Len(log) + 1
      /\ \A k \in DOMAIN log' : log'[k] = IF k = Len(log) + 1
             THEN [call |-> i, kind |-> "result"] ELSE log[k]
      /\ DOMAIN log' = DOMAIN log \cup {Len(log) + 1}
  BY <1>0, <1>1
<1>3. Len(log) = next - 2  BY <1>0 DEF SerialBooks
<1>4. SchedulerTypeOK'  BY <1>0, <1>2 DEF SchedulerTypeOK, Call, CallState
<1>5. Running' = {}
  BY <1>0 DEF Running, Call, CallState, SerialBooks
<1>6. BoundedConcurrency'
  BY <1>5, FS_EmptySet DEF BoundedConcurrency, Cap
<1>7. Started'  BY <1>0 DEF Started, Call, CallState, Running
<1>8. OwnEntries'  BY <1>0, <1>2, <1>3 DEF OwnEntries
<1>9. SerialBooks'
  BY <1>0, <1>2, <1>3, <1>5 DEF SerialBooks, Call, CallState
<1>10. Phases' /\ PoolBooks' /\ ReturnsComplete'
  BY <1>0 DEF Phases, PoolBooks, ReturnsComplete
<1> QED  BY <1>4, <1>6, <1>7, <1>8, <1>9, <1>10

(* A serial call rejects: the batch throws. *)
LEMMA SerialRejectsInv ==
  ASSUME BatchInv, NEW i \in Call, SerialRejects(i) PROVE BatchInv'
<1> USE DEF BatchInv, SerialRejects
<1>0. ~tasks /\ n \in Nat /\ i \in Running /\ call \in [Call -> CallState]
  BY DEF Phases, SchedulerTypeOK
<1>1. SchedulerTypeOK'  BY <1>0 DEF SchedulerTypeOK, Call, CallState
<1>2. Running' \subseteq Running  BY <1>0 DEF Running, Call, CallState
<1>3. BoundedConcurrency'  BY <1>0, <1>2, FewerRunning
<1>4. Started'  BY <1>0 DEF Started, Call, CallState, Running
<1>5. SerialBooks'  BY <1>0, <1>2 DEF SerialBooks
<1>6. OwnEntries' /\ Phases' /\ PoolBooks' /\ ReturnsComplete'
  BY <1>0 DEF OwnEntries, Phases, PoolBooks, ReturnsComplete
<1> QED  BY <1>1, <1>3, <1>4, <1>5, <1>6

(* The serial path returns. *)
LEMMA SerialEndInv ==
  ASSUME BatchInv, SerialEnd PROVE BatchInv'
<1> USE DEF BatchInv, SerialEnd
<1>0. /\ ~tasks /\ n \in Nat /\ next \in 1 .. n + 1 /\ Running = {} /\ Running' = Running
      /\ call \in [Call -> CallState] /\ log \in Seq(Entry)
  BY DEF Phases, SchedulerTypeOK, Running, Call
<1>1. SchedulerTypeOK'  BY DEF SchedulerTypeOK, Call
<1>2. BoundedConcurrency'  BY <1>0, FewerRunning
<1>3. ReturnsComplete'
  <2>1. Len(log) = next - 1  BY <1>0 DEF SerialBooks
  <2>2. ~aborted => Len(log) = n  BY <1>0, <2>1
  <2>3. \A k \in DOMAIN log : log[k].call = k /\ k \in Call /\ log[k].kind = "result"
    BY <1>0, <2>1 DEF OwnEntries, SerialBooks, Call
  <2>4. \A k \in DOMAIN log : call[k] = "resolved"
    BY <1>0, <2>1, <2>3 DEF Started, SerialBooks, Running, CallState, Call
  <2> QED  BY <1>0, <2>2, <2>3, <2>4 DEF ReturnsComplete
<1>4. Started' /\ OwnEntries' /\ Phases' /\ SerialBooks' /\ PoolBooks'
  BY <1>0 DEF Started, OwnEntries, Phases, SerialBooks, PoolBooks, Call
<1> QED  BY <1>1, <1>2, <1>3, <1>4

(* The pool refills up to its cap. *)
LEMMA RefillInv ==
  ASSUME BatchInv, Refill PROVE BatchInv'
<1> DEFINE New == next .. LastStarted
<1>0. /\ tasks /\ loopAt = "refill" /\ n \in Nat /\ next \in 1 .. n + 1
      /\ call \in [Call -> CallState] /\ log = <<>>
  BY DEF BatchInv, Refill, Phases, PoolBooks, SchedulerTypeOK
<1>1. /\ LastStarted \in Int /\ next - 1 <= LastStarted /\ LastStarted <= n
      /\ LastStarted - next + 1 <= Cap - Cardinality(Running)
  BY <1>0, LastStartedFits
<1>2. /\ next' = LastStarted + 1 /\ first' = "none" /\ UNCHANGED <<n, tasks, aborted, log>>
      /\ call' = [i \in Call |-> IF i \in New THEN "running" ELSE call[i]]
      /\ loopAt' = IF Running \cup New = {} THEN "commit" ELSE "race"
  BY DEF Refill
<1>3. Running' = Running \cup New
  BY <1>0, <1>1, <1>2 DEF Running, Call
<1>4. SchedulerTypeOK'
  <2>1. call' \in [Call' -> CallState]  BY <1>0, <1>2 DEF Call, CallState
  <2>2. next' \in 1 .. n' + 1  BY <1>0, <1>1, <1>2
  <2> HIDE DEF New
  <2> QED  BY <1>0, <1>2, <2>1, <2>2 DEF SchedulerTypeOK, BatchInv
<1>5. Started'
  BY <1>0, <1>1, <1>2 DEF BatchInv, Started, Call
<1>6. BoundedConcurrency'
  <2>1. IsFiniteSet(Running) /\ Cardinality(Running) \in Nat  BY <1>0, RunningFinite
  <2>2. /\ IsFiniteSet(New)
        /\ Cardinality(New) = IF next > LastStarted THEN 0 ELSE LastStarted - next + 1
    BY <1>0, <1>1, FS_Interval
  <2>3. Running \cap New = {}
    BY <1>0, <1>1 DEF BatchInv, Running, Started, Call
  <2>4. Cardinality(Running \cup New) = Cardinality(Running) + Cardinality(New)
    <3> HIDE DEF New
    <3>1. Cardinality(Running \cap New) = 0  BY <2>3, FS_EmptySet
    <3>2. Cardinality(Running \cup New)
             = Cardinality(Running) + Cardinality(New) - Cardinality(Running \cap New)
      BY <2>1, <2>2, FS_Union
    <3>3. Cardinality(New) \in Nat  BY <2>2, FS_CardinalityType
    <3> QED  BY <2>1, <3>1, <3>2, <3>3
  <2>5. Cap \in Nat  BY DEF Cap
  <2>6. Cardinality(Running) <= Cap
    BY <1>0 DEF BatchInv, BoundedConcurrency
  <2>7. Cardinality(Running) + Cardinality(New) <= Cap
    BY <1>0, <1>1, <2>1, <2>2, <2>5, <2>6
  <2> HIDE DEF New
  <2> QED  BY <1>0, <1>2, <1>3, <2>4, <2>7 DEF BoundedConcurrency, Cap
<1>7. OwnEntries' /\ SerialBooks' /\ PoolBooks' /\ ReturnsComplete'
  BY <1>0, <1>2 DEF OwnEntries, SerialBooks, PoolBooks, ReturnsComplete
<1>8. Phases'
  <2> HIDE DEF New
  <2> QED  BY <1>0, <1>2, <1>3 DEF Phases
<1> QED  BY <1>4, <1>5, <1>6, <1>7, <1>8 DEF BatchInv

(* A call of the pool settles, heard or not. *)
LEMMA SettlesInv ==
  ASSUME BatchInv, NEW i \in Call, NEW how \in {"resolved", "rejected"},
         Settles(i, how)
  PROVE  BatchInv'
<1> USE DEF BatchInv, Settles
<1>0. /\ tasks /\ n \in Nat /\ i \in Running /\ call \in [Call -> CallState]
      /\ log = <<>> /\ loopAt # "returned"
  BY DEF SchedulerTypeOK, PoolBooks
<1>1. SchedulerTypeOK'
  <2>1. call' \in [Call' -> CallState]  BY <1>0 DEF CallState, Call
  <2>2. first' \in {"none", "resolved", "rejected"}  BY DEF SchedulerTypeOK
  <2> QED  BY <2>1, <2>2 DEF SchedulerTypeOK
<1>2. Running' \subseteq Running  BY <1>0 DEF Running, Call, CallState
<1>3. BoundedConcurrency'  BY <1>0, <1>2, FewerRunning
<1>4. Started'  BY <1>0 DEF Started, Call, CallState, Running
<1>5. OwnEntries' /\ SerialBooks' /\ PoolBooks' /\ ReturnsComplete'
  BY <1>0 DEF OwnEntries, SerialBooks, PoolBooks, ReturnsComplete
<1>6. Phases'  BY <1>0 DEF Phases
<1> QED  BY <1>1, <1>3, <1>4, <1>5, <1>6

(* The loop of the pool goes on, or throws. *)
LEMMA WakeInv ==
  ASSUME BatchInv, WakeCall \/ WakeThrows PROVE BatchInv'
<1> USE DEF BatchInv, WakeCall, WakeThrows
<1>0. /\ tasks /\ n \in Nat /\ UNCHANGED <<n, tasks, aborted, next, call, first, log>>
      /\ loopAt' \in {"refill", "threw"} /\ loopAt # "returned" /\ Running' = Running
  BY DEF Phases, SchedulerTypeOK, Running, Call
<1>1. SchedulerTypeOK'  BY <1>0 DEF SchedulerTypeOK, Call
<1>2. BoundedConcurrency'  BY <1>0, FewerRunning
<1>3. Started' /\ OwnEntries' /\ Phases' /\ SerialBooks' /\ PoolBooks' /\ ReturnsComplete'
  BY <1>0 DEF Started, OwnEntries, Phases, SerialBooks, PoolBooks, ReturnsComplete, Call
<1> QED  BY <1>1, <1>2, <1>3

(* The pool commits every slot in index order. *)
LEMMA CommitInv ==
  ASSUME BatchInv, Commit PROVE BatchInv'
<1> USE DEF BatchInv
<1>0. /\ tasks /\ n \in Nat /\ Running = {} /\ Running' = Running
      /\ UNCHANGED <<n, tasks, aborted, next, call, first>> /\ loopAt' = "returned"
      /\ log' = [i \in 1 .. n |->
           [call |-> i, kind |-> IF call[i] = "resolved" THEN "result" ELSE "skipped"]]
  BY DEF Commit, Phases, SchedulerTypeOK, Running, Call
<1>1. log' \in Seq(Entry) /\ DOMAIN log' = 1 .. n /\ Len(log') = n
  BY <1>0 DEF Entry, Kind
<1>2. SchedulerTypeOK'  BY <1>0, <1>1 DEF SchedulerTypeOK, Call
<1>3. OwnEntries'  BY <1>0, <1>1 DEF OwnEntries
<1>4. ReturnsComplete'
  <2>1. \A k \in 1 .. n : log'[k].call = k /\ (log'[k].kind = "result" <=> call[k] = "resolved")
    BY <1>0
  <2> QED  BY <1>0, <1>1, <2>1 DEF ReturnsComplete
<1>5. BoundedConcurrency'  BY <1>0, FewerRunning
<1>6. Started' /\ Phases' /\ SerialBooks' /\ PoolBooks'
  BY <1>0 DEF Started, Phases, SerialBooks, PoolBooks, Call
<1> QED  BY <1>2, <1>3, <1>4, <1>5, <1>6

(* The abort signal, and a stutter. *)
LEMMA AbortInv ==
  ASSUME BatchInv, Abort \/ UNCHANGED schedulerVars PROVE BatchInv'
<1> USE DEF BatchInv
<1>0. /\ n \in Nat /\ UNCHANGED <<n, tasks, loopAt, next, call, first, log>> /\ Running' = Running
      /\ aborted' \in BOOLEAN /\ (loopAt = "returned" => aborted' = aborted)
  <2>1. CASE Abort
    <3>1. aborted' \in BOOLEAN /\ loopAt # "returned"  BY <2>1 DEF Abort
    <3>2. UNCHANGED <<n, tasks, loopAt, next, call, first, log>>  BY <2>1 DEF Abort
    <3>3. n \in Nat  BY DEF SchedulerTypeOK
    <3>4. Running' = Running  BY <3>2 DEF Running, Call
    <3> QED  BY <3>1, <3>2, <3>3, <3>4
  <2>2. CASE UNCHANGED schedulerVars  BY <2>2 DEF schedulerVars, SchedulerTypeOK, Running, Call
  <2> QED  BY <2>1, <2>2
<1>1. SchedulerTypeOK'  BY <1>0 DEF SchedulerTypeOK, Call
<1>2. BoundedConcurrency'  BY <1>0, FewerRunning
<1>3. Started' /\ OwnEntries' /\ Phases' /\ SerialBooks' /\ PoolBooks' /\ ReturnsComplete'
  BY <1>0 DEF Started, OwnEntries, Phases, SerialBooks, PoolBooks, ReturnsComplete, Call
<1> QED  BY <1>1, <1>2, <1>3

(* Every step preserves the invariant. *)
LEMMA NextBatchInv == BatchInv /\ [SchedulerNext]_schedulerVars => BatchInv'
<1> SUFFICES ASSUME BatchInv, [SchedulerNext]_schedulerVars PROVE BatchInv'  OBVIOUS
<1>1. CASE RunsLoop
  BY <1>1, DispatchInv, SerialStartInv, SerialEndInv, RefillInv, WakeInv, CommitInv DEF RunsLoop
<1>2. CASE SomeCallSettles
  BY <1>2, SerialResolvesInv, SerialRejectsInv, SettlesInv DEF SomeCallSettles
<1>3. CASE Abort \/ UNCHANGED schedulerVars
  BY <1>3, AbortInv
<1> QED  BY <1>1, <1>2, <1>3 DEF SchedulerNext

(* The inductive invariant holds in every reachable state. *)
THEOREM BatchInvariance == SchedulerSpec => []BatchInv
<1> QED  BY InitBatchInv, NextBatchInv, PTL DEF SchedulerSpec

(* Results reach the transcript in model order, whatever order the calls    *)
(* of a parallel batch settle in.                                           *)
THEOREM CommitsInModelOrder == SchedulerSpec => []ModelOrder
<1>1. BatchInv => ModelOrder
  BY DEF BatchInv, OwnEntries, ModelOrder
<1> QED  BY <1>1, BatchInvariance, PTL

(* Never more calls in flight than the clamped cap. *)
THEOREM PoolIsBounded == SchedulerSpec => []BoundedConcurrency
<1>1. BatchInv => BoundedConcurrency  BY DEF BatchInv
<1> QED  BY <1>1, BatchInvariance, PTL

(* A batch that returns has answered every call, with the call's own        *)
(* result when there is one, and left nothing running.                      *)
THEOREM BatchIsAnswered == SchedulerSpec => []ReturnsComplete
<1>1. BatchInv => ReturnsComplete  BY DEF BatchInv
<1> QED  BY <1>1, BatchInvariance, PTL

(* No call is started once the turn is aborted. *)
THEOREM AbortStopsStarts == SchedulerSpec => NoStartAfterAbort
<1>1. BatchInv /\ [SchedulerNext]_schedulerVars => [aborted => next' = next]_schedulerVars
  <2> SUFFICES ASSUME BatchInv, SchedulerNext, aborted PROVE next' = next
    BY DEF schedulerVars
  <2>1. CASE Refill
    <3>1. tasks /\ next \in 1 .. n + 1 /\ n \in Nat
      BY <2>1 DEF Refill, BatchInv, Phases, SchedulerTypeOK
    <3> QED  BY <2>1, <3>1, LastStartedFits DEF Refill
  <2>2. CASE ~Refill
    BY <2>2 DEF SchedulerNext, RunsLoop, SomeCallSettles, DispatchEmpty, DispatchSerial, DispatchRefused,
       DispatchParallel, SerialStart, SerialEnd, WakeCall, WakeThrows, Commit, SerialResolves,
       SerialRejects, Settles, Abort
  <2> QED  BY <2>1, <2>2
<1> QED  BY <1>1, BatchInvariance, PTL DEF SchedulerSpec, NoStartAfterAbort

----------------------------------------------------------------------------
(* The time budget of one call. *)

(* A tool that has not been answered still has its grace timer, and time   *)
(* does not pass a timer that is due; an answer disarms everything.        *)
TimeInv ==
    /\ TimeoutTypeOK
    /\ result # "none" => armed = {} /\ ~hearing
    /\ budget > 0 /\ result = "none" => "grace" \in armed /\ now <= GraceMs
    /\ budget = 0 => armed = {}

(* The answer comes no later than the grace period, whatever the body does.*)
AnsweredInTime == budget > 0 /\ now > GraceMs => result # "none"

LEMMA InitTimeInv == TimeoutInit => TimeInv
BY TimeAssumption DEF TimeoutInit, TimeInv, TimeoutTypeOK

LEMMA NextTimeInv == TimeInv /\ [TimeoutNext]_timeoutVars => TimeInv'
<1> SUFFICES ASSUME TimeInv, [TimeoutNext]_timeoutVars PROVE TimeInv'
  OBVIOUS
<1> USE TimeAssumption
<1>1. CASE BudgetFires
  BY <1>1 DEF TimeInv, TimeoutTypeOK, BudgetFires, Due
<1>2. CASE GraceExpires
  BY <1>2 DEF TimeInv, TimeoutTypeOK, GraceExpires, Due, Returns
<1>3. CASE OuterAbort
  BY <1>3 DEF TimeInv, TimeoutTypeOK, OuterAbort
<1>4. CASE Tick
  BY <1>4 DEF TimeInv, TimeoutTypeOK, Tick, Due
<1>5. ASSUME NEW how \in {"value", "error"}, BodyEnds(how) PROVE TimeInv'
  BY <1>5 DEF TimeInv, TimeoutTypeOK, BodyEnds, Returns
<1>6. CASE UNCHANGED timeoutVars
  BY <1>6 DEF TimeInv, TimeoutTypeOK, timeoutVars
<1> QED
  BY <1>1, <1>2, <1>3, <1>4, <1>5, <1>6 DEF TimeoutNext

(* The timers, the listener and the answer of a tool agree at all times.   *)
THEOREM TimeInvariance == TimeoutSpec => []TimeInv
<1>1. TimeoutInit => TimeInv
  BY InitTimeInv
<1>2. TimeInv /\ [TimeoutNext]_timeoutVars => TimeInv'
  BY NextTimeInv
<1> QED
  BY <1>1, <1>2, PTL DEF TimeoutSpec

(* A body with a budget never holds its caller past the grace period: the  *)
(* safety half of CallerReturns, without any fairness.                     *)
THEOREM NeverHeldLonger == TimeoutSpec => []AnsweredInTime
<1>1. TimeInv => AnsweredInTime
  BY TimeAssumption DEF TimeInv, TimeoutTypeOK, AnsweredInTime
<1> QED
  BY <1>1, TimeInvariance, PTL

(* A late end of an abandoned body never changes what the caller was told. *)
THEOREM AnswersAreFinal == TimeoutSpec => ResultIsFinal
<1>1. TimeInv /\ [TimeoutNext]_timeoutVars => [result # "none" => result' = result]_timeoutVars
  <2> SUFFICES ASSUME TimeInv, TimeoutNext, result # "none" PROVE result' = result
    BY DEF timeoutVars
  <2>1. CASE GraceExpires
    BY <2>1 DEF TimeInv, GraceExpires, Due
  <2>2. ASSUME NEW how \in {"value", "error"}, BodyEnds(how) PROVE result' = result
    BY <2>2 DEF BodyEnds
  <2> QED
    BY <2>1, <2>2 DEF TimeoutNext, BudgetFires, OuterAbort, Tick
<1> QED
  BY <1>1, TimeInvariance, PTL DEF TimeoutSpec, ResultIsFinal

(* While the caller waits, the abort it may give is listened to, and the   *)
(* deadline is armed or has told the body.                                 *)
TellInv ==
    /\ outer /\ body = "running" => signalled \/ result = "abandoned"
    /\ result = "abandoned" => signalled \/ budget >= GraceMs
    /\ budget > 0 /\ result = "none" => (outer \/ hearing) /\ (fired > 0 \/ "deadline" \in armed)
    /\ fired > 0 => signalled
    /\ "deadline" \in armed => now <= budget
    /\ result \notin {"none", "abandoned"} => body # "running"

LEMMA NextTellInv == TimeInv /\ TellInv /\ [TimeoutNext]_timeoutVars => TellInv'
<1> SUFFICES ASSUME TimeInv, TellInv, [TimeoutNext]_timeoutVars PROVE TellInv'
  OBVIOUS
<1> USE TimeAssumption DEF TimeInv, TimeoutTypeOK
<1>1. CASE BudgetFires
  BY <1>1 DEF TellInv, BudgetFires, Due
<1>2. CASE GraceExpires
  BY <1>2 DEF TellInv, GraceExpires, Due, Returns
<1>3. CASE OuterAbort
  <2>1. /\ ~outer /\ outer' = TRUE /\ UNCHANGED <<now, budget, armed, hearing, fired, body, result>>
        /\ signalled' = (signalled \/ hearing \/ budget = 0)
    BY <1>3 DEF OuterAbort
  <2>2. body = "running" => signalled' \/ result = "abandoned"
    <3> SUFFICES ASSUME body = "running", result = "none" PROVE hearing \/ budget = 0
      BY <2>1 DEF TellInv
    <3> QED  BY <2>1 DEF TellInv
  <2>3. signalled => signalled'
    BY <2>1
  <2> QED
    BY <2>1, <2>2, <2>3 DEF TellInv
<1>4. CASE Tick
  BY <1>4 DEF TellInv, Tick, Due
<1>5. ASSUME NEW how \in {"value", "error"}, BodyEnds(how) PROVE TellInv'
  BY <1>5 DEF TellInv, BodyEnds, Returns
<1>6. CASE UNCHANGED timeoutVars
  BY <1>6 DEF TellInv, timeoutVars
<1> QED
  BY <1>1, <1>2, <1>3, <1>4, <1>5, <1>6 DEF TimeoutNext

(* A cancelled turn leaves no body running that was not told, whenever the *)
(* abort comes, but one that was given up; and a body is given up untold   *)
(* only if its budget is no shorter than the grace period.                 *)
THEOREM BodiesAreTold == TimeoutSpec => []BodyIsTold
<1>1. TimeoutInit => TellInv
  <2> SUFFICES ASSUME TimeoutInit PROVE TellInv
    OBVIOUS
  <2>1. /\ now = 0 /\ budget \in Nat /\ fired = 0 /\ result = "none"
        /\ (budget > 0 => "deadline" \in armed)
    BY TimeAssumption DEF TimeoutInit
  <2>2. outer => signalled
    BY DEF TimeoutInit
  <2>3. budget > 0 /\ ~outer => hearing
    BY DEF TimeoutInit
  <2> QED
    BY <2>1, <2>2, <2>3 DEF TellInv
<1>2. TimeInv /\ TellInv /\ [TimeoutNext]_timeoutVars => TellInv'
  BY NextTellInv
<1>3. TellInv => BodyIsTold
  BY DEF TellInv, BodyIsTold
<1> QED
  BY <1>1, <1>2, <1>3, TimeInvariance, PTL DEF TimeoutSpec
=============================================================================
