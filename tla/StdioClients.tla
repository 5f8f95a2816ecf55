---------------------------- MODULE StdioClients ----------------------------
(***************************************************************************)
(* The clients that speak JSON-RPC with a child process over its pipes:    *)
(* StdioMcpClient (mcp/stdio-client.ts) and StdioLspClient                 *)
(* (lsp/stdio-client.ts).  Requests share one map of pending ids, each     *)
(* with a timer; the server answers in any order, late or never, sends     *)
(* requests and notifications of its own, and may die without a word.      *)
(*                                                                         *)
(* A frame that cannot be parsed is dropped and is left out here; the      *)
(* LSP client is asked about one file.                                     *)
(***************************************************************************)
EXTENDS Integers, Sequences, FiniteSets

CONSTANTS
    RpcCall,  \* calls that make a request: callTool(), definition(), ...
    DiagCall, \* calls of awaitDiagnostics()
    Closer,   \* calls of close()
    MaxServer \* bound: messages the server sends unasked

ASSUME StdioAssumption ==
    /\ RpcCall \cap DiagCall = {} /\ RpcCall \cap Closer = {} /\ DiagCall \cap Closer = {}
    /\ {"connect", "none"} \cap (RpcCall \cup DiagCall \cup Closer) = {}

VARIABLES
    kind,       \* "mcp" or "lsp"
    ready,      \* _initialized
    ending,     \* _closing, which only the LSP client has
    shut,       \* _closed
    nextId,     \* the number of the next request
    waiting,    \* pending: the call of each id
    outcome,    \* how each call ended: "idle", "open", "own", "other", "error"
    waiters,    \* diagnosticsWaiters
    listener,   \* progressListener: a call, or "none"
    fromServer, \* requests whose answer has not come, [id, call]
    unasked,    \* count of the messages the server sent unasked
    collided    \* ghost: a request of the server had the id of a pending one

serverVars == <<fromServer, unasked, collided>>
stdioVars  == <<kind, ready, ending, shut, nextId, waiting, outcome, waiters, listener, serverVars>>

AnyCall == RpcCall \cup DiagCall \cup Closer \cup {"connect"}
Pending == DOMAIN waiting

StdioInit ==
    /\ kind \in {"mcp", "lsp"} /\ ready = FALSE /\ ending = FALSE /\ shut = FALSE
    /\ nextId = 1 /\ waiting = <<>> /\ waiters = {} /\ listener = "none"
    /\ outcome = [c \in AnyCall |-> "idle"]
    /\ fromServer = {} /\ unasked = 0 /\ collided = FALSE

---------------------------------------------------------------------------
Without(f, gone) == [x \in DOMAIN f \ gone |-> f[x]]

(* sendRequest() *)
SendRequest(c) ==
    /\ waiting' = [i \in Pending \cup {nextId} |-> IF i = nextId THEN c ELSE waiting[i]]
    /\ nextId' = nextId + 1
    /\ fromServer' = fromServer \cup {[id |-> nextId, call |-> c]}

Connect ==
    /\ outcome["connect"] = "idle" /\ ~shut
    /\ SendRequest("connect") /\ outcome' = [outcome EXCEPT !["connect"] = "open"]
    /\ UNCHANGED <<kind, ready, ending, shut, waiters, listener, unasked, collided>>

(* a closing client still takes calls; callTool() sets the listener anew *)
AsksServer(c) ==
    /\ c \in RpcCall /\ outcome[c] = "idle" /\ ready /\ ~shut
    /\ SendRequest(c) /\ outcome' = [outcome EXCEPT ![c] = "open"]
    /\ listener' = IF kind = "mcp" THEN c ELSE listener
    /\ UNCHANGED <<kind, ready, ending, shut, waiters, unasked, collided>>

AwaitDiagnostics(c) ==
    /\ c \in DiagCall /\ kind = "lsp" /\ outcome[c] = "idle" /\ ready /\ ~shut
    /\ waiters' = waiters \cup {c} /\ outcome' = [outcome EXCEPT ![c] = "open"]
    /\ UNCHANGED <<kind, ready, ending, shut, nextId, waiting, listener, serverVars>>

(* The end of close(): what is pending is rejected and who waits for       *)
(* diagnostics gets what there is.  The rejections reach their callers,    *)
(* among them another close(), before anything else happens.               *)
Shuts(how, others) ==
    /\ shut' = TRUE /\ waiting' = <<>> /\ waiters' = {} /\ listener' = "none"
    /\ outcome' = [c \in AnyCall |->
          IF c \in others THEN how
          ELSE IF outcome[c] # "open" THEN outcome[c]
          ELSE IF c \in waiters \cup Closer THEN "own" ELSE "error"]
    /\ fromServer' = {}

CloseClient(c) ==
    /\ c \in Closer /\ outcome[c] = "idle"
    /\ IF shut \/ ending
       THEN /\ outcome' = [outcome EXCEPT ![c] = "own"]
            /\ UNCHANGED <<shut, nextId, waiting, waiters, listener, fromServer>>
       ELSE IF ready
       THEN /\ SendRequest(c) /\ outcome' = [outcome EXCEPT ![c] = "open"]
            /\ UNCHANGED <<shut, waiters, listener>>
       ELSE Shuts("own", {c}) /\ UNCHANGED nextId
    /\ ending' = (ending \/ (kind = "lsp" /\ ~shut))
    /\ UNCHANGED <<kind, ready, unasked, collided>>

(* Mutant: callTool() leaves its progress listener behind *)
SettlesCall_KeepsListener(id, how) ==
    LET c == waiting[id] IN
    IF c \in Closer THEN Shuts("own", {c}) /\ UNCHANGED ready
    ELSE /\ waiting' = Without(waiting, {id})
         /\ outcome' = [outcome EXCEPT ![c] = how]
         /\ ready' = (ready \/ (c = "connect" /\ how # "error"))
         /\ listener' = listener
         /\ UNCHANGED <<shut, waiters>>

(* The promise of a pending request settles.  A close() goes on whatever   *)
(* became of its shutdown request; callTool() takes its listener away,     *)
(* whosever it is by now.                                                  *)
SettlesCall(id, how) ==
    LET c == waiting[id] IN
    IF c \in Closer THEN Shuts("own", {c}) /\ UNCHANGED ready
    ELSE /\ waiting' = Without(waiting, {id})
         /\ outcome' = [outcome EXCEPT ![c] = how]
         /\ ready' = (ready \/ (c = "connect" /\ how # "error"))
         /\ listener' = IF kind = "mcp" /\ c \in RpcCall THEN "none" ELSE listener
         /\ UNCHANGED <<shut, waiters>>

(* the timer of a request *)
RequestTimesOut(id) ==
    /\ id \in Pending /\ SettlesCall(id, "error")
    /\ IF waiting[id] \in Closer THEN TRUE ELSE UNCHANGED fromServer
    /\ UNCHANGED <<kind, ending, nextId, unasked, collided>>

(* the timer of awaitDiagnostics(): it resolves with what there is *)
WaiterTimesOut(c) ==
    /\ c \in waiters /\ waiters' = waiters \ {c} /\ outcome' = [outcome EXCEPT ![c] = "own"]
    /\ UNCHANGED <<kind, ready, ending, shut, nextId, waiting, listener, serverVars>>

(* handleMessage(): an answer to an id that is not pending is ignored.     *)
Answered(r, says) ==
    /\ r \in fromServer /\ ~shut
    /\ IF r.id \in Pending THEN SettlesCall(r.id, IF waiting[r.id] = r.call THEN says ELSE "other")
       ELSE UNCHANGED <<shut, ready, waiting, outcome, waiters, listener>>
    /\ IF r.id \in Pending /\ waiting[r.id] \in Closer THEN TRUE ELSE fromServer' = fromServer \ {r}
    /\ UNCHANGED <<kind, ending, nextId, unasked, collided>>

(* A request of the server, numbered by the server.  The MCP client looks  *)
(* only for an id and takes it for an answer; the LSP client replies null. *)
ServerAsks ==
    /\ unasked < MaxServer /\ unasked' = unasked + 1 /\ ~shut
    /\ LET id  == unasked'
           hit == kind = "mcp" /\ id \in Pending
       IN  /\ collided' = (collided \/ hit)
           /\ IF hit THEN SettlesCall(id, "other")
              ELSE UNCHANGED <<shut, ready, waiting, outcome, waiters, listener>>
           /\ IF hit /\ waiting[id] \in Closer THEN TRUE ELSE UNCHANGED fromServer
    /\ UNCHANGED <<kind, ending, nextId>>

(* publishDiagnostics for the file wakes all that wait for it *)
Published ==
    /\ kind = "lsp" /\ ~shut /\ waiters # {}
    /\ waiters' = {} /\ outcome' = [c \in AnyCall |-> IF c \in waiters THEN "own" ELSE outcome[c]]
    /\ UNCHANGED <<kind, ready, ending, shut, nextId, waiting, listener, serverVars>>

StdioNext ==
    \/ Connect \/ ServerAsks \/ Published
    \/ \E c \in AnyCall : AsksServer(c) \/ AwaitDiagnostics(c) \/ CloseClient(c) \/ WaiterTimesOut(c)
    \/ \E id \in Pending : RequestTimesOut(id)
    \/ \E r \in fromServer, says \in {"own", "error"} : Answered(r, says)

StdioSpec == StdioInit /\ [][StdioNext]_stdioVars

(* only timers are sure to fire: the server may have died *)
StdioDue ==
    \/ \E id \in 1 .. Cardinality(AnyCall) : RequestTimesOut(id)
    \/ \E c \in DiagCall : WaiterTimesOut(c)

---------------------------------------------------------------------------
(* No call is left behind or mixed up.  One that has not ended is in the   *)
(* map of pending ids or among the waiters, where a timer looks after it,  *)
(* nothing else is, progress goes to a call under way, and a closed client *)
(* holds none.  One that ended with an answer has the answer to that very  *)
(* call, however answers are late, cross each other or outlive a timeout;  *)
(* with MCP, unless the server asked something under the same number.      *)
NothingDangles ==
    /\ \A c \in AnyCall : outcome[c] = "open" <=> (c \in waiters \/ \E id \in Pending : waiting[id] = c)
    /\ listener # "none" => outcome[listener] = "open"
    /\ shut => Pending \cup waiters = {}
    /\ collided \/ \A c \in AnyCall : outcome[c] # "other"

(* Every call ends, close() among them, though the server never answers. *)
CallsEnd == []<>(\A c \in AnyCall : outcome[c] # "open")
=============================================================================
