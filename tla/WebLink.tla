------------------------------ MODULE WebLink ------------------------------
(***************************************************************************)
(* The connection of the browser client: connect(), reconnect(), the retry *)
(* timer and close() of AcpHost (envoy-harness-web, client/acp/host.ts)    *)
(* over the sockets of client/acp/ws-jsonrpc.ts, with the buttons of       *)
(* ConnectionIndicator.tsx and App.tsx.                                    *)
(*                                                                         *)
(* A socket is named by the generation of the connect() that opened it.    *)
(***************************************************************************)
EXTENDS Integers

CONSTANTS
    MaxTries, \* length of BACKOFF_CAPS_MS
    MaxGen    \* bound: connects and reconnects

ASSUME LinkAssumption == MaxTries \in Nat /\ MaxGen \in Nat \ {0}

VARIABLES
    status,     \* connectionState
    generation,
    attempt,    \* generation of the connect() in flight, 0 for none: #connecting
    linkStage,  \* of that connect(): "opening", "session" or "optional"
    client,     \* the socket of #client, 0 for none
    socket,     \* generation |-> "none", "open", "closing" or "closed"
    retryTimer, \* #retryTimer is armed
    tries,      \* #retryAttempt
    auto,       \* #autoRetry
    disposed

linkVars == <<status, generation, attempt, linkStage, client, socket, retryTimer, tries, auto,
              disposed>>

LinkInit ==
    /\ status = "idle" /\ generation = 0 /\ attempt = 0 /\ linkStage = "opening" /\ client = 0
    /\ socket = [g \in 1 .. MaxGen |-> "none"]
    /\ retryTimer = FALSE /\ tries = 0 /\ auto = TRUE /\ disposed = FALSE

---------------------------------------------------------------------------
(* connect(), which does nothing while one is in flight *)
Connects ==
    IF disposed \/ attempt # 0
    THEN UNCHANGED <<attempt, generation, linkStage, auto, status>>
    ELSE /\ attempt' = generation + 1 /\ generation' = generation + 1 /\ linkStage' = "opening"
         /\ auto' = TRUE /\ status' = "connecting"

(* #scheduleRetry(), when the reference to the socket is dropped; after    *)
(* the last tier it gives up                                               *)
Retries == ~disposed /\ auto /\ ~retryTimer
DropsClient ==
    /\ client' = 0
    /\ retryTimer' = (retryTimer \/ (Retries /\ tries < MaxTries))
    /\ auto' = (auto /\ (Retries => tries < MaxTries))

(* connect()'s catch and #onTransportLost() *)
LosesLink ==
    /\ DropsClient /\ status' = "disconnected"
    /\ tries' = IF Retries THEN tries + 1 ELSE tries

(* close() of a socket; its close event comes later *)
Closing(g) == IF g # 0 /\ socket[g] = "open" THEN [socket EXCEPT ![g] = "closing"] ELSE socket

(* the page is mounted *)
Mount ==
    /\ status = "idle" /\ ~disposed /\ Connects
    /\ UNCHANGED <<client, socket, retryTimer, tries, disposed>>

(* the socket opens: connect() goes on, unless it was overtaken *)
SocketOpens ==
    /\ attempt # 0 /\ linkStage = "opening"
    /\ IF disposed \/ attempt # generation
       THEN /\ socket' = [socket EXCEPT ![attempt] = "closing"] /\ attempt' = 0
            /\ UNCHANGED <<linkStage, client>>
       ELSE /\ socket' = [socket EXCEPT ![attempt] = "open"] /\ client' = attempt
            /\ linkStage' = "session" /\ UNCHANGED attempt
    /\ UNCHANGED <<status, generation, retryTimer, tries, auto, disposed>>

(* connect() throws: its socket does not open, or the session is refused;  *)
(* a socket that is open stays open                                        *)
ConnectFails ==
    /\ attempt # 0 /\ attempt' = 0
    /\ linkStage = "opening" \/ (linkStage = "session" /\ socket[attempt] = "open")
    /\ IF attempt # generation
       THEN UNCHANGED <<client, status, retryTimer, tries, auto>>
       ELSE LosesLink
    /\ UNCHANGED <<generation, linkStage, socket, disposed>>

(* the session is there; what the bootstrap asks now is optional *)
SessionOpened ==
    /\ attempt # 0 /\ linkStage = "session" /\ socket[attempt] = "open"
    /\ linkStage' = "optional"
    /\ UNCHANGED <<status, generation, attempt, client, socket, retryTimer, tries, auto, disposed>>

Connected == status' = "connected" /\ tries' = 0 /\ attempt' = 0

(* the last answer of the bootstrap *)
Bootstrapped ==
    /\ attempt # 0 /\ linkStage = "optional" /\ socket[attempt] = "open" /\ Connected
    /\ UNCHANGED <<generation, linkStage, client, socket, retryTimer, auto, disposed>>

(* Mutant: the loss of a socket is noticed and no retry is scheduled *)
SocketCloses_Silent(g) ==
    /\ socket[g] \in {"open", "closing"} /\ socket' = [socket EXCEPT ![g] = "closed"]
    /\ IF attempt = g /\ linkStage = "optional"
       THEN /\ Connected
            /\ IF g = generation THEN DropsClient ELSE UNCHANGED <<client, retryTimer, auto>>
       ELSE /\ attempt' = IF attempt = g THEN 0 ELSE attempt
            /\ IF g = generation THEN client' = 0 /\ status' = "disconnected" /\ UNCHANGED <<retryTimer, tries, auto>>
               ELSE UNCHANGED <<client, status, retryTimer, tries, auto>>
    /\ UNCHANGED <<generation, linkStage, disposed>>

(* The close event of a socket: its requests are rejected, and the handler,*)
(* if it is not of an older generation, takes the transport for lost.  A   *)
(* connect() that waits for its session ends with that; one whose requests *)
(* are optional does not mind, and says that it is connected.              *)
SocketCloses(g) ==
    /\ socket[g] \in {"open", "closing"} /\ socket' = [socket EXCEPT ![g] = "closed"]
    /\ IF attempt = g /\ linkStage = "optional"
       THEN /\ Connected
            /\ IF g = generation THEN DropsClient ELSE UNCHANGED <<client, retryTimer, auto>>
       ELSE /\ attempt' = IF attempt = g THEN 0 ELSE attempt
            /\ IF g = generation THEN LosesLink ELSE UNCHANGED <<client, status, retryTimer, tries, auto>>
    /\ UNCHANGED <<generation, linkStage, disposed>>

RetryFires ==
    /\ retryTimer /\ generation < MaxGen
    /\ retryTimer' = FALSE /\ Connects
    /\ UNCHANGED <<client, socket, tries, disposed>>

(* reconnect(): the buttons are there unless the host is connected *)
Reconnect ==
    /\ status \in {"connecting", "disconnected"} /\ ~disposed /\ generation + 1 < MaxGen
    /\ retryTimer' = FALSE /\ tries' = 0 /\ socket' = Closing(client) /\ client' = 0
    /\ status' = "connecting" /\ auto' = TRUE
    /\ IF attempt # 0
       THEN generation' = generation + 1 /\ UNCHANGED <<attempt, linkStage>>
       ELSE generation' = generation + 2 /\ attempt' = generation + 2 /\ linkStage' = "opening"
    /\ UNCHANGED disposed

(* close(): the page is unmounted *)
Dispose ==
    /\ ~disposed /\ generation < MaxGen
    /\ disposed' = TRUE /\ auto' = FALSE /\ retryTimer' = FALSE /\ generation' = generation + 1
    /\ socket' = Closing(client) /\ client' = 0 /\ status' = "disconnected"
    /\ UNCHANGED <<attempt, linkStage, tries>>

LinkNext ==
    \/ Mount \/ SocketOpens \/ ConnectFails \/ SessionOpened \/ Bootstrapped
    \/ RetryFires \/ Reconnect \/ Dispose
    \/ \E g \in 1 .. MaxGen : SocketCloses(g)

LinkSpec == LinkInit /\ [][LinkNext]_linkVars

---------------------------------------------------------------------------
(* A host that lost its transport tries again by itself, until the tiers   *)
(* are used up; nobody has to press the button for it.                     *)
LossIsRetried ==
    status = "disconnected" /\ ~disposed /\ attempt = 0 => retryTimer \/ (~auto /\ tries > MaxTries)

(* A host that says it is connecting or connected has a connect() under    *)
(* way, a socket or a retry before it: reconnect() reconnects immediately, *)
(* as its comment says.                                                    *)
NeverStranded ==
    status \in {"connecting", "connected"} /\ ~disposed => attempt # 0 \/ client # 0 \/ retryTimer
=============================================================================
