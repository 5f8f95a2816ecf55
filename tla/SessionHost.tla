---------------------------- MODULE SessionHost ----------------------------
(***************************************************************************)
(* The ACP session host: one connection whose client sends session/new,    *)
(* session/load, session/prompt, session/cancel and session/set_model, the *)
(* server's per-session busy state (protocol/acp-server.ts), the backend's *)
(* table of live sessions (protocol/agent-backend.ts), the turn of one     *)
(* prompt (protocol/session-prompt-ops.ts), and the guard that keeps an    *)
(* acquisition which timed out (session/lease-guard.ts).                   *)
(*                                                                         *)
(* Handlers run concurrently: each is a chain of actions cut at its        *)
(* awaits.  A live session is named by the request that creates it, so the *)
(* functions below are indexed by requests throughout.  Reading the        *)
(* transcript, the model and the tools are outside: an acquisition ends    *)
(* when it likes, well or badly, and so does a turn.                       *)
(***************************************************************************)
EXTENDS Naturals, FiniteSets

CONSTANTS
  Sid,         \* session ids, each the name of one transcript file
  MaxRequests, \* bound: the requests the client sends
  Idle,        \* the state of a known session that runs no prompt
  Unknown,     \* the connection has not created or loaded this session
  OnDisk,      \* the transcripts that exist when the host starts
  MaxSessions, \* the cap on live sessions
  MaxStarting, \* bound: session/new and session/load handlers at one time
  StartFails   \* a started session may throw after its lease is acquired

\* The requests in the order the client sends them; 0 is no request.
Req == 1..MaxRequests
NoReq == 0

ASSUME HostAssumption ==
  /\ MaxRequests \in Nat
  /\ OnDisk \subseteq Sid
  /\ MaxSessions \in Nat \ {0} /\ MaxStarting \in Nat \ {0}
  /\ StartFails \in BOOLEAN
  /\ Idle \notin Req /\ Unknown \notin Req
  /\ Idle # Unknown

VARIABLES
  files,                            \* transcripts that exist
  conn,                             \* acp-server sessions: the prompt that holds a session's busy flag
  table,                            \* agent-backend sessions: the live session of an id
  birth,                            \* createdAt, as the rank of the installation; 0 before it
  aborted,                          \* the agent's AbortController has fired
  turnOf,                           \* live.abort: the prompt whose turn runs on a live session
  model,                            \* the model adapter, 0 or 1
  lease,                            \* the write lease of a live session's PersistedSession
  guard,                            \* SessionInitGuard of a starting session
  pc, kind, sid, live, sig, result, \* the handlers
  told,                             \* history: prompts whose own busy flag a session/cancel met
  asked                             \* history: prompts a cancel, eviction or replacement was aimed at

table_vars == <<files, conn, table, birth>>
agent_vars == <<aborted, turnOf, model, lease, guard>>
req_vars == <<pc, kind, sid, live, sig, result>>
vars == <<table_vars, agent_vars, req_vars, told, asked>>

Installed == {r \in Req : birth[r] > 0}
Living == {r \in Req : \E s \in Sid : table[s] = r}
Starting == {r \in Req : pc[r] \in {"acquiring", "resolving"}}
Running == {r \in Req : pc[r] \in {"slash", "turn", "asking"}}
TurnsOn(l) == {r \in Req : pc[r] \in {"turn", "asking"} /\ live[r] = l}

Init ==
  /\ files = OnDisk
  /\ conn = [s \in Sid |-> Unknown]
  /\ table = [s \in Sid |-> NoReq]
  /\ birth = [r \in Req |-> 0]
  /\ aborted = [r \in Req |-> FALSE]
  /\ turnOf = [r \in Req |-> NoReq]
  /\ model = [r \in Req |-> 0]
  /\ lease = [r \in Req |-> "none"]
  /\ guard = [r \in Req |-> "none"]
  /\ pc = [r \in Req |-> "idle"]
  /\ kind = [r \in Req |-> "none"]
  /\ sid = [r \in Req |-> NoReq]
  /\ live = [r \in Req |-> NoReq]
  /\ sig = [r \in Req |-> FALSE]
  /\ result = [r \in Req |-> "none"]
  /\ told = {} /\ asked = {}

(***************************************************************************)
(* Retiring live sessions: the agent is aborted for good and the persisted *)
(* session starts to close; nobody waits for the close.  A handler that    *)
(* has just acquired its own session takes the lease in the same step.     *)
(***************************************************************************)
Retire(doomed, acquired) ==
  /\ aborted' = [r \in Req |-> aborted[r] \/ r \in doomed]
  /\ lease' = [r \in Req |-> IF r \in doomed THEN "closing"
                             ELSE IF r \in acquired THEN "held" ELSE lease[r]]
  /\ asked' = asked \cup {r \in Running : live[r] \in doomed}

\* pruneIfNeeded: the oldest live sessions go until there is room for one.
Evicted ==
  {r \in Living :
     Cardinality({q \in Living : birth[q] < birth[r]}) + MaxSessions
       <= Cardinality(Living)}

\* A handler answers; the fields of its chain are kept for the history.
Answer(r, res) ==
  /\ pc' = [pc EXCEPT ![r] = "answered"]
  /\ result' = [result EXCEPT ![r] = res]

(***************************************************************************)
(* session/new and session/load                                            *)
(***************************************************************************)
\* The handler prunes, then starts the acquisition under its guard.  A load
\* names its session; a new one has no id until the store has created it.
(* Mutant: evicts only once the table is over the cap *)
Start_OneTooMany(r, k, s) ==
  /\ pc[r] = "idle" /\ Cardinality(Starting) < MaxStarting
  /\ k = "load" <=> s \in Sid
  /\ Retire(Evicted \ {q \in Req : Cardinality(Living) = MaxSessions}, {})
  /\ table' = [t \in Sid |-> IF Cardinality(Living) > MaxSessions /\ table[t] \in Evicted THEN NoReq ELSE table[t]]
  /\ pc' = [pc EXCEPT ![r] = "acquiring"]
  /\ kind' = [kind EXCEPT ![r] = k]
  /\ sid' = [sid EXCEPT ![r] = s]
  /\ guard' = [guard EXCEPT ![r] = "acquiring"]
  /\ UNCHANGED <<files, conn, birth, turnOf, model, live, sig, result, told>>

Start(r, k, s) ==
  /\ pc[r] = "idle" /\ Cardinality(Starting) < MaxStarting
  /\ k = "load" <=> s \in Sid
  /\ Retire(Evicted, {})
  /\ table' = [t \in Sid |-> IF table[t] \in Evicted THEN NoReq ELSE table[t]]
  /\ pc' = [pc EXCEPT ![r] = "acquiring"]
  /\ kind' = [kind EXCEPT ![r] = k]
  /\ sid' = [sid EXCEPT ![r] = s]
  /\ guard' = [guard EXCEPT ![r] = "acquiring"]
  /\ UNCHANGED <<files, conn, birth, turnOf, model, live, sig, result, told>>

\* retire the session's old live object, install the new one, tell the server.
(* Mutant: replaces the old session without retiring it *)
Install_KeepsOld(r, s) ==
  /\ Retire({}, {r})
  /\ table' = [table EXCEPT ![s] = r]
  /\ conn' = [conn EXCEPT ![s] = Idle]
  /\ birth' = [birth EXCEPT ![r] = Cardinality(Installed) + 1]
  /\ Answer(r, "ok")

Install(r, s) ==
  /\ Retire({q \in Req : table[s] = q}, {r})
  /\ table' = [table EXCEPT ![s] = r]
  /\ conn' = [conn EXCEPT ![s] = Idle]
  /\ birth' = [birth EXCEPT ![r] = Cardinality(Installed) + 1]
  /\ Answer(r, "ok")

\* The store has created a fresh transcript: commit, build the agent, install.
Created(r) ==
  /\ pc[r] = "acquiring" /\ kind[r] = "new"
  /\ \E s \in Sid \ files :
       /\ files' = files \cup {s}
       /\ sid' = [sid EXCEPT ![r] = s]
       /\ Install(r, s)
  /\ guard' = [guard EXCEPT ![r] = "committed"]
  /\ UNCHANGED <<turnOf, model, kind, live, sig, told>>

\* createAgent throws: the guard has let go of the lease already.
CreateThrows(r) ==
  /\ StartFails
  /\ pc[r] = "acquiring" /\ kind[r] = "new"
  /\ \E s \in Sid \ files :
       files' = files \cup {s} /\ sid' = [sid EXCEPT ![r] = s]
  /\ lease' = [lease EXCEPT ![r] = "held"]
  /\ guard' = [guard EXCEPT ![r] = "committed"]
  /\ Answer(r, "error")
  /\ UNCHANGED <<conn, table, birth, aborted, turnOf, model, kind, live, sig, told, asked>>

\* The transcript is read and its lease taken; the directory is checked next.
Loaded(r) ==
  /\ pc[r] = "acquiring" /\ kind[r] = "load" /\ sid[r] \in files
  /\ lease' = [lease EXCEPT ![r] = "held"]
  /\ guard' = [guard EXCEPT ![r] = "committed"]
  /\ pc' = [pc EXCEPT ![r] = "resolving"]
  /\ UNCHANGED <<table_vars, aborted, turnOf, model, kind, sid, live, sig,
                 result, told, asked>>

Resolved(r) ==
  /\ pc[r] = "resolving"
  /\ Install(r, sid[r])
  /\ UNCHANGED <<files, turnOf, model, guard, kind, sid, live, sig, told>>

\* resolveSessionCwd refuses the directory, or createAgent throws.
ResolveThrows(r) ==
  /\ StartFails
  /\ pc[r] = "resolving"
  /\ Answer(r, "error")
  /\ UNCHANGED <<table_vars, agent_vars, kind, sid, live, sig, told, asked>>

\* The acquisition fails: no such transcript, or its lease is taken.
AcquireFails(r) ==
  /\ pc[r] = "acquiring"
  /\ guard' = [guard EXCEPT ![r] = "settled"]
  /\ Answer(r, "error")
  /\ UNCHANGED <<table_vars, aborted, turnOf, model, lease, kind, sid, live,
                 sig, told, asked>>

\* The bound on the wait passes: the request fails, the guard stays behind.
(* Mutant: the guard is dropped with the request *)
AcquireTimesOut_DropsGuard(r) ==
  /\ pc[r] = "acquiring"
  /\ guard' = [guard EXCEPT ![r] = "settled"]
  /\ \E l \in {"none", "held"} : lease' = [lease EXCEPT ![r] = l]
  /\ Answer(r, "timeout")
  /\ UNCHANGED <<table_vars, aborted, turnOf, model, kind, sid, live,
                 sig, told, asked>>

AcquireTimesOut(r) ==
  /\ pc[r] = "acquiring"
  /\ guard' = [guard EXCEPT ![r] = "discarding"]
  /\ Answer(r, "timeout")
  /\ UNCHANGED <<table_vars, aborted, turnOf, model, lease, kind, sid, live,
                 sig, told, asked>>

\* The acquisition a guard still waits for ends after its request failed.
LateAcquire(r) ==
  /\ pc[r] = "answered" /\ guard[r] = "discarding" /\ lease[r] = "none"
  /\ \/ /\ guard' = [guard EXCEPT ![r] = "settled"]
        /\ UNCHANGED <<lease, files, sid>>
     \/ /\ lease' = [lease EXCEPT ![r] = "held"]
        /\ \/ kind[r] = "load" /\ sid[r] \in files /\ UNCHANGED <<files, sid>>
           \/ /\ kind[r] = "new"
              /\ \E s \in Sid \ files :
                   files' = files \cup {s} /\ sid' = [sid EXCEPT ![r] = s]
        /\ UNCHANGED guard
  /\ UNCHANGED <<conn, table, birth, aborted, turnOf, model, pc, kind, live,
                 sig, result, told, asked>>

\* discard() has its session and closes it.
Discard(r) ==
  /\ guard[r] = "discarding" /\ lease[r] = "held"
  /\ lease' = [lease EXCEPT ![r] = "closing"]
  /\ guard' = [guard EXCEPT ![r] = "settled"]
  /\ UNCHANGED <<table_vars, aborted, turnOf, model, req_vars, told, asked>>

\* close() has flushed and given the lease back.
Closed(r) ==
  /\ lease[r] = "closing"
  /\ lease' = [lease EXCEPT ![r] = "released"]
  /\ UNCHANGED <<table_vars, aborted, turnOf, model, guard, req_vars, told, asked>>

(***************************************************************************)
(* session/prompt                                                          *)
(***************************************************************************)
\* The busy flag lives in the state object the handler took it in: once a
\* load has replaced the object, this handler's finally clears only its own.
(* Mutant: the busy flag of the session is cleared, whoever holds it *)
Release_Anyones(r) ==
  conn' = [s \in Sid |-> IF s = sid[r] /\ conn[s] # Unknown THEN Idle ELSE conn[s]]

Release(r) ==
  conn' = [s \in Sid |-> IF conn[s] = r THEN Idle ELSE conn[s]]

PromptRefused(r, s) ==
  /\ pc[r] = "idle"
  /\ conn[s] # Idle \/ table[s] = NoReq
  /\ kind' = [kind EXCEPT ![r] = "prompt"]
  /\ Answer(r, "error")
  /\ UNCHANGED <<table_vars, agent_vars, sid, live, sig, told, asked>>

Prompt(r, s) ==
  /\ pc[r] = "idle"
  /\ conn[s] = Idle /\ table[s] # NoReq
  /\ conn' = [conn EXCEPT ![s] = r]
  /\ live' = [live EXCEPT ![r] = table[s]]
  /\ pc' = [pc EXCEPT ![r] = "slash"]
  /\ kind' = [kind EXCEPT ![r] = "prompt"]
  /\ sid' = [sid EXCEPT ![r] = s]
  /\ UNCHANGED <<files, table, birth, agent_vars, sig, result, told, asked>>

\* The prompt was a slash command.
SlashAnswers(r) ==
  /\ pc[r] = "slash"
  /\ Release(r) /\ Answer(r, "slash")
  /\ UNCHANGED <<files, table, birth, agent_vars, kind, sid, live, sig, told, asked>>

\* runSessionPrompt installs live.abort and its abort listener, and runs.
TurnBegins(r) ==
  /\ pc[r] = "slash"
  /\ pc' = [pc EXCEPT ![r] = "turn"]
  /\ turnOf' = [turnOf EXCEPT ![live[r]] = r]
  /\ UNCHANGED <<table_vars, aborted, model, lease, guard, kind, sid, live, sig,
                 result, told, asked>>

\* A tool asks the host for permission; an aborted agent is denied at once.
Ask(r) ==
  /\ pc[r] = "turn" /\ ~aborted[live[r]]
  /\ pc' = [pc EXCEPT ![r] = "asking"]
  /\ UNCHANGED <<table_vars, agent_vars, kind, sid, live, sig, result, told, asked>>

HostAnswers(r) ==
  /\ pc[r] = "asking"
  /\ pc' = [pc EXCEPT ![r] = "turn"]
  /\ UNCHANGED <<table_vars, agent_vars, kind, sid, live, sig, result, told, asked>>

AskDenied(r) ==
  /\ pc[r] = "asking" /\ aborted[live[r]]
  /\ pc' = [pc EXCEPT ![r] = "turn"]
  /\ UNCHANGED <<table_vars, agent_vars, kind, sid, live, sig, result, told, asked>>

\* An aborted agent returns "aborted", unless the abort came after its last
\* look; the signal of session/cancel decides the answer all the same.
(* Mutant: the answer does not look at the signal *)
StopReasons_AgentDecides(r) ==
  {"end_turn"} \cup (IF aborted[live[r]] THEN {"aborted"} ELSE {})

StopReasons(r) ==
  IF sig[r] THEN {"cancelled"}
  ELSE {"end_turn"} \cup (IF aborted[live[r]] THEN {"aborted"} ELSE {})

\* A turn that throws is answered with the error, whatever was aborted.
TurnEnds(r) ==
  /\ pc[r] = "turn"
  /\ \E stop \in StopReasons(r) \cup {"error"} : Answer(r, stop)
  /\ turnOf' = [turnOf EXCEPT ![live[r]] = NoReq]
  /\ Release(r)
  /\ UNCHANGED <<files, table, birth, aborted, model, lease, guard, kind, sid,
                 live, sig, told, asked>>

(***************************************************************************)
(* session/cancel and session/set_model: no awaits, one step each          *)
(***************************************************************************)
\* backend.cancel aborts the agent of the table; the server's signal reaches
\* the prompt, whose listener, if it is there yet, aborts its own agent.
(* Mutant: the backend leaves the agent to the prompt's signal *)
CancelTargets_SignalOnly(s) ==
  {l \in Req : \E p \in Req : conn[s] = p /\ p \in TurnsOn(l)}

CancelTargets(s) ==
  {l \in Req : \/ table[s] = l
               \/ \E p \in Req : conn[s] = p /\ p \in TurnsOn(l)}

Cancel(r, s) ==
  /\ pc[r] = "idle" /\ conn[s] # Unknown
  /\ aborted' = [l \in Req |-> aborted[l] \/ l \in CancelTargets(s)]
  /\ sig' = [p \in Req |-> sig[p] \/ conn[s] = p]
  /\ told' = told \cup {p \in Req : conn[s] = p}
  /\ asked' = asked \cup {p \in Running : conn[s] = p \/ live[p] \in CancelTargets(s)}
  /\ kind' = [kind EXCEPT ![r] = "cancel"]
  /\ Answer(r, "ok")
  /\ UNCHANGED <<table_vars, turnOf, model, lease, guard, sid, live>>

(* Mutant: the session may be busy *)
SetModel_AnyTime(r, s) ==
  /\ pc[r] = "idle" /\ table[s] # NoReq
  /\ model' = [model EXCEPT ![table[s]] = 1 - @]
  /\ kind' = [kind EXCEPT ![r] = "setModel"]
  /\ Answer(r, "ok")
  /\ UNCHANGED <<table_vars, aborted, turnOf, lease, guard, sid, live, sig, told, asked>>

SetModel(r, s) ==
  /\ pc[r] = "idle" /\ table[s] # NoReq
  /\ turnOf[table[s]] = NoReq
  /\ model' = [model EXCEPT ![table[s]] = 1 - @]
  /\ kind' = [kind EXCEPT ![r] = "setModel"]
  /\ Answer(r, "ok")
  /\ UNCHANGED <<table_vars, aborted, turnOf, lease, guard, sid, live, sig, told, asked>>

-----------------------------------------------------------------------------
Begin ==
  \E r \in Req :
    /\ \A q \in 1..(r - 1) : pc[q] # "idle"
    /\ \/ Start(r, "new", NoReq)
       \/ \E s \in Sid :
            \/ Start(r, "load", s)
            \/ PromptRefused(r, s) \/ Prompt(r, s)
            \/ Cancel(r, s) \/ SetModel(r, s)

Started(r) ==
  \/ Created(r) \/ CreateThrows(r) \/ Loaded(r) \/ Resolved(r) \/ ResolveThrows(r)
  \/ AcquireFails(r) \/ AcquireTimesOut(r) \/ LateAcquire(r) \/ Discard(r) \/ Closed(r)

Turn(r) ==
  \/ SlashAnswers(r) \/ TurnBegins(r) \/ Ask(r) \/ HostAnswers(r) \/ AskDenied(r)
  \/ TurnEnds(r)

Next == Begin \/ \E r \in Req : Started(r) \/ Turn(r)

Spec == Init /\ [][Next]_vars

\* What runs on timers and promises runs.  The client and the person who
\* answers a permission request owe nothing, nor does an acquisition: it may
\* hang, and only its timer is sure to fire.  At most one of the steps that
\* are due is open for a request at any time.  It is enough that one of all
\* is taken whenever there is one: only asking and being denied can repeat.
Due(r) ==
  \/ AcquireTimesOut(r) \/ Resolved(r) \/ ResolveThrows(r) \/ Discard(r) \/ Closed(r)
  \/ SlashAnswers(r) \/ TurnBegins(r) \/ AskDenied(r)

HostFairness == WF_vars(\E r \in Req : Due(r)) /\ SF_vars(\E r \in Req : TurnEnds(r))

LiveSpec == Spec /\ HostFairness

-----------------------------------------------------------------------------
(* The type of the state, and that installed sessions have their own rank. *)
TypeOK ==
  /\ files \subseteq Sid
  /\ conn \in [Sid -> Req \cup {Idle, Unknown}]
  /\ table \in [Sid -> Req \cup {NoReq}]
  /\ birth \in [Req -> 0..Cardinality(Req)]
  /\ aborted \in [Req -> BOOLEAN] /\ sig \in [Req -> BOOLEAN]
  /\ turnOf \in [Req -> Req \cup {NoReq}] /\ live \in [Req -> Req \cup {NoReq}]
  /\ model \in [Req -> {0, 1}]
  /\ lease \in [Req -> {"none", "held", "closing", "released"}]
  /\ guard \in [Req -> {"none", "acquiring", "discarding", "committed", "settled"}]
  /\ pc \in [Req -> {"idle", "acquiring", "resolving", "slash", "turn", "asking", "answered"}]
  /\ kind \in [Req -> {"none", "new", "load", "prompt", "cancel", "setModel"}]
  /\ sid \in [Req -> Sid \cup {NoReq}]
  /\ result \in [Req -> {"none", "ok", "error", "timeout", "slash", "end_turn", "aborted", "cancelled"}]
  /\ told \subseteq Req /\ asked \subseteq Req
  /\ \A r, q \in Installed : birth[r] = birth[q] => r = q
  /\ Living \subseteq Installed

(* A write lease that is held has somebody who will give it back: the live  *)
(* session of the table, the handler still starting it, or the guard of a   *)
(* request that timed out (lease-guard.ts: "cleanup must retain the         *)
(* in-flight acquisition").  It is not always so: a start that throws once  *)
(* the guard has committed leaves its lease to nobody.                      *)
LeaseOwned ==
  \A r \in Req : lease[r] = "held" =>
    \/ pc[r] = "resolving"
    \/ guard[r] = "discarding"
    \/ sid[r] \in Sid /\ table[sid[r]] = r
Threw == {r \in Req : result[r] = "error" /\ guard[r] = "committed"}
LeaseOwnedUnlessThrown == Threw = {} => LeaseOwned

(* A session that was installed and is no longer the table's is harmless:   *)
(* its agent is aborted and its persisted session closed or closing, so two *)
(* agents never go on working in one transcript.                            *)
RetiredIsDisarmed ==
  \A r \in Installed : table[sid[r]] # r =>
    aborted[r] /\ lease[r] \in {"closing", "released"}

(* The busy flag tells the truth, whatever loads, evictions and finishing   *)
(* prompts do to it: while a prompt works on the live session of an id, the *)
(* connection refuses a second one, so no agent runs two turns at once.     *)
BusyIsTrue ==
  \A r \in Running : table[sid[r]] = live[r] => conn[sid[r]] = r

(* A prompt whose busy flag met a session/cancel and went on to run a turn  *)
(* never reports that turn as finished or merely aborted; it may throw.     *)
CancelIsReported ==
  \A r \in told : result[r] \in {"none", "cancelled", "slash", "error"}

(* session/set_model never changes the model under a running turn.          *)
ModelFixedDuringTurn ==
  [][\A l \in Req : TurnsOn(l) # {} /\ TurnsOn(l)' = TurnsOn(l) => model'[l] = model[l]]_vars

(* The table passes the cap (agent-backend.ts: "Cap live sessions; oldest   *)
(* are dropped") by no more sessions than can start at the same time: room  *)
(* is made before the awaits of a start and used behind them, but no start  *)
(* makes it permanent, for the next one makes room for all.                 *)
OverCapOnlyByStarts ==
  Cardinality(Living) + Cardinality(Starting) < MaxSessions + MaxStarting

(* A turn is aborted or cancelled only by a cancel, an eviction or a        *)
(* replacement that was aimed at it while it ran (the package README: abort *)
(* "cancels the in-flight run").                                            *)
AbortHitsItsOwnTurn ==
  \A r \in Req : result[r] \in {"aborted", "cancelled"} => r \in asked

(* A request to start a session is answered even when the acquisition       *)
(* behind it never ends.                                                    *)
StartIsAnswered == \A r \in Req : r \in Starting ~> pc[r] = "answered"

(* Nothing that was given up stays open.  Cancelled prompts end, even while *)
(* the person asked for permission never answers, and the lease of a        *)
(* session that was evicted or replaced, or whose request timed out, comes  *)
(* back: the client sends finitely many requests, and again and again no    *)
(* cancelled prompt runs, and no lease is left but those of live and of     *)
(* starting sessions and those that a failed start leaked.                  *)
CancelledAreAnswered == \A r \in told : pc[r] = "answered"
LeasesAreBack ==
  \A r \in Req : lease[r] \in {"held", "closing"} =>
    pc[r] = "resolving" \/ r \in Living \/ r \in Threw
NothingStaysOpen == []<>(CancelledAreAnswered /\ LeasesAreBack)

(* The strengthening that is inductive: what the handlers, the table, the   *)
(* busy flags and the guards know of each other.                            *)
Types ==
  /\ conn \in [Sid -> Req \cup {Idle, Unknown}] /\ table \in [Sid -> Req \cup {NoReq}]
  /\ birth \in [Req -> Nat] /\ aborted \in [Req -> BOOLEAN] /\ sig \in [Req -> BOOLEAN]
  /\ turnOf \in [Req -> Req \cup {NoReq}] /\ live \in [Req -> Req \cup {NoReq}]
  /\ model \in [Req -> {0, 1}]
  /\ lease \in [Req -> {"none", "held", "closing", "released"}]
  /\ guard \in [Req -> {"none", "acquiring", "discarding", "committed", "settled"}]
  /\ pc \in [Req -> {"idle", "acquiring", "resolving", "slash", "turn", "asking", "answered"}]
  /\ kind \in [Req -> {"none", "new", "load", "prompt", "cancel", "setModel"}]
  /\ sid \in [Req -> Sid \cup {NoReq}]
  /\ result \in [Req -> {"none", "ok", "error", "timeout", "slash", "end_turn", "aborted", "cancelled"}]
  /\ told \subseteq Req /\ asked \subseteq Req

\* what a handler may have done, by where it is
Handlers ==
  \A r \in Req :
    /\ pc[r] # "answered" => result[r] = "none"
    /\ pc[r] = "idle" \/ r \in Running => lease[r] = "none" /\ guard[r] = "none"
    /\ pc[r] = "acquiring" => lease[r] = "none" /\ guard[r] = "acquiring"
    /\ pc[r] = "acquiring" /\ kind[r] = "load" => sid[r] \in Sid
    /\ pc[r] = "resolving" => guard[r] = "committed" /\ sid[r] \in Sid
    /\ guard[r] = "discarding" => pc[r] = "answered"
\* sessions are installed by handlers that answered, and the table knows
\* only those, each under its own id
Sessions ==
  /\ \A r \in Installed : pc[r] = "answered" /\ guard[r] = "committed" /\ sid[r] \in Sid
  /\ \A s \in Sid : table[s] # NoReq => table[s] \in Installed /\ sid[table[s]] = s
\* a prompt works on a session that was installed under the prompt's id, and
\* has it for itself; the session knows the turn
Prompts ==
  /\ \A r \in Running : live[r] \in Installed /\ sid[live[r]] = sid[r]
  /\ \A r, q \in Running : live[r] = live[q] => r = q
  /\ \A r \in Running : pc[r] # "slash" => turnOf[live[r]] = r
Flags == \A s \in Sid : conn[s] \in Req => conn[s] \in Running /\ sid[conn[s]] = s
Cancels == \A r \in told : sig[r] /\ (r \in Running \/ pc[r] = "answered")

HostInv ==
  /\ Types /\ Handlers /\ Sessions /\ Prompts /\ Flags /\ Cancels
  /\ RetiredIsDisarmed /\ BusyIsTrue /\ CancelIsReported /\ LeaseOwnedUnlessThrown
=============================================================================
