----------------------------- MODULE TuiSession -----------------------------
(***************************************************************************)
(* The terminal host (envoy-harness-tui, session.ts): one prompt at a time *)
(* over one connection, a queue for what is typed meanwhile, and a screen  *)
(* whose lines notifications append, replace and take away by their index, *)
(* while the user clears the screen, cancels, and opens other sessions.    *)
(***************************************************************************)
EXTENDS Integers, FiniteSets, SequencesExt

CONSTANTS
    Text,        \* texts the model says
    MaxWords,    \* bound: messages of all turns
    MaxTools,    \* bound: lines of tools on the screen
    MaxActs      \* bound: lines typed, clears, cancels and opened sessions and messages

ASSUME TuiAssumption == MaxActs \in Nat /\ MaxWords \in Nat /\ MaxTools \in Nat

VARIABLES
    current,   \* #sessionId
    busy,
    waiting,   \* #inputQueue
    ui,        \* [lines, stream, acts, seen]: the screen, #streamingAssistantLineIndex (0: none),
               \* #turnActivityLineIndices and #turnSeen
    opening,   \* calls of session/new and session/load that have not returned
    server,    \* the turn the server runs or ran last: [session, of, said, stage], where stage is
               \* "runs", "ended" (the agent is done) or "idle" (all notifications are sent)
    submitted, \* lines submitted so far: also the name of the latest
    sent,      \* history: the lines sent as prompts, in this order
    dropped,   \* history: queued lines the user took back
    spoilt,    \* history: turns in which the screen was cleared, or the turn did not end by itself
    ended,     \* history: turn |-> what its model said, for the turns that were answered
    switches,  \* clears, cancels, opened sessions and ends of other runs so far
    words      \* messages so far

tuiVars == <<current, busy, waiting, ui, opening, server, submitted, sent, dropped,
             spoilt, ended, switches, words>>

Now == sent[Len(sent)]
Note == [kind |-> "note", turn |-> 0, text |-> <<>>]
Push(u, line) == [u EXCEPT !.lines = Append(@, line)]
Line(kind, text) == [kind |-> kind, turn |-> Now, text |-> text]

TuiInit ==
    /\ current = 0 /\ busy = FALSE /\ waiting = <<>> /\ opening = 0
    /\ ui = [lines |-> <<>>, stream |-> 0, acts |-> {}, seen |-> {}]
    /\ server = [session |-> 0, of |-> 0, said |-> <<>>, stage |-> "idle"]
    /\ submitted = 0 /\ sent = <<>> /\ dropped = {} /\ spoilt = {}
    /\ ended = [t \in 1 .. MaxActs |-> <<>>] /\ switches = 0 /\ words = 0

---------------------------------------------------------------------------
(* #runUserPrompt() up to its await.  The server refuses the prompt while  *)
(* a turn of that session, for which the client waits no more, still runs  *)
Refused == server.stage # "idle" /\ server.session = current

StartsPrompt(k, u) ==
    /\ busy' = TRUE /\ sent' = Append(sent, k)
    /\ ui' = [lines |-> Append(u.lines, [kind |-> "user", turn |-> k, text |-> <<>>]),
              stream |-> 0, acts |-> {}, seen |-> {}]
    /\ server' = IF Refused THEN server
                  ELSE [session |-> current, of |-> k, said |-> <<>>, stage |-> "runs"]

(* submit() of a line that is no command *)
Submits ==
    /\ submitted + switches + words < MaxActs /\ submitted' = submitted + 1
    /\ \/ ~busy /\ StartsPrompt(submitted + 1, ui) /\ UNCHANGED waiting
       \/ /\ busy /\ waiting' = Append(waiting, submitted + 1) /\ ui' = Push(ui, Note)
          /\ UNCHANGED <<busy, sent, server>>
    /\ UNCHANGED <<current, opening, dropped, spoilt, ended, switches, words>>

DropsQueued(i) ==
    /\ i \in DOMAIN waiting /\ waiting' = RemoveAt(waiting, i)
    /\ dropped' = dropped \cup {waiting[i]}
    /\ UNCHANGED <<current, busy, ui, opening, server, submitted, sent, spoilt, ended,
                   switches, words>>

---------------------------------------------------------------------------
(* Notifications, which count for the session on the screen only *)
OnScreen == busy /\ server.session = current

Replace(u, line) ==
    IF u.stream \in DOMAIN u.lines THEN [u EXCEPT !.lines[u.stream] = line] ELSE u

(* handleSessionToken *)
TokenComes ==
    /\ server.stage = "runs" /\ words < MaxWords /\ submitted + switches + words < MaxActs
    /\ ui' = IF ~OnScreen THEN ui
             ELSE IF ui.stream = 0
             THEN [Push(ui, Line("partial", <<>>)) EXCEPT !.stream = Len(ui.lines) + 1]
             ELSE Replace(ui, Line("partial", <<>>))
    /\ UNCHANGED <<current, busy, waiting, opening, server, submitted, sent, dropped,
                   spoilt, ended, switches, words>>

(* consumeProtocolMessage of an assistant message: it completes the line   *)
(* that is being streamed, if there is one, and is shown once otherwise    *)
Consume(u, text) ==
    IF u.stream # 0
    THEN [Replace(u, Line("reply", text)) EXCEPT !.seen = @ \cup {text}, !.stream = 0]
    ELSE IF text \in u.seen THEN u
    ELSE [Push(u, Line("reply", text)) EXCEPT !.seen = @ \cup {text}]

(* The model has said something; what it thought is still part of the text *)
MessageComes(x, thought) ==
    /\ server.stage = "runs" /\ words < MaxWords /\ submitted + switches + words < MaxActs
    /\ words' = words + 1
    /\ server' = [server EXCEPT !.said = Append(@, <<x, thought>>)]
    /\ ui' = IF OnScreen THEN Consume(ui, <<x, thought>>) ELSE ui
    /\ UNCHANGED <<current, busy, waiting, opening, submitted, sent, dropped, spoilt,
                   ended, switches>>

(* Mutant: the line of a tool is remembered by the length of the screen after it was pushed *)
ToolShown_Late(u) == [Push(u, Line("tool", <<>>)) EXCEPT !.acts = @ \cup {Len(u.lines) + 2}]

(* pushActivity of a tool call *)
ToolShown(u) == [Push(u, Line("tool", <<>>)) EXCEPT !.acts = @ \cup {Len(u.lines) + 1}]

ToolCalled ==
    /\ server.stage = "runs" /\ OnScreen /\ Cardinality(ui.acts) < MaxTools /\ ui' = ToolShown(ui)
    /\ UNCHANGED <<current, busy, waiting, opening, server, submitted, sent, dropped,
                   spoilt, ended, switches, words>>

(* what is left of the first i lines when some go *)
Thinned(lines, gone) ==
    LET rest[i \in 0 .. Len(lines)] ==
            IF i = 0 THEN <<>>
            ELSE IF i \in gone THEN rest[i - 1] ELSE Append(rest[i - 1], lines[i])
    IN  rest

(* collapseTurnActivityLines: the lines of tools go                        *)
Collapse(u) ==
    [u EXCEPT
        !.lines = Thinned(@, u.acts)[Len(@)],
        !.stream = @ - Cardinality({i \in u.acts : i < @}),
        !.acts = {}]

(* pushActivity of agent_end, whose card is a line.  A turn that an abort  *)
(* or the cost cap ends while its answer is streamed is cut short          *)
AgentEnds ==
    /\ server.stage = "runs" /\ server' = [server EXCEPT !.stage = "ended"]
    /\ ui' = IF OnScreen THEN Push(Collapse(ui), Note) ELSE ui
    /\ spoilt' = IF ui.stream # 0 THEN spoilt \cup {server.of} ELSE spoilt
    /\ UNCHANGED <<current, busy, waiting, opening, submitted, sent, dropped, ended,
                   switches, words>>

(* A settlement follow-up was running when the turn began: its agent_end is*)
(* taken for one of the turn.                                              *)
FollowUpEnds ==
    /\ server.stage = "runs" /\ OnScreen /\ ui' = Push(Collapse(ui), Note)
    /\ submitted + switches + words < MaxActs /\ switches' = switches + 1
    /\ UNCHANGED <<current, busy, waiting, opening, server, submitted, sent, dropped,
                   spoilt, ended, words>>

---------------------------------------------------------------------------
(* #runUserPrompt() after its await, with #drainInputQueue *)
Drains(u) ==
    LET done == [u EXCEPT !.stream = 0, !.acts = {}] IN
    IF waiting = <<>>
    THEN busy' = FALSE /\ ui' = done /\ UNCHANGED <<sent, server, waiting>>
    ELSE StartsPrompt(Head(waiting), done) /\ waiting' = Tail(waiting)

(* The server notifies once more of what the turn said, without thoughts,  *)
(* and answers with the same messages, which count whatever is on screen   *)
Replayer(u, said) ==
    LET shown[i \in 0 .. Len(said)] ==
            IF i = 0 THEN u ELSE Consume(shown[i - 1], <<said[i][1], FALSE>>)
    IN  shown
Replay(u) == Replayer(u, server.said)[Len(server.said)]

Replays ==
    /\ server.stage = "ended" /\ server' = [server EXCEPT !.stage = "idle"]
    /\ ui' = IF OnScreen THEN Replay(ui) ELSE ui
    /\ UNCHANGED <<current, busy, waiting, opening, submitted, sent, dropped, spoilt, ended,
                   switches, words>>

PromptReturns ==
    /\ busy /\ server.of = Now /\ server.stage = "idle"
    /\ Drains(Push(Replay(ui), Note))
    /\ ended' = [ended EXCEPT ![Now] = server.said]
    /\ UNCHANGED <<current, opening, submitted, dropped, spoilt, switches, words>>

(* An error, or the client's timeout, after which the turn goes on at the server *)
PromptFails ==
    /\ busy /\ Drains(Push(ui, Note)) /\ spoilt' = spoilt \cup {Now}
    /\ UNCHANGED <<current, opening, submitted, dropped, ended, switches, words>>

(* cancel(): the line being streamed is closed at once; the server may     *)
(* still send until it hears of it                                         *)
Cancels ==
    /\ busy /\ spoilt' = spoilt \cup {Now}
    /\ submitted + switches + words < MaxActs /\ switches' = switches + 1
    /\ ui' = [Replace(ui, Line("cancelled", <<>>)) EXCEPT !.stream = 0]
    /\ UNCHANGED <<current, busy, waiting, opening, server, submitted, sent, dropped,
                   ended, words>>

---------------------------------------------------------------------------
(* The screen is emptied: the indices of a turn in progress stay as they are *)
Emptied(u) == [u EXCEPT !.lines = <<Note>>]
AllCut == spoilt' = spoilt \cup ToSet(sent)

(* /clear *)
Clears ==
    /\ submitted + switches + words < MaxActs /\ switches' = switches + 1
    /\ ui' = Emptied(ui) /\ AllCut
    /\ UNCHANGED <<current, busy, waiting, opening, server, submitted, sent, dropped,
                   ended, words>>

(* /new and /resume: refused in a turn, but only before the await *)
Opens ==
    /\ ~busy /\ opening = 0 /\ submitted + switches + words < MaxActs /\ switches' = switches + 1
    /\ opening' = switches'
    /\ UNCHANGED <<current, busy, waiting, ui, server, submitted, sent, dropped, spoilt,
                   ended, words>>

(* /new tells the server its policy after it took the session and before it*)
(* empties the screen.                                                     *)
Named ==
    /\ opening # 0 /\ current # opening /\ current' = opening /\ AllCut
    /\ UNCHANGED <<busy, waiting, ui, opening, server, submitted, sent, dropped, ended,
                   switches, words>>

Opened ==
    /\ opening # 0 /\ opening' = 0 /\ current' = opening
    /\ ui' = [Emptied(ui) EXCEPT !.seen = {}] /\ AllCut
    /\ UNCHANGED <<busy, waiting, server, submitted, sent, dropped, ended, switches,
                   words>>

OpenFails ==
    /\ opening # 0 /\ current # opening /\ opening' = 0 /\ ui' = Push(ui, Note)
    /\ UNCHANGED <<current, busy, waiting, server, submitted, sent, dropped, spoilt,
                   ended, switches, words>>

TuiNext ==
    \/ Submits \/ TokenComes \/ ToolCalled \/ AgentEnds \/ Replays \/ PromptReturns \/ PromptFails
    \/ Cancels \/ Clears \/ Opens \/ Named \/ Opened \/ OpenFails \/ FollowUpEnds
    \/ \E i \in 1 .. MaxActs : DropsQueued(i)
    \/ \E x \in Text, thought \in BOOLEAN : MessageComes(x, thought)

TuiSpec == TuiInit /\ [][TuiNext]_tuiVars

---------------------------------------------------------------------------
Shown(t, text) == {i \in DOMAIN ui.lines :
                      ui.lines[i] = [kind |-> "reply", turn |-> t, text |-> text]}
Of(t, kind) == {i \in DOMAIN ui.lines : ui.lines[i].turn = t /\ ui.lines[i].kind = kind}
Times(q, text) == Cardinality({k \in DOMAIN q :
                         q[k] = text \/ (~text[2] /\ q[k][1] = text[1])})

(* When a turn is over, the screen shows it as it was, though its lines    *)
(* were streamed, replaced and taken away by index: the line of the user   *)
(* first, then all that the model said, each text no more often than it    *)
(* was said, in its order, and nothing of the tools.  Later turns leave it *)
(* so.  (Not if the screen was cleared or the turn cancelled in between.)  *)
ScreenIsTrue ==
    \A t \in ToSet(sent) \ spoilt : (t # Now \/ ~busy) =>
        /\ Cardinality(Of(t, "user")) = 1 /\ Of(t, "tool") = {}
        /\ \A i \in Of(t, "reply") : \A j \in Of(t, "user") : j < i
        /\ \A k \in DOMAIN ended[t] : Shown(t, ended[t][k]) # {}
        /\ \A text \in Text \X BOOLEAN : Cardinality(Shown(t, text)) <= Times(ended[t], text)
        /\ \A j, k \in DOMAIN ended[t] : ended[t][k] \notin ToSet(SubSeq(ended[t], 1, j)) /\ j < k =>
              \E m \in Shown(t, ended[t][j]), n \in Shown(t, ended[t][k]) : m < n

(* What is typed during a turn is sent when the turn is over: in the order *)
(* it was typed, each line once, and no line waits while nothing runs.     *)
QueueRuns ==
    /\ \A i, j \in DOMAIN sent : i < j => sent[i] < sent[j]
    /\ 1 .. submitted = ToSet(sent) \cup ToSet(waiting) \cup dropped
    /\ waiting # <<>> => busy
=============================================================================
