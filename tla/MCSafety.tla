------------------------------ MODULE MCSafety ------------------------------
(***************************************************************************)
(* Fourteen components that share no state, in one graph: `part` says which*)
(* of them runs.  The others stay where they start, with one value for what*)
(* their Init leaves open, so that the graph is the sum of all their graphs*)
(* and an invariant of one component is checked on its states.             *)
(***************************************************************************)
EXTENDS
    WriteLease, DurableWriter, AgentTurns, PeerPool, TeamRun, WireIds, WebLink,
    Terminals, SelfEvolve, ReplQuestions, TuiSession, Mdns,
    SessionReload, PlanMode

CONSTANTS p1, p2, p3, a1, a2, b1, c1, f1, fc

(* Three processes, one of which makes two acquire() calls, so that sharing*)
(* inside a process meets contention between processes                     *)
MCProc   == {p1, p2, p3}
MCLease  == {a1, a2, b1, c1}
MCProcOf == [l \in MCLease |-> CASE l \in {a1, a2} -> p1 [] l = b1 -> p2 [] l = c1 -> p3]
(* Two flush() calls, the second of which close() makes *)
MCFlush   == {f1, fc}
MCClosers == {fc}
(* One peer is configured, the other is only announced *)
MCListed == <<"p1">>
(* An empty id, two in the harness's own style, one the model made up, and *)
(* that one padded                                                         *)
MCCallId == {[text |-> t, padded |-> FALSE] : t \in {0, 1, 2, -1}} \cup {[text |-> -1, padded |-> TRUE]}

VARIABLE part

Fixed ==
    /\ part # "turns" => followUp
    /\ part # "team" => dependsOn = [a \in Agent |-> {}] /\ parallel
    /\ part # "evolve" => commits = [e \in Evolver |-> TRUE]
    /\ part # "reload" => onDisk = <<Header>>
    /\ part # "plan" => kind = "default"
    /\ part # "repl" => sentinels = {} /\ multi = [q \in 1 .. MaxAsk |-> FALSE]

MCInit ==
    /\ part \in {"lease", "writer", "turns", "pool", "team", "wire", "link",
                 "terminals", "evolve", "repl", "tui", "lan", "reload", "plan"}
    /\ LeaseInit /\ WriterInit /\ TurnsInit /\ PoolInit /\ TeamInit /\ WireInit
    /\ LinkInit /\ TerminalsInit /\ EvolveInit /\ ReplInit
    /\ TuiInit /\ MdnsInit /\ ReloadInit /\ PlanInit
    /\ Fixed

Only(p) ==
    /\ part = p /\ UNCHANGED part
    /\ p # "lease" => UNCHANGED leaseVars
    /\ p # "writer" => UNCHANGED writerVars
    /\ p # "turns" => UNCHANGED turnsVars
    /\ p # "pool" => UNCHANGED poolVars
    /\ p # "team" => UNCHANGED teamVars
    /\ p # "wire" => UNCHANGED wireVars
    /\ p # "link" => UNCHANGED linkVars
    /\ p # "terminals" => UNCHANGED terminalVars
    /\ p # "evolve" => UNCHANGED evolveVars
    /\ p # "repl" => UNCHANGED replVars
    /\ p # "tui" => UNCHANGED tuiVars
    /\ p # "lan" => UNCHANGED mdnsVars
    /\ p # "reload" => UNCHANGED reloadVars
    /\ p # "plan" => UNCHANGED planVars

MCNext ==
    \/ Only("lease") /\ LeaseNext
    \/ Only("writer") /\ WriterNext
    \/ Only("turns") /\ TurnsNext
    \/ Only("pool") /\ PoolNext
    \/ Only("team") /\ TeamNext
    \/ Only("wire") /\ WireNext
    \/ Only("link") /\ LinkNext
    \/ Only("terminals") /\ TerminalsNext
    \/ Only("evolve") /\ EvolveNext
    \/ Only("repl") /\ ReplNext
    \/ Only("tui") /\ TuiNext
    \/ Only("lan") /\ MdnsNext
    \/ Only("reload") /\ ReloadNext
    \/ Only("plan") /\ PlanNext

mcVars == <<part, leaseVars, writerVars, turnsVars, poolVars, teamVars, wireVars, linkVars,
            terminalVars, evolveVars, replVars, tuiVars, mdnsVars, reloadVars,
            planVars>>

MCSpec == MCInit /\ [][MCNext]_mcVars

(* What a human types is used in the order it was typed, and once: as      *)
(* answers to questions on stdin, as prompts of the terminal host.         *)
TypedInOrder == LinesInOrder /\ QueueRuns

(* Peers are as they say they are: the rail hears of all that its source on*)
(* the network knows, and the pool ends as the sources of the rail say.    *)
PeersAsAnnounced == RailConverges /\ RailIsToldAll

(* No race of turns, compactions and settling children loses a message or  *)
(* a notice, but for what is appended while a summary is written; and no   *)
(* reload of a session at rest loses a line of it.                         *)
NothingSaidIsLost == NoticesKept /\ LostOnlyIfOvertaken /\ ReloadIsLossless

(* The writer: file, chain and buffer together are the transcript, a line  *)
(* in the buffer has a timer that takes it out, and a line is on disk or on*)
(* its way even when a batch failed with others queued behind it: unless   *)
(* an operation failed in a way that the parts name.                       *)
NothingBufferedIsLost == Lossless /\ BufferIsTimed /\ KeptUnlessTaken

=============================================================================
