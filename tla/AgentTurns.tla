----------------------------- MODULE AgentTurns -----------------------------
(***************************************************************************)
(* The turns that share one transcript: host prompts and the follow-up     *)
(* turns of agent.ts that wake an idle agent when a background child has   *)
(* settled, the notices they carry, and the compactions of the host        *)
(* (agent/compact.ts, context/budget.ts).                                  *)
(*                                                                         *)
(* AgentLoop models one turn in depth; here a turn is reduced to what it   *)
(* appends, and several may run at once.  A prompt is refused while another*)
(* prompt runs and a compaction is not asked for while a prompt runs, but  *)
(* neither looks for follow-ups, and a prompt does not look for the        *)
(* compaction under way.                                                   *)
(***************************************************************************)
EXTENDS Integers, Sequences, FiniteSets

CONSTANTS
    MaxPrompts,    \* bound: host prompts
    MaxNotices,    \* bound: background children that settle
    MaxReplies,    \* bound: replies with tool calls, of one turn only
    MaxKeep,       \* bound: entries a compaction keeps
    MaxCompactions \* bound: compactions

ASSUME TurnsAssumption == MaxKeep \in Nat

VARIABLES
    followUp,    \* settlementFollowup, set by the long-lived hosts
    turns,       \* the turns begun so far; their number is turnSeq
    active,      \* activeTurnId, 0 for none
    following,   \* the turn of the follow-up in progress, 0 for none
    pending,     \* pendingSettlementNotices
    settled,     \* count of the children that settled
    transcript,  \* the transcript
    said,        \* ghost: count of the entries ever appended
    summarised,  \* what the compaction in progress will make of the transcript
    compactions, \* count of the compactions
    cut,         \* ghost: entries dropped without a summary, at a user's request
    overtaken,   \* ghost: entries appended while a summary was being written
    refused      \* ghost: notices whose follow-up was vetoed or failed early

turnsVars == <<followUp, turns, active, following, pending, settled, transcript, said,
               summarised, compactions, cut, overtaken, refused>>

Turn    == DOMAIN turns
Going   == {t \in Turn : turns[t].at # "done"}
Prompts == {t \in Turn : turns[t].by = "host"}
None    == [kept |-> <<>>, summary |-> {}]   \* no compaction in progress

(* An entry covers the appended ones it stands for: itself, or what it     *)
(* summarises.                                                             *)
Message(is, t, notices, covers) == [is |-> is, of |-> t, notices |-> notices, covers |-> covers]
Covered(s) == UNION {s[k].covers : k \in DOMAIN s}
Heard(s)   == UNION {s[k].notices : k \in DOMAIN s}

TurnsInit ==
    /\ followUp \in BOOLEAN /\ turns = <<>> /\ active = 0 /\ following = 0
    /\ pending = {} /\ settled = 0 /\ transcript = <<>> /\ said = 0
    /\ summarised = None /\ compactions = 0
    /\ cut = {} /\ overtaken = {} /\ refused = {}

---------------------------------------------------------------------------
(* appendMessage: the entries `new`, given without their numbers *)
Add(new) ==
    /\ transcript' = transcript \o [k \in DOMAIN new |-> [new[k] EXCEPT !.covers = {said + k}]]
    /\ said' = said + Len(new)
    /\ overtaken' = IF summarised = None THEN overtaken ELSE overtaken \cup (said + 1 .. said + Len(new))

(* flushSettlementNotices() *)
Flushed(t) == IF pending = {} THEN <<>> ELSE <<Message("user", t, pending, {})>>

(* runAgentLoop() up to its first await: the turn has its identity and the *)
(* queued notices are in the transcript.                                   *)
Begin(by, notices, rest) ==
    /\ turns' = Append(rest, [by |-> by, at |-> "assembling", notices |-> notices, calls |-> 0])
    /\ active' = Len(rest) + 1

Moves(t, where) == turns' = [turns EXCEPT ![t].at = where]

HostPrompts ==
    /\ Cardinality(Prompts) < MaxPrompts /\ Prompts \cap Going = {}
    /\ Begin("host", {}, turns) /\ Add(Flushed(Len(turns) + 1)) /\ pending' = {}
    /\ UNCHANGED <<followUp, following, settled, summarised, compactions, cut, refused>>

(* the context is assembled and the prompt appended ... *)
Assembled(t) ==
    /\ turns[t].at = "assembling" /\ Moves(t, "loop")
    /\ Add(<<Message("user", t, turns[t].notices, {})>>)
    /\ UNCHANGED <<followUp, active, following, pending, settled, summarised, compactions, cut,
                   refused>>

(* ... unless a hook or the input guard vetoes it *)
Vetoed(t) ==
    /\ turns[t].at = "assembling" /\ Moves(t, "stopping")
    /\ Add(<<Message("said", t, {}, {})>>) /\ refused' = refused \cup turns[t].notices
    /\ UNCHANGED <<followUp, active, following, pending, settled, summarised, compactions, cut>>

(* the queued notices join the transcript before every model request *)
Ask(t) ==
    /\ turns[t].at = "loop" /\ Moves(t, "model")
    /\ Add(Flushed(t)) /\ pending' = {}
    /\ UNCHANGED <<followUp, active, following, settled, summarised, compactions, cut, refused>>

(* a final answer, or the note of a failure *)
Says(t) ==
    /\ turns[t].at = "model" /\ Moves(t, "stopping") /\ Add(<<Message("said", t, {}, {})>>)
    /\ UNCHANGED <<followUp, active, following, pending, settled, summarised, compactions, cut,
                   refused>>

Calls(t) ==
    /\ turns[t].at = "model" /\ turns[t].calls < MaxReplies /\ \A u \in Turn \ {t} : turns[u].calls = 0
    /\ turns' = [turns EXCEPT ![t].at = "tools", ![t].calls = @ + 1]
    /\ Add(<<Message("calls", t, {}, {})>>)
    /\ UNCHANGED <<followUp, active, following, pending, settled, summarised, compactions, cut,
                   refused>>

(* the results of one reply's calls, as one entry *)
Results(t) ==
    /\ turns[t].at = "tools" /\ Moves(t, "loop") /\ Add(<<Message("results", t, {}, {})>>)
    /\ UNCHANGED <<followUp, active, following, pending, settled, summarised, compactions, cut,
                   refused>>

(* endTurn(), after the Stop hooks or because the assembly threw; a newer  *)
(* turn keeps its identity.                                                *)
EndTurn(t) ==
    /\ turns[t].at \in {"assembling", "stopping"} /\ Moves(t, "ended")
    /\ active' = IF active = t THEN 0 ELSE active
    /\ refused' = IF turns[t].at = "assembling" THEN refused \cup turns[t].notices ELSE refused
    /\ UNCHANGED <<followUp, following, pending, settled, transcript, said, summarised,
                   compactions, cut, overtaken>>

(* run() returns to the host, or to #runSettlementFollowup, which goes on  *)
(* with what was queued meanwhile if the agent is idle.                    *)
Return(t) ==
    /\ turns[t].at = "ended"
    /\ LET rest == [turns EXCEPT ![t].at = "done"]
       IN  IF following = t /\ active = 0 /\ pending # {} /\ followUp
           THEN /\ Begin("settle", pending, rest) /\ following' = Len(rest) + 1
                /\ pending' = {}
           ELSE /\ turns' = rest /\ following' = IF following = t THEN 0 ELSE following
                /\ UNCHANGED <<active, pending>>
    /\ UNCHANGED <<followUp, settled, transcript, said, summarised, compactions, cut, overtaken,
                   refused>>

(* enqueueSettlementNotice(): queued in a turn, for the next request;      *)
(* an idle agent is woken, unless a follow-up has not yet returned.        *)
Settle ==
    /\ settled < MaxNotices /\ settled' = settled + 1
    /\ IF active = 0 /\ followUp /\ following = 0
       THEN /\ Begin("settle", {settled'}, turns) /\ following' = Len(turns) + 1
            /\ Add(Flushed(Len(turns) + 1)) /\ pending' = {}
       ELSE /\ pending' = pending \cup {settled'}
            /\ UNCHANGED <<turns, active, following, transcript, said, overtaken>>
    /\ UNCHANGED <<followUp, summarised, compactions, cut, refused>>

---------------------------------------------------------------------------
Compacts ==
    /\ compactions < MaxCompactions /\ compactions' = compactions + 1
    /\ UNCHANGED <<followUp, turns, active, following, pending, settled, said, overtaken, refused>>

Newest(n) == SubSeq(transcript, Len(transcript) - n + 1, Len(transcript))
Oldest(n) == SubSeq(transcript, 1, Len(transcript) - n)

(* compact() and compactWithBudget(): the oldest entries go, wherever the  *)
(* count or the budget puts the boundary.                                  *)
DropOldest(keep) ==
    /\ Compacts /\ Prompts \cap Going = {} /\ Len(transcript) > keep
    /\ transcript' = Newest(keep)
    /\ cut' = cut \cup Covered(Oldest(keep)) /\ UNCHANGED summarised

(* alignKeepBoundary(): a kept window does not start with tool results *)
AlignedKeep(keep) ==
    IF keep > 0 /\ Newest(keep)[1].is = "results" /\ keep < Len(transcript) THEN keep + 1 ELSE keep

(* compactWithSummary(): after the PreCompact hook was awaited, with       *)
(* prompts let in again, the transcript is split and the summary of its    *)
(* first part is awaited.                                                  *)
Summarise(keep) ==
    /\ Compacts /\ summarised = None /\ Len(transcript) > keep
    /\ LET k == AlignedKeep(keep)
       IN  k < Len(transcript) /\ summarised' = [kept |-> Newest(k), summary |-> {Oldest(k)}]
    /\ UNCHANGED <<transcript, cut>>

(* what was split off is replaced by its summary, and the rest is put back *)
SummaryDone ==
    /\ summarised # None /\ summarised' = None
    /\ \E old \in summarised.summary :
          transcript' = <<Message("user", 0, Heard(old), Covered(old))>> \o summarised.kept
    /\ UNCHANGED <<followUp, turns, active, following, pending, settled, said, compactions, cut,
                   overtaken, refused>>

(* Mutant: a refused summary still drops the old part *)
SummaryRefused_Commits ==
    /\ summarised # None /\ summarised' = None
    /\ transcript' = summarised.kept
    /\ UNCHANGED <<followUp, turns, active, following, pending, settled, said, compactions, cut, overtaken, refused>>

(* no summary, or an empty one: the history stays as it is *)
SummaryRefused ==
    /\ summarised # None /\ summarised' = None
    /\ UNCHANGED <<followUp, turns, active, following, pending, settled, transcript, said,
                   compactions, cut, overtaken, refused>>

TurnStep(t) ==
    \/ Assembled(t) \/ Vetoed(t) \/ Ask(t) \/ Says(t) \/ Calls(t)
    \/ Results(t) \/ EndTurn(t) \/ Return(t)

TurnsNext ==
    \/ HostPrompts \/ Settle
    \/ \E t \in Turn : TurnStep(t)
    \/ \E keep \in 0 .. MaxKeep : DropOldest(keep) \/ Summarise(keep)
    \/ SummaryDone \/ SummaryRefused

TurnsSpec == TurnsInit /\ [][TurnsNext]_turnsVars

---------------------------------------------------------------------------
Lost == 1 .. said \ (Covered(transcript) \cup cut)

(* Nothing said is lost: an entry that left the transcript is in a summary *)
(* that is still there, was dropped at a user's request, or was appended   *)
(* while a summary was being written.                                      *)
LostOnlyIfOvertaken == Lost \subseteq overtaken

(* Context is dropped without a summary only where a user asked for that,  *)
(* as agent/compact.ts says of its commit-or-discard rule.                 *)
DroppedOnlyIfCarried == Lost = {}

(* A settled child's notice is queued, is the prompt of a follow-up about  *)
(* to be appended, is in the transcript, or left it with a lost entry or   *)
(* a refused prompt: no race of turns drops it.                            *)
NoticesKept ==
    \A n \in 1 .. settled :
        \/ n \in pending \cup refused \cup Heard(transcript)
        \/ \E t \in Going : turns[t].at = "assembling" /\ n \in turns[t].notices
        \/ cut \cup overtaken # {}

=============================================================================
