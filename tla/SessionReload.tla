--------------------------- MODULE SessionReload ---------------------------
(***************************************************************************)
(* The session objects that one process opens over one transcript          *)
(* (session/persisted-session.ts), as session/load does each time a client *)
(* asks for it: the new one reads the file, repairs it, shares the lease of*)
(* its predecessor and takes its place (protocol/agent-backend.ts), while  *)
(* the predecessor's writer (durable-writer.ts) may still have work.       *)
(* Appends that fail or are torn are in DurableWriter.                     *)
(***************************************************************************)
EXTENDS Sequences, Integers

CONSTANTS
    MaxOpen,   \* bound: session objects
    MaxSaid,   \* bound: lines the agents append
    MaxTitles  \* bound: rewrites of the header while a session is live

VARIABLES
    onDisk,    \* the file: a sequence of lines
    temp,      \* <<>>, or <<text>> when the temporary file of this process is there
    phase,     \* object |-> "none", "read", "dirty" (to be repaired), "repairing", "opened",
               \* "live", "closing", "closed" or "failed"
    held,      \* object |-> its messages
    buffer,    \* object |-> lines its writer has not queued yet
    ops,       \* object |-> its writer's chain: appends and rewrites
    swapping,  \* object |-> how far the rewrite at the head of its chain is
    broken,    \* objects whose chain recorded a failure
    uttered, titles,
    raced      \* history: a load met work of another session, or two rewrites met

reloadVars == <<onDisk, temp, phase, held, buffer, ops, swapping, broken, uttered, titles, raced>>

Copies == 1 .. MaxOpen
Header == <<"header", 0>>
Entry(k, n) == <<k, n>>
Final(s) == s[Len(s)]
(* a tool call whose result was not recorded *)
Dangling(t) == t # <<>> /\ Final(t)[1] = "call"
Mended(t) == IF Dangling(t) THEN Append(t, Entry("unknown", Final(t)[2])) ELSE t

(* a session just created, or one whose process died in a tool call *)
ReloadInit ==
    /\ onDisk \in {<<Header>>, <<Header, Entry("call", 0)>>} /\ temp = <<>>
    /\ phase = [i \in Copies |-> "none"] /\ held = [i \in Copies |-> <<>>]
    /\ buffer = [i \in Copies |-> <<>>] /\ ops = [i \in Copies |-> <<>>]
    /\ swapping = [i \in Copies |-> "no"] /\ broken = {}
    /\ uttered = <<>> /\ titles = 0 /\ raced = FALSE

Serving == {i \in Copies : phase[i] = "live"}
BeingOpened == {i \in Copies : phase[i] \in {"read", "dirty", "repairing", "opened"}}
(* between turns, with all it said in the file *)
AtRest(i) == ~Dangling(held[i]) /\ buffer[i] = <<>> /\ ops[i] = <<>>

---------------------------------------------------------------------------
(* openWithOptions(): readFile() and what is made of it *)
ReadsFile(i) ==
    /\ phase[i] = "none" /\ \A j \in 1 .. (i - 1) : phase[j] # "none"
    /\ IF onDisk = <<>> \/ onDisk[1] # Header
       THEN phase' = [phase EXCEPT ![i] = "failed"] /\ UNCHANGED held
       ELSE /\ held' = [held EXCEPT ![i] = Mended(Tail(onDisk))]
            /\ phase' = [phase EXCEPT ![i] = IF Dangling(Tail(onDisk)) THEN "dirty" ELSE "read"]
    /\ raced' = (raced \/ \E j \in Serving : ~AtRest(j))
    /\ UNCHANGED <<onDisk, temp, buffer, ops, swapping, broken, uttered, titles>>

Enqueue(i, op) == ops' = [ops EXCEPT ![i] = Append(@, op)]
Whole(i) == <<"rewrite", <<Header>> \o held[i]>>

(* the lease, shared within the process, and the rewrite of a repaired file *)
GetsLease(i) ==
    /\ \/ phase[i] = "read" /\ phase' = [phase EXCEPT ![i] = "opened"] /\ UNCHANGED ops
       \/ phase[i] = "dirty" /\ phase' = [phase EXCEPT ![i] = "repairing"] /\ Enqueue(i, Whole(i))
    /\ UNCHANGED <<onDisk, temp, held, buffer, swapping, broken, uttered, titles, raced>>

(* the flush() of that rewrite *)
IsRepaired(i) ==
    /\ phase[i] = "repairing" /\ ops[i] = <<>>
    /\ phase' = [phase EXCEPT ![i] = IF i \in broken THEN "failed" ELSE "opened"]
    /\ UNCHANGED <<onDisk, temp, held, buffer, ops, swapping, broken, uttered, titles, raced>>

(* #drain() *)
BufferQueued(i) == IF buffer[i] = <<>> THEN ops[i] ELSE Append(ops[i], <<"append", buffer[i]>>)

(* loadSession() after its awaits: the live session is retired, its close()*)
(* begins with a flush(), and the new one takes its place                  *)
TakesOver(i) ==
    /\ phase[i] = "opened"
    /\ phase' = [j \in Copies |-> IF j = i THEN "live"
                                 ELSE IF j \in Serving THEN "closing" ELSE phase[j]]
    /\ ops' = [j \in Copies |-> IF j \in Serving THEN BufferQueued(j) ELSE ops[j]]
    /\ buffer' = [j \in Copies |-> IF j \in Serving THEN <<>> ELSE buffer[j]]
    /\ UNCHANGED <<onDisk, temp, held, swapping, broken, uttered, titles, raced>>

(* appendMessage(): a turn of the live session, and what an aborted turn   *)
(* still has to say; a closed writer takes nothing                         *)
Utters(i) ==
    /\ Len(uttered) < MaxSaid
    /\ \/ phase[i] = "live"
       \/ phase[i] \in {"closing", "closed"} /\ Dangling(held[i])
    /\ LET line == IF Dangling(held[i]) THEN Entry("result", Final(held[i])[2])
                   ELSE Entry("call", Len(uttered) + 1)
       IN /\ held' = [held EXCEPT ![i] = Append(@, line)]
          /\ buffer' = [buffer EXCEPT ![i] = IF phase[i] = "closed" THEN @ ELSE Append(@, line)]
          /\ uttered' = Append(uttered, line)
    /\ raced' = (raced \/ BeingOpened # {} \/ phase[i] # "live")
    /\ UNCHANGED <<onDisk, temp, phase, ops, swapping, broken, titles>>

(* rewriteHeader(): a title, a plan, a diagnostic record *)
Retitles(i) ==
    /\ phase[i] = "live" /\ titles < MaxTitles /\ titles' = titles + 1
    /\ buffer' = [buffer EXCEPT ![i] = <<>>] /\ Enqueue(i, Whole(i))
    /\ raced' = (raced \/ BeingOpened # {})
    /\ UNCHANGED <<onDisk, temp, phase, held, swapping, broken, uttered>>

(* the batch timer, or a barrier *)
FlushesBuffer(i) ==
    /\ buffer[i] # <<>> /\ phase[i] # "closed"
    /\ ops' = [ops EXCEPT ![i] = BufferQueued(i)] /\ buffer' = [buffer EXCEPT ![i] = <<>>]
    /\ UNCHANGED <<onDisk, temp, phase, held, swapping, broken, uttered, titles, raced>>

(* close() after its flush() *)
StopsWriting(i) ==
    /\ phase[i] = "closing" /\ ops[i] = <<>> /\ phase' = [phase EXCEPT ![i] = "closed"]
    /\ UNCHANGED <<onDisk, temp, held, buffer, ops, swapping, broken, uttered, titles, raced>>

---------------------------------------------------------------------------
AtHead(i, kind) == ops[i] # <<>> /\ Head(ops[i])[1] = kind
Dequeue(i) == ops' = [ops EXCEPT ![i] = Tail(@)]

AppendsBatch(i) ==
    /\ AtHead(i, "append") /\ onDisk' = onDisk \o Head(ops[i])[2] /\ Dequeue(i)
    /\ UNCHANGED <<temp, phase, held, buffer, swapping, broken, uttered, titles, raced>>

(* rewrite(): the temporary file is named after the process, *)
WritesTemp(i) ==
    /\ AtHead(i, "rewrite") /\ swapping[i] = "no"
    /\ temp' = <<Head(ops[i])[2]>> /\ swapping' = [swapping EXCEPT ![i] = "written"]
    /\ raced' = (raced \/ \E j \in Copies : swapping[j] # "no")
    /\ UNCHANGED <<onDisk, phase, held, buffer, ops, broken, uttered, titles>>

(* opened once more for the fsync, with a flag that creates it, *)
SyncsTemp(i) ==
    /\ swapping[i] = "written" /\ swapping' = [swapping EXCEPT ![i] = "synced"]
    /\ temp' = IF temp = <<>> THEN << <<>> >> ELSE temp
    /\ UNCHANGED <<onDisk, phase, held, buffer, ops, broken, uttered, titles, raced>>

(* and renamed, which fails when it is gone *)
RenamesTemp(i) ==
    /\ swapping[i] = "synced" /\ swapping' = [swapping EXCEPT ![i] = "no"] /\ Dequeue(i)
    /\ IF temp = <<>>
       THEN broken' = broken \cup {i} /\ UNCHANGED <<onDisk, temp>>
       ELSE onDisk' = temp[1] /\ temp' = <<>> /\ UNCHANGED broken
    /\ UNCHANGED <<phase, held, buffer, uttered, titles, raced>>

ReloadNext == \E i \in Copies :
    \/ ReadsFile(i) \/ GetsLease(i) \/ IsRepaired(i) \/ TakesOver(i)
    \/ Utters(i) \/ Retitles(i) \/ FlushesBuffer(i) \/ StopsWriting(i)
    \/ AppendsBatch(i) \/ WritesTemp(i) \/ SyncsTemp(i) \/ RenamesTemp(i)

ReloadSpec == ReloadInit /\ [][ReloadNext]_reloadVars

---------------------------------------------------------------------------
Recovered(line) == line[1] = "unknown" \/ line[2] = 0
(* nothing but lines of an earlier process comes before what was said *)
KnowsAll(t) ==
    \E k \in 0 .. Len(t) :
        SubSeq(t, k + 1, Len(t)) = uttered /\ \A l \in 1 .. k : Recovered(t[l])

(* A session that is loaded again while it rests, and whose loads rewrite  *)
(* the file one at a time, loses nothing, in memory or in the file:        *)
(* whatever the retired objects still have to do, the live one knows all   *)
(* that was said, and once its writer is done the file says the same.      *)
ReloadIsLossless ==
    ~raced => \A i \in Serving :
        /\ KnowsAll(held[i])
        /\ (\A j \in Copies : ops[j] = <<>> /\ buffer[j] = <<>>) => onDisk = <<Header>> \o held[i]

(* A rewrite leaves the previous transcript or the new one, never a file   *)
(* without its first line (durable-writer.ts, rewrite-temps.ts).  It fails:*)
(* two objects of one process share the name of the temporary file, and    *)
(* the second one's open(tmp, "a") makes it anew after the first one's     *)
(* rename.                                                                 *)
TranscriptSurvives == onDisk # <<>> /\ onDisk[1] = Header
=============================================================================
