------------------------------ MODULE WireIds ------------------------------
(***************************************************************************)
(* The ids of tool calls, which providers want unique in a conversation    *)
(* and models repeat or leave out: normalizeToolCallIds() (agent/          *)
(* run-loop.ts) mends them in a reply before it joins the transcript, and  *)
(* messagesToOpenAI() (llm/http.ts) and messagesToAnthropic() (llm/        *)
(* anthropic.ts) when a request encodes the whole transcript anew.         *)
(*                                                                         *)
(* The text of an id is a number: 0 is the empty one, k above 0 is         *)
(* "call_k", and those below 0 are the ids that models make up.            *)
(***************************************************************************)
EXTENDS Integers, Sequences, FiniteSets

CONSTANTS
    CallId,     \* ids of the calls a model makes
    MaxInReply, \* bound: calls in one reply
    MaxRounds   \* bound: replies in the transcript

(* an id with white space around it is padded *)
ASSUME WireAssumption ==
    CallId \subseteq [text : Int, padded : BOOLEAN] /\ MaxInReply \in Nat /\ MaxRounds \in Nat

VARIABLES
    replies,   \* the transcript: calls, and results with the position of their call
    rounds,    \* replies that were taken
    answering, \* the call that gets its result next
    lastCall   \* the last call of the last reply

wireVars == <<replies, rounds, answering, lastCall>>

WireInit == replies = <<>> /\ rounds = 0 /\ answering = 1 /\ lastCall = 0

CallLine(id) == [is |-> "call", id |-> id, of |-> 0]
ResultLine(id, call) == [is |-> "result", id |-> id, of |-> call]

---------------------------------------------------------------------------
Fresh(used, id) == id.text # 0 /\ id.text \notin used

(* the next generated id, of those after `generated`, that is free; of one *)
(* more than there are used ids, one is                                    *)
FirstFree(used, generated) ==
    CHOOSE k \in generated + 1 .. generated + Cardinality(used) + 1 :
        k \notin used /\ \A j \in generated + 1 .. k - 1 : j \in used

(* normalizeToolCallIds(): an id that is new in its reply stays as it is   *)
Normalize(acc, id) ==
    IF Fresh(acc.seen, id)
    THEN [acc EXCEPT !.seen = @ \cup {id.text}, !.id = id]
    ELSE LET free == FirstFree(acc.seen, acc.generated)
         IN  [seen |-> acc.seen \cup {free}, generated |-> free, id |-> [text |-> free, padded |-> FALSE]]

Normalizer(ids) ==
    LET acc[i \in 0 .. Len(ids)] ==
            IF i = 0 THEN [seen |-> {}, generated |-> 0, id |-> [text |-> 0, padded |-> FALSE]]
            ELSE Normalize(acc[i - 1], ids[i])
    IN  acc
Normalized(ids) == [i \in 1 .. Len(ids) |-> Normalizer(ids)[i].id]

AllAnswered == answering > lastCall

AddReply ==
    /\ rounds < MaxRounds /\ AllAnswered
    /\ \E n \in 1 .. MaxInReply : \E raw \in [1 .. n -> CallId] :
          /\ replies' = replies \o [i \in 1 .. n |-> CallLine(Normalized(raw)[i])]
          /\ lastCall' = Len(replies) + n
    /\ rounds' = rounds + 1 /\ answering' = Len(replies) + 1

AddResult ==
    /\ ~AllAnswered
    /\ replies' = Append(replies, ResultLine(replies[answering].id, answering))
    /\ answering' = answering + 1 /\ UNCHANGED <<rounds, lastCall>>

WireNext == AddReply \/ AddResult
WireSpec == WireInit /\ [][WireNext]_wireVars

---------------------------------------------------------------------------
(* Mutant: the id made for a repeated one does not replace the one its first call got *)
NextWireId_FirstWins(enc, id) ==
    LET fresh == Fresh(enc.used, id)
        free  == FirstFree(enc.used, enc.generated)
        wire  == IF fresh THEN id.text ELSE free
    IN  [used |-> enc.used \cup {wire}, generated |-> IF fresh THEN enc.generated ELSE free, wire |-> wire,
         lastOf |-> [x \in DOMAIN enc.lastOf \cup {id} |-> IF x = id /\ x \notin DOMAIN enc.lastOf THEN wire ELSE enc.lastOf[x]]]

(* nextWireId(): an id that is new stays, trimmed; the others get the next *)
(* generated one that is free.  The last one its id was given is recorded. *)
NextWireId(enc, id) ==
    LET fresh == Fresh(enc.used, id)
        free  == FirstFree(enc.used, enc.generated)
        wire  == IF fresh THEN id.text ELSE free
    IN  [used |-> enc.used \cup {wire}, generated |-> IF fresh THEN enc.generated ELSE free, wire |-> wire,
         lastOf |-> [x \in DOMAIN enc.lastOf \cup {id} |-> IF x = id THEN wire ELSE enc.lastOf[x]]]

(* a result names the last wire id its call's id was given *)
EncodeLine(enc, line) ==
    IF line.is = "call" THEN NextWireId(enc, line.id)
    ELSE [enc EXCEPT !.wire = enc.lastOf[line.id]]

(* the state of the encoder after each line, with the line's id on the wire *)
Encoder(transcript) ==
    LET enc[i \in 0 .. Len(transcript)] ==
            IF i = 0 THEN [used |-> {}, generated |-> 0, wire |-> 0, lastOf |-> <<>>]
            ELSE EncodeLine(enc[i - 1], transcript[i])
    IN  enc

---------------------------------------------------------------------------
(* No two calls of a request have the same id on the wire, and every       *)
(* result names the call it answers, whatever ids the model repeats in a   *)
(* reply or in later ones, invents in the harness's own style, pads or     *)
(* leaves out.                                                             *)
WireIsSound ==
    LET enc  == Encoder(replies)
        wire == [i \in DOMAIN replies |-> enc[i].wire]
    IN  \A i \in DOMAIN replies :
            IF replies[i].is = "call"
            THEN \A j \in DOMAIN replies : replies[j].is = "call" /\ i # j => wire[i] # wire[j]
            ELSE wire[i] = wire[replies[i].of]

=============================================================================
