--------------------------- MODULE ReplQuestions ---------------------------
(***************************************************************************)
(* Questions answered at the terminal: ask() of                            *)
(* interaction/user-questions.ts over the provider of                      *)
(* interaction/providers/repl-stdin.ts, whose readLine() opens an iterator *)
(* of stdin for each line.  Questions come one after the other; the human  *)
(* types lines 1, 2, ..., and a chunk of stdin holds one or two of them.   *)
(***************************************************************************)
EXTENDS Integers, Sequences

CONSTANTS
    MaxAsk,  \* bound: questions
    MaxTyped \* bound: lines typed

ASSUME ReplAssumption == MaxAsk \in Nat /\ MaxTyped \in Nat

VARIABLES
    sentinels, \* the lines that say a multiline answer is complete
    typed,     \* lines typed so far
    stdin,     \* chunks that no iterator has taken, each a sequence of lines
    eof,       \* the stream has ended, or an iterator has destroyed it
    questions, \* questions asked so far
    multi,     \* question |-> it takes several lines
    outcome,   \* question |-> "none", "open", "answered", "timeout" or "aborted"
    lines,     \* question |-> the lines its reader has
    readers,   \* questions with an iterator waiting for stdin, oldest first
    returning  \* questions whose iterator is told to return

replVars == <<sentinels, typed, stdin, eof, questions, multi, outcome, lines, readers, returning>>

ReplInit ==
    /\ sentinels \in SUBSET (1 .. MaxTyped) /\ multi \in [1 .. MaxAsk -> BOOLEAN]
    /\ typed = 0 /\ stdin = <<>> /\ eof = FALSE /\ questions = 0
    /\ outcome = [q \in 1 .. MaxAsk |-> "none"] /\ lines = [q \in 1 .. MaxAsk |-> <<>>]
    /\ readers = <<>> /\ returning = {}

---------------------------------------------------------------------------
TypesLine ==
    /\ ~eof
    /\ \E n \in 1 .. 2 :
          /\ typed + n <= MaxTyped /\ typed' = typed + n
          /\ stdin' = Append(stdin, [i \in 1 .. n |-> typed + i])
    /\ UNCHANGED <<sentinels, eof, questions, multi, outcome, lines, readers, returning>>

(* the turn's tool asks, and reads the first line *)
AskHuman ==
    /\ questions < MaxAsk /\ \A q \in 1 .. questions : outcome[q] # "open"
    /\ questions' = questions + 1 /\ outcome' = [outcome EXCEPT ![questions + 1] = "open"]
    /\ readers' = Append(readers, questions + 1)
    /\ UNCHANGED <<sentinels, typed, stdin, eof, multi, lines, returning>>

(* Question q has read line l; an answer behind a timeout is dropped. *)
Reads(q, l) ==
    LET complete == ~multi[q] \/ l \in sentinels IN
    /\ lines' = [lines EXCEPT ![q] = IF multi[q] /\ l \in sentinels THEN @ ELSE Append(@, l)]
    /\ outcome' = [outcome EXCEPT ![q] = IF complete /\ @ = "open" THEN "answered" ELSE @]
    /\ readers' = IF complete THEN Tail(readers) ELSE Append(Tail(readers), q)

(* Mutant: the newest chunk is read first *)
Takes_Newest ==
    /\ stdin # <<>> /\ readers # <<>> /\ ~eof /\ stdin' = SubSeq(stdin, 1, Len(stdin) - 1)
    /\ LET q == Head(readers) IN
       IF q \in returning
       THEN /\ eof' = TRUE /\ readers' = Tail(readers) /\ returning' = returning \ {q}
            /\ UNCHANGED <<outcome, lines>>
       ELSE Reads(q, Head(stdin[Len(stdin)])) /\ UNCHANGED <<eof, returning>>
    /\ UNCHANGED <<sentinels, typed, questions, multi>>

(* The iterator that waits longest takes the next chunk.  Its first line   *)
(* is read; the rest is put in front of that iterator, which nobody asks   *)
(* again.  An iterator that was told to return does so now, and destroys   *)
(* the stream.                                                             *)
Takes ==
    /\ stdin # <<>> /\ readers # <<>> /\ ~eof /\ stdin' = Tail(stdin)
    /\ LET q == Head(readers) IN
       IF q \in returning
       THEN /\ eof' = TRUE /\ readers' = Tail(readers) /\ returning' = returning \ {q}
            /\ UNCHANGED <<outcome, lines>>
       ELSE Reads(q, Head(Head(stdin))) /\ UNCHANGED <<eof, returning>>
    /\ UNCHANGED <<sentinels, typed, questions, multi>>

(* the end of the stream: a multiline answer keeps what it has *)
ReadsEnd ==
    /\ readers # <<>> /\ eof
    /\ LET q == Head(readers) IN
          outcome' = IF outcome[q] # "open" THEN outcome
                     ELSE [outcome EXCEPT ![q] = IF lines[q] = <<>> THEN "aborted" ELSE "answered"]
    /\ readers' = Tail(readers)
    /\ UNCHANGED <<sentinels, typed, stdin, eof, questions, multi, lines, returning>>

Ends ==
    /\ ~eof /\ stdin = <<>> /\ eof' = TRUE
    /\ UNCHANGED <<sentinels, typed, stdin, questions, multi, outcome, lines, readers, returning>>

(* the service's timer resolves the question; the provider reads on *)
AskTimesOut(q) ==
    /\ outcome[q] = "open" /\ outcome' = [outcome EXCEPT ![q] = "timeout"]
    /\ UNCHANGED <<sentinels, typed, stdin, eof, questions, multi, lines, readers, returning>>

(* the turn is aborted: the reader gives up at once, a multiline answer    *)
(* with what it has; its iterator returns behind the read it waits for     *)
AskAborts(q) ==
    /\ outcome[q] \in {"open", "timeout"} /\ q \notin returning
    /\ \E i \in DOMAIN readers : readers[i] = q
    /\ outcome' = IF outcome[q] = "timeout" THEN outcome
                  ELSE [outcome EXCEPT ![q] = IF lines[q] = <<>> THEN "aborted" ELSE "answered"]
    /\ returning' = returning \cup {q}
    /\ UNCHANGED <<sentinels, typed, stdin, eof, questions, multi, lines, readers>>

ReplNext ==
    \/ TypesLine \/ AskHuman \/ Takes \/ ReadsEnd \/ Ends
    \/ \E q \in 1 .. MaxAsk : AskTimesOut(q) \/ AskAborts(q)

ReplSpec == ReplInit /\ [][ReplNext]_replVars

---------------------------------------------------------------------------
(* A line answers one question at most, and a later question never gets a  *)
(* line typed before one that answered an earlier question.                *)
LinesInOrder ==
    \A p, q \in 1 .. MaxAsk : p < q /\ outcome[p] = "answered" /\ outcome[q] = "answered" =>
        \A i \in DOMAIN lines[p], j \in DOMAIN lines[q] : lines[p][i] < lines[q][j]

(* No line the human typed vanishes while a question waits for one: the    *)
(* rest of a chunk is there for the next readLine(), as its comment says.  *)
(* It fails: the next readLine() opens another iterator.                   *)
NoLineIsLost ==
    (\A q \in 1 .. questions : outcome[q] \in {"open", "answered"}) =>
        \A l \in 1 .. typed :
            \/ l \in sentinels
            \/ \E i \in DOMAIN stdin : \E j \in DOMAIN stdin[i] : stdin[i][j] = l
            \/ \E q \in 1 .. questions : \E i \in DOMAIN lines[q] : lines[q][i] = l
=============================================================================
