----------------------------- MODULE ModelCall -----------------------------
(***************************************************************************)
(* One model request of a turn: the call of model.complete() in            *)
(* agent/run-loop.ts under withRetry() (llm/retry.ts), the request of      *)
(* FetchHttpClient (llm/http.ts) for a whole reply, and the event stream   *)
(* of the OpenAI adapter (llm/openai.ts) when the host listens to deltas.  *)
(*                                                                         *)
(* A reply is the text pieces 1 .. MaxPieces.  A chunk of the stream may   *)
(* end inside a line, so its end is counted in half pieces.                *)
(***************************************************************************)
EXTENDS Integers, Sequences

CONSTANTS
    MaxPieces,  \* bound: pieces of a reply
    MaxAttempts \* policy.maxRetries

ASSUME PiecesAssumption == MaxPieces \in Nat

VARIABLES
    streaming, \* the host listens to deltas: assistantStreamSink is set
    limited,   \* FetchHttpClient's timeoutMs is not 0
    stopped,   \* the signal of the turn
    phase,     \* "idle", "request", "reading", "backoff", "returned" or "failed"
    retries,   \* retryNumber
    arrived,   \* half pieces of the stream that were read in this attempt
    text,      \* count of the pieces in fullText
    display,   \* ghost: deltas given to the host, <<attempt, piece>>
    fault      \* ghost: what the last attempt really failed of, and its Retry-After

callVars == <<streaming, limited, stopped, phase, retries, arrived, text, display, fault>>

CallInit ==
    /\ streaming \in BOOLEAN /\ limited \in BOOLEAN /\ stopped = FALSE
    /\ phase = "idle" /\ retries = 0 /\ arrived = 0 /\ text = 0 /\ display = <<>>
    /\ fault = [is |-> "none", after |-> "none"]

---------------------------------------------------------------------------
(* withRetry() makes its first attempt *)
FirstAttempt ==
    /\ phase = "idle" /\ phase' = "request"
    /\ UNCHANGED <<streaming, limited, stopped, retries, arrived, text, display, fault>>

(* classifyFailure(): the adapters throw an error whose text holds the     *)
(* status and the words of the provider, and only the text is looked at;   *)
(* the words of a refused request may name another class.  An abort, the   *)
(* one of the client's own timer too, says "This operation was aborted".   *)
Classes(is) ==
    CASE is = "busy"     -> {"RATE_LIMIT", "SERVER"}
      [] is = "dropped"  -> {"TRANSPORT"}
      [] is = "silent"   -> {"TRANSPORT"}
      [] is = "refused"  -> {"NON_RETRYABLE", "RATE_LIMIT"}
      [] OTHER           -> {"NON_RETRYABLE"}

(* Mutant: a retry is not counted *)
Fail_Uncounted(is, after) ==
    /\ fault' = [is |-> is, after |-> after]
    /\ \E class \in Classes(is) :
          IF ~stopped /\ class # "NON_RETRYABLE" /\ retries < MaxAttempts /\ after # "beyond"
          THEN phase' = "backoff" /\ UNCHANGED retries
          ELSE phase' = "failed" /\ UNCHANGED retries
    /\ UNCHANGED <<streaming, limited, stopped, arrived, text, display>>

(* decideRetry() and the loop around it.  An adapter of a host may keep    *)
(* the Retry-After header on its error; the ones of llm/ do not.           *)
Fail(is, after) ==
    /\ fault' = [is |-> is, after |-> after]
    /\ \E class \in Classes(is) :
          IF ~stopped /\ class # "NON_RETRYABLE" /\ retries < MaxAttempts /\ after # "beyond"
          THEN phase' = "backoff" /\ retries' = retries + 1
          ELSE phase' = "failed" /\ UNCHANGED retries
    /\ UNCHANGED <<streaming, limited, stopped, arrived, text, display>>

(* the answer has an error status *)
ErrorStatus ==
    /\ phase = "request"
    /\ \/ \E after \in {"none", "within", "beyond"} : Fail("busy", after)
       \/ Fail("refused", "none")

(* the socket drops, or stays silent for as long as fetch() waits *)
SocketFails ==
    phase \in {"request", "reading"} /\ \E is \in {"dropped", "silent"} : Fail(is, "none")

(* the timer of FetchHttpClient, which a streaming request does not use *)
Ceiling == phase = "request" /\ ~streaming /\ limited /\ Fail("ceiling", "none")

(* fetch() rejects for the abort, in the request or in a read *)
AbortSeen == phase \in {"request", "reading"} /\ stopped /\ Fail("abort", "none")

AnswerComes ==
    /\ phase = "request"
    /\ IF streaming THEN phase' = "reading" /\ UNCHANGED text
       ELSE phase' = "returned" /\ text' = MaxPieces
    /\ UNCHANGED <<streaming, limited, stopped, retries, arrived, display, fault>>

(* onDelta() with the pieces up to `upTo` *)
Show(upTo) ==
    /\ text' = upTo
    /\ display' = display \o [k \in 1 .. upTo - text |-> <<retries, text + k>>]

(* a chunk: its whole lines are processed, the rest stays in the buffer *)
Chunk ==
    /\ phase = "reading" /\ ~stopped
    /\ \E to \in arrived + 1 .. 2 * MaxPieces : arrived' = to /\ Show(to \div 2)
    /\ UNCHANGED <<streaming, limited, stopped, phase, retries, fault>>

(* Mutant: the line left in the buffer at the end of the stream is forgotten *)
StreamEnds_DropsRest ==
    /\ phase = "reading"
    /\ \/ /\ phase' = "returned" /\ UNCHANGED <<text, display>>
          /\ UNCHANGED <<streaming, limited, stopped, retries, arrived, fault>>
       \/ arrived % 2 = 1 /\ Fail("cut", "none")

(* the stream ends, wherever the other side ends it, or an abort is found  *)
(* between two reads: a last line without its newline is processed, and    *)
(* throws if it is cut; what came so far is the reply                      *)
StreamEnds ==
    /\ phase = "reading"
    /\ \/ /\ phase' = "returned" /\ Show((arrived + 1) \div 2)
          /\ UNCHANGED <<streaming, limited, stopped, retries, arrived, fault>>
       \/ arrived % 2 = 1 /\ Fail("cut", "none")

(* cancellableDelay() *)
BackoffEnds ==
    /\ phase = "backoff" /\ phase' = "request" /\ arrived' = 0 /\ text' = 0
    /\ UNCHANGED <<streaming, limited, stopped, retries, display, fault>>

AbortCall ==
    /\ ~stopped /\ stopped' = TRUE
    /\ phase' = IF phase = "backoff" THEN "failed" ELSE phase
    /\ UNCHANGED <<streaming, limited, retries, arrived, text, display, fault>>

CallNext ==
    \/ FirstAttempt \/ ErrorStatus \/ SocketFails \/ Ceiling \/ AbortSeen \/ AnswerComes
    \/ Chunk \/ StreamEnds \/ BackoffEnds \/ AbortCall

CallSpec == CallInit /\ [][CallNext]_callVars

(* fetch() waits for a silent socket only so long, and timers fire *)
CallDue == SocketFails \/ BackoffEnds

---------------------------------------------------------------------------
(* The reply that joins the transcript is what the host was shown last: no *)
(* delta of a retried attempt stands behind or between its deltas, and the *)
(* piece left in the buffer at the end of the stream is not forgotten.     *)
ReplyIsShown ==
    streaming /\ phase = "returned" =>
        /\ Len(display) >= text
        /\ SubSeq(display, Len(display) - text + 1, Len(display)) = [k \in 1 .. text |-> <<retries, k>>]
        /\ text >= (arrived + 1) \div 2

(* A call ends: attempts are bounded, and neither a silent server nor the  *)
(* backoff holds the turn for ever.                                        *)
CallEnds == phase = "request" ~> phase \in {"returned", "failed"}

(* A transient failure, a timeout among them, ends the call only when the  *)
(* retries are used up, as agent/run-loop.ts and llm/http.ts say.          *)
TransientIsRetried ==
    phase = "failed" /\ ~stopped /\ fault.is \in {"busy", "dropped", "silent", "ceiling"} =>
        retries = MaxAttempts \/ fault.after = "beyond"
=============================================================================
