---------------------------- MODULE DurableWriter ----------------------------
(***************************************************************************)
(* session/durable-writer.ts: the batched, ordered writer of a session file*)
(* and the operations of session/persisted-session.ts that feed it.        *)
(*                                                                         *)
(* Lines are numbered in the order they are accepted.  #chain is a queue   *)
(* of file operations; its head is the operation in progress, and a flush  *)
(* that awaits the chain stands in it where it was called, because the     *)
(* continuation of `await this.#chain` is registered before any later      *)
(* `#chain.then`.  The disk may fail an operation, and the process may     *)
(* crash in the middle of one.                                             *)
(*                                                                         *)
(* The disk keeps what fsync, the rename and its directory sync, and the   *)
(* truncate of a rollback have done; the first append has made the file.   *)
(* A line appended behind a torn one is kept apart from it here, where the *)
(* reader would see one garbled line: no property speaks of the lines of a *)
(* file whose rollback failed.                                             *)
(***************************************************************************)
EXTENDS Naturals, Sequences, SequencesExt

CONSTANTS
  Flush,      \* flush() calls
  Closers,    \* those of them that close() makes
  MaxLine,    \* bound: lines accepted
  MaxRewrite, \* bound: rewrites asked for
  MaxFault,   \* bound: disk faults
  MaxBatch    \* maxBatchBytes, in lines

ASSUME ClosersAssumption == Closers \subseteq Flush
ASSUME BoundsAssumption ==
  /\ MaxLine \in Nat /\ MaxRewrite \in Nat /\ MaxFault \in Nat
  /\ MaxBatch \in Nat \ {0}

Torn == 0   \* what a write that stopped inside a line leaves of it

VARIABLES
  memory,         \* the transcript, as the lines accepted by the writer
  buffered,       \* #pending
  chain,          \* #chain: batches, rewrites and waiting flushes
  error,          \* #error is set
  timer,          \* #timer is armed
  shut,           \* #closed
  file,           \* the complete lines on disk, and Torn
  replaced,       \* files a crash may bring back: the directory is not synced
  flush,          \* state of each flush() call
  running,        \* FALSE once the process has crashed
  accepted,       \* count of lines accepted
  rewrites,       \* count of rewrites asked for
  faults,         \* ghost: the kinds of disk faults so far, in order
  flushesOverlap, \* ghost: two flush() calls have waited at once
  snapshot,       \* ghost: the transcript when a flush was called
  promised        \* ghost: lines a resolved flush promised, still in memory

writerVars == <<memory, buffered, chain, error, timer, shut, file, replaced, flush, running,
          accepted, rewrites, faults, flushesOverlap, snapshot, promised>>

Lines   == Seq(1..MaxLine)
Batch(s)   == [op |-> "batch", lines |-> s]
Rewrite(s) == [op |-> "rewrite", lines |-> s]
Barrier(f) == [op |-> "flush", call |-> f]
Faults  == {"batch", "overtaken", "emptied", "dirty", "rewrite", "late"}
Losing  == {"emptied", "dirty", "rewrite"}   \* those that take lines with them

WriterTypeOK ==
  /\ memory \in Lines /\ buffered \in Lines
  /\ \A i \in DOMAIN chain :
       \/ chain[i].op \in {"batch", "rewrite"} /\ chain[i].lines \in Lines
       \/ chain[i].op = "flush" /\ flush[chain[i].call] = "waiting"
  /\ {error, timer, shut, running, flushesOverlap} \subseteq BOOLEAN
  /\ file \in Seq({Torn} \cup 1..MaxLine)
  /\ replaced \subseteq Seq({Torn} \cup 1..MaxLine)
  /\ flush \in [Flush -> {"idle", "waiting", "resolved", "rejected"}]
  /\ accepted \in 0..MaxLine /\ rewrites \in 0..MaxRewrite
  /\ faults \in Seq(Faults) /\ Len(faults) <= MaxFault
  /\ snapshot \in [Flush -> Lines] /\ promised \subseteq ToSet(memory)

WriterInit ==
  /\ memory = <<>> /\ buffered = <<>> /\ chain = <<>>
  /\ file = <<>> /\ replaced = {}
  /\ error = FALSE /\ timer = FALSE /\ shut = FALSE /\ running = TRUE
  /\ flush = [f \in Flush |-> "idle"]
  /\ accepted = 0 /\ rewrites = 0 /\ faults = <<>> /\ flushesOverlap = FALSE
  /\ snapshot = [f \in Flush |-> <<>>] /\ promised = {}

Waiting == {f \in Flush : flush[f] = "waiting"}

(* #drain: the whole buffer becomes one write of the chain.                *)
Drained(p) == IF p = <<>> THEN chain ELSE Append(chain, Batch(p))

-----------------------------------------------------------------------------
(* appendMessage -> append: buffer, then drain at the threshold or see that*)
(* a timer runs.                                                           *)
AppendLine ==
  LET held == Append(buffered, accepted + 1) IN
  /\ running /\ ~shut /\ accepted < MaxLine
  /\ accepted' = accepted + 1
  /\ memory' = Append(memory, accepted + 1)
  /\ IF Len(held) >= MaxBatch
       THEN buffered' = <<>> /\ chain' = Drained(held) /\ timer' = timer
       ELSE buffered' = held /\ chain' = chain /\ timer' = TRUE
  /\ UNCHANGED <<error, shut, file, replaced, flush, running, rewrites, faults,
                 snapshot, promised, flushesOverlap>>

TimerFires ==
  /\ running /\ timer
  /\ timer' = FALSE
  /\ chain' = Drained(buffered)
  /\ buffered' = <<>>
  /\ UNCHANGED <<memory, error, shut, file, replaced, flush, running, accepted, rewrites,
                 faults, snapshot, promised, flushesOverlap>>

(* rewrite(serialize()): the buffer is dropped, the new transcript queued. *)
DoRewrite(content) ==
  /\ running /\ ~shut /\ rewrites < MaxRewrite
  /\ rewrites' = rewrites + 1
  /\ memory' = content
  /\ buffered' = <<>>
  /\ timer' = FALSE
  /\ chain' = Append(chain, Rewrite(content))
  /\ promised' = promised \cap ToSet(content)
  /\ UNCHANGED <<error, shut, file, replaced, flush, running, faults, snapshot,
                 flushesOverlap>>

RewriteHeader == DoRewrite(memory) /\ UNCHANGED accepted
Clear         == DoRewrite(<<>>) /\ UNCHANGED accepted

(* replaceMessages: compaction keeps a tail behind one new summary line.   *)
ReplaceMessages ==
  /\ accepted < MaxLine /\ memory # <<>>
  /\ DoRewrite(<<accepted + 1>> \o Tail(memory))
  /\ accepted' = accepted + 1

-----------------------------------------------------------------------------
(* flush() and close().                                                    *)

FlushCall(f) ==
  /\ running /\ flush[f] = "idle"
  /\ flushesOverlap' = (flushesOverlap \/ Waiting # {})
  /\ flush' = [flush EXCEPT ![f] = "waiting"]
  /\ snapshot' = [snapshot EXCEPT ![f] = memory]
  /\ timer' = FALSE
  /\ buffered' = <<>>
  /\ chain' = Append(Drained(buffered), Barrier(f))
  /\ UNCHANGED <<memory, error, shut, file, replaced, running, accepted, rewrites,
                 faults, promised>>

(* The chain has come to the flush: it takes the recorded error, if there  *)
(* is one, and rejects; close() then stops the writer either way.          *)
FlushReturns(f) ==
  /\ running /\ chain # <<>> /\ Head(chain) = Barrier(f)
  /\ chain' = Tail(chain)
  /\ flush' = [flush EXCEPT ![f] = IF error THEN "rejected" ELSE "resolved"]
  /\ promised' = IF error THEN promised
                 ELSE promised \cup (ToSet(snapshot[f]) \cap ToSet(memory))
  /\ error' = FALSE
  /\ shut' = (shut \/ f \in Closers)
  /\ timer' = (timer /\ f \notin Closers)
  /\ UNCHANGED <<memory, buffered, file, replaced, running, accepted, rewrites,
                 faults, snapshot, flushesOverlap>>

-----------------------------------------------------------------------------
(* The operation at the head of the chain ends.                            *)

Resolves(op) == running /\ chain # <<>> /\ Head(chain).op = op /\ chain' = Tail(chain)

BatchWritten ==
  /\ Resolves("batch")
  /\ file' = file \o Head(chain).lines
  /\ UNCHANGED <<memory, buffered, error, timer, shut, replaced, flush, running,
                 accepted, rewrites, faults, snapshot, promised, flushesOverlap>>

(* Renamed over the file, and the directory synced: nothing older returns. *)
RewritePublished ==
  /\ Resolves("rewrite")
  /\ file' = Head(chain).lines
  /\ replaced' = {}
  /\ UNCHANGED <<memory, buffered, error, timer, shut, flush, running, accepted,
                 rewrites, faults, snapshot, promised, flushesOverlap>>

Fault(kind) ==
  /\ Len(faults) < MaxFault
  /\ faults' = Append(faults, kind)
  /\ error' = TRUE
  /\ UNCHANGED <<memory, timer, shut, flush, running, accepted, rewrites, snapshot,
                 promised, flushesOverlap>>

(* Fault: a failed batch is not put back.                                  *)
BatchFails_Dropped ==
  /\ Resolves("batch")
  /\ UNCHANGED <<file, replaced, buffered>>
  /\ Fault(IF \E i \in 2..Len(chain) : chain[i].op # "flush" THEN "overtaken" ELSE "batch")

(* Fault: a failed batch is pushed behind what was buffered since.         *)
BatchFails_Pushed ==
  /\ Resolves("batch")
  /\ buffered' = buffered \o Head(chain).lines
  /\ UNCHANGED <<file, replaced>>
  /\ Fault(IF \E i \in 2..Len(chain) : chain[i].op # "flush" THEN "overtaken" ELSE "batch")

(* A failed batch is rolled back and put back in front of the buffer.      *)
BatchFails ==
  /\ Resolves("batch")
  /\ buffered' = Head(chain).lines \o buffered
  /\ UNCHANGED <<file, replaced>>
  /\ Fault(IF \E i \in 2..Len(chain) : chain[i].op # "flush" THEN "overtaken" ELSE "batch")

(* ... to the size stat() told before, and when stat() had failed that is 0*)
(* ("File missing"), whatever the file held.                               *)
BatchFailsEmptied ==
  /\ Resolves("batch") /\ file # <<>>
  /\ buffered' = Head(chain).lines \o buffered
  /\ file' = <<>>
  /\ UNCHANGED replaced
  /\ Fault("emptied")

(* What an append that stopped has written of its lines.                   *)
PartsOf(lines) ==
  {SubSeq(lines, 1, k) : k \in 0..Len(lines)} \cup
  {SubSeq(lines, 1, k) \o <<Torn>> : k \in 0..Len(lines) - 1}

(* ... and when the rollback fails too, part of it, or all, stays.         *)
BatchFailsDirty ==
  /\ Resolves("batch")
  /\ buffered' = Head(chain).lines \o buffered
  /\ \E part \in PartsOf(Head(chain).lines) : part # <<>> /\ file' = file \o part
  /\ UNCHANGED replaced
  /\ Fault("dirty")

(* A rewrite that fails before its rename is gone: nothing is re-buffered. *)
RewriteFails ==
  /\ Resolves("rewrite")
  /\ UNCHANGED <<file, replaced, buffered>>
  /\ Fault("rewrite")

(* The rename happened, the sync of the directory failed: until a rewrite  *)
(* syncs it, the file before may be the one a crash leaves.                *)
RewriteFailsLate ==
  /\ Resolves("rewrite")
  /\ file' = Head(chain).lines
  /\ replaced' = replaced \cup {file}
  /\ UNCHANGED buffered
  /\ Fault("late")

(* The process stops, and what it held is gone; the operation in progress  *)
(* may be half done, a rename that was not synced undone.                  *)
WriterCrash ==
  /\ running /\ running' = FALSE
  /\ \/ file' \in {file} \cup replaced
     \/ /\ chain # <<>> /\ Head(chain).op = "batch"
        /\ \E part \in PartsOf(Head(chain).lines) : file' = file \o part
     \/ /\ chain # <<>> /\ Head(chain).op = "rewrite"
        /\ file' = Head(chain).lines
  /\ buffered' = <<>> /\ chain' = <<>> /\ error' = FALSE /\ timer' = FALSE
  /\ UNCHANGED <<memory, shut, replaced, flush, accepted, rewrites, faults,
                 snapshot, promised, flushesOverlap>>

Writer ==
  \/ TimerFires \/ BatchWritten \/ RewritePublished
  \/ BatchFails \/ BatchFailsEmptied \/ BatchFailsDirty \/ RewriteFails \/ RewriteFailsLate
  \/ \E f \in Flush : FlushReturns(f)

WriterNext ==
  \/ AppendLine \/ RewriteHeader \/ Clear \/ ReplaceMessages
  \/ \E f \in Flush : FlushCall(f)
  \/ Writer
  \/ WriterCrash

WriterSpec == WriterInit /\ [][WriterNext]_writerVars

-----------------------------------------------------------------------------
Had(kinds) == ToSet(faults) \cap kinds # {}

(* What the file holds after the first i operations of the chain, when they*)
(* run without a fault, and after all of them.                             *)
After(s, o) == CASE o.op = "batch"   -> s \o o.lines
                 [] o.op = "rewrite" -> o.lines
                 [] o.op = "flush"   -> s
Contents(s, c) ==
  LET held[i \in 0..Len(c)] == IF i = 0 THEN s ELSE After(held[i - 1], c[i])
  IN  held
Replayed == Contents(file, chain)[Len(chain)]

(* Ordering is total and nothing is lost on the way: file, chain and buffer*)
(* together are the transcript, as long as no batch failed with another    *)
(* operation queued behind it and no fault took lines with it.             *)
Lossless ==
  running /\ ~Had({"overtaken"} \cup Losing) => Replayed \o buffered = memory

(* A resolved flush keeps its promise, over later failures, rewrites and a *)
(* crash: what it covered and the transcript still holds is on disk.  Not  *)
(* when flushes overlapped, when a failed stat() emptied the file, when a  *)
(* rollback or a rewrite failed, nor over a crash while the directory of   *)
(* the last rename is not synced.                                          *)
FlushMeansDurable == promised \subseteq ToSet(file)
PromisesKept ==
  ~flushesOverlap /\ ~Had(Losing) /\ (running \/ replaced = {}) => FlushMeansDurable

(* Every line of the transcript is on disk or on its way there ("dropped,  *)
(* not lost", durable-writer.ts:178), also when a batch failed with others *)
(* queued behind it: true until a fault takes lines with it, as a failed   *)
(* rewrite does with the buffer it absorbed.                               *)
InFlight ==
  ToSet(buffered) \cup
  UNION {ToSet(chain[i].lines) : i \in {j \in DOMAIN chain : chain[j].op # "flush"}}
NoLineVanishes == ToSet(memory) \subseteq ToSet(file) \cup InFlight
KeptUnlessTaken == running /\ ~Had(Losing) => NoLineVanishes

(* The file never shows two lines of the transcript in another order       *)
(* ("Ordering is total", durable-writer.ts:28), nor a line twice.          *)
Before(s, x, y) == \E i, j \in DOMAIN s : i < j /\ s[i] = x /\ s[j] = y
Ordered == \A x, y \in ToSet(memory) : Before(file, x, y) => ~Before(memory, y, x)
NoDuplicate == \A i, j \in DOMAIN file : file[i] = file[j] => i = j

(* ... which holds until a batch fails with an operation queued behind it, *)
(* or is rolled back to nothing or not at all.                             *)
OrderedUnlessOvertaken == ~Had({"overtaken", "emptied", "dirty"}) => Ordered /\ NoDuplicate
DuplicateFree == ~Had({"dirty"}) => NoDuplicate

(* A torn line is only ever the last one, which the reader can repair      *)
(* ("the reader also repairs torn tails", durable-writer.ts:288).          *)
TornIsTail == \A i \in DOMAIN file : file[i] = Torn => i = Len(file)

(* No line is left in the buffer with nothing to take it out: unless an    *)
(* operation failed, a buffered line has a running timer, over whatever    *)
(* flushes, rewrites and thresholds came between.                          *)
BufferIsTimed == running /\ ~shut /\ faults = <<>> /\ buffered # <<>> => timer
=============================================================================
