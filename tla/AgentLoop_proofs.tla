-------------------------- MODULE AgentLoop_proofs --------------------------
(***************************************************************************)
(* The agent's transcript, for any ids, batches, prompts and crashes: what *)
(* was sent to a model and what was done by a registered tool is on disk   *)
(* (but for context, and for calls that another call's failed flush hid),  *)
(* a result stands behind its call, every call of a request has exactly    *)
(* one result, and no result lies about its tool.                          *)
(***************************************************************************)
EXTENDS AgentLoop, SequenceTheorems, FiniteSetTheorems, TLAPS

(* Entries are records of several shapes: all that matters of a transcript *)
(* here is that it is a sequence.                                          *)
IsSeq(s) == \E S : s \in Seq(S)

(* a sequence has its length and its domain *)
LEMMA SeqFacts ==
  ASSUME NEW s, IsSeq(s)
  PROVE  Len(s) \in Nat /\ DOMAIN s = 1 .. Len(s)
BY LenProperties DEF IsSeq

(* concatenation keeps the first sequence and goes on with the second *)
LEMMA Concat ==
  ASSUME NEW s, NEW t, IsSeq(s), IsSeq(t)
  PROVE  /\ IsSeq(s \o t)
         /\ Len(s \o t) = Len(s) + Len(t)
         /\ \A k \in 1 .. Len(s) : (s \o t)[k] = s[k]
         /\ \A k \in 1 .. Len(t) : (s \o t)[Len(s) + k] = t[k]
<1>1. PICK S : s \in Seq(S)
  BY DEF IsSeq
<1>2. PICK T : t \in Seq(T)
  BY DEF IsSeq
<1>3. s \in Seq(S \cup T) /\ t \in Seq(S \cup T)
  <2>1. s \in Seq(S \cup T)
    BY <1>1, SeqMonotonic
  <2>2. t \in Seq(S \cup T)
    BY <1>2, SeqMonotonic
  <2> QED
    BY <2>1, <2>2
<1>4. /\ s \o t \in Seq(S \cup T)
      /\ Len(s \o t) = Len(s) + Len(t)
      /\ \A i \in 1 .. Len(s) + Len(t) :
           (s \o t)[i] = IF i <= Len(s) THEN s[i] ELSE t[i - Len(s)]
  BY <1>3, ConcatProperties
<1>5. Len(s) \in Nat /\ Len(t) \in Nat
  BY SeqFacts
<1> QED
  BY <1>4, <1>5 DEF IsSeq

(* a tuple is a sequence *)
LEMMA Tuples ==
  ASSUME NEW a, NEW b
  PROVE  /\ IsSeq(<<>>) /\ Len(<<>>) = 0
         /\ IsSeq(<<a>>) /\ Len(<<a>>) = 1 /\ <<a>>[1] = a
         /\ IsSeq(<<a, b>>) /\ Len(<<a, b>>) = 2 /\ <<a, b>>[1] = a /\ <<a, b>>[2] = b
<1>1. <<>> \in Seq({a}) /\ <<a>> \in Seq({a}) /\ <<a, b>> \in Seq({a, b})
  OBVIOUS
<1> QED
  BY <1>1 DEF IsSeq

(* an appended entry is a sequence of one *)
LEMMA Appended ==
  ASSUME NEW s, NEW e, IsSeq(s)
  PROVE  Append(s, e) = s \o <<e>>
<1>1. PICK S : s \in Seq(S)
  BY DEF IsSeq
<1>2. s \in Seq(S \cup {e}) /\ e \in S \cup {e}
  BY <1>1, SeqMonotonic
<1> QED
  BY <1>2, AppendProperties

(* a sequence with one entry exchanged *)
LEMMA Exchange ==
  ASSUME NEW s, IsSeq(s), NEW i \in DOMAIN s, NEW e
  PROVE  IsSeq([s EXCEPT ![i] = e]) /\ DOMAIN [s EXCEPT ![i] = e] = DOMAIN s
<1>1. PICK S : s \in Seq(S)
  BY DEF IsSeq
<1>2. s \in Seq(S \cup {e}) /\ e \in S \cup {e}
  BY <1>1, SeqMonotonic
<1>3. i \in 1 .. Len(s)
  BY <1>1, LenProperties
<1>4. [s EXCEPT ![i] = e] \in Seq(S \cup {e})
  BY <1>2, <1>3, ExceptSeq
<1> QED
  BY <1>4 DEF IsSeq

(* a prefix keeps its entries *)
LEMMA Prefix ==
  ASSUME NEW s, IsSeq(s), NEW d \in 0 .. Len(s)
  PROVE  /\ IsSeq(SubSeq(s, 1, d)) /\ Len(SubSeq(s, 1, d)) = d
         /\ \A k \in 1 .. d : SubSeq(s, 1, d)[k] = s[k]
<1>1. PICK S : s \in Seq(S)
  BY DEF IsSeq
<1>2. Len(s) \in Nat /\ d \in Int /\ 1 \in Int /\ \A k \in 1 .. d : s[k] \in S
  BY <1>1, LenProperties, ElementOfSeq
<1>3. /\ SubSeq(s, 1, d) \in Seq(S)
      /\ Len(SubSeq(s, 1, d)) = IF 1 <= d THEN d - 1 + 1 ELSE 0
      /\ \A i \in 1 .. d - 1 + 1 : SubSeq(s, 1, d)[i] = s[1 + i - 1]
  BY <1>2, SubSeqProperties
<1> QED
  BY <1>2, <1>3 DEF IsSeq

-----------------------------------------------------------------------------
(* While a batch runs, its response is in the transcript, and the last     *)
(* entry is that response or a result.                                     *)
BatchOnRecord ==
    pc = "batch" =>
      /\ \A i \in DOMAIN batch : \E k \in 1 .. Len(memory) :
            memory[k].is = "calls" /\ memory[k].n = replies /\ i \in DOMAIN memory[k].ids
      /\ Len(memory) > 0 /\ memory[Len(memory)].is \in {"calls", "answer"}

(* RequestsOnRecord, entry by entry. *)
SentOnDisk == Len(Kept(sent)) <= disk /\ \A k \in 1 .. Len(Kept(sent)) : Kept(sent)[k] = memory[k]

(* The inductive invariant: what was done and what was sent is on disk,    *)
(* the calls of the batch can be put there, and the transcript is in order.*)
RecordInv ==
    /\ IsSeq(memory) /\ IsSeq(Kept(sent)) /\ IsSeq(batch)
    /\ disk \in 0 .. Len(memory) /\ replies \in Nat /\ queued \in Nat
    /\ EffectsOnRecord /\ SentOnDisk /\ BatchOnRecord /\ AnswersAdjacent

(* the request begins with the transcript, whatever context comes behind it *)
LEMMA KeptIsPrefix ==
  ASSUME NEW m, IsSeq(m), NEW s, s = m \/ s = Append(m, Context)
  PROVE  /\ IsSeq(Kept(s)) /\ Len(Kept(s)) <= Len(m)
         /\ \A k \in 1 .. Len(Kept(s)) : Kept(s)[k] = m[k]
<1>1. Len(m) \in Nat
  BY SeqFacts
<1>2. ASSUME NEW n \in 0 .. Len(m), Kept(s) = SubSeq(m, 1, n)
      PROVE  /\ IsSeq(Kept(s)) /\ Len(Kept(s)) <= Len(m)
             /\ \A k \in 1 .. Len(Kept(s)) : Kept(s)[k] = m[k]
  BY <1>1, <1>2, Prefix
<1>3. CASE s = m
  <2>1. CASE Kept(s) = s
    BY <1>1, <1>3, <2>1
  <2>2. CASE Kept(s) # s
    <3>1. s # <<>> /\ Kept(s) = SubSeq(m, 1, Len(m) - 1)
      BY <1>3, <2>2 DEF Kept, Front
    <3>2. Len(m) # 0
      <4>1. PICK S : m \in Seq(S)
        BY DEF IsSeq
      <4> QED
        BY <1>3, <3>1, <4>1, EmptySeq
    <3>3. Len(m) - 1 \in 0 .. Len(m)
      BY <1>1, <3>2
    <3> QED
      BY <1>2, <3>1, <3>3
  <2> QED
    BY <2>1, <2>2
<1>4. CASE s = Append(m, Context)
  <2>1. s = m \o <<Context>>
    BY <1>4, Appended
  <2>2. IsSeq(<<Context>>) /\ Len(<<Context>>) = 1 /\ <<Context>>[1] = Context
    BY Tuples
  <2>3. /\ IsSeq(s) /\ Len(s) = Len(m) + 1 /\ s[Len(m) + 1] = Context
        /\ \A k \in 1 .. Len(m) : s[k] = m[k]
    BY <2>1, <2>2, Concat
  <2>4. s # <<>>
    <3>1. Len(<<>>) = 0
      BY Tuples
    <3> QED
      BY <1>1, <2>3, <3>1
  <2>5. Last(s) = Context
    BY <1>1, <2>3 DEF Last
  <2>6. Front(s) = SubSeq(s, 1, Len(m))
    BY <1>1, <2>3 DEF Front
  <2>7. Kept(s) = SubSeq(s, 1, Len(m))
    BY <2>4, <2>5, <2>6 DEF Kept
  <2>8. Len(m) \in 0 .. Len(s)
    BY <1>1, <2>3
  <2> QED
    BY <1>1, <2>3, <2>7, <2>8, Prefix
<1> QED
  BY <1>3, <1>4

(* nothing is sent before the first request *)
LEMMA KeptOfNone == Kept(<<>>) = <<>>
BY DEF Kept

(* what a flush takes out of blind is on disk with it *)
LEMMA FlushedIsRecorded ==
  ASSUME Flushed, DOMAIN memory' = 1 .. Len(memory'), NEW c \in blind, c \notin blind'
  PROVE  \E k \in 1 .. disk' :
           memory'[k].is = "calls" /\ memory'[k].n = c[1] /\ c[2] \in DOMAIN memory'[k].ids
<1>1. disk' = Len(memory') /\ OnRecord(memory', c)
  BY DEF Flushed
<1> QED
  BY <1>1 DEF OnRecord

(* What a transcript that only grows keeps, when nothing is sent or run:   *)
(* new entries are results behind a call or a result, or no results.       *)
LEMMA Grows ==
  ASSUME RecordInv, NEW x, IsSeq(x), memory' = memory \o x,
         disk' \in disk .. Len(memory'), UNCHANGED <<sent, ran>>,
         UNCHANGED blind \/ Flushed,
         \A k \in 1 .. Len(x) : x[k].is = "answer" /\ x[k].how # "unknown" =>
            pc = "batch" /\ \A h \in 1 .. k : x[h].is = "answer"
  PROVE  /\ IsSeq(memory') /\ IsSeq(Kept(sent')) /\ disk' \in 0 .. Len(memory')
         /\ EffectsOnRecord' /\ SentOnDisk' /\ AnswersAdjacent'
         /\ Len(memory') = Len(memory) + Len(x)
         /\ \A k \in 1 .. Len(memory) : memory'[k] = memory[k]
<1> USE DEF RecordInv
<1>1. /\ IsSeq(memory') /\ Len(memory') = Len(memory) + Len(x)
      /\ \A k \in 1 .. Len(memory) : memory'[k] = memory[k]
      /\ \A k \in 1 .. Len(x) : memory'[Len(memory) + k] = x[k]
  BY Concat
<1>2. /\ Len(memory) \in Nat /\ Len(x) \in Nat /\ Len(Kept(sent)) \in Nat
      /\ DOMAIN memory = 1 .. Len(memory) /\ DOMAIN memory' = 1 .. Len(memory')
  BY <1>1, SeqFacts
<1>3. IsSeq(Kept(sent')) /\ disk' \in 0 .. Len(memory')
  BY <1>2
<1>4. EffectsOnRecord'
  <2> SUFFICES ASSUME NEW c \in ran, c \notin blind'
               PROVE  \E k \in 1 .. disk' :
                        memory'[k].is = "calls" /\ memory'[k].n = c[1] /\ c[2] \in DOMAIN memory'[k].ids
    BY DEF EffectsOnRecord
  <2>1. CASE c \in blind
    <3>1. Flushed
      BY <2>1
    <3> QED
      BY <1>2, <2>1, <3>1, FlushedIsRecorded
  <2>2. CASE c \notin blind
    <3>1. PICK k \in 1 .. disk :
            memory[k].is = "calls" /\ memory[k].n = c[1] /\ c[2] \in DOMAIN memory[k].ids
      BY <2>2 DEF EffectsOnRecord
    <3>2. k \in 1 .. disk' /\ memory'[k] = memory[k]
      BY <1>1, <1>2, <3>1
    <3> QED
      BY <3>1, <3>2
  <2> QED
    BY <2>1, <2>2
<1>5. SentOnDisk'
  BY <1>1, <1>2 DEF SentOnDisk
<1>6. AnswersAdjacent'
  <2> SUFFICES ASSUME NEW k \in 1 .. Len(memory'),
                      memory'[k].is = "answer", memory'[k].how # "unknown"
               PROVE  k > 1 /\ memory'[k - 1].is \in {"calls", "answer"}
    BY <1>2 DEF AnswersAdjacent
  <2>1. CASE k <= Len(memory)
    <3>0. k \in DOMAIN memory /\ memory'[k] = memory[k]
      BY <1>1, <1>2, <2>1
    <3>1. k > 1 /\ memory[k - 1].is \in {"calls", "answer"}
      BY <3>0 DEF AnswersAdjacent
    <3>2. k - 1 \in 1 .. Len(memory)
      BY <1>2, <2>1, <3>1
    <3> QED
      BY <1>1, <3>1, <3>2
  <2>2. CASE k > Len(memory)
    <3> DEFINE j == k - Len(memory)
    <3>1. j \in 1 .. Len(x) /\ memory'[k] = x[j] /\ k = Len(memory) + j
      BY <1>1, <1>2, <2>2
    <3>2. pc = "batch" /\ \A h \in 1 .. j : x[h].is = "answer"
      BY <3>1
    <3>3. Len(memory) > 0 /\ memory[Len(memory)].is \in {"calls", "answer"}
      BY <3>2 DEF BatchOnRecord
    <3>4. CASE j = 1
      BY <1>1, <1>2, <3>1, <3>3, <3>4
    <3>5. CASE j > 1
      <4>1. j - 1 \in 1 .. j /\ j - 1 \in 1 .. Len(x) /\ k - 1 = Len(memory) + (j - 1)
        BY <1>2, <3>1, <3>5
      <4>2. memory'[Len(memory) + (j - 1)] = x[j - 1] /\ x[j - 1].is = "answer"
        BY <1>1, <3>2, <4>1
      <4> QED
        BY <1>2, <3>1, <4>1, <4>2
    <3> QED
      BY <3>1, <3>4, <3>5
  <2> QED
    BY <1>2, <2>1, <2>2
<1> QED
  BY <1>1, <1>3, <1>4, <1>5, <1>6

(* a step outside the batch that adds entries which are no results *)
LEMMA Notes ==
  ASSUME RecordInv, NEW x, IsSeq(x), memory' = memory \o x,
         \A k \in 1 .. Len(x) : x[k].is # "answer",
         pc' # "batch", IsSeq(batch'), queued' \in Nat,
         UNCHANGED <<disk, sent, ran, blind, replies>>
  PROVE  RecordInv'
<1>1. disk' \in disk .. Len(memory')
  <2>1. Len(memory') = Len(memory) + Len(x) /\ Len(memory) \in Nat /\ Len(x) \in Nat
    BY Concat, SeqFacts DEF RecordInv
  <2> QED
    BY <2>1 DEF RecordInv
<1>2. BatchOnRecord'
  BY DEF BatchOnRecord
<1> QED
  BY <1>1, <1>2, Grows DEF RecordInv

(* one entry that is no result *)
LEMMA Note ==
  ASSUME RecordInv, NEW e \in {User, Said}, memory' = Append(memory, e),
         pc' # "batch", IsSeq(batch'), queued' \in Nat,
         UNCHANGED <<disk, sent, ran, blind, replies>>
  PROVE  RecordInv'
<1>1. memory' = memory \o <<e>>
  BY Appended DEF RecordInv
<1>2. IsSeq(<<e>>) /\ Len(<<e>>) = 1 /\ <<e>>[1] = e
  BY Tuples
<1>3. \A k \in 1 .. Len(<<e>>) : <<e>>[k].is # "answer"
  BY <1>2 DEF User, Said
<1> QED
  BY <1>1, <1>2, <1>3, Notes

(* a step that leaves the transcript, what was sent and what ran alone, and *)
(* starts no batch                                                          *)
LEMMA Silent ==
  ASSUME RecordInv, UNCHANGED <<memory, disk, sent, ran, blind, replies>>,
         IsSeq(batch'), queued' \in Nat,
         pc' # "batch" \/ (pc = "batch" /\ DOMAIN batch' = DOMAIN batch)
  PROVE  RecordInv'
<1>1. EffectsOnRecord' /\ SentOnDisk' /\ AnswersAdjacent'
  BY DEF RecordInv, EffectsOnRecord, SentOnDisk, AnswersAdjacent
<1>2. BatchOnRecord'
  BY DEF RecordInv, BatchOnRecord
<1> QED
  BY <1>1, <1>2 DEF RecordInv

(* the notices are a sequence of user messages *)
LEMMA NoticesAreNotes ==
  ASSUME NEW n \in Nat
  PROVE  IsSeq(Notices(n)) /\ Len(Notices(n)) = n /\ \A k \in 1 .. n : Notices(n)[k].is # "answer"
<1>1. Notices(n) \in [1 .. n -> {User}]
  BY DEF Notices
<1>2. Notices(n) \in Seq({User})
  BY <1>1, SeqDef
<1>3. Len(Notices(n)) = n
  BY <1>1, <1>2, LenProperties
<1> QED
  BY <1>1, <1>2, <1>3 DEF IsSeq, User

(* notices behind a hint or before a message are notes too *)
LEMMA MixedNotes ==
  ASSUME NEW s, NEW t, IsSeq(s), IsSeq(t),
         \A k \in 1 .. Len(s) : s[k].is # "answer", \A k \in 1 .. Len(t) : t[k].is # "answer"
  PROVE  IsSeq(s \o t) /\ \A k \in 1 .. Len(s \o t) : (s \o t)[k].is # "answer"
<1>1. Len(s) \in Nat /\ Len(t) \in Nat
  BY SeqFacts
<1>2. IsSeq(s \o t) /\ Len(s \o t) = Len(s) + Len(t)
  BY Concat
<1>3. ASSUME NEW k \in 1 .. Len(s \o t) PROVE (s \o t)[k].is # "answer"
  <2>1. CASE k <= Len(s)
    BY <1>1, <1>2, <2>1, Concat
  <2>2. CASE k > Len(s)
    <3>1. k - Len(s) \in 1 .. Len(t) /\ k = Len(s) + (k - Len(s))
      BY <1>1, <1>2, <2>2
    <3>2. (s \o t)[Len(s) + (k - Len(s))] = t[k - Len(s)]
      BY <3>1, Concat
    <3> QED
      BY <3>1, <3>2
  <2> QED
    BY <1>1, <1>2, <2>1, <2>2
<1> QED
  BY <1>2, <1>3

(* concatenation is associative on sequences of any entries *)
LEMMA Reassociate ==
  ASSUME NEW s, NEW t, NEW u, IsSeq(s), IsSeq(t), IsSeq(u)
  PROVE  (s \o t) \o u = s \o (t \o u)
<1>1. PICK S : s \in Seq(S)
  BY DEF IsSeq
<1>2. PICK T : t \in Seq(T)
  BY DEF IsSeq
<1>3. PICK U : u \in Seq(U)
  BY DEF IsSeq
<1> DEFINE V == S \cup T \cup U
<1>4. s \in Seq(V) /\ t \in Seq(V) /\ u \in Seq(V)
  <2>1. s \in Seq(V)
    BY <1>1, SeqMonotonic
  <2>2. t \in Seq(V)
    BY <1>2, SeqMonotonic
  <2>3. u \in Seq(V)
    BY <1>3, SeqMonotonic
  <2> QED
    BY <2>1, <2>2, <2>3
<1> HIDE DEF V
<1> QED
  BY <1>4, ConcatAssociative

-----------------------------------------------------------------------------
(* One lemma per action that adds to the transcript or to what was done.   *)

(* Run adds the notices and the prompt, or a veto *)
LEMMA RunKeeps == ASSUME RecordInv, Run PROVE RecordInv'
<1>1. PICK e \in {User, Said} : memory' = memory \o Notices(queued) \o <<e>>
  BY DEF Run
<1>2. /\ IsSeq(Notices(queued)) /\ IsSeq(<<e>>) /\ Len(<<e>>) = 1 /\ <<e>>[1] = e
      /\ Len(Notices(queued)) = queued
      /\ \A k \in 1 .. queued : Notices(queued)[k].is # "answer"
  BY NoticesAreNotes, Tuples DEF RecordInv
<1>3. e.is # "answer"
  BY DEF User, Said
<1> DEFINE x == Notices(queued) \o <<e>>
<1>4. IsSeq(x) /\ \A k \in 1 .. Len(x) : x[k].is # "answer"
  BY <1>2, <1>3, MixedNotes
<1>5. memory' = memory \o x
  BY <1>1, <1>2, Reassociate DEF RecordInv
<1>6. pc' # "batch" /\ queued' \in Nat /\ UNCHANGED <<disk, sent, ran, blind, replies, batch>>
  BY DEF Run
<1> HIDE DEF x
<1>7. IsSeq(batch')
  BY <1>6 DEF RecordInv
<1> QED
  BY <1>4, <1>5, <1>6, <1>7, Notes

(* NextRound adds a hint near the budget, and the notices *)
LEMMA NextRoundKeeps == ASSUME RecordInv, NextRound PROVE RecordInv'
<1> DEFINE near == IF round' = MaxIterations - 1 \/ MaxIterations = 1 THEN <<User>> ELSE <<>>
           x == near \o Notices(queued)
<1>1. memory' = memory \o near \o Notices(queued)
  BY DEF NextRound
<1>2. /\ IsSeq(Notices(queued)) /\ Len(Notices(queued)) = queued
      /\ \A k \in 1 .. queued : Notices(queued)[k].is # "answer"
  BY NoticesAreNotes DEF RecordInv
<1>3. IsSeq(near) /\ \A k \in 1 .. Len(near) : near[k].is # "answer"
  <2>1. near = <<User>> \/ near = <<>>
    OBVIOUS
  <2>2. /\ IsSeq(<<>>) /\ Len(<<>>) = 0
        /\ IsSeq(<<User>>) /\ Len(<<User>>) = 1 /\ <<User>>[1] = User
    BY Tuples
  <2>3. \A k \in 1 .. Len(<<User>>) : <<User>>[k].is # "answer"
    BY <2>2 DEF User
  <2> HIDE DEF near
  <2> QED
    BY <2>1, <2>2, <2>3
<1> HIDE DEF near
<1>4. IsSeq(x) /\ \A k \in 1 .. Len(x) : x[k].is # "answer"
  BY <1>2, <1>3, MixedNotes
<1>5. memory' = memory \o x
  <2>1. IsSeq(memory) /\ IsSeq(near) /\ IsSeq(Notices(queued))
    BY <1>2, <1>3 DEF RecordInv
  <2>2. (memory \o near) \o Notices(queued) = memory \o (near \o Notices(queued))
    BY <2>1, Reassociate
  <2> QED
    BY <1>1, <2>2
<1>6. pc' # "batch" /\ queued' \in Nat /\ UNCHANGED <<disk, sent, ran, blind, replies, batch>>
  BY DEF NextRound
<1> HIDE DEF x
<1>7. IsSeq(batch')
  BY <1>6 DEF RecordInv
<1> QED
  BY <1>4, <1>5, <1>6, <1>7, Notes

(* a flush of all of the transcript, and what it leaves unrecorded *)
LEMMA FlushKeeps ==
  ASSUME RecordInv, Flushed, UNCHANGED memory, NEW c \in ran, c \notin blind'
  PROVE  \E k \in 1 .. disk' :
           memory'[k].is = "calls" /\ memory'[k].n = c[1] /\ c[2] \in DOMAIN memory'[k].ids
<1>1. /\ Len(memory) \in Nat /\ DOMAIN memory' = 1 .. Len(memory')
      /\ disk \in 0 .. Len(memory) /\ disk' = Len(memory)
  BY SeqFacts DEF RecordInv, Flushed
<1>2. CASE c \in blind
  BY <1>1, <1>2, FlushedIsRecorded
<1>3. CASE c \notin blind
  BY <1>1, <1>3 DEF RecordInv, EffectsOnRecord
<1> QED
  BY <1>2, <1>3

(* the model is sent what the barrier has just made durable, and context *)
LEMMA RequestKeeps == ASSUME RecordInv, Request PROVE RecordInv'
<1>1. /\ UNCHANGED <<memory, batch, queued, replies, ran>> /\ Flushed /\ pc' = "model"
      /\ sent' = memory \/ sent' = Append(memory, Context)
  BY DEF Request
<1>2. IsSeq(memory) /\ Len(memory) \in Nat /\ disk' = Len(memory)
  BY <1>1, SeqFacts DEF RecordInv, Flushed
<1>3. EffectsOnRecord'
  <2> SUFFICES ASSUME NEW c \in ran, c \notin blind'
               PROVE  \E k \in 1 .. disk' :
                        memory'[k].is = "calls" /\ memory'[k].n = c[1] /\ c[2] \in DOMAIN memory'[k].ids
    BY <1>1 DEF EffectsOnRecord
  <2> QED
    BY <1>1, FlushKeeps
<1>4. IsSeq(Kept(sent')) /\ SentOnDisk'
  <2>1. /\ IsSeq(Kept(sent')) /\ Len(Kept(sent')) <= Len(memory)
        /\ \A k \in 1 .. Len(Kept(sent')) : Kept(sent')[k] = memory[k]
    BY <1>1, <1>2, KeptIsPrefix
  <2> QED
    BY <1>1, <1>2, <2>1 DEF SentOnDisk
<1>5. BatchOnRecord' /\ AnswersAdjacent'
  BY <1>1 DEF RecordInv, BatchOnRecord, AnswersAdjacent
<1> QED
  BY <1>1, <1>2, <1>3, <1>4, <1>5 DEF RecordInv

(* an empty response adds a hint or a fallback *)
LEMMA EmptyReplyKeeps == ASSUME RecordInv, EmptyReply PROVE RecordInv'
<1>1. pc' # "batch" /\ queued' \in Nat /\ UNCHANGED <<disk, sent, ran, blind, replies, batch>>
  BY DEF EmptyReply, Return, RecordInv
<1>2. IsSeq(batch')
  BY <1>1 DEF RecordInv
<1>3. CASE memory' = Append(memory, User)
  BY <1>1, <1>2, <1>3, Note
<1>4. ASSUME NEW e \in {User, Said}, memory' = memory \o <<Said, e>> PROVE RecordInv'
  <2>1. IsSeq(<<Said, e>>) /\ Len(<<Said, e>>) = 2 /\ <<Said, e>>[1] = Said /\ <<Said, e>>[2] = e
    BY Tuples
  <2>2. \A k \in 1 .. Len(<<Said, e>>) : <<Said, e>>[k].is # "answer"
    BY <2>1 DEF Said, User
  <2> QED
    BY <1>1, <1>2, <1>4, <2>1, <2>2, Notes
<1> QED
  BY <1>3, <1>4 DEF EmptyReply

(* the calls of a response enter the transcript before any of them starts *)
LEMMA ToolReplyKeeps ==
  ASSUME RecordInv, NEW ids \in Ids, NEW parallel \in BOOLEAN, ToolReply(ids, parallel)
  PROVE  RecordInv'
<1> DEFINE e == Calls(replies', ids)
<1>1. memory' = memory \o <<e>> /\ replies' = replies + 1 /\ UNCHANGED <<disk, sent, ran, blind, queued>>
  BY Appended DEF ToolReply, RecordInv
<1>2. e.is = "calls" /\ e.n = replies' /\ e.ids = ids
  BY DEF Calls
<1> HIDE DEF e
<1>3. IsSeq(<<e>>) /\ Len(<<e>>) = 1 /\ <<e>>[1] = e
  BY Tuples
<1>4. Len(memory) \in Nat /\ Len(memory \o <<e>>) = Len(memory) + 1
  BY <1>3, SeqFacts, Concat DEF RecordInv
<1>5. disk' \in disk .. Len(memory')
  BY <1>1, <1>4 DEF RecordInv
<1>6. \A k \in 1 .. Len(<<e>>) : <<e>>[k].is # "answer"
  BY <1>2, <1>3
<1>7. /\ IsSeq(memory') /\ IsSeq(Kept(sent')) /\ disk' \in 0 .. Len(memory')
      /\ EffectsOnRecord' /\ SentOnDisk' /\ AnswersAdjacent'
  BY <1>1, <1>3, <1>5, <1>6, Grows
<1>8. memory'[Len(memory')] = e /\ Len(memory') > 0
  BY <1>1, <1>3, <1>4, Concat DEF RecordInv
<1>9. DOMAIN batch' = DOMAIN ids /\ IsSeq(batch')
  <2> DEFINE new == [stage |-> "queued", how |-> "refused"]
  <2>1. PICK m \in Nat : DOMAIN ids = 1 .. m
    BY AgentAssumption DEF Ids, SeqOf
  <2>2. batch' = [i \in 1 .. m |-> new]
    BY <2>1 DEF ToolReply
  <2> HIDE DEF new
  <2>3. batch' \in [1 .. m -> {new}]
    BY <2>2
  <2>4. batch' \in Seq({new})
    BY <2>3, SeqDef
  <2> QED
    BY <2>1, <2>3, <2>4 DEF IsSeq
<1>10. BatchOnRecord'
  <2>1. Len(memory') \in 1 .. Len(memory')
    BY <1>1, <1>4
  <2> QED
    BY <1>2, <1>8, <1>9, <2>1 DEF BatchOnRecord
<1> QED
  BY <1>1, <1>7, <1>9, <1>10 DEF RecordInv

(* A result goes behind the call, or behind another result, at once in a   *)
(* serial batch; of a parallel one the slot is filled.                     *)
LEMMA SettleKeeps ==
  ASSUME RecordInv, pc = "batch", NEW i \in DOMAIN batch, NEW how, Settle(i, how),
         UNCHANGED <<disk, ran, blind>>, CallKeeps
  PROVE  RecordInv'
<1>1. DOMAIN batch' = DOMAIN batch /\ IsSeq(batch')
  <2>1. batch' = [batch EXCEPT ![i] = [stage |-> "done", how |-> how]]
    BY DEF Settle
  <2> QED
    BY <2>1, Exchange DEF RecordInv
<1>2. UNCHANGED <<disk, ran, blind, sent, replies, queued, pc, fanOut>>
  BY DEF CallKeeps
<1>3. CASE fanOut
  <2>1. UNCHANGED memory
    BY <1>3 DEF Settle
  <2> QED
    BY <1>1, <1>2, <2>1, Silent DEF RecordInv
<1>4. CASE ~fanOut
  <2> DEFINE e == Answer(LastIds[i], how)
  <2>1. memory' = memory \o <<e>>
    BY <1>4, Appended DEF Settle, RecordInv
  <2>2. e.is = "answer"
    BY DEF Answer
  <2> HIDE DEF e
  <2>3. IsSeq(<<e>>) /\ Len(<<e>>) = 1 /\ <<e>>[1] = e
    BY Tuples
  <2>4. /\ Len(memory) \in Nat /\ Len(memory') = Len(memory) + 1 /\ memory'[Len(memory')] = e
        /\ \A k \in 1 .. Len(memory) : memory'[k] = memory[k]
    BY <2>1, <2>3, SeqFacts, Concat DEF RecordInv
  <2>5. disk' \in disk .. Len(memory')
    BY <1>2, <2>4 DEF RecordInv
  <2>6. \A k \in 1 .. Len(<<e>>) : \A h \in 1 .. k : <<e>>[h].is = "answer"
    BY <2>2, <2>3
  <2>7. /\ IsSeq(memory') /\ IsSeq(Kept(sent')) /\ disk' \in 0 .. Len(memory')
        /\ EffectsOnRecord' /\ SentOnDisk' /\ AnswersAdjacent'
    BY <1>2, <2>1, <2>3, <2>5, <2>6, Grows
  <2>8. BatchOnRecord'
    <3>1. ASSUME NEW h \in DOMAIN batch'
          PROVE  \E k \in 1 .. Len(memory') :
                   memory'[k].is = "calls" /\ memory'[k].n = replies' /\ h \in DOMAIN memory'[k].ids
      <4>1. PICK k \in 1 .. Len(memory) :
              memory[k].is = "calls" /\ memory[k].n = replies /\ h \in DOMAIN memory[k].ids
        BY <1>1 DEF RecordInv, BatchOnRecord
      <4>2. k \in 1 .. Len(memory') /\ memory'[k] = memory[k]
        BY <2>4
      <4> QED
        BY <1>2, <4>1, <4>2
    <3> QED
      BY <2>2, <2>4, <3>1 DEF BatchOnRecord
  <2> QED
    BY <1>1, <1>2, <2>7, <2>8 DEF RecordInv
<1> QED
  BY <1>3, <1>4

(* a step of a call that only moves it on *)
LEMMA MovesKeep ==
  ASSUME RecordInv, pc = "batch", NEW i \in DOMAIN batch, NEW where,
         batch' = [batch EXCEPT ![i].stage = where],
         UNCHANGED <<memory, disk, ran, blind>>, CallKeeps
  PROVE  RecordInv'
<1> DEFINE e == [batch[i] EXCEPT !.stage = where]
<1>1. batch' = [batch EXCEPT ![i] = e]
  OBVIOUS
<1> HIDE DEF e
<1>2. IsSeq(batch)
  BY DEF RecordInv
<1>3. IsSeq([batch EXCEPT ![i] = e]) /\ DOMAIN [batch EXCEPT ![i] = e] = DOMAIN batch
  BY <1>2, Exchange
<1>4. DOMAIN batch' = DOMAIN batch /\ IsSeq(batch')
  BY <1>1, <1>3
<1> QED
  BY <1>4, Silent DEF CallKeeps, RecordInv

(* the gate, for the calls that are registered tools *)
LEMMA GateKeeps ==
  ASSUME RecordInv, ~McpRouted, NEW i \in DOMAIN batch,
         \/ StartCall(i) \/ Gate(i) \/ Asked(i) \/ CallRefused(i) \/ FlushFails(i)
         \/ BodyEnds(i)
  PROVE  RecordInv'
<1>1. pc = "batch" /\ CallKeeps
  BY DEF StartCall, Gate, Asked, CallRefused, FlushFails, BodyEnds, AtCall
<1>2. UNCHANGED <<disk, ran, blind>>
  BY DEF StartCall, Gate, Asked, CallRefused, FlushFails, BodyEnds, Dispatch
<1>3. \/ \E how : Settle(i, how)
      \/ UNCHANGED memory /\ \E where : batch' = [batch EXCEPT ![i].stage = where]
  BY DEF StartCall, Gate, Asked, CallRefused, FlushFails, BodyEnds, Dispatch
<1> QED
  BY <1>1, <1>2, <1>3, SettleKeeps, MovesKeep

(* the barrier puts the call on disk in the step before its body starts *)
LEMMA CallBarrierKeeps ==
  ASSUME RecordInv, NEW i \in DOMAIN batch, CallBarrier(i)
  PROVE  RecordInv'
<1>1. pc = "batch" /\ UNCHANGED <<memory, pc, sent, replies, queued>> /\ Flushed
  BY DEF CallBarrier, CallKeeps, AtCall
<1>2. disk' = Len(memory) /\ Len(memory) \in Nat /\ disk \in 0 .. Len(memory)
  BY <1>1, SeqFacts DEF Flushed, RecordInv
<1>3. ran' = ran \cup {<<replies, i>>}
  BY DEF CallBarrier
<1>4. EffectsOnRecord'
  <2> SUFFICES ASSUME NEW c \in ran', c \notin blind'
               PROVE  \E k \in 1 .. disk' :
                        memory'[k].is = "calls" /\ memory'[k].n = c[1] /\ c[2] \in DOMAIN memory'[k].ids
    BY DEF EffectsOnRecord
  <2>1. CASE c \in ran
    BY <1>1, <2>1, FlushKeeps
  <2>2. CASE c = <<replies, i>>
    BY <1>1, <1>2, <2>2 DEF RecordInv, BatchOnRecord
  <2> QED
    BY <1>3, <2>1, <2>2
<1>5. SentOnDisk' /\ AnswersAdjacent'
  BY <1>1, <1>2 DEF RecordInv, SentOnDisk, AnswersAdjacent
<1>6. DOMAIN batch' = DOMAIN batch /\ IsSeq(batch')
  <2>1. batch' = [batch EXCEPT ![i] = [batch[i] EXCEPT !.stage = "body"]]
    BY DEF CallBarrier
  <2> QED
    BY <2>1, Exchange DEF RecordInv
<1>7. BatchOnRecord'
  BY <1>1, <1>6 DEF RecordInv, BatchOnRecord
<1> QED
  BY <1>1, <1>2, <1>4, <1>5, <1>6, <1>7 DEF RecordInv

(* a call let through by a flush that wrote nothing is remembered as such *)
LEMMA MaskedKeeps ==
  ASSUME RecordInv, NEW i \in DOMAIN batch, CallBarrierMasked(i)
  PROVE  RecordInv'
<1>1. /\ pc = "batch" /\ UNCHANGED <<memory, disk, pc, sent, replies, queued>>
      /\ ran' = ran \cup {<<replies, i>>} /\ blind' = blind \cup {<<replies, i>>}
      /\ batch' = [batch EXCEPT ![i] = [batch[i] EXCEPT !.stage = "body"]]
  BY DEF CallBarrierMasked, CallKeeps, AtCall
<1>2. ran' \ blind' \subseteq ran \ blind
  BY <1>1
<1>3. EffectsOnRecord' /\ SentOnDisk' /\ AnswersAdjacent'
  BY <1>1, <1>2 DEF RecordInv, EffectsOnRecord, SentOnDisk, AnswersAdjacent
<1>4. DOMAIN batch' = DOMAIN batch /\ IsSeq(batch')
  BY <1>1, Exchange DEF RecordInv
<1>5. BatchOnRecord'
  BY <1>1, <1>4 DEF RecordInv, BatchOnRecord
<1> QED
  BY <1>1, <1>3, <1>4, <1>5 DEF RecordInv

(* a parallel batch commits its results behind the response, in order, and *)
(* hints come last                                                         *)
LEMMA EndBatchKeeps == ASSUME RecordInv, EndBatch PROVE RecordInv'
<1> DEFINE answers == IF fanOut THEN [i \in DOMAIN batch |-> Answer(LastIds[i], batch[i].how)]
                      ELSE <<>>
<1>1. PICK hints \in {<<>>, <<User>>} : memory' = memory \o answers \o hints
  BY DEF EndBatch
<1>2. pc = "batch" /\ pc' # "batch" /\ batch' = <<>> /\ UNCHANGED <<disk, queued, sent, replies, ran, blind>>
  BY DEF EndBatch, Return
<1>3. IsSeq(hints) /\ Len(hints) \in 0 .. 1 /\ \A k \in 1 .. Len(hints) : hints[k].is = "user"
  <2>1. /\ IsSeq(<<>>) /\ Len(<<>>) = 0
        /\ IsSeq(<<User>>) /\ Len(<<User>>) = 1 /\ <<User>>[1] = User
    BY Tuples
  <2>2. User.is = "user"
    BY DEF User
  <2> QED
    BY <2>1, <2>2
<1>4. IsSeq(answers) /\ \A k \in 1 .. Len(answers) : answers[k].is = "answer"
  <2>1. CASE fanOut
    <3> DEFINE R == {Answer(LastIds[i], batch[i].how) : i \in DOMAIN batch}
    <3>1. Len(batch) \in Nat /\ DOMAIN batch = 1 .. Len(batch)
      BY SeqFacts DEF RecordInv
    <3>2. answers \in [1 .. Len(batch) -> R]
      BY <2>1, <3>1
    <3>3. \A e \in R : e.is = "answer"
      BY DEF Answer
    <3> HIDE DEF R, answers
    <3>4. answers \in Seq(R)
      BY <3>1, <3>2, SeqDef
    <3> QED
      BY <3>3, <3>4, ElementOfSeq DEF IsSeq
  <2>2. CASE ~fanOut
    <3>1. answers = <<>>
      BY <2>2
    <3>2. IsSeq(<<>>) /\ Len(<<>>) = 0
      BY Tuples
    <3> HIDE DEF answers
    <3> QED
      BY <3>1, <3>2
  <2> QED
    BY <2>1, <2>2
<1> DEFINE x == answers \o hints
<1> HIDE DEF answers
<1>5. memory' = memory \o x
  <2>1. IsSeq(memory) /\ IsSeq(answers) /\ IsSeq(hints)
    BY <1>3, <1>4 DEF RecordInv
  <2>2. (memory \o answers) \o hints = memory \o (answers \o hints)
    BY <2>1, Reassociate
  <2> QED
    BY <1>1, <2>2
<1>6. /\ IsSeq(x) /\ Len(x) = Len(answers) + Len(hints)
      /\ \A k \in 1 .. Len(answers) : x[k] = answers[k]
      /\ \A k \in 1 .. Len(hints) : x[Len(answers) + k] = hints[k]
      /\ Len(answers) \in Nat /\ Len(hints) \in Nat
  BY <1>3, <1>4, Concat, SeqFacts
<1> HIDE DEF x
<1>7. \A k \in 1 .. Len(x) : x[k].is = "answer" => \A h \in 1 .. k : x[h].is = "answer"
  <2> SUFFICES ASSUME NEW k \in 1 .. Len(x), x[k].is = "answer", NEW h \in 1 .. k
               PROVE  x[h].is = "answer"
    OBVIOUS
  <2>1. k <= Len(answers)
    <3> SUFFICES ASSUME k > Len(answers) PROVE FALSE
      BY <1>6
    <3>1. k - Len(answers) \in 1 .. Len(hints) /\ k = Len(answers) + (k - Len(answers))
      BY <1>6
    <3>2. x[Len(answers) + (k - Len(answers))] = hints[k - Len(answers)]
      BY <1>6, <3>1
    <3> QED
      BY <1>3, <3>1, <3>2
  <2>2. h \in 1 .. Len(answers)
    BY <1>6, <2>1
  <2> QED
    BY <1>4, <1>6, <2>2
<1>8. disk' \in disk .. Len(memory')
  <2>1. Len(memory) \in Nat /\ Len(memory') = Len(memory) + Len(x)
    BY <1>5, <1>6, Concat, SeqFacts DEF RecordInv
  <2> QED
    BY <1>2, <1>6, <2>1 DEF RecordInv
<1>9. /\ IsSeq(memory') /\ IsSeq(Kept(sent')) /\ disk' \in 0 .. Len(memory')
      /\ EffectsOnRecord' /\ SentOnDisk' /\ AnswersAdjacent'
  BY <1>2, <1>5, <1>6, <1>7, <1>8, Grows
<1>10. BatchOnRecord' /\ IsSeq(batch')
  BY <1>2, Tuples DEF BatchOnRecord
<1> QED
  BY <1>2, <1>9, <1>10 DEF RecordInv

(* a crash keeps what is on disk, and what is on disk keeps its place *)
LEMMA CrashKeeps == ASSUME RecordInv, Crash PROVE RecordInv'
<1>1. /\ disk' \in disk .. Len(memory) /\ memory' = SubSeq(memory, 1, disk')
      /\ pc' = "down" /\ batch' = <<>> /\ queued' = 0 /\ UNCHANGED <<sent, replies, ran, blind>>
  BY DEF Crash
<1>2. /\ Len(memory) \in Nat /\ Len(Kept(sent)) \in Nat /\ disk \in 0 .. Len(memory)
      /\ DOMAIN memory = 1 .. Len(memory)
  BY SeqFacts DEF RecordInv
<1>3. disk' \in 0 .. Len(memory)
  BY <1>1, <1>2
<1>4. /\ IsSeq(memory') /\ Len(memory') = disk' /\ DOMAIN memory' = 1 .. disk'
      /\ \A k \in 1 .. disk' : memory'[k] = memory[k]
  BY <1>1, <1>3, Prefix, SeqFacts DEF RecordInv
<1> HIDE DEF Crash
<1>5. EffectsOnRecord'
  <2> SUFFICES ASSUME NEW c \in ran, c \notin blind
               PROVE  \E k \in 1 .. disk' :
                        memory'[k].is = "calls" /\ memory'[k].n = c[1] /\ c[2] \in DOMAIN memory'[k].ids
    BY <1>1 DEF EffectsOnRecord
  <2>1. PICK k \in 1 .. disk :
          memory[k].is = "calls" /\ memory[k].n = c[1] /\ c[2] \in DOMAIN memory[k].ids
    BY DEF RecordInv, EffectsOnRecord
  <2>2. k \in 1 .. disk'
    BY <1>1, <1>2
  <2>3. memory'[k] = memory[k]
    BY <1>4, <2>2
  <2> QED
    BY <2>1, <2>2, <2>3
<1>6. SentOnDisk'
  <2>1. Len(Kept(sent)) <= disk /\ \A k \in 1 .. Len(Kept(sent)) : Kept(sent)[k] = memory[k]
    BY DEF RecordInv, SentOnDisk
  <2>2. Len(Kept(sent)) <= disk' /\ sent' = sent
    BY <1>1, <1>2, <2>1
  <2>3. \A k \in 1 .. Len(Kept(sent)) : k \in 1 .. disk'
    BY <1>2, <1>3, <2>2
  <2>4. \A k \in 1 .. Len(Kept(sent)) : Kept(sent)[k] = memory'[k]
    BY <1>4, <2>1, <2>3
  <2> QED
    BY <2>2, <2>4 DEF SentOnDisk
<1>7. AnswersAdjacent'
  <2> SUFFICES ASSUME NEW k \in 1 .. disk', memory'[k].is = "answer", memory'[k].how # "unknown"
               PROVE  k > 1 /\ memory'[k - 1].is \in {"calls", "answer"}
    BY <1>4 DEF AnswersAdjacent
  <2>0. k \in DOMAIN memory /\ memory'[k] = memory[k]
    BY <1>2, <1>3, <1>4
  <2>1. k > 1 /\ memory[k - 1].is \in {"calls", "answer"}
    BY <2>0 DEF RecordInv, AnswersAdjacent
  <2>2. k - 1 \in 1 .. disk'
    BY <1>3, <2>1
  <2> QED
    BY <1>4, <2>1, <2>2
<1>8. BatchOnRecord' /\ IsSeq(batch')
  BY <1>1, Tuples DEF BatchOnRecord
<1>9. disk' \in 0 .. Len(memory') /\ IsSeq(Kept(sent')) /\ replies' \in Nat /\ queued' \in Nat
  <2>1. disk' \in 0 .. Len(memory')
    BY <1>2, <1>3, <1>4
  <2>2. IsSeq(Kept(sent'))
    BY <1>1 DEF RecordInv
  <2> QED
    BY <1>1, <2>1, <2>2 DEF RecordInv
<1> QED
  BY <1>4, <1>5, <1>6, <1>7, <1>8, <1>9 DEF RecordInv

(* the repair adds results that do not claim to be known *)
LEMMA OpenKeeps == ASSUME RecordInv, Open PROVE RecordInv'
<1> DEFINE D == {Answer(id, "unknown") : id \in Dangling(memory)}
           x == SetToSeq(D)
<1>1. memory' = memory \o x /\ Flushed /\ disk' = Len(memory') /\ pc' = "idle"
      /\ UNCHANGED <<batch, queued, sent, replies, ran>>
  BY DEF Open, Repaired, Flushed
<1>2. \A e \in D : e.how = "unknown"
  BY DEF Answer
<1>3. IsFiniteSet(D)
  <2>1. IsFiniteSet(Dangling(memory))
    BY AgentAssumption, FS_Subset DEF Dangling
  <2>2. [id \in Dangling(memory) |-> Answer(id, "unknown")] \in Surjection(Dangling(memory), D)
    BY DEF Surjection
  <2> QED
    BY <2>1, <2>2, FS_Surjection
<1> HIDE DEF D
<1>4. IsSeq(x) /\ \A k \in 1 .. Len(x) : x[k].how = "unknown"
  <2>1. Cardinality(D) \in Nat /\ \E f \in [1 .. Cardinality(D) -> D] : IsInjective(f)
    <3>1. Cardinality(D) \in Nat /\ ExistsBijection(1 .. Cardinality(D), D)
      BY <1>3, FS_CardinalityType
    <3> QED
      BY <3>1 DEF ExistsBijection, Bijection, Injection, IsInjective
  <2>2. x \in [1 .. Cardinality(D) -> D]
    BY <2>1 DEF SetToSeq
  <2> HIDE DEF x
  <2>3. x \in Seq(D)
    BY <2>1, <2>2, SeqDef
  <2> QED
    BY <1>2, <2>3, ElementOfSeq DEF IsSeq
<1> HIDE DEF x
<1>5. disk' \in disk .. Len(memory')
  <2>1. Len(memory) \in Nat /\ Len(x) \in Nat /\ Len(memory') = Len(memory) + Len(x)
    BY <1>1, <1>4, Concat, SeqFacts DEF RecordInv
  <2> QED
    BY <1>1, <2>1 DEF RecordInv
<1>6. /\ IsSeq(memory') /\ IsSeq(Kept(sent')) /\ disk' \in 0 .. Len(memory')
      /\ EffectsOnRecord' /\ SentOnDisk' /\ AnswersAdjacent'
  BY <1>1, <1>4, <1>5, Grows
<1>7. BatchOnRecord'
  BY <1>1 DEF BatchOnRecord
<1> QED
  BY <1>1, <1>6, <1>7 DEF RecordInv

-----------------------------------------------------------------------------
(* an empty transcript is in order *)
LEMMA InitRecord == Init => RecordInv
<1> SUFFICES ASSUME Init PROVE RecordInv
  OBVIOUS
<1>1. IsSeq(<<>>) /\ Len(<<>>) = 0
  BY Tuples
<1>2. IsSeq(memory) /\ IsSeq(Kept(sent)) /\ IsSeq(batch) /\ Len(memory) = 0 /\ Len(Kept(sent)) = 0
  BY <1>1, KeptOfNone DEF Init
<1>3. EffectsOnRecord /\ SentOnDisk /\ BatchOnRecord
  BY <1>2 DEF Init, EffectsOnRecord, SentOnDisk, BatchOnRecord
<1>4. AnswersAdjacent
  BY <1>2, SeqFacts DEF AnswersAdjacent
<1> QED
  BY <1>2, <1>3, <1>4 DEF Init, RecordInv

(* every step keeps the invariant, if all tools are registered *)
LEMMA NextRecord == ASSUME ~McpRouted PROVE RecordInv /\ [Next]_vars => RecordInv'
<1> SUFFICES ASSUME RecordInv, [Next]_vars PROVE RecordInv'
  OBVIOUS
<1>1. IsSeq(batch) /\ queued \in Nat
  BY DEF RecordInv
<1>2. CASE LoopEnds
  <2>1. /\ pc' # "batch" /\ UNCHANGED <<disk, batch, queued, sent, replies, ran, blind>>
        /\ UNCHANGED memory \/ memory' = Append(memory, User)
    BY <1>2 DEF LoopEnds, Return
  <2>2. IsSeq(batch') /\ queued' \in Nat
    BY <1>1, <2>1
  <2> QED
    BY <2>1, <2>2, Note, Silent
<1>3. CASE RequestRefused \/ ModelFails \/ FinalReply \/ CostCapReached
  <2>1. /\ pc' # "batch" /\ UNCHANGED <<disk, batch, queued, sent, replies, ran, blind>>
        /\ UNCHANGED memory \/ memory' = Append(memory, Said)
    BY <1>3 DEF RequestRefused, ModelFails, FinalReply, CostCapReached, Return
  <2>2. IsSeq(batch') /\ queued' \in Nat
    BY <1>1, <2>1
  <2> QED
    BY <2>1, <2>2, Note, Silent
<1>4. CASE RefuseAll
  <2> DEFINE new == [stage |-> "done", how |-> "refused"]
  <2>1. /\ pc = "batch" /\ batch' = [i \in DOMAIN batch |-> new]
        /\ UNCHANGED <<memory, disk, queued, sent, replies, ran, blind>>
    BY <1>4 DEF RefuseAll, CallKeeps
  <2> HIDE DEF new
  <2>2. Len(batch) \in Nat /\ DOMAIN batch = 1 .. Len(batch)
    BY <1>1, SeqFacts
  <2>3. batch' \in [1 .. Len(batch) -> {new}]
    BY <2>1, <2>2
  <2>4. batch' \in Seq({new})
    BY <2>2, <2>3, SeqDef
  <2>5. IsSeq(batch') /\ DOMAIN batch' = DOMAIN batch
    BY <2>1, <2>4 DEF IsSeq
  <2> QED
    BY <1>1, <2>1, <2>5, Silent
<1>5. CASE Abort \/ Notice \/ UNCHANGED vars
  <2>1. /\ UNCHANGED <<memory, disk, pc, batch, sent, replies, ran, blind>>
        /\ queued' \in {queued, queued + 1}
    BY <1>5 DEF Abort, Notice, vars
  <2>2. IsSeq(batch') /\ DOMAIN batch' = DOMAIN batch /\ queued' \in Nat
    BY <1>1, <2>1
  <2> QED
    BY <2>1, <2>2, Silent
<1>6. CASE Run \/ NextRound \/ Request \/ EmptyReply \/ EndBatch \/ Crash \/ Open
  BY <1>6, RunKeeps, NextRoundKeeps, RequestKeeps, EmptyReplyKeeps, EndBatchKeeps, CrashKeeps,
     OpenKeeps
<1>7. ASSUME NEW ids \in Ids, NEW p \in BOOLEAN, ToolReply(ids, p) PROVE RecordInv'
  BY <1>7, ToolReplyKeeps
<1>8. ASSUME NEW i \in DOMAIN batch,
             \/ StartCall(i) \/ Gate(i) \/ Asked(i) \/ CallRefused(i) \/ CallBarrier(i)
             \/ FlushFails(i) \/ CallBarrierMasked(i) \/ BodyEnds(i)
      PROVE  RecordInv'
  BY <1>8, GateKeeps, CallBarrierKeeps, MaskedKeeps
<1> QED
  BY <1>2, <1>3, <1>4, <1>5, <1>6, <1>7, <1>8 DEF Next

(* The transcript is in order at all times, and disk has what it must. *)
THEOREM Invariance == ASSUME ~McpRouted PROVE Spec => []RecordInv
<1>1. RecordInv /\ [Next]_vars => RecordInv'
  BY NextRecord
<1> QED
  BY <1>1, InitRecord, PTL DEF Spec

(* No registered tool is ever run ahead of the record: whatever crashes,   *)
(* its call is on disk from before its body starts, and stays there.       *)
THEOREM EffectsAreOnRecord == ASSUME ~McpRouted PROVE Spec => []EffectsOnRecord
<1>1. RecordInv => EffectsOnRecord
  BY DEF RecordInv
<1> QED
  BY <1>1, Invariance, PTL

(* A reopened session goes on from exactly what its model was given.       *)
THEOREM RequestsAreOnRecord == ASSUME ~McpRouted PROVE Spec => []RequestsOnRecord
<1>1. RecordInv => RequestsOnRecord
  <2> SUFFICES ASSUME RecordInv PROVE RequestsOnRecord
    OBVIOUS
  <2> DEFINE n == Len(Kept(sent))
             d == SubSeq(memory, 1, disk)
  <2>1. n \in Nat /\ n <= disk /\ disk \in 0 .. Len(memory) /\ Len(memory) \in Nat
    BY SeqFacts DEF RecordInv, SentOnDisk
  <2>2. /\ IsSeq(d) /\ Len(d) = disk /\ \A k \in 1 .. disk : d[k] = memory[k]
    BY <2>1, Prefix DEF RecordInv
  <2> HIDE DEF d
  <2>3. \A k \in 1 .. n : d[k] = Kept(sent)[k]
    BY <2>1, <2>2 DEF RecordInv, SentOnDisk
  <2>4. SubSeq(Kept(sent), 1, n) = SubSeq(d, 1, n)
    <3>1. PICK S : Kept(sent) \in Seq(S)
      BY DEF RecordInv, IsSeq
    <3>2. n \in Int /\ 1 \in Int /\ \A k \in 1 .. n : Kept(sent)[k] \in S /\ d[k] \in S
      BY <2>1, <2>3, <3>1, ElementOfSeq
    <3>3. /\ SubSeq(Kept(sent), 1, n) \in Seq(S) /\ SubSeq(d, 1, n) \in Seq(S)
          /\ Len(SubSeq(Kept(sent), 1, n)) = n /\ Len(SubSeq(d, 1, n)) = n
          /\ \A k \in 1 .. n : SubSeq(Kept(sent), 1, n)[k] = Kept(sent)[k] /\ SubSeq(d, 1, n)[k] = d[k]
      BY <2>1, <3>2, SubSeqProperties
    <3> QED
      BY <2>3, <3>3, SeqEqual
  <2> QED
    BY <2>1, <2>2, <2>4 DEF RequestsOnRecord, IsPrefix, d
<1> QED
  BY <1>1, Invariance, PTL

(* Nothing ever comes between a call and its result but other results.     *)
THEOREM ResultsFollowCalls == ASSUME ~McpRouted PROVE Spec => []AnswersAdjacent
<1>1. RecordInv => AnswersAdjacent
  BY DEF RecordInv
<1> QED
  BY <1>1, Invariance, PTL
-----------------------------------------------------------------------------
(* Calls and results.  Of the transcript m: id is called at entry k, gets  *)
(* a result at entry l, was called at k and not mentioned since, up to n,  *)
(* and is unanswered.                                                      *)
CallOf(m, k, id) == m[k].is = "calls" /\ \E i \in DOMAIN m[k].ids : m[k].ids[i] = id
ResultOf(m, l, id) == m[l].is = "answer" /\ m[l].id = id
Since(m, k, n, id) ==
    CallOf(m, k, id) /\ \A h \in k + 1 .. n : ~CallOf(m, h, id) /\ ~ResultOf(m, h, id)
Unanswered(m, k, id) == k \in 1 .. Len(m) /\ Since(m, k, Len(m), id)

(* the result at l is the one to the call at k *)
Reaches(m, k, l, id) == ResultOf(m, l, id) /\ \A g \in k + 1 .. l - 1 : ~CallOf(m, g, id)

(* Calls and results of an id alternate, whatever else stands between, and *)
(* begin with a call.                                                      *)
Paired(m) ==
    /\ \A l \in 1 .. Len(m) : m[l].is = "answer" => \E k \in 1 .. l - 1 : Since(m, k, l - 1, m[l].id)
    /\ \A h \in 1 .. Len(m) : \A k \in 1 .. h - 1 : \A id \in CallId :
          CallOf(m, k, id) /\ CallOf(m, h, id) => \E l \in k + 1 .. h - 1 : Reaches(m, k, l, id)

(* Every response has a number of its own, and its calls ids of their own. *)
Shaped(m, r) ==
    \A k \in 1 .. Len(m) : m[k].is = "calls" =>
        /\ m[k].n \in 1 .. r
        /\ \A i \in DOMAIN m[k].ids : m[k].ids[i] \in CallId
        /\ \A i, j \in DOMAIN m[k].ids : m[k].ids[i] = m[k].ids[j] => i = j
        /\ \A h \in 1 .. Len(m) : m[h].is = "calls" /\ m[h].n = m[k].n => h = k

(* what a result may say of the call c, when the bodies of q were started *)
Fits(how, c, q) == (how = "refused" => c \notin q) /\ (how = "ran" => c \in q)
Honest(m, q) ==
    \A k \in 1 .. Len(m) : m[k].is = "calls" =>
        \A i \in DOMAIN m[k].ids : \A l \in k + 1 .. Len(m) :
            Reaches(m, k, l, m[k].ids[i]) => Fits(m[l].how, <<m[k].n, i>>, q)

(* Who is unanswered: after a crash, in a turn given up, and the calls of  *)
(* the batch whose results are not in the transcript yet.                  *)
Pending(i) == fanOut \/ batch[i].stage # "done"
LeftOver ==
    \A k \in 1 .. Len(memory) : \A id \in CallId : Unanswered(memory, k, id) =>
        \/ pc = "down"
        \/ aborted /\ pc \in {"idle", "loop"}
        \/ /\ pc = "batch" /\ memory[k].n = replies
           /\ \E i \in DOMAIN batch : memory[k].ids[i] = id /\ Pending(i)

(* A batch is the calls of the last response: those pending are unanswered,*)
(* and what a slot says is true.                                           *)
BatchIsLast ==
    pc = "batch" =>
      \E k \in 1 .. Len(memory) :
        /\ memory[k].is = "calls" /\ memory[k].n = replies /\ DOMAIN memory[k].ids = DOMAIN batch
        /\ \A i \in DOMAIN batch : Pending(i) => Unanswered(memory, k, memory[k].ids[i])

SlotsAreTrue ==
    pc = "batch" =>
      \A i \in DOMAIN batch :
        /\ batch[i].stage = "body" => <<replies, i>> \in ran
        /\ batch[i].stage \notin {"body", "done"} => <<replies, i>> \notin ran
        /\ batch[i].stage # "done" => batch[i].how = "refused"
        /\ batch[i].stage = "done" => Fits(batch[i].how, <<replies, i>>, ran)

TalkInv ==
    /\ IsSeq(memory) /\ disk \in 0 .. Len(memory) /\ replies \in Nat /\ queued \in Nat
    /\ batch \in Seq([stage : Stage, how : How])
    /\ \A c \in ran : c[1] \in 0 .. replies
    /\ Shaped(memory, replies) /\ Paired(memory) /\ Honest(memory, ran)
    /\ LeftOver /\ BatchIsLast /\ SlotsAreTrue

(* A transcript that grows by x, in which nothing is called and every      *)
(* result is the only one to a call that is unanswered.                    *)
Replying(m, x, q) ==
    /\ \A j \in 1 .. Len(x) : x[j].is # "calls"
    /\ \A j \in 1 .. Len(x) : x[j].is = "answer" =>
          /\ \E k \in 1 .. Len(m) : Unanswered(m, k, x[j].id)
          /\ \A k \in 1 .. Len(m) : \A i \in DOMAIN m[k].ids :
                Unanswered(m, k, x[j].id) /\ m[k].ids[i] = x[j].id => Fits(x[j].how, <<m[k].n, i>>, q)
    /\ \A i, j \in 1 .. Len(x) : x[i].is = "answer" /\ x[j].is = "answer" /\ x[i].id = x[j].id => i = j

(* The entry where an id was called last is one. *)
LEMMA CalledOnce ==
  ASSUME NEW m, IsSeq(m), NEW id, NEW k, NEW h, Unanswered(m, k, id), Unanswered(m, h, id) PROVE h = k
<1>1. Len(m) \in Nat  BY SeqFacts
<1>2. k < h => h \in k + 1 .. Len(m)  BY <1>1 DEF Unanswered
<1>3. h < k => k \in h + 1 .. Len(m)  BY <1>1 DEF Unanswered
<1> QED  BY <1>1, <1>2, <1>3 DEF Unanswered, Since

(* What a longer transcript says of its old entries. *)
LEMMA Longer ==
  ASSUME NEW m, NEW x, IsSeq(m), IsSeq(x)
  PROVE  LET w == m \o x IN
         /\ IsSeq(w) /\ Len(w) = Len(m) + Len(x) /\ Len(m) \in Nat /\ Len(x) \in Nat
         /\ \A k \in 1 .. Len(m) : w[k] = m[k]
         /\ \A j \in 1 .. Len(x) : w[Len(m) + j] = x[j]
         /\ \A k \in 1 .. Len(w) : k \in 1 .. Len(m) \/ (k - Len(m) \in 1 .. Len(x) /\ w[k] = x[k - Len(m)])
<1> PICK w : w = m \o x  OBVIOUS
<1>1. /\ IsSeq(w) /\ Len(w) = Len(m) + Len(x) /\ Len(m) \in Nat /\ Len(x) \in Nat
      /\ \A k \in 1 .. Len(m) : w[k] = m[k]
      /\ \A j \in 1 .. Len(x) : w[Len(m) + j] = x[j]
  BY Concat, SeqFacts
<1>2. ASSUME NEW k \in 1 .. Len(w)
      PROVE  k \in 1 .. Len(m) \/ (k - Len(m) \in 1 .. Len(x) /\ w[k] = x[k - Len(m)])
  <2>1. k \in 1 .. Len(m) \/ (k - Len(m) \in 1 .. Len(x) /\ k = Len(m) + (k - Len(m)))  BY <1>1
  <2> QED  BY <1>1, <2>1
<1> QED  BY <1>1, <1>2

LEMMA ReplyingKeeps ==
  ASSUME NEW m, NEW x, IsSeq(m), IsSeq(x), NEW r, NEW q, NEW w, w = m \o x, Replying(m, x, q),
         Shaped(m, r), Paired(m), Honest(m, q)
  PROVE  /\ IsSeq(w) /\ Shaped(w, r) /\ Paired(w) /\ Honest(w, q)
         /\ \A k \in 1 .. Len(w) : \A id : Unanswered(w, k, id) =>
               Unanswered(m, k, id) /\ \A j \in 1 .. Len(x) : x[j].is = "answer" => x[j].id # id
         /\ \A k \in 1 .. Len(m) : \A id :
              (Unanswered(m, k, id) /\ \A j \in 1 .. Len(x) : x[j].is = "answer" => x[j].id # id)
                => Unanswered(w, k, id)
<1>1. /\ IsSeq(w) /\ Len(w) = Len(m) + Len(x) /\ Len(m) \in Nat /\ Len(x) \in Nat
      /\ \A k \in 1 .. Len(m) : w[k] = m[k]
      /\ \A j \in 1 .. Len(x) : w[Len(m) + j] = x[j]
      /\ \A k \in 1 .. Len(w) : k \in 1 .. Len(m) \/ (k - Len(m) \in 1 .. Len(x) /\ w[k] = x[k - Len(m)])
  BY Longer
<1>2. ASSUME NEW k \in 1 .. Len(m), NEW id
      PROVE  (CallOf(w, k, id) <=> CallOf(m, k, id)) /\ (ResultOf(w, k, id) <=> ResultOf(m, k, id))
  BY <1>1 DEF CallOf, ResultOf
<1>3. ASSUME NEW k \in 1 .. Len(w), k > Len(m) PROVE w[k].is # "calls" /\ \A id : ~CallOf(w, k, id)
  <2>1. k - Len(m) \in 1 .. Len(x) /\ w[k] = x[k - Len(m)]  BY <1>1, <1>3
  <2>2. w[k].is # "calls"  BY <2>1 DEF Replying
  <2> QED  BY <2>2 DEF CallOf
<1>4. ASSUME NEW k \in 1 .. Len(w), w[k].is = "calls" PROVE k \in 1 .. Len(m)
  BY <1>1, <1>3, <1>4
<1>5. Shaped(w, r)
  <2> SUFFICES ASSUME NEW k \in 1 .. Len(w), w[k].is = "calls"
               PROVE  /\ w[k].n \in 1 .. r
                      /\ \A i \in DOMAIN w[k].ids : w[k].ids[i] \in CallId
                      /\ \A i, j \in DOMAIN w[k].ids : w[k].ids[i] = w[k].ids[j] => i = j
                      /\ \A h \in 1 .. Len(w) : w[h].is = "calls" /\ w[h].n = w[k].n => h = k
    BY DEF Shaped
  <2>1. k \in 1 .. Len(m) /\ w[k] = m[k]  BY <1>1, <1>4
  <2>2. \A h \in 1 .. Len(w) : w[h].is = "calls" => h \in 1 .. Len(m) /\ w[h] = m[h]  BY <1>1, <1>4
  <2> QED  BY <2>1, <2>2 DEF Shaped
<1>6. ASSUME NEW k \in 1 .. Len(m), NEW n \in k .. Len(m), NEW id
      PROVE  Since(w, k, n, id) <=> Since(m, k, n, id)
  <2>1. \A h \in k + 1 .. n : h \in 1 .. Len(m)  BY <1>1
  <2> QED  BY <1>2, <2>1 DEF Since
<1>7. ASSUME NEW k \in 1 .. Len(w), NEW id, Unanswered(w, k, id)
      PROVE  Unanswered(m, k, id) /\ \A j \in 1 .. Len(x) : x[j].is = "answer" => x[j].id # id
  <2>1. w[k].is = "calls"  BY <1>7 DEF Unanswered, Since, CallOf
  <2>2. k \in 1 .. Len(m)  BY <1>4, <2>1
  <2>3. Since(w, k, Len(m), id)
    <3>1. \A h \in k + 1 .. Len(m) : h \in k + 1 .. Len(w)  BY <1>1
    <3> QED  BY <1>7, <3>1 DEF Unanswered, Since
  <2>4. Len(m) \in k .. Len(m)  BY <1>1, <2>2
  <2>5. Unanswered(m, k, id)  BY <1>6, <2>2, <2>3, <2>4 DEF Unanswered
  <2>6. ASSUME NEW j \in 1 .. Len(x), x[j].is = "answer" PROVE x[j].id # id
    <3>1. Len(m) + j \in k + 1 .. Len(w) /\ w[Len(m) + j] = x[j]  BY <1>1, <2>2
    <3> QED  BY <1>7, <2>6, <3>1 DEF Unanswered, Since, ResultOf
  <2> QED  BY <2>5, <2>6
<1>8. ASSUME NEW k \in 1 .. Len(m), NEW id, Unanswered(m, k, id),
             \A j \in 1 .. Len(x) : x[j].is = "answer" => x[j].id # id
      PROVE  Unanswered(w, k, id)
  <2>1. Since(w, k, Len(m), id)  BY <1>1, <1>6, <1>8 DEF Unanswered
  <2>2. ASSUME NEW h \in k + 1 .. Len(w) PROVE ~CallOf(w, h, id) /\ ~ResultOf(w, h, id)
    <3>1. CASE h <= Len(m)
      <4>1. h \in k + 1 .. Len(m)  BY <1>1, <3>1
      <4> QED  BY <2>1, <4>1 DEF Since
    <3>2. CASE h > Len(m)
      <4>1. h \in 1 .. Len(w) /\ h - Len(m) \in 1 .. Len(x) /\ w[h] = x[h - Len(m)]  BY <1>1, <3>2
      <4>2. ~CallOf(w, h, id)  BY <1>3, <3>2, <4>1
      <4> QED  BY <1>8, <4>1, <4>2 DEF ResultOf
    <3> QED  BY <1>1, <3>1, <3>2
  <2>3. k \in 1 .. Len(w)  BY <1>1
  <2> QED  BY <2>1, <2>2, <2>3 DEF Unanswered, Since
<1>9. Paired(w)
  <2>1. ASSUME NEW l \in 1 .. Len(w), w[l].is = "answer"
        PROVE  \E k \in 1 .. l - 1 : Since(w, k, l - 1, w[l].id)
    <3>1. CASE l \in 1 .. Len(m)
      <4>1. PICK k \in 1 .. l - 1 : Since(m, k, l - 1, m[l].id)
        BY <1>1, <2>1, <3>1 DEF Paired
      <4>2. k \in 1 .. Len(m) /\ l - 1 \in k .. Len(m)  BY <1>1, <3>1, <4>1
      <4> QED  BY <1>1, <1>6, <3>1, <4>1, <4>2
    <3>2. CASE l - Len(m) \in 1 .. Len(x) /\ w[l] = x[l - Len(m)]
      <4> DEFINE j == l - Len(m)
                 id == x[j].id
      <4>1. j \in 1 .. Len(x) /\ w[l] = x[j] /\ x[j].is = "answer" /\ l = Len(m) + j
        BY <1>1, <2>1, <3>2
      <4>2. PICK k \in 1 .. Len(m) : Unanswered(m, k, id)  BY <4>1 DEF Replying
      <4>3. Since(w, k, Len(m), id)  BY <1>1, <1>6, <4>2 DEF Unanswered
      <4>4. ASSUME NEW h \in k + 1 .. l - 1 PROVE ~CallOf(w, h, id) /\ ~ResultOf(w, h, id)
        <5>1. CASE h <= Len(m)
          <6>1. h \in k + 1 .. Len(m)  BY <1>1, <5>1
          <6> QED  BY <4>3, <6>1 DEF Since
        <5>2. CASE h > Len(m)
          <6>1. /\ h \in 1 .. Len(w) /\ h - Len(m) \in 1 .. Len(x) /\ w[h] = x[h - Len(m)]
                /\ h - Len(m) # j
            BY <1>1, <4>1, <5>2
          <6>2. ~CallOf(w, h, id)  BY <1>3, <5>2, <6>1
          <6>3. ~ResultOf(w, h, id)  BY <4>1, <6>1 DEF ResultOf, Replying
          <6> QED  BY <6>2, <6>3
        <5> QED  BY <1>1, <5>1, <5>2
      <4>5. k \in 1 .. l - 1  BY <1>1, <4>1
      <4> QED  BY <4>1, <4>3, <4>4, <4>5 DEF Since
    <3> QED  BY <1>1, <3>1, <3>2
  <2>2. ASSUME NEW h \in 1 .. Len(w), NEW k \in 1 .. h - 1, NEW id \in CallId,
               CallOf(w, k, id), CallOf(w, h, id)
        PROVE  \E l \in k + 1 .. h - 1 : Reaches(w, k, l, id)
    <3>1. h \in 1 .. Len(m) /\ k \in 1 .. Len(m)
      <4>1. h \in 1 .. Len(m)  BY <1>4, <2>2 DEF CallOf
      <4> QED  BY <1>1, <4>1
    <3>2. CallOf(m, k, id) /\ CallOf(m, h, id)  BY <1>2, <2>2, <3>1
    <3>3. PICK l \in k + 1 .. h - 1 : Reaches(m, k, l, id)  BY <3>1, <3>2 DEF Paired
    <3>4. l \in 1 .. Len(m) /\ \A g \in k + 1 .. l - 1 : g \in 1 .. Len(m)  BY <1>1, <3>1, <3>3
    <3>5. Reaches(w, k, l, id)  BY <1>2, <3>3, <3>4 DEF Reaches
    <3> QED  BY <3>3, <3>5
  <2> QED  BY <2>1, <2>2 DEF Paired
<1>10. Honest(w, q)
  <2> SUFFICES ASSUME NEW k \in 1 .. Len(w), w[k].is = "calls", NEW i \in DOMAIN w[k].ids,
                      NEW l \in k + 1 .. Len(w), Reaches(w, k, l, w[k].ids[i])
               PROVE  Fits(w[l].how, <<w[k].n, i>>, q)
    BY DEF Honest
  <2> DEFINE id == w[k].ids[i]
  <2>1. k \in 1 .. Len(m) /\ w[k] = m[k]  BY <1>1, <1>4
  <2>2. CASE l <= Len(m)
    <3>1. l \in k + 1 .. Len(m) /\ l \in 1 .. Len(m) /\ \A g \in k + 1 .. l - 1 : g \in 1 .. Len(m)
      BY <1>1, <2>1, <2>2
    <3>2. Reaches(m, k, l, m[k].ids[i])  BY <1>2, <2>1, <3>1 DEF Reaches
    <3>3. w[l] = m[l]  BY <1>1, <3>1
    <3> QED  BY <2>1, <3>1, <3>2, <3>3 DEF Honest
  <2>3. CASE l > Len(m)
    <3> DEFINE j == l - Len(m)
    <3>1. j \in 1 .. Len(x) /\ w[l] = x[j]  BY <1>1, <2>1, <2>3
    <3>2. x[j].is = "answer" /\ x[j].id = id  BY <3>1 DEF Reaches, ResultOf
    <3>3. PICK h \in 1 .. Len(m) : Unanswered(m, h, id)  BY <3>1, <3>2 DEF Replying
    <3>4. h = k
      <4>1. CallOf(m, k, id)  BY <2>1 DEF CallOf
      <4>2. h > k => h \in k + 1 .. l - 1  BY <1>1, <2>1, <2>3
      <4>3. h < k => k \in h + 1 .. Len(m)  BY <1>1, <2>1
      <4>4. CallOf(w, h, id)  BY <1>2, <3>3 DEF Unanswered, Since
      <4>5. ~(h > k)  BY <4>2, <4>4 DEF Reaches
      <4>6. ~(h < k)  BY <3>3, <4>1, <4>3 DEF Unanswered, Since
      <4> QED  BY <1>1, <2>1, <4>5, <4>6
    <3> QED  BY <2>1, <3>1, <3>2, <3>3, <3>4 DEF Replying
  <2> QED  BY <1>1, <2>1, <2>2, <2>3
<1> QED  BY <1>1, <1>5, <1>7, <1>8, <1>9, <1>10

(* A response, when nothing was unanswered: its calls are now.             *)
LEMMA CallsKeep ==
  ASSUME NEW m, IsSeq(m), NEW r \in Nat, NEW q, NEW ids \in Ids, NEW s, s = r + 1,
         Shaped(m, r), Paired(m), Honest(m, q),
         \A k \in 1 .. Len(m) : \A id \in CallId : ~Unanswered(m, k, id)
  PROVE  LET w == m \o <<Calls(s, ids)>> IN
         /\ IsSeq(w) /\ Shaped(w, s) /\ Paired(w) /\ Honest(w, q) /\ Len(w) = Len(m) + 1
         /\ w[Len(w)] = Calls(s, ids) /\ \A i \in DOMAIN ids : Unanswered(w, Len(w), ids[i])
         /\ \A k \in 1 .. Len(w) : \A id \in CallId : Unanswered(w, k, id) =>
               k = Len(w) /\ \E i \in DOMAIN ids : ids[i] = id
<1> PICK w : w = m \o <<Calls(s, ids)>>  OBVIOUS
<1> DEFINE e == Calls(s, ids)
<1>0. /\ e.is = "calls" /\ e.n = s /\ e.ids = ids
      /\ \A i \in DOMAIN ids : ids[i] \in CallId
      /\ \A i, j \in DOMAIN ids : ids[i] = ids[j] => i = j
  <2>1. e.is = "calls" /\ e.n = s /\ e.ids = ids  BY DEF Calls
  <2>2. IsInjective(ids) /\ \E n \in 0 .. MaxCalls : ids \in [1 .. n -> CallId]  BY DEF Ids, SeqOf
  <2> QED  BY <2>1, <2>2 DEF IsInjective
<1> HIDE DEF e
<1>1. /\ IsSeq(w) /\ Len(w) = Len(m) + 1 /\ Len(m) \in Nat /\ w[Len(w)] = e
      /\ \A k \in 1 .. Len(m) : w[k] = m[k]
      /\ \A k \in 1 .. Len(w) : k \in 1 .. Len(m) \/ k = Len(m) + 1
  <2>1. IsSeq(<<e>>) /\ Len(<<e>>) = 1 /\ <<e>>[1] = e  BY Tuples
  <2>2. w = m \o <<e>>  BY DEF e
  <2>3. /\ IsSeq(w) /\ Len(w) = Len(m) + Len(<<e>>) /\ Len(m) \in Nat
        /\ \A k \in 1 .. Len(m) : w[k] = m[k]
        /\ \A j \in 1 .. Len(<<e>>) : w[Len(m) + j] = <<e>>[j]
    BY <2>1, <2>2, Longer
  <2>4. w[Len(m) + 1] = e  BY <2>1, <2>3
  <2> QED  BY <2>1, <2>3, <2>4
<1>2. ASSUME NEW k \in 1 .. Len(m), NEW id
      PROVE  (CallOf(w, k, id) <=> CallOf(m, k, id)) /\ (ResultOf(w, k, id) <=> ResultOf(m, k, id))
  BY <1>1 DEF CallOf, ResultOf
<1>3. Shaped(w, s)
  <2> SUFFICES ASSUME NEW k \in 1 .. Len(w), w[k].is = "calls"
               PROVE  /\ w[k].n \in 1 .. s
                      /\ \A i \in DOMAIN w[k].ids : w[k].ids[i] \in CallId
                      /\ \A i, j \in DOMAIN w[k].ids : w[k].ids[i] = w[k].ids[j] => i = j
                      /\ \A h \in 1 .. Len(w) : w[h].is = "calls" /\ w[h].n = w[k].n => h = k
    BY DEF Shaped
  <2>1. \A h \in 1 .. Len(m) : m[h].is = "calls" => m[h].n \in 1 .. r /\ m[h].n # s
    BY DEF Shaped
  <2>2. CASE k \in 1 .. Len(m)
    <3>1. w[k] = m[k]  BY <1>1, <2>2
    <3>2. \A h \in 1 .. Len(w) : w[h].is = "calls" /\ w[h].n = w[k].n => h \in 1 .. Len(m) /\ w[h] = m[h]
      BY <1>0, <1>1, <2>1, <2>2, <3>1
    <3> QED  BY <2>1, <2>2, <3>1, <3>2 DEF Shaped
  <2>3. CASE k = Len(m) + 1
    <3>1. w[k] = e  BY <1>1, <2>3
    <3>2. \A h \in 1 .. Len(w) : w[h].is = "calls" /\ w[h].n = s => h = k  BY <1>1, <2>1, <2>3
    <3> QED  BY <1>0, <3>1, <3>2
  <2> QED  BY <1>1, <2>2, <2>3
<1>4. ASSUME NEW k \in 1 .. Len(m), NEW id \in CallId, CallOf(m, k, id)
      PROVE  \E l \in k + 1 .. Len(m) : Reaches(w, k, l, id)
  <2>1. CASE \E h \in k + 1 .. Len(m) : CallOf(m, h, id)
    <3>1. PICK h \in k + 1 .. Len(m) : CallOf(m, h, id)  BY <2>1
    <3>2. h \in 1 .. Len(m) /\ k \in 1 .. h - 1  BY <1>1, <3>1
    <3>3. PICK l \in k + 1 .. h - 1 : Reaches(m, k, l, id)  BY <1>4, <3>1, <3>2 DEF Paired
    <3>4. l \in k + 1 .. Len(m) /\ l \in 1 .. Len(m) /\ \A g \in k + 1 .. l - 1 : g \in 1 .. Len(m)
      BY <1>1, <3>2, <3>3
    <3> QED  BY <1>2, <3>3, <3>4 DEF Reaches
  <2>2. CASE ~\E h \in k + 1 .. Len(m) : CallOf(m, h, id)
    <3>1. PICK l \in k + 1 .. Len(m) : ResultOf(m, l, id)
      BY <1>4, <2>2 DEF Unanswered, Since
    <3>2. l \in 1 .. Len(m) /\ \A g \in k + 1 .. l - 1 : g \in 1 .. Len(m) /\ g \in k + 1 .. Len(m)
      BY <1>1, <3>1
    <3> QED  BY <1>2, <2>2, <3>1, <3>2 DEF Reaches
  <2> QED  BY <2>1, <2>2
<1>5. Paired(w)
  <2>1. ASSUME NEW l \in 1 .. Len(w), w[l].is = "answer"
        PROVE  \E k \in 1 .. l - 1 : Since(w, k, l - 1, w[l].id)
    <3>1. l \in 1 .. Len(m) /\ w[l] = m[l]  BY <1>0, <1>1, <2>1
    <3>2. PICK k \in 1 .. l - 1 : Since(m, k, l - 1, m[l].id)  BY <2>1, <3>1 DEF Paired
    <3>3. k \in 1 .. Len(m) /\ \A h \in k + 1 .. l - 1 : h \in 1 .. Len(m)  BY <1>1, <3>1, <3>2
    <3> QED  BY <1>2, <3>1, <3>2, <3>3 DEF Since
  <2>2. ASSUME NEW h \in 1 .. Len(w), NEW k \in 1 .. h - 1, NEW id \in CallId,
               CallOf(w, k, id), CallOf(w, h, id)
        PROVE  \E l \in k + 1 .. h - 1 : Reaches(w, k, l, id)
    <3>1. CASE h \in 1 .. Len(m)
      <4>1. k \in 1 .. Len(m)  BY <1>1, <3>1
      <4>2. CallOf(m, k, id) /\ CallOf(m, h, id)  BY <1>2, <2>2, <3>1, <4>1
      <4>3. PICK l \in k + 1 .. h - 1 : Reaches(m, k, l, id)  BY <3>1, <4>2 DEF Paired
      <4>4. l \in 1 .. Len(m) /\ \A g \in k + 1 .. l - 1 : g \in 1 .. Len(m)  BY <1>1, <3>1, <4>1, <4>3
      <4>5. Reaches(w, k, l, id)  BY <1>2, <4>3, <4>4 DEF Reaches
      <4> QED  BY <4>3, <4>5
    <3>2. CASE h = Len(m) + 1
      <4>1. k \in 1 .. Len(m) /\ h - 1 = Len(m)  BY <1>1, <3>2
      <4>2. CallOf(m, k, id)  BY <1>2, <2>2, <4>1
      <4> QED  BY <1>4, <4>1, <4>2
    <3> QED  BY <1>1, <3>1, <3>2
  <2> QED  BY <2>1, <2>2 DEF Paired
<1>6. Honest(w, q)
  <2> SUFFICES ASSUME NEW k \in 1 .. Len(w), w[k].is = "calls", NEW i \in DOMAIN w[k].ids,
                      NEW l \in k + 1 .. Len(w), Reaches(w, k, l, w[k].ids[i])
               PROVE  Fits(w[l].how, <<w[k].n, i>>, q)
    BY DEF Honest
  <2>1. l # Len(m) + 1  BY <1>0, <1>1 DEF Reaches, ResultOf
  <2>2. /\ k \in 1 .. Len(m) /\ l \in k + 1 .. Len(m) /\ l \in 1 .. Len(m)
        /\ \A g \in k + 1 .. l - 1 : g \in 1 .. Len(m)
    BY <1>1, <2>1
  <2>3. w[k] = m[k] /\ w[l] = m[l]  BY <1>1, <2>2
  <2>4. Reaches(m, k, l, m[k].ids[i])  BY <1>2, <2>2, <2>3 DEF Reaches
  <2> QED  BY <2>2, <2>3, <2>4 DEF Honest
<1>7. \A i \in DOMAIN ids : Unanswered(w, Len(w), ids[i])
  <2>1. Len(w) \in 1 .. Len(w) /\ Len(w) + 1 .. Len(w) = {}  BY <1>1
  <2> QED  BY <1>0, <1>1, <2>1 DEF Unanswered, Since, CallOf
<1>8. ASSUME NEW k \in 1 .. Len(w), NEW id \in CallId, Unanswered(w, k, id)
      PROVE  k = Len(w) /\ \E i \in DOMAIN ids : ids[i] = id
  <2>1. k = Len(m) + 1
    <3> SUFFICES ASSUME k \in 1 .. Len(m) PROVE FALSE  BY <1>1
    <3>1. CallOf(m, k, id)  BY <1>2, <1>8 DEF Unanswered, Since
    <3>2. PICK l \in k + 1 .. Len(m) : Reaches(w, k, l, id)  BY <1>4, <3>1
    <3>3. l \in k + 1 .. Len(w)  BY <1>1, <3>2
    <3> QED  BY <1>8, <3>2, <3>3 DEF Unanswered, Since, Reaches
  <2> QED  BY <1>0, <1>1, <1>8, <2>1 DEF Unanswered, Since, CallOf
<1> QED  BY <1>1, <1>3, <1>5, <1>6, <1>7, <1>8 DEF e

(* What a crash leaves is in order, though calls may have lost results.    *)
LEMMA RestKeeps ==
  ASSUME NEW m, IsSeq(m), NEW d \in 0 .. Len(m), NEW r, NEW q,
         Shaped(m, r), Paired(m), Honest(m, q)
  PROVE  LET w == SubSeq(m, 1, d) IN
         IsSeq(w) /\ Len(w) = d /\ Shaped(w, r) /\ Paired(w) /\ Honest(w, q)
<1> PICK w : w = SubSeq(m, 1, d)  OBVIOUS
<1>1. /\ IsSeq(w) /\ Len(w) = d /\ Len(m) \in Nat
      /\ \A k \in 1 .. d : k \in 1 .. Len(m) /\ w[k] = m[k]
  <2>1. Len(m) \in Nat  BY SeqFacts
  <2>2. IsSeq(w) /\ Len(w) = d /\ \A k \in 1 .. d : w[k] = m[k]  BY Prefix
  <2> QED  BY <2>1, <2>2
<1>2. ASSUME NEW k \in 1 .. d, NEW id
      PROVE  (CallOf(w, k, id) <=> CallOf(m, k, id)) /\ (ResultOf(w, k, id) <=> ResultOf(m, k, id))
  BY <1>1 DEF CallOf, ResultOf
<1>3. Shaped(w, r)
  <2> SUFFICES ASSUME NEW k \in 1 .. d, w[k].is = "calls"
               PROVE  /\ w[k].n \in 1 .. r
                      /\ \A i \in DOMAIN w[k].ids : w[k].ids[i] \in CallId
                      /\ \A i, j \in DOMAIN w[k].ids : w[k].ids[i] = w[k].ids[j] => i = j
                      /\ \A h \in 1 .. d : w[h].is = "calls" /\ w[h].n = w[k].n => h = k
    BY <1>1 DEF Shaped
  <2>1. w[k] = m[k] /\ k \in 1 .. Len(m) /\ \A h \in 1 .. d : w[h] = m[h] /\ h \in 1 .. Len(m)  BY <1>1
  <2> QED  BY <2>1 DEF Shaped
<1>4. Paired(w)
  <2>1. ASSUME NEW l \in 1 .. d, w[l].is = "answer"
        PROVE  \E k \in 1 .. l - 1 : Since(w, k, l - 1, w[l].id)
    <3>1. l \in 1 .. Len(m) /\ w[l] = m[l]  BY <1>1
    <3>2. PICK k \in 1 .. l - 1 : Since(m, k, l - 1, m[l].id)  BY <2>1, <3>1 DEF Paired
    <3>3. k \in 1 .. d /\ \A h \in k + 1 .. l - 1 : h \in 1 .. d  BY <1>1, <3>2
    <3> QED  BY <1>2, <3>1, <3>2, <3>3 DEF Since
  <2>2. ASSUME NEW h \in 1 .. d, NEW k \in 1 .. h - 1, NEW id \in CallId, CallOf(w, k, id), CallOf(w, h, id)
        PROVE  \E l \in k + 1 .. h - 1 : Reaches(w, k, l, id)
    <3>1. k \in 1 .. d /\ h \in 1 .. Len(m)  BY <1>1
    <3>2. PICK l \in k + 1 .. h - 1 : Reaches(m, k, l, id)  BY <1>2, <2>2, <3>1 DEF Paired
    <3>3. l \in 1 .. d /\ \A g \in k + 1 .. l - 1 : g \in 1 .. d  BY <1>1, <3>1, <3>2
    <3>4. Reaches(w, k, l, id)  BY <1>2, <3>2, <3>3 DEF Reaches
    <3> QED  BY <3>2, <3>4
  <2> QED  BY <1>1, <2>1, <2>2 DEF Paired
<1>5. Honest(w, q)
  <2> SUFFICES ASSUME NEW k \in 1 .. d, w[k].is = "calls", NEW i \in DOMAIN w[k].ids,
                      NEW l \in k + 1 .. d, Reaches(w, k, l, w[k].ids[i])
               PROVE  Fits(w[l].how, <<w[k].n, i>>, q)
    BY <1>1 DEF Honest
  <2>1. /\ l \in 1 .. d /\ k \in 1 .. Len(m) /\ l \in k + 1 .. Len(m)
        /\ \A g \in k + 1 .. l - 1 : g \in 1 .. d
    BY <1>1
  <2>2. w[k] = m[k] /\ w[l] = m[l]  BY <1>1, <2>1
  <2>3. Reaches(m, k, l, m[k].ids[i])  BY <1>2, <2>1, <2>2 DEF Reaches
  <2> QED  BY <2>1, <2>2, <2>3 DEF Honest
<1> QED  BY <1>1, <1>3, <1>4, <1>5

(* A body that starts makes no result a lie: its call is unanswered.       *)
LEMMA StartKeeps ==
  ASSUME NEW m, IsSeq(m), NEW r, NEW q, NEW k \in 1 .. Len(m), m[k].is = "calls", NEW i \in DOMAIN m[k].ids,
         Shaped(m, r), Honest(m, q), Unanswered(m, k, m[k].ids[i])
  PROVE  Honest(m, q \cup {<<m[k].n, i>>})
<1> SUFFICES ASSUME NEW h \in 1 .. Len(m), m[h].is = "calls", NEW j \in DOMAIN m[h].ids,
                    NEW l \in h + 1 .. Len(m), Reaches(m, h, l, m[h].ids[j])
             PROVE  Fits(m[l].how, <<m[h].n, j>>, q \cup {<<m[k].n, i>>})
  BY DEF Honest
<1>1. Fits(m[l].how, <<m[h].n, j>>, q)  BY DEF Honest
<1>2. <<m[h].n, j>> # <<m[k].n, i>>
  <2> SUFFICES ASSUME m[h].n = m[k].n, j = i PROVE FALSE  OBVIOUS
  <2>1. h = k  BY DEF Shaped
  <2> QED  BY <2>1 DEF Unanswered, Since, Reaches
<1> QED  BY <1>1, <1>2 DEF Fits

-----------------------------------------------------------------------------
(* Every action keeps the calls and results in order.                      *)

(* the entries that are neither *)
Quiet(x) == IsSeq(x) /\ \A j \in 1 .. Len(x) : x[j].is \notin {"calls", "answer"}

(* a step outside the batch that adds such entries, or none *)
LEMMA Adds ==
  ASSUME TalkInv, NEW x, Quiet(x), memory' = memory \o x, disk' \in 0 .. Len(memory'),
         UNCHANGED <<replies, ran, batch>>, queued' \in Nat,
         pc \notin {"batch", "down"}, pc' # "batch",
         aborted /\ pc \in {"idle", "loop"} => aborted' /\ pc' \in {"idle", "loop"}
  PROVE  TalkInv'
<1>1. Replying(memory, x, ran)  BY DEF Quiet, Replying
<1>2. /\ IsSeq(memory') /\ Shaped(memory', replies) /\ Paired(memory') /\ Honest(memory', ran)
      /\ \A k \in 1 .. Len(memory') : \A id : Unanswered(memory', k, id) => Unanswered(memory, k, id)
  BY <1>1, ReplyingKeeps DEF TalkInv, Quiet
<1>3. LeftOver'
  <2> SUFFICES ASSUME NEW k \in 1 .. Len(memory'), NEW id \in CallId, Unanswered(memory', k, id)
               PROVE  aborted' /\ pc' \in {"idle", "loop"}
    BY DEF LeftOver
  <2>1. Unanswered(memory, k, id)  BY <1>2
  <2>2. k \in 1 .. Len(memory)  BY <2>1 DEF Unanswered
  <2> QED  BY <2>1, <2>2 DEF TalkInv, LeftOver
<1>4. BatchIsLast' /\ SlotsAreTrue'  BY DEF BatchIsLast, SlotsAreTrue
<1> QED  BY <1>2, <1>3, <1>4 DEF TalkInv

(* one or two messages, or nothing *)
LEMMA QuietOnes == ASSUME NEW e \in {User, Said}, NEW f \in {User, Said}
                   PROVE  Quiet(<<>>) /\ Quiet(<<e>>) /\ Quiet(<<e, f>>)
<1>1. /\ IsSeq(<<>>) /\ Len(<<>>) = 0 /\ IsSeq(<<e>>) /\ Len(<<e>>) = 1 /\ <<e>>[1] = e
      /\ IsSeq(<<e, f>>) /\ Len(<<e, f>>) = 2 /\ <<e, f>>[1] = e /\ <<e, f>>[2] = f
  BY Tuples
<1>2. e.is \notin {"calls", "answer"} /\ f.is \notin {"calls", "answer"}  BY DEF User, Said
<1> QED  BY <1>1, <1>2 DEF Quiet

(* such a step that adds one entry, or none *)
LEMMA AddsOne ==
  ASSUME TalkInv, memory' = memory \/ memory' = Append(memory, User) \/ memory' = Append(memory, Said),
         disk' = disk, UNCHANGED <<replies, ran, batch>>, queued' \in Nat,
         pc \notin {"batch", "down"}, pc' # "batch",
         aborted /\ pc \in {"idle", "loop"} => aborted' /\ pc' \in {"idle", "loop"}
  PROVE  TalkInv'
<1>1. ASSUME NEW x, Quiet(x), memory' = memory \o x PROVE TalkInv'
  <2>1. Len(memory) \in Nat /\ Len(memory') = Len(memory) + Len(x) /\ Len(x) \in Nat
    BY <1>1, Concat, SeqFacts DEF TalkInv, Quiet
  <2>2. disk' \in 0 .. Len(memory')  BY <2>1 DEF TalkInv
  <2> QED  BY <1>1, <2>2, Adds
<1>2. ASSUME NEW e \in {User, Said}, memory' = Append(memory, e) PROVE TalkInv'
  <2>1. memory' = memory \o <<e>>  BY <1>2, Appended DEF TalkInv
  <2>2. IsSeq(<<e>>) /\ Len(<<e>>) = 1 /\ <<e>>[1] = e  BY Tuples
  <2>3. Quiet(<<e>>)  BY <2>2 DEF Quiet, User, Said
  <2> QED  BY <1>1, <2>1, <2>3
<1>3. CASE memory' = memory
  <2>1. memory \o <<>> = memory
    <3>1. PICK S : memory \in Seq(S)  BY DEF TalkInv, IsSeq
    <3> QED  BY <3>1, ConcatEmptySeq
  <2>2. Quiet(<<>>)  BY QuietOnes
  <2> QED  BY <1>1, <1>3, <2>1, <2>2
<1> QED  BY <1>2, <1>3

(* the notices are quiet, and so are two quiet sequences *)
LEMMA QuietNotices == ASSUME NEW n \in Nat PROVE Quiet(Notices(n))
<1>1. Notices(n) \in [1 .. n -> {User}]  BY DEF Notices
<1>2. Notices(n) \in Seq({User})  BY <1>1, SeqDef
<1>3. Len(Notices(n)) = n  BY <1>1, <1>2, LenProperties
<1> QED  BY <1>1, <1>2, <1>3 DEF IsSeq, User, Quiet

LEMMA QuietBoth == ASSUME NEW s, NEW t, Quiet(s), Quiet(t) PROVE Quiet(s \o t)
<1>1. PICK w : w = s \o t  OBVIOUS
<1>2. IsSeq(s) /\ IsSeq(t)  BY DEF Quiet
<1>3. /\ IsSeq(w)
      /\ \A k \in 1 .. Len(s) : w[k] = s[k]
      /\ \A k \in 1 .. Len(w) : k \in 1 .. Len(s) \/ (k - Len(s) \in 1 .. Len(t) /\ w[k] = t[k - Len(s)])
  BY <1>1, <1>2, Longer
<1>4. Quiet(w)  BY <1>3 DEF Quiet
<1> QED  BY <1>1, <1>4

LEMMA RunTalks == ASSUME TalkInv, Run PROVE TalkInv'
<1>1. PICK e \in {User, Said} : memory' = memory \o Notices(queued) \o <<e>>  BY DEF Run
<1>2. Quiet(Notices(queued)) /\ Quiet(<<e>>)  BY QuietNotices, QuietOnes DEF TalkInv
<1> DEFINE x == Notices(queued) \o <<e>>
<1>3. Quiet(x)  BY <1>2, QuietBoth
<1>4. memory' = memory \o x
  <2>1. (memory \o Notices(queued)) \o <<e>> = memory \o (Notices(queued) \o <<e>>)
    BY <1>2, Reassociate DEF TalkInv, Quiet
  <2> QED  BY <1>1, <2>1
<1> HIDE DEF x
<1>5. Len(memory) \in Nat /\ Len(memory') = Len(memory) + Len(x) /\ Len(x) \in Nat
  BY <1>3, <1>4, Concat, SeqFacts DEF TalkInv, Quiet
<1>6. disk' \in 0 .. Len(memory')  BY <1>5 DEF TalkInv, Run
<1>7. UNCHANGED <<replies, ran, batch, aborted>> /\ queued' \in Nat /\ pc = "idle" /\ pc' \in {"idle", "loop"}
  BY DEF Run
<1> QED  BY <1>3, <1>4, <1>6, <1>7, Adds

LEMMA NextRoundTalks == ASSUME TalkInv, NextRound PROVE TalkInv'
<1> DEFINE near == IF round' = MaxIterations - 1 \/ MaxIterations = 1 THEN <<User>> ELSE <<>>
           x == near \o Notices(queued)
<1>1. memory' = memory \o near \o Notices(queued)  BY DEF NextRound
<1>2. Quiet(Notices(queued))  BY QuietNotices DEF TalkInv
<1>3. Quiet(near)
  <2>1. near = <<User>> \/ near = <<>>  OBVIOUS
  <2>2. Quiet(<<User>>) /\ Quiet(<<>>)  BY QuietOnes
  <2> HIDE DEF near
  <2> QED  BY <2>1, <2>2
<1> HIDE DEF near
<1>4. Quiet(x)  BY <1>2, <1>3, QuietBoth
<1>5. memory' = memory \o x
  <2>1. (memory \o near) \o Notices(queued) = memory \o (near \o Notices(queued))
    BY <1>2, <1>3, Reassociate DEF TalkInv, Quiet
  <2> QED  BY <1>1, <2>1
<1> HIDE DEF x
<1>6. Len(memory) \in Nat /\ Len(memory') = Len(memory) + Len(x) /\ Len(x) \in Nat
  BY <1>4, <1>5, Concat, SeqFacts DEF TalkInv, Quiet
<1>7. disk' \in 0 .. Len(memory')  BY <1>6 DEF TalkInv, NextRound
<1>8. /\ UNCHANGED <<replies, ran, batch>> /\ queued' \in Nat /\ pc = "loop" /\ pc' = "barrier" /\ ~aborted
  BY DEF NextRound
<1> QED  BY <1>4, <1>5, <1>7, <1>8, Adds

LEMMA EmptyReplyTalks == ASSUME TalkInv, EmptyReply PROVE TalkInv'
<1>1. /\ UNCHANGED <<replies, ran, batch, disk, queued, aborted>> /\ pc = "model" /\ pc' \in {"idle", "loop"}
  BY DEF EmptyReply, Return
<1>2. queued' \in Nat  BY <1>1 DEF TalkInv
<1>3. CASE memory' = Append(memory, User)  BY <1>1, <1>2, <1>3, AddsOne
<1>4. ASSUME NEW e \in {User, Said}, memory' = memory \o <<Said, e>> PROVE TalkInv'
  <2>1. Quiet(<<Said, e>>)  BY QuietOnes
  <2>2. Len(memory) \in Nat /\ Len(memory') = Len(memory) + Len(<<Said, e>>) /\ Len(<<Said, e>>) \in Nat
    <3>1. IsSeq(<<Said, e>>)  BY Tuples
    <3> QED  BY <1>4, <3>1, Concat, SeqFacts DEF TalkInv
  <2>3. disk' \in 0 .. Len(memory')  BY <1>1, <2>2 DEF TalkInv
  <2> QED  BY <1>1, <1>2, <1>4, <2>1, <2>3, Adds
<1> QED  BY <1>3, <1>4 DEF EmptyReply

LEMMA RequestTalks == ASSUME TalkInv, Request PROVE TalkInv'
<1>1. Len(memory) \in Nat /\ pc = "barrier" /\ pc' = "model"
      /\ UNCHANGED <<memory, replies, ran, batch, queued, aborted>>
  BY SeqFacts DEF TalkInv, Request
<1>2. disk' \in 0 .. Len(memory')  BY <1>1 DEF Request, Flushed
<1>3. LeftOver' /\ BatchIsLast' /\ SlotsAreTrue'
  BY <1>1 DEF TalkInv, LeftOver, BatchIsLast, SlotsAreTrue
<1> QED  BY <1>1, <1>2, <1>3 DEF TalkInv

LEMMA ToolReplyTalks ==
  ASSUME TalkInv, NEW ids \in Ids, NEW parallel \in BOOLEAN, ToolReply(ids, parallel)
  PROVE  TalkInv'
<1>1. /\ memory' = memory \o <<Calls(replies + 1, ids)>> /\ replies' = replies + 1
      /\ UNCHANGED <<disk, queued, ran>> /\ pc = "model" /\ pc' = "batch" /\ ~aborted
      /\ batch' = [i \in DOMAIN ids |-> [stage |-> "queued", how |-> "refused"]]
  BY Appended DEF TalkInv, ToolReply
<1>2. \A k \in 1 .. Len(memory) : \A id \in CallId : ~Unanswered(memory, k, id)
  BY <1>1 DEF TalkInv, LeftOver
<1>3. /\ IsSeq(memory') /\ Shaped(memory', replies') /\ Paired(memory') /\ Honest(memory', ran)
      /\ Len(memory') = Len(memory) + 1
      /\ memory'[Len(memory')] = Calls(replies + 1, ids)
      /\ \A i \in DOMAIN ids : Unanswered(memory', Len(memory'), ids[i])
      /\ \A k \in 1 .. Len(memory') : \A id \in CallId : Unanswered(memory', k, id) =>
            k = Len(memory') /\ \E i \in DOMAIN ids : ids[i] = id
  <2>1. IsSeq(memory) /\ replies \in Nat /\ Shaped(memory, replies) /\ Paired(memory) /\ Honest(memory, ran)
    BY DEF TalkInv
  <2>2. PICK s : s = replies + 1  OBVIOUS
  <2> DEFINE w == memory \o <<Calls(s, ids)>>
  <2>4. /\ IsSeq(w) /\ Shaped(w, s) /\ Paired(w) /\ Honest(w, ran) /\ Len(w) = Len(memory) + 1
        /\ w[Len(w)] = Calls(s, ids) /\ \A i \in DOMAIN ids : Unanswered(w, Len(w), ids[i])
        /\ \A k \in 1 .. Len(w) : \A id \in CallId : Unanswered(w, k, id) =>
              k = Len(w) /\ \E i \in DOMAIN ids : ids[i] = id
    BY <1>2, <2>1, <2>2, CallsKeep
  <2>5. memory' = w /\ s = replies'  BY <1>1, <2>2
  <2> HIDE DEF w
  <2> QED  BY <1>1, <2>2, <2>4, <2>5
<1>4. Len(memory) \in Nat /\ Len(memory') \in 1 .. Len(memory')  BY <1>3, SeqFacts DEF TalkInv
<1>5. \A i \in DOMAIN batch' : batch'[i] = [stage |-> "queued", how |-> "refused"]  BY <1>1
<1>6. LET e == memory'[Len(memory')] IN e.is = "calls" /\ e.n = replies' /\ e.ids = ids
  BY <1>1, <1>3 DEF Calls
<1>7. batch' \in Seq([stage : Stage, how : How])
  <2>1. PICK n \in Nat : DOMAIN ids = 1 .. n
    <3>1. PICK n \in 0 .. MaxCalls : ids \in [1 .. n -> CallId]  BY DEF Ids, SeqOf
    <3>2. n \in Nat  BY AgentAssumption, <3>1
    <3> QED  BY <3>1, <3>2
  <2>2. [stage |-> "queued", how |-> "refused"] \in [stage : Stage, how : How]  BY DEF Stage, How
  <2> DEFINE Slot == [stage : Stage, how : How]
  <2>3. batch' \in [1 .. n -> Slot]  BY <1>1, <2>1, <2>2
  <2> HIDE DEF Slot
  <2>4. batch' \in Seq(Slot)  BY <2>1, <2>3, SeqDef
  <2> QED  BY <2>4 DEF Slot
<1>8. LeftOver'
  <2> SUFFICES ASSUME NEW k \in 1 .. Len(memory'), NEW id \in CallId, Unanswered(memory', k, id)
               PROVE  /\ memory'[k].n = replies'
                      /\ \E i \in DOMAIN batch' : memory'[k].ids[i] = id /\ batch'[i].stage # "done"
    BY <1>1 DEF LeftOver, Pending
  <2>1. k = Len(memory') /\ \E i \in DOMAIN ids : ids[i] = id  BY <1>3
  <2> QED  BY <1>1, <1>5, <1>6, <2>1
<1>9. BatchIsLast'
  <2>1. \A i \in DOMAIN batch' : Unanswered(memory', Len(memory'), memory'[Len(memory')].ids[i])
    BY <1>1, <1>3, <1>6
  <2>2. DOMAIN memory'[Len(memory')].ids = DOMAIN batch'  BY <1>1, <1>6
  <2> QED  BY <1>4, <1>6, <2>1, <2>2 DEF BatchIsLast
<1>10. SlotsAreTrue'
  <2> SUFFICES ASSUME NEW i \in DOMAIN batch' PROVE <<replies', i>> \notin ran
    BY <1>1, <1>5 DEF SlotsAreTrue
  <2> QED  BY <1>1 DEF TalkInv
<1>11. \A c \in ran' : c[1] \in 0 .. replies'  BY <1>1 DEF TalkInv
<1>12. disk' \in 0 .. Len(memory') /\ replies' \in Nat /\ queued' \in Nat  BY <1>1, <1>3, <1>4 DEF TalkInv
<1> QED  BY <1>1, <1>3, <1>7, <1>8, <1>9, <1>10, <1>11, <1>12 DEF TalkInv

(* what a batch knows of its response *)
LEMMA OfBatch ==
  ASSUME TalkInv, pc = "batch"
  PROVE  \E k \in 1 .. Len(memory) :
            /\ memory[k].is = "calls" /\ memory[k].n = replies /\ DOMAIN memory[k].ids = DOMAIN batch
            /\ \A i \in DOMAIN batch : Pending(i) => Unanswered(memory, k, memory[k].ids[i])
            /\ \A h \in 1 .. Len(memory) : memory[h].is = "calls" /\ memory[h].n = replies => h = k
            /\ LastIds = memory[k].ids
<1>1. PICK k \in 1 .. Len(memory) :
        /\ memory[k].is = "calls" /\ memory[k].n = replies /\ DOMAIN memory[k].ids = DOMAIN batch
        /\ \A i \in DOMAIN batch : Pending(i) => Unanswered(memory, k, memory[k].ids[i])
  BY DEF TalkInv, BatchIsLast
<1>2. \A h \in 1 .. Len(memory) : memory[h].is = "calls" /\ memory[h].n = replies => h = k
  BY <1>1 DEF TalkInv, Shaped
<1>3. DOMAIN memory = 1 .. Len(memory)  BY SeqFacts DEF TalkInv
<1>4. LastIds = memory[k].ids  BY <1>1, <1>2, <1>3 DEF LastIds
<1> QED  BY <1>1, <1>2, <1>4

(* a call of the batch goes on, and its body may have been started *)
LEMMA Moves ==
  ASSUME TalkInv, pc = "batch", NEW i \in DOMAIN batch, NEW slot \in [stage : Stage, how : How],
         batch' = [batch EXCEPT ![i] = slot], batch[i].stage # "done",
         UNCHANGED <<memory, pc, replies, fanOut, queued>>, disk' \in 0 .. Len(memory),
         fanOut \/ slot.stage # "done",
         ran' = ran \/ ran' = ran \cup {<<replies, i>>},
         slot.stage = "body" => <<replies, i>> \in ran',
         slot.stage \notin {"body", "done"} => <<replies, i>> \notin ran',
         slot.stage # "done" => slot.how = "refused",
         slot.stage = "done" => Fits(slot.how, <<replies, i>>, ran')
  PROVE  TalkInv'
<1>1. PICK k \in 1 .. Len(memory) :
        /\ memory[k].is = "calls" /\ memory[k].n = replies /\ DOMAIN memory[k].ids = DOMAIN batch
        /\ \A j \in DOMAIN batch : Pending(j) => Unanswered(memory, k, memory[k].ids[j])
  BY OfBatch
<1>2. /\ batch' \in Seq([stage : Stage, how : How]) /\ DOMAIN batch' = DOMAIN batch
      /\ batch'[i] = slot /\ \A j \in DOMAIN batch : j # i => batch'[j] = batch[j]
  <2>1. batch \in Seq([stage : Stage, how : How])  BY DEF TalkInv
  <2>2. i \in 1 .. Len(batch)  BY <2>1, LenProperties
  <2>3. batch' \in Seq([stage : Stage, how : How])  BY <2>1, <2>2, ExceptSeq
  <2> QED  BY <2>3
<1>3. \A j \in DOMAIN batch : Pending(j)' => Pending(j)  BY <1>2 DEF Pending
<1>4. Honest(memory', ran')
  <2>1. Honest(memory, ran)  BY DEF TalkInv
  <2>2. Unanswered(memory, k, memory[k].ids[i])  BY <1>1 DEF Pending
  <2>3. Honest(memory, ran \cup {<<replies, i>>})
    BY <1>1, <2>2, StartKeeps DEF TalkInv
  <2> QED  BY <2>1, <2>3
<1>5. LeftOver'
  <2> SUFFICES ASSUME NEW h \in 1 .. Len(memory), NEW id \in CallId, Unanswered(memory, h, id)
               PROVE  /\ memory[h].n = replies
                      /\ \E j \in DOMAIN batch' : memory[h].ids[j] = id /\ Pending(j)'
    BY DEF LeftOver
  <2>1. memory[h].n = replies /\ \E j \in DOMAIN batch : memory[h].ids[j] = id /\ Pending(j)
    BY DEF TalkInv, LeftOver
  <2>2. \A j \in DOMAIN batch : Pending(j) => Pending(j)'  BY <1>2 DEF Pending
  <2> QED  BY <1>2, <2>1, <2>2
<1>6. BatchIsLast'
  <2>1. \A j \in DOMAIN batch' : Pending(j)' => Unanswered(memory', k, memory'[k].ids[j])
    BY <1>1, <1>2, <1>3
  <2>2. /\ k \in 1 .. Len(memory') /\ memory'[k].is = "calls" /\ memory'[k].n = replies'
        /\ DOMAIN memory'[k].ids = DOMAIN batch'
    BY <1>1, <1>2
  <2> QED  BY <2>1, <2>2 DEF BatchIsLast
<1>7. SlotsAreTrue'
  <2> SUFFICES ASSUME NEW j \in DOMAIN batch
               PROVE  /\ batch'[j].stage = "body" => <<replies, j>> \in ran'
                      /\ batch'[j].stage \notin {"body", "done"} => <<replies, j>> \notin ran'
                      /\ batch'[j].stage # "done" => batch'[j].how = "refused"
                      /\ batch'[j].stage = "done" => Fits(batch'[j].how, <<replies, j>>, ran')
    BY <1>2 DEF SlotsAreTrue
  <2>1. CASE j = i  BY <1>2, <2>1
  <2>2. CASE j # i
    <3>1. <<replies, j>> \in ran' <=> <<replies, j>> \in ran  BY <2>2
    <3> QED  BY <1>2, <2>2, <3>1 DEF TalkInv, SlotsAreTrue, Fits
  <2> QED  BY <2>1, <2>2
<1>8. \A c \in ran' : c[1] \in 0 .. replies'
  BY DEF TalkInv
<1> QED  BY <1>2, <1>4, <1>5, <1>6, <1>7, <1>8 DEF TalkInv

(* a call of the batch is settled with what is true of it *)
LEMMA Settles ==
  ASSUME TalkInv, pc = "batch", NEW i \in DOMAIN batch, NEW how \in How, Settle(i, how),
         batch[i].stage # "done", Fits(how, <<replies, i>>, ran),
         UNCHANGED <<pc, replies, fanOut, queued, disk, ran>>
  PROVE  TalkInv'
<1> DEFINE slot == [stage |-> "done", how |-> how]
<1>1. batch' = [batch EXCEPT ![i] = slot] /\ slot \in [stage : Stage, how : How]
  BY DEF Settle, Stage
<1>2. slot.stage = "done" /\ slot.how = how  OBVIOUS
<1> HIDE DEF slot
<1>3. CASE fanOut
  <2>1. UNCHANGED memory /\ disk' \in 0 .. Len(memory)  BY <1>3 DEF Settle, TalkInv
  <2> QED  BY <1>1, <1>2, <1>3, <2>1, Moves
<1>4. CASE ~fanOut
  <2>1. PICK k \in 1 .. Len(memory) :
          /\ memory[k].is = "calls" /\ memory[k].n = replies /\ DOMAIN memory[k].ids = DOMAIN batch
          /\ \A j \in DOMAIN batch : Pending(j) => Unanswered(memory, k, memory[k].ids[j])
          /\ \A h \in 1 .. Len(memory) : memory[h].is = "calls" /\ memory[h].n = replies => h = k
          /\ LastIds = memory[k].ids
    BY OfBatch
  <2> DEFINE id == memory[k].ids[i]
             e == Answer(id, how)
  <2>2. memory' = memory \o <<e>>  BY <1>4, <2>1, Appended DEF Settle, TalkInv
  <2>3. e.is = "answer" /\ e.id = id /\ e.how = how  BY DEF Answer
  <2>4. id \in CallId /\ \A j \in DOMAIN batch : memory[k].ids[j] = id => j = i
    BY <2>1 DEF TalkInv, Shaped
  <2>5. Unanswered(memory, k, id)  BY <2>1 DEF Pending
  <2> HIDE DEF id, e
  <2>6. IsSeq(<<e>>) /\ Len(<<e>>) = 1 /\ <<e>>[1] = e  BY Tuples
  <2>7. \A h \in 1 .. Len(memory) : Unanswered(memory, h, id) => h = k
    BY <2>5, CalledOnce DEF TalkInv
  <2>8. Replying(memory, <<e>>, ran)
    <3>1. \A h \in 1 .. Len(memory) : \A j \in DOMAIN memory[h].ids :
            Unanswered(memory, h, id) /\ memory[h].ids[j] = id => Fits(how, <<memory[h].n, j>>, ran)
      BY <2>1, <2>4, <2>7
    <3> QED  BY <2>3, <2>5, <2>6, <3>1 DEF Replying
  <2>9. /\ IsSeq(memory') /\ Shaped(memory', replies) /\ Paired(memory') /\ Honest(memory', ran)
        /\ \A h \in 1 .. Len(memory') : \A d : Unanswered(memory', h, d) =>
              Unanswered(memory, h, d) /\ \A j \in 1 .. Len(<<e>>) : <<e>>[j].is = "answer" => <<e>>[j].id # d
        /\ \A h \in 1 .. Len(memory) : \A d :
              (Unanswered(memory, h, d) /\ \A j \in 1 .. Len(<<e>>) : <<e>>[j].is = "answer" => <<e>>[j].id # d)
                => Unanswered(memory', h, d)
    BY <2>2, <2>6, <2>8, ReplyingKeeps DEF TalkInv
  <2>10. /\ \A h \in 1 .. Len(memory') : \A d : Unanswered(memory', h, d) => Unanswered(memory, h, d) /\ d # id
         /\ \A h \in 1 .. Len(memory) : \A d : Unanswered(memory, h, d) /\ d # id => Unanswered(memory', h, d)
    BY <2>3, <2>6, <2>9
  <2>11. /\ Len(memory) \in Nat /\ Len(memory') = Len(memory) + 1
         /\ \A h \in 1 .. Len(memory) : memory'[h] = memory[h]
    BY <2>2, <2>6, Concat, SeqFacts DEF TalkInv
  <2>12. /\ batch' \in Seq([stage : Stage, how : How]) /\ DOMAIN batch' = DOMAIN batch
         /\ batch'[i] = slot /\ \A j \in DOMAIN batch : j # i => batch'[j] = batch[j]
    <3>1. batch \in Seq([stage : Stage, how : How])  BY DEF TalkInv
    <3>2. i \in 1 .. Len(batch)  BY <3>1, LenProperties
    <3>3. batch' \in Seq([stage : Stage, how : How])  BY <1>1, <3>1, <3>2, ExceptSeq
    <3> QED  BY <1>1, <3>3
  <2>13. \A j \in DOMAIN batch : Pending(j)' <=> Pending(j) /\ j # i
    BY <1>2, <1>4, <2>12 DEF Pending
  <2>14. LeftOver'
    <3> SUFFICES ASSUME NEW h \in 1 .. Len(memory'), NEW d \in CallId, Unanswered(memory', h, d)
                 PROVE  /\ memory'[h].n = replies
                        /\ \E j \in DOMAIN batch' : memory'[h].ids[j] = d /\ Pending(j)'
      BY DEF LeftOver
    <3>1. Unanswered(memory, h, d) /\ d # id /\ h \in 1 .. Len(memory) /\ memory'[h] = memory[h]
      BY <2>10, <2>11 DEF Unanswered
    <3>2. memory[h].n = replies /\ \E j \in DOMAIN batch : memory[h].ids[j] = d /\ Pending(j)
      BY <3>1 DEF TalkInv, LeftOver
    <3>3. h = k
      <4>1. memory[h].is = "calls"  BY <3>1 DEF Unanswered, Since, CallOf
      <4> QED  BY <2>1, <3>1, <3>2, <4>1
    <3>4. PICK j \in DOMAIN batch : memory[h].ids[j] = d /\ Pending(j)  BY <3>2
    <3>5. j # i  BY <3>1, <3>3, <3>4 DEF id
    <3> QED  BY <2>12, <2>13, <3>1, <3>2, <3>4, <3>5
  <2>15. BatchIsLast'
    <3>1. k \in 1 .. Len(memory') /\ memory'[k] = memory[k]  BY <2>11
    <3>2. \A j \in DOMAIN batch' : Pending(j)' => Unanswered(memory', k, memory'[k].ids[j])
      BY <2>1, <2>4, <2>10, <2>12, <2>13, <3>1
    <3> QED  BY <2>1, <2>12, <3>1, <3>2 DEF BatchIsLast
  <2>16. SlotsAreTrue'
    <3> SUFFICES ASSUME NEW j \in DOMAIN batch
                 PROVE  /\ batch'[j].stage = "body" => <<replies, j>> \in ran
                        /\ batch'[j].stage \notin {"body", "done"} => <<replies, j>> \notin ran
                        /\ batch'[j].stage # "done" => batch'[j].how = "refused"
                        /\ batch'[j].stage = "done" => Fits(batch'[j].how, <<replies, j>>, ran)
      BY <2>12 DEF SlotsAreTrue
    <3>1. CASE j = i  BY <1>2, <2>12, <3>1
    <3>2. CASE j # i  BY <2>12, <3>2 DEF TalkInv, SlotsAreTrue
    <3> QED  BY <3>1, <3>2
  <2>17. disk' \in 0 .. Len(memory')  BY <2>11 DEF TalkInv
  <2> QED  BY <2>9, <2>12, <2>14, <2>15, <2>16, <2>17 DEF TalkInv
<1> QED  BY <1>3, <1>4

(* the steps of one call *)
LEMMA CallTalks ==
  ASSUME TalkInv, NEW i \in DOMAIN batch,
         \/ StartCall(i) \/ Gate(i) \/ Asked(i) \/ CallRefused(i) \/ CallBarrier(i)
         \/ FlushFails(i) \/ CallBarrierMasked(i) \/ BodyEnds(i)
  PROVE  TalkInv'
<1>1. /\ pc = "batch" /\ UNCHANGED <<pc, fanOut, queued, replies>>
      /\ batch[i].stage \in {"queued", "gate", "asking", "barrier", "body"}
  BY DEF StartCall, Gate, Asked, CallBarrier, CallRefused, FlushFails, CallBarrierMasked, BodyEnds,
     AtCall, CallKeeps
<1>2. /\ batch[i] \in [stage : Stage, how : How] /\ disk \in 0 .. Len(memory)
      /\ batch[i].stage = "body" => <<replies, i>> \in ran
      /\ batch[i].stage # "body" => <<replies, i>> \notin ran
      /\ batch[i].how = "refused"
  <2>1. batch \in Seq([stage : Stage, how : How])  BY DEF TalkInv
  <2>2. i \in 1 .. Len(batch)  BY <2>1, LenProperties
  <2>3. batch[i] \in [stage : Stage, how : How]  BY <2>1, <2>2, ElementOfSeq
  <2> QED  BY <1>1, <2>3 DEF TalkInv, SlotsAreTrue
<1>3. ASSUME NEW s \in {"gate", "asking", "barrier"}, batch' = [batch EXCEPT ![i].stage = s],
             UNCHANGED <<memory, disk, ran>>, batch[i].stage # "body"
      PROVE  TalkInv'
  <2> DEFINE slot == [batch[i] EXCEPT !.stage = s]
  <2>1. slot \in [stage : Stage, how : How] /\ slot.stage = s /\ slot.how = "refused"  BY <1>2 DEF Stage
  <2>2. batch' = [batch EXCEPT ![i] = slot]  BY <1>3
  <2> HIDE DEF slot
  <2>3. slot.stage \notin {"body", "done"} /\ batch[i].stage # "done"  BY <1>1, <2>1
  <2> QED  BY <1>1, <1>2, <1>3, <2>1, <2>2, <2>3, Moves
<1>4. ASSUME batch' = [batch EXCEPT ![i].stage = "body"], ran' = ran \cup {<<replies, i>>},
             UNCHANGED memory, disk' \in 0 .. Len(memory)
      PROVE  TalkInv'
  <2> DEFINE slot == [batch[i] EXCEPT !.stage = "body"]
  <2>1. slot \in [stage : Stage, how : How] /\ slot.stage = "body" /\ slot.how = "refused"  BY <1>2 DEF Stage
  <2>2. batch' = [batch EXCEPT ![i] = slot]  BY <1>4
  <2> HIDE DEF slot
  <2>3. slot.stage # "done" /\ batch[i].stage # "done" /\ <<replies, i>> \in ran'  BY <1>1, <1>4, <2>1
  <2> QED  BY <1>1, <1>4, <2>1, <2>2, <2>3, Moves
<1>5. ASSUME Settle(i, "refused"), UNCHANGED <<disk, ran>>, batch[i].stage # "body" PROVE TalkInv'
  <2>1. "refused" \in How /\ Fits("refused", <<replies, i>>, ran) /\ batch[i].stage # "done"
    BY <1>1, <1>2, <1>5 DEF How, Fits
  <2> QED  BY <1>1, <1>5, <2>1, Settles
<1>6. ASSUME Settle(i, "ran"), UNCHANGED <<disk, ran>>, batch[i].stage = "body" PROVE TalkInv'
  <2>1. "ran" \in How /\ Fits("ran", <<replies, i>>, ran) /\ batch[i].stage # "done"
    BY <1>1, <1>2, <1>6 DEF How, Fits
  <2> QED  BY <1>1, <1>6, <2>1, Settles
<1>7. ASSUME Dispatch(i), batch[i].stage # "body" PROVE TalkInv'
  BY <1>2, <1>3, <1>4, <1>7 DEF Dispatch
<1>8. CASE StartCall(i)  BY <1>3, <1>8 DEF StartCall, AtCall
<1>9. CASE Gate(i)  BY <1>3, <1>5, <1>7, <1>9 DEF Gate, AtCall
<1>10. CASE Asked(i)  BY <1>5, <1>7, <1>10 DEF Asked, AtCall
<1>11. CASE CallBarrier(i)
  <2>1. Len(memory) \in 0 .. Len(memory)  BY SeqFacts DEF TalkInv
  <2> QED  BY <1>4, <1>11, <2>1 DEF CallBarrier, Flushed
<1>12. CASE CallRefused(i)  BY <1>5, <1>12 DEF CallRefused, AtCall
<1>13. CASE BodyEnds(i)  BY <1>6, <1>13 DEF BodyEnds, AtCall
<1>14. CASE FlushFails(i)  BY <1>5, <1>14 DEF FlushFails, AtCall
<1>15. CASE CallBarrierMasked(i)  BY <1>2, <1>4, <1>15 DEF CallBarrierMasked
<1> QED  BY <1>8, <1>9, <1>10, <1>11, <1>12, <1>13, <1>14, <1>15

(* the results of a parallel batch, in model order *)
LEMMA BatchResults ==
  ASSUME TalkInv, pc = "batch", fanOut,
         \A i \in DOMAIN batch : batch[i].stage = "done" \/ batch[i].stage = "queued",
         NEW answers, answers = [i \in DOMAIN batch |-> Answer(LastIds[i], batch[i].how)]
  PROVE  /\ IsSeq(answers) /\ Replying(memory, answers, ran)
         /\ \A k \in 1 .. Len(memory) : \A id \in CallId : Unanswered(memory, k, id) =>
               \E j \in 1 .. Len(answers) : answers[j].is = "answer" /\ answers[j].id = id
<1>1. PICK k \in 1 .. Len(memory) :
        /\ memory[k].is = "calls" /\ memory[k].n = replies /\ DOMAIN memory[k].ids = DOMAIN batch
        /\ \A j \in DOMAIN batch : Pending(j) => Unanswered(memory, k, memory[k].ids[j])
        /\ \A h \in 1 .. Len(memory) : memory[h].is = "calls" /\ memory[h].n = replies => h = k
        /\ LastIds = memory[k].ids
  BY OfBatch
<1> DEFINE ids == memory[k].ids
           R == {Answer(ids[i], batch[i].how) : i \in DOMAIN batch}
<1>2. batch \in Seq([stage : Stage, how : How]) /\ Len(batch) \in Nat /\ DOMAIN batch = 1 .. Len(batch)
  BY LenProperties DEF TalkInv
<1>3. answers \in [1 .. Len(batch) -> R] /\ \A i \in 1 .. Len(batch) : answers[i] = Answer(ids[i], batch[i].how)
  BY <1>1, <1>2
<1>4. /\ \A i \in 1 .. Len(batch) : \A j \in 1 .. Len(batch) : ids[i] = ids[j] => i = j
      /\ \A i \in 1 .. Len(batch) : Unanswered(memory, k, ids[i])
  BY <1>1, <1>2 DEF TalkInv, Shaped, Pending
<1> HIDE DEF ids, R
<1>5. answers \in Seq(R) /\ Len(answers) = Len(batch)
  <2>1. answers \in Seq(R)  BY <1>2, <1>3, SeqDef
  <2> QED  BY <1>2, <1>3, <2>1, LenProperties
<1>6. \A i \in 1 .. Len(batch) : answers[i].is = "answer" /\ answers[i].id = ids[i] /\ answers[i].how = batch[i].how
  BY <1>3 DEF Answer
<1>7. ASSUME NEW i \in 1 .. Len(batch) PROVE Fits(batch[i].how, <<replies, i>>, ran)
  <2>1. CASE batch[i].stage = "done"  BY <1>2, <2>1 DEF TalkInv, SlotsAreTrue
  <2>2. CASE batch[i].stage = "queued"
    <3>1. batch[i].how = "refused" /\ <<replies, i>> \notin ran  BY <1>2, <2>2 DEF TalkInv, SlotsAreTrue
    <3> QED  BY <3>1 DEF Fits
  <2> QED  BY <1>2, <2>1, <2>2
<1>8. Replying(memory, answers, ran)
  <2>1. ASSUME NEW j \in 1 .. Len(batch), NEW h \in 1 .. Len(memory), NEW i \in DOMAIN memory[h].ids,
               Unanswered(memory, h, ids[j]), memory[h].ids[i] = ids[j]
        PROVE  Fits(batch[j].how, <<memory[h].n, i>>, ran)
    <3>1. Unanswered(memory, k, ids[j])  BY <1>4
    <3>2. h = k  BY <2>1, <3>1, CalledOnce DEF TalkInv
    <3>3. memory[h].n = replies /\ memory[h].ids = ids /\ i \in 1 .. Len(batch)  BY <1>1, <1>2, <3>2 DEF ids
    <3>4. i = j  BY <1>4, <2>1, <3>3
    <3> QED  BY <1>7, <3>3, <3>4
  <2>2. \A j \in 1 .. Len(answers) : answers[j].is = "answer" =>
          /\ \E h \in 1 .. Len(memory) : Unanswered(memory, h, answers[j].id)
          /\ \A h \in 1 .. Len(memory) : \A i \in DOMAIN memory[h].ids :
                Unanswered(memory, h, answers[j].id) /\ memory[h].ids[i] = answers[j].id
                  => Fits(answers[j].how, <<memory[h].n, i>>, ran)
    <3>1. ASSUME NEW j \in 1 .. Len(answers)
          PROVE  /\ \E h \in 1 .. Len(memory) : Unanswered(memory, h, answers[j].id)
                 /\ \A h \in 1 .. Len(memory) : \A i \in DOMAIN memory[h].ids :
                       Unanswered(memory, h, answers[j].id) /\ memory[h].ids[i] = answers[j].id
                         => Fits(answers[j].how, <<memory[h].n, i>>, ran)
      <4>1. j \in 1 .. Len(batch) /\ answers[j].id = ids[j] /\ answers[j].how = batch[j].how  BY <1>5, <1>6
      <4>2. Unanswered(memory, k, ids[j])  BY <1>4, <4>1
      <4>3. \A h \in 1 .. Len(memory) : \A i \in DOMAIN memory[h].ids :
              Unanswered(memory, h, ids[j]) /\ memory[h].ids[i] = ids[j]
                => Fits(batch[j].how, <<memory[h].n, i>>, ran)
        BY <2>1, <4>1
      <4> QED  BY <1>1, <4>1, <4>2, <4>3
    <3> QED  BY <3>1
  <2>3. \A j \in 1 .. Len(answers) : answers[j].is # "calls"  BY <1>5, <1>6
  <2>4. \A i, j \in 1 .. Len(answers) :
          answers[i].is = "answer" /\ answers[j].is = "answer" /\ answers[i].id = answers[j].id => i = j
    <3> SUFFICES ASSUME NEW i \in 1 .. Len(answers), NEW j \in 1 .. Len(answers), answers[i].id = answers[j].id
                 PROVE  i = j
      OBVIOUS
    <3>1. i \in 1 .. Len(batch) /\ answers[i].id = ids[i] /\ j \in 1 .. Len(batch) /\ answers[j].id = ids[j]
      BY <1>5, <1>6
    <3> QED  BY <1>4, <3>1
  <2> QED  BY <2>2, <2>3, <2>4 DEF Replying
<1>9. ASSUME NEW h \in 1 .. Len(memory), NEW id \in CallId, Unanswered(memory, h, id)
      PROVE  \E j \in 1 .. Len(answers) : answers[j].is = "answer" /\ answers[j].id = id
  <2>1. memory[h].n = replies /\ \E j \in DOMAIN batch : memory[h].ids[j] = id /\ Pending(j)
    BY <1>9 DEF TalkInv, LeftOver
  <2>2. memory[h].is = "calls"  BY <1>9 DEF Unanswered, Since, CallOf
  <2>3. h = k  BY <1>1, <2>1, <2>2
  <2> QED  BY <1>2, <1>5, <1>6, <2>1, <2>3 DEF ids
<1> QED  BY <1>5, <1>8, <1>9 DEF IsSeq

(* hints behind the results are quiet *)
LEMMA ReplyingThenQuiet ==
  ASSUME NEW m, NEW x, NEW t, NEW q, IsSeq(x), Quiet(t), Replying(m, x, q)
  PROVE  LET w == x \o t IN
         /\ IsSeq(w) /\ Replying(m, w, q)
         /\ \A j \in 1 .. Len(x) : j \in 1 .. Len(w) /\ w[j] = x[j]
<1> PICK w : w = x \o t  OBVIOUS
<1>1. /\ IsSeq(w) /\ Len(w) = Len(x) + Len(t) /\ Len(x) \in Nat /\ Len(t) \in Nat
      /\ \A j \in 1 .. Len(x) : w[j] = x[j]
      /\ \A j \in 1 .. Len(w) : j \in 1 .. Len(x) \/ (j - Len(x) \in 1 .. Len(t) /\ w[j] = t[j - Len(x)])
  <2>1. IsSeq(t)  BY DEF Quiet
  <2> QED  BY <2>1, Longer
<1>2. \A j \in 1 .. Len(w) : (j \in 1 .. Len(x) /\ w[j] = x[j]) \/ w[j].is \notin {"calls", "answer"}
  BY <1>1 DEF Quiet
<1>3. \A j \in 1 .. Len(w) : w[j].is # "calls"  BY <1>2 DEF Replying
<1>4. \A j \in 1 .. Len(w) : w[j].is = "answer" =>
          /\ \E k \in 1 .. Len(m) : Unanswered(m, k, w[j].id)
          /\ \A k \in 1 .. Len(m) : \A i \in DOMAIN m[k].ids :
                Unanswered(m, k, w[j].id) /\ m[k].ids[i] = w[j].id => Fits(w[j].how, <<m[k].n, i>>, q)
  <2> SUFFICES ASSUME NEW j \in 1 .. Len(w), w[j].is = "answer"
               PROVE  /\ \E k \in 1 .. Len(m) : Unanswered(m, k, w[j].id)
                      /\ \A k \in 1 .. Len(m) : \A i \in DOMAIN m[k].ids :
                            Unanswered(m, k, w[j].id) /\ m[k].ids[i] = w[j].id
                              => Fits(w[j].how, <<m[k].n, i>>, q)
    OBVIOUS
  <2>1. j \in 1 .. Len(x) /\ w[j] = x[j]  BY <1>2
  <2> QED  BY <2>1 DEF Replying
<1>5. \A i, j \in 1 .. Len(w) : w[i].is = "answer" /\ w[j].is = "answer" /\ w[i].id = w[j].id => i = j
  <2> SUFFICES ASSUME NEW i \in 1 .. Len(w), NEW j \in 1 .. Len(w),
                      w[i].is = "answer", w[j].is = "answer", w[i].id = w[j].id
               PROVE  i = j
    OBVIOUS
  <2>1. i \in 1 .. Len(x) /\ w[i] = x[i] /\ j \in 1 .. Len(x) /\ w[j] = x[j]  BY <1>2
  <2> QED  BY <2>1 DEF Replying
<1> QED  BY <1>1, <1>3, <1>4, <1>5 DEF Replying

LEMMA EndBatchTalks == ASSUME TalkInv, EndBatch PROVE TalkInv'
<1> DEFINE answers == IF fanOut THEN [i \in DOMAIN batch |-> Answer(LastIds[i], batch[i].how)]
                      ELSE <<>>
<1>1. PICK hints \in {<<>>, <<User>>} : memory' = memory \o answers \o hints  BY DEF EndBatch
<1>2. /\ pc = "batch" /\ pc' \in {"idle", "loop"} /\ batch' = <<>>
      /\ UNCHANGED <<disk, queued, replies, ran, aborted>>
      /\ \A i \in DOMAIN batch : batch[i].stage = "done" \/ (batch[i].stage = "queued" /\ aborted)
  BY DEF EndBatch, Return
<1>3. Quiet(hints)
  <2>1. Quiet(<<>>) /\ Quiet(<<User>>)  BY QuietOnes
  <2> QED  BY <2>1
<1>4. /\ IsSeq(answers) /\ Replying(memory, answers, ran)
      /\ \A k \in 1 .. Len(memory) : \A id \in CallId : Unanswered(memory, k, id) =>
            aborted \/ \E j \in 1 .. Len(answers) : answers[j].is = "answer" /\ answers[j].id = id
  <2>1. CASE fanOut
    <3>1. answers = [i \in DOMAIN batch |-> Answer(LastIds[i], batch[i].how)]  BY <2>1
    <3> HIDE DEF answers
    <3> QED  BY <1>2, <2>1, <3>1, BatchResults
  <2>2. CASE ~fanOut
    <3>1. answers = <<>> /\ IsSeq(<<>>) /\ Len(<<>>) = 0  BY <2>2, Tuples
    <3> HIDE DEF answers
    <3>2. Replying(memory, answers, ran)  BY <3>1 DEF Replying
    <3>3. ASSUME NEW k \in 1 .. Len(memory), NEW id \in CallId, Unanswered(memory, k, id) PROVE aborted
      <4>1. PICK i \in DOMAIN batch : Pending(i)  BY <1>2, <3>3 DEF TalkInv, LeftOver
      <4> QED  BY <1>2, <2>2, <4>1 DEF Pending
    <3> QED  BY <3>1, <3>2, <3>3
  <2> QED  BY <2>1, <2>2
<1> HIDE DEF answers
<1> DEFINE x == answers \o hints
<1>5. memory' = memory \o x
  <2>1. (memory \o answers) \o hints = memory \o (answers \o hints)
    BY <1>3, <1>4, Reassociate DEF TalkInv, Quiet
  <2> QED  BY <1>1, <2>1
<1>6. IsSeq(x) /\ Replying(memory, x, ran) /\ \A j \in 1 .. Len(answers) : j \in 1 .. Len(x) /\ x[j] = answers[j]
  <2>1. PICK w : w = x  OBVIOUS
  <2> HIDE DEF x
  <2>2. w = answers \o hints  BY <2>1 DEF x
  <2>3. IsSeq(w) /\ Replying(memory, w, ran) /\ \A j \in 1 .. Len(answers) : j \in 1 .. Len(w) /\ w[j] = answers[j]
    <3>1. IsSeq(answers) /\ Replying(memory, answers, ran)  BY <1>4
    <3> QED  BY <1>3, <2>2, <3>1, ReplyingThenQuiet
  <2> QED  BY <2>1, <2>3
<1> HIDE DEF x
<1>7. /\ IsSeq(memory') /\ Shaped(memory', replies) /\ Paired(memory') /\ Honest(memory', ran)
      /\ \A k \in 1 .. Len(memory') : \A id : Unanswered(memory', k, id) =>
            Unanswered(memory, k, id) /\ \A j \in 1 .. Len(x) : x[j].is = "answer" => x[j].id # id
  BY <1>5, <1>6, ReplyingKeeps DEF TalkInv
<1>8. LeftOver'
  <2> SUFFICES ASSUME NEW k \in 1 .. Len(memory'), NEW id \in CallId, Unanswered(memory', k, id) PROVE aborted
    BY <1>2 DEF LeftOver
  <2>1. Unanswered(memory, k, id) /\ \A j \in 1 .. Len(x) : x[j].is = "answer" => x[j].id # id  BY <1>7
  <2>2. k \in 1 .. Len(memory)  BY <2>1 DEF Unanswered
  <2> QED  BY <1>4, <1>6, <2>1, <2>2
<1>9. BatchIsLast' /\ SlotsAreTrue'  BY <1>2 DEF BatchIsLast, SlotsAreTrue
<1>10. disk' \in 0 .. Len(memory')
  <2>1. Len(memory) \in Nat /\ Len(x) \in Nat /\ Len(memory') = Len(memory) + Len(x)
    BY <1>5, <1>6, Concat, SeqFacts DEF TalkInv
  <2> QED  BY <1>2, <2>1 DEF TalkInv
<1>11. batch' \in Seq([stage : Stage, how : How])  BY <1>2
<1> QED  BY <1>2, <1>7, <1>8, <1>9, <1>10, <1>11 DEF TalkInv

LEMMA RefuseAllTalks == ASSUME TalkInv, RefuseAll PROVE TalkInv'
<1> DEFINE slot == [stage |-> "done", how |-> "refused"]
<1>1. /\ pc = "batch" /\ fanOut /\ UNCHANGED <<memory, disk, pc, fanOut, queued, replies, ran>>
      /\ batch' = [i \in DOMAIN batch |-> slot] /\ \A i \in DOMAIN batch : batch[i].stage = "queued"
  BY DEF RefuseAll, CallKeeps
<1>2. slot \in [stage : Stage, how : How] /\ slot.stage = "done" /\ slot.how = "refused"  BY DEF Stage, How
<1> HIDE DEF slot
<1>3. batch' \in Seq([stage : Stage, how : How]) /\ DOMAIN batch' = DOMAIN batch
  <2>1. Len(batch) \in Nat /\ DOMAIN batch = 1 .. Len(batch)  BY LenProperties DEF TalkInv
  <2>2. batch' \in [1 .. Len(batch) -> [stage : Stage, how : How]]  BY <1>1, <1>2, <2>1
  <2> QED  BY <1>1, <2>1, <2>2, SeqDef
<1>4. LeftOver'  BY <1>1, <1>3 DEF TalkInv, LeftOver, Pending
<1>5. BatchIsLast'  BY <1>1, <1>3 DEF TalkInv, BatchIsLast, Pending
<1>6. SlotsAreTrue'
  <2> SUFFICES ASSUME NEW i \in DOMAIN batch PROVE <<replies, i>> \notin ran
    BY <1>1, <1>2, <1>3 DEF SlotsAreTrue, Fits
  <2> QED  BY <1>1 DEF TalkInv, SlotsAreTrue
<1> QED  BY <1>1, <1>3, <1>4, <1>5, <1>6 DEF TalkInv

LEMMA CrashTalks == ASSUME TalkInv, Crash PROVE TalkInv'
<1>1. /\ disk' \in disk .. Len(memory) /\ memory' = SubSeq(memory, 1, disk') /\ pc' = "down"
      /\ batch' = <<>> /\ queued' = 0 /\ UNCHANGED <<replies, ran>>
  BY DEF Crash
<1>2. disk' \in 0 .. Len(memory)
  <2>1. Len(memory) \in Nat  BY SeqFacts DEF TalkInv
  <2> QED  BY <1>1, <2>1 DEF TalkInv
<1>3. IsSeq(memory') /\ Len(memory') = disk' /\ Shaped(memory', replies) /\ Paired(memory') /\ Honest(memory', ran)
  <2>1. PICK d : d = disk'  OBVIOUS
  <2>2. PICK w : w = memory'  OBVIOUS
  <2>3. IsSeq(memory) /\ Shaped(memory, replies) /\ Paired(memory) /\ Honest(memory, ran) /\ d \in 0 .. Len(memory)
    BY <1>2, <2>1 DEF TalkInv
  <2>4. w = SubSeq(memory, 1, d)  BY <1>1, <2>1, <2>2
  <2>5. IsSeq(w) /\ Len(w) = d /\ Shaped(w, replies) /\ Paired(w) /\ Honest(w, ran)
    BY <2>3, <2>4, RestKeeps
  <2> QED  BY <2>1, <2>2, <2>5
<1>4. LeftOver' /\ BatchIsLast' /\ SlotsAreTrue'  BY <1>1 DEF LeftOver, BatchIsLast, SlotsAreTrue
<1>5. batch' \in Seq([stage : Stage, how : How])  BY <1>1
<1>6. disk' \in 0 .. Len(memory') /\ queued' \in Nat
  <2>1. disk' \in Nat /\ Len(memory') = disk'  BY <1>2, <1>3
  <2>2. disk' \in 0 .. Len(memory')  BY <2>1
  <2>3. queued' \in Nat  BY <1>1
  <2> QED  BY <2>2, <2>3
<1> QED  BY <1>1, <1>3, <1>4, <1>5, <1>6 DEF TalkInv

(* the repair of a reopened transcript: one result for every id that lacks one *)
LEMMA Repairs ==
  ASSUME TalkInv, NEW x, x = SetToSeq({Answer(id, "unknown") : id \in Dangling(memory)})
  PROVE  /\ IsSeq(x) /\ Replying(memory, x, ran)
         /\ \A k \in 1 .. Len(memory) : \A id \in CallId : Unanswered(memory, k, id) =>
               \E j \in 1 .. Len(x) : x[j].is = "answer" /\ x[j].id = id
<1> DEFINE D == {Answer(id, "unknown") : id \in Dangling(memory)}
<1>1. IsFiniteSet(D)
  <2>1. IsFiniteSet(Dangling(memory))  BY AgentAssumption, FS_Subset DEF Dangling
  <2>2. [id \in Dangling(memory) |-> Answer(id, "unknown")] \in Surjection(Dangling(memory), D)
    BY DEF Surjection
  <2> QED  BY <2>1, <2>2, FS_Surjection
<1>2. \A e \in D : e.is = "answer" /\ e.how = "unknown" /\ e.id \in Dangling(memory) /\ e = Answer(e.id, "unknown")
  BY DEF Answer
<1>3. \A id \in Dangling(memory) : Answer(id, "unknown") \in D /\ Answer(id, "unknown").id = id
  BY DEF Answer
<1>4. x = SetToSeq(D)  OBVIOUS
<1> HIDE DEF D
<1> DEFINE n == Cardinality(D)
<1>5. n \in Nat /\ x \in [1 .. n -> D] /\ IsInjective(x)
  <2>1. n \in Nat /\ \E f \in [1 .. n -> D] : IsInjective(f)
    <3>1. n \in Nat /\ ExistsBijection(1 .. n, D)  BY <1>1, FS_CardinalityType
    <3> QED  BY <3>1 DEF ExistsBijection, Bijection, Injection, IsInjective
  <2> QED  BY <1>4, <2>1 DEF SetToSeq
<1>6. \A e \in D : \E j \in 1 .. n : x[j] = e
  <2>1. x \in Injection(1 .. n, D)  BY <1>5 DEF Injection
  <2>2. IsFiniteSet(1 .. n) /\ Cardinality(1 .. n) = n
    <3>1. Cardinality(1 .. n) = IF 1 > n THEN 0 ELSE n - 1 + 1  BY <1>5, FS_Interval
    <3> QED  BY <1>5, <3>1, FS_Interval
  <2>3. x \in Surjection(1 .. n, D)  BY <1>1, <2>1, <2>2, FS_Injection
  <2> QED  BY <2>3 DEF Surjection
<1> HIDE DEF n
<1>7. x \in Seq(D) /\ Len(x) = n
  <2>1. x \in Seq(D)  BY <1>5, SeqDef
  <2> QED  BY <1>5, <2>1, LenProperties
<1>8. ASSUME NEW k \in 1 .. Len(memory), NEW id \in CallId, Unanswered(memory, k, id) PROVE id \in Dangling(memory)
  <2>1. /\ memory[k].is = "calls" /\ \E i \in DOMAIN memory[k].ids : memory[k].ids[i] = id
        /\ \A l \in k + 1 .. Len(memory) : ~(memory[l].is = "answer" /\ memory[l].id = id)
    BY <1>8 DEF Unanswered, Since, CallOf, ResultOf
  <2>2. id \in Range(memory[k].ids)  BY <2>1 DEF Range
  <2>3. k \in DOMAIN memory  BY SeqFacts DEF TalkInv
  <2> QED  BY <2>1, <2>2, <2>3 DEF Dangling
<1>9. ASSUME NEW id \in Dangling(memory) PROVE \E k \in 1 .. Len(memory) : Unanswered(memory, k, id)
  <2>1. PICK k \in DOMAIN memory :
          /\ memory[k].is = "calls" /\ id \in Range(memory[k].ids)
          /\ \A l \in k + 1 .. Len(memory) : ~(memory[l].is = "answer" /\ memory[l].id = id)
    BY DEF Dangling
  <2>2. k \in 1 .. Len(memory) /\ Len(memory) \in Nat /\ id \in CallId /\ CallOf(memory, k, id)
    BY <2>1, SeqFacts DEF TalkInv, Dangling, CallOf, Range
  <2>3. ASSUME NEW h \in k + 1 .. Len(memory), CallOf(memory, h, id) PROVE FALSE
    <3>1. h \in 1 .. Len(memory) /\ k \in 1 .. h - 1  BY <2>2
    <3>2. PICK l \in k + 1 .. h - 1 : Reaches(memory, k, l, id)  BY <2>2, <2>3, <3>1 DEF TalkInv, Paired
    <3>3. l \in k + 1 .. Len(memory)  BY <2>2, <3>1, <3>2
    <3> QED  BY <2>1, <3>2, <3>3 DEF Reaches, ResultOf
  <2> QED  BY <2>1, <2>2, <2>3 DEF Unanswered, Since, ResultOf
<1>10. Replying(memory, x, ran)
  <2>1. \A j \in 1 .. Len(x) : x[j] \in D  BY <1>5, <1>7
  <2>2. \A i, j \in 1 .. Len(x) : x[i].id = x[j].id => i = j
    <3> SUFFICES ASSUME NEW i \in 1 .. Len(x), NEW j \in 1 .. Len(x), x[i].id = x[j].id PROVE i = j
      OBVIOUS
    <3>1. x[i] = x[j]  BY <1>2, <2>1
    <3> QED  BY <1>5, <1>7, <3>1 DEF IsInjective
  <2>3. ASSUME NEW j \in 1 .. Len(x)
        PROVE  /\ x[j].is = "answer" /\ x[j].how = "unknown"
               /\ \E k \in 1 .. Len(memory) : Unanswered(memory, k, x[j].id)
    BY <1>2, <1>9, <2>1
  <2>4. \A c : Fits("unknown", c, ran)  BY DEF Fits
  <2> QED  BY <2>2, <2>3, <2>4 DEF Replying
<1>11. ASSUME NEW k \in 1 .. Len(memory), NEW id \in CallId, Unanswered(memory, k, id)
       PROVE  \E j \in 1 .. Len(x) : x[j].is = "answer" /\ x[j].id = id
  <2>1. Answer(id, "unknown") \in D /\ Answer(id, "unknown").id = id  BY <1>3, <1>8, <1>11
  <2>2. PICK j \in 1 .. n : x[j] = Answer(id, "unknown")  BY <1>6, <2>1
  <2> QED  BY <1>2, <1>7, <2>1, <2>2
<1> QED  BY <1>7, <1>10, <1>11 DEF IsSeq

LEMMA OpenTalks == ASSUME TalkInv, Open PROVE TalkInv'
<1>1. PICK x : x = SetToSeq({Answer(id, "unknown") : id \in Dangling(memory)})  OBVIOUS
<1>2. /\ memory' = memory \o x /\ disk' = Len(memory') /\ pc' = "idle" /\ pc = "down"
      /\ UNCHANGED <<batch, queued, replies, ran>>
  BY <1>1 DEF Open, Repaired, Flushed
<1>3. /\ IsSeq(x) /\ Replying(memory, x, ran)
      /\ \A k \in 1 .. Len(memory) : \A id \in CallId : Unanswered(memory, k, id) =>
            \E j \in 1 .. Len(x) : x[j].is = "answer" /\ x[j].id = id
  BY <1>1, Repairs
<1>4. /\ IsSeq(memory') /\ Shaped(memory', replies) /\ Paired(memory') /\ Honest(memory', ran)
      /\ \A k \in 1 .. Len(memory') : \A id : Unanswered(memory', k, id) =>
            Unanswered(memory, k, id) /\ \A j \in 1 .. Len(x) : x[j].is = "answer" => x[j].id # id
  <2> PICK w : w = memory \o x  OBVIOUS
  <2> PICK m : m = memory  OBVIOUS
  <2>1. /\ IsSeq(m) /\ Shaped(m, replies) /\ Paired(m) /\ Honest(m, ran)
        /\ IsSeq(x) /\ Replying(m, x, ran) /\ w = m \o x
    BY <1>3 DEF TalkInv
  <2>2. IsSeq(w) /\ Shaped(w, replies) /\ Paired(w) /\ Honest(w, ran)
    BY <2>1, ReplyingKeeps
  <2>3. \A k \in 1 .. Len(w) : \A id : Unanswered(w, k, id) =>
              Unanswered(m, k, id) /\ \A j \in 1 .. Len(x) : x[j].is = "answer" => x[j].id # id
    BY <2>1, ReplyingKeeps
  <2>4. memory' = w  BY <1>2
  <2> QED  BY <2>2, <2>3, <2>4
<1>5. LeftOver'
  <2> SUFFICES ASSUME NEW k \in 1 .. Len(memory'), NEW id \in CallId, Unanswered(memory', k, id) PROVE FALSE
    BY DEF LeftOver
  <2>1. Unanswered(memory, k, id) /\ \A j \in 1 .. Len(x) : x[j].is = "answer" => x[j].id # id  BY <1>4
  <2>2. k \in 1 .. Len(memory)  BY <2>1 DEF Unanswered
  <2> QED  BY <1>3, <2>1, <2>2
<1>6. BatchIsLast' /\ SlotsAreTrue'  BY <1>2 DEF BatchIsLast, SlotsAreTrue
<1>7. disk' \in 0 .. Len(memory')  BY <1>2, <1>4, SeqFacts
<1> QED  BY <1>2, <1>4, <1>5, <1>6, <1>7 DEF TalkInv

-----------------------------------------------------------------------------
(* nothing is called in an empty transcript *)
LEMMA InitTalk == Init => TalkInv
<1> SUFFICES ASSUME Init PROVE TalkInv  OBVIOUS
<1>1. /\ IsSeq(memory) /\ Len(memory) = 0 /\ disk = 0 /\ replies = 0 /\ queued = 0
      /\ batch = <<>> /\ ran = {} /\ pc = "idle"
  <2>1. IsSeq(<<>>) /\ Len(<<>>) = 0  BY Tuples
  <2> QED  BY <2>1 DEF Init
<1>2. Shaped(memory, replies) /\ Paired(memory) /\ Honest(memory, ran)  BY <1>1 DEF Shaped, Paired, Honest
<1>3. LeftOver /\ BatchIsLast /\ SlotsAreTrue  BY <1>1 DEF LeftOver, BatchIsLast, SlotsAreTrue
<1> QED  BY <1>1, <1>2, <1>3 DEF TalkInv

(* every step keeps calls and results in order *)
LEMMA NextTalk == TalkInv /\ [Next]_vars => TalkInv'
<1> SUFFICES ASSUME TalkInv, [Next]_vars PROVE TalkInv'  OBVIOUS
<1>1. CASE LoopEnds \/ RequestRefused \/ ModelFails \/ FinalReply \/ CostCapReached
  <2>1. /\ memory' = memory \/ memory' = Append(memory, User) \/ memory' = Append(memory, Said)
        /\ UNCHANGED <<disk, replies, ran, batch, queued>> /\ pc \notin {"batch", "down"}
        /\ pc' \in {"idle", "loop"} /\ (aborted => aborted')
    BY <1>1 DEF LoopEnds, RequestRefused, ModelFails, FinalReply, CostCapReached, Return
  <2>2. queued' \in Nat  BY <2>1 DEF TalkInv
  <2> QED  BY <2>1, <2>2, AddsOne
<1>2. CASE Abort \/ Notice \/ UNCHANGED vars
  <2>1. /\ UNCHANGED <<memory, disk, pc, batch, fanOut, replies, ran>> /\ (aborted => aborted')
        /\ queued' \in {queued, queued + 1}
    BY <1>2 DEF Abort, Notice, vars
  <2>2. queued' \in Nat  BY <2>1 DEF TalkInv
  <2>3. LeftOver'  BY <2>1 DEF TalkInv, LeftOver, Pending
  <2>4. BatchIsLast'  BY <2>1 DEF TalkInv, BatchIsLast, Pending
  <2>5. SlotsAreTrue'  BY <2>1 DEF TalkInv, SlotsAreTrue
  <2> QED  BY <2>1, <2>2, <2>3, <2>4, <2>5 DEF TalkInv
<1>3. CASE Run \/ NextRound \/ Request \/ EmptyReply \/ EndBatch \/ RefuseAll \/ Crash \/ Open
  BY <1>3, RunTalks, NextRoundTalks, RequestTalks, EmptyReplyTalks, EndBatchTalks, RefuseAllTalks,
     CrashTalks, OpenTalks
<1>4. ASSUME NEW ids \in Ids, NEW p \in BOOLEAN, ToolReply(ids, p) PROVE TalkInv'
  BY <1>4, ToolReplyTalks
<1>5. ASSUME NEW i \in DOMAIN batch,
             \/ StartCall(i) \/ Gate(i) \/ Asked(i) \/ CallRefused(i) \/ CallBarrier(i)
             \/ FlushFails(i) \/ CallBarrierMasked(i) \/ BodyEnds(i)
      PROVE  TalkInv'
  BY <1>5, CallTalks
<1> QED  BY <1>1, <1>2, <1>3, <1>4, <1>5 DEF Next

(* In every state calls and results alternate, and the results are true.   *)
LEMMA TalkInvariance == Spec => []TalkInv
<1> QED  BY InitTalk, NextTalk, PTL DEF Spec

(* AnswersTo is the results that reach a call. *)
LEMMA AnswersReach ==
  ASSUME NEW k, NEW id
  PROVE  AnswersTo(k, id) = {l \in k + 1 .. Len(memory) : Reaches(memory, k, l, id)}
BY DEF AnswersTo, Reaches, ResultOf, CallOf, Range

(* Whatever was aborted, refused, lost or never started, and after any     *)
(* number of crashes: in a request every call has exactly one result, and  *)
(* every result has a call.                                                *)
THEOREM EveryCallIsAnswered == Spec => []RequestsAnswered
<1>1. TalkInv => RequestsAnswered
  <2> SUFFICES ASSUME TalkInv, pc = "model" PROVE RequestsAnswered  BY DEF RequestsAnswered
  <2>1. Len(memory) \in Nat /\ DOMAIN memory = 1 .. Len(memory)  BY SeqFacts DEF TalkInv
  <2>2. ASSUME NEW k \in 1 .. Len(memory), memory[k].is = "calls", NEW i \in DOMAIN memory[k].ids
        PROVE  Cardinality(AnswersTo(k, memory[k].ids[i])) = 1
    <3> DEFINE id == memory[k].ids[i]
    <3>1. id \in CallId /\ CallOf(memory, k, id)  BY <2>2 DEF TalkInv, Shaped, CallOf
    <3> HIDE DEF id
    <3>2. PICK l \in k + 1 .. Len(memory) : Reaches(memory, k, l, id)
      <4>1. CASE \E h \in k + 1 .. Len(memory) : CallOf(memory, h, id)
        <5>1. PICK h \in k + 1 .. Len(memory) : CallOf(memory, h, id)  BY <4>1
        <5>2. h \in 1 .. Len(memory) /\ k \in 1 .. h - 1  BY <2>1, <5>1
        <5>3. PICK l \in k + 1 .. h - 1 : Reaches(memory, k, l, id)  BY <3>1, <5>1, <5>2 DEF TalkInv, Paired
        <5>4. l \in k + 1 .. Len(memory)  BY <2>1, <5>2, <5>3
        <5> QED  BY <5>3, <5>4
      <4>2. CASE ~\E h \in k + 1 .. Len(memory) : CallOf(memory, h, id)
        <5>1. ~Unanswered(memory, k, id)  BY <3>1 DEF TalkInv, LeftOver
        <5>2. PICK l \in k + 1 .. Len(memory) : ResultOf(memory, l, id)
          BY <3>1, <4>2, <5>1 DEF Unanswered, Since
        <5>3. \A g \in k + 1 .. l - 1 : g \in k + 1 .. Len(memory)  BY <2>1, <5>2
        <5> QED  BY <4>2, <5>2, <5>3 DEF Reaches
      <4> QED  BY <4>1, <4>2
    <3>3. ASSUME NEW h \in k + 1 .. Len(memory), Reaches(memory, k, h, id) PROVE h = l
      <4>1. ASSUME NEW a \in k + 1 .. Len(memory), NEW b \in k + 1 .. Len(memory), a < b,
                   Reaches(memory, k, a, id), Reaches(memory, k, b, id)
            PROVE  FALSE
        <5>1. b \in 1 .. Len(memory) /\ memory[b].is = "answer" /\ memory[b].id = id
          BY <2>1, <4>1 DEF Reaches, ResultOf
        <5>2. PICK g \in 1 .. b - 1 : Since(memory, g, b - 1, id)  BY <5>1 DEF TalkInv, Paired
        <5>3. CallOf(memory, g, id)  BY <5>2 DEF Since
        <5>4. g <= k
          <6> SUFFICES ASSUME g > k PROVE FALSE  BY <5>2
          <6>1. g \in k + 1 .. b - 1  BY <5>1, <5>2
          <6> QED  BY <4>1, <5>3, <6>1 DEF Reaches
        <5>5. a \in g + 1 .. b - 1  BY <2>1, <4>1, <5>2, <5>4
        <5> QED  BY <4>1, <5>2, <5>5 DEF Since, Reaches
      <4> QED  BY <2>1, <3>2, <3>3, <4>1
    <3>4. AnswersTo(k, id) = {l}  BY <3>2, <3>3, AnswersReach
    <3>5. Cardinality({l}) = 1  BY FS_Singleton
    <3> QED  BY <3>4, <3>5 DEF id
  <2>3. ASSUME NEW l \in 1 .. Len(memory), memory[l].is = "answer"
        PROVE  \E k \in 1 .. l - 1 : memory[k].is = "calls" /\ memory[l].id \in Range(memory[k].ids)
    <3>1. PICK k \in 1 .. l - 1 : Since(memory, k, l - 1, memory[l].id)  BY <2>3 DEF TalkInv, Paired
    <3> QED  BY <3>1 DEF Since, CallOf, Range
  <2> QED  BY <2>1, <2>2, <2>3 DEF RequestsAnswered
<1> QED  BY <1>1, TalkInvariance, PTL

(* No result lies about its tool, however many crashes and repairs lie     *)
(* between the start of the body and the result.                           *)
THEOREM ResultsAreHonest == Spec => []HonestAnswers
<1>1. TalkInv => HonestAnswers
  <2> SUFFICES ASSUME TalkInv, NEW k \in DOMAIN memory, memory[k].is = "calls",
                      NEW i \in DOMAIN memory[k].ids, NEW l \in AnswersTo(k, memory[k].ids[i])
               PROVE  Fits(memory[l].how, <<memory[k].n, i>>, ran)
    BY DEF HonestAnswers, Fits
  <2>1. k \in 1 .. Len(memory)  BY SeqFacts DEF TalkInv
  <2>2. l \in k + 1 .. Len(memory) /\ Reaches(memory, k, l, memory[k].ids[i])  BY AnswersReach
  <2> QED  BY <2>1, <2>2 DEF TalkInv, Honest
<1> QED  BY <1>1, TalkInvariance, PTL
=============================================================================
