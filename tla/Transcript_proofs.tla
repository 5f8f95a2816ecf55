-------------------------- MODULE Transcript_proofs --------------------------
(***************************************************************************)
(* What is said stays: the turns and compactions that share a transcript,  *)
(* for every number of prompts, notices and compactions; and the session   *)
(* objects that one process opens over one file, for every number of them. *)
(***************************************************************************)
EXTENDS
  AgentTurns, SessionReload, SequenceTheorems, TLAPS

-----------------------------------------------------------------------------
(* Turns and compactions *)
(* An entry, and a transcript in which every entry stands for something.   *)
TurnEntry == [is : {"user", "said", "calls", "results"}, of : Nat, notices : SUBSET Nat, covers : SUBSET Nat]
Solid(s) == s \in Seq(TurnEntry) /\ \A k \in 1 .. Len(s) : s[k].covers # {}
TurnRecord ==
    [by : {"host", "settle"}, at : {"assembling", "loop", "model", "tools", "stopping", "ended", "done"},
     notices : SUBSET Nat, calls : Nat]

TurnsTypeOK ==
    /\ turns \in Seq(TurnRecord) /\ pending \subseteq Nat /\ settled \in Nat /\ refused \subseteq Nat
    /\ said \in Nat /\ Solid(transcript)

(* What a summary in progress was given and what it keeps is all that was  *)
(* said, but for what was dropped or came later; it is the transcript as   *)
(* it still stands, if there was nothing of that kind.                     *)
SummaryIsWhole ==
    summarised # None =>
        \E old \in Seq(TurnEntry), kept \in Seq(TurnEntry) :
            /\ Solid(old) /\ Solid(kept) /\ old # <<>> /\ summarised = [kept |-> kept, summary |-> {old}]
            /\ 1 .. said \subseteq Covered(old) \cup Covered(kept) \cup cut \cup overtaken
            /\ cut \cup overtaken = {} => transcript = old \o kept

(* The invariant.  What is said alone is not inductive: a summary puts back*)
(* what was split off before its await, and so SummaryIsWhole says of that *)
(* what the properties say of the transcript.                              *)
TurnsInv == TurnsTypeOK /\ SummaryIsWhole /\ LostOnlyIfOvertaken /\ NoticesKept

LEMMA TurnsStart == TurnsInit => TurnsInv
<1> SUFFICES ASSUME TurnsInit PROVE TurnsInv OBVIOUS
<1> USE DEF TurnsInit
<1>1. Len(transcript) = 0 /\ transcript \in Seq(TurnEntry) /\ turns \in Seq(TurnRecord)
  BY EmptySeq
<1>2. TurnsTypeOK BY <1>1 DEF TurnsTypeOK, Solid
<1>3. SummaryIsWhole BY DEF SummaryIsWhole
<1>4. LostOnlyIfOvertaken /\ NoticesKept BY DEF LostOnlyIfOvertaken, Lost, NoticesKept
<1> QED BY <1>2, <1>3, <1>4 DEF TurnsInv

LEMMA JoinedParts ==
    ASSUME NEW s \in Seq(TurnEntry), NEW t \in Seq(TurnEntry), NEW m, NEW n, m = Len(s),
           n = Len(t)
    PROVE  LET both == s \o t IN
           /\ both \in Seq(TurnEntry) /\ Len(both) = m + n
           /\ \A k \in 1 .. m + n : both[k] = IF k <= m THEN s[k] ELSE t[k - m]
BY ConcatProperties

(* Two parts stand for what either stands for.                             *)
LEMMA CoveredConcat ==
    ASSUME NEW s \in Seq(TurnEntry), NEW t \in Seq(TurnEntry)
    PROVE  /\ Covered(s \o t) = Covered(s) \cup Covered(t)
           /\ Heard(s \o t) = Heard(s) \cup Heard(t)
<1> PICK both : both = s \o t OBVIOUS
<1> PICK m, n : m = Len(s) /\ n = Len(t) OBVIOUS
<1>1. /\ both \in Seq(TurnEntry) /\ m \in Nat /\ n \in Nat /\ DOMAIN both = 1 .. m + n /\ DOMAIN s = 1 .. m /\ DOMAIN t = 1 .. n
      /\ \A k \in 1 .. m + n : both[k] = IF k <= m THEN s[k] ELSE t[k - m]
  BY ConcatProperties, LenProperties
<1>2. \A k \in 1 .. m : k \in 1 .. m + n /\ both[k] = s[k] BY <1>1
<1>3. ASSUME NEW j \in 1 .. n PROVE \E k \in 1 .. m + n : both[k] = t[j]
  <2> PICK k : k = m + j OBVIOUS
  <2>1. k \in 1 .. m + n /\ ~(k <= m) /\ k - m = j BY <1>1
  <2> QED BY <1>1, <2>1
<1>4. ASSUME NEW k \in 1 .. m + n PROVE (\E i \in 1 .. m : both[k] = s[i]) \/ (\E j \in 1 .. n : both[k] = t[j])
  <2>1. CASE k <= m BY <1>1, <2>1
  <2>2. CASE ~(k <= m)
    <3>1. k - m \in 1 .. n BY <1>1, <2>2
    <3> QED BY <1>1, <2>2, <3>1
  <2> QED BY <2>1, <2>2
<1>5. Covered(both) = Covered(s) \cup Covered(t)
  <2>1. Covered(both) \subseteq Covered(s) \cup Covered(t) BY <1>1, <1>4 DEF Covered
  <2>2. Covered(s) \subseteq Covered(both) BY <1>1, <1>2 DEF Covered
  <2>3. Covered(t) \subseteq Covered(both)
    <3> SUFFICES ASSUME NEW j \in 1 .. n PROVE t[j].covers \subseteq Covered(both)
      BY <1>1 DEF Covered
    <3> PICK k \in 1 .. m + n : both[k] = t[j] BY <1>3
    <3> QED BY <1>1 DEF Covered
  <2> QED BY <2>1, <2>2, <2>3
<1>6. Heard(both) = Heard(s) \cup Heard(t)
  <2>1. Heard(both) \subseteq Heard(s) \cup Heard(t) BY <1>1, <1>4 DEF Heard
  <2>2. Heard(s) \subseteq Heard(both) BY <1>1, <1>2 DEF Heard
  <2>3. Heard(t) \subseteq Heard(both)
    <3> SUFFICES ASSUME NEW j \in 1 .. n PROVE t[j].notices \subseteq Heard(both)
      BY <1>1 DEF Heard
    <3> PICK k \in 1 .. m + n : both[k] = t[j] BY <1>3
    <3> QED BY <1>1 DEF Heard
  <2> QED BY <2>1, <2>2, <2>3
<1> QED BY <1>5, <1>6

LEMMA OneEntry ==
    ASSUME NEW e \in TurnEntry
    PROVE  /\ <<e>> \in Seq(TurnEntry) /\ Covered(<<e>>) = e.covers /\ Heard(<<e>>) = e.notices
<1>1. DOMAIN <<e>> = {1} /\ <<e>>[1] = e OBVIOUS
<1> QED BY <1>1 DEF Covered, Heard

LEMMA SolidConcat == ASSUME NEW s, NEW t, Solid(s), Solid(t) PROVE Solid(s \o t)
<1> PICK both : both = s \o t OBVIOUS
<1> PICK m, n : m = Len(s) /\ n = Len(t) OBVIOUS
<1>1. /\ both \in Seq(TurnEntry) /\ m \in Nat /\ n \in Nat /\ Len(both) = m + n
      /\ \A k \in 1 .. m + n : both[k] = IF k <= m THEN s[k] ELSE t[k - m]
  BY ConcatProperties, LenProperties DEF Solid
<1>2. ASSUME NEW k \in 1 .. m + n PROVE both[k].covers # {}
  <2>1. CASE k <= m BY <1>1, <2>1 DEF Solid
  <2>2. CASE ~(k <= m)
    <3>1. k - m \in 1 .. n BY <1>1, <2>2
    <3> QED BY <1>1, <2>2, <3>1 DEF Solid
  <2> QED BY <2>1, <2>2
<1> QED BY <1>1, <1>2 DEF Solid

LEMMA PlaceBehind ==
    ASSUME NEW p \in Nat, NEW q \in Nat, NEW k \in 1 .. p + q, ~(k <= p), NEW j, j = k - p
    PROVE  j \in 1 .. q /\ j + p = k
OBVIOUS

LEMMA FirstPart ==
    ASSUME NEW s \in Seq(TurnEntry), NEW n \in Nat, n = Len(s), NEW p \in 1 .. n
    PROVE  LET old == SubSeq(s, 1, p) IN
           old \in Seq(TurnEntry) /\ Len(old) = p /\ \A k \in 1 .. p : old[k] = s[k]
BY SubSeqProperties

LEMMA JoinedAt ==
    ASSUME NEW s \in Seq(TurnEntry), NEW t \in Seq(TurnEntry), NEW k \in 1 .. Len(s) + Len(t)
    PROVE  (s \o t)[k] = IF k <= Len(s) THEN s[k] ELSE t[k - Len(s)]
BY ConcatProperties

(* The transcript is what a compaction drops and what it keeps.            *)
LEMMA OldestThenNewest ==
    ASSUME TurnsTypeOK, NEW keep \in Nat, keep < Len(transcript)
    PROVE  /\ Solid(Oldest(keep)) /\ Oldest(keep) # <<>> /\ Solid(Newest(keep))
           /\ transcript = Oldest(keep) \o Newest(keep)
<1> PICK s : s = transcript OBVIOUS
<1>a. Solid(s) BY DEF TurnsTypeOK
<1>b. \E p \in Nat, old \in Seq(TurnEntry), new \in Seq(TurnEntry) :
         /\ p # 0 /\ Len(s) = p + keep /\ old = Oldest(keep) /\ new = Newest(keep)
         /\ Len(old) = p /\ \A k \in 1 .. p : old[k] = s[k]
         /\ Len(new) = keep /\ \A k \in 1 .. keep : new[k] = s[k + p]
  <2> PICK n : n = Len(s) OBVIOUS
  <2> PICK p : p = n - keep OBVIOUS
  <2>1. s \in Seq(TurnEntry) /\ n \in Nat BY <1>a DEF Solid
  <2>2. p \in Nat /\ p # 0 /\ p + keep = n /\ n - p = keep BY <2>1
  <2> PICK old, new : old = Oldest(keep) /\ new = Newest(keep) OBVIOUS
  <2>3. old = SubSeq(s, 1, p) /\ new = SubSeq(s, p + 1, n) BY DEF Oldest, Newest
  <2>4. old \in Seq(TurnEntry) /\ Len(old) = p /\ \A k \in 1 .. p : old[k] = s[k]
    <3>1. p \in 1 .. n BY <2>1, <2>2
    <3> QED BY <2>1, <2>3, <3>1, FirstPart
  <2>5. new \in Seq(TurnEntry) /\ Len(new) = keep /\ \A k \in 1 .. keep : new[k] = s[k + p]
    BY <2>1, <2>2, <2>3, SubSeqProperties
  <2> QED BY <2>2, <2>4, <2>5
<1> PICK p \in Nat, old \in Seq(TurnEntry), new \in Seq(TurnEntry) :
         /\ p # 0 /\ Len(s) = p + keep /\ old = Oldest(keep) /\ new = Newest(keep)
         /\ Len(old) = p /\ \A k \in 1 .. p : old[k] = s[k]
         /\ Len(new) = keep /\ \A k \in 1 .. keep : new[k] = s[k + p]
  BY <1>b
<1>0. \A k \in 1 .. p + keep : s[k].covers # {} BY <1>a DEF Solid
<1>1. Solid(old) /\ old # <<>>
  <2>1. \A k \in 1 .. p : k \in 1 .. p + keep OBVIOUS
  <2>2. old # <<>> BY EmptySeq
  <2> QED BY <1>0, <2>1, <2>2 DEF Solid
<1>2. Solid(new)
  <2>1. \A k \in 1 .. keep : k + p \in 1 .. p + keep OBVIOUS
  <2>2. \A k \in 1 .. keep : new[k].covers # {} BY <1>0, <2>1
  <2> QED BY <2>2 DEF Solid
<1>3. s = old \o new
  <2> PICK both : both = old \o new OBVIOUS
  <2>1. both \in Seq(TurnEntry) /\ Len(both) = p + keep BY ConcatProperties
  <2>2. ASSUME NEW k \in 1 .. p + keep PROVE both[k] = s[k]
    <3>1. both[k] = IF k <= Len(old) THEN old[k] ELSE new[k - Len(old)]
      <4>1. k \in 1 .. Len(old) + Len(new) OBVIOUS
      <4> QED BY <4>1, JoinedAt
    <3>2. CASE k <= p BY <3>1, <3>2
    <3>3. CASE ~(k <= p)
      <4> PICK j : j = k - p OBVIOUS
      <4>1. j \in 1 .. keep /\ j + p = k BY <3>3, PlaceBehind
      <4>2. both[k] = new[j] BY <3>1, <3>3
      <4> QED BY <4>1, <4>2
    <3> QED BY <3>2, <3>3
  <2>3. s \in Seq(TurnEntry) BY <1>a DEF Solid
  <2> QED BY <2>1, <2>2, <2>3, SeqEqual
<1> QED BY <1>1, <1>2, <1>3

TranscriptInv == said \in Nat /\ Solid(transcript) /\ SummaryIsWhole /\ LostOnlyIfOvertaken

(* One entry more, with a number of its own.                               *)
LEMMA EntryKeeps ==
    ASSUME TranscriptInv, NEW e \in TurnEntry, e.covers = {said + 1},
           transcript' = transcript \o <<e>>,
           said' = said + 1, overtaken' = IF summarised = None THEN overtaken ELSE overtaken \cup {said + 1},
           UNCHANGED <<summarised, cut>>
    PROVE  /\ TranscriptInv' /\ Heard(transcript') = Heard(transcript) \cup e.notices
           /\ overtaken \subseteq overtaken'
<1> USE DEF TranscriptInv
<1> PICK n : n = said + 1 OBVIOUS
<1>1. Solid(<<e>>) /\ Covered(<<e>>) = {n} /\ Heard(<<e>>) = e.notices
  <2>1. <<e>> \in Seq(TurnEntry) /\ Len(<<e>>) = 1 /\ <<e>>[1] = e OBVIOUS
  <2>2. Covered(<<e>>) = {n} /\ Heard(<<e>>) = e.notices BY OneEntry
  <2>3. \A k \in 1 .. 1 : k = 1 OBVIOUS
  <2>4. e.covers # {} OBVIOUS
  <2>5. \A k \in 1 .. Len(<<e>>) : <<e>>[k].covers # {} BY <2>1, <2>3, <2>4
  <2> QED BY <2>1, <2>2, <2>5 DEF Solid
<1>2. Solid(transcript') BY <1>1, SolidConcat
<1>3. Covered(transcript') = Covered(transcript) \cup {n} /\ Heard(transcript') = Heard(transcript) \cup e.notices
  BY <1>1, CoveredConcat DEF Solid
<1>4. n \in Nat /\ said' = n /\ 1 .. n = (1 .. said) \cup {n} OBVIOUS
<1>5. LostOnlyIfOvertaken' BY <1>3, <1>4 DEF LostOnlyIfOvertaken, Lost
<1>6. SummaryIsWhole'
  <2> SUFFICES ASSUME summarised # None PROVE SummaryIsWhole' BY DEF SummaryIsWhole
  <2> PICK old \in Seq(TurnEntry), kept \in Seq(TurnEntry) :
            /\ Solid(old) /\ Solid(kept) /\ old # <<>> /\ summarised = [kept |-> kept, summary |-> {old}]
            /\ 1 .. said \subseteq Covered(old) \cup Covered(kept) \cup cut \cup overtaken
    BY DEF SummaryIsWhole
  <2>1. overtaken' = overtaken \cup {n} OBVIOUS
  <2>2. 1 .. said' \subseteq Covered(old) \cup Covered(kept) \cup cut' \cup overtaken'
    BY <1>4, <2>1
  <2>3. cut' \cup overtaken' # {} BY <2>1
  <2> QED BY <2>2, <2>3 DEF SummaryIsWhole
<1> QED BY <1>2, <1>3, <1>4, <1>5, <1>6

(* appendMessage(): of nothing, of an entry, of the queued notices.        *)
LEMMA AddsNone ==
    ASSUME TranscriptInv, Add(<<>>)
    PROVE  transcript' = transcript /\ said' = said /\ overtaken' = overtaken
<1>1. said' = said BY DEF Add, TranscriptInv
<1>2. overtaken' = overtaken
  <2>1. said + 1 .. said + 0 = {} BY DEF TranscriptInv
  <2> QED BY <2>1 DEF Add
<1>3. transcript' = transcript
  <2>1. [k \in DOMAIN <<>> |-> [<<>>[k] EXCEPT !.covers = {said + k}]] = <<>> OBVIOUS
  <2> QED BY <2>1, ConcatEmptySeq DEF Add, TranscriptInv, Solid
<1> QED BY <1>1, <1>2, <1>3

LEMMA AddKeeps ==
    ASSUME TranscriptInv, NEW m \in TurnEntry, Add(<<m>>), UNCHANGED <<summarised, cut>>
    PROVE  /\ TranscriptInv' /\ Heard(transcript') = Heard(transcript) \cup m.notices
           /\ overtaken \subseteq overtaken'
<1> PICK e : e = [m EXCEPT !.covers = {said + 1}] OBVIOUS
<1>1. e \in TurnEntry /\ e.covers = {said + 1} /\ e.notices = m.notices
  BY DEF TranscriptInv, TurnEntry
<1>2. transcript' = transcript \o <<e>>
  <2>1. [k \in DOMAIN <<m>> |-> [<<m>>[k] EXCEPT !.covers = {said + k}]] = <<e>>
    <3> PICK new : new = [k \in DOMAIN <<m>> |-> [<<m>>[k] EXCEPT !.covers = {said + k}]] OBVIOUS
    <3>1. DOMAIN new = 1 .. 1 /\ new[1] = e /\ new = [k \in 1 .. 1 |-> new[k]] OBVIOUS
    <3> QED BY <3>1
  <2> QED BY <2>1 DEF Add
<1>3. said' = said + 1 BY DEF Add
<1>4. said + 1 .. said + 1 = {said + 1} BY DEF TranscriptInv
<1>5. overtaken' = IF summarised = None THEN overtaken ELSE overtaken \cup {said + 1}
  BY <1>4 DEF Add
<1> QED BY <1>1, <1>2, <1>3, <1>5, EntryKeeps

LEMMA FlushKeeps ==
    ASSUME TranscriptInv, pending \subseteq Nat, NEW t \in Nat, Add(Flushed(t)),
           UNCHANGED <<summarised, cut>>
    PROVE  /\ TranscriptInv' /\ Heard(transcript') = Heard(transcript) \cup pending
           /\ overtaken \subseteq overtaken'
<1>1. CASE pending = {}
  <2>1. transcript' = transcript /\ said' = said /\ overtaken' = overtaken
    BY <1>1, AddsNone DEF Flushed
  <2> QED BY <1>1, <2>1 DEF TranscriptInv, Solid, SummaryIsWhole, LostOnlyIfOvertaken, Lost
<1>2. CASE pending # {}
  <2> PICK m : m = Message("user", t, pending, {}) OBVIOUS
  <2>1. m \in TurnEntry /\ m.notices = pending BY DEF Message, TurnEntry
  <2>2. Add(<<m>>) BY <1>2 DEF Flushed
  <2> QED BY <2>1, <2>2, AddKeeps
<1> QED BY <1>1, <1>2

(* No notice is lost that stays where it was, or moves on to be refused or *)
(* appended.                                                               *)
LEMMA NoticesStay ==
    ASSUME NoticesKept, settled' = settled, TurnsTypeOK, turns' \in Seq(TurnRecord),
           Len(turns) <= Len(turns'),
           pending \cup refused \cup Heard(transcript) \subseteq (pending \cup refused \cup Heard(transcript))',
           \A t \in 1 .. Len(turns) : turns[t].at = "assembling" =>
               \/ turns'[t].at = "assembling" /\ turns'[t].notices = turns[t].notices
               \/ turns[t].notices \subseteq (refused \cup Heard(transcript))',
           cut \subseteq cut', overtaken \subseteq overtaken'
    PROVE  NoticesKept'
<1> SUFFICES ASSUME NEW n \in 1 .. settled, (cut \cup overtaken)' = {}
             PROVE  \/ n \in (pending \cup refused \cup Heard(transcript))'
                    \/ \E t \in 1 .. Len(turns') : turns'[t].at = "assembling" /\ n \in turns'[t].notices
  <2>1. DOMAIN turns' = 1 .. Len(turns') OBVIOUS
  <2> QED BY <2>1 DEF NoticesKept, Going, Turn
<1>1. cut \cup overtaken = {} OBVIOUS
<1>2. CASE n \in pending \cup refused \cup Heard(transcript) BY <1>2
<1>3. ASSUME NEW t \in Going, turns[t].at = "assembling", n \in turns[t].notices
      PROVE  \/ n \in (pending \cup refused \cup Heard(transcript))'
             \/ \E u \in 1 .. Len(turns') : turns'[u].at = "assembling" /\ n \in turns'[u].notices
  <2>1. t \in 1 .. Len(turns) /\ t \in 1 .. Len(turns') BY DEF Going, Turn, TurnsTypeOK
  <2> QED BY <1>3, <2>1
<1> QED BY <1>1, <1>2, <1>3 DEF NoticesKept

(* A turn goes on, or is begun.                                            *)
LEMMA TurnsMove ==
    ASSUME turns \in Seq(TurnRecord), NEW t \in DOMAIN turns,
           NEW where \in {"assembling", "loop", "model", "tools", "stopping", "ended", "done"}, Moves(t, where)
    PROVE  /\ turns' \in Seq(TurnRecord) /\ Len(turns') = Len(turns) /\ turns'[t].at = where
           /\ \A u \in 1 .. Len(turns) : u # t => turns'[u] = turns[u]
           /\ t \in 1 .. Len(turns) /\ turns[t].notices \subseteq Nat /\ t \in Nat
<1> PICK r : r = [turns[t] EXCEPT !.at = where] OBVIOUS
<1>1. t \in 1 .. Len(turns) /\ turns[t] \in TurnRecord OBVIOUS
<1>2. r \in TurnRecord /\ r.at = where BY <1>1 DEF TurnRecord
<1>3. turns' = [turns EXCEPT ![t] = r] BY DEF Moves
<1>4. turns[t].notices \subseteq Nat BY <1>1 DEF TurnRecord
<1>5. turns' \in Seq(TurnRecord) /\ Len(turns') = Len(turns) BY <1>1, <1>2, <1>3, ExceptSeq
<1>6. turns'[t] = r /\ \A u \in 1 .. Len(turns) : u # t => turns'[u] = turns[u]
  <2>1. DOMAIN turns = 1 .. Len(turns) OBVIOUS
  <2> QED BY <1>1, <1>3, <2>1
<1> QED BY <1>1, <1>2, <1>4, <1>5, <1>6

LEMMA TurnsBegin ==
    ASSUME NEW rest \in Seq(TurnRecord), NEW by \in {"host", "settle"},
           NEW notices \in SUBSET Nat, Begin(by, notices, rest)
    PROVE  /\ turns' \in Seq(TurnRecord) /\ Len(turns') = Len(rest) + 1 /\ Len(rest) \in Nat
           /\ \A u \in 1 .. Len(rest) : turns'[u] = rest[u]
           /\ turns'[Len(rest) + 1].at = "assembling" /\ turns'[Len(rest) + 1].notices = notices
<1> PICK r : r = [by |-> by, at |-> "assembling", notices |-> notices, calls |-> 0] OBVIOUS
<1>1. r \in TurnRecord /\ r.at = "assembling" /\ r.notices = notices BY DEF TurnRecord
<1>2. turns' = Append(rest, r) BY DEF Begin
<1> QED BY <1>1, <1>2, AppendProperties

(* The actions, one by one.                                                *)
LEMMA HostPromptsKeeps == ASSUME TurnsInv, HostPrompts PROVE TurnsInv'
<1> USE DEF TurnsInv
<1>1. /\ Begin("host", {}, turns) /\ Add(Flushed(Len(turns) + 1)) /\ pending' = {}
      /\ UNCHANGED <<followUp, following, settled, summarised, compactions, cut, refused>>
  BY DEF HostPrompts
<1>2. TranscriptInv /\ turns \in Seq(TurnRecord) /\ Len(turns) + 1 \in Nat
  BY DEF TranscriptInv, TurnsTypeOK
<1>3. TranscriptInv' /\ Heard(transcript') = Heard(transcript) \cup pending /\ overtaken \subseteq overtaken'
  BY <1>1, <1>2, FlushKeeps DEF TurnsTypeOK
<1>4. /\ turns' \in Seq(TurnRecord) /\ Len(turns') = Len(turns) + 1
      /\ \A u \in 1 .. Len(turns) : turns'[u] = turns[u]
  BY <1>1, <1>2, TurnsBegin
<1>5. TurnsTypeOK' BY <1>1, <1>3, <1>4 DEF TurnsTypeOK, TranscriptInv
<1>6. NoticesKept' BY <1>1, <1>2, <1>3, <1>4, NoticesStay
<1> QED BY <1>3, <1>5, <1>6 DEF TranscriptInv

LEMMA AssembledKeeps == ASSUME TurnsInv, NEW t \in Turn, Assembled(t) PROVE TurnsInv'
<1> USE DEF TurnsInv
<1>1. /\ turns[t].at = "assembling" /\ Moves(t, "loop") /\ Add(<<Message("user", t, turns[t].notices, {})>>)
      /\ UNCHANGED <<followUp, active, following, pending, settled, summarised, compactions, cut, refused>>
  BY DEF Assembled
<1>2. TranscriptInv /\ turns \in Seq(TurnRecord) /\ t \in DOMAIN turns
  BY DEF TranscriptInv, TurnsTypeOK, Turn
<1>3. /\ turns' \in Seq(TurnRecord) /\ Len(turns') = Len(turns)
      /\ \A u \in 1 .. Len(turns) : u # t => turns'[u] = turns[u]
      /\ t \in 1 .. Len(turns) /\ turns[t].notices \subseteq Nat /\ t \in Nat
  BY <1>1, <1>2, TurnsMove
<1> PICK m : m = Message("user", t, turns[t].notices, {}) OBVIOUS
<1>4. m \in TurnEntry /\ m.notices = turns[t].notices BY <1>3 DEF Message, TurnEntry
<1>5. TranscriptInv' /\ Heard(transcript') = Heard(transcript) \cup m.notices /\ overtaken \subseteq overtaken'
  BY <1>1, <1>2, <1>4, AddKeeps
<1>6. TurnsTypeOK' BY <1>1, <1>3, <1>5 DEF TurnsTypeOK, TranscriptInv
<1>7. NoticesKept'
  <2>1. \A u \in 1 .. Len(turns) : turns[u].at = "assembling" =>
            \/ turns'[u].at = "assembling" /\ turns'[u].notices = turns[u].notices
            \/ turns[u].notices \subseteq (refused \cup Heard(transcript))'
    BY <1>3, <1>4, <1>5
  <2> QED BY <1>1, <1>2, <1>3, <1>5, <2>1, NoticesStay
<1> QED BY <1>5, <1>6, <1>7 DEF TranscriptInv

LEMMA VetoedKeeps == ASSUME TurnsInv, NEW t \in Turn, Vetoed(t) PROVE TurnsInv'
<1> USE DEF TurnsInv
<1>1. /\ turns[t].at = "assembling" /\ Moves(t, "stopping") /\ Add(<<Message("said", t, {}, {})>>)
      /\ refused' = refused \cup turns[t].notices
      /\ UNCHANGED <<followUp, active, following, pending, settled, summarised, compactions, cut>>
  BY DEF Vetoed
<1>2. TranscriptInv /\ turns \in Seq(TurnRecord) /\ t \in DOMAIN turns
  BY DEF TranscriptInv, TurnsTypeOK, Turn
<1>3. /\ turns' \in Seq(TurnRecord) /\ Len(turns') = Len(turns)
      /\ \A u \in 1 .. Len(turns) : u # t => turns'[u] = turns[u]
      /\ t \in 1 .. Len(turns) /\ turns[t].notices \subseteq Nat /\ t \in Nat
  BY <1>1, <1>2, TurnsMove
<1> PICK m : m = Message("said", t, {}, {}) OBVIOUS
<1>4. m \in TurnEntry BY <1>3 DEF Message, TurnEntry
<1>5. TranscriptInv' /\ Heard(transcript') = Heard(transcript) \cup m.notices /\ overtaken \subseteq overtaken'
  BY <1>1, <1>2, <1>4, AddKeeps
<1>6. TurnsTypeOK' BY <1>1, <1>3, <1>5 DEF TurnsTypeOK, TranscriptInv
<1>7. NoticesKept'
  <2>1. \A u \in 1 .. Len(turns) : turns[u].at = "assembling" =>
            \/ turns'[u].at = "assembling" /\ turns'[u].notices = turns[u].notices
            \/ turns[u].notices \subseteq (refused \cup Heard(transcript))'
    BY <1>1, <1>3
  <2> QED BY <1>1, <1>2, <1>3, <1>5, <2>1, NoticesStay
<1> QED BY <1>5, <1>6, <1>7 DEF TranscriptInv

LEMMA AskKeeps == ASSUME TurnsInv, NEW t \in Turn, Ask(t) PROVE TurnsInv'
<1> USE DEF TurnsInv
<1>1. /\ turns[t].at = "loop" /\ Moves(t, "model") /\ Add(Flushed(t)) /\ pending' = {}
      /\ UNCHANGED <<followUp, active, following, settled, summarised, compactions, cut, refused>>
  BY DEF Ask
<1>2. TranscriptInv /\ turns \in Seq(TurnRecord) /\ t \in DOMAIN turns
  BY DEF TranscriptInv, TurnsTypeOK, Turn
<1>3. /\ turns' \in Seq(TurnRecord) /\ Len(turns') = Len(turns)
      /\ \A u \in 1 .. Len(turns) : u # t => turns'[u] = turns[u]
      /\ t \in 1 .. Len(turns) /\ t \in Nat
  BY <1>1, <1>2, TurnsMove
<1>4. TranscriptInv' /\ Heard(transcript') = Heard(transcript) \cup pending /\ overtaken \subseteq overtaken'
  BY <1>1, <1>2, <1>3, FlushKeeps DEF TurnsTypeOK
<1>5. TurnsTypeOK' BY <1>1, <1>3, <1>4 DEF TurnsTypeOK, TranscriptInv
<1>6. NoticesKept'
  <2>1. \A u \in 1 .. Len(turns) : turns[u].at = "assembling" => u # t BY <1>1
  <2> QED BY <1>1, <1>2, <1>3, <1>4, <2>1, NoticesStay
<1> QED BY <1>4, <1>5, <1>6 DEF TranscriptInv

(* A turn in the loop says something: an answer, calls or their results.   *)
LEMMA SayingKeeps ==
    ASSUME TurnsInv, NEW t \in Turn, turns[t].at # "assembling",
           NEW what \in {"said", "calls", "results"},
           Add(<<Message(what, t, {}, {})>>), turns' \in Seq(TurnRecord), Len(turns') = Len(turns),
           \A u \in 1 .. Len(turns) : u # t => turns'[u] = turns[u],
           UNCHANGED <<pending, settled, summarised, cut, refused>>
    PROVE  TurnsInv'
<1> USE DEF TurnsInv
<1>1. TranscriptInv /\ t \in Nat BY DEF TranscriptInv, TurnsTypeOK, Turn
<1> PICK m : m = Message(what, t, {}, {}) OBVIOUS
<1>2. m \in TurnEntry BY <1>1 DEF Message, TurnEntry
<1>3. TranscriptInv' /\ Heard(transcript') = Heard(transcript) \cup m.notices /\ overtaken \subseteq overtaken'
  BY <1>1, <1>2, AddKeeps
<1>4. TurnsTypeOK' BY <1>3 DEF TurnsTypeOK, TranscriptInv
<1>5. Len(turns) <= Len(turns') BY DEF TurnsTypeOK
<1>6. NoticesKept' BY <1>3, <1>5, NoticesStay
<1> QED BY <1>3, <1>4, <1>6 DEF TranscriptInv

LEMMA SaysKeeps == ASSUME TurnsInv, NEW t \in Turn, Says(t) PROVE TurnsInv'
<1>1. turns \in Seq(TurnRecord) /\ t \in DOMAIN turns BY DEF TurnsInv, TurnsTypeOK, Turn
<1>2. Moves(t, "stopping") BY DEF Says
<1>3. /\ turns' \in Seq(TurnRecord) /\ Len(turns') = Len(turns)
      /\ \A u \in 1 .. Len(turns) : u # t => turns'[u] = turns[u]
  BY <1>1, <1>2, TurnsMove
<1> QED BY <1>3, SayingKeeps DEF Says

LEMMA ResultsKeeps == ASSUME TurnsInv, NEW t \in Turn, Results(t) PROVE TurnsInv'
<1>1. turns \in Seq(TurnRecord) /\ t \in DOMAIN turns BY DEF TurnsInv, TurnsTypeOK, Turn
<1>2. Moves(t, "loop") BY DEF Results
<1>3. /\ turns' \in Seq(TurnRecord) /\ Len(turns') = Len(turns)
      /\ \A u \in 1 .. Len(turns) : u # t => turns'[u] = turns[u]
  BY <1>1, <1>2, TurnsMove
<1> QED BY <1>3, SayingKeeps DEF Results

LEMMA CallsKeeps == ASSUME TurnsInv, NEW t \in Turn, Calls(t) PROVE TurnsInv'
<1>1. turns \in Seq(TurnRecord) /\ t \in 1 .. Len(turns) /\ turns[t] \in TurnRecord
      /\ DOMAIN turns = 1 .. Len(turns)
  BY DEF TurnsInv, TurnsTypeOK, Turn
<1> PICK more : more = turns[t].calls + 1 OBVIOUS
<1> PICK r : r = [[turns[t] EXCEPT !.at = "tools"] EXCEPT !.calls = more] OBVIOUS
<1>a. more \in Nat BY <1>1 DEF TurnRecord
<1>2. r \in TurnRecord BY <1>1, <1>a DEF TurnRecord
<1>3. turns' = [turns EXCEPT ![t] = r]
  <2>1. turns' = [turns EXCEPT ![t].at = "tools", ![t].calls = @ + 1] BY DEF Calls
  <2>2. [turns[t] EXCEPT !.at = "tools"].calls = turns[t].calls BY <1>1 DEF TurnRecord
  <2>3. turns' = [[turns EXCEPT ![t].at = "tools"] EXCEPT ![t].calls = @ + 1] BY <2>1
  <2> QED BY <1>1, <2>2, <2>3
<1>4. turns' \in Seq(TurnRecord) /\ Len(turns') = Len(turns) BY <1>1, <1>2, <1>3, ExceptSeq
<1>5. \A u \in 1 .. Len(turns) : u # t => turns'[u] = turns[u] BY <1>1, <1>3
<1>6. turns[t].at # "assembling" BY DEF Calls
<1> QED BY <1>4, <1>5, <1>6, SayingKeeps DEF Calls

LEMMA EndTurnKeeps == ASSUME TurnsInv, NEW t \in Turn, EndTurn(t) PROVE TurnsInv'
<1> USE DEF TurnsInv
<1>1. /\ Moves(t, "ended") /\ refused' = IF turns[t].at = "assembling" THEN refused \cup turns[t].notices ELSE refused
      /\ UNCHANGED <<followUp, following, pending, settled, transcript, said, summarised, compactions, cut, overtaken>>
  BY DEF EndTurn
<1>2. turns \in Seq(TurnRecord) /\ t \in DOMAIN turns BY DEF TurnsTypeOK, Turn
<1>3. /\ turns' \in Seq(TurnRecord) /\ Len(turns') = Len(turns)
      /\ \A u \in 1 .. Len(turns) : u # t => turns'[u] = turns[u]
      /\ t \in 1 .. Len(turns) /\ turns[t].notices \subseteq Nat
  BY <1>1, <1>2, TurnsMove
<1>4. TurnsTypeOK' BY <1>1, <1>3 DEF TurnsTypeOK
<1>5. SummaryIsWhole' /\ LostOnlyIfOvertaken'
  BY <1>1 DEF SummaryIsWhole, LostOnlyIfOvertaken, Lost
<1>6. NoticesKept'
  <2>1. \A u \in 1 .. Len(turns) : turns[u].at = "assembling" =>
            \/ turns'[u].at = "assembling" /\ turns'[u].notices = turns[u].notices
            \/ turns[u].notices \subseteq (refused \cup Heard(transcript))'
    BY <1>1, <1>3
  <2>2. (pending \cup refused \cup Heard(transcript)) \subseteq (pending \cup refused \cup Heard(transcript))'
    BY <1>1
  <2>3. Len(turns) <= Len(turns') BY <1>2, <1>3
  <2> QED BY <1>1, <1>3, <2>1, <2>2, <2>3, NoticesStay
<1> QED BY <1>4, <1>5, <1>6

(* A new turn carries notices that were queued, or are new.                *)
LEMMA ReturnKeeps == ASSUME TurnsInv, NEW t \in Turn, Return(t) PROVE TurnsInv'
<1> USE DEF TurnsInv
<1> PICK rest : rest = [turns EXCEPT ![t].at = "done"] OBVIOUS
<1>1. /\ \/ Begin("settle", pending, rest) /\ pending' = {}
         \/ turns' = rest /\ pending' = pending
      /\ turns[t].at = "ended"
      /\ UNCHANGED <<followUp, settled, transcript, said, summarised, compactions, cut, overtaken, refused>>
  BY DEF Return
<1>2. turns \in Seq(TurnRecord) /\ t \in 1 .. Len(turns) /\ turns[t] \in TurnRecord /\ DOMAIN turns = 1 .. Len(turns)
  BY DEF TurnsTypeOK, Turn
<1>3. rest \in Seq(TurnRecord) /\ Len(rest) = Len(turns) /\ \A u \in 1 .. Len(turns) : u # t => rest[u] = turns[u]
  <2> PICK r : r = [turns[t] EXCEPT !.at = "done"] OBVIOUS
  <2>1. r \in TurnRecord BY <1>2 DEF TurnRecord
  <2>2. rest = [turns EXCEPT ![t] = r] OBVIOUS
  <2>3. rest \in Seq(TurnRecord) /\ Len(rest) = Len(turns) BY <1>2, <2>1, <2>2, ExceptSeq
  <2>4. \A u \in 1 .. Len(turns) : u # t => rest[u] = turns[u] BY <1>2, <2>2
  <2> QED BY <2>3, <2>4
<1>4. SummaryIsWhole' /\ LostOnlyIfOvertaken'
  BY <1>1 DEF SummaryIsWhole, LostOnlyIfOvertaken, Lost
<1>5. CASE turns' = rest /\ pending' = pending
  <2>1. TurnsTypeOK' BY <1>1, <1>3, <1>5 DEF TurnsTypeOK
  <2>2. NoticesKept'
    <3>1. \A u \in 1 .. Len(turns) : turns[u].at = "assembling" => turns'[u] = turns[u]
      BY <1>1, <1>3, <1>5
    <3>2. Len(turns) <= Len(turns') BY <1>2, <1>3, <1>5
    <3>3. Heard(transcript') = Heard(transcript) BY <1>1
    <3> QED BY <1>1, <1>3, <1>5, <3>1, <3>2, <3>3, NoticesStay
  <2> QED BY <1>4, <2>1, <2>2
<1>6. CASE Begin("settle", pending, rest) /\ pending' = {}
  <2>1. pending \in SUBSET Nat BY DEF TurnsTypeOK
  <2> PICK new : new = Len(rest) + 1 OBVIOUS
  <2>2. /\ turns' \in Seq(TurnRecord) /\ Len(turns') = new /\ Len(rest) \in Nat
        /\ \A u \in 1 .. Len(rest) : turns'[u] = rest[u]
        /\ turns'[new].at = "assembling" /\ turns'[new].notices = pending
    BY <1>3, <1>6, <2>1, TurnsBegin
  <2>3. TurnsTypeOK' BY <1>1, <1>6, <2>2 DEF TurnsTypeOK
  <2>4. NoticesKept'
    <3> SUFFICES ASSUME NEW n \in 1 .. settled, cut \cup overtaken = {}
                 PROVE  \/ n \in refused \cup Heard(transcript)
                        \/ \E u \in 1 .. new : turns'[u].at = "assembling" /\ n \in turns'[u].notices
      <4>1. DOMAIN turns' = 1 .. new BY <2>2
      <4> QED BY <1>1, <4>1 DEF NoticesKept, Going, Turn
    <3>0. new \in 1 .. new /\ \A u \in 1 .. Len(turns) : u \in 1 .. new BY <1>3, <2>2
    <3>1. CASE n \in pending BY <2>2, <3>0, <3>1
    <3>2. CASE n \in refused \cup Heard(transcript) BY <3>2
    <3>3. ASSUME NEW v \in Going, turns[v].at = "assembling", n \in turns[v].notices
          PROVE  \E u \in 1 .. new : turns'[u].at = "assembling" /\ n \in turns'[u].notices
      <4>1. v \in 1 .. Len(turns) /\ v # t BY <1>1, <1>2, <3>3 DEF Going, Turn
      <4>2. turns'[v] = turns[v] BY <1>3, <2>2, <4>1
      <4> QED BY <3>0, <3>3, <4>1, <4>2
    <3> QED BY <3>1, <3>2, <3>3 DEF NoticesKept
  <2> QED BY <1>4, <2>3, <2>4
<1> QED BY <1>1, <1>5, <1>6

LEMMA SettleKeeps == ASSUME TurnsInv, Settle PROVE TurnsInv'
<1> USE DEF TurnsInv
<1> PICK n : n = settled + 1 OBVIOUS
<1>1. /\ \/ /\ Begin("settle", {n}, turns) /\ Add(Flushed(Len(turns) + 1)) /\ pending' = {}
         \/ /\ pending' = pending \cup {n} /\ UNCHANGED <<turns, active, following, transcript, said, overtaken>>
      /\ settled' = n /\ UNCHANGED <<followUp, summarised, compactions, cut, refused>>
  BY DEF Settle
<1>2. turns \in Seq(TurnRecord) /\ n \in Nat /\ settled \in Nat /\ DOMAIN turns = 1 .. Len(turns)
      /\ TranscriptInv /\ Len(turns) \in Nat
  BY DEF TurnsTypeOK, TranscriptInv
<1>3. \A k \in 1 .. n : k = n \/ k \in 1 .. settled BY <1>2
<1>4. CASE /\ pending' = pending \cup {n} /\ UNCHANGED <<turns, active, following, transcript, said, overtaken>>
  <2>1. TurnsTypeOK' BY <1>1, <1>2, <1>4 DEF TurnsTypeOK
  <2>2. SummaryIsWhole' /\ LostOnlyIfOvertaken'
    BY <1>1, <1>4 DEF SummaryIsWhole, LostOnlyIfOvertaken, Lost
  <2>3. NoticesKept'
    <3> SUFFICES ASSUME NEW k \in 1 .. n, cut \cup overtaken = {}
                 PROVE  \/ k \in pending \cup {n} \cup refused \cup Heard(transcript)
                        \/ \E u \in Going : turns[u].at = "assembling" /\ k \in turns[u].notices
      BY <1>1, <1>4 DEF NoticesKept, Going, Turn
    <3> QED BY <1>3 DEF NoticesKept
  <2> QED BY <2>1, <2>2, <2>3
<1>5. CASE /\ Begin("settle", {n}, turns) /\ Add(Flushed(Len(turns) + 1)) /\ pending' = {}
  <2> PICK new : new = Len(turns) + 1 OBVIOUS
  <2>1. new \in Nat /\ {n} \in SUBSET Nat BY <1>2
  <2>2. TranscriptInv' /\ Heard(transcript') = Heard(transcript) \cup pending /\ overtaken \subseteq overtaken'
    <3>1. Add(Flushed(new)) /\ UNCHANGED <<summarised, cut>> /\ pending \subseteq Nat
      BY <1>1, <1>5 DEF TurnsTypeOK
    <3> QED BY <1>2, <2>1, <3>1, FlushKeeps
  <2>3. /\ turns' \in Seq(TurnRecord) /\ Len(turns') = new
        /\ \A u \in 1 .. Len(turns) : turns'[u] = turns[u]
        /\ turns'[new].at = "assembling" /\ turns'[new].notices = {n}
    BY <1>2, <1>5, <2>1, TurnsBegin
  <2>4. TurnsTypeOK' BY <1>1, <1>2, <1>5, <2>2, <2>3 DEF TurnsTypeOK, TranscriptInv
  <2>5. NoticesKept'
    <3> SUFFICES ASSUME NEW k \in 1 .. n, cut \cup overtaken = {}
                 PROVE  \/ k \in refused \cup Heard(transcript')
                        \/ \E u \in 1 .. new : turns'[u].at = "assembling" /\ k \in turns'[u].notices
      <4>1. DOMAIN turns' = 1 .. new BY <2>3
      <4>2. cut' \cup overtaken' = {} => cut \cup overtaken = {} BY <1>1, <2>2
      <4> QED BY <1>1, <4>1, <4>2 DEF NoticesKept, Going, Turn
    <3>0. new \in 1 .. new /\ \A u \in 1 .. Len(turns) : u \in 1 .. new BY <1>2, <2>1
    <3>1. CASE k = n BY <2>3, <3>0, <3>1
    <3>2. CASE k \in 1 .. settled
      <4>1. CASE k \in pending \cup refused \cup Heard(transcript) BY <2>2, <4>1
      <4>2. ASSUME NEW v \in Going, turns[v].at = "assembling", k \in turns[v].notices
            PROVE  \E u \in 1 .. new : turns'[u].at = "assembling" /\ k \in turns'[u].notices
        <5>1. v \in 1 .. Len(turns) BY <1>2 DEF Going, Turn
        <5> QED BY <2>3, <3>0, <4>2, <5>1
      <4> QED BY <3>2, <4>1, <4>2 DEF NoticesKept
    <3> QED BY <1>3, <3>1, <3>2
  <2> QED BY <2>2, <2>4, <2>5 DEF TranscriptInv
<1> QED BY <1>1, <1>4, <1>5

LEMMA SolidCovers == ASSUME NEW s, Solid(s), s # <<>> PROVE Covered(s) # {}
<1>1. s \in Seq(TurnEntry) BY DEF Solid
<1>2. 1 \in 1 .. Len(s) /\ DOMAIN s = 1 .. Len(s) BY <1>1, EmptySeq, LenProperties
<1> QED BY <1>2 DEF Solid, Covered

(* Compaction: entries are cut, or carried by a summary.                   *)
LEMMA DropOldestKeeps == ASSUME TurnsInv, NEW keep \in Nat, DropOldest(keep) PROVE TurnsInv'
<1> USE DEF TurnsInv
<1> PICK old, new : old = Oldest(keep) /\ new = Newest(keep) OBVIOUS
<1>1. /\ keep < Len(transcript) /\ transcript' = new /\ cut' = cut \cup Covered(old)
      /\ UNCHANGED <<followUp, turns, active, following, pending, settled, said, overtaken, refused, summarised>>
  <2>1. Len(transcript) > keep BY DEF DropOldest
  <2>2. Len(transcript) \in Nat BY DEF TurnsTypeOK, Solid
  <2> QED BY <2>1, <2>2 DEF DropOldest, Compacts
<1>2. Solid(old) /\ old # <<>> /\ Solid(new) /\ transcript = old \o new BY <1>1, OldestThenNewest
<1>3. Covered(transcript) = Covered(old) \cup Covered(new) BY <1>2, CoveredConcat DEF Solid
<1>4. Covered(old) # {} BY <1>2, SolidCovers
<1>5. TurnsTypeOK' BY <1>1, <1>2 DEF TurnsTypeOK
<1>6. LostOnlyIfOvertaken' BY <1>1, <1>3 DEF LostOnlyIfOvertaken, Lost
<1>7. cut' \cup overtaken' # {} BY <1>1, <1>4
<1>8. NoticesKept' BY <1>7 DEF NoticesKept
<1>9. SummaryIsWhole'
  <2> SUFFICES ASSUME summarised # None PROVE SummaryIsWhole' BY <1>1 DEF SummaryIsWhole
  <2> PICK o \in Seq(TurnEntry), kept \in Seq(TurnEntry) :
            /\ Solid(o) /\ Solid(kept) /\ o # <<>> /\ summarised = [kept |-> kept, summary |-> {o}]
            /\ 1 .. said \subseteq Covered(o) \cup Covered(kept) \cup cut \cup overtaken
    BY DEF SummaryIsWhole
  <2>1. 1 .. said' \subseteq Covered(o) \cup Covered(kept) \cup cut' \cup overtaken' BY <1>1
  <2> QED BY <1>1, <1>7, <2>1 DEF SummaryIsWhole
<1> QED BY <1>5, <1>6, <1>8, <1>9

LEMMA SummariseKeeps == ASSUME TurnsInv, NEW keep \in Nat, Summarise(keep) PROVE TurnsInv'
<1> USE DEF TurnsInv
<1> PICK k : k = AlignedKeep(keep) OBVIOUS
<1> PICK old, new : old = Oldest(k) /\ new = Newest(k) OBVIOUS
<1>1. /\ k < Len(transcript) /\ summarised' = [kept |-> new, summary |-> {old}]
      /\ UNCHANGED <<followUp, turns, active, following, pending, settled, said, overtaken, refused, transcript, cut>>
  BY DEF Summarise, Compacts
<1>2. k \in Nat BY DEF AlignedKeep
<1>3. Solid(old) /\ old # <<>> /\ Solid(new) /\ transcript = old \o new
  BY <1>1, <1>2, OldestThenNewest
<1>4. Covered(transcript) = Covered(old) \cup Covered(new) BY <1>3, CoveredConcat DEF Solid
<1>5. TurnsTypeOK' BY <1>1 DEF TurnsTypeOK
<1>6. LostOnlyIfOvertaken' /\ NoticesKept'
  BY <1>1 DEF LostOnlyIfOvertaken, Lost, NoticesKept, Going, Turn
<1>7. SummaryIsWhole'
  <2>1. 1 .. said' \subseteq Covered(old) \cup Covered(new) \cup cut' \cup overtaken'
    BY <1>1, <1>4 DEF LostOnlyIfOvertaken, Lost
  <2>2. old \in Seq(TurnEntry) /\ new \in Seq(TurnEntry) BY <1>3 DEF Solid
  <2> QED BY <1>1, <1>3, <2>1, <2>2 DEF SummaryIsWhole
<1> QED BY <1>5, <1>6, <1>7

LEMMA SummaryDoneKeeps == ASSUME TurnsInv, SummaryDone PROVE TurnsInv'
<1> USE DEF TurnsInv
<1>1. /\ summarised # None /\ summarised' = None
      /\ UNCHANGED <<followUp, turns, active, following, pending, settled, said, compactions, cut, overtaken, refused>>
  BY DEF SummaryDone
<1> PICK old \in Seq(TurnEntry), kept \in Seq(TurnEntry) :
            /\ Solid(old) /\ Solid(kept) /\ old # <<>> /\ summarised = [kept |-> kept, summary |-> {old}]
            /\ 1 .. said \subseteq Covered(old) \cup Covered(kept) \cup cut \cup overtaken
            /\ cut \cup overtaken = {} => transcript = old \o kept
  BY <1>1 DEF SummaryIsWhole
<1> PICK m : m = Message("user", 0, Heard(old), Covered(old)) OBVIOUS
<1>2. transcript' = <<m>> \o kept BY DEF SummaryDone
<1>3. m \in TurnEntry /\ m.covers = Covered(old) /\ m.notices = Heard(old)
  <2>1. DOMAIN old = 1 .. Len(old) /\ \A k \in 1 .. Len(old) : old[k] \in TurnEntry OBVIOUS
  <2>2. Covered(old) \subseteq Nat BY <2>1 DEF Covered, TurnEntry
  <2>3. Heard(old) \subseteq Nat BY <2>1 DEF Heard, TurnEntry
  <2> QED BY <2>2, <2>3 DEF Message, TurnEntry
<1>4. <<m>> \in Seq(TurnEntry) /\ Covered(<<m>>) = Covered(old) /\ Heard(<<m>>) = Heard(old)
  BY <1>3, OneEntry
<1>5. Covered(transcript') = Covered(old) \cup Covered(kept) /\ Heard(transcript') = Heard(old) \cup Heard(kept)
  BY <1>2, <1>4, CoveredConcat
<1>6. Solid(transcript')
  <2>1. m.covers # {} BY <1>3, SolidCovers
  <2>2. Len(<<m>>) = 1 /\ <<m>>[1] = m /\ \A k \in 1 .. 1 : k = 1 OBVIOUS
  <2>3. Solid(<<m>>) BY <1>4, <2>1, <2>2 DEF Solid
  <2> QED BY <1>2, <2>3, SolidConcat
<1>7. TurnsTypeOK' BY <1>1, <1>6 DEF TurnsTypeOK
<1>8. LostOnlyIfOvertaken' BY <1>1, <1>5 DEF LostOnlyIfOvertaken, Lost
<1>9. NoticesKept'
  <2>1. CASE cut \cup overtaken # {} BY <1>1, <2>1 DEF NoticesKept
  <2>2. CASE cut \cup overtaken = {}
    <3>1. Heard(transcript') = Heard(transcript) BY <1>5, <2>2, CoveredConcat
    <3> QED BY <1>1, <3>1 DEF NoticesKept, Going, Turn
  <2> QED BY <2>1, <2>2
<1>10. SummaryIsWhole' BY <1>1 DEF SummaryIsWhole, None
<1> QED BY <1>7, <1>8, <1>9, <1>10

LEMMA TurnsQuiet ==
    ASSUME TurnsInv, UNCHANGED turnsVars \/ SummaryRefused PROVE TurnsInv'
<1>1. /\ UNCHANGED <<turns, pending, settled, transcript, said, cut, overtaken, refused>>
      /\ summarised' = summarised \/ summarised' = None
  BY DEF turnsVars, SummaryRefused
<1>2. SummaryIsWhole' BY <1>1 DEF SummaryIsWhole, None, TurnsInv
<1>3. TurnsTypeOK' /\ LostOnlyIfOvertaken'
  BY <1>1 DEF TurnsInv, TurnsTypeOK, LostOnlyIfOvertaken, Lost
<1>4. NoticesKept' BY <1>1 DEF TurnsInv, NoticesKept, Going, Turn
<1> QED BY <1>2, <1>3, <1>4 DEF TurnsInv

LEMMA TurnsSteps == TurnsInv /\ [TurnsNext]_turnsVars => TurnsInv'
<1> SUFFICES ASSUME TurnsInv, [TurnsNext]_turnsVars PROVE TurnsInv' OBVIOUS
<1>1. CASE HostPrompts BY <1>1, HostPromptsKeeps
<1>2. CASE Settle BY <1>2, SettleKeeps
<1>3. ASSUME NEW t \in Turn, TurnStep(t) PROVE TurnsInv'
  BY <1>3, AssembledKeeps, VetoedKeeps, AskKeeps, SaysKeeps, CallsKeeps, ResultsKeeps,
     EndTurnKeeps, ReturnKeeps
     DEF TurnStep
<1>4. ASSUME NEW keep \in 0 .. MaxKeep, DropOldest(keep) \/ Summarise(keep) PROVE TurnsInv'
  <2>1. keep \in Nat BY TurnsAssumption
  <2> QED BY <1>4, <2>1, DropOldestKeeps, SummariseKeeps
<1>5. CASE SummaryDone BY <1>5, SummaryDoneKeeps
<1>6. CASE SummaryRefused \/ UNCHANGED turnsVars BY <1>6, TurnsQuiet
<1> QED BY <1>1, <1>2, <1>3, <1>4, <1>5, <1>6 DEF TurnsNext

(* No race of turns, compactions and settlements drops what was said.      *)
LEMMA NothingIsDropped == TurnsInv => LostOnlyIfOvertaken /\ NoticesKept
BY DEF TurnsInv

-----------------------------------------------------------------------------
(* The reload of a session *)
FileLine == {"header", "call", "result", "unknown"} \X Nat
FileOp   == {"append", "rewrite"} \X Seq(FileLine)
Phases   == {"none", "read", "dirty", "repairing", "opened", "live", "closing", "closed", "failed"}

(* The file when an operation of a writer's chain is done, and at the end  *)
(* of the chain.                                                           *)
FileAfter(file, op) == IF op[1] = "append" THEN file \o op[2] ELSE op[2]
LeadsTo(file, chain, end) ==
    \E f \in [0 .. Len(chain) -> Seq(FileLine)] :
        f[0] = file /\ f[Len(chain)] = end /\ \A k \in 1 .. Len(chain) : f[k] = FileAfter(f[k - 1], chain[k])

LEMMA OpsAreWhole ==
    ASSUME NEW file \in Seq(FileLine), NEW op \in FileOp
    PROVE  FileAfter(file, op) \in Seq(FileLine) /\ op[2] \in Seq(FileLine)
<1>1. op[2] \in Seq(FileLine) BY DEF FileOp
<1>2. file \o op[2] \in Seq(FileLine) BY <1>1, ConcatProperties
<1> QED BY <1>1, <1>2 DEF FileAfter

LEMMA NothingQueued ==
    ASSUME NEW file \in Seq(FileLine), NEW end
    PROVE  LeadsTo(file, <<>>, end) <=> end = file
<1>1. Len(<<>>) = 0 /\ 0 .. 0 = {0} /\ 1 .. 0 = {} OBVIOUS
<1>2. ASSUME LeadsTo(file, <<>>, end) PROVE end = file BY <1>1, <1>2 DEF LeadsTo
<1>3. ASSUME end = file PROVE LeadsTo(file, <<>>, end)
  <2> PICK f : f = [k \in 0 .. 0 |-> file] OBVIOUS
  <2>1. f \in [0 .. 0 -> Seq(FileLine)] /\ f[0] = file OBVIOUS
  <2> QED BY <1>1, <1>3, <2>1 DEF LeadsTo
<1> QED BY <1>2, <1>3

(* A chain grows at its end, and shrinks at its head.                      *)
LEMMA OneQueued ==
    ASSUME NEW file \in Seq(FileLine), NEW chain \in Seq(FileOp), NEW end \in Seq(FileLine),
           LeadsTo(file, chain, end), NEW op \in FileOp
    PROVE  LeadsTo(file, Append(chain, op), FileAfter(end, op))
<1> PICK n : n = Len(chain) OBVIOUS
<1> PICK more : more = Append(chain, op) OBVIOUS
<1> PICK last : last = FileAfter(end, op) OBVIOUS
<1>1. n \in Nat /\ last \in Seq(FileLine) BY OpsAreWhole
<1>2. Len(more) = n + 1 /\ more[n + 1] = op /\ \A k \in 1 .. n : more[k] = chain[k]
  BY AppendProperties
<1> PICK f \in [0 .. n -> Seq(FileLine)] :
        f[0] = file /\ f[n] = end /\ \A k \in 1 .. n : f[k] = FileAfter(f[k - 1], chain[k])
  BY DEF LeadsTo
<1> PICK m : m = n + 1 OBVIOUS
<1> PICK g : g = [k \in 0 .. m |-> IF k = m THEN last ELSE f[k]] OBVIOUS
<1>3. m \in Nat /\ m # 0 /\ m # n /\ m - 1 = n /\ 0 \in 0 .. m /\ n \in 0 .. m /\ m \in 0 .. m
  BY <1>1
<1>4. g \in [0 .. m -> Seq(FileLine)]
  <2>1. ASSUME NEW k \in 0 .. m PROVE (IF k = m THEN last ELSE f[k]) \in Seq(FileLine)
    <3>1. k = m \/ k \in 0 .. n BY <1>1
    <3> QED BY <1>1, <3>1
  <2> QED BY <2>1
<1>5. g[0] = file /\ g[m] = last /\ g[n] = end BY <1>3
<1>6. ASSUME NEW k \in 1 .. m PROVE g[k] = FileAfter(g[k - 1], more[k])
  <2>1. CASE k = m BY <1>2, <1>3, <1>5, <2>1
  <2>2. CASE k # m
    <3>1. k \in 1 .. n /\ k - 1 \in 0 .. m /\ k \in 0 .. m /\ k - 1 # m BY <1>1, <2>2
    <3>2. g[k] = f[k] /\ g[k - 1] = f[k - 1] BY <2>2, <3>1
    <3> QED BY <1>2, <3>1, <3>2
  <2> QED BY <2>1, <2>2
<1>7. Len(more) = m BY <1>2
<1>8. LeadsTo(file, more, last)
  <2> SUFFICES \E h \in [0 .. m -> Seq(FileLine)] :
                   h[0] = file /\ h[m] = last /\ \A k \in 1 .. m : h[k] = FileAfter(h[k - 1], more[k])
    BY <1>7 DEF LeadsTo
  <2> WITNESS g \in [0 .. m -> Seq(FileLine)]
  <2> QED BY <1>5, <1>6
<1> QED BY <1>8

LEMMA OneDone ==
    ASSUME NEW file \in Seq(FileLine), NEW chain \in Seq(FileOp), NEW end,
           LeadsTo(file, chain, end), chain # <<>>
    PROVE  LeadsTo(FileAfter(file, Head(chain)), Tail(chain), end)
<1> PICK n : n = Len(chain) OBVIOUS
<1> PICK rest : rest = Tail(chain) OBVIOUS
<1>1. n \in Nat /\ n # 0 /\ Head(chain) = chain[1] BY EmptySeq
<1> PICK m : m = n - 1 OBVIOUS
<1>2. m \in Nat /\ m + 1 = n BY <1>1
<1>3. Len(rest) = m /\ \A k \in 1 .. m : rest[k] = chain[k + 1] BY HeadTailProperties
<1> PICK f \in [0 .. n -> Seq(FileLine)] :
        f[0] = file /\ f[n] = end /\ \A k \in 1 .. n : f[k] = FileAfter(f[k - 1], chain[k])
  BY DEF LeadsTo
<1> PICK g : g = [k \in 0 .. m |-> f[k + 1]] OBVIOUS
<1>4. \A k \in 0 .. m : k + 1 \in 0 .. n /\ k + 1 \in 1 .. n BY <1>2
<1>5. g \in [0 .. m -> Seq(FileLine)] BY <1>4
<1>6. g[m] = end BY <1>2, <1>4
<1>7. g[0] = FileAfter(file, Head(chain))
  <2>1. 0 \in 0 .. m /\ 0 + 1 = 1 /\ 1 \in 1 .. n /\ 1 - 1 = 0 BY <1>2
  <2> QED BY <1>1, <2>1
<1>8. ASSUME NEW k \in 1 .. m PROVE g[k] = FileAfter(g[k - 1], rest[k])
  <2>1. k \in 0 .. m /\ k - 1 \in 0 .. m /\ (k - 1) + 1 = k /\ k + 1 \in 1 .. n /\ (k + 1) - 1 = k
    BY <1>2
  <2>2. g[k] = f[k + 1] /\ g[k - 1] = f[k] BY <2>1
  <2>3. f[k + 1] = FileAfter(f[k], chain[k + 1]) BY <2>1
  <2> QED BY <1>3, <2>2, <2>3
<1> PICK first : first = FileAfter(file, Head(chain)) OBVIOUS
<1>9. LeadsTo(first, rest, end)
  <2>1. Len(rest) = m BY <1>3
  <2> SUFFICES \E h \in [0 .. m -> Seq(FileLine)] :
                   h[0] = first /\ h[m] = end /\ \A k \in 1 .. m : h[k] = FileAfter(h[k - 1], rest[k])
    BY <2>1 DEF LeadsTo
  <2> WITNESS g \in [0 .. m -> Seq(FileLine)]
  <2> QED BY <1>6, <1>7, <1>8
<1> QED BY <1>9

(* A line at the end of the second part is one at the end of both.         *)
LEMMA OneMoreLine ==
    ASSUME NEW s \in Seq(FileLine), NEW t \in Seq(FileLine), NEW e \in FileLine
    PROVE  s \o Append(t, e) = Append(s \o t, e)
<1> PICK last : last = <<e>> OBVIOUS
<1>1. last \in Seq(FileLine) /\ s \o t \in Seq(FileLine) BY ConcatProperties
<1>2. Append(t, e) = t \o last /\ Append(s \o t, e) = (s \o t) \o last BY <1>1, AppendIsConcat
<1> QED BY <1>1, <1>2, ConcatAssociative

LEMMA FirstLine ==
    ASSUME NEW e \in FileLine, NEW t \in Seq(FileLine)
    PROVE  LET whole == <<e>> \o t IN
           /\ whole \in Seq(FileLine) /\ whole # <<>> /\ whole[1] = e /\ Tail(whole) = t
<1> PICK whole : whole = <<e>> \o t OBVIOUS
<1> PICK first : first = <<e>> OBVIOUS
<1> PICK n : n = Len(t) OBVIOUS
<1>1. first \in Seq(FileLine) /\ Len(first) = 1 /\ first[1] = e /\ n \in Nat OBVIOUS
<1>2. /\ whole \in Seq(FileLine) /\ Len(whole) = 1 + n
      /\ \A k \in 1 .. 1 + n : whole[k] = IF k <= 1 THEN first[k] ELSE t[k - 1]
  BY <1>1, ConcatProperties
<1>3. whole # <<>> BY <1>1, <1>2, EmptySeq
<1>4. whole[1] = e BY <1>1, <1>2
<1> PICK rest : rest = Tail(whole) OBVIOUS
<1>5. rest \in Seq(FileLine) /\ Len(rest) = n /\ \A k \in 1 .. n : rest[k] = whole[k + 1]
  BY <1>1, <1>2, <1>3, HeadTailProperties
<1>6. ASSUME NEW k \in 1 .. n PROVE rest[k] = t[k]
  <2> PICK j : j = k + 1 OBVIOUS
  <2>1. j \in 1 .. 1 + n /\ ~(j <= 1) /\ j - 1 = k BY <1>1
  <2> QED BY <1>2, <1>5, <2>1
<1>7. rest = t BY <1>5, <1>6, SeqEqual
<1> QED BY <1>2, <1>3, <1>4, <1>7

---------------------------------------------------------------------------
(* The lines of an earlier process: none, or the call it died in, marked.  *)
Bases == {<<>>, <<Entry("call", 0), Entry("unknown", 0)>>}
TextOf(base)   == base \o uttered
FileOf(base) == <<Header>> \o TextOf(base)

(* Nothing of an earlier process is left dangling, or counts as said.      *)
LEMMA BasesAreMended ==
    ASSUME NEW base \in Bases
    PROVE  /\ base \in Seq(FileLine) /\ ~Dangling(base)
           /\ \A l \in 1 .. Len(base) : Recovered(base[l])
<1>1. CASE base = <<>> BY <1>1 DEF Dangling
<1>2. CASE base = <<Entry("call", 0), Entry("unknown", 0)>>
  <2> PICK x, y : x = Entry("call", 0) /\ y = Entry("unknown", 0) OBVIOUS
  <2>1. x \in FileLine /\ y \in FileLine /\ x[2] = 0 /\ y[2] = 0 /\ y[1] = "unknown"
    BY DEF Entry, FileLine
  <2>2. base = <<x, y>> /\ Len(base) = 2 /\ base[1] = x /\ base[2] = y BY <1>2
  <2>3. base \in Seq(FileLine) BY <2>1, <2>2
  <2>4. ~Dangling(base) BY <2>1, <2>2 DEF Dangling, Final
  <2>5. ASSUME NEW l \in 1 .. Len(base) PROVE Recovered(base[l])
    <3>1. l = 1 \/ l = 2 BY <2>2
    <3> QED BY <2>1, <2>2, <3>1 DEF Recovered
  <2> QED BY <2>3, <2>4, <2>5
<1> QED BY <1>1, <1>2 DEF Bases

LEMMA HeaderIsLine == Header \in FileLine
BY DEF Header, FileLine

LEMMA WholeText ==
    ASSUME NEW base \in Bases, uttered \in Seq(FileLine)
    PROVE  /\ TextOf(base) \in Seq(FileLine) /\ FileOf(base) \in Seq(FileLine) /\ FileOf(base) # <<>>
           /\ FileOf(base)[1] = Header /\ Tail(FileOf(base)) = TextOf(base)
<1> PICK text : text = TextOf(base) OBVIOUS
<1>1. text \in Seq(FileLine) BY BasesAreMended, ConcatProperties DEF TextOf
<1>2. FileOf(base) = <<Header>> \o text BY DEF FileOf
<1> QED BY <1>1, <1>2, HeaderIsLine, FirstLine

ReloadTypeOK ==
    /\ onDisk \in Seq(FileLine) /\ uttered \in Seq(FileLine) /\ phase \in [Copies -> Phases]
    /\ held \in [Copies -> Seq(FileLine)] /\ buffer \in [Copies -> Seq(FileLine)]
    /\ ops \in [Copies -> Seq(FileOp)] /\ swapping \in [Copies -> {"no", "written", "synced"}]

Rewriting(base) == << <<"rewrite", FileOf(base)>> >>

ObjectIsRight(i, base) ==
    /\ phase[i] # "failed"
    /\ phase[i] \in {"none", "read", "dirty", "opened", "closing", "closed"} => buffer[i] = <<>> /\ ops[i] = <<>>
    /\ phase[i] \in {"read", "dirty", "repairing", "opened", "live"} => held[i] = TextOf(base)
    /\ phase[i] \in {"read", "opened"} => onDisk = FileOf(base)
    /\ phase[i] = "repairing" =>
          buffer[i] = <<>> /\ ((ops[i] = <<>> /\ onDisk = FileOf(base)) \/ ops[i] = Rewriting(base))
    /\ phase[i] = "live" =>
          \E end \in Seq(FileLine) : LeadsTo(onDisk, ops[i], end) /\ end \o buffer[i] = FileOf(base)

SwapIsRight(i) == swapping[i] # "no" => AtHead(i, "rewrite") /\ temp = <<Head(ops[i])[2]>>

(* While nothing raced: every object being opened, and the live one, hold  *)
(* what was said behind the lines of an earlier process; the live one's    *)
(* chain and buffer bring the file there; the others have nothing to do,   *)
(* and one rewrite at a time is under way.                                 *)
FileIsRight(base) ==
    /\ broken = {}
    /\ BeingOpened # {} => ~Dangling(TextOf(base)) /\ \A i \in Serving : AtRest(i)
    /\ Serving = {} =>
          uttered = <<>> /\ (onDisk = FileOf(base) \/ (base # <<>> /\ onDisk = <<Header, Entry("call", 0)>>))
    /\ \A i, j \in Serving : i = j
    /\ \A i, j \in Copies : swapping[i] # "no" /\ swapping[j] # "no" => i = j

AllIsRight(base) == ReloadTypeOK /\ FileIsRight(base) /\ \A i \in Copies : ObjectIsRight(i, base) /\ SwapIsRight(i)

(* The invariant, for either way the file began.                           *)
ReloadInv == ~raced => \E base \in Bases : AllIsRight(base)

---------------------------------------------------------------------------
LEMMA ReloadStarts == ReloadInit => ReloadInv
<1> SUFFICES ASSUME ReloadInit PROVE \E base \in Bases : AllIsRight(base) BY DEF ReloadInv
<1> USE DEF ReloadInit
<1>1. Header \in FileLine /\ Entry("call", 0) \in FileLine BY HeaderIsLine DEF Entry, FileLine
<1>2. ReloadTypeOK
  <2>1. onDisk \in Seq(FileLine)
    <3>1. <<Header>> \in Seq(FileLine) /\ <<Header, Entry("call", 0)>> \in Seq(FileLine) BY <1>1
    <3> QED BY <3>1
  <2>2. phase \in [Copies -> Phases] BY DEF Phases
  <2>3. uttered \in Seq(FileLine) /\ held \in [Copies -> Seq(FileLine)] /\ buffer \in [Copies -> Seq(FileLine)]
    BY EmptySeq
  <2>4. ops \in [Copies -> Seq(FileOp)] BY EmptySeq
  <2> QED BY <2>1, <2>2, <2>3, <2>4 DEF ReloadTypeOK
<1>3. Serving = {} /\ BeingOpened = {} BY DEF Serving, BeingOpened
<1>4. \A base \in Bases : \A i \in Copies : ObjectIsRight(i, base) /\ SwapIsRight(i)
  BY DEF ObjectIsRight, SwapIsRight
<1>5. CASE onDisk = <<Header>>
  <2> PICK base : base = <<>> OBVIOUS
  <2>1. base \in Bases BY DEF Bases
  <2>2. onDisk = FileOf(base)
    <3>1. TextOf(base) = <<>> BY DEF TextOf
    <3>2. <<Header>> \o <<>> = <<Header>> BY <1>1
    <3> QED BY <1>5, <3>1, <3>2 DEF FileOf
  <2>3. FileIsRight(base)
    <3>1. uttered = <<>> /\ broken = {} OBVIOUS
    <3>2. \A i \in Copies : swapping[i] = "no" OBVIOUS
    <3> HIDE DEF ReloadInit
    <3>3. \A i, j \in Serving : i = j BY <1>3
    <3>4. Serving = {} => uttered = <<>> /\ (onDisk = FileOf(base) \/ (base # <<>> /\ onDisk = <<Header, Entry("call", 0)>>))
      BY <2>2, <3>1
    <3>5. BeingOpened # {} => ~Dangling(TextOf(base)) /\ \A i \in Serving : AtRest(i) BY <1>3
    <3>6. \A i, j \in Copies : swapping[i] # "no" /\ swapping[j] # "no" => i = j BY <3>2
    <3> QED BY <3>1, <3>3, <3>4, <3>5, <3>6 DEF FileIsRight
  <2> QED BY <1>2, <1>4, <2>1, <2>3 DEF AllIsRight
<1>6. CASE onDisk = <<Header, Entry("call", 0)>>
  <2> PICK base : base = <<Entry("call", 0), Entry("unknown", 0)>> OBVIOUS
  <2>1. base \in Bases /\ base # <<>> BY DEF Bases
  <2>2. FileIsRight(base) BY <1>3, <1>6, <2>1 DEF FileIsRight
  <2> QED BY <1>2, <1>4, <2>1, <2>2 DEF AllIsRight
<1> QED BY <1>5, <1>6

(* What an object is, it stays while neither it nor the file changes.      *)
LEMMA ObjectStays ==
    ASSUME NEW base \in Bases, NEW j \in Copies, ObjectIsRight(j, base),
           UNCHANGED <<onDisk, uttered>>,
           phase'[j] = phase[j], held'[j] = held[j], buffer'[j] = buffer[j], ops'[j] = ops[j]
    PROVE  ObjectIsRight(j, base)'
<1>1. TextOf(base)' = TextOf(base) /\ FileOf(base)' = FileOf(base) /\ Rewriting(base)' = Rewriting(base)
  BY DEF TextOf, FileOf, Rewriting
<1> QED BY <1>1 DEF ObjectIsRight

LEMMA SwapStays ==
    ASSUME NEW j \in Copies, SwapIsRight(j), temp' = temp, swapping'[j] = swapping[j],
           ops'[j] = ops[j]
    PROVE  SwapIsRight(j)'
BY DEF SwapIsRight, AtHead

(* The file of a live object at rest says what it holds.                   *)
LEMMA RestingFile ==
    ASSUME NEW base \in Bases, AllIsRight(base), NEW i \in Serving, AtRest(i)
    PROVE  onDisk = FileOf(base)
<1>1. ObjectIsRight(i, base) /\ phase[i] = "live" BY DEF AllIsRight, Serving
<1> PICK end \in Seq(FileLine) : LeadsTo(onDisk, ops[i], end) /\ end \o buffer[i] = FileOf(base)
  BY <1>1 DEF ObjectIsRight
<1>2. ops[i] = <<>> /\ buffer[i] = <<>> BY DEF AtRest
<1>3. end = onDisk BY <1>2, NothingQueued DEF AllIsRight, ReloadTypeOK
<1> QED BY <1>2, <1>3, ConcatEmptySeq

(* The live object is the only one that has still to hold what is said.    *)
LEMMA LiveAlone ==
    ASSUME NEW base \in Bases, AllIsRight(base), NEW i \in Copies, phase[i] = "live",
           BeingOpened = {}
    PROVE  \A j \in Copies \ {i} : phase[j] \in {"none", "closing", "closed"}
<1>1. ASSUME NEW j \in Copies \ {i} PROVE phase[j] \in {"none", "closing", "closed"}
  <2>1. phase[j] \in Phases /\ phase[j] # "failed" BY DEF AllIsRight, ReloadTypeOK, ObjectIsRight
  <2>2. phase[j] # "live" BY DEF AllIsRight, FileIsRight, Serving
  <2>3. phase[j] \notin {"read", "dirty", "repairing", "opened"} BY DEF BeingOpened
  <2> QED BY <2>1, <2>2, <2>3 DEF Phases
<1> QED BY <1>1

(* Who has something to write.                                             *)
LEMMA AtWork ==
    ASSUME NEW base \in Bases, AllIsRight(base), NEW i \in Copies,
           ops[i] # <<>> \/ buffer[i] # <<>>
    PROVE  \/ phase[i] = "live" /\ BeingOpened = {}
           \/ phase[i] = "repairing" /\ ops[i] = Rewriting(base) /\ buffer[i] = <<>>
<1>1. phase[i] \in Phases /\ ObjectIsRight(i, base) BY DEF AllIsRight, ReloadTypeOK
<1>2. phase[i] = "live" \/ (phase[i] = "repairing" /\ ops[i] = Rewriting(base) /\ buffer[i] = <<>>)
  <2>1. CASE phase[i] = "repairing" BY <1>1, <2>1 DEF ObjectIsRight
  <2>2. CASE phase[i] \notin {"repairing", "live"}
    <3>1. phase[i] \in {"none", "read", "dirty", "opened", "closing", "closed"}
      BY <1>1, <2>2 DEF ObjectIsRight, Phases
    <3> QED BY <1>1, <3>1 DEF ObjectIsRight
  <2>3. CASE phase[i] = "live" BY <2>3
  <2> QED BY <2>1, <2>2, <2>3
<1>3. ASSUME phase[i] = "live" PROVE BeingOpened = {}
  <2>1. i \in Serving BY <1>3 DEF Serving
  <2> QED BY <2>1 DEF AllIsRight, FileIsRight, AtRest
<1> QED BY <1>2, <1>3

(* A load reads what the file says, repaired.                              *)
LEMMA ReadsFileRight ==
    ASSUME NEW base \in Bases, AllIsRight(base), NEW i \in Copies, ReadsFile(i),
           \A j \in Serving : AtRest(j)
    PROVE  AllIsRight(base)'
<1> USE DEF AllIsRight
<1> PICK text : text = TextOf(base) OBVIOUS
<1>1. /\ text \in Seq(FileLine) /\ FileOf(base) # <<>> /\ FileOf(base)[1] = Header /\ Tail(FileOf(base)) = text
  BY WholeText DEF ReloadTypeOK
<1>2. ASSUME onDisk = FileOf(base), ~Dangling(text)
      PROVE  /\ held' = [held EXCEPT ![i] = text] /\ phase' = [phase EXCEPT ![i] = "read"]
  BY <1>1, <1>2 DEF ReadsFile, Mended
<1>3. ASSUME NEW j \in Serving PROVE onDisk = FileOf(base) /\ ~Dangling(text)
  <2>1. ~Dangling(held[j]) /\ held[j] = text BY DEF AtRest, ObjectIsRight, Serving
  <2> QED BY <2>1, RestingFile
<1>4. ASSUME Serving = {} PROVE text = base /\ ~Dangling(text)
  <2>1. base \o <<>> = base BY BasesAreMended, ConcatEmptySeq
  <2> QED BY <1>4, <2>1, BasesAreMended DEF FileIsRight, TextOf
<1>5. ASSUME Serving = {}, onDisk # FileOf(base)
      PROVE  /\ held' = [held EXCEPT ![i] = text] /\ phase' = [phase EXCEPT ![i] = "dirty"]
  <2> PICK call, unknown : call = Entry("call", 0) /\ unknown = Entry("unknown", 0) OBVIOUS
  <2>1. onDisk = <<Header, call>> /\ base = <<call, unknown>> BY <1>5 DEF FileIsRight, Bases
  <2>2. onDisk # <<>> /\ onDisk[1] = Header BY <2>1
  <2> PICK tail : tail = Tail(onDisk) OBVIOUS
  <2>3. tail = <<call>> BY <2>1
  <2>b. call[1] = "call" /\ call[2] = 0 /\ call \in FileLine /\ unknown \in FileLine
    BY DEF Entry, FileLine
  <2>c. <<call>> \in Seq(FileLine) /\ Len(<<call>>) = 1 /\ <<call>>[1] = call BY <2>b
  <2>a. tail # <<>> /\ Len(tail) = 1 /\ tail[1] = call BY <2>3, <2>c, EmptySeq
  <2>4. Final(tail) = call /\ tail # <<>> /\ call[1] = "call" /\ call[2] = 0
    BY <2>a, <2>b DEF Final
  <2>5. Dangling(tail) BY <2>4 DEF Dangling
  <2>6. Mended(tail) = Append(tail, unknown) BY <2>4, <2>5 DEF Mended
  <2>7. Append(<<call>>, unknown) = <<call, unknown>>
    <3> PICK two, both : two = Append(<<call>>, unknown) /\ both = <<call, unknown>> OBVIOUS
    <3>1. <<call>> \in Seq(FileLine) /\ Len(<<call>>) = 1 /\ <<call>>[1] = call BY <2>b
    <3>2. two \in Seq(FileLine) /\ Len(two) = 2 /\ two[1] = call /\ two[2] = unknown
      BY <2>b, <3>1, AppendProperties
    <3>3. both \in Seq(FileLine) /\ Len(both) = 2 /\ both[1] = call /\ both[2] = unknown BY <2>b
    <3>4. \A k \in 1 .. 2 : k = 1 \/ k = 2 OBVIOUS
    <3>5. two = both BY <3>2, <3>3, <3>4, SeqEqual
    <3> QED BY <3>5
  <2>8. Mended(tail) = text BY <1>4, <1>5, <2>1, <2>3, <2>6, <2>7
  <2> QED BY <2>2, <2>5, <2>8 DEF ReadsFile
<1>6. /\ ~Dangling(text) /\ held' = [held EXCEPT ![i] = text]
      /\ \/ onDisk = FileOf(base) /\ phase' = [phase EXCEPT ![i] = "read"]
         \/ Serving = {} /\ phase' = [phase EXCEPT ![i] = "dirty"]
  BY <1>2, <1>3, <1>4, <1>5
<1>7. phase[i] = "none" /\ UNCHANGED <<onDisk, temp, buffer, ops, swapping, broken, uttered, titles>>
  BY DEF ReadsFile
<1> HIDE DEF AllIsRight
<1>8. TextOf(base)' = text /\ FileOf(base)' = FileOf(base) BY <1>7 DEF TextOf, FileOf
<1>9. ReloadTypeOK' BY <1>1, <1>6, <1>7 DEF AllIsRight, ReloadTypeOK, Phases
<1>10. ASSUME NEW j \in Copies PROVE ObjectIsRight(j, base)' /\ SwapIsRight(j)'
  <2>1. SwapIsRight(j)' BY <1>7, SwapStays DEF AllIsRight
  <2>2. CASE j # i
    <3>1. phase'[j] = phase[j] /\ held'[j] = held[j] BY <1>6, <2>2 DEF AllIsRight, ReloadTypeOK
    <3> QED BY <1>7, <2>1, <3>1, ObjectStays DEF AllIsRight
  <2>3. CASE j = i
    <3>1. phase'[i] \in {"read", "dirty"} /\ held'[i] = text /\ (phase'[i] = "read" => onDisk = FileOf(base))
      BY <1>6 DEF AllIsRight, ReloadTypeOK
    <3>2. buffer'[i] = <<>> /\ ops'[i] = <<>> BY <1>7 DEF AllIsRight, ObjectIsRight
    <3>3. ObjectIsRight(i, base)' BY <1>7, <1>8, <3>1, <3>2 DEF ObjectIsRight
    <3> QED BY <2>1, <2>3, <3>3
  <2> QED BY <2>2, <2>3
<1>11. FileIsRight(base)'
  <2>1. Serving' = Serving BY <1>6, <1>7 DEF Serving, AllIsRight, ReloadTypeOK
  <2>2. \A j \in Serving : AtRest(j)'
    <3>1. ASSUME NEW j \in Serving PROVE AtRest(j)'
      <4>1. j \in Copies /\ j # i BY <1>7 DEF Serving
      <4>2. held'[j] = held[j] BY <1>6, <4>1 DEF AllIsRight, ReloadTypeOK
      <4> QED BY <1>7, <4>2 DEF AtRest
    <3> QED BY <3>1
  <2> QED BY <1>6, <1>7, <1>8, <2>1, <2>2 DEF FileIsRight, AllIsRight
<1> QED BY <1>9, <1>10, <1>11 DEF AllIsRight

LEMMA GetsLeaseRight ==
    ASSUME NEW base \in Bases, AllIsRight(base), NEW i \in Copies, GetsLease(i)
    PROVE  AllIsRight(base)'
<1>0. UNCHANGED <<onDisk, temp, held, buffer, swapping, broken, uttered, titles, raced>>
  BY DEF GetsLease
<1>1. /\ ops[i] = <<>> /\ buffer[i] = <<>> /\ held[i] = TextOf(base) /\ phase[i] \in {"read", "dirty"}
      /\ phase[i] = "read" => onDisk = FileOf(base)
  BY DEF GetsLease, AllIsRight, ObjectIsRight
<1>2. TextOf(base)' = TextOf(base) /\ FileOf(base)' = FileOf(base) /\ Rewriting(base)' = Rewriting(base)
  BY <1>0 DEF TextOf, FileOf, Rewriting
<1>3. \/ phase[i] = "read" /\ phase' = [phase EXCEPT ![i] = "opened"] /\ ops' = ops
      \/ phase' = [phase EXCEPT ![i] = "repairing"] /\ ops' = [ops EXCEPT ![i] = Rewriting(base)]
  <2>1. Whole(i) = <<"rewrite", FileOf(base)>> BY <1>1 DEF Whole, FileOf
  <2>2. Append(<<>>, Whole(i)) = Rewriting(base) BY <2>1 DEF Rewriting
  <2>3. Enqueue(i, Whole(i)) => ops' = [ops EXCEPT ![i] = Rewriting(base)]
    BY <1>1, <2>2 DEF Enqueue
  <2> QED BY <2>3 DEF GetsLease
<1>4. Rewriting(base) \in Seq(FileOp)
  <2>1. FileOf(base) \in Seq(FileLine) BY WholeText DEF AllIsRight, ReloadTypeOK
  <2>2. <<"rewrite", FileOf(base)>> \in FileOp BY <2>1 DEF FileOp
  <2> QED BY <2>2 DEF Rewriting
<1>5. ReloadTypeOK' BY <1>0, <1>3, <1>4 DEF AllIsRight, ReloadTypeOK, Phases
<1>6. /\ \A j \in Copies \ {i} : phase'[j] = phase[j] /\ ops'[j] = ops[j]
      /\ \/ phase[i] = "read" /\ phase'[i] = "opened" /\ ops'[i] = <<>>
         \/ phase'[i] = "repairing" /\ ops'[i] = Rewriting(base)
  BY <1>1, <1>3 DEF AllIsRight, ReloadTypeOK
<1>7. swapping[i] = "no" BY <1>1 DEF AllIsRight, SwapIsRight, AtHead
<1>8. ASSUME NEW j \in Copies PROVE ObjectIsRight(j, base)' /\ SwapIsRight(j)'
  <2>1. CASE j # i BY <1>0, <1>6, <2>1, ObjectStays, SwapStays DEF AllIsRight
  <2>2. CASE j = i
    <3>1. SwapIsRight(i)' BY <1>0, <1>7 DEF SwapIsRight
    <3>2. ObjectIsRight(i, base)' BY <1>0, <1>1, <1>2, <1>6 DEF ObjectIsRight
    <3> QED BY <2>2, <3>1, <3>2
  <2> QED BY <2>1, <2>2
<1>9. FileIsRight(base)'
  <2>1. Serving' = Serving BY <1>1, <1>6 DEF Serving
  <2>2. i \in BeingOpened BY <1>1 DEF BeingOpened
  <2>3. ASSUME NEW j \in Serving PROVE AtRest(j)'
    <3>1. j \in Copies \ {i} /\ AtRest(j) BY <1>1, <2>2 DEF Serving, AllIsRight, FileIsRight
    <3> QED BY <1>0, <1>6, <3>1 DEF AtRest
  <2> QED BY <1>0, <1>2, <2>1, <2>2, <2>3 DEF FileIsRight, AllIsRight
<1> QED BY <1>5, <1>8, <1>9 DEF AllIsRight

LEMMA IsRepairedRight ==
    ASSUME NEW base \in Bases, AllIsRight(base), NEW i \in Copies, IsRepaired(i)
    PROVE  AllIsRight(base)'
<1>0. phase[i] = "repairing" /\ ops[i] = <<>> /\ phase' = [phase EXCEPT ![i] = "opened"]
      /\ UNCHANGED <<onDisk, temp, held, buffer, ops, swapping, broken, uttered, titles, raced>>
  BY DEF IsRepaired, AllIsRight, FileIsRight
<1>1. buffer[i] = <<>> /\ held[i] = TextOf(base) /\ onDisk = FileOf(base)
  BY <1>0 DEF AllIsRight, ObjectIsRight, Rewriting
<1>2. TextOf(base)' = TextOf(base) /\ FileOf(base)' = FileOf(base) BY <1>0 DEF TextOf, FileOf
<1>3. ReloadTypeOK' BY <1>0 DEF AllIsRight, ReloadTypeOK, Phases
<1>4. phase'[i] = "opened" /\ \A j \in Copies \ {i} : phase'[j] = phase[j]
  BY <1>0 DEF AllIsRight, ReloadTypeOK
<1>5. ASSUME NEW j \in Copies PROVE ObjectIsRight(j, base)' /\ SwapIsRight(j)'
  <2>1. SwapIsRight(j)' BY <1>0, SwapStays DEF AllIsRight
  <2>2. CASE j # i BY <1>0, <1>4, <2>1, <2>2, ObjectStays DEF AllIsRight
  <2>3. CASE j = i
    <3>1. ObjectIsRight(i, base)' BY <1>0, <1>1, <1>2, <1>4 DEF ObjectIsRight
    <3> QED BY <2>1, <2>3, <3>1
  <2> QED BY <2>2, <2>3
<1>6. FileIsRight(base)'
  <2>1. Serving' = Serving /\ i \in BeingOpened BY <1>0, <1>4 DEF Serving, BeingOpened
  <2>2. \A j \in Serving : AtRest(j) <=> AtRest(j)' BY <1>0 DEF AtRest
  <2> QED BY <1>0, <1>2, <2>1, <2>2 DEF FileIsRight, AllIsRight
<1> QED BY <1>3, <1>5, <1>6 DEF AllIsRight

(* The object whose place is taken has nothing left to write.              *)
LEMMA TakesOverRight ==
    ASSUME NEW base \in Bases, AllIsRight(base), NEW i \in Copies, TakesOver(i)
    PROVE  AllIsRight(base)'
<1>0. /\ phase[i] = "opened"
      /\ phase' = [j \in Copies |-> IF j = i THEN "live" ELSE IF j \in Serving THEN "closing" ELSE phase[j]]
      /\ UNCHANGED <<onDisk, temp, held, swapping, broken, uttered, titles, raced>>
  BY DEF TakesOver
<1>1. i \in BeingOpened /\ i \notin Serving BY <1>0 DEF BeingOpened, Serving
<1>2. ~Dangling(TextOf(base)) /\ \A j \in Serving : AtRest(j) BY <1>1 DEF AllIsRight, FileIsRight
<1>3. ops' = ops /\ buffer' = buffer
  <2>1. ASSUME NEW j \in Copies
        PROVE  /\ (IF j \in Serving THEN BufferQueued(j) ELSE ops[j]) = ops[j]
               /\ (IF j \in Serving THEN <<>> ELSE buffer[j]) = buffer[j]
    BY <1>2 DEF BufferQueued, AtRest
  <2>2. ops' = [j \in Copies |-> ops[j]] /\ buffer' = [j \in Copies |-> buffer[j]]
    BY <2>1 DEF TakesOver
  <2> QED BY <2>2 DEF AllIsRight, ReloadTypeOK
<1>4. TextOf(base)' = TextOf(base) /\ FileOf(base)' = FileOf(base) /\ Rewriting(base)' = Rewriting(base)
  BY <1>0 DEF TextOf, FileOf, Rewriting
<1>5. ReloadTypeOK'
  <2>1. phase' \in [Copies -> Phases] BY <1>0 DEF AllIsRight, ReloadTypeOK, Phases
  <2> QED BY <1>0, <1>3, <2>1 DEF AllIsRight, ReloadTypeOK
<1>6. buffer[i] = <<>> /\ ops[i] = <<>> /\ held[i] = TextOf(base) /\ onDisk = FileOf(base) /\ onDisk \in Seq(FileLine)
  BY <1>0 DEF AllIsRight, ObjectIsRight, ReloadTypeOK
<1>7. ASSUME NEW j \in Copies PROVE ObjectIsRight(j, base)' /\ SwapIsRight(j)'
  <2>1. SwapIsRight(j)' BY <1>0, <1>3, SwapStays DEF AllIsRight
  <2>2. CASE j # i /\ j \notin Serving
    <3>1. phase'[j] = phase[j] BY <1>0, <2>2
    <3> QED BY <1>0, <1>3, <2>1, <3>1, ObjectStays DEF AllIsRight
  <2>3. CASE j \in Serving
    <3>1. phase'[j] = "closing" /\ buffer[j] = <<>> /\ ops[j] = <<>>
      BY <1>0, <1>1, <1>2, <2>3 DEF AtRest
    <3>2. ObjectIsRight(j, base)' BY <1>3, <3>1 DEF ObjectIsRight
    <3> QED BY <2>1, <3>2
  <2>4. CASE j = i
    <3>1. phase'[i] = "live" BY <1>0
    <3>2. LeadsTo(onDisk, <<>>, onDisk) /\ onDisk \o <<>> = FileOf(base)
      BY <1>6, NothingQueued, ConcatEmptySeq
    <3>3. ObjectIsRight(i, base)' BY <1>0, <1>3, <1>4, <1>6, <3>1, <3>2 DEF ObjectIsRight
    <3> QED BY <2>1, <2>4, <3>3
  <2> QED BY <2>2, <2>3, <2>4
<1>8. FileIsRight(base)'
  <2>1. Serving' = {i}
    <3>1. \A j \in Copies : phase'[j] = "live" <=> j = i BY <1>0 DEF Serving
    <3> QED BY <3>1 DEF Serving
  <2>2. AtRest(i)' BY <1>0, <1>2, <1>3, <1>6 DEF AtRest
  <2> QED BY <1>0, <1>2, <1>4, <2>1, <2>2 DEF FileIsRight, AllIsRight
<1> QED BY <1>5, <1>7, <1>8 DEF AllIsRight

(* What is said while no session is loaded goes to the live object alone.  *)
LEMMA UttersRight ==
    ASSUME NEW base \in Bases, AllIsRight(base), NEW i \in Copies, Utters(i), BeingOpened = {},
           phase[i] = "live"
    PROVE  AllIsRight(base)'
<1> PICK text : text = TextOf(base) OBVIOUS
<1>0. ObjectIsRight(i, base) /\ held[i] = text /\ ReloadTypeOK BY DEF AllIsRight, ObjectIsRight
<1> PICK line : line = IF Dangling(held[i]) THEN Entry("result", Final(held[i])[2]) ELSE Entry("call", Len(uttered) + 1)
  OBVIOUS
<1>1. /\ held' = [held EXCEPT ![i] = Append(text, line)] /\ buffer' = [buffer EXCEPT ![i] = Append(buffer[i], line)]
      /\ uttered' = Append(uttered, line)
      /\ UNCHANGED <<onDisk, temp, phase, ops, swapping, broken, titles>>
  <2>1. held' = [held EXCEPT ![i] = Append(held[i], line)] BY <1>0 DEF Utters, ReloadTypeOK
  <2>2. buffer' = [buffer EXCEPT ![i] = Append(buffer[i], line)] BY <1>0 DEF Utters, ReloadTypeOK
  <2>3. uttered' = Append(uttered, line) /\ UNCHANGED <<onDisk, temp, phase, ops, swapping, broken, titles>>
    BY DEF Utters
  <2> QED BY <1>0, <2>1, <2>2, <2>3
<1>2. line \in FileLine
  <2>1. CASE Dangling(held[i])
    <3>1. held[i] # <<>> /\ held[i] \in Seq(FileLine) BY <1>0, <2>1 DEF Dangling, ReloadTypeOK
    <3>2. Len(held[i]) \in 1 .. Len(held[i]) BY <3>1, EmptySeq
    <3>3. Final(held[i]) \in FileLine BY <3>1, <3>2, ElementOfSeq DEF Final
    <3> QED BY <2>1, <3>3 DEF Entry, FileLine
  <2>2. CASE ~Dangling(held[i])
    <3>1. Len(uttered) + 1 \in Nat BY <1>0 DEF ReloadTypeOK
    <3> QED BY <2>2, <3>1 DEF Entry, FileLine
  <2> QED BY <2>1, <2>2
<1>3. text \in Seq(FileLine) /\ buffer[i] \in Seq(FileLine) /\ uttered \in Seq(FileLine) /\ base \in Seq(FileLine)
  BY <1>0, WholeText, BasesAreMended DEF ReloadTypeOK
<1>4. TextOf(base)' = Append(text, line)
  <2>1. base \o Append(uttered, line) = Append(base \o uttered, line) BY <1>2, <1>3, OneMoreLine
  <2> QED BY <1>1, <2>1 DEF TextOf
<1>5. FileOf(base)' = Append(FileOf(base), line)
  <2>1. <<Header>> \in Seq(FileLine) BY HeaderIsLine
  <2>2. <<Header>> \o Append(text, line) = Append(<<Header>> \o text, line)
    BY <1>2, <1>3, <2>1, OneMoreLine
  <2> QED BY <1>4, <2>2 DEF FileOf
<1>6. ReloadTypeOK'
  <2>1. /\ Append(text, line) \in Seq(FileLine) /\ Append(buffer[i], line) \in Seq(FileLine)
        /\ uttered' \in Seq(FileLine)
    BY <1>1, <1>2, <1>3, AppendProperties
  <2> QED BY <1>0, <1>1, <2>1 DEF ReloadTypeOK
<1>7. ASSUME NEW j \in Copies PROVE ObjectIsRight(j, base)' /\ SwapIsRight(j)'
  <2>1. SwapIsRight(j)' BY <1>1, SwapStays DEF AllIsRight
  <2>2. CASE j # i
    <3>1. phase[j] \in {"none", "closing", "closed"} BY <2>2, LiveAlone
    <3>2. phase'[j] = phase[j] /\ buffer'[j] = buffer[j] /\ ops'[j] = ops[j]
      BY <1>0, <1>1, <2>2 DEF ReloadTypeOK
    <3>3. ObjectIsRight(j, base) BY DEF AllIsRight
    <3> QED BY <2>1, <3>1, <3>2, <3>3 DEF ObjectIsRight
  <2>3. CASE j = i
    <3> PICK end \in Seq(FileLine) : LeadsTo(onDisk, ops[i], end) /\ end \o buffer[i] = FileOf(base)
      BY <1>0 DEF ObjectIsRight
    <3>1. end \o Append(buffer[i], line) = Append(end \o buffer[i], line)
      BY <1>2, <1>3, OneMoreLine
    <3>2. /\ phase'[i] = "live" /\ buffer'[i] = Append(buffer[i], line) /\ held'[i] = Append(text, line)
          /\ ops'[i] = ops[i]
      BY <1>0, <1>1 DEF ReloadTypeOK
    <3>3. end \o buffer'[i] = FileOf(base)' BY <1>5, <3>1, <3>2
    <3>4. ObjectIsRight(i, base)' BY <1>1, <1>4, <3>2, <3>3 DEF ObjectIsRight
    <3> QED BY <2>1, <2>3, <3>4
  <2> QED BY <2>2, <2>3
<1>8. FileIsRight(base)'
  <2>1. Serving' = Serving /\ BeingOpened' = {} /\ i \in Serving BY <1>1 DEF Serving, BeingOpened
  <2> QED BY <1>1, <2>1 DEF FileIsRight, AllIsRight
<1> QED BY <1>6, <1>7, <1>8 DEF AllIsRight

(* The live object's chain grows.                                          *)
LEMMA ChainGrows ==
    ASSUME NEW base \in Bases, AllIsRight(base), NEW i \in Copies, phase[i] = "live",
           BeingOpened = {},
           NEW op \in FileOp, ops' = [ops EXCEPT ![i] = Append(ops[i], op)], buffer' = [buffer EXCEPT ![i] = <<>>],
           \A end \in Seq(FileLine) : end \o buffer[i] = FileOf(base) => FileAfter(end, op) = FileOf(base),
           UNCHANGED <<onDisk, temp, phase, held, swapping, broken, uttered>>
    PROVE  AllIsRight(base)'
<1>0. ObjectIsRight(i, base) /\ ReloadTypeOK BY DEF AllIsRight
<1>1. TextOf(base)' = TextOf(base) /\ FileOf(base)' = FileOf(base) BY DEF TextOf, FileOf
<1> PICK longer : longer = Append(ops[i], op) OBVIOUS
<1>2. ops[i] \in Seq(FileOp) /\ longer \in Seq(FileOp) /\ (ops[i] # <<>> => longer # <<>> /\ Head(longer) = Head(ops[i]))
  <2>1. ops[i] \in Seq(FileOp) BY <1>0 DEF ReloadTypeOK
  <2>2. longer \in Seq(FileOp) /\ longer # <<>> BY <2>1, AppendProperties
  <2>3. ops[i] # <<>> => Head(longer) = Head(ops[i]) BY <2>1, HeadTailAppend
  <2> QED BY <2>1, <2>2, <2>3
<1>3. ReloadTypeOK'
  <2>1. <<>> \in Seq(FileLine) BY EmptySeq
  <2> QED BY <1>0, <1>2, <2>1 DEF ReloadTypeOK
<1>4. /\ ops'[i] = longer /\ buffer'[i] = <<>>
      /\ \A j \in Copies \ {i} : ops'[j] = ops[j] /\ buffer'[j] = buffer[j]
  BY <1>0 DEF ReloadTypeOK
<1>5. ASSUME NEW j \in Copies PROVE ObjectIsRight(j, base)' /\ SwapIsRight(j)'
  <2>1. CASE j # i BY <1>4, <2>1, ObjectStays, SwapStays DEF AllIsRight
  <2>2. CASE j = i
    <3>1. SwapIsRight(i)'
      <4>1. SwapIsRight(i) BY DEF AllIsRight
      <4> QED BY <1>2, <1>4, <4>1 DEF SwapIsRight, AtHead
    <3> PICK end \in Seq(FileLine) : LeadsTo(onDisk, ops[i], end) /\ end \o buffer[i] = FileOf(base)
      BY <1>0 DEF ObjectIsRight
    <3> PICK last : last = FileAfter(end, op) OBVIOUS
    <3>2. last = FileOf(base) /\ last \in Seq(FileLine) BY <1>0, OpsAreWhole
    <3>3. LeadsTo(onDisk, longer, last) BY <1>0, <1>2, OneQueued DEF ReloadTypeOK
    <3>4. last \o <<>> = FileOf(base) BY <3>2, ConcatEmptySeq
    <3>5. ObjectIsRight(i, base)' BY <1>0, <1>1, <1>4, <3>2, <3>3, <3>4 DEF ObjectIsRight
    <3> QED BY <2>2, <3>1, <3>5
  <2> QED BY <2>1, <2>2
<1>6. FileIsRight(base)'
  <2>1. Serving' = Serving /\ BeingOpened' = {} /\ i \in Serving BY DEF Serving, BeingOpened
  <2> QED BY <1>1, <2>1 DEF FileIsRight, AllIsRight
<1> QED BY <1>3, <1>5, <1>6 DEF AllIsRight

LEMMA RetitlesRight ==
    ASSUME NEW base \in Bases, AllIsRight(base), NEW i \in Copies, Retitles(i), BeingOpened = {}
    PROVE  AllIsRight(base)'
<1>1. phase[i] = "live" /\ held[i] = TextOf(base) BY DEF Retitles, AllIsRight, ObjectIsRight
<1> PICK op : op = Whole(i) OBVIOUS
<1>2. op = <<"rewrite", FileOf(base)>> BY <1>1 DEF Whole, FileOf
<1>3. op \in FileOp
  <2>1. FileOf(base) \in Seq(FileLine) BY WholeText DEF AllIsRight, ReloadTypeOK
  <2> QED BY <1>2, <2>1 DEF FileOp
<1>4. \A end \in Seq(FileLine) : FileAfter(end, op) = FileOf(base) BY <1>2 DEF FileAfter
<1>5. /\ ops' = [ops EXCEPT ![i] = Append(ops[i], op)] /\ buffer' = [buffer EXCEPT ![i] = <<>>]
      /\ UNCHANGED <<onDisk, temp, phase, held, swapping, broken, uttered>>
  BY DEF Retitles, Enqueue, AllIsRight, ReloadTypeOK
<1> QED BY <1>1, <1>3, <1>4, <1>5, ChainGrows

LEMMA FlushesBufferRight ==
    ASSUME NEW base \in Bases, AllIsRight(base), NEW i \in Copies, FlushesBuffer(i)
    PROVE  AllIsRight(base)'
<1>1. buffer[i] # <<>> BY DEF FlushesBuffer
<1>2. phase[i] = "live" /\ BeingOpened = {} BY <1>1, AtWork
<1> PICK op : op = <<"append", buffer[i]>> OBVIOUS
<1>3. op \in FileOp /\ op[1] = "append" /\ op[2] = buffer[i]
  BY DEF FileOp, AllIsRight, ReloadTypeOK
<1>4. \A end \in Seq(FileLine) : end \o buffer[i] = FileOf(base) => FileAfter(end, op) = FileOf(base)
  BY <1>3 DEF FileAfter
<1>5. /\ ops' = [ops EXCEPT ![i] = Append(ops[i], op)] /\ buffer' = [buffer EXCEPT ![i] = <<>>]
      /\ UNCHANGED <<onDisk, temp, phase, held, swapping, broken, uttered>>
  BY <1>1 DEF FlushesBuffer, BufferQueued
<1> QED BY <1>2, <1>3, <1>4, <1>5, ChainGrows

LEMMA StopsWritingRight ==
    ASSUME NEW base \in Bases, AllIsRight(base), NEW i \in Copies, StopsWriting(i)
    PROVE  AllIsRight(base)'
<1>0. phase[i] = "closing" /\ phase' = [phase EXCEPT ![i] = "closed"]
      /\ UNCHANGED <<onDisk, temp, held, buffer, ops, swapping, broken, uttered, titles, raced>>
  BY DEF StopsWriting
<1>1. TextOf(base)' = TextOf(base) /\ FileOf(base)' = FileOf(base) BY <1>0 DEF TextOf, FileOf
<1>2. ReloadTypeOK' BY <1>0 DEF AllIsRight, ReloadTypeOK, Phases
<1>3. phase'[i] = "closed" /\ \A j \in Copies \ {i} : phase'[j] = phase[j]
  BY <1>0 DEF AllIsRight, ReloadTypeOK
<1>4. ASSUME NEW j \in Copies PROVE ObjectIsRight(j, base)' /\ SwapIsRight(j)'
  <2>1. SwapIsRight(j)' BY <1>0, SwapStays DEF AllIsRight
  <2>2. CASE j # i BY <1>0, <1>3, <2>1, <2>2, ObjectStays DEF AllIsRight
  <2>3. CASE j = i
    <3>1. ObjectIsRight(i, base)' BY <1>0, <1>3 DEF ObjectIsRight, AllIsRight
    <3> QED BY <2>1, <2>3, <3>1
  <2> QED BY <2>2, <2>3
<1>5. FileIsRight(base)'
  <2>1. Serving' = Serving /\ BeingOpened' = BeingOpened BY <1>0, <1>3 DEF Serving, BeingOpened
  <2>2. \A j \in Serving : AtRest(j) <=> AtRest(j)' BY <1>0 DEF AtRest
  <2> QED BY <1>0, <1>1, <2>1, <2>2 DEF FileIsRight, AllIsRight
<1> QED BY <1>2, <1>4, <1>5 DEF AllIsRight

(* The operation at the head of a chain is done: the live object's, or the *)
(* rewrite of a repaired file.                                             *)
LEMMA ChainShrinks ==
    ASSUME NEW base \in Bases, AllIsRight(base), NEW i \in Copies, ops[i] # <<>>, Dequeue(i),
           onDisk' = FileAfter(onDisk, Head(ops[i])), swapping' = [swapping EXCEPT ![i] = "no"],
           \A j \in Copies \ {i} : swapping[j] = "no" \/ temp' = temp,
           UNCHANGED <<phase, held, buffer, broken, uttered>>
    PROVE  AllIsRight(base)'
<1>0. ReloadTypeOK /\ ObjectIsRight(i, base) BY DEF AllIsRight
<1>1. TextOf(base)' = TextOf(base) /\ FileOf(base)' = FileOf(base) /\ Rewriting(base)' = Rewriting(base)
  BY DEF TextOf, FileOf, Rewriting
<1> PICK op, rest : op = Head(ops[i]) /\ rest = Tail(ops[i]) OBVIOUS
<1>2. op \in FileOp /\ rest \in Seq(FileOp) BY <1>0, HeadTailProperties DEF ReloadTypeOK
<1>3. onDisk' \in Seq(FileLine) BY <1>0, <1>2, OpsAreWhole DEF ReloadTypeOK
<1>4. ReloadTypeOK' BY <1>0, <1>2, <1>3 DEF ReloadTypeOK, Dequeue
<1>5. ops'[i] = rest /\ swapping'[i] = "no" /\ \A j \in Copies \ {i} : ops'[j] = ops[j] /\ swapping'[j] = swapping[j]
  BY <1>0 DEF ReloadTypeOK, Dequeue
<1>6. \A j \in Copies : SwapIsRight(j)'
  <2>1. SwapIsRight(i)' BY <1>5 DEF SwapIsRight
  <2>2. ASSUME NEW j \in Copies \ {i} PROVE SwapIsRight(j)'
    <3>1. SwapIsRight(j) BY DEF AllIsRight
    <3>2. CASE swapping[j] = "no" BY <1>5, <3>2 DEF SwapIsRight
    <3>3. CASE temp' = temp BY <1>5, <3>1, <3>3, SwapStays
    <3> QED BY <3>2, <3>3
  <2> QED BY <2>1, <2>2
<1>7. Serving' = Serving /\ BeingOpened' = BeingOpened BY DEF Serving, BeingOpened
<1>8. CASE phase[i] = "live" /\ BeingOpened = {}
  <2>1. ASSUME NEW j \in Copies PROVE ObjectIsRight(j, base)'
    <3>1. CASE j # i
      <4>1. phase[j] \in {"none", "closing", "closed"} BY <1>8, <3>1, LiveAlone
      <4>2. ObjectIsRight(j, base) /\ ops'[j] = ops[j] BY <1>5, <3>1 DEF AllIsRight
      <4> QED BY <4>1, <4>2 DEF ObjectIsRight
    <3>2. CASE j = i
      <4> PICK end \in Seq(FileLine) : LeadsTo(onDisk, ops[i], end) /\ end \o buffer[i] = FileOf(base)
        BY <1>0, <1>8 DEF ObjectIsRight
      <4>1. LeadsTo(onDisk', rest, end) BY <1>0, OneDone DEF ReloadTypeOK
      <4>2. ObjectIsRight(i, base)' BY <1>0, <1>1, <1>5, <1>8, <4>1 DEF ObjectIsRight
      <4> QED BY <3>2, <4>2
    <3> QED BY <3>1, <3>2
  <2>2. i \in Serving BY <1>8 DEF Serving
  <2>3. FileIsRight(base)' BY <1>1, <1>5, <1>7, <1>8, <2>2 DEF FileIsRight, AllIsRight
  <2> QED BY <1>4, <1>6, <2>1, <2>3 DEF AllIsRight
<1>9. CASE phase[i] = "repairing" /\ ops[i] = Rewriting(base) /\ buffer[i] = <<>>
  <2>1. op = <<"rewrite", FileOf(base)>> /\ rest = <<>> BY <1>9 DEF Rewriting
  <2>2. onDisk' = FileOf(base) BY <2>1 DEF FileAfter
  <2>3. i \in BeingOpened /\ i \notin Serving BY <1>9 DEF BeingOpened, Serving
  <2>4. ASSUME NEW j \in Copies PROVE ObjectIsRight(j, base)'
    <3>1. CASE j = i
      <4>1. ObjectIsRight(i, base)' BY <1>0, <1>1, <1>5, <1>9, <2>1, <2>2 DEF ObjectIsRight
      <4> QED BY <3>1, <4>1
    <3>2. CASE j # i /\ j \notin Serving
      <4>1. phase[j] # "live" /\ ObjectIsRight(j, base) /\ ops'[j] = ops[j]
        BY <1>5, <3>2 DEF AllIsRight, Serving
      <4> QED BY <1>1, <2>2, <4>1 DEF ObjectIsRight
    <3>3. CASE j \in Serving
      <4>1. j # i /\ ObjectIsRight(j, base) /\ phase[j] = "live"
        BY <2>3, <3>3 DEF AllIsRight, Serving
      <4>2. ops[j] = <<>> /\ buffer[j] = <<>> BY <2>3, <3>3 DEF AllIsRight, FileIsRight, AtRest
      <4>3. LeadsTo(onDisk', <<>>, onDisk') BY <1>3, NothingQueued
      <4>4. onDisk' \o <<>> = FileOf(base) BY <1>3, <2>2, ConcatEmptySeq
      <4> QED BY <1>1, <1>3, <1>5, <4>1, <4>2, <4>3, <4>4 DEF ObjectIsRight
    <3> QED BY <3>1, <3>2, <3>3
  <2>5. FileIsRight(base)'
    <3>1. \A j \in Serving : AtRest(j)'
      <4>1. ASSUME NEW j \in Serving PROVE AtRest(j)'
        <5>1. j \in Copies \ {i} /\ AtRest(j) BY <2>3 DEF AllIsRight, FileIsRight, Serving
        <5> QED BY <1>5, <5>1 DEF AtRest
      <4> QED BY <4>1
    <3> QED BY <1>1, <1>5, <1>7, <2>2, <3>1 DEF FileIsRight, AllIsRight
  <2> QED BY <1>4, <1>6, <2>4, <2>5 DEF AllIsRight
<1> QED BY <1>8, <1>9, AtWork

LEMMA AppendsBatchRight ==
    ASSUME NEW base \in Bases, AllIsRight(base), NEW i \in Copies, AppendsBatch(i)
    PROVE  AllIsRight(base)'
<1> PICK op : op = Head(ops[i]) OBVIOUS
<1>1. /\ ops[i] # <<>> /\ op[1] = "append" /\ onDisk' = onDisk \o op[2] /\ Dequeue(i)
      /\ UNCHANGED <<temp, phase, held, buffer, swapping, broken, uttered, titles, raced>>
  BY DEF AppendsBatch, AtHead
<1>2. onDisk' = FileAfter(onDisk, op) BY <1>1 DEF FileAfter
<1>3. swapping[i] = "no"
  <2>1. "append" # "rewrite" OBVIOUS
  <2> QED BY <1>1, <2>1 DEF AllIsRight, SwapIsRight, AtHead
<1>4. swapping' = [swapping EXCEPT ![i] = "no"] BY <1>1, <1>3 DEF AllIsRight, ReloadTypeOK
<1> QED BY <1>1, <1>2, <1>4, ChainShrinks

LEMMA RenamesTempRight ==
    ASSUME NEW base \in Bases, AllIsRight(base), NEW i \in Copies, RenamesTemp(i)
    PROVE  AllIsRight(base)'
<1> PICK op : op = Head(ops[i]) OBVIOUS
<1>1. swapping[i] = "synced" /\ swapping' = [swapping EXCEPT ![i] = "no"] /\ Dequeue(i)
      /\ UNCHANGED <<phase, held, buffer, uttered, titles, raced>>
  BY DEF RenamesTemp
<1>2. ops[i] # <<>> /\ op[1] = "rewrite" /\ temp = <<op[2]>>
  BY <1>1 DEF AllIsRight, SwapIsRight, AtHead
<1>3. temp # <<>> /\ temp[1] = op[2] BY <1>2
<1>4. onDisk' = FileAfter(onDisk, op) /\ broken' = broken BY <1>2, <1>3 DEF RenamesTemp, FileAfter
<1>5. \A j \in Copies \ {i} : swapping[j] = "no" BY <1>1 DEF AllIsRight, FileIsRight
<1> QED BY <1>1, <1>2, <1>4, <1>5, ChainShrinks

(* One rewrite at a time goes through the temporary file.                  *)
LEMMA SwapGoesOn ==
    ASSUME NEW base \in Bases, AllIsRight(base), NEW i \in Copies,
           NEW how \in {"written", "synced"},
           swapping' = [swapping EXCEPT ![i] = how], AtHead(i, "rewrite"), temp' = <<Head(ops[i])[2]>>,
           \A j \in Copies \ {i} : swapping[j] = "no",
           UNCHANGED <<onDisk, phase, held, buffer, ops, broken, uttered>>
    PROVE  AllIsRight(base)'
<1>1. ReloadTypeOK' BY DEF AllIsRight, ReloadTypeOK
<1>2. swapping'[i] = how /\ \A j \in Copies \ {i} : swapping'[j] = "no"
  BY DEF AllIsRight, ReloadTypeOK
<1>3. ASSUME NEW j \in Copies PROVE ObjectIsRight(j, base)' /\ SwapIsRight(j)'
  <2>1. ObjectIsRight(j, base)' BY ObjectStays DEF AllIsRight
  <2>2. CASE j # i BY <1>2, <2>1, <2>2 DEF SwapIsRight
  <2>3. CASE j = i BY <1>2, <2>1, <2>3 DEF SwapIsRight, AtHead
  <2> QED BY <2>2, <2>3
<1>4. FileIsRight(base)'
  <2>1. TextOf(base)' = TextOf(base) /\ FileOf(base)' = FileOf(base) BY DEF TextOf, FileOf
  <2>2. Serving' = Serving /\ BeingOpened' = BeingOpened BY DEF Serving, BeingOpened
  <2>3. \A j \in Serving : AtRest(j) <=> AtRest(j)' BY DEF AtRest
  <2>4. \A j, k \in Copies : swapping'[j] # "no" /\ swapping'[k] # "no" => j = k BY <1>2
  <2> QED BY <2>1, <2>2, <2>3, <2>4 DEF FileIsRight, AllIsRight
<1> QED BY <1>1, <1>3, <1>4 DEF AllIsRight

LEMMA WritesTempRight ==
    ASSUME NEW base \in Bases, AllIsRight(base), NEW i \in Copies, WritesTemp(i),
           \A j \in Copies : swapping[j] = "no"
    PROVE  AllIsRight(base)'
BY SwapGoesOn DEF WritesTemp

LEMMA SyncsTempRight ==
    ASSUME NEW base \in Bases, AllIsRight(base), NEW i \in Copies, SyncsTemp(i)
    PROVE  AllIsRight(base)'
<1>1. swapping[i] = "written" /\ swapping' = [swapping EXCEPT ![i] = "synced"]
      /\ UNCHANGED <<onDisk, phase, held, buffer, ops, broken, uttered, titles, raced>>
  BY DEF SyncsTemp
<1>2. AtHead(i, "rewrite") /\ temp = <<Head(ops[i])[2]>> BY <1>1 DEF AllIsRight, SwapIsRight
<1>3. temp' = temp
  <2>1. temp # <<>> BY <1>2
  <2> QED BY <2>1 DEF SyncsTemp
<1>4. \A j \in Copies \ {i} : swapping[j] = "no" BY <1>1 DEF AllIsRight, FileIsRight
<1> QED BY <1>1, <1>2, <1>3, <1>4, SwapGoesOn

LEMMA ReloadRests ==
    ASSUME NEW base \in Bases, AllIsRight(base), UNCHANGED reloadVars
    PROVE  AllIsRight(base)'
<1> USE DEF reloadVars
<1>1. ReloadTypeOK' BY DEF AllIsRight, ReloadTypeOK
<1>2. TextOf(base)' = TextOf(base) /\ FileOf(base)' = FileOf(base) BY DEF TextOf, FileOf
<1>3. Serving' = Serving /\ BeingOpened' = BeingOpened BY DEF Serving, BeingOpened
<1>4. \A j \in Serving : AtRest(j) <=> AtRest(j)' BY DEF AtRest
<1>5. FileIsRight(base)' BY <1>2, <1>3, <1>4 DEF AllIsRight, FileIsRight
<1>6. \A j \in Copies : ObjectIsRight(j, base)' /\ SwapIsRight(j)'
  BY ObjectStays, SwapStays DEF AllIsRight
<1> QED BY <1>1, <1>5, <1>6 DEF AllIsRight

(* Whatever is modelled as a race, the invariant says nothing of.          *)
LEMMA ReloadSteps == ReloadInv /\ [ReloadNext]_reloadVars => ReloadInv'
<1> SUFFICES ASSUME ReloadInv, [ReloadNext]_reloadVars, ~raced' PROVE \E base \in Bases : AllIsRight(base)'
  BY DEF ReloadInv
<1>1. CASE UNCHANGED reloadVars
  <2>1. raced' = raced BY <1>1 DEF reloadVars
  <2> PICK base \in Bases : AllIsRight(base) BY <2>1 DEF ReloadInv
  <2> QED BY <1>1, ReloadRests
<1>2. ASSUME NEW i \in Copies,
             \/ ReadsFile(i) \/ GetsLease(i) \/ IsRepaired(i) \/ TakesOver(i)
             \/ Utters(i) \/ Retitles(i) \/ FlushesBuffer(i) \/ StopsWriting(i)
             \/ AppendsBatch(i) \/ WritesTemp(i) \/ SyncsTemp(i) \/ RenamesTemp(i)
      PROVE  \E base \in Bases : AllIsRight(base)'
  <2>1. ~raced
    BY <1>2, Zenon DEF ReadsFile, GetsLease, IsRepaired, TakesOver, Utters, Retitles,
       FlushesBuffer, StopsWriting,
                       AppendsBatch, WritesTemp, SyncsTemp, RenamesTemp
  <2> PICK base \in Bases : AllIsRight(base) BY <2>1 DEF ReloadInv
  <2>2. CASE ReadsFile(i)
    <3>1. \A j \in Serving : AtRest(j) BY <2>2, Zenon DEF ReadsFile
    <3> QED BY <2>2, <3>1, ReadsFileRight
  <2>3. CASE Utters(i)
    <3>1. BeingOpened = {} /\ phase[i] = "live" BY <2>3, Zenon DEF Utters
    <3> QED BY <2>3, <3>1, UttersRight
  <2>4. CASE Retitles(i)
    <3>1. BeingOpened = {} BY <2>4, Zenon DEF Retitles
    <3> QED BY <2>4, <3>1, RetitlesRight
  <2>5. CASE WritesTemp(i)
    <3>1. \A j \in Copies : swapping[j] = "no" BY <2>5, Zenon DEF WritesTemp
    <3> QED BY <2>5, <3>1, WritesTempRight
  <2>6. CASE GetsLease(i) \/ IsRepaired(i) \/ TakesOver(i)
    BY <2>6, GetsLeaseRight, IsRepairedRight, TakesOverRight
  <2>7. CASE FlushesBuffer(i) \/ StopsWriting(i) BY <2>7, FlushesBufferRight, StopsWritingRight
  <2>8. CASE AppendsBatch(i) \/ SyncsTemp(i) \/ RenamesTemp(i)
    BY <2>8, AppendsBatchRight, SyncsTempRight, RenamesTempRight
  <2> QED BY <1>2, <2>2, <2>3, <2>4, <2>5, <2>6, <2>7, <2>8
<1> QED BY <1>1, <1>2 DEF ReloadNext

LEMMA JoinedLines ==
    ASSUME NEW p \in Seq(FileLine), NEW q \in Seq(FileLine), NEW k, NEW n, k = Len(p), n = Len(q)
    PROVE  LET both == p \o q IN
           /\ both \in Seq(FileLine) /\ Len(both) = k + n
           /\ \A l \in 1 .. k + n : both[l] = IF l <= k THEN p[l] ELSE q[l - k]
BY ConcatProperties

(* What the invariant promises of the live object.                         *)
LEMMA ReloadIsWhole == ReloadInv => ReloadIsLossless
<1> SUFFICES ASSUME ReloadInv, ~raced, NEW i \in Serving
             PROVE  /\ KnowsAll(held[i])
                    /\ (\A j \in Copies : ops[j] = <<>> /\ buffer[j] = <<>>) => onDisk = <<Header>> \o held[i]
  BY DEF ReloadIsLossless
<1> PICK base \in Bases : AllIsRight(base) BY DEF ReloadInv
<1>1. i \in Copies /\ phase[i] = "live" /\ held[i] = TextOf(base) /\ uttered \in Seq(FileLine) /\ onDisk \in Seq(FileLine)
      /\ ObjectIsRight(i, base)
  BY DEF Serving, AllIsRight, ObjectIsRight, ReloadTypeOK
<1>2. KnowsAll(held[i])
  <2> PICK t, k, n : t = held[i] /\ k = Len(base) /\ n = Len(uttered) OBVIOUS
  <2>1. t = base \o uttered /\ base \in Seq(FileLine) /\ k \in Nat /\ n \in Nat
    BY <1>1, BasesAreMended DEF TextOf
  <2>2. /\ t \in Seq(FileLine) /\ Len(t) = k + n
        /\ \A l \in 1 .. k + n : t[l] = IF l <= k THEN base[l] ELSE uttered[l - k]
    <3>1. uttered \in Seq(FileLine) /\ base \o uttered = t BY <1>1, <2>1
    <3> QED BY <2>1, <3>1, JoinedLines
  <2> PICK m : m = k + n OBVIOUS
  <2>3. m \in Nat /\ k \in 0 .. m /\ Len(t) = m BY <2>1, <2>2
  <2>4. \A l \in 1 .. k : Recovered(t[l])
    <3> SUFFICES ASSUME NEW l \in 1 .. k PROVE Recovered(t[l]) OBVIOUS
    <3>1. t[l] = base[l] BY <2>1, <2>2
    <3> QED BY <3>1, BasesAreMended
  <2>5. SubSeq(t, k + 1, m) = uttered
    <3> PICK tail, from : from = k + 1 /\ tail = SubSeq(t, from, m) OBVIOUS
    <3>1. from \in Int /\ m \in Int /\ m - from + 1 = n /\ (IF from <= m THEN m - from + 1 ELSE 0) = n
      BY <2>1, <2>3
    <3>2. \A l \in from .. m : t[l] \in FileLine
      <4> SUFFICES ASSUME NEW l \in from .. m PROVE t[l] \in FileLine OBVIOUS
      <4>1. l \in 1 .. Len(t) BY <2>1, <2>3
      <4> QED BY <2>2, <4>1, ElementOfSeq
    <3>3. tail \in Seq(FileLine) /\ Len(tail) = n /\ \A l \in 1 .. n : tail[l] = t[from + l - 1]
      BY <3>1, <3>2, SubSeqProperties
    <3>4. ASSUME NEW l \in 1 .. n PROVE tail[l] = uttered[l]
      <4> PICK j : j = k + l OBVIOUS
      <4>1. j \in 1 .. k + n /\ ~(j <= k) /\ j - k = l /\ from + l - 1 = j BY <2>1
      <4> QED BY <2>2, <3>3, <4>1
    <3> QED BY <1>1, <3>3, <3>4, SeqEqual
  <2> QED BY <2>3, <2>4, <2>5 DEF KnowsAll
<1>3. ASSUME \A j \in Copies : ops[j] = <<>> /\ buffer[j] = <<>> PROVE onDisk = <<Header>> \o held[i]
  <2> PICK end \in Seq(FileLine) : LeadsTo(onDisk, ops[i], end) /\ end \o buffer[i] = FileOf(base)
    BY <1>1 DEF ObjectIsRight
  <2>1. ops[i] = <<>> /\ buffer[i] = <<>> BY <1>1, <1>3
  <2>2. end = onDisk BY <1>1, <2>1, NothingQueued
  <2>3. end = FileOf(base) BY <2>1, ConcatEmptySeq
  <2> QED BY <1>1, <2>2, <2>3 DEF FileOf
<1> QED BY <1>2, <1>3

=============================================================================
