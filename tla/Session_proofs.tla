---------------------------- MODULE Session_proofs ----------------------------
(***************************************************************************)
(* Rules that evolve, peers that come and go, what a human types, and the  *)
(* ids of calls on the wire: for every number of runs, peers, questions,   *)
(* announcements, lines and replies.  Last, the properties that join these *)
(* components, the writer of Storage_proofs, the parts of Transcript_proofs*)
(* and the queue of Hosts_proofs, as the run of MCSafety checks them.      *)
(***************************************************************************)
EXTENDS
  MCSafety, Storage_proofs, Transcript_proofs, Hosts_proofs, SequenceTheorems, TLAPS

-----------------------------------------------------------------------------
(* Self-evolution *)
(* An entry of the scoreboard; the steps of a run; a run under way.        *)
BoardEntry == [version : Int, by : Evolver, kept : BOOLEAN]
At == {"new", "idle", "proposing", "evaluating", "writing", "reading", "appending", "renaming", "ended"}
Under(e) == at[e] \notin {"new", "ended"}

EvolveTypeOK ==
    /\ live \in Ruleset \cup {Missing, TornFile} /\ best \in Ruleset /\ torn \in BOOLEAN
    /\ scoreboard \in Seq(BoardEntry) /\ tmp \in Seq(BoardEntry)
    /\ at \in [Evolver -> At] /\ rules \in [Evolver -> Ruleset] /\ trial \in [Evolver -> Ruleset]
    /\ version \in [Evolver -> Int] /\ commits \in [Evolver -> BOOLEAN]
    /\ copy \in [Evolver -> Seq(BoardEntry)] /\ cycles \in [Evolver -> 0 .. 1]

Climbs == \A i, j \in 1 .. Len(scoreboard) : i < j => scoreboard[i].version < scoreboard[j].version

(* a run under way is alone, knows the best rules, and holds a version that is new *)
OneRuns == \A e, f \in Evolver : Under(e) /\ Under(f) => e = f
InForce ==
    ~torn => \/ live = Missing /\ best = Default
             \/ live = best
             \/ live = TornFile /\ \E e \in Evolver : at[e] = "writing"
KnowsBest ==
    \A e \in Evolver :
        /\ at[e] \in {"proposing", "evaluating", "writing"} \/ (at[e] = "idle" /\ cycles[e] = 0) =>
              torn \/ rules[e] = best
        /\ at[e] = "writing" => trial[e] > rules[e]
        /\ Under(e) /\ at[e] # "idle" => cycles[e] = 1
NewVersion ==
    \A e \in Evolver :
        /\ Under(e) /\ at[e] # "idle" => \A i \in 1 .. Len(scoreboard) : scoreboard[i].version < version[e]
        /\ at[e] \in {"appending", "renaming"} => copy[e] = scoreboard
        /\ at[e] = "renaming" => tmp = Append(scoreboard, [version |-> version[e], by |-> e, kept |-> Kept(e)])

(* The invariant.  That the file is never worse is kept by a commit because*)
(* the run, alone since it loaded the rules, still measures against best.  *)
EvolveInv == EvolveTypeOK /\ Climbs /\ OneRuns /\ InForce /\ KnowsBest /\ NewVersion

(* The actions, one by one.                                                *)
LEMMA LoadsKeeps ==
  ASSUME EvolveInv, Solo, MaxCycles = 1, NEW e \in Evolver, Loads(e)
  PROVE  EvolveInv'
<1> USE EvolveAssumption DEF EvolveInv, Loads, Goes, Under, At, BoardEntry, runVars, Kept
<1>1. EvolveTypeOK' BY DEF EvolveTypeOK
<1>2. Climbs' BY DEF Climbs, EvolveTypeOK, NewVersion
<1>3. OneRuns' BY DEF OneRuns, EvolveTypeOK
<1>4. InForce' BY DEF InForce, EvolveTypeOK, OneRuns, KnowsBest
<1>5. KnowsBest' BY DEF KnowsBest, InForce, EvolveTypeOK, OneRuns
<1>6. NewVersion' BY DEF NewVersion, EvolveTypeOK, OneRuns
<1> QED BY <1>1, <1>2, <1>3, <1>4, <1>5, <1>6

LEMMA VersionsAreNumbers ==
    ASSUME EvolveTypeOK, NEW i \in 1 .. Len(scoreboard) PROVE scoreboard[i].version \in Int
<1>1. scoreboard[i] \in BoardEntry BY DEF EvolveTypeOK
<1> QED BY <1>1 DEF BoardEntry

LEMMA LastIsNewest ==
    ASSUME EvolveTypeOK, Climbs, scoreboard # <<>>
    PROVE  LET newest == CHOOSE v \in {scoreboard[i].version : i \in DOMAIN scoreboard} :
                            \A i \in DOMAIN scoreboard : scoreboard[i].version <= v
           IN  newest \in Int /\ \A i \in 1 .. Len(scoreboard) : scoreboard[i].version <= newest
<1> PICK newest : newest = (CHOOSE v \in {scoreboard[i].version : i \in DOMAIN scoreboard} :
                               \A i \in DOMAIN scoreboard : scoreboard[i].version <= v) OBVIOUS
<1> PICK last : last = Len(scoreboard) OBVIOUS
<1>1. last \in Nat /\ DOMAIN scoreboard = 1 .. last /\ last \in 1 .. last
  BY EmptySeq DEF EvolveTypeOK
<1>2. \A i \in 1 .. last : scoreboard[i].version \in Int BY VersionsAreNumbers
<1>3. \A i \in 1 .. last : scoreboard[i].version <= scoreboard[last].version
  BY <1>1, <1>2 DEF Climbs
<1>4. newest \in {scoreboard[i].version : i \in DOMAIN scoreboard}
        /\ \A i \in DOMAIN scoreboard : scoreboard[i].version <= newest
  BY <1>1, <1>3
<1> QED BY <1>1, <1>2, <1>4

LEMMA NextIsAbove ==
    ASSUME EvolveTypeOK, NEW newest \in Int,
           \A i \in 1 .. Len(scoreboard) : scoreboard[i].version <= newest,
           NEW next, next = 1 + newest
    PROVE  next \in Int /\ \A i \in 1 .. Len(scoreboard) : scoreboard[i].version < next
<1>1. \A i \in 1 .. Len(scoreboard) : scoreboard[i].version \in Int BY VersionsAreNumbers
<1> QED BY <1>1

LEMMA VersionIsNew ==
    ASSUME EvolveTypeOK, Climbs, NEW e \in Evolver, TakesVersion(e)
    PROVE  \E taken \in Int : /\ version' = [version EXCEPT ![e] = taken]
                              /\ \A i \in 1 .. Len(scoreboard) : scoreboard[i].version < taken
<1>1. CASE scoreboard = <<>>
  <2>1. version' = [version EXCEPT ![e] = 1] /\ Len(scoreboard) = 0
    BY <1>1, EmptySeq DEF TakesVersion
  <2>2. 1 \in Int /\ \A i \in 1 .. Len(scoreboard) : scoreboard[i].version < 1 BY <2>1
  <2> QED BY <2>1, <2>2
<1>2. CASE scoreboard # <<>>
  <2> PICK newest : newest = (CHOOSE v \in {scoreboard[i].version : i \in DOMAIN scoreboard} :
                                 \A i \in DOMAIN scoreboard : scoreboard[i].version <= v) OBVIOUS
  <2> PICK next : next = 1 + newest OBVIOUS
  <2>1. newest \in Int /\ \A i \in 1 .. Len(scoreboard) : scoreboard[i].version <= newest
    BY <1>2, LastIsNewest
  <2>2. next \in Int /\ \A i \in 1 .. Len(scoreboard) : scoreboard[i].version < next
    BY <2>1, NextIsAbove
  <2>3. version' = [version EXCEPT ![e] = next] BY <1>2 DEF TakesVersion
  <2> QED BY <2>2, <2>3
<1> QED BY <1>1, <1>2

LEMMA TakesVersionKeeps ==
  ASSUME EvolveInv, Solo, MaxCycles = 1, NEW e \in Evolver, TakesVersion(e)
  PROVE  EvolveInv'
<1> PICK taken \in Int : /\ version' = [version EXCEPT ![e] = taken]
                         /\ \A i \in 1 .. Len(scoreboard) : scoreboard[i].version < taken
  BY VersionIsNew DEF EvolveInv
<1>a. /\ at[e] = "idle" /\ at' = [at EXCEPT ![e] = "proposing"] /\ cycles[e] < 1
      /\ cycles' = [cycles EXCEPT ![e] = @ + 1]
      /\ UNCHANGED <<live, scoreboard, tmp, rules, trial, commits, copy, best, torn>>
  BY DEF TakesVersion, Goes
<1> USE <1>a DEF EvolveInv, Under, Kept
<1>1. EvolveTypeOK'
  <2>1. cycles' = [cycles EXCEPT ![e] = 1]
    <3>1. cycles[e] = 0 /\ cycles[e] + 1 = 1 BY DEF EvolveTypeOK
    <3>2. cycles' = [cycles EXCEPT ![e] = cycles[e] + 1] OBVIOUS
    <3> QED BY <3>1, <3>2
  <2>2. cycles' \in [Evolver -> 0 .. 1] BY <2>1 DEF EvolveTypeOK
  <2>3. version' \in [Evolver -> Int] BY DEF EvolveTypeOK
  <2>4. at' \in [Evolver -> At] BY DEF EvolveTypeOK, At
  <2> QED BY <2>2, <2>3, <2>4 DEF EvolveTypeOK
<1>2. Climbs' BY DEF Climbs, EvolveTypeOK, NewVersion
<1>3. OneRuns' BY DEF OneRuns, EvolveTypeOK
<1>4. InForce' BY DEF InForce, EvolveTypeOK, OneRuns, KnowsBest
<1>5. KnowsBest' BY DEF KnowsBest, InForce, EvolveTypeOK, OneRuns
<1>6. NewVersion' BY DEF NewVersion, EvolveTypeOK, OneRuns
<1> QED BY <1>1, <1>2, <1>3, <1>4, <1>5, <1>6

LEMMA ProposesKeeps ==
  ASSUME EvolveInv, Solo, MaxCycles = 1, NEW e \in Evolver, Proposes(e)
  PROVE  EvolveInv'
<1> USE EvolveAssumption DEF EvolveInv, Proposes, Goes, Under, At, BoardEntry, runVars, Kept
<1>1. EvolveTypeOK' BY DEF EvolveTypeOK
<1>2. Climbs' BY DEF Climbs, EvolveTypeOK, NewVersion
<1>3. OneRuns' BY DEF OneRuns, EvolveTypeOK
<1>4. InForce' BY DEF InForce, EvolveTypeOK, OneRuns, KnowsBest
<1>5. KnowsBest' BY DEF KnowsBest, InForce, EvolveTypeOK, OneRuns
<1>6. NewVersion' BY DEF NewVersion, EvolveTypeOK, OneRuns
<1> QED BY <1>1, <1>2, <1>3, <1>4, <1>5, <1>6

LEMMA CycleThrowsKeeps ==
  ASSUME EvolveInv, Solo, MaxCycles = 1, NEW e \in Evolver, CycleThrows(e)
  PROVE  EvolveInv'
<1> USE EvolveAssumption DEF EvolveInv, CycleThrows, Goes, Under, At, BoardEntry, runVars, Kept
<1>1. EvolveTypeOK' BY DEF EvolveTypeOK
<1>2. Climbs' BY DEF Climbs, EvolveTypeOK, NewVersion
<1>3. OneRuns' BY DEF OneRuns, EvolveTypeOK
<1>4. InForce' BY DEF InForce, EvolveTypeOK, OneRuns, KnowsBest
<1>5. KnowsBest' BY DEF KnowsBest, InForce, EvolveTypeOK, OneRuns
<1>6. NewVersion' BY DEF NewVersion, EvolveTypeOK, OneRuns
<1> QED BY <1>1, <1>2, <1>3, <1>4, <1>5, <1>6

LEMMA EvaluatesKeeps ==
  ASSUME EvolveInv, Solo, MaxCycles = 1, NEW e \in Evolver, Evaluates(e)
  PROVE  EvolveInv'
<1> USE EvolveAssumption DEF EvolveInv, Evaluates, Goes, Under, At, BoardEntry, runVars, Kept
<1>1. EvolveTypeOK' BY DEF EvolveTypeOK
<1>2. Climbs' BY DEF Climbs, EvolveTypeOK, NewVersion
<1>3. OneRuns' BY DEF OneRuns, EvolveTypeOK
<1>4. InForce' BY DEF InForce, EvolveTypeOK, OneRuns, KnowsBest
<1>5. KnowsBest' BY DEF KnowsBest, InForce, EvolveTypeOK, OneRuns
<1>6. NewVersion' BY DEF NewVersion, EvolveTypeOK, OneRuns
<1> QED BY <1>1, <1>2, <1>3, <1>4, <1>5, <1>6

LEMMA CommittedKeeps ==
  ASSUME EvolveInv, Solo, MaxCycles = 1, NEW e \in Evolver, Committed(e)
  PROVE  EvolveInv'
<1> USE EvolveAssumption DEF EvolveInv, Committed, Goes, Under, At, BoardEntry, runVars, Kept
<1>1. EvolveTypeOK' BY DEF EvolveTypeOK
<1>2. Climbs' BY DEF Climbs, EvolveTypeOK, NewVersion
<1>3. OneRuns' BY DEF OneRuns, EvolveTypeOK
<1>4. InForce' BY DEF InForce, EvolveTypeOK, OneRuns, KnowsBest
<1>5. KnowsBest' BY DEF KnowsBest, InForce, EvolveTypeOK, OneRuns
<1>6. NewVersion' BY DEF NewVersion, EvolveTypeOK, OneRuns
<1> QED BY <1>1, <1>2, <1>3, <1>4, <1>5, <1>6

LEMMA ReadsBoardKeeps ==
  ASSUME EvolveInv, Solo, MaxCycles = 1, NEW e \in Evolver, ReadsBoard(e)
  PROVE  EvolveInv'
<1> USE EvolveAssumption DEF EvolveInv, ReadsBoard, Goes, Under, At, BoardEntry, runVars, Kept
<1>1. EvolveTypeOK' BY DEF EvolveTypeOK
<1>2. Climbs' BY DEF Climbs, EvolveTypeOK, NewVersion
<1>3. OneRuns' BY DEF OneRuns, EvolveTypeOK
<1>4. InForce' BY DEF InForce, EvolveTypeOK, OneRuns, KnowsBest
<1>5. KnowsBest' BY DEF KnowsBest, InForce, EvolveTypeOK, OneRuns
<1>6. NewVersion' BY DEF NewVersion, EvolveTypeOK, OneRuns
<1> QED BY <1>1, <1>2, <1>3, <1>4, <1>5, <1>6

LEMMA WritesTmpKeeps ==
  ASSUME EvolveInv, Solo, MaxCycles = 1, NEW e \in Evolver, WritesTmp(e)
  PROVE  EvolveInv'
<1> USE EvolveAssumption DEF EvolveInv, WritesTmp, Goes, Under, At, BoardEntry, runVars, Kept
<1>1. EvolveTypeOK'
  <2> PICK row : row = [version |-> version[e], by |-> e, kept |-> Kept(e)] OBVIOUS
  <2>1. row \in BoardEntry BY DEF EvolveTypeOK
  <2>2. copy[e] \in Seq(BoardEntry) /\ tmp' = Append(copy[e], row) BY DEF EvolveTypeOK
  <2> HIDE DEF BoardEntry
  <2>3. tmp' \in Seq(BoardEntry) BY <2>1, <2>2
  <2>4. at' \in [Evolver -> At] BY DEF EvolveTypeOK
  <2> QED BY <2>3, <2>4 DEF EvolveTypeOK
<1>2. Climbs' BY DEF Climbs, EvolveTypeOK, NewVersion
<1>3. OneRuns' BY DEF OneRuns, EvolveTypeOK
<1>4. InForce' BY DEF InForce, EvolveTypeOK, OneRuns, KnowsBest
<1>5. KnowsBest' BY DEF KnowsBest, InForce, EvolveTypeOK, OneRuns
<1>6. NewVersion' BY DEF NewVersion, EvolveTypeOK, OneRuns
<1> QED BY <1>1, <1>2, <1>3, <1>4, <1>5, <1>6

LEMMA RenamesKeeps ==
  ASSUME EvolveInv, Solo, MaxCycles = 1, NEW e \in Evolver, Renames(e)
  PROVE  EvolveInv'
<1> USE EvolveAssumption DEF EvolveInv, Renames, Goes, Under, At, BoardEntry, runVars, Kept
<1>1. EvolveTypeOK'
  <2>1. scoreboard' \in Seq(BoardEntry) /\ tmp' \in Seq(BoardEntry) BY EmptySeq DEF EvolveTypeOK
  <2>2. at' \in [Evolver -> At]
    <3> PICK to : to = IF tmp = <<>> THEN "ended" ELSE "idle" OBVIOUS
    <3>1. to \in At /\ at' = [at EXCEPT ![e] = to] OBVIOUS
    <3> QED BY <3>1 DEF EvolveTypeOK
  <2> QED BY <2>1, <2>2 DEF EvolveTypeOK
<1>2. Climbs'
  <2> PICK row : row = [version |-> version[e], by |-> e, kept |-> Kept(e)] OBVIOUS
  <2>1. scoreboard' = tmp /\ tmp = Append(scoreboard, row) BY DEF NewVersion, EvolveTypeOK
  <2>2. scoreboard \in Seq(BoardEntry) /\ Len(scoreboard) \in Nat BY DEF EvolveTypeOK
  <2>3. \A i \in 1 .. Len(scoreboard) : scoreboard[i].version < version[e] BY DEF NewVersion
  <2> QED BY <2>1, <2>2, <2>3, AppendProperties DEF Climbs
<1>3. OneRuns' BY DEF OneRuns, EvolveTypeOK
<1>4. InForce' BY DEF InForce, EvolveTypeOK, OneRuns, KnowsBest
<1>5. KnowsBest' BY DEF KnowsBest, InForce, EvolveTypeOK, OneRuns
<1>6. NewVersion' BY DEF NewVersion, EvolveTypeOK, OneRuns
<1> QED BY <1>1, <1>2, <1>3, <1>4, <1>5, <1>6

LEMMA EndsRunKeeps ==
  ASSUME EvolveInv, Solo, MaxCycles = 1, NEW e \in Evolver, EndsRun(e)
  PROVE  EvolveInv'
<1> USE EvolveAssumption DEF EvolveInv, EndsRun, Goes, Under, At, BoardEntry, runVars, Kept
<1>1. EvolveTypeOK' BY DEF EvolveTypeOK
<1>2. Climbs' BY DEF Climbs, EvolveTypeOK, NewVersion
<1>3. OneRuns' BY DEF OneRuns, EvolveTypeOK
<1>4. InForce' BY DEF InForce, EvolveTypeOK, OneRuns, KnowsBest
<1>5. KnowsBest' BY DEF KnowsBest, InForce, EvolveTypeOK, OneRuns
<1>6. NewVersion' BY DEF NewVersion, EvolveTypeOK, OneRuns
<1> QED BY <1>1, <1>2, <1>3, <1>4, <1>5, <1>6

LEMMA EvolverCrashesKeeps ==
  ASSUME EvolveInv, Solo, MaxCycles = 1, NEW e \in Evolver, EvolverCrashes(e)
  PROVE  EvolveInv'
<1> USE EvolveAssumption DEF EvolveInv, EvolverCrashes, Goes, Under, At, BoardEntry, runVars, Kept
<1>1. EvolveTypeOK' BY DEF EvolveTypeOK
<1>2. Climbs' BY DEF Climbs, EvolveTypeOK, NewVersion
<1>3. OneRuns' BY DEF OneRuns, EvolveTypeOK
<1>4. InForce' BY DEF InForce, EvolveTypeOK, OneRuns, KnowsBest
<1>5. KnowsBest' BY DEF KnowsBest, InForce, EvolveTypeOK, OneRuns
<1>6. NewVersion' BY DEF NewVersion, EvolveTypeOK, OneRuns
<1> QED BY <1>1, <1>2, <1>3, <1>4, <1>5, <1>6

LEMMA EvolutionStarts == ASSUME MaxCycles = 1, EvolveInit PROVE EvolveInv
<1> USE EvolveAssumption DEF EvolveInit, EvolveInv
<1>1. EvolveTypeOK
  <2>1. scoreboard \in Seq(BoardEntry) /\ tmp \in Seq(BoardEntry) BY EmptySeq
  <2>2. copy \in [Evolver -> Seq(BoardEntry)] /\ cycles \in [Evolver -> 0 .. 1]
    <3>1. <<>> \in Seq(BoardEntry) BY EmptySeq
    <3> QED BY <3>1
  <2>3. /\ at \in [Evolver -> At] /\ rules \in [Evolver -> Ruleset] /\ trial \in [Evolver -> Ruleset]
        /\ version \in [Evolver -> Int] /\ commits \in [Evolver -> BOOLEAN]
    BY DEF At
  <2> QED BY <2>1, <2>2, <2>3 DEF EvolveTypeOK
<1>2. Climbs BY EmptySeq DEF Climbs
<1>3. OneRuns /\ InForce BY DEF OneRuns, InForce, Under
<1>4. KnowsBest BY DEF KnowsBest, Under
<1>5. NewVersion BY DEF NewVersion, Under
<1> QED BY <1>1, <1>2, <1>3, <1>4, <1>5

LEMMA EvolutionSteps ==
  ASSUME Solo, MaxCycles = 1, EvolveInv, [EvolveNext]_evolveVars
  PROVE  EvolveInv'
<1>1. CASE UNCHANGED evolveVars
  BY <1>1 DEF evolveVars, runVars, EvolveInv, EvolveTypeOK, Climbs, OneRuns, Under, InForce,
     KnowsBest, NewVersion, Kept
<1>2. CASE EvolveNext
  BY <1>2, LoadsKeeps, TakesVersionKeeps, ProposesKeeps, CycleThrowsKeeps, EvaluatesKeeps,
     CommittedKeeps, ReadsBoardKeeps, WritesTmpKeeps, RenamesKeeps, EndsRunKeeps,
     EvolverCrashesKeeps DEF EvolveNext
<1> QED BY <1>1, <1>2

LEMMA EvolutionImproves == ASSUME EvolveInv PROVE NeverWorse
<1>1. live \in Ruleset /\ ~torn => live = best BY EvolveAssumption DEF EvolveInv, InForce
<1>2. DOMAIN scoreboard = 1 .. Len(scoreboard) BY DEF EvolveInv, EvolveTypeOK
<1> QED BY <1>1, <1>2 DEF EvolveInv, Climbs, NeverWorse

(* The ruleset in force is always the best that ever was, unless a crash   *)
(* tore its file, and versions rise along the scoreboard, for any rulesets,*)
(* any number of runs and a crash between any two steps: as the command    *)
(* runs it, one process at a time and one cycle each (cli/run/self-        *)
(* evolve.ts).  Two processes at once, or a second cycle behind a commit,   *)
(* would measure a trial against rules that are no longer in force.        *)
THEOREM EvolutionNeverWorsens == ASSUME Solo, MaxCycles = 1 PROVE EvolveSpec => []NeverWorse
<1>1. EvolveInit => EvolveInv BY EvolutionStarts
<1>2. EvolveInv /\ [EvolveNext]_evolveVars => EvolveInv' BY EvolutionSteps
<1>3. EvolveInv => NeverWorse BY EvolutionImproves
<1> QED BY <1>1, <1>2, <1>3, PTL DEF EvolveSpec

-----------------------------------------------------------------------------
(* The peers on the network, and the pool *)
(* What the rail is told is what the browser knows *)
Packet == [peer : LanPeer, version : Int, bye : BOOLEAN]
ToldInv ==
    /\ known \in [LanPeer -> [version : Int, left : Int]]
    /\ advertised \in [LanPeer -> Int] /\ believed \in [LanPeer -> Int]
    /\ starts \in [LanPeer -> Int]
    /\ net \subseteq Packet
    /\ RailIsToldAll

LEMMA LanStarts == MdnsInit => ToldInv
BY DEF MdnsInit, ToldInv, RailIsToldAll, Nobody

LEMMA ArrivalIsTold == ASSUME ToldInv, NEW d \in net, Arrives(d) PROVE ToldInv'
<1> PICK p \in LanPeer, v \in Int : d.peer = p /\ d.version = v BY DEF ToldInv, Packet
<1>1. net' \subseteq Packet /\ starts' \in [LanPeer -> Int] BY DEF ToldInv, Arrives
<1>2. CASE d.bye
  <2>1. known' = [known EXCEPT ![p] = Nobody] /\ TellsLost({p} \ {q \in LanPeer : known[q] = Nobody})
    BY <1>2 DEF Arrives, Ingest
  <2>2. known[p] = Nobody => known[p].version = 0 BY DEF Nobody
  <2> QED BY <1>1, <2>1, <2>2 DEF ToldInv, RailIsToldAll, TellsLost, Nobody
<1>3. CASE ~d.bye
  <2>1. known' = [known EXCEPT ![p] = [version |-> v, left |-> Ttl]] /\ TellsFound(p, v)
    BY <1>3 DEF Arrives, Ingest
  <2> QED BY <1>1, <2>1, LanAssumption DEF ToldInv, RailIsToldAll, TellsFound
<1> QED BY <1>2, <1>3

LEMMA LanSteps == ToldInv /\ [MdnsNext]_mdnsVars => ToldInv'
<1> SUFFICES ASSUME ToldInv, [MdnsNext]_mdnsVars PROVE ToldInv' OBVIOUS
<1> USE DEF ToldInv
<1>0. ASSUME NEW p \in LanPeer, NEW v \in Int, NEW goodbye \in BOOLEAN PROVE Datagram(p, v, goodbye) \in Packet
  BY DEF Datagram, Packet
<1>1. CASE UNCHANGED mdnsVars BY <1>1 DEF mdnsVars, RailIsToldAll
<1>2. CASE Ticks BY <1>2 DEF Ticks, RailIsToldAll
<1>3. CASE Sweeps BY <1>3 DEF Sweeps, TellsLost, RailIsToldAll, Nobody
<1>4. CASE BrowserFails BY <1>4 DEF BrowserFails, RailIsToldAll
<1>5. CASE BrowserStops BY <1>5 DEF BrowserStops, RailIsToldAll, Nobody
<1>6. ASSUME NEW p \in LanPeer, AdvertStarts(p) PROVE ToldInv'
  <2>1. starts' \in [LanPeer -> Int] BY <1>6 DEF AdvertStarts
  <2>2. net' \subseteq Packet BY <1>0, <1>6, <2>1 DEF AdvertStarts
  <2> QED BY <1>6, <2>1, <2>2 DEF AdvertStarts, RailIsToldAll
<1>7. ASSUME NEW p \in LanPeer, AnnouncesAgain(p) PROVE ToldInv'
  BY <1>0, <1>7 DEF AnnouncesAgain, Current, RailIsToldAll
<1>8. ASSUME NEW p \in LanPeer, AdvertStops(p) PROVE ToldInv'
  BY <1>0, <1>8 DEF AdvertStops, RailIsToldAll
<1>9. ASSUME NEW p \in LanPeer, AdvertDies(p) PROVE ToldInv' BY <1>9 DEF AdvertDies, RailIsToldAll
<1>10. ASSUME NEW heard \in SUBSET LanPeer, Queries(heard) PROVE ToldInv'
  <2>1. {Current(p) : p \in heard} \subseteq Packet BY <1>0 DEF Current
  <2> QED BY <1>10, <2>1 DEF Queries, RailIsToldAll
<1>11. ASSUME NEW d \in net, Arrives(d) PROVE ToldInv' BY <1>11, ArrivalIsTold
<1>12. ASSUME NEW d \in net, IsLost(d) PROVE ToldInv' BY <1>12 DEF IsLost, RailIsToldAll
<1> QED BY <1>1, <1>2, <1>3, <1>4, <1>5, <1>6, <1>7, <1>8, <1>9, <1>10, <1>11, <1>12 DEF MdnsNext

Event == {"found", "lost"} \X Peer
PoolTypeOK ==
    /\ rail \in {"off", "starting", "on", "stopped"}
    /\ advertisers \in [Peer -> SUBSET (Browser \cup {"static"})] /\ events \in Seq(Event)
    /\ dialled \in [{"rail", "user"} -> SUBSET Peer]
    /\ pool \subseteq Peer /\ failedPeers \subseteq Peer /\ ownerless \subseteq Peer /\ byUser \subseteq Peer

(* nothing happens to the pool before start() *)
NotStarted ==
    rail = "off" => /\ advertisers = [p \in Peer |-> {}] /\ events = <<>>
                    /\ pool = {} /\ dialled["rail"] = {} /\ dialled["user"] = {}

(* the last event about a peer that is still to be handled says what its sources say *)
LastSays ==
    rail \in {"starting", "on"} =>
        \A i \in 1 .. Len(events) :
            (\A j \in i + 1 .. Len(events) : events[j][2] # events[i][2]) =>
                (events[i][1] = "found" <=> advertisers[events[i][2]] # {})

(* of a peer that no event is about, the pool is what its sources say *)
Handled ==
    rail \in {"starting", "on"} =>
        \A p \in Peer \ byUser :
            (\A i \in 1 .. Len(events) : events[i][2] # p) =>
                /\ advertisers[p] # {} => p \in pool \cup failedPeers \cup dialled["rail"]
                /\ advertisers[p] = {} => p \notin pool \cup dialled["rail"]

(* a peer that the user leaves to the rail is dialled once at a time *)
DialledOnce ==
    /\ \A p \in Peer \ byUser :
          /\ p \notin dialled["user"]
          /\ p \in dialled["rail"] => p \notin pool \cup failedPeers
    /\ ownerless \cup (pool \cap failedPeers) \subseteq byUser

(* The invariant.  RailConverges is Handled once the rail is up and no     *)
(* event is left; LastSays is what a handled event leaves behind.          *)
PoolInv == PoolTypeOK /\ NotStarted /\ LastSays /\ Handled /\ DialledOnce

LEMMA PoolStarts == PoolInit => PoolInv
<1> SUFFICES ASSUME PoolInit PROVE PoolInv OBVIOUS
<1>1. Len(events) = 0 /\ events \in Seq(Event) BY EmptySeq DEF PoolInit
<1> QED BY <1>1 DEF PoolInit, PoolInv, PoolTypeOK, NotStarted, LastSays, Handled, DialledOnce

LEMMA StartsKeeps == ASSUME PoolInv, Starts PROVE PoolInv'
<1> USE PoolAssumption DEF PoolInv, Starts
<1>1. events' \in Seq(Event) /\ Len(events') = Len(Listed) /\ \A i \in 1 .. Len(Listed) : events'[i] = <<"found", Listed[i]>>
  <2>1. Len(Listed) \in Nat /\ DOMAIN Listed = 1 .. Len(Listed) /\ \A i \in 1 .. Len(Listed) : Listed[i] \in Peer
    BY LenProperties, ElementOfSeq
  <2>2. events' \in [1 .. Len(Listed) -> Event] BY <2>1 DEF Event
  <2>3. events' \in Seq(Event) BY <2>1, <2>2, SeqDef
  <2> QED BY <2>1, <2>2, <2>3
<1>2. PoolTypeOK' BY <1>1 DEF PoolTypeOK
<1>3. LastSays'
  <2>1. \A i \in 1 .. Len(Listed) : advertisers'[Listed[i]] = {"static"}
    <3> SUFFICES ASSUME NEW i \in 1 .. Len(Listed) PROVE advertisers'[Listed[i]] = {"static"}
      OBVIOUS
    <3>1. Listed[i] \in Peer /\ i \in DOMAIN Listed OBVIOUS
    <3> QED BY <3>1
  <2>2. \A i \in 1 .. Len(Listed) : events'[i][1] = "found" /\ events'[i][2] = Listed[i] BY <1>1
  <2>3. \A i \in 1 .. Len(events') : events'[i][1] = "found" /\ advertisers'[events'[i][2]] # {}
    BY <1>1, <2>1, <2>2
  <2> QED BY <2>3 DEF LastSays
<1>4. Handled'
  <2> SUFFICES ASSUME NEW p \in Peer \ byUser, \A i \in 1 .. Len(Listed) : Listed[i] # p
               PROVE  advertisers'[p] = {} /\ p \notin pool \cup dialled["rail"]
    BY <1>1 DEF Handled
  <2> QED BY DEF NotStarted
<1>5. NotStarted' /\ DialledOnce' BY DEF NotStarted, DialledOnce
<1> QED BY <1>2, <1>3, <1>4, <1>5

LEMMA EventAdded ==
    ASSUME NEW evs \in Seq(Event), NEW ev \in Event
    PROVE  LET more == Append(evs, ev) IN
           /\ more \in Seq(Event) /\ Len(more) = Len(evs) + 1 /\ more[Len(evs) + 1] = ev
           /\ \A i \in 1 .. Len(evs) : more[i] = evs[i]
BY AppendProperties

LEMMA HearsFoundKeeps ==
  ASSUME PoolInv, NEW s \in Browser, NEW p \in Peer, rail \in {"starting", "on"}, HearsFound(s, p),
         UNCHANGED <<rail, dialled, pool, failedPeers, ownerless, byUser>>
  PROVE  PoolInv'
<1> USE DEF PoolInv, HearsFound
<1> PICK ev \in Event : ev = <<"found", p>> BY DEF Event
<1>1. /\ events' \in Seq(Event) /\ Len(events') = Len(events) + 1 /\ events'[Len(events) + 1] = ev
      /\ \A i \in 1 .. Len(events) : events'[i] = events[i]
  BY EventAdded DEF PoolTypeOK
<1>2. Len(events) \in Nat BY DEF PoolTypeOK
<1>3. PoolTypeOK' BY <1>1 DEF PoolTypeOK
<1>4. LastSays'
  <2> SUFFICES ASSUME rail \in {"starting", "on"}, NEW i \in 1 .. Len(events'),
                      \A j \in i + 1 .. Len(events') : events'[j][2] # events'[i][2]
               PROVE  events'[i][1] = "found" <=> advertisers'[events'[i][2]] # {}
    BY DEF LastSays
  <2>1. CASE i = Len(events) + 1 BY <1>1, <2>1 DEF PoolTypeOK
  <2>2. CASE i # Len(events) + 1
    <3>1. i \in 1 .. Len(events) /\ events'[i] = events[i] /\ Len(events) + 1 \in i + 1 .. Len(events')
      BY <1>1, <1>2, <2>2
    <3>2. events[i][2] # p BY <1>1, <3>1
    <3>3. \A j \in i + 1 .. Len(events) : events[j][2] # events[i][2] BY <1>1, <1>2, <3>1
    <3>4. events[i] \in Event BY <3>1 DEF PoolTypeOK
    <3>5. advertisers'[events[i][2]] = advertisers[events[i][2]]
      BY <3>2, <3>4 DEF PoolTypeOK, Event
    <3> QED BY <3>1, <3>3, <3>5 DEF LastSays
  <2> QED BY <2>1, <2>2
<1>5. Handled'
  <2> SUFFICES ASSUME rail \in {"starting", "on"}, NEW q \in Peer \ byUser,
                      \A i \in 1 .. Len(events') : events'[i][2] # q
               PROVE  /\ advertisers'[q] # {} => q \in pool \cup failedPeers \cup dialled["rail"]
                      /\ advertisers'[q] = {} => q \notin pool \cup dialled["rail"]
    BY DEF Handled
  <2>1. q # p
    <3>1. Len(events) + 1 \in 1 .. Len(events') BY <1>1, <1>2
    <3> QED BY <1>1, <3>1
  <2>2. \A i \in 1 .. Len(events) : events[i][2] # q BY <1>1, <1>2
  <2>3. advertisers'[q] = advertisers[q] BY <2>1 DEF PoolTypeOK
  <2> QED BY <2>2, <2>3 DEF Handled
<1>6. NotStarted' /\ DialledOnce' BY DEF NotStarted, DialledOnce
<1> QED BY <1>3, <1>4, <1>5, <1>6

LEMMA HearsLostKeeps ==
  ASSUME PoolInv, NEW s \in Browser, NEW p \in Peer, rail \in {"starting", "on"}, HearsLost(s, p),
         UNCHANGED <<rail, dialled, pool, failedPeers, ownerless, byUser>>
  PROVE  PoolInv'
<1> USE DEF PoolInv, HearsLost
<1> PICK ev \in Event : ev = <<"lost", p>> BY DEF Event
<1>2. Len(events) \in Nat BY DEF PoolTypeOK
<1>3. NotStarted' /\ DialledOnce' BY DEF NotStarted, DialledOnce
<1>4. CASE advertisers'[p] = {}
  <2>1. /\ events' \in Seq(Event) /\ Len(events') = Len(events) + 1 /\ events'[Len(events) + 1] = ev
        /\ \A i \in 1 .. Len(events) : events'[i] = events[i]
    BY <1>4, EventAdded DEF PoolTypeOK
  <2>2. PoolTypeOK' BY <2>1 DEF PoolTypeOK
  <2>3. LastSays'
    <3> SUFFICES ASSUME rail \in {"starting", "on"}, NEW i \in 1 .. Len(events'),
                        \A j \in i + 1 .. Len(events') : events'[j][2] # events'[i][2]
                 PROVE  events'[i][1] = "found" <=> advertisers'[events'[i][2]] # {}
      BY DEF LastSays
    <3>1. CASE i = Len(events) + 1 BY <1>4, <2>1, <3>1 DEF PoolTypeOK
    <3>2. CASE i # Len(events) + 1
      <4>1. i \in 1 .. Len(events) /\ events'[i] = events[i] /\ Len(events) + 1 \in i + 1 .. Len(events')
        BY <2>1, <1>2, <3>2
      <4>2. events[i][2] # p BY <2>1, <4>1
      <4>3. \A j \in i + 1 .. Len(events) : events[j][2] # events[i][2] BY <2>1, <1>2, <4>1
      <4>4. events[i] \in Event BY <4>1 DEF PoolTypeOK
      <4>5. advertisers'[events[i][2]] = advertisers[events[i][2]]
        BY <4>2, <4>4 DEF PoolTypeOK, Event
      <4> QED BY <4>1, <4>3, <4>5 DEF LastSays
    <3> QED BY <3>1, <3>2
  <2>4. Handled' BY <1>2, <2>1 DEF Handled, PoolTypeOK
  <2> QED BY <1>3, <2>2, <2>3, <2>4
<1>5. CASE advertisers'[p] # {}
  <2>1. events' = events BY <1>5
  <2>2. PoolTypeOK' BY <2>1 DEF PoolTypeOK
  <2>3. advertisers[p] # {} BY <1>5 DEF PoolTypeOK
  <2>4. LastSays'
    <3> SUFFICES ASSUME NEW q \in Peer PROVE advertisers'[q] # {} <=> advertisers[q] # {}
      <4>1. \A i \in 1 .. Len(events) : events[i][2] \in Peer
        <5> SUFFICES ASSUME NEW i \in 1 .. Len(events) PROVE events[i][2] \in Peer OBVIOUS
        <5>1. events[i] \in Event BY DEF PoolTypeOK
        <5> QED BY <5>1 DEF Event
      <4> QED BY <2>1, <4>1 DEF LastSays
    <3> QED BY <1>5, <2>3 DEF PoolTypeOK
  <2>5. Handled' BY <1>5, <2>1, <2>3 DEF Handled, PoolTypeOK
  <2> QED BY <1>3, <2>2, <2>4, <2>5
<1> QED BY <1>4, <1>5

LEMMA RailHandlesKeeps == ASSUME PoolInv, RailHandles PROVE PoolInv'
<1> USE DEF PoolInv, RailHandles
<1> PICK sort, p : events[1] = <<sort, p>> /\ sort \in {"found", "lost"} /\ p \in Peer
  <2>1. events[1] \in Event BY EmptySeq DEF PoolTypeOK
  <2> QED BY <2>1 DEF Event
<1>1. /\ events' \in Seq(Event) /\ Len(events) \in Nat \ {0} /\ Len(events') = Len(events) - 1
      /\ \A i \in 1 .. Len(events') : events'[i] = events[i + 1]
  BY HeadTailProperties, EmptySeq DEF PoolTypeOK
<1>2. Head(events) = events[1] BY DEF PoolTypeOK
<1>3. rail # "off" BY DEF NotStarted
<1>4. LastSays'
  <2> SUFFICES ASSUME rail \in {"starting", "on"}, NEW i \in 1 .. Len(events'),
                      \A j \in i + 1 .. Len(events') : events'[j][2] # events'[i][2]
               PROVE  events'[i][1] = "found" <=> advertisers[events'[i][2]] # {}
    BY DEF LastSays
  <2> PICK k \in 1 .. Len(events) : k = i + 1 BY <1>1
  <2>1. events'[i] = events[k] BY <1>1
  <2>2. \A j \in k + 1 .. Len(events) : events[j][2] # events[k][2]
    <3> SUFFICES ASSUME NEW j \in k + 1 .. Len(events) PROVE events[j][2] # events[k][2] OBVIOUS
    <3> PICK m \in i + 1 .. Len(events') : j = m + 1 BY <1>1
    <3>1. events'[m] = events[j] BY <1>1
    <3> QED BY <2>1, <3>1
  <2> QED BY <2>1, <2>2 DEF LastSays
<1>5. rail \in {"starting", "on"} /\ (\A i \in 1 .. Len(events') : events'[i][2] # p) =>
          (sort = "found" <=> advertisers[p] # {})
  <2> SUFFICES ASSUME rail \in {"starting", "on"}, \A i \in 1 .. Len(events') : events'[i][2] # p
               PROVE  sort = "found" <=> advertisers[p] # {}
    OBVIOUS
  <2>1. \A j \in 2 .. Len(events) : events[j][2] # p
    <3> SUFFICES ASSUME NEW j \in 2 .. Len(events) PROVE events[j][2] # p OBVIOUS
    <3> PICK m \in 1 .. Len(events') : j = m + 1 BY <1>1
    <3> QED BY <1>1
  <2>2. 1 \in 1 .. Len(events) /\ events[1][1] = sort /\ events[1][2] = p BY <1>1
  <2>3. \A j \in 1 + 1 .. Len(events) : events[j][2] # events[1][2] BY <2>1, <2>2
  <2> QED BY <2>2, <2>3 DEF LastSays
<1>6. ASSUME NEW q \in Peer, q # p, \A i \in 1 .. Len(events') : events'[i][2] # q
      PROVE  \A i \in 1 .. Len(events) : events[i][2] # q
  <2> SUFFICES ASSUME NEW i \in 1 .. Len(events), i # 1 PROVE events[i][2] # q BY <1>6
  <2> PICK m \in 1 .. Len(events') : i = m + 1 BY <1>1
  <2> QED BY <1>1, <1>6
<1>7. CASE sort = "found" /\ p \in pool
  <2>1. UNCHANGED <<rail, advertisers, dialled, pool, failedPeers, ownerless, byUser>>
    BY <1>2, <1>7 DEF Dials
  <2>2. PoolTypeOK' /\ NotStarted' /\ DialledOnce'
    BY <1>1, <1>3, <2>1 DEF PoolTypeOK, NotStarted, DialledOnce
  <2>3. Handled' BY <1>5, <1>6, <1>7, <2>1 DEF Handled
  <2> QED BY <1>4, <2>2, <2>3
<1>8. CASE sort = "found" /\ p \notin pool
  <2>1. /\ dialled' = [dialled EXCEPT !["rail"] = @ \cup {p}] /\ failedPeers' = failedPeers \ {p}
        /\ UNCHANGED <<rail, advertisers, pool, ownerless, byUser>>
    BY <1>2, <1>8 DEF Dials
  <2>2. PoolTypeOK' /\ NotStarted' BY <1>1, <1>3, <2>1 DEF PoolTypeOK, NotStarted
  <2>3. DialledOnce' BY <1>8, <2>1 DEF PoolTypeOK, DialledOnce
  <2>4. Handled' BY <1>5, <1>6, <1>8, <2>1 DEF Handled, PoolTypeOK
  <2> QED BY <1>4, <2>2, <2>3, <2>4
<1>9. CASE sort = "lost"
  <2>1. pool' = pool \ {p} /\ UNCHANGED <<rail, advertisers, dialled, failedPeers, ownerless, byUser>>
    BY <1>2, <1>9
  <2>2. PoolTypeOK' /\ NotStarted' /\ DialledOnce'
    BY <1>1, <1>3, <2>1 DEF PoolTypeOK, NotStarted, DialledOnce
  <2>3. Handled' BY <1>5, <1>6, <1>9, <2>1 DEF Handled, PoolTypeOK
  <2> QED BY <1>4, <2>2, <2>3
<1> QED BY <1>7, <1>8, <1>9

LEMMA UserConnectsKeeps == ASSUME PoolInv, NEW p \in Peer, UserConnects(p) PROVE PoolInv'
<1> USE DEF PoolInv, UserConnects, Dials
<1>1. PoolTypeOK' /\ NotStarted' BY DEF PoolTypeOK, NotStarted
<1>2. LastSays' BY DEF LastSays
<1>3. Handled' BY DEF Handled, PoolTypeOK
<1>4. DialledOnce' BY DEF DialledOnce, PoolTypeOK
<1> QED BY <1>1, <1>2, <1>3, <1>4

LEMMA SocketUpKeeps ==
  ASSUME PoolInv, NEW who \in {"rail", "user"}, NEW p \in Peer, SocketUp(who, p)
  PROVE  PoolInv'
<1> USE DEF PoolInv, SocketUp
<1>1. PoolTypeOK' /\ NotStarted' BY DEF PoolTypeOK, NotStarted, DialledOnce
<1>2. LastSays' BY DEF LastSays
<1>3. Handled' BY DEF Handled, PoolTypeOK, DialledOnce
<1>4. DialledOnce' BY DEF DialledOnce, PoolTypeOK
<1> QED BY <1>1, <1>2, <1>3, <1>4

LEMMA SocketRefusedKeeps ==
  ASSUME PoolInv, NEW who \in {"rail", "user"}, NEW p \in Peer, SocketRefused(who, p)
  PROVE  PoolInv'
<1> USE DEF PoolInv, SocketRefused
<1>1. PoolTypeOK' /\ NotStarted' BY DEF PoolTypeOK, NotStarted
<1>2. LastSays' BY DEF LastSays
<1>3. Handled' BY DEF Handled, PoolTypeOK, DialledOnce
<1>4. DialledOnce' BY DEF DialledOnce, PoolTypeOK
<1> QED BY <1>1, <1>2, <1>3, <1>4

LEMMA PoolSteps == PoolInv /\ [PoolNext]_poolVars => PoolInv'
<1> SUFFICES ASSUME PoolInv, [PoolNext]_poolVars PROVE PoolInv' OBVIOUS
<1> USE DEF PoolInv, PoolTypeOK, NotStarted, LastSays, Handled, DialledOnce
<1>1. CASE UNCHANGED poolVars BY <1>1 DEF poolVars
<1>2. CASE StartReturns BY <1>2 DEF StartReturns
<1>3. CASE PoolDisposed BY <1>3 DEF PoolDisposed
<1>4. ASSUME NEW p \in Peer, NEW s \in Browser, Announces(s, p) PROVE PoolInv'
  <2> HIDE DEF PoolInv
  <2> QED BY <1>4, HearsFoundKeeps, HearsLostKeeps DEF Announces
<1> HIDE DEF PoolInv
<1> QED
  BY <1>1, <1>2, <1>3, <1>4, StartsKeeps, RailHandlesKeeps, UserConnectsKeeps, SocketUpKeeps,
     SocketRefusedKeeps DEF PoolNext

LEMMA PoolConverges == PoolInv => RailConverges
BY EmptySeq DEF PoolInv, PoolTypeOK, Handled, DialledOnce, RailConverges

-----------------------------------------------------------------------------
(* Questions at the terminal *)
ReplTypeOK ==
    /\ typed \in Nat /\ stdin \in Seq(Seq(Nat)) /\ eof \in BOOLEAN /\ questions \in 0 .. MaxAsk
    /\ outcome \in [1 .. MaxAsk -> {"none", "open", "answered", "timeout", "aborted"}]
    /\ lines \in [1 .. MaxAsk -> Seq(Nat)] /\ readers \in Seq(1 .. MaxAsk)
    /\ returning \subseteq 1 .. MaxAsk

(* the chunks begin with later and later lines, of those that were typed *)
ChunksInOrder ==
    /\ \A c \in 1 .. Len(stdin) : stdin[c] # <<>> /\ stdin[c][1] <= typed
    /\ \A b, c \in 1 .. Len(stdin) : b < c => stdin[b][1] < stdin[c][1]

(* what was read was typed before all that can be read *)
ReadBefore ==
    \A q \in 1 .. MaxAsk : \A i \in 1 .. Len(lines[q]) :
        /\ lines[q][i] <= typed
        /\ \A c \in 1 .. Len(stdin) : lines[q][i] < stdin[c][1]

(* one question is open, the latest, and none behind it has a line *)
OneIsOpen ==
    /\ \A q \in 1 .. MaxAsk : q > questions => outcome[q] = "none" /\ lines[q] = <<>>
    /\ \A q \in 1 .. MaxAsk : outcome[q] = "open" => q = questions

(* a question has one iterator, which reads no more when it is answered *)
ReadersDiffer ==
    /\ \A i, j \in 1 .. Len(readers) : i # j => readers[i] # readers[j]
    /\ \A i \in 1 .. Len(readers) : readers[i] <= questions
AnsweredReadNoMore ==
    \A i \in 1 .. Len(readers) : outcome[readers[i]] = "answered" => readers[i] \in returning

(* an answered question has no line that a later one could still be given *)
AnswersBefore ==
    \A p, q \in 1 .. MaxAsk : p < q /\ outcome[p] = "answered" =>
        \A i \in 1 .. Len(lines[p]), j \in 1 .. Len(lines[q]) : lines[p][i] < lines[q][j]

(* The invariant.  AnswersBefore is the property; a later question could   *)
(* still be given an earlier line, but for the order of what is unread and *)
(* for an answered question's iterator being on its way out.               *)
ReplInv ==
    /\ ReplTypeOK /\ ChunksInOrder /\ ReadBefore /\ OneIsOpen
    /\ ReadersDiffer /\ AnsweredReadNoMore /\ AnswersBefore

LEMMA ReadersAreQuestions ==
    ASSUME ReplTypeOK PROVE Len(readers) \in Nat /\ \A i \in 1 .. Len(readers) : readers[i] \in 1 .. MaxAsk
<1> PICK Q : Q = 1 .. MaxAsk OBVIOUS
<1>1. readers \in Seq(Q) BY DEF ReplTypeOK
<1>2. Len(readers) \in Nat /\ \A i \in 1 .. Len(readers) : readers[i] \in Q
  BY <1>1, LenProperties, ElementOfSeq
<1> QED BY <1>2

LEMMA ReplStarts == ReplInit => ReplInv
<1> SUFFICES ASSUME ReplInit PROVE ReplInv OBVIOUS
<1> USE ReplAssumption, EmptySeq DEF ReplInit
<1>1. ReplTypeOK
  <2>1. stdin \in Seq(Seq(Nat)) /\ readers \in Seq(1 .. MaxAsk) OBVIOUS
  <2>2. lines \in [1 .. MaxAsk -> Seq(Nat)] 
    <3>1. <<>> \in Seq(Nat) OBVIOUS
    <3> QED BY <3>1
  <2>3. outcome \in [1 .. MaxAsk -> {"none", "open", "answered", "timeout", "aborted"}] OBVIOUS
  <2>4. typed \in Nat /\ questions \in 0 .. MaxAsk /\ returning \subseteq 1 .. MaxAsk OBVIOUS
  <2>5. eof \in BOOLEAN BY Zenon
  <2> QED BY <2>1, <2>2, <2>3, <2>4, <2>5 DEF ReplTypeOK
<1>2. Len(stdin) = 0 /\ Len(readers) = 0 /\ \A q \in 1 .. MaxAsk : lines[q] = <<>> /\ Len(lines[q]) = 0
  OBVIOUS
<1>3. ChunksInOrder /\ ReadBefore BY <1>2 DEF ChunksInOrder, ReadBefore
<1>4. OneIsOpen BY <1>2 DEF OneIsOpen
<1>5. ReadersDiffer /\ AnsweredReadNoMore /\ AnswersBefore
  BY <1>2 DEF ReadersDiffer, AnsweredReadNoMore, AnswersBefore
<1> QED BY <1>1, <1>3, <1>4, <1>5 DEF ReplInv

LEMMA TypesLineKeeps == ASSUME ReplInv, TypesLine PROVE ReplInv'
<1> USE ReplAssumption DEF ReplInv
<1> PICK n \in 1 .. 2 : /\ typed' = typed + n /\ stdin' = Append(stdin, [i \in 1 .. n |-> typed + i])
                        /\ UNCHANGED <<sentinels, eof, questions, multi, outcome, lines, readers, returning>>
  BY DEF TypesLine
<1> PICK chunk : chunk = [i \in 1 .. n |-> typed + i] OBVIOUS
<1>0. typed \in Nat BY DEF ReplTypeOK
<1>1. chunk \in Seq(Nat) /\ chunk # <<>> /\ chunk[1] = typed + 1
  <2>1. chunk \in [1 .. n -> Nat] BY <1>0
  <2>2. chunk \in Seq(Nat) BY <2>1, SeqDef
  <2> QED BY <1>0, <2>1, <2>2, EmptySeq
<1>2. /\ stdin' \in Seq(Seq(Nat)) /\ Len(stdin') = Len(stdin) + 1 /\ stdin'[Len(stdin) + 1] = chunk
      /\ \A c \in 1 .. Len(stdin) : stdin'[c] = stdin[c]
      /\ Len(stdin) \in Nat
  BY <1>1, AppendProperties DEF ReplTypeOK
<1>3. ReplTypeOK'
  <2>1. typed' \in Nat BY <1>0
  <2> QED BY <1>2, <2>1 DEF ReplTypeOK
<1>4. \A c \in 1 .. Len(stdin) : stdin[c][1] \in Nat
  <2> SUFFICES ASSUME NEW c \in 1 .. Len(stdin) PROVE stdin[c][1] \in Nat OBVIOUS
  <2>1. stdin[c] \in Seq(Nat) /\ stdin[c] # <<>> BY DEF ReplTypeOK, ChunksInOrder
  <2> QED BY <2>1, EmptySeq
<1>5. ChunksInOrder'
  <2>1. ASSUME NEW c \in 1 .. Len(stdin') PROVE c \in 1 .. Len(stdin) \/ (c = Len(stdin) + 1 /\ stdin'[c] = chunk)
    BY <1>2
  <2>2. \A c \in 1 .. Len(stdin') : stdin'[c] # <<>> /\ stdin'[c][1] <= typed'
    <3> SUFFICES ASSUME NEW c \in 1 .. Len(stdin') PROVE stdin'[c] # <<>> /\ stdin'[c][1] <= typed'
      OBVIOUS
    <3>1. CASE c \in 1 .. Len(stdin)
      <4>1. stdin[c][1] \in Nat /\ stdin[c][1] <= typed /\ stdin[c] # <<>>
        BY <1>4, <3>1 DEF ChunksInOrder
      <4> QED BY <1>0, <1>2, <3>1, <4>1
    <3>2. CASE c = Len(stdin) + 1 /\ stdin'[c] = chunk BY <1>0, <1>1, <3>2
    <3> QED BY <2>1, <3>1, <3>2
  <2>3. ASSUME NEW b \in 1 .. Len(stdin'), NEW c \in 1 .. Len(stdin'), b < c PROVE stdin'[b][1] < stdin'[c][1]
    <3>1. b \in 1 .. Len(stdin) BY <1>2, <2>3
    <3>2. CASE c \in 1 .. Len(stdin) BY <1>2, <2>3, <3>1, <3>2 DEF ChunksInOrder
    <3>3. CASE c = Len(stdin) + 1
      <4>1. stdin[b][1] \in Nat /\ stdin[b][1] <= typed BY <1>4, <3>1 DEF ChunksInOrder
      <4> QED BY <1>0, <1>1, <1>2, <3>1, <3>3, <4>1
    <3> QED BY <2>1, <3>2, <3>3
  <2> QED BY <2>2, <2>3 DEF ChunksInOrder
<1>6. ReadBefore'
  <2> SUFFICES ASSUME NEW q \in 1 .. MaxAsk, NEW i \in 1 .. Len(lines[q])
               PROVE  lines[q][i] <= typed' /\ \A c \in 1 .. Len(stdin') : lines[q][i] < stdin'[c][1]
    BY DEF ReadBefore
  <2>1. lines[q][i] \in Nat BY DEF ReplTypeOK
  <2>2. lines[q][i] <= typed /\ \A c \in 1 .. Len(stdin) : lines[q][i] < stdin[c][1]
    BY DEF ReadBefore
  <2>3. lines[q][i] <= typed' BY <1>0, <2>1, <2>2
  <2>4. ASSUME NEW c \in 1 .. Len(stdin') PROVE lines[q][i] < stdin'[c][1]
    <3>1. CASE c \in 1 .. Len(stdin) BY <1>2, <2>2, <3>1
    <3>2. CASE c = Len(stdin) + 1
      <4>1. stdin'[c][1] = typed + 1 BY <1>1, <1>2, <3>2
      <4> QED BY <1>0, <2>1, <2>2, <4>1
    <3> QED BY <1>2, <3>1, <3>2
  <2> QED BY <2>3, <2>4
<1>7. OneIsOpen' /\ ReadersDiffer' /\ AnsweredReadNoMore' /\ AnswersBefore'
  BY DEF OneIsOpen, ReadersDiffer, AnsweredReadNoMore, AnswersBefore
<1> QED BY <1>3, <1>5, <1>6, <1>7

LEMMA AskHumanKeeps == ASSUME ReplInv, AskHuman PROVE ReplInv'
<1> USE ReplAssumption DEF ReplInv
<1> PICK next : next = questions + 1 OBVIOUS
<1>1. /\ next \in 1 .. MaxAsk /\ questions' = next /\ outcome' = [outcome EXCEPT ![next] = "open"]
      /\ readers' = Append(readers, next) /\ \A q \in 1 .. questions : outcome[q] # "open"
      /\ UNCHANGED <<sentinels, typed, stdin, eof, multi, lines, returning>>
  BY DEF AskHuman, ReplTypeOK
<1>2. /\ readers' \in Seq(1 .. MaxAsk) /\ Len(readers') = Len(readers) + 1 /\ readers'[Len(readers) + 1] = next
      /\ \A i \in 1 .. Len(readers) : readers'[i] = readers[i]
      /\ Len(readers) \in Nat /\ \A i \in 1 .. Len(readers) : readers[i] \in 1 .. MaxAsk
  BY <1>1, AppendProperties DEF ReplTypeOK
<1>3. ReplTypeOK' BY <1>1, <1>2 DEF ReplTypeOK
<1>4. ChunksInOrder' /\ ReadBefore' BY <1>1 DEF ChunksInOrder, ReadBefore
<1>5. OneIsOpen'
  <2>1. questions \in 0 .. MaxAsk /\ \A q \in 1 .. MaxAsk : q # next => outcome'[q] = outcome[q]
    BY <1>1 DEF ReplTypeOK
  <2>2. \A q \in 1 .. MaxAsk : q # next => outcome'[q] # "open"
    BY <1>1, <2>1 DEF OneIsOpen
  <2>3. \A q \in 1 .. MaxAsk : q > next => outcome'[q] = "none" /\ lines'[q] = <<>>
    BY <1>1, <2>1 DEF OneIsOpen
  <2> QED BY <1>1, <2>2, <2>3 DEF OneIsOpen
<1>6. \A i \in 1 .. Len(readers) : readers[i] < next BY <1>1, <1>2 DEF ReadersDiffer, ReplTypeOK
<1>7. ReadersDiffer' BY <1>1, <1>2, <1>6 DEF ReadersDiffer
<1>8. AnsweredReadNoMore' BY <1>1, <1>2, <1>6 DEF AnsweredReadNoMore, ReplTypeOK
<1>9. AnswersBefore'
  <2>1. \A p \in 1 .. MaxAsk : outcome'[p] = "answered" => outcome[p] = "answered"
    BY <1>1 DEF ReplTypeOK
  <2> QED BY <1>1, <2>1 DEF AnswersBefore
<1> QED BY <1>3, <1>4, <1>5, <1>7, <1>8, <1>9

(* An iterator leaves the line of readers, or goes behind the others.      *)
LEMMA ReaderLeaves ==
    ASSUME ReplInv, readers # <<>>, readers' = Tail(readers)
    PROVE  /\ readers' \in Seq(1 .. MaxAsk) /\ Head(readers) = readers[1] /\ readers[1] \in 1 .. MaxAsk
           /\ \A i, j \in 1 .. Len(readers') : i # j => readers'[i] # readers'[j]
           /\ \A i \in 1 .. Len(readers') : readers'[i] # readers[1] /\ \E k \in 1 .. Len(readers) : readers'[i] = readers[k]
<1> USE DEF ReplInv, ReplTypeOK
<1>1. /\ readers' \in Seq(1 .. MaxAsk) /\ Len(readers') = Len(readers) - 1 /\ Len(readers) \in Nat \ {0}
      /\ \A i \in 1 .. Len(readers') : readers'[i] = readers[i + 1]
      /\ Head(readers) = readers[1]
  BY HeadTailProperties, EmptySeq
<1>2. readers[1] \in 1 .. MaxAsk BY <1>1, ReadersAreQuestions
<1> QED BY <1>1, <1>2 DEF ReadersDiffer

LEMMA ReaderWaitsAgain ==
    ASSUME ReplInv, readers # <<>>, readers' = Append(Tail(readers), Head(readers))
    PROVE  /\ readers' \in Seq(1 .. MaxAsk) /\ Head(readers) = readers[1] /\ readers[1] \in 1 .. MaxAsk
           /\ \A i, j \in 1 .. Len(readers') : i # j => readers'[i] # readers'[j]
           /\ \A i \in 1 .. Len(readers') : \E k \in 1 .. Len(readers) : readers'[i] = readers[k]
<1> PICK rest, Q, n : rest = Tail(readers) /\ Q = 1 .. MaxAsk /\ n = Len(readers) OBVIOUS
<1>0. readers \in Seq(Q) BY DEF ReplInv, ReplTypeOK
<1>1. /\ rest \in Seq(Q) /\ Len(rest) = n - 1 /\ n \in Nat \ {0}
      /\ \A i \in 1 .. Len(rest) : rest[i] = readers[i + 1]
      /\ Head(readers) = readers[1] /\ readers[1] \in Q
  <2>1. n \in Nat \ {0} BY <1>0, LenProperties, EmptySeq
  <2>2. readers[1] \in Q
    <3>1. 1 \in 1 .. Len(readers) BY <2>1
    <3> QED BY <1>0, <3>1, ElementOfSeq
  <2> QED BY <1>0, <2>1, <2>2, HeadTailProperties
<1>2. /\ readers' \in Seq(Q) /\ Len(readers') = n /\ readers'[n] = readers[1]
      /\ \A i \in 1 .. Len(rest) : readers'[i] = rest[i]
  BY <1>1, AppendProperties
<1>3. \A i \in 1 .. n : i # n => readers'[i] = readers[i + 1] /\ i + 1 \in 1 .. n BY <1>1, <1>2
<1>4. \A i \in 1 .. n : \E k \in 1 .. n : readers'[i] = readers[k] BY <1>1, <1>2, <1>3
<1>5. ASSUME NEW i \in 1 .. n, NEW j \in 1 .. n, i < j PROVE readers'[i] # readers'[j]
  <2>1. i # n /\ readers'[i] = readers[i + 1] /\ i + 1 \in 1 .. n BY <1>1, <1>3, <1>5
  <2>2. CASE j = n
    <3>1. 1 \in 1 .. n /\ i + 1 # 1 BY <1>1
    <3> QED BY <1>2, <2>1, <2>2, <3>1 DEF ReplInv, ReadersDiffer
  <2>3. CASE j # n
    <3>1. j + 1 \in 1 .. n /\ readers'[j] = readers[j + 1] /\ i + 1 # j + 1
      BY <1>1, <1>3, <1>5, <2>3
    <3> QED BY <2>1, <3>1 DEF ReplInv, ReadersDiffer
  <2> QED BY <2>2, <2>3
<1>6. \A i, j \in 1 .. n : i # j => readers'[i] # readers'[j]
  <2>1. \A i, j \in 1 .. n : i # j => i < j \/ j < i BY <1>1
  <2> QED BY <1>5, <2>1
<1>7. \A i, j \in 1 .. Len(readers') : i # j => readers'[i] # readers'[j] BY <1>2, <1>6
<1>8. readers' \in Seq(1 .. MaxAsk) /\ Head(readers) = readers[1] /\ readers[1] \in 1 .. MaxAsk
  BY <1>1, <1>2
<1>9. \A i \in 1 .. Len(readers') : \E k \in 1 .. Len(readers) : readers'[i] = readers[k]
  <2> SUFFICES ASSUME NEW i \in 1 .. Len(readers') PROVE \E k \in 1 .. Len(readers) : readers'[i] = readers[k]
    OBVIOUS
  <2>1. i \in 1 .. n BY <1>2
  <2> PICK k \in 1 .. n : readers'[i] = readers[k] BY <1>4, <2>1
  <2> QED OBVIOUS
<1> QED BY <1>7, <1>8, <1>9

(* The next chunk leaves stdin: its first line was typed after all that    *)
(* was read and before all that remains.                                   *)
LEMMA ChunkLeaves ==
    ASSUME ReplInv, stdin # <<>>, stdin' = Tail(stdin), typed' = typed
    PROVE  /\ stdin' \in Seq(Seq(Nat)) /\ ChunksInOrder'
           /\ Head(Head(stdin)) \in Nat /\ Head(Head(stdin)) <= typed
           /\ \A c \in 1 .. Len(stdin') : Head(Head(stdin)) < stdin'[c][1]
           /\ \A q \in 1 .. MaxAsk : \A i \in 1 .. Len(lines[q]) :
                 /\ lines[q][i] <= typed /\ lines[q][i] < Head(Head(stdin))
                 /\ \A c \in 1 .. Len(stdin') : lines[q][i] < stdin'[c][1]
<1> USE DEF ReplInv, ReplTypeOK
<1>1. /\ stdin' \in Seq(Seq(Nat)) /\ Len(stdin') = Len(stdin) - 1 /\ Len(stdin) \in Nat \ {0}
      /\ \A c \in 1 .. Len(stdin') : stdin'[c] = stdin[c + 1]
      /\ Head(stdin) = stdin[1]
  BY HeadTailProperties, EmptySeq
<1>2. Head(stdin[1]) = stdin[1][1] /\ stdin[1][1] \in Nat
  <2>1. stdin[1] \in Seq(Nat) /\ stdin[1] # <<>> BY <1>1 DEF ChunksInOrder
  <2> QED BY <2>1, EmptySeq
<1>3. ChunksInOrder'
  <2>1. ASSUME NEW c \in 1 .. Len(stdin')
        PROVE  c + 1 \in 1 .. Len(stdin) /\ stdin'[c] = stdin[c + 1]
    BY <1>1
  <2>2. \A c \in 1 .. Len(stdin') : stdin'[c] # <<>> /\ stdin'[c][1] <= typed'
    BY <2>1 DEF ChunksInOrder
  <2>3. ASSUME NEW b \in 1 .. Len(stdin'), NEW c \in 1 .. Len(stdin'), b < c
        PROVE  stdin'[b][1] < stdin'[c][1]
    <3>1. b + 1 < c + 1 BY <1>1, <2>3
    <3>2. stdin[b + 1][1] < stdin[c + 1][1] BY <2>1, <3>1 DEF ChunksInOrder
    <3> QED BY <2>1, <3>2
  <2> QED BY <2>2, <2>3 DEF ChunksInOrder
<1>4. stdin[1][1] <= typed /\ \A c \in 1 .. Len(stdin') : stdin[1][1] < stdin'[c][1]
  BY <1>1 DEF ChunksInOrder
<1>5. \A q \in 1 .. MaxAsk : \A i \in 1 .. Len(lines[q]) :
          /\ lines[q][i] <= typed /\ lines[q][i] < stdin[1][1]
          /\ \A c \in 1 .. Len(stdin') : lines[q][i] < stdin'[c][1]
  BY <1>1 DEF ReadBefore
<1> QED BY <1>1, <1>2, <1>3, <1>4, <1>5

LEMMA TakesKeeps == ASSUME ReplInv, Takes PROVE ReplInv'
<1> USE ReplAssumption DEF ReplInv
<1> PICK q, l : q = Head(readers) /\ l = Head(Head(stdin)) OBVIOUS
<1>1. /\ stdin # <<>> /\ readers # <<>> /\ stdin' = Tail(stdin)
      /\ UNCHANGED <<sentinels, typed, questions, multi>>
  BY DEF Takes
<1>2. /\ stdin' \in Seq(Seq(Nat)) /\ ChunksInOrder' /\ l \in Nat /\ l <= typed
      /\ \A c \in 1 .. Len(stdin') : l < stdin'[c][1]
      /\ \A p \in 1 .. MaxAsk : \A i \in 1 .. Len(lines[p]) :
            /\ lines[p][i] <= typed /\ lines[p][i] < l
            /\ \A c \in 1 .. Len(stdin') : lines[p][i] < stdin'[c][1]
  BY <1>1, ChunkLeaves
<1>3. q = readers[1] /\ q \in 1 .. MaxAsk /\ 1 \in 1 .. Len(readers) /\ q <= questions
  <2>1. readers \in Seq(1 .. MaxAsk) BY DEF ReplTypeOK
  <2>2. q = readers[1] /\ 1 \in 1 .. Len(readers) BY <1>1, <2>1, EmptySeq
  <2> QED BY <2>1, <2>2 DEF ReadersDiffer
<1>4. CASE q \in returning
  <2>1. /\ eof' = TRUE /\ readers' = Tail(readers) /\ returning' = returning \ {q} /\ UNCHANGED <<outcome, lines>>
    BY <1>4 DEF Takes
  <2>2. /\ readers' \in Seq(1 .. MaxAsk)
        /\ \A i, j \in 1 .. Len(readers') : i # j => readers'[i] # readers'[j]
        /\ \A i \in 1 .. Len(readers') : readers'[i] # q /\ \E k \in 1 .. Len(readers) : readers'[i] = readers[k]
    BY <1>1, <1>3, <2>1, ReaderLeaves
  <2>3. ReplTypeOK' BY <1>1, <1>2, <2>1, <2>2 DEF ReplTypeOK
  <2>4. ReadBefore' BY <1>1, <1>2, <2>1 DEF ReadBefore
  <2>5. OneIsOpen' /\ AnswersBefore' BY <1>1, <2>1 DEF OneIsOpen, AnswersBefore
  <2>6. ReadersDiffer' BY <1>1, <2>2 DEF ReadersDiffer
  <2>7. AnsweredReadNoMore' BY <2>1, <2>2 DEF AnsweredReadNoMore
  <2> QED BY <1>2, <2>3, <2>4, <2>5, <2>6, <2>7
<1>5. CASE q \notin returning
  <2> PICK complete \in BOOLEAN : complete = (~multi[q] \/ l \in sentinels) OBVIOUS
  <2> PICK more : more = IF multi[q] /\ l \in sentinels THEN lines[q] ELSE Append(lines[q], l)
    OBVIOUS
  <2>1. /\ lines' = [lines EXCEPT ![q] = more]
        /\ outcome' = [outcome EXCEPT ![q] = IF complete /\ outcome[q] = "open" THEN "answered" ELSE outcome[q]]
        /\ readers' = IF complete THEN Tail(readers) ELSE Append(Tail(readers), Head(readers))
        /\ UNCHANGED <<eof, returning>>
    BY <1>5 DEF Takes, Reads
  <2>2. lines[q] \in Seq(Nat) BY <1>3 DEF ReplTypeOK
  <2>3. /\ more \in Seq(Nat) /\ Len(more) \in Nat
        /\ \A i \in 1 .. Len(more) : more[i] = l \/ (i \in 1 .. Len(lines[q]) /\ more[i] = lines[q][i])
    <3>1. CASE more = lines[q] BY <2>2, <3>1
    <3>2. CASE more = Append(lines[q], l) BY <1>2, <2>2, <3>2, AppendProperties
    <3> QED BY <3>1, <3>2
  <2>4. /\ readers' \in Seq(1 .. MaxAsk)
        /\ \A i, j \in 1 .. Len(readers') : i # j => readers'[i] # readers'[j]
        /\ \A i \in 1 .. Len(readers') : \E k \in 1 .. Len(readers) : readers'[i] = readers[k]
        /\ complete => \A i \in 1 .. Len(readers') : readers'[i] # q
    <3>1. CASE complete BY <1>1, <1>3, <2>1, <3>1, ReaderLeaves
    <3>2. CASE ~complete BY <1>1, <2>1, <3>2, ReaderWaitsAgain
    <3> QED BY <3>1, <3>2
  <2>5. ReplTypeOK' BY <1>1, <1>2, <1>3, <2>1, <2>3, <2>4 DEF ReplTypeOK
  <2>6. \A p \in 1 .. MaxAsk : p # q => lines'[p] = lines[p] /\ outcome'[p] = outcome[p]
    BY <2>1 DEF ReplTypeOK
  <2>7. lines'[q] = more /\ outcome'[q] = IF complete /\ outcome[q] = "open" THEN "answered" ELSE outcome[q]
    BY <1>3, <2>1 DEF ReplTypeOK
  <2>8. ReadBefore'
    <3> SUFFICES ASSUME NEW p \in 1 .. MaxAsk, NEW i \in 1 .. Len(lines'[p])
                 PROVE  lines'[p][i] <= typed /\ \A c \in 1 .. Len(stdin') : lines'[p][i] < stdin'[c][1]
      BY <1>1 DEF ReadBefore
    <3>1. CASE p = q
      <4>1. i \in 1 .. Len(more) /\ lines'[p][i] = more[i] BY <2>7, <3>1
      <4>2. CASE more[i] = l BY <1>2, <4>1, <4>2
      <4>3. CASE i \in 1 .. Len(lines[q]) /\ more[i] = lines[q][i] BY <1>2, <1>3, <4>1, <4>3
      <4> QED BY <2>3, <4>1, <4>2, <4>3
    <3>2. CASE p # q BY <1>2, <2>6, <3>2
    <3> QED BY <3>1, <3>2
  <2>9. OneIsOpen'
    <3>1. \A p \in 1 .. MaxAsk : p > questions => p # q BY <1>3 DEF ReplTypeOK
    <3>2. \A p \in 1 .. MaxAsk : outcome'[p] = "open" => outcome[p] = "open" BY <2>6, <2>7
    <3> QED BY <1>1, <2>6, <3>1, <3>2 DEF OneIsOpen
  <2>10. ReadersDiffer' BY <1>1, <2>4 DEF ReadersDiffer
  <2>11. outcome[q] # "answered" BY <1>3, <1>5 DEF AnsweredReadNoMore
  <2>12. AnsweredReadNoMore'
    <3> SUFFICES ASSUME NEW i \in 1 .. Len(readers'), outcome'[readers'[i]] = "answered"
                 PROVE  readers'[i] \in returning
      BY <2>1 DEF AnsweredReadNoMore
    <3>1. readers'[i] # q BY <2>4, <2>7, <2>11
    <3> PICK k \in 1 .. Len(readers) : readers'[i] = readers[k] BY <2>4
    <3>2. readers[k] \in 1 .. MaxAsk BY ReadersAreQuestions
    <3>3. outcome[readers[k]] = "answered" BY <2>6, <3>1, <3>2
    <3> QED BY <3>3 DEF AnsweredReadNoMore
  <2>13. AnswersBefore'
    <3> SUFFICES ASSUME NEW p \in 1 .. MaxAsk, NEW r \in 1 .. MaxAsk, p < r, outcome'[p] = "answered",
                        NEW i \in 1 .. Len(lines'[p]), NEW j \in 1 .. Len(lines'[r])
                 PROVE  lines'[p][i] < lines'[r][j]
      BY DEF AnswersBefore
    <3>1. CASE p = q
      <4>1. q = questions BY <2>7, <2>11, <3>1 DEF OneIsOpen
      <4>2. r # q /\ r > questions BY <3>1, <4>1
      <4>3. lines'[r] = <<>> BY <2>6, <4>2 DEF OneIsOpen
      <4> QED BY <4>3, EmptySeq
    <3>2. CASE p # q /\ r = q
      <4>1. outcome[p] = "answered" /\ lines'[p] = lines[p] BY <2>6, <3>2
      <4>2. lines[p][i] < l BY <1>2, <4>1
      <4> QED BY <2>3, <2>7, <3>2, <4>1, <4>2 DEF AnswersBefore
    <3>3. CASE p # q /\ r # q BY <2>6, <3>3 DEF AnswersBefore
    <3> QED BY <3>1, <3>2, <3>3
  <2> QED BY <1>2, <2>5, <2>8, <2>9, <2>10, <2>12, <2>13
<1> QED BY <1>4, <1>5

(* An open question that is answered with what it has. *)
LEMMA OutcomeKeeps ==
    ASSUME ReplInv, NEW q \in 1 .. MaxAsk, outcome[q] \in {"open", "timeout"},
           NEW how \in {"answered", "timeout", "aborted"}, how = "answered" => outcome[q] = "open",
           outcome' = [outcome EXCEPT ![q] = how],
           UNCHANGED <<typed, stdin, questions, lines>>
    PROVE  ChunksInOrder' /\ ReadBefore' /\ OneIsOpen' /\ AnswersBefore'
           /\ outcome' \in [1 .. MaxAsk -> {"none", "open", "answered", "timeout", "aborted"}]
<1> USE DEF ReplInv, ReplTypeOK
<1>1. ChunksInOrder' /\ ReadBefore' BY DEF ChunksInOrder, ReadBefore
<1>2. OneIsOpen' BY DEF OneIsOpen
<1>3. AnswersBefore'
  <2> SUFFICES ASSUME NEW p \in 1 .. MaxAsk, NEW r \in 1 .. MaxAsk, p < r, outcome'[p] = "answered",
                      NEW i \in 1 .. Len(lines[p]), NEW j \in 1 .. Len(lines[r])
               PROVE  lines[p][i] < lines[r][j]
    BY DEF AnswersBefore
  <2>1. CASE p # q BY <2>1 DEF AnswersBefore
  <2>2. CASE p = q
    <3>1. p = questions BY <2>2 DEF OneIsOpen
    <3>2. lines[r] = <<>> BY <3>1 DEF OneIsOpen
    <3> QED BY <3>2, EmptySeq
  <2> QED BY <2>1, <2>2
<1> QED BY <1>1, <1>2, <1>3

LEMMA ReadsEndKeeps == ASSUME ReplInv, ReadsEnd PROVE ReplInv'
<1> USE ReplAssumption DEF ReplInv
<1> PICK q : q = Head(readers) OBVIOUS
<1>1. /\ readers # <<>> /\ readers' = Tail(readers)
      /\ UNCHANGED <<sentinels, typed, stdin, eof, questions, multi, lines, returning>>
  BY DEF ReadsEnd
<1>2. /\ readers' \in Seq(1 .. MaxAsk) /\ q \in 1 .. MaxAsk
      /\ \A i, j \in 1 .. Len(readers') : i # j => readers'[i] # readers'[j]
      /\ \A i \in 1 .. Len(readers') : readers'[i] # q /\ \E k \in 1 .. Len(readers) : readers'[i] = readers[k]
  BY <1>1, ReaderLeaves
<1>3. ReadersDiffer' BY <1>1, <1>2 DEF ReadersDiffer
<1>4. ChunksInOrder' /\ ReadBefore' /\ OneIsOpen' /\ AnswersBefore'
      /\ outcome' \in [1 .. MaxAsk -> {"none", "open", "answered", "timeout", "aborted"}]
      /\ \A p \in 1 .. MaxAsk : p # q => outcome'[p] = outcome[p]
  <2>1. CASE outcome[q] # "open"
    <3>1. outcome' = outcome BY <2>1 DEF ReadsEnd
    <3> QED BY <1>1, <3>1 DEF ChunksInOrder, ReadBefore, OneIsOpen, AnswersBefore, ReplTypeOK
  <2>2. CASE outcome[q] = "open"
    <3> PICK how \in {"answered", "aborted"} : outcome' = [outcome EXCEPT ![q] = how]
      BY <2>2 DEF ReadsEnd
    <3> QED BY <1>1, <1>2, <2>2, OutcomeKeeps DEF ReplTypeOK
  <2> QED BY <2>1, <2>2
<1>5. ReplTypeOK' BY <1>1, <1>2, <1>4 DEF ReplTypeOK
<1>6. AnsweredReadNoMore'
  <2> SUFFICES ASSUME NEW i \in 1 .. Len(readers'), outcome'[readers'[i]] = "answered"
               PROVE  readers'[i] \in returning
    BY <1>1 DEF AnsweredReadNoMore
  <2> PICK k \in 1 .. Len(readers) : readers'[i] = readers[k] BY <1>2
  <2>1. readers[k] \in 1 .. MaxAsk /\ readers[k] # q BY <1>2, ReadersAreQuestions
  <2> QED BY <1>4, <2>1 DEF AnsweredReadNoMore
<1> QED BY <1>3, <1>4, <1>5, <1>6

LEMMA AskTimesOutKeeps == ASSUME ReplInv, NEW q \in 1 .. MaxAsk, AskTimesOut(q) PROVE ReplInv'
<1> USE DEF ReplInv, AskTimesOut
<1>1. ChunksInOrder' /\ ReadBefore' /\ OneIsOpen' /\ AnswersBefore'
      /\ outcome' \in [1 .. MaxAsk -> {"none", "open", "answered", "timeout", "aborted"}]
  BY OutcomeKeeps
<1>2. ReplTypeOK' BY <1>1 DEF ReplTypeOK
<1>3. ReadersDiffer' /\ AnsweredReadNoMore' BY DEF ReadersDiffer, AnsweredReadNoMore, ReplTypeOK
<1> QED BY <1>1, <1>2, <1>3

LEMMA AskAbortsKeeps == ASSUME ReplInv, NEW q \in 1 .. MaxAsk, AskAborts(q) PROVE ReplInv'
<1> USE DEF ReplInv
<1>1. /\ returning' = returning \cup {q} /\ UNCHANGED <<sentinels, typed, stdin, eof, questions, multi, lines, readers>>
  BY DEF AskAborts
<1>2. /\ ChunksInOrder' /\ ReadBefore' /\ OneIsOpen' /\ AnswersBefore'
      /\ outcome' \in [1 .. MaxAsk -> {"none", "open", "answered", "timeout", "aborted"}]
      /\ \A p \in 1 .. MaxAsk : p # q => outcome'[p] = outcome[p]
  <2>1. CASE outcome[q] = "timeout"
    <3>1. outcome' = outcome BY <2>1 DEF AskAborts
    <3> QED BY <1>1, <3>1 DEF ChunksInOrder, ReadBefore, OneIsOpen, AnswersBefore, ReplTypeOK
  <2>2. CASE outcome[q] = "open"
    <3> PICK how \in {"answered", "aborted"} : outcome' = [outcome EXCEPT ![q] = how]
      BY <2>2 DEF AskAborts
    <3> QED BY <1>1, <2>2, OutcomeKeeps DEF ReplTypeOK
  <2> QED BY <2>1, <2>2 DEF AskAborts
<1>3. ReplTypeOK' BY <1>1, <1>2 DEF ReplTypeOK
<1>4. ReadersDiffer' BY <1>1 DEF ReadersDiffer
<1>5. AnsweredReadNoMore' 
  <2>1. \A i \in 1 .. Len(readers) : readers[i] \in 1 .. MaxAsk BY ReadersAreQuestions
  <2> QED BY <1>1, <1>2, <2>1 DEF AnsweredReadNoMore
<1> QED BY <1>2, <1>3, <1>4, <1>5

LEMMA ReplSteps == ReplInv /\ [ReplNext]_replVars => ReplInv'
<1> SUFFICES ASSUME ReplInv, [ReplNext]_replVars PROVE ReplInv' OBVIOUS
<1>1. CASE UNCHANGED replVars
  BY <1>1 DEF replVars, ReplInv, ReplTypeOK, ChunksInOrder, ReadBefore, OneIsOpen, ReadersDiffer,
     AnsweredReadNoMore, AnswersBefore
<1>2. CASE Ends
  BY <1>2 DEF Ends, ReplInv, ReplTypeOK, ChunksInOrder, ReadBefore, OneIsOpen, ReadersDiffer,
     AnsweredReadNoMore, AnswersBefore
<1> QED
  BY <1>1, <1>2, TypesLineKeeps, AskHumanKeeps, TakesKeeps, ReadsEndKeeps, AskTimesOutKeeps,
     AskAbortsKeeps DEF ReplNext

LEMMA AnswersAreInOrder == ReplInv => LinesInOrder
<1> SUFFICES ASSUME ReplInv, NEW p \in 1 .. MaxAsk, NEW q \in 1 .. MaxAsk, p < q, outcome[p] = "answered",
                    NEW i \in DOMAIN lines[p], NEW j \in DOMAIN lines[q]
             PROVE  lines[p][i] < lines[q][j]
  BY DEF LinesInOrder
<1>1. lines[p] \in Seq(Nat) /\ lines[q] \in Seq(Nat) BY DEF ReplInv, ReplTypeOK
<1>2. i \in 1 .. Len(lines[p]) /\ j \in 1 .. Len(lines[q]) BY <1>1
<1> QED BY <1>2 DEF ReplInv, AnswersBefore

-----------------------------------------------------------------------------
(* The ids of calls on the wire *)
Id == [text : Int, padded : BOOLEAN]
WireLine == [is : {"call", "result"}, id : Id, of : Nat]

(* Of one number more than there are used ones, one is free: the search ends *)
(* and what it finds is new.                                                 *)
LEMMA FirstFreeIsFree ==
  ASSUME NEW used, IsFiniteSet(used), NEW generated \in Nat
  PROVE  FirstFree(used, generated) \in Nat /\ FirstFree(used, generated) \notin used
<1> DEFINE C == Cardinality(used)
           Window == generated + 1 .. generated + C + 1
           Frees == {k \in Window : k \notin used}
<1>1. C \in Nat  BY FS_CardinalityType
<1>2. Frees # {}
  <2> SUFFICES ASSUME Frees = {} PROVE FALSE  OBVIOUS
  <2>1. Window \in SUBSET used  OBVIOUS
  <2>2. Cardinality(Window) <= C  BY <2>1, FS_Subset
  <2>3. generated + 1 \in Int /\ generated + C + 1 \in Int /\ ~(generated + 1 > generated + C + 1)
    BY <1>1
  <2>4. Cardinality(Window) = (generated + C + 1) - (generated + 1) + 1  BY <2>3, FS_Interval
  <2> HIDE DEF C
  <2> QED  BY <1>1, <2>2, <2>4
<1>3. Frees \subseteq Nat  BY <1>1
<1> HIDE DEF C
<1>4. PICK k \in Frees : \A j \in Frees : k <= j
  <2> HIDE DEF Frees
  <2> QED  BY <1>2, <1>3, LeastNumber
<1>5. k \in Window /\ k \notin used /\ \A j \in generated + 1 .. k - 1 : j \in used
  <2>1. k \in Window /\ k \in Nat /\ k \notin used  BY <1>3
  <2>2. ASSUME NEW j \in generated + 1 .. k - 1 PROVE j \in used
    <3>1. j \in Window /\ ~(k <= j)  BY <1>1, <2>1
    <3> QED  BY <1>4, <3>1
  <2> QED  BY <2>1, <2>2
<1>6. /\ FirstFree(used, generated) \in Window
      /\ FirstFree(used, generated) \notin used
  BY <1>5 DEF FirstFree, C
<1> QED  BY <1>1, <1>6

(* A set that only grows from step to step holds at the end what it held.    *)
LEMMA Grows ==
  ASSUME NEW f, NEW n \in Nat, \A i \in 1..n : f[i - 1] \subseteq f[i],
         NEW j \in 0..n, NEW m \in 0..n, j <= m
  PROVE  f[j] \subseteq f[m]
<1> DEFINE Bad == {i \in Nat : i \in j..n /\ ~(f[j] \subseteq f[i])}
<1>1. Bad = {}
  <2> SUFFICES ASSUME Bad # {} PROVE FALSE  OBVIOUS
  <2>1. Bad \subseteq Nat  OBVIOUS
  <2>2. PICK i \in Bad : \A k \in Bad : i <= k
    <3> HIDE DEF Bad
    <3> QED  BY <2>1, LeastNumber
  <2>3. i # j /\ i \in j..n  OBVIOUS
  <2>4. i - 1 \in Nat /\ i - 1 \in j..n /\ ~(i <= i - 1) /\ i \in 1..n  BY <2>3
  <2>5. i - 1 \notin Bad  BY <2>2, <2>4
  <2> QED  BY <2>4, <2>5
<1> QED  BY <1>1

-----------------------------------------------------------------------------
(* A reply's own ids *)
AccOK(acc) ==
  acc \in [seen : SUBSET Int, generated : Nat, id : Id] /\ IsFiniteSet(acc.seen)

LEMMA NormalizeStep ==
  ASSUME NEW acc, AccOK(acc), NEW id \in Id
  PROVE  /\ AccOK(Normalize(acc, id))
         /\ Normalize(acc, id).id.text \notin acc.seen
         /\ Normalize(acc, id).seen = acc.seen \cup {Normalize(acc, id).id.text}
<1> DEFINE free == FirstFree(acc.seen, acc.generated)
           new == Normalize(acc, id)
<1>1. acc.generated \in Nat /\ acc.seen \in SUBSET Int /\ IsFiniteSet(acc.seen) /\ acc.id \in Id
  BY DEF AccOK
<1>2. free \in Nat /\ free \notin acc.seen  BY <1>1, FirstFreeIsFree
<1>3. CASE Fresh(acc.seen, id)
  <2>1. new = [acc EXCEPT !.seen = @ \cup {id.text}, !.id = id]  BY <1>3 DEF Normalize
  <2>2. /\ new.seen = acc.seen \cup {id.text} /\ new.id = id
        /\ new \in [seen : SUBSET Int, generated : Nat, id : Id]
    BY <2>1, <1>1 DEF AccOK, Id
  <2>3. id.text \notin acc.seen  BY <1>3 DEF Fresh
  <2>4. IsFiniteSet(new.seen)  BY <1>1, <2>2, FS_AddElement
  <2> HIDE DEF new
  <2>5. AccOK(new)  BY <2>2, <2>4 DEF AccOK
  <2> QED  BY <2>2, <2>3, <2>5 DEF new
<1>4. CASE ~Fresh(acc.seen, id)
  <2> HIDE DEF free
  <2>1. new = [seen |-> acc.seen \cup {free}, generated |-> free,
               id |-> [text |-> free, padded |-> FALSE]]
    BY <1>4 DEF Normalize, free
  <2>2. /\ new.seen = acc.seen \cup {free} /\ new.id.text = free
        /\ new \in [seen : SUBSET Int, generated : Nat, id : Id]
    BY <2>1, <1>1, <1>2 DEF Id
  <2>3. IsFiniteSet(new.seen)  BY <1>1, <2>2, FS_AddElement
  <2> HIDE DEF new
  <2>4. AccOK(new)  BY <2>2, <2>3 DEF AccOK
  <2> QED  BY <1>2, <2>2, <2>4 DEF new
<1> QED  BY <1>3, <1>4

NoneSeen == [seen |-> {}, generated |-> 0, id |-> [text |-> 0, padded |-> FALSE]]

LEMMA NormalizerExists ==
  ASSUME NEW c, Len(c) \in Nat
  PROVE  Normalizer(c) =
           [i \in 0..Len(c) |-> IF i = 0 THEN NoneSeen ELSE Normalize(Normalizer(c)[i - 1], c[i])]
<1> DEFINE Upto(n) ==
             \E w : w = [i \in 0..n |-> IF i = 0 THEN NoneSeen ELSE Normalize(w[i - 1], c[i])]
           Bad == {n \in Nat : ~Upto(n)}
<1>1. Bad = {}
  <2> SUFFICES ASSUME Bad # {} PROVE FALSE  OBVIOUS
  <2>1. Bad \subseteq Nat  OBVIOUS
  <2> HIDE DEF Bad
  <2>2. PICK n \in Bad : \A m \in Bad : n <= m  BY <2>1, LeastNumber
  <2> USE DEF Bad
  <2>3. CASE n = 0
    <3> DEFINE w == [i \in 0..0 |-> NoneSeen]
    <3>1. w = [i \in 0..0 |-> IF i = 0 THEN NoneSeen ELSE Normalize(w[i - 1], c[i])]  OBVIOUS
    <3> HIDE DEF w
    <3> QED  BY <2>3, <3>1
  <2>4. CASE n # 0
    <3>1. n - 1 \in Nat /\ n \in Nat  BY <2>4
    <3>2. n - 1 \notin Bad
      <4> HIDE DEF Bad
      <4>1. ~(n <= n - 1)  BY <3>1
      <4> QED  BY <2>2, <4>1
    <3>3. Upto(n - 1)  BY <3>1, <3>2
    <3>4. PICK w : w = [i \in 0..n - 1 |-> IF i = 0 THEN NoneSeen ELSE Normalize(w[i - 1], c[i])]
      BY <3>3
    <3> DEFINE v == [i \in 0..n |-> IF i = n THEN Normalize(w[n - 1], c[n]) ELSE w[i]]
    <3>5. \A i \in 0..n : v[i] = IF i = 0 THEN NoneSeen ELSE Normalize(v[i - 1], c[i])
      <4> SUFFICES ASSUME NEW i \in 0..n
                   PROVE  v[i] = IF i = 0 THEN NoneSeen ELSE Normalize(v[i - 1], c[i])
        OBVIOUS
      <4>1. CASE i = n
        <5>1. i # 0 /\ i - 1 \in 0..n /\ i - 1 # n  BY <2>4, <3>1, <4>1
        <5>2. v[i] = Normalize(w[n - 1], c[n]) /\ v[i - 1] = w[n - 1]  BY <4>1, <5>1
        <5> QED  BY <4>1, <5>1, <5>2
      <4>2. CASE i # n
        <5>1. i \in 0..n - 1 /\ v[i] = w[i]  BY <3>1, <4>2
        <5>2. w[i] = IF i = 0 THEN NoneSeen ELSE Normalize(w[i - 1], c[i])  BY <3>4, <5>1
        <5>3. i # 0 => i - 1 \in 0..n /\ i - 1 # n /\ v[i - 1] = w[i - 1]  BY <3>1, <5>1
        <5> QED  BY <5>1, <5>2, <5>3
      <4> QED  BY <4>1, <4>2
    <3>6. v = [i \in 0..n |-> v[i]]  OBVIOUS
    <3> HIDE DEF v
    <3>7. v = [i \in 0..n |-> IF i = 0 THEN NoneSeen ELSE Normalize(v[i - 1], c[i])]  BY <3>5, <3>6
    <3>8. Upto(n)  BY <3>7
    <3> QED  BY <3>8
  <2> QED  BY <2>3, <2>4
<1>2. Upto(Len(c))  BY <1>1
<1> QED  BY <1>2 DEF Normalizer, NoneSeen

(* A reply's calls leave normalizeToolCallIds() with ids that differ.        *)
LEMMA NormalizedDiffer ==
  ASSUME NEW n \in Nat, NEW raw \in [1..n -> Id]
  PROVE  /\ \A i \in 1..n : Normalized(raw)[i] \in Id
         /\ \A i, j \in 1..n : i # j => Normalized(raw)[i] # Normalized(raw)[j]
<1> DEFINE w == Normalizer(raw)
<1>1. Len(raw) = n  BY LenProperties, SeqDef
<1>2. w = [i \in 0..n |-> IF i = 0 THEN NoneSeen ELSE Normalize(w[i - 1], raw[i])]
  BY <1>1, NormalizerExists
<1>3. \A i \in 1..n : Normalized(raw)[i] = w[i].id  BY <1>1 DEF Normalized
<1> HIDE DEF w
<1>4. w[0] = NoneSeen /\ \A i \in 1..n : w[i] = Normalize(w[i - 1], raw[i])  BY <1>2
<1> DEFINE Bad == {i \in Nat : i \in 0..n /\ ~AccOK(w[i])}
<1>5. Bad = {}
  <2> SUFFICES ASSUME Bad # {} PROVE FALSE  OBVIOUS
  <2>1. Bad \subseteq Nat  OBVIOUS
  <2>2. PICK i \in Bad : \A k \in Bad : i <= k
    <3> HIDE DEF Bad
    <3> QED  BY <2>1, LeastNumber
  <2>3. AccOK(NoneSeen)  BY FS_EmptySet DEF AccOK, NoneSeen, Id
  <2>4. i # 0 /\ i \in 0..n /\ i \in Nat  BY <1>4, <2>3
  <2>5. i - 1 \in Nat /\ i - 1 \in 0..n /\ ~(i <= i - 1) /\ i \in 1..n  BY <2>4
  <2>6. AccOK(w[i - 1])  BY <2>2, <2>5
  <2>7. raw[i] \in Id  BY <2>5
  <2>8. AccOK(w[i])  BY <1>4, <2>5, <2>6, <2>7, NormalizeStep
  <2> QED  BY <2>8
<1>6. \A i \in 1..n : /\ AccOK(w[i]) /\ w[i].id.text \notin w[i - 1].seen
                      /\ w[i].seen = w[i - 1].seen \cup {w[i].id.text}
  <2> TAKE i \in 1..n
  <2>1. i - 1 \in 0..n /\ i - 1 \in Nat  OBVIOUS
  <2>2. AccOK(w[i - 1])  BY <1>5, <2>1
  <2>3. raw[i] \in Id  OBVIOUS
  <2> HIDE DEF Bad
  <2> PICK acc : acc = w[i - 1]  OBVIOUS
  <2> PICK id : id = raw[i]  OBVIOUS
  <2>4. AccOK(acc) /\ id \in Id /\ w[i] = Normalize(acc, id)  BY <1>4, <2>2, <2>3
  <2>5. AccOK(w[i]) /\ w[i].id.text \notin acc.seen  BY <2>4, NormalizeStep
  <2>6. w[i].seen = acc.seen \cup {w[i].id.text}  BY <2>4, NormalizeStep
  <2> QED  BY <2>5, <2>6
<1> DEFINE f == [i \in 0..n |-> w[i].seen]
<1>7. \A i \in 1..n : f[i - 1] \subseteq f[i]
  <2> TAKE i \in 1..n
  <2>1. i - 1 \in 0..n /\ i \in 0..n  OBVIOUS
  <2> QED  BY <1>6, <2>1
<1>8. \A j, i \in 1..n : j < i => w[j].id.text # w[i].id.text
  <2> TAKE j, i \in 1..n
  <2> HAVE j < i
  <2>1. j \in 0..n /\ i - 1 \in 0..n /\ j <= i - 1  OBVIOUS
  <2>2. f[j] = w[j].seen /\ f[i - 1] = w[i - 1].seen  BY <2>1
  <2> HIDE DEF f, Bad
  <2>3. f[j] \subseteq f[i - 1]  BY <1>7, <2>1, Grows
  <2> QED  BY <1>6, <2>2, <2>3
<1> HIDE DEF f, Bad
<1>9. \A i \in 1..n : Normalized(raw)[i] \in Id  BY <1>3, <1>6 DEF AccOK
<1>10. \A i, j \in 1..n : i # j => i < j \/ j < i  OBVIOUS
<1>11. \A i, j \in 1..n : i # j => w[i].id # w[j].id  BY <1>8, <1>10
<1> QED  BY <1>3, <1>9, <1>11

-----------------------------------------------------------------------------
(* The ids of a request *)
EncOK(enc) ==
  /\ enc = [used |-> enc.used, generated |-> enc.generated, wire |-> enc.wire,
            lastOf |-> enc.lastOf]
  /\ enc.used \subseteq Int /\ IsFiniteSet(enc.used) /\ enc.generated \in Nat

LEMMA EncodeCall ==
  ASSUME NEW enc, EncOK(enc), NEW line \in WireLine, line.is = "call",
         NEW e, e = EncodeLine(enc, line)
  PROVE  /\ EncOK(e)
         /\ e.wire \notin enc.used /\ e.wire \in e.used /\ enc.used \subseteq e.used
         /\ DOMAIN e.lastOf = DOMAIN enc.lastOf \cup {line.id}
         /\ e.lastOf[line.id] = e.wire
         /\ \A x \in DOMAIN enc.lastOf : x # line.id => e.lastOf[x] = enc.lastOf[x]
<1> DEFINE fresh == Fresh(enc.used, line.id)
           free  == FirstFree(enc.used, enc.generated)
           wire  == IF fresh THEN line.id.text ELSE free
<1>1. line.id.text \in Int  BY DEF WireLine, Id
<1>2. free \in Nat /\ free \notin enc.used  BY FirstFreeIsFree DEF EncOK
<1>3. fresh => line.id.text \notin enc.used  BY DEF Fresh
<1>4. e = [used |-> enc.used \cup {wire},
           generated |-> IF fresh THEN enc.generated ELSE free, wire |-> wire,
           lastOf |-> [x \in DOMAIN enc.lastOf \cup {line.id} |->
                         IF x = line.id THEN wire ELSE enc.lastOf[x]]]
  BY DEF EncodeLine, NextWireId
<1> HIDE DEF fresh, free
<1>5. wire \in Int /\ wire \notin enc.used  BY <1>1, <1>2, <1>3
<1>6. (IF fresh THEN enc.generated ELSE free) \in Nat  BY <1>2 DEF EncOK
<1> HIDE DEF wire
<1>7. /\ e.used = enc.used \cup {wire} /\ e.wire = wire
      /\ e.generated = IF fresh THEN enc.generated ELSE free
      /\ e.lastOf = [x \in DOMAIN enc.lastOf \cup {line.id} |->
                       IF x = line.id THEN wire ELSE enc.lastOf[x]]
  BY <1>4
<1>8. IsFiniteSet(e.used)  BY <1>7, FS_AddElement DEF EncOK
<1>9. e = [used |-> e.used, generated |-> e.generated, wire |-> e.wire, lastOf |-> e.lastOf]
  BY <1>4, <1>7
<1>10. e.used \subseteq Int /\ e.generated \in Nat  BY <1>5, <1>6, <1>7 DEF EncOK
<1>11. EncOK(e)  BY <1>8, <1>9, <1>10 DEF EncOK
<1>12. /\ DOMAIN e.lastOf = DOMAIN enc.lastOf \cup {line.id}
       /\ e.lastOf[line.id] = e.wire
       /\ \A x \in DOMAIN enc.lastOf : x # line.id => e.lastOf[x] = enc.lastOf[x]
  BY <1>7
<1>13. e.wire \in e.used /\ enc.used \subseteq e.used /\ e.wire \notin enc.used  BY <1>5, <1>7
<1> QED  BY <1>11, <1>12, <1>13

LEMMA EncodeUses ==
  ASSUME NEW enc, EncOK(enc), NEW line \in WireLine, line.is = "call"
  PROVE  LET e == EncodeLine(enc, line)
         IN  e.wire \notin enc.used /\ e.wire \in e.used /\ enc.used \subseteq e.used
BY EncodeCall

LEMMA EncodeResult ==
  ASSUME NEW enc, EncOK(enc), NEW line, line.is # "call", NEW e, e = EncodeLine(enc, line)
  PROVE  /\ EncOK(e)
         /\ e.used = enc.used /\ e.lastOf = enc.lastOf /\ e.wire = enc.lastOf[line.id]
<1>1. e = [enc EXCEPT !.wire = enc.lastOf[line.id]]  BY DEF EncodeLine
<1>2. e = [used |-> enc.used, generated |-> enc.generated, wire |-> enc.lastOf[line.id],
           lastOf |-> enc.lastOf]
  BY <1>1 DEF EncOK
<1>3. /\ e.used = enc.used /\ e.lastOf = enc.lastOf /\ e.wire = enc.lastOf[line.id]
      /\ e.generated = enc.generated
  BY <1>2
<1>4. e = [used |-> e.used, generated |-> e.generated, wire |-> e.wire, lastOf |-> e.lastOf]
  BY <1>2, <1>3
<1> QED  BY <1>3, <1>4 DEF EncOK

NoneUsed == [used |-> {}, generated |-> 0, wire |-> 0, lastOf |-> <<>>]

LEMMA EncoderExists ==
  ASSUME NEW c, Len(c) \in Nat
  PROVE  Encoder(c) =
           [i \in 0..Len(c) |-> IF i = 0 THEN NoneUsed ELSE EncodeLine(Encoder(c)[i - 1], c[i])]
<1> DEFINE Upto(n) ==
             \E w : w = [i \in 0..n |-> IF i = 0 THEN NoneUsed ELSE EncodeLine(w[i - 1], c[i])]
           Bad == {n \in Nat : ~Upto(n)}
<1>1. Bad = {}
  <2> SUFFICES ASSUME Bad # {} PROVE FALSE  OBVIOUS
  <2>1. Bad \subseteq Nat  OBVIOUS
  <2> HIDE DEF Bad
  <2>2. PICK n \in Bad : \A m \in Bad : n <= m  BY <2>1, LeastNumber
  <2> USE DEF Bad
  <2>3. CASE n = 0
    <3> DEFINE w == [i \in 0..0 |-> NoneUsed]
    <3>1. w = [i \in 0..0 |-> IF i = 0 THEN NoneUsed ELSE EncodeLine(w[i - 1], c[i])]  OBVIOUS
    <3> HIDE DEF w
    <3> QED  BY <2>3, <3>1
  <2>4. CASE n # 0
    <3>1. n - 1 \in Nat /\ n \in Nat  BY <2>4
    <3>2. n - 1 \notin Bad
      <4> HIDE DEF Bad
      <4>1. ~(n <= n - 1)  BY <3>1
      <4> QED  BY <2>2, <4>1
    <3>3. Upto(n - 1)  BY <3>1, <3>2
    <3>4. PICK w : w = [i \in 0..n - 1 |-> IF i = 0 THEN NoneUsed ELSE EncodeLine(w[i - 1], c[i])]
      BY <3>3
    <3> DEFINE v == [i \in 0..n |-> IF i = n THEN EncodeLine(w[n - 1], c[n]) ELSE w[i]]
    <3>5. \A i \in 0..n : v[i] = IF i = 0 THEN NoneUsed ELSE EncodeLine(v[i - 1], c[i])
      <4> SUFFICES ASSUME NEW i \in 0..n
                   PROVE  v[i] = IF i = 0 THEN NoneUsed ELSE EncodeLine(v[i - 1], c[i])
        OBVIOUS
      <4>1. CASE i = n
        <5>1. i # 0 /\ i - 1 \in 0..n /\ i - 1 # n  BY <2>4, <3>1, <4>1
        <5>2. v[i] = EncodeLine(w[n - 1], c[n]) /\ v[i - 1] = w[n - 1]  BY <4>1, <5>1
        <5> QED  BY <4>1, <5>1, <5>2
      <4>2. CASE i # n
        <5>1. i \in 0..n - 1 /\ v[i] = w[i]  BY <3>1, <4>2
        <5>2. w[i] = IF i = 0 THEN NoneUsed ELSE EncodeLine(w[i - 1], c[i])  BY <3>4, <5>1
        <5>3. i # 0 => i - 1 \in 0..n /\ i - 1 # n /\ v[i - 1] = w[i - 1]  BY <3>1, <5>1
        <5> QED  BY <5>1, <5>2, <5>3
      <4> QED  BY <4>1, <4>2
    <3>6. v = [i \in 0..n |-> v[i]]  OBVIOUS
    <3> HIDE DEF v
    <3>7. v = [i \in 0..n |-> IF i = 0 THEN NoneUsed ELSE EncodeLine(v[i - 1], c[i])]  BY <3>5, <3>6
    <3>8. Upto(n)  BY <3>7
    <3> QED  BY <3>8
  <2> QED  BY <2>3, <2>4
<1>2. Upto(Len(c))  BY <1>1
<1> QED  BY <1>2 DEF Encoder, NoneUsed

(* What the encoder has after each line of a transcript.                     *)
LEMMA Encoding ==
  ASSUME NEW t \in Seq(WireLine), NEW w, w = Encoder(t)
  PROVE  /\ w[0] = NoneUsed /\ \A i \in 1..Len(t) : w[i] = EncodeLine(w[i - 1], t[i])
         /\ \A i \in 0..Len(t) : EncOK(w[i])
<1>1. Len(t) \in Nat /\ \A i \in 1..Len(t) : t[i] \in WireLine  BY LenProperties, ElementOfSeq
<1>2. w = [i \in 0..Len(t) |-> IF i = 0 THEN NoneUsed ELSE EncodeLine(w[i - 1], t[i])]
  BY <1>1, EncoderExists
<1>3. w[0] = NoneUsed /\ \A i \in 1..Len(t) : w[i] = EncodeLine(w[i - 1], t[i])  BY <1>1, <1>2
<1> DEFINE Bad == {i \in Nat : i \in 0..Len(t) /\ ~EncOK(w[i])}
<1>4. Bad = {}
  <2> SUFFICES ASSUME Bad # {} PROVE FALSE  OBVIOUS
  <2>1. Bad \subseteq Nat  OBVIOUS
  <2>2. PICK i \in Bad : \A k \in Bad : i <= k
    <3> HIDE DEF Bad
    <3> QED  BY <2>1, LeastNumber
  <2>3. EncOK(NoneUsed)  BY FS_EmptySet DEF EncOK, NoneUsed
  <2>4. i # 0 /\ i \in 0..Len(t) /\ i \in Nat  BY <1>3, <2>3
  <2>5. i - 1 \in Nat /\ i - 1 \in 0..Len(t) /\ ~(i <= i - 1) /\ i \in 1..Len(t)  BY <1>1, <2>4
  <2>6. EncOK(w[i - 1])  BY <2>2, <2>5
  <2>7. t[i] \in WireLine /\ w[i] = EncodeLine(w[i - 1], t[i])  BY <1>1, <1>3, <2>5
  <2>8. EncOK(w[i])
    <3>1. CASE t[i].is = "call"  BY <2>6, <2>7, <3>1, EncodeCall
    <3>2. CASE t[i].is # "call"  BY <2>6, <2>7, <3>2, EncodeResult
    <3> QED  BY <3>1, <3>2
  <2> QED  BY <2>8
<1>5. \A i \in 0..Len(t) : EncOK(w[i])  BY <1>1, <1>4
<1> QED  BY <1>3, <1>5

(* No two calls have the same id on the wire.                                *)
LEMMA CallsDiffer ==
  ASSUME NEW t \in Seq(WireLine), NEW w, w = Encoder(t), NEW j \in 1..Len(t), NEW i \in 1..Len(t),
         j < i, t[j].is = "call", t[i].is = "call"
  PROVE  w[j].wire # w[i].wire
<1>1. Len(t) \in Nat /\ \A k \in 1..Len(t) : t[k] \in WireLine  BY LenProperties, ElementOfSeq
<1>2. \A k \in 1..Len(t) :
        /\ w[k - 1].used \subseteq w[k].used
        /\ t[k].is = "call" => w[k].wire \notin w[k - 1].used /\ w[k].wire \in w[k].used
  <2> TAKE k \in 1..Len(t)
  <2>1. k - 1 \in 0..Len(t)  BY <1>1
  <2>2. EncOK(w[k - 1]) /\ w[k] = EncodeLine(w[k - 1], t[k]) /\ t[k] \in WireLine
    BY <1>1, <2>1, Encoding
  <2>3. CASE t[k].is = "call"  BY <2>2, <2>3, EncodeUses
  <2>4. CASE t[k].is # "call"
    <3>1. w[k].used = w[k - 1].used  BY <2>2, <2>4, EncodeResult
    <3> QED  BY <2>4, <3>1
  <2> QED  BY <2>3, <2>4
<1> DEFINE f == [k \in 0..Len(t) |-> w[k].used]
<1>3. \A k \in 1..Len(t) : f[k - 1] \subseteq f[k]
  <2> TAKE k \in 1..Len(t)
  <2>1. k - 1 \in 0..Len(t) /\ k \in 0..Len(t)  BY <1>1
  <2> QED  BY <1>2, <2>1
<1>4. j \in 0..Len(t) /\ i - 1 \in 0..Len(t) /\ j <= i - 1  BY <1>1
<1>5. f[j] = w[j].used /\ f[i - 1] = w[i - 1].used  BY <1>4
<1> HIDE DEF f
<1>6. f[j] \subseteq f[i - 1]  BY <1>1, <1>3, <1>4, Grows
<1> QED  BY <1>2, <1>5, <1>6

(* The encoder keeps what a call got until a later call has the same id.     *)
LEMMA LastOfStays ==
  ASSUME NEW t \in Seq(WireLine), NEW w, w = Encoder(t), NEW c \in 1..Len(t), NEW r \in c..Len(t),
         t[c].is = "call", \A k \in c + 1 .. r : t[k].is = "call" => t[k].id # t[c].id
  PROVE  w[r].lastOf[t[c].id] = w[c].wire
<1>1. Len(t) \in Nat /\ \A k \in 1..Len(t) : t[k] \in WireLine  BY LenProperties, ElementOfSeq
<1>2. \A k \in 1..Len(t) : k - 1 \in 0..Len(t)  BY <1>1
<1>3. \A k \in 1..Len(t) : EncOK(w[k - 1]) /\ w[k] = EncodeLine(w[k - 1], t[k]) /\ t[k] \in WireLine
  BY <1>1, <1>2, Encoding
<1> DEFINE Stays(k) == t[c].id \in DOMAIN w[k].lastOf /\ w[k].lastOf[t[c].id] = w[c].wire
           Bad == {k \in Nat : k \in c..r /\ ~Stays(k)}
<1>4. Bad = {}
  <2> SUFFICES ASSUME Bad # {} PROVE FALSE  OBVIOUS
  <2>1. Bad \subseteq Nat  OBVIOUS
  <2> HIDE DEF Bad
  <2>2. PICK k \in Bad : \A m \in Bad : k <= m  BY <2>1, LeastNumber
  <2> USE DEF Bad
  <2>3. k \in Nat /\ k \in c..r /\ ~Stays(k)  BY <2>2
  <2>4. k \in 1..Len(t)  BY <1>1, <2>3
  <2>5. CASE k = c
    <3>1. t[c].id \in DOMAIN w[c].lastOf /\ w[c].lastOf[t[c].id] = w[c].wire
      BY <1>3, EncodeCall
    <3> QED  BY <2>3, <2>5, <3>1
  <2>6. CASE k # c
    <3>1. k - 1 \in Nat /\ k - 1 \in c..r /\ ~(k <= k - 1) /\ k \in c + 1 .. r  BY <1>1, <2>3, <2>6
    <3>2. k - 1 \notin Bad  BY <2>2, <3>1
    <3>3. Stays(k - 1)  BY <3>1, <3>2
    <3> HIDE DEF Bad
    <3>4. CASE t[k].is = "call"
      <4>1. t[k].id # t[c].id  BY <3>1, <3>4
      <4>2. /\ DOMAIN w[k].lastOf = DOMAIN w[k - 1].lastOf \cup {t[k].id}
            /\ \A x \in DOMAIN w[k - 1].lastOf :
                  x # t[k].id => w[k].lastOf[x] = w[k - 1].lastOf[x]
        BY <1>3, <2>4, <3>4, EncodeCall
      <4> QED  BY <2>3, <3>3, <4>1, <4>2
    <3>5. CASE t[k].is # "call"
      <4>1. w[k].lastOf = w[k - 1].lastOf  BY <1>3, <2>4, <3>5, EncodeResult
      <4> QED  BY <2>3, <3>3, <4>1
    <3> QED  BY <3>4, <3>5
  <2> QED  BY <2>5, <2>6
<1>5. r \in Nat /\ r \in c..r  BY <1>1
<1> QED  BY <1>4, <1>5

-----------------------------------------------------------------------------
(* A result answers an earlier call with its id, and no call between them    *)
(* has that id: the calls that wait for results all have different ones.     *)
Answers(t, r) ==
  /\ t[r].of \in 1 .. r - 1 /\ t[t[r].of].is = "call" /\ t[t[r].of].id = t[r].id
  /\ \A k \in t[r].of + 1 .. r - 1 : t[k].is = "call" => t[k].id # t[r].id

WireInv ==
  /\ replies \in Seq(WireLine) /\ answering \in Nat \ {0} /\ lastCall \in Nat
  /\ lastCall <= Len(replies) /\ answering <= lastCall + 1
  /\ \A k \in answering .. lastCall : replies[k].is = "call"
  /\ \A k \in lastCall + 1 .. Len(replies) : replies[k].is = "result"
  /\ \A j, k \in answering .. lastCall : j # k => replies[j].id # replies[k].id
  /\ \A r \in 1 .. Len(replies) : replies[r].is = "result" => Answers(replies, r)

LEMMA WireInvIsSound ==
  ASSUME WireInv PROVE WireIsSound
<1> PICK w : w = Encoder(replies)  OBVIOUS
<1> DEFINE wire == [i \in DOMAIN replies |-> w[i].wire]
<1>1. Len(replies) \in Nat /\ DOMAIN replies = 1..Len(replies)
  BY LenProperties DEF WireInv
<1>2. \A i \in DOMAIN replies : wire[i] = w[i].wire  OBVIOUS
<1> HIDE DEF wire
<1>3. ASSUME NEW i \in DOMAIN replies, replies[i].is = "call",
             NEW j \in DOMAIN replies, replies[j].is = "call", i # j
      PROVE  wire[i] # wire[j]
  <2>1. i < j \/ j < i  BY <1>1, <1>3
  <2>2. w[i].wire # w[j].wire  BY <1>1, <1>3, <2>1, CallsDiffer DEF WireInv
  <2> QED  BY <1>2, <1>3, <2>2
<1>4. ASSUME NEW i \in DOMAIN replies, replies[i].is # "call"
      PROVE  wire[i] = wire[replies[i].of]
  <2>1. replies[i] \in WireLine  BY <1>1, <1>4, ElementOfSeq DEF WireInv
  <2>2. replies[i].is = "result"  BY <1>4, <2>1 DEF WireLine
  <2> DEFINE c == replies[i].of
  <2>3. Answers(replies, i)  BY <1>1, <2>2 DEF WireInv
  <2>4. /\ c \in 1 .. i - 1 /\ replies[c].is = "call" /\ replies[c].id = replies[i].id
        /\ \A k \in c + 1 .. i - 1 : replies[k].is = "call" => replies[k].id # replies[i].id
    BY <2>3 DEF Answers
  <2> HIDE DEF c
  <2>5. c \in DOMAIN replies /\ i - 1 \in c..Len(replies) /\ i - 1 \in 0..Len(replies)
    <3> PICK l : l = Len(replies)  OBVIOUS
    <3>1. l \in Nat /\ i \in 1..l /\ DOMAIN replies = 1..l  BY <1>1
    <3> QED  BY <2>4, <3>1
  <2>6. w[i - 1].lastOf[replies[c].id] = w[c].wire  BY <1>1, <2>4, <2>5, LastOfStays DEF WireInv
  <2>7. EncOK(w[i - 1]) /\ w[i] = EncodeLine(w[i - 1], replies[i])
    BY <1>1, <2>5, Encoding DEF WireInv
  <2>8. w[i].wire = w[i - 1].lastOf[replies[i].id]  BY <1>4, <2>7, EncodeResult
  <2>9. wire[i] = wire[c]  BY <1>2, <2>4, <2>5, <2>6, <2>8
  <2> QED  BY <2>9 DEF c
<1> QED  BY <1>3, <1>4 DEF WireIsSound, wire

LEMMA WireSteps ==
  ASSUME WireInv, WireNext
  PROVE  WireInv'
<1> DEFINE n == Len(replies)
<1>1. n \in Nat /\ replies \in Seq(WireLine) /\ answering \in Nat \ {0} /\ lastCall \in Nat
  BY LenProperties DEF WireInv
<1>2. \A k \in 1..n : replies[k] \in WireLine  BY <1>1, ElementOfSeq
<1>3. CASE AddReply
  <2>1. PICK m \in 1..MaxInReply : \E raw \in [1..m -> CallId] :
          /\ replies' = replies \o [i \in 1..m |-> CallLine(Normalized(raw)[i])]
          /\ lastCall' = n + m
    BY <1>3 DEF AddReply
  <2>2. PICK raw \in [1..m -> CallId] :
          /\ replies' = replies \o [i \in 1..m |-> CallLine(Normalized(raw)[i])]
          /\ lastCall' = n + m
    BY <2>1
  <2> DEFINE ids == Normalized(raw)
             calls == [i \in 1..m |-> CallLine(ids[i])]
  <2>3. m \in Nat /\ m >= 1  BY WireAssumption
  <2>4. raw \in [1..m -> Id]  BY WireAssumption DEF Id
  <2>5. /\ \A i \in 1..m : ids[i] \in Id
        /\ \A i, j \in 1..m : i # j => ids[i] # ids[j]
    BY <2>3, <2>4, NormalizedDiffer
  <2>6. replies' = replies \o calls  BY <2>2
  <2> HIDE DEF ids
  <2>7. \A i \in 1..m : calls[i] \in WireLine /\ calls[i].is = "call" /\ calls[i].id = ids[i]
    BY <2>5 DEF CallLine, WireLine
  <2>8. calls \in [1..m -> WireLine]  BY <2>7
  <2> HIDE DEF calls
  <2>9. calls \in Seq(WireLine) /\ Len(calls) = m  BY <2>3, <2>8, SeqDef, LenProperties
  <2> HIDE DEF n
  <2>10. /\ replies' \in Seq(WireLine) /\ Len(replies') = n + m
         /\ \A k \in 1..n : replies'[k] = replies[k]
         /\ \A k \in n + 1 .. n + m : k - n \in 1..m /\ replies'[k] = calls[k - n]
    BY <1>1, <2>3, <2>6, <2>9, ConcatProperties DEF n
  <2>11. answering' = n + 1 /\ lastCall' = n + m /\ answering > lastCall
    BY <1>3, <2>2 DEF AddReply, AllAnswered, n
  <2>12. \A k \in n + 1 .. n + m : replies'[k].is = "call"  BY <2>7, <2>10
  <2>13. \A j, k \in n + 1 .. n + m : j # k => replies'[j].id # replies'[k].id
    <3> TAKE j, k \in n + 1 .. n + m
    <3> HAVE j # k
    <3>1. j - n \in 1..m /\ k - n \in 1..m /\ j - n # k - n  BY <1>1, <2>3
    <3> QED  BY <2>5, <2>7, <2>10, <3>1
  <2>14. ASSUME NEW r \in 1..n + m, replies'[r].is = "result"
         PROVE  Answers(replies, r)'
    <3>1. r \in 1..n  BY <1>1, <2>3, <2>12, <2>14
    <3>2. replies[r].is = "result"  BY <2>10, <2>14, <3>1
    <3>3. Answers(replies, r)  BY <3>1, <3>2 DEF WireInv, n
    <3>4. \A k \in 1..r : replies'[k] = replies[k]  BY <1>1, <2>10, <3>1
    <3>5. r \in Nat \ {0}  BY <1>1, <3>1
    <3>6. r \in 1..r /\ \A k \in 1..r - 1 : k \in 1..r  BY <3>5
    <3>7. \A f \in 1..r - 1 : f \in Nat /\ \A k \in f + 1..r - 1 : k \in 1..r - 1  BY <3>5
    <3> QED  BY <3>3, <3>4, <3>6, <3>7 DEF Answers
  <2>15. n + m \in Nat /\ n + 1 \in Nat \ {0} /\ n + 1 <= n + m + 1 /\ n + m + 1 > n + m
    BY <1>1, <2>3
  <2>16. \A k \in n + m + 1 .. n + m : FALSE  BY <2>15
  <2> QED  BY <2>10, <2>11, <2>12, <2>13, <2>14, <2>15, <2>16 DEF WireInv
<1>4. CASE AddResult
  <2> PICK line : line = ResultLine(replies[answering].id, answering)  OBVIOUS
  <2> HIDE DEF n
  <2>1. /\ answering <= lastCall /\ replies' = Append(replies, line)
        /\ answering' = answering + 1 /\ lastCall' = lastCall /\ lastCall <= n
    BY <1>1, <1>4 DEF AddResult, AllAnswered, WireInv, n
  <2>2. answering \in 1..n  BY <1>1, <2>1
  <2>3. replies[answering].id \in Id  BY <1>2, <2>2 DEF WireLine
  <2>4. /\ line \in WireLine /\ line.is = "result" /\ line.of = answering
        /\ line.id = replies[answering].id
    BY <1>1, <2>3 DEF ResultLine, WireLine
  <2>5. /\ replies' \in Seq(WireLine) /\ Len(replies') = n + 1
        /\ \A k \in 1..n : replies'[k] = replies[k]
        /\ replies'[n + 1] = line
    BY <1>1, <2>1, <2>4, AppendProperties DEF n
  <2>6. \A k \in answering .. lastCall : k \in 1..n  BY <1>1, <2>1
  <2>7. \A k \in answering + 1 .. lastCall : k \in answering .. lastCall  BY <1>1
  <2>8. \A k \in answering + 1 .. lastCall : replies'[k].is = "call"
    BY <2>5, <2>6, <2>7 DEF WireInv
  <2>9. \A j, k \in answering + 1 .. lastCall : j # k => replies'[j].id # replies'[k].id
    BY <2>5, <2>6, <2>7 DEF WireInv
  <2>10. \A k \in lastCall + 1 .. n + 1 : replies'[k].is = "result"
    <3> TAKE k \in lastCall + 1 .. n + 1
    <3>1. CASE k = n + 1  BY <2>4, <2>5, <3>1
    <3>2. CASE k # n + 1
      <4>1. k \in lastCall + 1 .. n /\ k \in 1..n  BY <1>1, <3>2
      <4> QED  BY <2>5, <4>1 DEF WireInv, n
    <3> QED  BY <3>1, <3>2
  <2>11. ASSUME NEW r \in 1..n + 1, replies'[r].is = "result"
         PROVE  Answers(replies, r)'
    <3>1. CASE r = n + 1
      <4>1. replies'[r] = line /\ answering \in 1 .. r - 1  BY <1>1, <2>2, <2>5, <3>1
      <4>2. replies'[answering] = replies[answering] /\ replies[answering].is = "call"
        <5>1. answering \in answering .. lastCall  BY <1>1, <2>1
        <5> QED  BY <2>2, <2>5, <5>1 DEF WireInv
      <4>3. ASSUME NEW k \in answering + 1 .. r - 1, replies'[k].is = "call"
            PROVE  replies'[k].id # line.id
        <5>1. k \in 1..n /\ k # answering  BY <1>1, <2>2, <3>1
        <5>2. ~(k \in lastCall + 1 .. n)  BY <2>5, <4>3, <5>1 DEF WireInv, n
        <5>3. k \in answering .. lastCall /\ answering \in answering .. lastCall
          BY <1>1, <2>1, <5>1, <5>2
        <5>4. replies[k].id # replies[answering].id  BY <5>1, <5>3 DEF WireInv
        <5> QED  BY <2>4, <2>5, <5>1, <5>4
      <4> QED  BY <2>4, <4>1, <4>2, <4>3 DEF Answers
    <3>2. CASE r # n + 1
      <4>1. r \in 1..n  BY <1>1, <3>2
      <4>2. replies[r].is = "result"  BY <2>5, <2>11, <4>1
      <4>3. Answers(replies, r)  BY <4>1, <4>2 DEF WireInv, n
      <4>4. \A k \in 1..r : replies'[k] = replies[k]  BY <1>1, <2>5, <4>1
      <4> DEFINE c == replies[r].of
      <4>5. /\ c \in 1 .. r - 1 /\ replies[c].is = "call" /\ replies[c].id = replies[r].id
            /\ \A k \in c + 1 .. r - 1 : replies[k].is = "call" => replies[k].id # replies[r].id
        BY <4>3 DEF Answers
      <4>6. replies'[r] = replies[r] /\ replies'[c] = replies[c]  BY <4>1, <4>4, <4>5
      <4>7. \A k \in c + 1 .. r - 1 : replies'[k] = replies[k]  BY <4>1, <4>4, <4>5
      <4> HIDE DEF c
      <4>8. \A k \in c + 1 .. r - 1 : replies'[k].is = "call" => replies'[k].id # replies'[r].id
        BY <4>5, <4>6, <4>7
      <4>9. replies'[r].of = c  BY <4>6 DEF c
      <4> QED  BY <4>5, <4>6, <4>8, <4>9 DEF Answers
    <3> QED  BY <3>1, <3>2
  <2>12. answering + 1 \in Nat \ {0} /\ answering + 1 <= lastCall + 1 /\ lastCall <= n + 1
    BY <1>1, <2>1
  <2>13. \A r \in 1..n + 1 : replies'[r].is = "result" => Answers(replies, r)'  BY <2>11
  <2>14. /\ answering' \in Nat \ {0} /\ lastCall' \in Nat /\ lastCall' <= Len(replies')
         /\ answering' <= lastCall' + 1
    BY <1>1, <2>1, <2>5, <2>12
  <2>15. /\ \A k \in answering' .. lastCall' : replies'[k].is = "call"
         /\ \A j, k \in answering' .. lastCall' : j # k => replies'[j].id # replies'[k].id
    BY <2>1, <2>8, <2>9
  <2>16. \A k \in lastCall' + 1 .. Len(replies') : replies'[k].is = "result"
    BY <2>1, <2>5, <2>10
  <2>17. \A r \in 1..Len(replies') : replies'[r].is = "result" => Answers(replies, r)'
    BY <2>5, <2>13
  <2> QED  BY <2>5, <2>14, <2>15, <2>16, <2>17 DEF WireInv
<1> QED  BY <1>3, <1>4 DEF WireNext

(* Whatever ids a model gives its calls, and however long the conversation   *)
(* gets, every request names each call by an id of its own and leads every   *)
(* result to the call it answers.                                            *)
THEOREM WireIdsAreSound == WireSpec => []WireIsSound
<1>1. WireInit => WireInv
  BY EmptySeq DEF WireInit, WireInv
<1>2. WireInv /\ [WireNext]_wireVars => WireInv'
  <2>1. WireInv /\ UNCHANGED wireVars => WireInv'
    BY DEF WireInv, Answers, wireVars
  <2> QED  BY <2>1, WireSteps
<1>3. WireInv => WireIsSound  BY WireInvIsSound
<1> QED  BY <1>1, <1>2, <1>3, PTL DEF WireSpec

-----------------------------------------------------------------------------
(* The composition: a step of a part is a step of its component, and every *)
(* other component stutters.                                               *)
LEMMA SafetyPartsStep ==
  [MCNext]_mcVars =>
    /\ [WriterNext]_writerVars /\ [TurnsNext]_turnsVars /\ [ReloadNext]_reloadVars
    /\ [PoolNext]_poolVars /\ [MdnsNext]_mdnsVars /\ [ReplNext]_replVars /\ [TuiNext]_tuiVars
<1> SUFFICES ASSUME [MCNext]_mcVars
             PROVE  /\ [WriterNext]_writerVars /\ [TurnsNext]_turnsVars /\ [ReloadNext]_reloadVars
                    /\ [PoolNext]_poolVars /\ [MdnsNext]_mdnsVars /\ [ReplNext]_replVars
                    /\ [TuiNext]_tuiVars
  OBVIOUS
<1>1. CASE UNCHANGED mcVars BY <1>1 DEF mcVars
<1>2. CASE MCNext BY <1>2 DEF MCNext, Only
<1> QED BY <1>1, <1>2

(* The writer loses no line: file, chain and buffer together are the       *)
(* transcript until a batch fails with another operation behind it, a line *)
(* is on disk or on its way even then, both until a fault takes lines with *)
(* it (a failed stat, rollback or rewrite); and a buffered line has its    *)
(* timer until an operation fails: for any number of lines, flushes,       *)
(* rewrites and faults (session/durable-writer.ts).                        *)
THEOREM BufferedLinesAreKept == MCSpec => []NothingBufferedIsLost
<1>1. MCInit => WriterInv BY WriterStarts DEF MCInit
<1>2. WriterInv /\ [MCNext]_mcVars => WriterInv' BY SafetyPartsStep, WriterSteps
<1>3. WriterInv => NothingBufferedIsLost
  BY CarriedIsKept DEF WriterInv, NothingBufferedIsLost
<1> QED BY <1>1, <1>2, <1>3, PTL DEF MCSpec

(* No race of turns, compactions and settlements drops an entry or a       *)
(* notice, but for those appended while a summary is written, and no reload*)
(* of a session at rest loses a line (agent.ts, agent/compact.ts,          *)
(* session/persisted-session.ts), for any number of each.                  *)
THEOREM WhatIsSaidIsKept == MCSpec => []NothingSaidIsLost
<1> DEFINE Inv == TurnsInv /\ ReloadInv
<1>1. MCInit => Inv BY TurnsStart, ReloadStarts DEF MCInit
<1>2. Inv /\ [MCNext]_mcVars => Inv' BY SafetyPartsStep, TurnsSteps, ReloadSteps
<1>3. Inv => NothingSaidIsLost BY NothingIsDropped, ReloadIsWhole DEF NothingSaidIsLost
<1> QED BY <1>1, <1>2, <1>3, PTL DEF MCSpec

(* The rail hears what the network says, and the pool ends as the sources  *)
(* of the rail say (peer/peer-rail.ts, peer/peer-pool.ts, mdns), for any   *)
(* peers, browsers and number of announcements.                            *)
THEOREM PeersAreAsAnnounced == MCSpec => []PeersAsAnnounced
<1> DEFINE Inv == PoolInv /\ ToldInv
<1>1. MCInit => Inv BY PoolStarts, LanStarts DEF MCInit
<1>2. Inv /\ [MCNext]_mcVars => Inv' BY SafetyPartsStep, PoolSteps, LanSteps
<1>3. Inv => PeersAsAnnounced BY PoolConverges DEF ToldInv, PeersAsAnnounced
<1> QED BY <1>1, <1>2, <1>3, PTL DEF MCSpec

(* What a human types is used in the order it was typed, and once, as      *)
(* answers on stdin and as prompts of the terminal host, for any number of *)
(* lines and questions.                                                    *)
THEOREM TypingKeepsItsOrder == MCSpec => []TypedInOrder
<1> DEFINE Inv == ReplInv /\ QueueInv
<1>1. MCInit => Inv BY ReplStarts, QueueStarts DEF MCInit
<1>2. Inv /\ [MCNext]_mcVars => Inv' BY SafetyPartsStep, ReplSteps, QueueSteps
<1>3. Inv => TypedInOrder BY AnswersAreInOrder, QueueIsInOrder DEF TypedInOrder
<1> QED BY <1>1, <1>2, <1>3, PTL DEF MCSpec

=============================================================================
