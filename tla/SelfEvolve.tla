---------------------------- MODULE SelfEvolve -----------------------------
(***************************************************************************)
(* The self-evolution of the verifier's ruleset: cli/run/self-evolve.ts    *)
(* and runOneCycleInner() of scoreboard/self-evolve.ts over the scoreboard *)
(* file of scoreboard/storage.ts, with crashes between any two steps.      *)
(*                                                                         *)
(* A ruleset is named by the pass rate the frozen benchmark gives it.      *)
(***************************************************************************)
EXTENDS Integers, Sequences

CONSTANTS
    Evolver,  \* runs of the command
    Ruleset,  \* rulesets, a set of integers
    Default,  \* DEFAULT_RULES
    Missing,  \* a ruleset file that is not there
    TornFile, \* a ruleset file that was not written to its end
    Solo,     \* TRUE: a run begins when no other is under way
    MaxCycles \* bound: runOneCycle() calls of a run, 1 in the command

ASSUME EvolveAssumption == Ruleset \subseteq Int /\ Default \in Ruleset /\ Missing \notin Ruleset /\ TornFile \notin Ruleset

VARIABLES
    live,       \* the ruleset file
    scoreboard, \* the scoreboard file: a sequence of entries
    tmp,        \* its temporary file, <<>> for none
    at,         \* run |-> its step
    rules,      \* run |-> currentRules, loaded once
    version,    \* run |-> the version of its cycle
    trial,      \* run |-> hypothesis.ruleChanges, or "none"
    commits,    \* run |-> not in shadow mode
    copy,       \* run |-> the board appendEntry() has read
    cycles,     \* run |-> cycles begun
    best,       \* ghost: the best ruleset that was ever in force
    torn        \* ghost: a write of the ruleset file was cut short

runVars == <<rules, version, trial, commits, copy, cycles>>
evolveVars == <<live, scoreboard, tmp, at, runVars, best, torn>>

EvolveInit ==
    /\ live = Missing /\ scoreboard = <<>> /\ tmp = <<>> /\ best = Default /\ torn = FALSE
    /\ at = [e \in Evolver |-> "new"] /\ rules = [e \in Evolver |-> Default]
    /\ version = [e \in Evolver |-> 0] /\ trial = [e \in Evolver |-> Default]
    /\ commits \in [Evolver -> BOOLEAN]
    /\ copy = [e \in Evolver |-> <<>>] /\ cycles = [e \in Evolver |-> 0]

---------------------------------------------------------------------------
Goes(e, from, to) == at[e] = from /\ at' = [at EXCEPT ![e] = to]

(* Mutant: a run starts from the default rules whatever has been committed *)
Loads_AlwaysDefault(e) ==
    /\ Goes(e, "new", "idle") /\ (Solo => \A f \in Evolver : at[f] \in {"new", "ended"})
    /\ rules' = [rules EXCEPT ![e] = Default]
    /\ UNCHANGED <<live, scoreboard, tmp, version, trial, commits, copy, cycles, best, torn>>

(* loadRulesetFromFile(): a file that does not parse is no ruleset *)
Loads(e) ==
    /\ Goes(e, "new", "idle") /\ (Solo => \A f \in Evolver : at[f] \in {"new", "ended"})
    /\ rules' = [rules EXCEPT ![e] = IF live \in Ruleset THEN live ELSE Default]
    /\ UNCHANGED <<live, scoreboard, tmp, version, trial, commits, copy, cycles, best, torn>>

(* nextVersion(), and the snapshot that is named for it *)
TakesVersion(e) ==
    /\ Goes(e, "idle", "proposing") /\ cycles[e] < MaxCycles
    /\ version' = [version EXCEPT ![e] = 1 + (IF scoreboard = <<>> THEN 0
                        ELSE CHOOSE v \in {scoreboard[i].version : i \in DOMAIN scoreboard} :
                                \A i \in DOMAIN scoreboard : scoreboard[i].version <= v)]
    /\ cycles' = [cycles EXCEPT ![e] = @ + 1]
    /\ UNCHANGED <<live, scoreboard, tmp, rules, trial, commits, copy, best, torn>>

(* the hypothesis: another ruleset, or none; then the entry of a cycle     *)
(* that proposes nothing is recorded at once                               *)
Proposes(e) ==
    /\ \/ \E r \in Ruleset : trial' = [trial EXCEPT ![e] = r] /\ Goes(e, "proposing", "evaluating")
       \/ trial' = [trial EXCEPT ![e] = rules[e]] /\ Goes(e, "proposing", "reading")
    /\ UNCHANGED <<live, scoreboard, tmp, rules, version, commits, copy, cycles, best, torn>>

(* the model or the benchmark throws: the cycle leaves no entry *)
CycleThrows(e) ==
    /\ at[e] \in {"proposing", "evaluating"} /\ at' = [at EXCEPT ![e] = "ended"]
    /\ UNCHANGED <<live, scoreboard, tmp, runVars, best, torn>>

Kept(e) == trial[e] > rules[e]

(* before and after are benchmarked; what is kept is committed with a      *)
(* plain writeFile(), unless in shadow mode                                *)
Evaluates(e) ==
    /\ Goes(e, "evaluating", IF Kept(e) /\ commits[e] THEN "writing" ELSE "reading")
    /\ live' = IF Kept(e) /\ commits[e] THEN TornFile ELSE live
    /\ UNCHANGED <<scoreboard, tmp, runVars, best, torn>>

Committed(e) ==
    /\ Goes(e, "writing", "reading") /\ live' = trial[e]
    /\ best' = IF trial[e] > best THEN trial[e] ELSE best
    /\ UNCHANGED <<scoreboard, tmp, runVars, torn>>

(* appendEntry(): read, write the temporary file, rename it *)
ReadsBoard(e) ==
    /\ Goes(e, "reading", "appending") /\ copy' = [copy EXCEPT ![e] = scoreboard]
    /\ UNCHANGED <<live, scoreboard, tmp, rules, version, trial, commits, cycles, best, torn>>

WritesTmp(e) ==
    /\ Goes(e, "appending", "renaming")
    /\ tmp' = Append(copy[e], [version |-> version[e], by |-> e, kept |-> Kept(e)])
    /\ UNCHANGED <<live, scoreboard, runVars, best, torn>>

Renames(e) ==
    /\ Goes(e, "renaming", IF tmp = <<>> THEN "ended" ELSE "idle")
    /\ scoreboard' = (IF tmp = <<>> THEN scoreboard ELSE tmp) /\ tmp' = <<>>
    /\ UNCHANGED <<live, runVars, best, torn>>

EndsRun(e) == Goes(e, "idle", "ended") /\ UNCHANGED <<live, scoreboard, tmp, runVars, best, torn>>

(* The process dies, or a step fails, so that the cycle throws and ends the*)
(* command: a write that fails may leave its file torn like a crash.       *)
EvolverCrashes(e) ==
    /\ at[e] \notin {"new", "ended"} /\ at' = [at EXCEPT ![e] = "ended"]
    /\ torn' = (torn \/ at[e] = "writing")
    /\ UNCHANGED <<live, scoreboard, tmp, runVars, best>>

EvolveNext == \E e \in Evolver :
    \/ Loads(e) \/ TakesVersion(e) \/ Proposes(e) \/ CycleThrows(e) \/ Evaluates(e) \/ Committed(e)
    \/ ReadsBoard(e) \/ WritesTmp(e) \/ Renames(e) \/ EndsRun(e) \/ EvolverCrashes(e)

EvolveSpec == EvolveInit /\ [][EvolveNext]_evolveVars

---------------------------------------------------------------------------
(* Evolution only improves: whatever runs crashed at whatever step, the    *)
(* ruleset in force is the best that any run ever committed, unless a write*)
(* of it was cut short, and no two entries of the scoreboard share a       *)
(* version.                                                                *)
NeverWorse ==
    /\ live \in Ruleset /\ ~torn => live = best
    /\ \A i, j \in DOMAIN scoreboard : i < j => scoreboard[i].version < scoreboard[j].version
=============================================================================
