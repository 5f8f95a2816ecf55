----------------------------- MODULE CommandRun -----------------------------
(***************************************************************************)
(* One shell command and how it is ended: the callers that spawn it        *)
(* (tools/builtin/bash.ts, exec-world/local.ts, jobs/process-provider.ts,  *)
(* sandbox/backends/spawn-capture.ts) and the kill ladder of               *)
(* envoy-process (reap.ts, terminate.ts).  The shell "sh" leads a process  *)
(* group; it may start "bg" in the background of its group and "esc",      *)
(* which leaves the group but holds the output pipes, as bg may.  Once the  *)
(* group is empty its pid may be given to a stranger.                      *)
(*                                                                         *)
(* POSIX only.  Of SIGTERM some die at once and some do not: they ignore   *)
(* it, or take longer.  An exit is noticed when it happens; "close" waits. *)
(***************************************************************************)
EXTENDS Naturals, FiniteSets

VARIABLES
    way,     \* the caller: "bash", "world", "capture", "job"
    marks,   \* /proc shows the start time of a process (Linux)
    born,    \* processes of the command that have started
    alive,   \* those that live
    holds,   \* those that inherited the pipes
    pid,     \* whose the pid of the shell is: "sh", "nobody" or "stranger"
    torn,    \* our ends of the pipes were destroyed
    hasClosed,  \* the event "close" of the child
    ended, \* how the caller's promise ended: "no", "close", "forced", "abort"
    timer,   \* "armed", "fired" or "off"
    abort,   \* the signal of the caller: "armed", "fired" or "off"
    ladder,  \* the calls of reapChild(): trigger |-> "none", "grace", "settle" or "done"
    led,     \* ghost: ladders that found the shell alive
    struck      \* ghost: the signals that struck a stranger

sys_vars == <<born, alive, holds, pid>>
commandVars == <<way, marks, sys_vars, torn, hasClosed, ended, timer, abort, ladder, led, struck>>

Group == {"sh", "bg"}
Trigger == {"timer", "abort"}
Members == alive \cap Group

CommandInit ==
    /\ way \in {"bash", "world", "capture", "job"} /\ marks \in BOOLEAN
    /\ born = {"sh"} /\ alive = {"sh"} /\ holds = {"sh"}
    /\ pid = "sh" /\ torn = FALSE /\ hasClosed = FALSE /\ ended = "no"
    /\ timer = (IF way = "job" THEN "off" ELSE "armed") /\ abort = "armed"
    /\ ladder = [t \in Trigger |-> "none"] /\ led = {} /\ struck = {}

---------------------------------------------------------------------------
(* what the processes do *)
Forks(p) ==
    /\ "sh" \in alive /\ p \notin born
    /\ born' = born \cup {p} /\ alive' = alive \cup {p}
    /\ \E h \in {{}, {p}} : holds' = holds \cup h /\ (p = "esc" => h = {p})
    /\ UNCHANGED <<way, marks, pid, torn, hasClosed, ended, timer, abort, ladder, led, struck>>

(* the kernel keeps a pid while it names a group that has members *)
Die(gone) ==
    /\ alive' = alive \ gone
    /\ pid' = IF alive' \cap Group = {} /\ pid = "sh" THEN "nobody" ELSE pid

ProcessExits(p) ==
    /\ p \in alive /\ Die({p})
    /\ UNCHANGED <<way, marks, born, holds, torn, hasClosed, ended, timer, abort, ladder, led, struck>>

Recycled ==
    /\ pid = "nobody" /\ pid' = "stranger"
    /\ UNCHANGED <<way, marks, born, alive, holds, torn, hasClosed, ended, timer, abort, ladder, led, struck>>

(* the streams have ended: nobody can write to them, or we destroyed them *)
PipesEnded == torn \/ alive \cap holds = {}

(* a caller's promise ends once: with its timer and its listener it drops *)
(* what could still start a ladder                                        *)
EndRun(how) ==
    IF ended # "no" THEN UNCHANGED <<ended, timer, abort>>
    ELSE /\ ended' = how
         /\ timer' = (IF timer = "armed" THEN "off" ELSE timer)
         /\ abort' = (IF abort = "armed" THEN "off" ELSE abort)

CloseEvent ==
    /\ ~hasClosed /\ "sh" \notin alive /\ PipesEnded /\ hasClosed' = TRUE
    /\ EndRun("close")
    /\ UNCHANGED <<way, marks, sys_vars, torn, ladder, led, struck>>

---------------------------------------------------------------------------
(* terminateProcessTree() and reapChild() *)

(* identityMatches(): without start marks any pid matches *)
IdentityMatches == ~marks \/ "sh" \in alive

(* the group gets the signal, or, when it is empty, whoever has the pid *)
Signal(sig, victims) ==
    IF Members # {} THEN Die(victims) /\ UNCHANGED struck
    ELSE /\ struck' = (IF pid = "stranger" THEN struck \cup {sig} ELSE struck)
         /\ UNCHANGED <<alive, pid>>

(* ESRCH of both tries ends the ladder before its grace *)
NobodyThere == Members = {} /\ pid = "nobody"

AlreadyClosed == "sh" \notin alive /\ PipesEnded

Reap(t) ==
    IF AlreadyClosed
    THEN /\ ladder' = [ladder EXCEPT ![t] = "done"]
         /\ UNCHANGED <<alive, pid, led, struck>>
    ELSE IF ~IdentityMatches \/ NobodyThere
    THEN /\ ladder' = [ladder EXCEPT ![t] = "settle"]
         /\ UNCHANGED <<alive, pid, led, struck>>
    ELSE /\ ladder' = [ladder EXCEPT ![t] = "grace"]
         /\ led' = IF "sh" \in alive THEN led \cup {t} ELSE led
         /\ \E gone \in SUBSET Members : Signal("SIGTERM", gone)

GraceEnds(t) ==
    /\ ladder[t] = "grace" /\ ladder' = [ladder EXCEPT ![t] = "settle"]
    /\ Signal("SIGKILL", Members)
    /\ UNCHANGED <<way, marks, born, holds, torn, hasClosed, ended, timer, abort, led>>

(* within the settle window the child closes, or our pipes are destroyed  *)
(* and onForceClose() ends the caller's promise                           *)
WindowEnds(t) ==
    /\ ladder[t] = "settle" /\ ladder' = [ladder EXCEPT ![t] = "done"]
    /\ IF hasClosed THEN UNCHANGED <<torn, ended, timer, abort>>
       ELSE torn' = TRUE /\ EndRun("forced")
    /\ UNCHANGED <<way, marks, sys_vars, hasClosed, led, struck>>

---------------------------------------------------------------------------
(* what starts a ladder: the time is up, the turn or the job is cancelled *)
TimeIsUp ==
    /\ way # "capture" /\ timer = "armed" /\ timer' = "fired" /\ Reap("timer")
    /\ UNCHANGED <<way, marks, born, holds, torn, hasClosed, ended, abort>>

(* the exec-world does not wait for the end of what it kills *)
Aborted ==
    /\ way # "capture" /\ abort = "armed" /\ abort' = "fired" /\ Reap("abort")
    /\ IF way = "world"
       THEN ended' = "abort" /\ timer' = (IF timer = "armed" THEN "off" ELSE timer)
       ELSE UNCHANGED <<ended, timer>>
    /\ UNCHANGED <<way, marks, born, holds, torn, hasClosed>>

(* spawnCapture() has one signal for both, which it also gives to spawn():  *)
(* if the shell lives, Node's own listener comes first, sends the shell a   *)
(* SIGTERM and emits "error", whose handler ends the promise and removes    *)
(* the listener that would have started the ladder                          *)
CaptureStops(t) ==
    /\ way = "capture" /\ timer = "armed" /\ abort = "armed"
    /\ timer' = (IF t = "timer" THEN "fired" ELSE "off")
    /\ abort' = (IF t = "abort" THEN "fired" ELSE "off")
    /\ IF "sh" \in alive
       THEN /\ ended' = "abort" /\ (\E gone \in SUBSET {"sh"} : Die(gone))
            /\ UNCHANGED <<ladder, led, struck>>
       ELSE Reap(t) /\ UNCHANGED ended
    /\ UNCHANGED <<way, marks, born, holds, torn, hasClosed>>

---------------------------------------------------------------------------
Processes == Recycled \/ \E p \in {"sh", "bg", "esc"} : Forks(p) \/ ProcessExits(p)
CommandDue ==
    \/ CloseEvent \/ TimeIsUp \/ CaptureStops("timer")
    \/ \E t \in Trigger : GraceEnds(t) \/ WindowEnds(t)
CommandNext == Processes \/ CommandDue \/ Aborted \/ CaptureStops("abort")

---------------------------------------------------------------------------
(* A command whose time is up, or whose turn or job was cancelled, ends,   *)
(* whoever ignores SIGTERM or holds its pipes.                             *)
CommandEnds == (timer # "off" \/ abort = "fired") ~> ended # "no"

(* A ladder that found the shell alive leaves no process of the group      *)
(* behind, though members may be deaf, fork while it climbs or share it    *)
(* with a second ladder.                                                   *)
LadderIsComplete == \A t \in led : ladder[t] = "done" => Members = {}

(* Where the kernel shows start times, no ladder starts on a pid that is a *)
(* stranger's now (terminate.ts: "PID-reuse fence").                       *)
StrangerIsSpared == marks => "SIGTERM" \notin struck

(* What the comments promise of a kill fails twice.  The group does not    *)
(* die with it: the fence takes an exited shell for a recycled pid, and    *)
(* spawnCapture() starts no ladder while the shell lives.  And the pid is  *)
(* not verified again before the SIGKILL.                                  *)
KilledGroupDies ==
    (timer = "fired" \/ abort = "fired") /\ (\A t \in Trigger : ladder[t] \in {"none", "done"})
        => Members = {}
NoStrangerIsHit == marks => struck = {}
=============================================================================
