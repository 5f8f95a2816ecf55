----------------------------- MODULE Terminals -----------------------------
(***************************************************************************)
(* The terminal registry, terminal/service.ts: spawn, send, kill and       *)
(* dispose over a backend, such as terminal/pty-backend.ts,                *)
(* whose spawn and close take time and may fail.  One owner's terminals;   *)
(* another owner's are refused before anything else.                       *)
(***************************************************************************)
EXTENDS FiniteSets

CONSTANTS
    Terminal, \* bound: calls of spawn()
    Name      \* names a caller may give

ASSUME NamesAreNames == "unnamed" \notin Name

VARIABLES
    call,         \* terminal |-> "none", "spawning", "live" (in sessions),
                  \* "rolling" (its spawn is undone) or "gone"
    name,         \* terminal |-> the name it was asked for, or "unnamed"
    shell,        \* terminal |-> "none", "running" or "exited": the backend's process
    spawnAborted, \* terminals whose spawn was aborted
    closing,      \* terminals whose close() is pending: record.closing
    sending,      \* terminals with a send in progress
    disposing,
    doomed,       \* terminals whose close dispose() awaits
    failed        \* ghost: terminals with a close() that failed

terminalVars == <<call, name, shell, spawnAborted, closing, sending, disposing, doomed, failed>>

LiveTerminals == {t \in Terminal : call[t] = "live"}
Reserved == {name[t] : t \in {u \in Terminal : call[u] \in {"spawning", "rolling"}}}

TerminalsInit ==
    /\ call = [t \in Terminal |-> "none"] /\ name = [t \in Terminal |-> "unnamed"]
    /\ shell = [t \in Terminal |-> "none"]
    /\ spawnAborted = {} /\ closing = {} /\ sending = {}
    /\ disposing = FALSE /\ doomed = {} /\ failed = {}

---------------------------------------------------------------------------
(* reserveName() *)
Free(n) == n = "unnamed" \/ n \notin Reserved \cup {name[t] : t \in LiveTerminals}

Spawn(t) ==
    /\ call[t] = "none" /\ ~disposing
    /\ \E n \in Name \cup {"unnamed"} : Free(n) /\ name' = [name EXCEPT ![t] = n]
    /\ call' = [call EXCEPT ![t] = "spawning"]
    /\ UNCHANGED <<shell, spawnAborted, closing, sending, disposing, doomed, failed>>

AbortSpawn(t) ==
    /\ call[t] = "spawning" /\ t \notin spawnAborted /\ spawnAborted' = spawnAborted \cup {t}
    /\ UNCHANGED <<call, name, shell, closing, sending, disposing, doomed, failed>>

(* the backend starts the shell, unless it sees the abort, or fails *)
BackendStarts(t) ==
    /\ call[t] = "spawning" /\ shell[t] = "none" /\ shell' = [shell EXCEPT ![t] = "running"]
    /\ UNCHANGED <<call, name, spawnAborted, closing, sending, disposing, doomed, failed>>

BackendFails(t) ==
    /\ call[t] = "spawning" /\ shell[t] = "none" /\ call' = [call EXCEPT ![t] = "gone"]
    /\ UNCHANGED <<name, shell, spawnAborted, closing, sending, disposing, doomed, failed>>

(* Mutant: a spawn that was aborted, or overtaken by the disposal, leaves its shell to itself *)
Published_DropsIt(t) ==
    /\ call[t] = "spawning" /\ shell[t] # "none"
    /\ IF t \in spawnAborted \/ disposing
       THEN call' = [call EXCEPT ![t] = "gone"]
       ELSE call' = [call EXCEPT ![t] = "live"]
    /\ UNCHANGED <<name, shell, spawnAborted, closing, sending, disposing, doomed, failed>>

(* spawn() goes on behind its await: it publishes the terminal, or closes  *)
(* what has been started in vain                                           *)
Published(t) ==
    /\ call[t] = "spawning" /\ shell[t] # "none"
    /\ IF t \in spawnAborted \/ disposing
       THEN call' = [call EXCEPT ![t] = "rolling"]
       ELSE call' = [call EXCEPT ![t] = "live"]
    /\ UNCHANGED <<name, shell, spawnAborted, closing, sending, disposing, doomed, failed>>

RollbackEnds(t) ==
    /\ call[t] = "rolling" /\ call' = [call EXCEPT ![t] = "gone"]
    /\ \/ shell' = [shell EXCEPT ![t] = "exited"] /\ UNCHANGED failed
       \/ failed' = failed \cup {t} /\ UNCHANGED shell
    /\ UNCHANGED <<name, spawnAborted, closing, sending, disposing, doomed>>

(* the shell exits by itself; its record stays *)
Exits(t) ==
    /\ shell[t] = "running" /\ shell' = [shell EXCEPT ![t] = "exited"]
    /\ UNCHANGED <<call, name, spawnAborted, closing, sending, disposing, doomed, failed>>

StartSend(t) ==
    /\ t \in LiveTerminals \ (closing \cup sending) /\ sending' = sending \cup {t}
    /\ UNCHANGED <<call, name, shell, spawnAborted, closing, disposing, doomed, failed>>

(* the output is quiet, the shell has exited, or the wait is over *)
SendEnds(t) ==
    /\ t \in sending /\ sending' = sending \ {t}
    /\ UNCHANGED <<call, name, shell, spawnAborted, closing, disposing, doomed, failed>>

Kill(t) ==
    /\ t \in LiveTerminals \ closing /\ closing' = closing \cup {t}
    /\ UNCHANGED <<call, name, shell, spawnAborted, sending, disposing, doomed, failed>>

(* session.close() ends, for kill() and dispose() alike *)
CloseEnds(t) ==
    /\ t \in closing /\ closing' = closing \ {t} /\ doomed' = doomed \ {t}
    /\ \/ /\ shell' = [shell EXCEPT ![t] = "exited"] /\ call' = [call EXCEPT ![t] = "gone"]
          /\ UNCHANGED failed
       \/ failed' = failed \cup {t} /\ UNCHANGED <<shell, call>>
    /\ UNCHANGED <<name, spawnAborted, sending, disposing>>

DisposeAll ==
    /\ ~disposing /\ disposing' = TRUE
    /\ closing' = closing \cup LiveTerminals /\ doomed' = LiveTerminals
    /\ UNCHANGED <<call, name, shell, spawnAborted, sending, failed>>

(* dispose() is done with its closes: sessions.clear() *)
Disposed ==
    /\ disposing /\ doomed = {} /\ LiveTerminals # {}
    /\ call' = [t \in Terminal |-> IF t \in LiveTerminals THEN "gone" ELSE call[t]]
    /\ UNCHANGED <<name, shell, spawnAborted, closing, sending, disposing, doomed, failed>>

TerminalsNext ==
    \/ DisposeAll \/ Disposed
    \/ \E t \in Terminal :
          \/ Spawn(t) \/ AbortSpawn(t) \/ BackendStarts(t) \/ BackendFails(t)
          \/ Published(t) \/ RollbackEnds(t) \/ Exits(t) \/ StartSend(t) \/ SendEnds(t) \/ Kill(t) \/ CloseEnds(t)

TerminalsSpec == TerminalsInit /\ [][TerminalsNext]_terminalVars

---------------------------------------------------------------------------
(* No shell runs that nobody holds: whatever order a spawn, its abort, a   *)
(* kill and the disposal of the service take, a running shell is in the    *)
(* registry or in a call that will close it, unless its close failed.      *)
NoOrphanShell ==
    \A t \in Terminal : shell[t] = "running" =>
        call[t] \in {"spawning", "live", "rolling"} \/ t \in failed

(* A name tells two terminals apart from the moment it is asked for until  *)
(* the terminal is gone, during slow spawns and slow closes too.           *)
NamesAreUnique ==
    \A t, u \in Terminal :
        /\ t # u /\ name[t] # "unnamed"
        /\ {call[t], call[u]} \subseteq {"spawning", "live", "rolling"}
        => name[t] # name[u]
=============================================================================
