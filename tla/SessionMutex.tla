---------------------------- MODULE SessionMutex ----------------------------
(***************************************************************************)
(* What session/write-lease.ts promises: one process at a time may write a *)
(* session file; inside that process the right is shared by reference      *)
(* counting; a crash gives it back.                                        *)
(***************************************************************************)
CONSTANTS Proc, Lease, ProcOf

VARIABLE holders   \* the leases that allow writing now

Init == holders = {}

Take(l) ==
  /\ l \notin holders
  /\ \A m \in holders : ProcOf[m] = ProcOf[l]
  /\ holders' = holders \cup {l}

Drop(l) ==
  /\ l \in holders
  /\ holders' = holders \ {l}

Kill(p) == holders' = {l \in holders : ProcOf[l] # p}

Next == (\E l \in Lease : Take(l) \/ Drop(l)) \/ (\E p \in Proc : Kill(p))

Spec == Init /\ [][Next]_holders
=============================================================================
