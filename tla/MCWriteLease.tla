---------------------------- MODULE MCWriteLease ----------------------------
(* Three processes; one of them makes two acquire() calls, so that sharing *)
(* inside a process meets contention between processes.                    *)
EXTENDS WriteLease

CONSTANTS p1, p2, p3, a1, a2, b1, c1

MCProc  == {p1, p2, p3}
MCLease == {a1, a2, b1, c1}
MCProcOf == [l \in MCLease |-> CASE l \in {a1, a2} -> p1 [] l = b1 -> p2 [] l = c1 -> p3]
=============================================================================
