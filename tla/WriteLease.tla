----------------------------- MODULE WriteLease -----------------------------
(***************************************************************************)
(* session/write-lease.ts: the sidecar lock file <session>.lock that gives *)
(* one process the right to write a session file.                          *)
(*                                                                         *)
(* A lease l is one call of acquire() with, when it succeeds, the release()*)
(* of the object it returned; ProcOf[l] is the process that makes the call. *)
(* Every await of the source is a step boundary, so the steps of several   *)
(* leases, of one process or of many, interleave freely.  A file is known  *)
(* by the lease that created it: a process that still has the handle of an *)
(* unlinked lock writes to that lost file and not to the path.             *)
(*                                                                         *)
(* Assumed: a lock file that is there can be read.  A read that fails for  *)
(* another reason than absence (out of file handles, say) would make       *)
(* tryRemoveStaleLock remove a live lock.                                  *)
(***************************************************************************)
EXTENDS Naturals, FiniteSets

CONSTANTS Proc,      \* processes; a restarted process is another member
          Lease,     \* acquire() calls
          ProcOf,     \* the process of each lease
          Overlap,   \* may two acquire() calls be in flight at once?
          NoLease    \* "no lease": the path is absent, the map has no entry

ASSUME LeaseAssumption == IsFiniteSet(Lease)
ASSUME ProcOfAssumption == ProcOf \in [Lease -> Proc]
ASSUME OverlapAssumption == Overlap \in BOOLEAN
ASSUME NoLeaseAssumption == NoLease \notin Lease

VARIABLES
  pc,        \* where each lease stands
  alive,     \* the processes that have not crashed
  lock,      \* the file at lockPath, named by its creator, or NoLease
  payload,   \* the leases whose lock file holds {"pid": ...}, not nothing
  holds,     \* sameProcessHolds: per process, the entry of the file
  entry,     \* the entry a lease holds or shares (wrapShared's argument)
  refs,      \* SameProcessHold.refs of the entry a lease created
  reclaimed  \* ghost: some lease has unlinked a lock it judged removable

leaseVars == <<pc, alive, lock, payload, holds, entry, refs, reclaimed>>

Acquiring == {"create1", "inspect", "unlink1", "unlink2", "create2", "write"}
Done      == {"released", "leaked", "busy", "failed", "crashed"}
PCs       == {"idle", "holding", "closing"} \cup Acquiring \cup Done

LeaseTypeOK ==
  /\ pc \in [Lease -> PCs]
  /\ alive \in SUBSET Proc
  /\ lock \in Lease \cup {NoLease}
  /\ payload \in SUBSET Lease
  /\ holds \in [Proc -> Lease \cup {NoLease}]
  /\ entry \in [Lease -> Lease \cup {NoLease}]
  /\ refs \in [Lease -> Nat]
  /\ reclaimed \in BOOLEAN

LeaseInit ==
  /\ pc = [l \in Lease |-> "idle"]
  /\ alive = Proc
  /\ lock = NoLease
  /\ payload = {}
  /\ holds = [p \in Proc |-> NoLease]
  /\ entry = [l \in Lease |-> NoLease]
  /\ refs = [l \in Lease |-> 0]
  /\ reclaimed = FALSE

Goto(l, where) == pc' = [pc EXCEPT ![l] = where]

(* The process of a lease that has not crashed is alive (Crash says so),   *)
(* hence no action below repeats that guard.                               *)

Calm == Overlap \/ \A m \in Lease : pc[m] \notin Acquiring

-----------------------------------------------------------------------------
(* acquire(): the map of this process first, then the file system.         *)

AcquireShared(l) ==
  LET e == holds[ProcOf[l]] IN
  /\ pc[l] = "idle" /\ Calm
  /\ e # NoLease
  /\ entry' = [entry EXCEPT ![l] = e]
  /\ refs' = [refs EXCEPT ![e] = @ + 1]
  /\ Goto(l, "holding")
  /\ UNCHANGED <<alive, lock, payload, holds, reclaimed>>

AcquireFresh(l) ==
  /\ pc[l] = "idle" /\ Calm
  /\ holds[ProcOf[l]] = NoLease
  /\ Goto(l, "create1")
  /\ UNCHANGED <<alive, lock, payload, holds, entry, refs, reclaimed>>

(* fs.open(lockPath, "wx") creates an EMPTY file, or fails with EEXIST.    *)
TryCreate(l, from, exists) ==
  /\ pc[l] = from
  /\ IF lock = NoLease
       THEN lock' = l /\ Goto(l, "write")
       ELSE lock' = lock /\ Goto(l, exists)
  /\ UNCHANGED <<alive, payload, holds, entry, refs, reclaimed>>

Create1(l) == TryCreate(l, "create1", "inspect")
Create2(l) == TryCreate(l, "create2", "busy")

(* Fault: a pid in the file is taken for a live one, without kill(pid, 0). *)
LockIsLive_NoProbe == lock \in payload

(* Would the read find a pid, and of a process that runs?                  *)
LockIsLive == lock \in payload /\ ProcOf[lock] \in alive

(* tryRemoveStaleLock: a missing or empty file goes to the catch branch, a *)
(* dead pid to the unlink of the try branch, a live pid is Busy.           *)
Inspect(l) ==
  /\ pc[l] = "inspect"
  /\ Goto(l, IF LockIsLive THEN "busy"
             ELSE IF lock \in payload THEN "unlink1" ELSE "unlink2")
  /\ UNCHANGED <<alive, lock, payload, holds, entry, refs, reclaimed>>

(* unlink works on the path: it takes whatever file is there by now, or it *)
(* fails, because there is none or for any other reason.                   *)
Unlink(l, from, fails) ==
  /\ pc[l] = from
  /\ \/ lock # NoLease /\ lock' = NoLease /\ reclaimed' = TRUE /\ Goto(l, "create2")
     \/ UNCHANGED <<lock, reclaimed>> /\ Goto(l, fails)
  /\ UNCHANGED <<alive, payload, holds, entry, refs>>

Unlink1(l) == Unlink(l, "unlink1", "unlink2")
Unlink2(l) == Unlink(l, "unlink2", "busy")

(* handle.writeFile(payload), then the entry enters the map.               *)
WritePayload(l) ==
  /\ pc[l] = "write"
  /\ payload' = payload \cup {l}
  /\ refs' = [refs EXCEPT ![l] = 1]
  /\ entry' = [entry EXCEPT ![l] = l]
  /\ holds' = [holds EXCEPT ![ProcOf[l]] = l]
  /\ Goto(l, "holding")
  /\ UNCHANGED <<alive, lock, reclaimed>>

(* The open throws something else than EEXIST, or the write throws (disk   *)
(* full) and leaves its file: acquire() rejects.                           *)
WriteFails(l) ==
  /\ pc[l] \in {"create1", "create2", "write"}
  /\ Goto(l, "failed")
  /\ UNCHANGED <<alive, lock, payload, holds, entry, refs, reclaimed>>

-----------------------------------------------------------------------------
(* Fault: every release() unlinks, whoever still shares the entry.         *)
Release_IgnoresRefs(l) ==
  /\ pc[l] = "holding"
  /\ refs' = [refs EXCEPT ![entry[l]] = @ - 1]
  /\ holds' = [holds EXCEPT ![ProcOf[l]] = NoLease]
  /\ Goto(l, "closing")
  /\ UNCHANGED <<alive, lock, payload, entry, reclaimed>>

(* release(): the last reference drops the map's entry at once; the unlink *)
(* follows after handle.close().                                           *)

Release(l) ==
  LET e == entry[l]
      last == refs[e] <= 1 IN
  /\ pc[l] = "holding"
  /\ refs' = [refs EXCEPT ![e] = @ - 1]
  /\ holds' = IF last THEN [holds EXCEPT ![ProcOf[l]] = NoLease] ELSE holds
  /\ Goto(l, IF last THEN "closing" ELSE "released")
  /\ UNCHANGED <<alive, lock, payload, entry, reclaimed>>

(* releaseBase() swallows what the unlink throws: a lock that could not be *)
(* removed is no longer anybody's, and still names a process that runs.    *)
ReleaseBase(l) ==
  /\ pc[l] = "closing"
  /\ \/ lock' = NoLease /\ Goto(l, "released")
     \/ UNCHANGED lock /\ Goto(l, "leaked")
  /\ UNCHANGED <<alive, payload, holds, entry, refs, reclaimed>>

-----------------------------------------------------------------------------
Crash(p) ==
  /\ p \in alive
  /\ alive' = alive \ {p}
  /\ pc' = [l \in Lease |-> IF ProcOf[l] = p THEN "crashed" ELSE pc[l]]
  /\ holds' = [holds EXCEPT ![p] = NoLease]
  /\ UNCHANGED <<lock, payload, entry, refs, reclaimed>>

LeaseStep(l) ==
  \/ AcquireShared(l) \/ AcquireFresh(l)
  \/ Create1(l) \/ Inspect(l) \/ Unlink1(l) \/ Unlink2(l) \/ Create2(l)
  \/ WritePayload(l) \/ WriteFails(l)
  \/ Release(l) \/ ReleaseBase(l)

LeaseNext == (\E l \in Lease : LeaseStep(l)) \/ (\E p \in Proc : Crash(p))

LeaseSpec == LeaseInit /\ [][LeaseNext]_leaseVars

-----------------------------------------------------------------------------
Holding == {l \in Lease : pc[l] = "holding"}

(* No two processes hold the lease of one file at the same time ("cross-   *)
(* process write ownership", write-lease.ts:2).  It is what the code does  *)
(* not always give: see Exclusive.                                         *)
MutualExclusion == \A l, m \in Holding : ProcOf[l] = ProcOf[m]

(* When does the sidecar lock exclude?  When acquisitions do not overlap   *)
(* (crashed holders, failed writes and stale locks included), and, if they *)
(* do, for as long as nobody has reclaimed a lock.                         *)
Exclusive == (~Overlap \/ ~reclaimed) => MutualExclusion

(* A stale lock never keeps a session shut: the lock file that acquire()   *)
(* respects is the one some lease of a live process holds, is giving back, *)
(* or could not unlink when it was released; never one that a crash, a     *)
(* failed write, a reclaim or a last release that took another's file has  *)
(* left behind, however acquisitions overlap.                              *)
LiveLockIsHeld ==
  LockIsLive =>
    \E l \in Lease : pc[l] \in {"holding", "closing", "leaked"} /\ entry[l] = lock

(* Without overlapping acquisitions the lock file implements the abstract  *)
(* per-process mutex.                                                      *)
Mutex == INSTANCE SessionMutex WITH holders <- Holding
ImplementsMutex == Mutex!Spec

(* The inductive invariant behind Exclusive.  For as long as the premise   *)
(* of Exclusive holds, the file on disk is the one of whoever holds or is  *)
(* closing a lease, it names that process, and the map entry of a process  *)
(* counts exactly the leases that use it.                                  *)
Sound == ~Overlap \/ ~reclaimed
Using(e) == {l \in Lease : pc[l] = "holding" /\ entry[l] = e}

Entries ==
  /\ \A l \in Lease : pc[l] \in {"holding", "closing", "leaked"} =>
       entry[l] \in payload /\ ProcOf[entry[l]] = ProcOf[l]
  /\ \A p \in Proc : holds[p] # NoLease =>
       p \in alive /\ holds[p] \in payload /\ ProcOf[holds[p]] = p
LockIsHolders ==
  \A l \in Lease : pc[l] \in {"holding", "closing"} =>
    /\ lock = entry[l]
    /\ holds[ProcOf[l]] = (IF pc[l] = "holding" THEN lock ELSE NoLease)
OneCloser ==
  \A l, m \in Lease : pc[l] = "closing" /\ pc[m] = "closing" => l = m
MapIsLock ==
  \A p \in Proc : holds[p] # NoLease => lock = holds[p] /\ Using(lock) # {}
WriterOwnsLock ==
  \A l \in Lease : pc[l] = "write" => lock = l
RefsCount ==
  \A e \in Lease : ProcOf[e] \in alive => refs[e] = Cardinality(Using(e))
OneAcquirer ==
  \A l, m \in Lease : pc[l] \in Acquiring /\ pc[m] \in Acquiring => l = m
ReclaimerAlone ==
  \A l \in Lease : pc[l] \in {"unlink1", "unlink2", "create2"} =>
    \A m \in Lease : pc[m] \notin {"holding", "closing"}
Unwritten == \A l \in Lease : pc[l] \in {"idle"} \cup Acquiring => l \notin payload
RunsAlive ==
  \A l \in Lease : pc[l] \notin Done => ProcOf[l] \in alive

LeaseInv ==
  /\ LeaseTypeOK /\ RunsAlive /\ Unwritten /\ Entries /\ RefsCount
  /\ Sound => LockIsHolders /\ OneCloser /\ MapIsLock /\ WriterOwnsLock
  /\ ~Overlap => OneAcquirer /\ ReclaimerAlone
=============================================================================
