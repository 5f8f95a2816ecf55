------------------------- MODULE Delegation_proofs --------------------------
(***************************************************************************)
(* Work that is handed over: a continuable child, for every number of its  *)
(* waiters and messages; the jobs of the registry, for every set of jobs   *)
(* and owners and every cap; a task on a peer, for every number of calls.  *)
(* Last, the properties that join these components and those of            *)
(* Calls_proofs, as the run of MCLiveness checks them.                     *)
(***************************************************************************)
EXTENDS
  MCLiveness, Calls_proofs, FiniteSetTheorems, SequenceTheorems, TLAPS

(* The queue primitives the pump and send() use keep the line of messages. *)
LEMMA InitChildInv == ChildInit => ChildInv
<1> SUFFICES ASSUME ChildInit PROVE ChildInv  OBVIOUS
<1> USE ChildAssumption DEF Message
<1>1. ChildTypeOK
  <2>1. /\ auto \in BOOLEAN /\ closed \in BOOLEAN /\ registered \in BOOLEAN
        /\ deadline \in BOOLEAN /\ listening \in BOOLEAN
    BY Zenon DEF ChildInit
  <2>2. /\ inbox \in Seq(Message) /\ reports \in Seq(Message) /\ sends \in Message
        /\ turn \in 0 .. MaxMessages /\ settles \in 0 .. 1 /\ late \subseteq Message
    BY DEF ChildInit
  <2>3. /\ pump \in {"turn", "parked", "woken", "ended"}
        /\ settled \in {"no"} \cup Status
        /\ awaits \in [Await -> {"idle", "waiting", "resolved", "rejected"}]
        /\ reason \in {"none", "deadline", "parent", "tool"}
    BY DEF ChildInit, Status
  <2> QED  BY <2>1, <2>2, <2>3 DEF ChildTypeOK
<1>2. SettledForAll /\ NoLostWakeup  BY DEF ChildInit, SettledForAll, NoLostWakeup
<1>3. Line /\ TurnsInOrder  BY DEF ChildInit, Line, Increasing, TurnsInOrder
<1> QED  BY <1>1, <1>2, <1>3 DEF ChildInv

(* A line of turns stays increasing with a later one behind it.            *)
LEMMA AppendIncreasing ==
  ASSUME NEW s \in Seq(Message), NEW t \in 0 .. MaxMessages, Increasing(s),
         t # 0 => \A j \in DOMAIN s : s[j] < t
  PROVE  LET run == IF t = 0 THEN s ELSE Append(s, t)
         IN  \A i, j \in DOMAIN run : i < j => run[i] < run[j]
<1> USE ChildAssumption DEF Message
<1>1. CASE t = 0  BY <1>1 DEF Increasing
<1>2. CASE t # 0
  <2>1. /\ DOMAIN Append(s, t) = 1 .. Len(s) + 1 /\ DOMAIN s = 1 .. Len(s)
        /\ Len(s) \in Nat
        /\ Append(s, t)[Len(s) + 1] = t
        /\ \A j \in DOMAIN s : Append(s, t)[j] = s[j]
    OBVIOUS
  <2> SUFFICES ASSUME NEW i \in DOMAIN Append(s, t), NEW j \in DOMAIN Append(s, t), i < j
               PROVE  Append(s, t)[i] < Append(s, t)[j]
    BY <1>2
  <2>2. i \in DOMAIN s  BY <2>1
  <2>3. CASE j \in DOMAIN s  BY <2>1, <2>2, <2>3 DEF Increasing
  <2>4. CASE j = Len(s) + 1  BY <1>2, <2>1, <2>2, <2>4
  <2> QED  BY <2>1, <2>3, <2>4
<1> QED  BY <1>1, <1>2

(* What settle() does to the parts of the invariant it writes.             *)
LEMMA SettleKeeps ==
  ASSUME ChildTypeOK, SettledForAll, NEW what \in Status, Settle(what)
  PROVE  /\ settled' \in Status
         /\ (settled # "no" => settled' = settled)
         /\ registered' \in BOOLEAN /\ deadline' \in BOOLEAN /\ listening' \in BOOLEAN
         /\ awaits' \in [Await -> {"idle", "waiting", "resolved", "rejected"}]
         /\ settles' \in 0 .. 1
         /\ SettledForAll'
<1>1. CASE settled # "no"
  BY <1>1 DEF ChildTypeOK, SettledForAll, Settle, Status
<1>2. CASE settled = "no"
  <2>1. /\ settled' = what /\ registered' = FALSE /\ deadline' = FALSE
        /\ listening' = FALSE /\ settles' = settles + 1
        /\ awaits' = [w \in Await |-> IF awaits[w] = "waiting" THEN "resolved" ELSE awaits[w]]
    BY <1>2 DEF Settle
  <2>2. settles = 0  BY <1>2 DEF SettledForAll
  <2>3. awaits' \in [Await -> {"idle", "waiting", "resolved", "rejected"}]
    BY <2>1 DEF ChildTypeOK
  <2>4. \A w \in Await : awaits'[w] # "waiting"  BY <2>1 DEF ChildTypeOK
  <2>5. SettledForAll'  BY <2>1, <2>2, <2>4 DEF SettledForAll, Status
  <2>6. registered' \in BOOLEAN /\ deadline' \in BOOLEAN /\ listening' \in BOOLEAN
    BY <2>1
  <2>7. settled' \in Status /\ settles' \in 0 .. 1  BY <2>1, <2>2
  <2> QED  BY <1>2, <2>3, <2>5, <2>6, <2>7
<1> QED  BY <1>1, <1>2

(* A turn that is over joins the line of the finished ones.                *)
LEMMA ReportKeeps ==
  ASSUME ChildInv,
         \/ reports' = reports
         \/ reports' = Append(reports, turn) /\ pump = "turn" /\ settled = "no"
  PROVE  /\ reports' \in Seq(Message) /\ Increasing(reports')
         /\ \A j \in DOMAIN reports' : reports'[j] <= sends
         /\ \A j \in DOMAIN reports', i \in DOMAIN inbox : reports'[j] < inbox[i]
<1> USE ChildAssumption DEF Message
<1>t. /\ reports \in Seq(Nat) /\ inbox \in Seq(Nat) /\ turn \in Nat /\ sends \in Nat
      /\ reports' \in Seq(Message)
  <2>1. pump = "turn" => turn \in Message
    BY DEF ChildInv, ChildTypeOK, Line
  <2>2. reports \in Seq(Message)  BY DEF ChildInv, ChildTypeOK
  <2>3. pump = "turn" => Append(reports, turn) \in Seq(Message)  BY <2>1, <2>2
  <2>4. reports' \in Seq(Message)  BY <2>2, <2>3
  <2> QED  BY <2>4 DEF ChildInv, ChildTypeOK
<1>r. /\ Increasing(reports') 
      /\ \A j \in DOMAIN reports' : reports'[j] <= sends
      /\ \A j \in DOMAIN reports', i \in DOMAIN inbox : reports'[j] < inbox[i]
  <2>1. CASE reports' = reports
    BY <2>1 DEF ChildInv, Line
  <2>2. CASE reports' = Append(reports, turn) /\ pump = "turn" /\ settled = "no"
    <3>1. /\ DOMAIN reports' = 1 .. Len(reports) + 1
          /\ DOMAIN reports = 1 .. Len(reports)
          /\ reports'[Len(reports) + 1] = turn
          /\ \A j \in DOMAIN reports : reports'[j] = reports[j]
      BY <2>2, <1>t
    <3>2. /\ turn # 0 /\ turn <= sends
          /\ \A j \in DOMAIN reports : reports[j] < turn
          /\ \A i \in DOMAIN inbox : turn < inbox[i]
      BY <2>2 DEF ChildInv, Line
    <3>3. \A j \in DOMAIN reports' : j \in DOMAIN reports \/ j = Len(reports) + 1
      BY <3>1, <1>t
    <3>4. Increasing(reports')
      <4> SUFFICES ASSUME NEW i \in DOMAIN reports', NEW j \in DOMAIN reports', i < j
                   PROVE  reports'[i] < reports'[j]
        BY DEF Increasing
      <4>1. i \in DOMAIN reports  BY <3>1, <1>t
      <4>2. CASE j \in DOMAIN reports
        BY <4>1, <4>2, <3>1 DEF ChildInv, Line, Increasing
      <4>3. CASE j = Len(reports) + 1  BY <4>1, <4>3, <3>1, <3>2
      <4> QED  BY <4>2, <4>3, <3>3
    <3>5. \A j \in DOMAIN reports' : reports'[j] <= sends
      BY <3>1, <3>2, <3>3 DEF ChildInv, Line
    <3>6. \A j \in DOMAIN reports', i \in DOMAIN inbox : reports'[j] < inbox[i]
      BY <3>1, <3>2, <3>3 DEF ChildInv, Line
    <3> QED  BY <3>4, <3>5, <3>6
  <2> QED  BY <2>1, <2>2
<1> QED  BY <1>t, <1>r

(* The pump's loop, entered with a turn that is over and reported or with  *)
(* nothing in progress.                                                    *)
LEMMA LoopKeeps ==
  ASSUME ChildInv, NEW final \in Status, Loop(final),
         UNCHANGED <<auto, sends, closed, late, reason>>,
         \/ reports' = reports /\ (pump = "woken")
         \/ reports' = Append(reports, turn) /\ pump = "turn" /\ settled = "no"
  PROVE  ChildInv'
<1> USE ChildAssumption DEF Message
<1>t. /\ reports \in Seq(Nat) /\ inbox \in Seq(Nat) /\ turn \in Nat /\ sends \in Nat
      /\ reports' \in Seq(Message)
  BY ReportKeeps DEF ChildInv, ChildTypeOK
<1>r. /\ Increasing(reports')
      /\ \A j \in DOMAIN reports' : reports'[j] <= sends
      /\ \A j \in DOMAIN reports', i \in DOMAIN inbox : reports'[j] < inbox[i]
  BY ReportKeeps
<1>1. CASE settled # "no"
  <2>1. pump' = "ended" /\ turn' = 0 /\ Unsettled /\ inbox' = inbox
    BY <1>1 DEF Loop
  <2>2. ChildTypeOK'  BY <2>1, <1>t DEF ChildInv, ChildTypeOK, Unsettled
  <2>3. SettledForAll' /\ NoLostWakeup'
    BY <1>1, <2>1 DEF ChildInv, SettledForAll, NoLostWakeup, Unsettled
  <2>4. Line' /\ TurnsInOrder'  BY <1>r, <2>1 DEF ChildInv, Line, TurnsInOrder, Increasing
  <2> QED  BY <2>2, <2>3, <2>4 DEF ChildInv
<1>2. CASE settled = "no" /\ inbox # <<>>
  <2>1. pump' = "turn" /\ turn' = Head(inbox) /\ inbox' = Tail(inbox) /\ Unsettled
    BY <1>2 DEF Loop
  <2>2. /\ turn' = inbox[1] /\ 1 \in DOMAIN inbox
        /\ Len(inbox') = Len(inbox) - 1
        /\ \A i \in DOMAIN inbox' : i + 1 \in DOMAIN inbox /\ inbox'[i] = inbox[i + 1]
    BY <1>2, <2>1, <1>t
  <2>3. ChildTypeOK'  BY <2>1, <2>2, <1>t, <1>2 DEF ChildInv, ChildTypeOK, Unsettled
  <2>4. SettledForAll' /\ NoLostWakeup'
    BY <1>2, <2>1 DEF ChildInv, SettledForAll, NoLostWakeup, Unsettled
  <2>5. Line'
    <3>0. \A i \in DOMAIN inbox' : i \in Nat /\ 1 < i + 1  BY <1>t, <2>2, <2>3 DEF ChildTypeOK
    <3>1. Increasing(inbox')
      <4> SUFFICES ASSUME NEW i \in DOMAIN inbox', NEW j \in DOMAIN inbox', i < j
                   PROVE  inbox'[i] < inbox'[j]
        BY DEF Increasing
      <4>1. i + 1 < j + 1  BY <3>0
      <4> QED  BY <4>1, <2>2 DEF ChildInv, Line, Increasing
    <3>2. \A j \in DOMAIN reports', i \in DOMAIN inbox' : reports'[j] < inbox'[i]
      BY <1>r, <2>2
    <3>3. \A i \in DOMAIN inbox' : inbox'[i] <= sends /\ turn' < inbox'[i]
      BY <2>2, <3>0 DEF ChildInv, Line, Increasing
    <3>4. turn' <= sends /\ turn' # 0 /\ \A j \in DOMAIN reports' : reports'[j] < turn'
      <4>1. turn' <= sends /\ \A j \in DOMAIN reports' : reports'[j] < turn'
        BY <1>r, <2>2 DEF ChildInv, Line
      <4>2. turn' # 0
        BY <2>2 DEF ChildInv, ChildTypeOK
      <4> QED  BY <4>1, <4>2
    <3> QED  BY <1>r, <3>1, <3>2, <3>3, <3>4 DEF Line
  <2>6. TurnsInOrder'
    BY <2>5, <2>3, AppendIncreasing DEF TurnsInOrder, Line, ChildTypeOK
  <2> QED  BY <2>3, <2>4, <2>5, <2>6 DEF ChildInv
<1>3. CASE settled = "no" /\ inbox = <<>> /\ (closed \/ auto)
  <2>1. pump' = "ended" /\ turn' = 0 /\ Settle(final) /\ inbox' = inbox
    BY <1>3 DEF Loop
  <2>2. /\ settled' \in Status /\ SettledForAll'
        /\ registered' \in BOOLEAN /\ deadline' \in BOOLEAN /\ listening' \in BOOLEAN
        /\ awaits' \in [Await -> {"idle", "waiting", "resolved", "rejected"}]
        /\ settles' \in 0 .. 1
    BY <2>1, SettleKeeps DEF ChildInv
  <2>3. ChildTypeOK'  BY <2>1, <2>2, <1>t DEF ChildInv, ChildTypeOK
  <2>4. NoLostWakeup'  BY <2>1, <2>2 DEF NoLostWakeup, Status
  <2>5. Line' /\ TurnsInOrder'  BY <1>r, <2>1 DEF ChildInv, Line, TurnsInOrder, Increasing
  <2> QED  BY <2>2, <2>3, <2>4, <2>5 DEF ChildInv
<1>4. CASE settled = "no" /\ inbox = <<>> /\ ~closed /\ ~auto
  <2>1. pump' = "parked" /\ turn' = 0 /\ Unsettled /\ inbox' = inbox
    BY <1>4 DEF Loop, ChildInv, ChildTypeOK
  <2>2. ChildTypeOK'  BY <2>1, <1>t DEF ChildInv, ChildTypeOK, Unsettled
  <2>3. SettledForAll' /\ NoLostWakeup'
    BY <1>4, <2>1 DEF ChildInv, SettledForAll, NoLostWakeup, Unsettled
  <2>4. Line' /\ TurnsInOrder'  BY <1>r, <2>1 DEF ChildInv, Line, TurnsInOrder, Increasing
  <2> QED  BY <2>2, <2>3, <2>4 DEF ChildInv
<1> QED  BY <1>1, <1>2, <1>3, <1>4

---------------------------------------------------------------------------
(* agent.run() has returned: reported and followed by the loop or by the   *)
(* settlement of an aborted turn, or dropped behind the settlement.        *)
LEMMA TurnReturnsInv ==
  ASSUME ChildInv, NEW how \in Status, NEW a \in BOOLEAN, TurnReturns(how, a)
  PROVE  ChildInv'
<1>0. pump = "turn" /\ UNCHANGED <<auto, sends, closed, late, reason>>  BY DEF TurnReturns
<1>1. CASE settled # "no"
  <2>1. pump' = "ended" /\ turn' = 0 /\ Unsettled /\ UNCHANGED <<inbox, reports>>
    BY <1>1 DEF TurnReturns
  <2>2. ChildTypeOK'  BY <1>0, <2>1, ChildAssumption DEF ChildInv, ChildTypeOK, Unsettled, Message
  <2>3. SettledForAll' /\ NoLostWakeup'
    BY <1>1, <2>1 DEF ChildInv, SettledForAll, NoLostWakeup, Unsettled
  <2>4. Line' /\ TurnsInOrder'
    BY <1>0, <2>1 DEF ChildInv, Line, TurnsInOrder, Increasing
  <2> QED  BY <2>2, <2>3, <2>4 DEF ChildInv
<1>2. CASE settled = "no" /\ ~a
  <2>1. reports' = Append(reports, turn) /\ Loop(how)  BY <1>2 DEF TurnReturns
  <2> QED  BY <1>0, <1>2, <2>1, LoopKeeps
<1>3. CASE settled = "no" /\ a
  <2>1. /\ reports' = Append(reports, turn) /\ pump' = "ended" /\ turn' = 0
        /\ Settle(how) /\ inbox' = inbox
    BY <1>3 DEF TurnReturns
  <2>2. /\ settled' \in Status /\ SettledForAll'
        /\ registered' \in BOOLEAN /\ deadline' \in BOOLEAN /\ listening' \in BOOLEAN
        /\ awaits' \in [Await -> {"idle", "waiting", "resolved", "rejected"}]
        /\ settles' \in 0 .. 1
    BY <2>1, SettleKeeps DEF ChildInv
  <2>3. /\ reports' \in Seq(Message) /\ Increasing(reports')
        /\ \A j \in DOMAIN reports' : reports'[j] <= sends
        /\ \A j \in DOMAIN reports', i \in DOMAIN inbox : reports'[j] < inbox[i]
    BY <1>0, <1>3, <2>1, ReportKeeps
  <2>4. ChildTypeOK'  BY <1>0, <2>1, <2>2, <2>3, ChildAssumption DEF ChildInv, ChildTypeOK
  <2>5. NoLostWakeup'  BY <2>1, <2>2 DEF NoLostWakeup, Status
  <2>6. Line' /\ TurnsInOrder'
    BY <1>0, <2>1, <2>3 DEF ChildInv, Line, TurnsInOrder, Increasing
  <2> QED  BY <2>2, <2>4, <2>5, <2>6 DEF ChildInv
<1> QED  BY <1>1, <1>2, <1>3

(* A turn that throws settles the child as failed.                         *)
LEMMA TurnThrowsInv == ASSUME ChildInv, TurnThrows PROVE ChildInv'
<1>1. /\ pump' = "ended" /\ turn' = 0 /\ Settle("failed")
      /\ UNCHANGED <<auto, inbox, sends, closed, reports, late, reason>>
  BY DEF TurnThrows
<1>2. /\ settled' \in Status /\ SettledForAll'
      /\ registered' \in BOOLEAN /\ deadline' \in BOOLEAN /\ listening' \in BOOLEAN
      /\ awaits' \in [Await -> {"idle", "waiting", "resolved", "rejected"}]
      /\ settles' \in 0 .. 1
  BY <1>1, SettleKeeps DEF ChildInv, Status
<1>3. ChildTypeOK'  BY <1>1, <1>2, ChildAssumption DEF ChildInv, ChildTypeOK
<1>4. NoLostWakeup'  BY <1>1, <1>2 DEF NoLostWakeup, Status
<1>5. Line' /\ TurnsInOrder'  BY <1>1 DEF ChildInv, Line, TurnsInOrder, Increasing
<1> QED  BY <1>2, <1>3, <1>4, <1>5 DEF ChildInv

(* send(): the new message is the largest, at the end of the inbox.        *)
LEMMA SendInv == ASSUME ChildInv, Send PROVE ChildInv'
<1> USE ChildAssumption DEF Message
<1>1. /\ settled = "no" /\ sends < MaxMessages /\ sends' = sends + 1
      /\ inbox' = Append(inbox, sends') /\ pump' = Wake(pump)
      /\ late' = IF closed THEN late \cup {sends'} ELSE late
      /\ UNCHANGED <<auto, turn, closed, settled, registered, deadline, listening,
                     awaits, reports, settles, reason>>
  BY DEF Send
<1>2. /\ inbox \in Seq(Message) /\ sends \in Message /\ sends' \in Message
      /\ reports \in Seq(Message) /\ turn \in Nat
      /\ pump \in {"turn", "parked", "woken", "ended"}
  BY <1>1 DEF ChildInv, ChildTypeOK
<1>3. /\ DOMAIN inbox' = 1 .. Len(inbox) + 1 /\ DOMAIN inbox = 1 .. Len(inbox)
      /\ Len(inbox) \in Nat /\ inbox' \in Seq(Message)
      /\ inbox'[Len(inbox) + 1] = sends + 1
      /\ \A i \in DOMAIN inbox : inbox'[i] = inbox[i]
  BY <1>1, <1>2
<1>4. \A i \in DOMAIN inbox' : i \in DOMAIN inbox \/ i = Len(inbox) + 1  BY <1>3
<1>5. ChildTypeOK'  BY <1>1, <1>2, <1>3 DEF ChildInv, ChildTypeOK, Wake
<1>6. SettledForAll' /\ NoLostWakeup'
  BY <1>1, <1>2 DEF ChildInv, SettledForAll, NoLostWakeup, Wake
<1>7. Line'
  <2>1. Increasing(inbox')
    <3> SUFFICES ASSUME NEW i \in DOMAIN inbox', NEW j \in DOMAIN inbox', i < j
                 PROVE  inbox'[i] < inbox'[j]
      BY DEF Increasing
    <3>1. i \in DOMAIN inbox  BY <1>3
    <3>2. CASE j \in DOMAIN inbox
      BY <1>3, <3>1, <3>2 DEF ChildInv, Line, Increasing
    <3>3. CASE j = Len(inbox) + 1
      <4>1. inbox[i] <= sends  BY <3>1 DEF ChildInv, Line
      <4>2. inbox[i] \in Nat  BY <3>1, <1>2
      <4> QED  BY <1>2, <1>3, <3>1, <3>3, <4>1, <4>2
    <3> QED  BY <1>4, <3>2, <3>3
  <2>2. \A j \in DOMAIN reports : reports[j] \in Nat /\ reports[j] <= sends
    BY <1>2 DEF ChildInv, Line
  <2>3. \A i \in DOMAIN inbox : inbox[i] \in Nat /\ inbox[i] <= sends
    BY <1>2 DEF ChildInv, Line
  <2>4. \A j \in DOMAIN reports, i \in DOMAIN inbox' : reports[j] < inbox'[i]
    <3> SUFFICES ASSUME NEW j \in DOMAIN reports, NEW i \in DOMAIN inbox'
                 PROVE  reports[j] < inbox'[i]
      OBVIOUS
    <3>1. CASE i \in DOMAIN inbox  BY <1>3, <3>1 DEF ChildInv, Line
    <3>2. CASE i = Len(inbox) + 1  BY <1>2, <1>3, <2>2, <3>2
    <3> QED  BY <1>4, <3>1, <3>2
  <2>5. \A i \in DOMAIN inbox' : inbox'[i] <= sends'
    BY <1>1, <1>2, <1>3, <1>4, <2>3
  <2>6. \A j \in DOMAIN reports : reports[j] <= sends'  BY <1>1, <1>2, <2>2
  <2>7. turn # 0 => turn <= sends' /\ \A i \in DOMAIN inbox' : turn < inbox'[i]
    BY <1>1, <1>2, <1>3, <1>4 DEF ChildInv, Line
  <2>8. pump' = "turn" => turn # 0
    BY <1>1, <1>2 DEF ChildInv, Line, Wake
  <2> QED  BY <1>1, <2>1, <2>4, <2>5, <2>6, <2>7, <2>8 DEF ChildInv, Line, Increasing
<1>8. TurnsInOrder'  BY <1>1 DEF ChildInv, TurnsInOrder
<1> QED  BY <1>5, <1>6, <1>7, <1>8 DEF ChildInv

(* close() wakes the pump, so that it does not sleep on a closed inbox.    *)
LEMMA CloseInv == ASSUME ChildInv, Close PROVE ChildInv'
<1>1. /\ settled = "no" /\ closed' = TRUE /\ pump' = Wake(pump)
      /\ UNCHANGED <<auto, inbox, sends, turn, settled, registered, deadline, listening,
                     awaits, reports, settles, late, reason>>
  BY DEF Close
<1>2. ChildTypeOK'  BY <1>1 DEF ChildInv, ChildTypeOK, Wake
<1>3. SettledForAll' /\ NoLostWakeup'
  BY <1>1 DEF ChildInv, ChildTypeOK, SettledForAll, NoLostWakeup, Wake
<1>4. Line' /\ TurnsInOrder'
  BY <1>1 DEF ChildInv, ChildTypeOK, Line, TurnsInOrder, Increasing, Wake
<1> QED  BY <1>2, <1>3, <1>4 DEF ChildInv

(* An interrupt settles the child and empties its inbox.                   *)
LEMMA InterruptInv ==
  ASSUME ChildInv, NEW why \in {"deadline", "parent", "tool"}, Interrupt(why)
  PROVE  ChildInv'
<1>1. /\ settled = "no" /\ closed' = TRUE /\ inbox' = <<>> /\ reason' = why
      /\ pump' = Wake(pump) /\ Settle("failed")
      /\ UNCHANGED <<auto, sends, turn, reports, late>>
  BY DEF Interrupt
<1>2. /\ settled' \in Status /\ SettledForAll'
      /\ registered' \in BOOLEAN /\ deadline' \in BOOLEAN /\ listening' \in BOOLEAN
      /\ awaits' \in [Await -> {"idle", "waiting", "resolved", "rejected"}]
      /\ settles' \in 0 .. 1
  BY <1>1, SettleKeeps DEF ChildInv, Status
<1>3. pump' \in {"turn", "parked", "woken", "ended"} /\ pump' # "parked"
  BY <1>1 DEF ChildInv, ChildTypeOK, Wake
<1>4. ChildTypeOK'  BY <1>1, <1>2, <1>3 DEF ChildInv, ChildTypeOK
<1>5. NoLostWakeup'  BY <1>2, <1>3 DEF NoLostWakeup, Status
<1>6. Line'
  BY <1>1 DEF ChildInv, ChildTypeOK, Line, Increasing, Wake
<1>7. TurnsInOrder'  BY <1>1 DEF ChildInv, TurnsInOrder
<1> QED  BY <1>2, <1>4, <1>5, <1>6, <1>7 DEF ChildInv

(* A waiter changes nothing but its own entry.                             *)
LEMMA ChildWaitInv ==
  ASSUME ChildInv, NEW w \in Await, WaitSettle(w) \/ AwaitGivesUp(w)
  PROVE  ChildInv'
<1>1. /\ UNCHANGED <<auto, inbox, sends, pump, turn, closed, settled, registered, deadline,
                     listening, reports, settles, late, reason>>
      /\ \E r \in {"waiting", "resolved", "rejected"} :
           awaits' = [awaits EXCEPT ![w] = r] /\ (r = "waiting" => settled = "no")
  BY DEF WaitSettle, AwaitGivesUp
<1>2. ChildTypeOK'  BY <1>1 DEF ChildInv, ChildTypeOK
<1>3. SettledForAll'  BY <1>1 DEF ChildInv, ChildTypeOK, SettledForAll
<1>4. NoLostWakeup' /\ Line' /\ TurnsInOrder'
  BY <1>1 DEF ChildInv, NoLostWakeup, Line, TurnsInOrder, Increasing
<1> QED  BY <1>2, <1>3, <1>4 DEF ChildInv

LEMMA NextChildInv == ChildInv /\ [ChildNext]_childVars => ChildInv'
<1> SUFFICES ASSUME ChildInv, [ChildNext]_childVars PROVE ChildInv'  OBVIOUS
<1>1. CASE TurnEnds  BY <1>1, TurnReturnsInv, TurnThrowsInv DEF TurnEnds
<1>2. CASE Resumes
  <2> PICK final \in Status : Resume(final)  BY <1>2 DEF Resumes
  <2>1. /\ pump = "woken" /\ Loop(final) /\ reports' = reports
        /\ UNCHANGED <<auto, sends, closed, late, reason>>
    BY DEF Resume
  <2> QED  BY <2>1, LoopKeeps
<1>3. CASE Send  BY <1>3, SendInv
<1>4. CASE Close  BY <1>4, CloseInv
<1>5. CASE Interrupt("tool") \/ Deadline \/ ParentAborts
  BY <1>5, InterruptInv DEF Deadline, ParentAborts
<1>6. CASE \E w \in Await : WaitSettle(w) \/ AwaitGivesUp(w)  BY <1>6, ChildWaitInv
<1>7. CASE UNCHANGED childVars
  BY <1>7 DEF childVars, ChildInv, ChildTypeOK, SettledForAll, NoLostWakeup, Line, TurnsInOrder, Increasing
<1> QED  BY <1>1, <1>2, <1>3, <1>4, <1>5, <1>6, <1>7 DEF ChildNext

(* The inductive invariant of a child (subagent/continuable.ts) holds for  *)
(* any waiters and any number of messages.                                 *)
THEOREM ChildInvariance == ChildSpec => []ChildInv
<1> QED  BY InitChildInv, NextChildInv, PTL DEF ChildSpec

(* A settled child is settled for everybody and once: settle() (:504-549)  *)
(* drops timer, listener and waiters together, whoever calls it.           *)
THEOREM ChildSettlesForAll == ChildSpec => []SettledForAll
<1>1. ChildInv => SettledForAll  BY DEF ChildInv
<1> QED  BY <1>1, ChildInvariance, PTL

(* The pump (:421-443) never sleeps while there is work or a reason to     *)
(* settle.                                                                 *)
THEOREM PumpNeverMissesWork == ChildSpec => []NoLostWakeup
<1>1. ChildInv => NoLostWakeup  BY DEF ChildInv
<1> QED  BY <1>1, ChildInvariance, PTL

(* Turns run in the order in which send() accepted their messages.         *)
THEOREM TurnsKeepOrder == ChildSpec => []TurnsInOrder
<1>1. ChildInv => TurnsInOrder  BY DEF ChildInv
<1> QED  BY <1>1, ChildInvariance, PTL

(* Behind the settlement nothing moves (:458-463): no later result, no     *)
(* report, no message.                                                     *)
THEOREM SettlementIsTheEnd == ChildSpec => QuietAfterSettle
<1> DEFINE Quiet == /\ settled' = settled /\ reports' = reports
                    /\ settles' = settles /\ sends' = sends
<1>1. ASSUME ChildInv, [ChildNext]_childVars, settled # "no" PROVE Quiet
  <2>1. CASE \E how \in Status, a \in BOOLEAN : TurnReturns(how, a)
    BY <1>1, <2>1 DEF TurnReturns, Unsettled
  <2>2. CASE TurnThrows  BY <1>1, <2>2 DEF TurnThrows, Settle
  <2>3. CASE Resumes  BY <1>1, <2>3 DEF Resumes, Resume, Loop, Unsettled
  <2>4. CASE Send \/ Close \/ Interrupt("tool") \/ Deadline \/ ParentAborts
    BY <1>1, <2>4 DEF Send, Close, Interrupt, Deadline, ParentAborts
  <2>5. CASE \E w \in Await : WaitSettle(w) \/ AwaitGivesUp(w)
    BY <2>5 DEF WaitSettle, AwaitGivesUp
  <2>6. CASE UNCHANGED childVars  BY <2>6 DEF childVars
  <2> QED  BY <1>1, <2>1, <2>2, <2>3, <2>4, <2>5, <2>6 DEF ChildNext, TurnEnds
<1>2. ChildInv /\ [ChildNext]_childVars => [settled # "no" => Quiet]_childVars  BY <1>1
<1> HIDE DEF Quiet
<1>3. ChildSpec => [][settled # "no" => Quiet]_childVars  BY <1>2, ChildInvariance, PTL DEF ChildSpec
<1> QED  BY <1>3 DEF QuietAfterSettle, Quiet

(* The registry's handle of a child (:508-514) is gone exactly when the    *)
(* child has settled, if the parent's signal was live at submission.       *)
THEOREM HandleTellsTheTruth ==
  ASSUME ~BornAborted PROVE ChildSpec => []GoneWhenSettled
<1>1. ChildInit => GoneWhenSettled  BY DEF ChildInit, GoneWhenSettled
<1>2. ASSUME GoneWhenSettled, NEW r \in Status, Settle(r) PROVE GoneWhenSettled'
  BY <1>2 DEF Settle, GoneWhenSettled, Status
<1>3. ASSUME GoneWhenSettled, UNCHANGED <<settled, registered>> PROVE GoneWhenSettled'
  BY <1>3 DEF GoneWhenSettled
<1>4. ASSUME GoneWhenSettled, NEW r \in Status, Loop(r) PROVE GoneWhenSettled'
  <2>1. Settle(r) \/ Unsettled  BY <1>4 DEF Loop
  <2> QED  BY <1>2, <1>3, <1>4, <2>1 DEF Unsettled
<1>5. GoneWhenSettled /\ [ChildNext]_childVars => GoneWhenSettled'
  <2> SUFFICES ASSUME GoneWhenSettled, [ChildNext]_childVars PROVE GoneWhenSettled'  OBVIOUS
  <2> USE DEF Status
  <2>1. CASE TurnEnds
    <3>1. CASE TurnThrows  BY <1>2, <3>1 DEF TurnThrows
    <3>2. ASSUME NEW st \in Status, NEW a \in BOOLEAN, TurnReturns(st, a)
          PROVE  GoneWhenSettled'
      <4>1. Settle(st) \/ Unsettled \/ Loop(st)  BY <3>2 DEF TurnReturns
      <4> QED  BY <1>2, <1>3, <1>4, <4>1 DEF Unsettled
    <3> QED  BY <2>1, <3>1, <3>2 DEF TurnEnds
  <2>2. CASE Resumes  BY <1>4, <2>2 DEF Resumes, Resume
  <2>3. CASE Interrupt("tool") \/ Deadline \/ ParentAborts
    BY <1>2, <2>3 DEF Deadline, ParentAborts, Interrupt
  <2>4. CASE \/ Send \/ Close \/ UNCHANGED childVars
            \/ \E w \in Await : WaitSettle(w) \/ AwaitGivesUp(w)
    BY <1>3, <2>4 DEF Send, Close, childVars, WaitSettle, AwaitGivesUp
  <2> QED  BY <2>1, <2>2, <2>3, <2>4 DEF ChildNext
<1> QED  BY <1>1, <1>5, PTL DEF ChildSpec

-----------------------------------------------------------------------------
USE JobAssumption

LiveOf(o) == {j \in Job : status[j] \in Live /\ owner[j] = o}

(* A step after which no further job is live keeps every cap. *)
LEMMA FewerLive ==
  ASSUME CapHolds, owner' = owner,
         \A j \in Job : status'[j] \in Live => status[j] \in Live
  PROVE  CapHolds'
<1> SUFFICES ASSUME NEW o \in Owner PROVE Cardinality(LiveOf(o)') <= MaxPerOwner
  BY DEF CapHolds, LiveOf
<1>1. LiveOf(o)' \subseteq LiveOf(o)  BY DEF LiveOf
<1>2. IsFiniteSet(LiveOf(o))  BY FS_Subset DEF LiveOf
<1>3. Cardinality(LiveOf(o)') <= Cardinality(LiveOf(o)) /\ IsFiniteSet(LiveOf(o)')
  BY <1>1, <1>2, FS_Subset
<1>4. Cardinality(LiveOf(o)) \in Nat /\ Cardinality(LiveOf(o)') \in Nat
  BY <1>2, <1>3, FS_CardinalityType
<1>5. Cardinality(LiveOf(o)) <= MaxPerOwner  BY DEF CapHolds, LiveOf
<1> QED  BY <1>3, <1>4, <1>5

(* Init establishes the invariant. *)
LEMMA InitRegistryInv == Init => RegistryInv
<1> SUFFICES ASSUME Init PROVE RegistryInv  OBVIOUS
<1>1. TypeOK  BY DEF Init, TypeOK
<1>2. CapHolds
  <2> SUFFICES ASSUME NEW o \in Owner PROVE Cardinality(LiveOf(o)) <= MaxPerOwner
    BY DEF CapHolds, LiveOf
  <2>1. LiveOf(o) = {}  BY DEF Init, LiveOf, Live
  <2> QED  BY <2>1, FS_EmptySet
<1>3. JobInv /\ LiveJobsAreStored /\ Unstarted /\ Leaving /\ Closing
  BY DEF Init, JobInv, LiveJobsAreStored, Unstarted, Leaving, Closing, Live, Terminal, Outcome
<1> QED  BY <1>1, <1>2, <1>3 DEF RegistryInv

(* A job is started within the cap of its owner. *)
LEMMA StartInv ==
  ASSUME RegistryInv, NEW j \in Job, NEW o \in Owner, Start(j, o)
  PROVE  RegistryInv'
<1> USE DEF RegistryInv, Start
<1>1. TypeOK'  BY DEF TypeOK, Live
<1>2. CapHolds'
  <2> SUFFICES ASSUME NEW p \in Owner PROVE Cardinality(LiveOf(p)') <= MaxPerOwner
    BY DEF CapHolds, LiveOf
  <2>1. CASE p = o
    <3>1. LiveOf(o)' = ActiveOf(o) \cup {j} /\ j \notin ActiveOf(o)
      BY DEF LiveOf, ActiveOf, TypeOK, LiveJobsAreStored, Live, Unstarted
    <3>2. IsFiniteSet(ActiveOf(o))  BY FS_Subset DEF ActiveOf, TypeOK
    <3>3. Cardinality(ActiveOf(o)) \in Nat  BY <3>2, FS_CardinalityType
    <3>4. Cardinality(ActiveOf(o) \cup {j}) = Cardinality(ActiveOf(o)) + 1
      BY <3>1, <3>2, FS_AddElement
    <3> QED  BY <2>1, <3>1, <3>3, <3>4
  <2>2. CASE p # o
    <3>1. LiveOf(p)' = LiveOf(p)  BY <2>2 DEF LiveOf, TypeOK, Live
    <3> QED  BY <3>1 DEF CapHolds, LiveOf
  <2> QED  BY <2>1, <2>2
<1>3. JobInv' /\ LiveJobsAreStored'
  BY DEF JobInv, LiveJobsAreStored, TypeOK, Live, Terminal, Outcome, Unstarted
<1>4. Unstarted' /\ Closing'
  BY DEF Unstarted, Closing, TypeOK
<1>5. Leaving'
  BY DEF Leaving, TypeOK, Terminal, Outcome
<1> QED  BY <1>1, <1>2, <1>3, <1>4, <1>5

(* A job is asked to stop. *)
LEMMA KillInv ==
  ASSUME RegistryInv, NEW j \in Job, NEW o \in Owner, Kill(j, o)
  PROVE  RegistryInv'
<1> USE DEF RegistryInv, Kill
<1>0. status[j] \in Live
  BY DEF TypeOK, Terminal, Outcome, Unstarted, Reaches
<1>1. TypeOK'  BY DEF TypeOK, Live
<1>2. CapHolds'  BY <1>0, FewerLive DEF TypeOK
<1>3. JobInv' /\ LiveJobsAreStored'
  BY <1>0 DEF JobInv, LiveJobsAreStored, TypeOK, Live, Terminal, Outcome
<1>4. Unstarted' /\ Leaving' /\ Closing'
  BY <1>0 DEF Unstarted, Leaving, Closing, TypeOK, Live, Terminal, Outcome
<1> QED  BY <1>1, <1>2, <1>3, <1>4

(* A producer ends. *)
LEMMA ProducerEndsInv ==
  ASSUME RegistryInv, NEW j \in Job, ProducerEnds(j) PROVE RegistryInv'
<1> USE DEF RegistryInv, ProducerEnds
<1>1. TypeOK'  BY DEF TypeOK
<1>2. CapHolds'  BY FewerLive
<1>3. JobInv' /\ LiveJobsAreStored' /\ Unstarted' /\ Leaving' /\ Closing'
  BY DEF JobInv, LiveJobsAreStored, Unstarted, Leaving, Closing, TypeOK
<1> QED  BY <1>1, <1>2, <1>3

(* The registry hears of it and settles the job. *)
LEMMA DoneHeardInv ==
  ASSUME RegistryInv, NEW j \in Job, NEW out \in Outcome, DoneHeard(j, out)
  PROVE  RegistryInv'
<1> USE DEF RegistryInv, DoneHeard, Settled
<1>0. status[j] # "none"  BY DEF Unstarted
<1>1. TypeOK'  BY DEF TypeOK, JobInv, Outcome, Terminal
<1>2. CapHolds'  BY FewerLive DEF Outcome, Live, TypeOK
<1>3. JobInv'
  <2>1. \A k \in Job : told'[k] = IF status'[k] \in Terminal THEN 1 ELSE 0
    BY DEF JobInv, TypeOK, Terminal
  <2>2. \A w \in Waiter : waits'[w] = "waiting" => status'[on'[w]] \in Live
    BY DEF JobInv, TypeOK, Terminal, Live, Outcome
  <2>5. \A w \in Waiter : waits'[w] = "waiting" => w \in clocks'
    BY DEF JobInv, TypeOK, Waiting
  <2>6. \A w \in clocks' : waits'[w] \in {"waiting", "rejected"}
    BY DEF JobInv, TypeOK, Waiting
  <2>3. \A k \in Job : status'[k] \in Live => producer'[k] \in {"alive", "done"}
    BY <1>0 DEF JobInv, TypeOK, Terminal, Live, Outcome
  <2>4. \A k \in Job : status'[k] \in Terminal => producer'[k] = "heard" \/ k \in unheeded'
    BY DEF JobInv, TypeOK, Terminal
  <2> QED  BY <2>1, <2>2, <2>3, <2>4, <2>5, <2>6 DEF JobInv
<1>4. LiveJobsAreStored'
  BY DEF LiveJobsAreStored, TypeOK, Live, Outcome
<1>5. Unstarted' /\ Leaving' /\ Closing'
  BY <1>0 DEF Unstarted, Leaving, Closing, TypeOK, Terminal, Outcome
<1> QED  BY <1>1, <1>2, <1>3, <1>4, <1>5

(* A caller begins to wait, or gives up. *)
LEMMA JobWaitInv ==
  ASSUME RegistryInv, NEW w \in Waiter,
         (\E j \in Job, o \in Owner : Wait(w, j, o)) \/ WaitAborted(w) \/ WaitTimesOut(w)
  PROVE  RegistryInv'
<1> USE DEF RegistryInv
<1> DEFINE Same == UNCHANGED <<store, owner, status, told, producer, cancelled, unheeded,
                               leaving, owned, pending, disposed, closing>>
           Waits == /\ \A x \in Waiter : waits'[x] = "waiting" => status[on'[x]] \in Live /\ x \in clocks'
                    /\ \A x \in clocks' : waits'[x] \in {"waiting", "rejected"}
<1>1. Same /\ TypeOK' /\ Waits
  <2>1. CASE WaitAborted(w)  BY <2>1 DEF WaitAborted, TypeOK, JobInv
  <2>2. CASE WaitTimesOut(w)
    <3>1. TypeOK'  BY <2>2 DEF WaitTimesOut, TypeOK
    <3>2. Waits  BY <2>2 DEF WaitTimesOut, TypeOK, JobInv
    <3> QED  BY <2>2, <3>1, <3>2 DEF WaitTimesOut
  <2>3. ASSUME NEW j \in Job, NEW o \in Owner, Wait(w, j, o) PROVE Same /\ TypeOK' /\ Waits
    <3>1. status[j] # "none"  BY <2>3 DEF Wait, Reaches, Unstarted
    <3>2. TypeOK'  BY <2>3 DEF Wait, TypeOK
    <3>3. Waits
      BY <2>3, <3>1 DEF Wait, TypeOK, JobInv, Terminal, Live, Outcome
    <3> QED  BY <2>3, <3>2, <3>3 DEF Wait
  <2> QED  BY <2>1, <2>2, <2>3
<1>2. CapHolds'  BY <1>1, FewerLive
<1>3. JobInv' /\ LiveJobsAreStored' /\ Unstarted' /\ Leaving' /\ Closing'
  BY <1>1 DEF JobInv, LiveJobsAreStored, Unstarted, Leaving, Closing
<1> QED  BY <1>1, <1>2, <1>3

(* The jobs of an owner are asked to stop; those whose cancel throws fail.  *)
LEMMA DisposeOwnerInv ==
  ASSUME RegistryInv, NEW o \in Owner, NEW S \in SUBSET Job, DisposeOwner(o, S)
  PROVE  RegistryInv'
<1> USE DEF RegistryInv, DisposeOwner, Throwing
<1>0. \A j \in S : status[j] \in Live /\ j \in store /\ told[j] = 0
  BY DEF JobInv, Terminal, Live, Outcome
<1>1. TypeOK'  BY <1>0 DEF TypeOK, Outcome, Live
<1>2. CapHolds'  BY FewerLive DEF TypeOK, Live
<1>3. JobInv'
  <2>1. \A k \in Job : told'[k] = IF status'[k] \in Terminal THEN 1 ELSE 0
    BY <1>0 DEF JobInv, TypeOK, Terminal, Live, Outcome
  <2>2. \A w \in Waiter : waits'[w] = "waiting" => status'[on'[w]] \in Live
    BY DEF JobInv, TypeOK, Live
  <2>5. \A w \in Waiter : waits'[w] = "waiting" => w \in clocks'
    BY DEF JobInv, TypeOK, Waiting
  <2>6. \A w \in clocks' : waits'[w] \in {"waiting", "rejected"}
    BY DEF JobInv, TypeOK, Waiting
  <2>3. \A k \in Job : status'[k] \in Live => producer'[k] \in {"alive", "done"}
    BY DEF JobInv, TypeOK, Live
  <2>4. \A k \in Job : status'[k] \in Terminal => producer'[k] = "heard" \/ k \in unheeded'
    BY DEF JobInv, TypeOK, Terminal, Live, Outcome
  <2> QED  BY <2>1, <2>2, <2>3, <2>4, <2>5, <2>6 DEF JobInv
<1>4. LiveJobsAreStored'
  BY DEF LiveJobsAreStored, TypeOK, Live
<1>5. Unstarted'
  BY <1>0 DEF Unstarted, TypeOK, Live
<1>6. Leaving'
  <2> SUFFICES ASSUME NEW p \in Owner, NEW j \in owned'[p]
               PROVE  (j \in pending'[p] \/ status'[j] \in Terminal) /\ status'[j] # "none"
    BY DEF Leaving
  <2>1. CASE p = o
    <3>1. j \in store /\ owner[j] = o /\ status[j] # "none" /\ j \in Job
      BY <2>1 DEF TypeOK, Unstarted
    <3>2. status[j] \in Live \/ status[j] \in Terminal
      BY <3>1 DEF TypeOK, Live, Terminal, Outcome
    <3> QED  BY <2>1, <3>1, <3>2 DEF TypeOK, Live, Terminal, Outcome
  <2>2. CASE p # o
    <3>1. j \in owned[p] /\ pending'[p] = pending[p] /\ j \in Job  BY <2>2 DEF TypeOK
    <3> QED  BY <3>1 DEF Leaving, TypeOK, Live, Terminal, Outcome
  <2> QED  BY <2>1, <2>2
<1>7. Closing'  BY DEF Closing
<1> QED  BY <1>1, <1>2, <1>3, <1>4, <1>5, <1>6, <1>7

(* The awaited jobs of an owner have ended: the store forgets the owner.    *)
LEMMA DisposeOwnerEndsInv ==
  ASSUME RegistryInv, NEW o \in Owner, DisposeOwnerEnds(o) PROVE RegistryInv'
<1> USE DEF RegistryInv, DisposeOwnerEnds
<1>1. TypeOK'  BY DEF TypeOK
<1>2. CapHolds'  BY FewerLive
<1>3. JobInv'  BY DEF JobInv
<1>4. LiveJobsAreStored'
  <2> SUFFICES ASSUME NEW j \in Job, status[j] \in Live, j \in owned[o] PROVE FALSE
    BY DEF LiveJobsAreStored
  <2>1. j \in pending[o]  BY DEF Leaving, Live, Terminal, Outcome
  <2>2. producer[j] = "heard"  BY <2>1
  <2> QED  BY <2>2 DEF JobInv
<1>5. Unstarted' /\ Leaving' /\ Closing'
  BY DEF Unstarted, Leaving, Closing, TypeOK
<1> QED  BY <1>1, <1>2, <1>3, <1>4, <1>5

(* The registry is disposed of. *)
LEMMA DisposeInv ==
  ASSUME RegistryInv, NEW S \in SUBSET Job, Dispose(S) PROVE RegistryInv'
<1> USE DEF RegistryInv, Dispose, Throwing
<1>1. TypeOK'  BY DEF TypeOK
<1>2. CapHolds'  BY FewerLive
<1>3. JobInv'  BY DEF JobInv, Live, Terminal, Outcome
<1>4. LiveJobsAreStored' /\ Unstarted' /\ Leaving' /\ Closing'
  BY DEF LiveJobsAreStored, Unstarted, Leaving, Closing, TypeOK, Live
<1> QED  BY <1>1, <1>2, <1>3, <1>4

LEMMA DisposeEndsInv ==
  ASSUME RegistryInv, DisposeEnds PROVE RegistryInv'
<1> USE DEF RegistryInv, DisposeEnds
<1>1. TypeOK'  BY DEF TypeOK
<1>2. CapHolds'  BY FewerLive
<1>3. LiveJobsAreStored'  BY DEF LiveJobsAreStored, Closing, JobInv
<1>4. JobInv' /\ Unstarted' /\ Leaving' /\ Closing'
  BY DEF JobInv, Unstarted, Leaving, Closing
<1> QED  BY <1>1, <1>2, <1>3, <1>4

(* Every step preserves the invariant. *)
LEMMA NextRegistryInv == RegistryInv /\ [Next]_vars => RegistryInv'
<1> SUFFICES ASSUME RegistryInv, [Next]_vars PROVE RegistryInv'  OBVIOUS
<1>1. CASE Next
  BY <1>1, StartInv, KillInv, ProducerEndsInv, DoneHeardInv, JobWaitInv, DisposeOwnerInv,
     DisposeOwnerEndsInv, DisposeInv, DisposeEndsInv DEF Next
<1>2. CASE UNCHANGED vars
  <2> USE <1>2 DEF vars, RegistryInv
  <2>1. TypeOK'  BY DEF TypeOK
  <2>2. CapHolds'  BY FewerLive
  <2>3. JobInv' /\ LiveJobsAreStored' /\ Unstarted' /\ Leaving' /\ Closing'
    BY DEF JobInv, LiveJobsAreStored, Unstarted, Leaving, Closing
  <2> QED  BY <2>1, <2>2, <2>3
<1> QED  BY <1>1, <1>2

(* The inductive invariant holds in every reachable state: the cap of every *)
(* owner, one report per ended job, no waiter of an ended job.              *)
THEOREM RegistryInvariance == Spec => []RegistryInv
<1> QED  BY InitRegistryInv, NextRegistryInv, PTL DEF Spec

(* No owner ever has more live jobs than its cap. *)
THEOREM CapAlwaysHolds == Spec => []CapHolds
<1>1. RegistryInv => CapHolds  BY DEF RegistryInv
<1> QED  BY <1>1, RegistryInvariance, PTL

(* Listeners are told once, nobody waits for a job that has ended, and only *)
(* an aborted wait leaves its timer behind.                                 *)
THEOREM ToldOnce == Spec => []JobInv
<1>1. RegistryInv => JobInv  BY DEF RegistryInv
<1> QED  BY <1>1, RegistryInvariance, PTL

(* An outcome, once settled, never changes: every later end, kill or        *)
(* disposal of the job finds it settled.                                    *)
THEOREM OutcomesAreFinal == Spec => OutcomeIsFinal
<1>1. RegistryInv /\ [Next]_vars
        => [\A j \in Job : status[j] \in Terminal => status'[j] = status[j]]_vars
  <2> SUFFICES ASSUME RegistryInv, Next, NEW j \in Job, status[j] \in Terminal
               PROVE  status'[j] = status[j]
    OBVIOUS
  <2> USE DEF RegistryInv, TypeOK, Terminal, Outcome, Live
  <2>1. ASSUME NEW k \in Job, NEW o \in Owner, Start(k, o) \/ Kill(k, o) PROVE status'[j] = status[j]
    BY <2>1 DEF Start, Kill
  <2>2. ASSUME NEW k \in Job, NEW out \in Outcome, ProducerEnds(k) \/ DoneHeard(k, out)
        PROVE  status'[j] = status[j]
    BY <2>2 DEF ProducerEnds, DoneHeard, Settled
  <2>3. ASSUME NEW w \in Waiter, NEW k \in Job, NEW o \in Owner,
               Wait(w, k, o) \/ WaitAborted(w) \/ WaitTimesOut(w)
        PROVE  status'[j] = status[j]
    BY <2>3 DEF Wait, WaitAborted, WaitTimesOut
  <2>4. ASSUME NEW o \in Owner, NEW S \in SUBSET Job, DisposeOwner(o, S)
        PROVE  status'[j] = status[j]
    BY <2>4 DEF DisposeOwner, Throwing
  <2>5. ASSUME NEW o \in Owner, NEW S \in SUBSET Job, DisposeOwnerEnds(o) \/ Dispose(S) \/ DisposeEnds
        PROVE  status'[j] = status[j]
    BY <2>5 DEF DisposeOwnerEnds, Dispose, DisposeEnds
  <2> QED  BY <2>1, <2>2, <2>3, <2>4, <2>5 DEF Next, ProducerEnds, WaitAborted, WaitTimesOut, DisposeOwnerEnds, DisposeEnds
<1> QED  BY <1>1, RegistryInvariance, PTL DEF Spec, OutcomeIsFinal

---------------------------------------------------------------------------
(* The refinement: what a step does on the job board. *)
Shown == [j \in Job |-> IF status[j] \in Live THEN "active" ELSE status[j]]

(* Jobs that end together, as one step of the board. *)
LEMMA EndsOnBoard ==
  ASSUME RegistryInv, NEW E \in SUBSET Job, E # {}, NEW out \in Outcome,
         \A j \in E : status[j] \in Live,
         Shown' = [j \in Job |-> IF j \in E THEN out ELSE Shown[j]],
         told' = [j \in Job |-> IF j \in E THEN told[j] + 1 ELSE told[j]],
         owner' = owner
  PROVE  Board!Finish(E, out)
<1>1. \A j \in E : Shown[j] = "active" /\ told[j] = 0
  BY DEF Shown, RegistryInv, JobInv, Live, Terminal, Outcome
<1>2. told' = [j \in Job |-> IF j \in E THEN 1 ELSE told[j]]
  BY <1>1 DEF RegistryInv, TypeOK
<1> QED  BY <1>1, <1>2 DEF Board!Finish, Shown

(* A start within the cap of the registry is a start within the board's.    *)
LEMMA StartOnBoard ==
  ASSUME RegistryInv, NEW j \in Job, NEW o \in Owner, Start(j, o)
  PROVE  Board!Begin(j, o)
<1> USE DEF RegistryInv, Start
<1>1. Board!Active(o) = ActiveOf(o)
  BY DEF Board!Active, ActiveOf, Unstarted, LiveJobsAreStored, TypeOK, Live, Outcome
<1>2. Shown[j] = "none" /\ Shown' = [Shown EXCEPT ![j] = "active"]
  BY DEF Shown, TypeOK, Live
<1>3. Board!Cardinality(Board!Active(o)) = Cardinality(ActiveOf(o))
  BY <1>1 DEF Cardinality, Board!Cardinality
<1> QED  BY <1>1, <1>2, <1>3 DEF Board!Begin, Shown

(* Every step of the registry is a step of the board or leaves it alone.    *)
LEMMA StepOnBoard ==
  ASSUME RegistryInv, [Next]_vars
  PROVE  [Board!Next]_<<Shown, owner, told>>
<1> DEFINE Same == UNCHANGED <<Shown, owner, told>>
<1>1. ASSUME NEW j \in Job, NEW o \in Owner, Start(j, o) PROVE Board!Next
  BY <1>1, StartOnBoard DEF Board!Next
<1>2. ASSUME NEW j \in Job, NEW o \in Owner, Kill(j, o) PROVE Same
  <2>1. status[j] \in Live  BY <1>2 DEF Kill, Reaches, RegistryInv, Unstarted, TypeOK, Live, Terminal
  <2> QED  BY <1>2, <2>1 DEF Kill, Shown, Live, RegistryInv, TypeOK
<1>3. ASSUME NEW j \in Job, NEW out \in Outcome, DoneHeard(j, out) PROVE Board!Next \/ Same
  <2>1. CASE status[j] \in Terminal
    BY <1>3, <2>1 DEF DoneHeard, Settled, Shown, RegistryInv, TypeOK
  <2>2. CASE status[j] \notin Terminal
    <3>1. status[j] \in Live
      BY <1>3, <2>2 DEF DoneHeard, RegistryInv, Unstarted, TypeOK, Live, Terminal
    <3>2. told' = [k \in Job |-> IF k \in {j} THEN told[k] + 1 ELSE told[k]] /\ owner' = owner
      BY <1>3, <2>2 DEF DoneHeard, Settled
    <3>3. Shown' = [k \in Job |-> IF k \in {j} THEN out ELSE Shown[k]]
      BY <1>3, <2>2, <3>1 DEF DoneHeard, Settled, Shown, Live, Outcome
    <3>4. Board!Finish({j}, out)  BY <3>1, <3>2, <3>3, EndsOnBoard
    <3> QED  BY <3>4 DEF Board!Next, Board!Outcome, Outcome
  <2> QED  BY <2>1, <2>2
<1>4. ASSUME NEW o \in Owner, NEW S \in SUBSET Job, DisposeOwner(o, S) PROVE Board!Next \/ Same
  <2>1. \A k \in S : status[k] \in Live  BY <1>4 DEF DisposeOwner, Throwing
  <2>2. Shown' = [k \in Job |-> IF k \in S THEN "failed" ELSE Shown[k]]
    BY <1>4, <2>1 DEF DisposeOwner, Shown, Live
  <2>3. told' = [k \in Job |-> IF k \in S THEN told[k] + 1 ELSE told[k]] /\ owner' = owner
    BY <1>4 DEF DisposeOwner
  <2>4. CASE S = {}
    BY <2>2, <2>3, <2>4 DEF Shown, RegistryInv, TypeOK
  <2>5. CASE S # {}
    <3>1. Board!Finish(S, "failed")  BY <2>1, <2>2, <2>3, <2>5, EndsOnBoard DEF Outcome
    <3> QED  BY <3>1 DEF Board!Next, Board!Outcome
  <2> QED  BY <2>4, <2>5
<1>5. ASSUME \/ \E j \in Job : ProducerEnds(j)
             \/ \E w \in Waiter, j \in Job, o \in Owner : Wait(w, j, o)
             \/ \E w \in Waiter : WaitAborted(w) \/ WaitTimesOut(w)
             \/ \E o \in Owner : DisposeOwnerEnds(o)
             \/ \E S \in SUBSET Job : Dispose(S)
             \/ DisposeEnds
             \/ UNCHANGED vars
      PROVE  Same
  BY <1>5 DEF ProducerEnds, Wait, WaitAborted, WaitTimesOut, DisposeOwnerEnds, Dispose, DisposeEnds,
              Shown, vars
<1> QED  BY <1>1, <1>2, <1>3, <1>4, <1>5 DEF Next

(* The registry implements the job board: bounded active jobs per session,  *)
(* every job ends once and is reported at that moment and never again.      *)
THEOREM RegistryImplementsBoard == Spec => ImplementsBoard
<1>1. Init => Board!Init
  BY DEF Init, Board!Init, Live
<1>2. RegistryInv /\ [Next]_vars => [Board!Next]_<<Shown, owner, told>>
  BY StepOnBoard
<1> QED  BY <1>1, <1>2, RegistryInvariance, PTL DEF Spec, ImplementsBoard, Board!Spec, Shown

-----------------------------------------------------------------------------
(* A peer task.  What the peer accepted was executed or is in its inbox,   *)
(* unless the task failed or is about to; only a task that has ended, over *)
(* a verified answer, is answered with "pass"; and the start is the first  *)
(* request of all, so that no later one can empty the inbox again.         *)

Answers == [call : PeerCall, says : {"ok", "error", "none", "pass", "fail"}]
InInbox == {queue[k] : k \in DOMAIN queue}

StartIsFirst == \A k \in DOMAIN requests : requests[k] = "start" => k = 1 /\ taken = {}
PassIsReal == \A k \in DOMAIN replies : replies[k].says = "pass" => TaskSettled /\ last = "pass"

PeerTypeOK ==
  /\ (\E S : requests \in Seq(S)) /\ replies \in Seq(Answers)
  /\ calls["start"] # "queued" /\ DOMAIN calls = PeerCall
  /\ task \in [is : {"new", "live", "gone"}, auto : BOOLEAN, closed : BOOLEAN, aborted : BOOLEAN,
               status : {"running", "completed", "failed"}]
  /\ queue \in Seq(SendCall \cup {"objective"})
  /\ last \in {"none", "pass", "fail"} /\ asked \subseteq WaitCall

PeerInv ==
  /\ PeerTypeOK
  /\ at # "idle" => ~TaskSettled /\ task.is = "live"
  /\ task.is = "new" => taken = {} /\ ~TaskSettled
  /\ StartIsFirst
  /\ task.status = "running" /\ ~task.aborted => taken \subseteq ran \cup InInbox
  /\ task.status = "completed" => taken \subseteq ran
  /\ PassIsReal
  /\ handle = "completed" => TaskSettled /\ last = "pass"

LEMMA InitPeerInv == PeerInit => PeerInv
<1> SUFFICES ASSUME PeerInit PROVE PeerInv  OBVIOUS
<1>1. requests = <<"start">> /\ DOMAIN requests = 1..1 /\ requests[1] = "start"
  BY DEF PeerInit
<1>2. replies = <<>> /\ controls = <<>> /\ queue = <<>> /\ DOMAIN replies = {}
  BY DEF PeerInit
<1>3. requests \in Seq({"start"})  BY <1>1
<1>5. DOMAIN calls = PeerCall /\ calls["start"] # "queued"  BY DEF PeerInit, PeerCall
<1>6. task \in [is : {"new", "live", "gone"}, auto : BOOLEAN, closed : BOOLEAN, aborted : BOOLEAN,
               status : {"running", "completed", "failed"}]
  BY DEF PeerInit
<1>7. replies \in Seq(Answers) /\ queue \in Seq(SendCall \cup {"objective"})
  BY <1>2, EmptySeq
<1>8. \E S : requests \in Seq(S)  BY <1>3
<1>9. last \in {"none", "pass", "fail"} /\ asked \subseteq WaitCall  BY DEF PeerInit
<1>10. PeerTypeOK
  BY <1>5, <1>6, <1>7, <1>8, <1>9 DEF PeerTypeOK
<1>4. StartIsFirst  BY <1>1 DEF StartIsFirst, PeerInit
<1> QED  BY <1>2, <1>4, <1>10 DEF PeerInit, PeerInv, PassIsReal, TaskSettled

(* An answer more, in the order the peer gives them. *)
LEMMA ReplyKeeps ==
  ASSUME PeerTypeOK, PassIsReal, NEW c \in PeerCall,
         NEW says \in {"ok", "error", "none", "pass", "fail"}, Reply(c, says),
         says = "pass" => TaskSettled /\ last = "pass",
         TaskSettled /\ last = "pass" => TaskSettled' /\ last' = "pass"
  PROVE  replies' \in Seq(Answers) /\ PassIsReal'
<1>1. CASE replies' = replies  BY <1>1 DEF PeerTypeOK, PassIsReal
<1>2. CASE replies' = Append(replies, [call |-> c, says |-> says])
  <2> DEFINE a == [call |-> c, says |-> says]
  <2>1. a \in Answers /\ a.says = says  BY DEF Answers
  <2> HIDE DEF a
  <2>2. /\ replies' \in Seq(Answers) /\ Len(replies) \in Nat /\ DOMAIN replies = 1..Len(replies)
        /\ DOMAIN replies' = 1..Len(replies) + 1
        /\ \A k \in 1..Len(replies) : replies'[k] = replies[k]
        /\ replies'[Len(replies) + 1] = a
    BY <1>2, <2>1, AppendProperties, LenProperties DEF PeerTypeOK, a
  <2> QED  BY <2>1, <2>2 DEF PassIsReal
<1> QED  BY <1>1, <1>2 DEF Reply

(* The caller's side changes nothing of the peer's, and can lose answers.  *)
LEMMA CallerKeeps ==
  ASSUME PeerInv, UNCHANGED peerVars, \E S : requests' \in Seq(S), StartIsFirst',
         replies' \in Seq(Answers), calls'["start"] # "queued", DOMAIN calls' = PeerCall,
         \A k \in DOMAIN replies' : \E i \in DOMAIN replies : replies'[k] = replies[i],
         handle' = "completed" => handle = "completed" \/ (TaskSettled /\ last = "pass")
  PROVE  PeerInv'
<1>1. PassIsReal'  BY DEF PeerInv, PassIsReal, peerVars, TaskSettled
<1> QED  BY <1>1 DEF PeerInv, PeerTypeOK, peerVars, TaskSettled, InInbox

(* A queue is the same, or is without its first element.                   *)
LEMMA TailOf ==
  ASSUME NEW S, NEW s \in Seq(S), s # <<>>
  PROVE  /\ Head(s) \in S /\ Head(s) = s[1] /\ 1 \in DOMAIN s /\ Tail(s) \in Seq(S)
         /\ \A k \in DOMAIN Tail(s) : k + 1 \in DOMAIN s /\ Tail(s)[k] = s[k + 1]
         /\ \A k \in DOMAIN s : k = 1 \/ (k - 1 \in DOMAIN Tail(s) /\ Tail(s)[k - 1] = s[k])
<1>1. /\ Len(s) \in Nat /\ Len(s) > 0 /\ DOMAIN s = 1..Len(s) /\ Head(s) = s[1]
      /\ Tail(s) \in Seq(S) /\ Len(Tail(s)) = Len(s) - 1 /\ DOMAIN Tail(s) = 1..Len(Tail(s))
      /\ \A k \in 1..Len(Tail(s)) : Tail(s)[k] = s[k + 1]
  BY HeadTailProperties, LenProperties, EmptySeq
<1>2. s[1] \in S  BY <1>1, ElementOfSeq
<1>3. \A k \in 1..Len(s) : k = 1 \/ (k - 1 \in 1..Len(s) - 1 /\ (k - 1) + 1 = k)  BY <1>1
<1>4. \A k \in DOMAIN Tail(s) : k + 1 \in DOMAIN s  BY <1>1
<1>5. \A k \in DOMAIN s : k = 1 \/ (k - 1 \in DOMAIN Tail(s) /\ Tail(s)[k - 1] = s[k])
  BY <1>1, <1>3
<1> QED  BY <1>1, <1>2, <1>4, <1>5

LEMMA EndsKeeps ==
  ASSUME PeerInv, NEW c, NEW how \in {"ok", "failed"}, NEW answer, Ends(c, how, answer),
         how = "ok" /\ answer = "pass" => TaskSettled /\ last = "pass",
         UNCHANGED <<requests, peerVars>>, replies' \in Seq(Answers),
         \A k \in DOMAIN replies' : \E i \in DOMAIN replies : replies'[k] = replies[i]
  PROVE  PeerInv'
<1>1. StartIsFirst'  BY DEF PeerInv, StartIsFirst, peerVars
<1>2. handle' = "completed" => handle = "completed" \/ (TaskSettled /\ last = "pass")
  BY DEF Ends, StatusOf
<1>3. calls'["start"] # "queued" /\ DOMAIN calls' = PeerCall
  BY DEF Ends, PeerInv, PeerTypeOK
<1> QED  BY <1>1, <1>2, <1>3, CallerKeeps DEF PeerInv, PeerTypeOK

(* No caller's step touches what the peer knows.                           *)
LEMMA CallerStep ==
  ASSUME PeerInv, NEW c \in PeerCall,
         Invoke(c) \/ LinesUp(c) \/ Enqueue(c) \/ TimesOut(c) \/ RunControl \/ Receive \/ Breaks
  PROVE  PeerInv'
<1>0. /\ (\E S : requests \in Seq(S)) /\ replies \in Seq(Answers) /\ StartIsFirst
      /\ calls["start"] # "queued" /\ DOMAIN calls = PeerCall
  BY DEF PeerInv, PeerTypeOK
<1>1. CASE Invoke(c) \/ LinesUp(c) \/ Enqueue(c)
  <2>1. UNCHANGED <<requests, replies, handle, peerVars>>
    BY <1>1 DEF Invoke, LinesUp, Enqueue
  <2>2. calls'["start"] # "queued" /\ DOMAIN calls' = PeerCall
    <3>1. c = "start" => ~Invoke(c) /\ ~Enqueue(c)  BY PeerAssumption DEF Invoke, Enqueue
    <3>2. calls' = calls \/ \E v : calls' = [calls EXCEPT ![c] = v]
      BY <1>1 DEF Invoke, LinesUp, Enqueue
    <3>3. c = "start" => calls' = calls  BY <1>1, <3>1 DEF LinesUp
    <3>4. DOMAIN calls' = PeerCall  BY <1>0, <3>2
    <3>5. c # "start" => calls'["start"] = calls["start"]  BY <1>0, <3>2 DEF PeerCall
    <3> QED  BY <1>0, <3>3, <3>4, <3>5
  <2>3. StartIsFirst'  BY <1>0, <2>1 DEF StartIsFirst, peerVars
  <2> QED  BY <1>0, <2>1, <2>2, <2>3, CallerKeeps
<1>3. CASE TimesOut(c)
  <2>1. /\ calls[c] = "sent" /\ Ends(c, "failed", "none") /\ UNCHANGED <<link, requests, peerVars>>
    BY <1>3 DEF TimesOut
  <2>2. /\ replies' \in Seq(Answers)
        /\ \A k \in DOMAIN replies' : \E i \in DOMAIN replies : replies'[k] = replies[i]
    <3>1. CASE replies' = replies  BY <1>0, <3>1
    <3>2. CASE \E k \in DOMAIN replies : replies' = AnswerLost(k)
      <4>1. PICK k \in DOMAIN replies : replies' = AnswerLost(k)  BY <3>2
      <4>2. Len(replies) \in Nat /\ DOMAIN replies = 1..Len(replies) /\ k \in 1..Len(replies)
        BY <1>0, <4>1, LenProperties
      <4> DEFINE s == SubSeq(replies, 1, k - 1)
                 t == SubSeq(replies, k + 1, Len(replies))
      <4>3. \A i \in 1..Len(replies) : replies[i] \in Answers  BY <1>0, ElementOfSeq
      <4>4. /\ s \in Seq(Answers) /\ Len(s) = k - 1 /\ \A i \in 1..k - 1 : s[i] = replies[i]
        <5>1. 1 \in Int /\ k - 1 \in Int /\ \A i \in 1..k - 1 : replies[i] \in Answers
          BY <4>2, <4>3
        <5>2. /\ s \in Seq(Answers)
              /\ Len(s) = IF 1 <= k - 1 THEN k - 1 - 1 + 1 ELSE 0
              /\ \A i \in 1..k - 1 - 1 + 1 : s[i] = replies[1 + i - 1]
          BY <5>1, SubSeqProperties
        <5>3. k - 1 - 1 + 1 = k - 1 /\ (~(1 <= k - 1) => k - 1 = 0)  BY <4>2
        <5> HIDE DEF s
        <5> QED  BY <4>2, <5>2, <5>3
      <4>5. /\ t \in Seq(Answers) /\ Len(t) = Len(replies) - k
            /\ \A i \in 1..Len(replies) - k : t[i] = replies[k + i]
        <5>1. /\ k + 1 \in Int /\ Len(replies) \in Int
              /\ \A i \in k + 1..Len(replies) : replies[i] \in Answers
          BY <4>2, <4>3
        <5>2. /\ t \in Seq(Answers)
              /\ Len(t) = IF k + 1 <= Len(replies) THEN Len(replies) - (k + 1) + 1 ELSE 0
              /\ \A i \in 1..Len(replies) - (k + 1) + 1 : t[i] = replies[k + 1 + i - 1]
          BY <5>1, SubSeqProperties
        <5>3. /\ Len(replies) - (k + 1) + 1 = Len(replies) - k
              /\ (~(k + 1 <= Len(replies)) => Len(replies) - k = 0)
          BY <4>2
        <5> HIDE DEF t
        <5>4. \A i \in 1..Len(replies) - k : k + 1 + i - 1 = k + i  BY <4>2
        <5> QED  BY <4>2, <5>2, <5>3, <5>4
      <4>6. replies' = s \o t  BY <4>1 DEF AnswerLost
      <4> HIDE DEF s, t
      <4>7. /\ replies' \in Seq(Answers) /\ Len(s) \in Nat /\ Len(t) \in Nat
            /\ DOMAIN replies' = 1..Len(s) + Len(t)
            /\ \A i \in 1..Len(s) + Len(t) : replies'[i] = IF i <= Len(s) THEN s[i] ELSE t[i - Len(s)]
        BY <4>4, <4>5, <4>6, ConcatProperties, LenProperties
      <4>8. ASSUME NEW i \in DOMAIN replies' PROVE \E m \in DOMAIN replies : replies'[i] = replies[m]
        <5>1. i \in Nat /\ i >= 1 /\ i <= Len(s) + Len(t)  BY <4>7
        <5>2. CASE i <= Len(s)
          <6>1. i \in 1..k - 1 /\ i \in 1..Len(replies)  BY <4>2, <4>4, <5>1, <5>2
          <6> QED  BY <4>2, <4>4, <4>7, <5>2, <6>1
        <5>3. CASE ~(i <= Len(s))
          <6>1. i - Len(s) \in 1..Len(replies) - k /\ k + (i - Len(s)) \in 1..Len(replies)
            BY <4>2, <4>4, <4>5, <5>1, <5>3
          <6> QED  BY <4>2, <4>5, <4>7, <5>3, <6>1
        <5> QED  BY <5>2, <5>3
      <4> QED  BY <4>7, <4>8
    <3> QED  BY <1>3, <3>1, <3>2 DEF TimesOut
  <2> QED  BY <2>1, <2>2, EndsKeeps
<1>4. CASE RunControl
  <2> DEFINE h == Head(controls)
  <2>1. /\ calls[h] = "queued" /\ h # "start"
        /\ \E v : calls' = [calls EXCEPT ![h] = v]
        /\ requests' = requests \/ requests' = Append(requests, h)
        /\ UNCHANGED <<replies, handle, peerVars>>
    BY <1>0, <1>4 DEF RunControl, Request, OnceSettled
  <2>2. calls'["start"] # "queued" /\ DOMAIN calls' = PeerCall  BY <1>0, <2>1
  <2> HIDE DEF h
  <2>3. (\E S : requests' \in Seq(S)) /\ StartIsFirst'
    <3>1. CASE requests' = requests  BY <1>0, <2>1, <3>1 DEF StartIsFirst, peerVars
    <3>2. CASE requests' = Append(requests, h)
      <4>1. PICK S : requests \in Seq(S)  BY <1>0
      <4>2. requests \in Seq(S \cup {h})  BY <4>1, SeqMonotonic
      <4>3. /\ requests' \in Seq(S \cup {h}) /\ Len(requests) \in Nat
            /\ DOMAIN requests = 1..Len(requests) /\ DOMAIN requests' = 1..Len(requests) + 1
            /\ \A k \in 1..Len(requests) : requests'[k] = requests[k]
            /\ requests'[Len(requests) + 1] = h
        BY <3>2, <4>2, AppendProperties, LenProperties
      <4>4. StartIsFirst'  BY <1>0, <2>1, <4>3 DEF StartIsFirst, peerVars
      <4> QED  BY <4>3, <4>4
    <3> QED  BY <2>1, <3>1, <3>2
  <2> QED  BY <1>0, <2>1, <2>2, <2>3, CallerKeeps
<1>5. CASE Receive
  <2> DEFINE r == Head(replies)
  <2>1. /\ replies # <<>> /\ replies' = Tail(replies) /\ UNCHANGED <<requests, peerVars>>
        /\ Ends(r.call, IF r.says = "error" THEN "failed" ELSE "ok", r.says)
    BY <1>5 DEF Receive
  <2>2. /\ r = replies[1] /\ 1 \in DOMAIN replies /\ replies' \in Seq(Answers)
        /\ \A k \in DOMAIN replies' : k + 1 \in DOMAIN replies /\ replies'[k] = replies[k + 1]
    BY <1>0, <2>1, TailOf
  <2>3. r.says = "pass" => TaskSettled /\ last = "pass"  BY <2>2 DEF PeerInv, PassIsReal
  <2> HIDE DEF r
  <2> DEFINE how == IF r.says = "error" THEN "failed" ELSE "ok"
  <2>4. how \in {"ok", "failed"} /\ Ends(r.call, how, r.says)  BY <2>1
  <2> HIDE DEF how
  <2> QED  BY <2>1, <2>2, <2>3, <2>4, EndsKeeps
<1>6. CASE Breaks
  <2>1. requests' = <<>> /\ replies' = <<>> /\ UNCHANGED <<calls, handle, peerVars>>
    BY <1>6 DEF Breaks, clientVars
  <2>2. DOMAIN requests' = {} /\ DOMAIN replies' = {} /\ requests' \in Seq({}) /\ replies' \in Seq(Answers)
    BY <2>1
  <2>3. StartIsFirst'  BY <2>2 DEF StartIsFirst
  <2> QED  BY <1>0, <2>1, <2>2, <2>3, CallerKeeps
<1> QED  BY <1>1, <1>3, <1>4, <1>5, <1>6

(* The peer's side: a request.                                             *)
LEMMA HandleKeeps == ASSUME PeerInv, Handle PROVE PeerInv'
<1> DEFINE c == Head(requests)
<1>0. PICK S : requests \in Seq(S)  BY DEF PeerInv, PeerTypeOK
<1>1. /\ requests # <<>> /\ requests' = Tail(requests) /\ UNCHANGED <<link, clientVars>>
      /\ HandleStart(c) \/ HandleSend(c) \/ HandleControl(c) \/ HandleWait(c)
  BY DEF Handle
<1>2. /\ c = requests[1] /\ 1 \in DOMAIN requests /\ requests' \in Seq(S)
      /\ \A k \in DOMAIN requests' : k + 1 \in DOMAIN requests /\ requests'[k] = requests[k + 1]
  BY <1>0, <1>1, TailOf
<1>3. \A k \in DOMAIN requests' : requests'[k] # "start"
  <2> SUFFICES ASSUME NEW k \in DOMAIN requests' PROVE requests'[k] # "start"  OBVIOUS
  <2>1. k \in Nat /\ k >= 1 /\ k + 1 # 1  BY <1>2, LenProperties
  <2> QED  BY <1>2, <2>1 DEF PeerInv, StartIsFirst
<1>4. StartIsFirst'  BY <1>3 DEF StartIsFirst
<1>5. c = "start" => taken = {}  BY <1>2 DEF PeerInv, StartIsFirst
<1> HIDE DEF c
<1>6. PeerTypeOK /\ PassIsReal /\ Len(queue) \in Nat /\ DOMAIN queue = 1..Len(queue)
  BY LenProperties DEF PeerInv, PeerTypeOK
<1>7. (\E T : requests' \in Seq(T)) /\ calls'["start"] # "queued" /\ DOMAIN calls' = PeerCall
  BY <1>1, <1>2 DEF PeerInv, PeerTypeOK, clientVars
<1>8. CASE HandleStart(c)
  <2>1. /\ c = "start" /\ task' = [task EXCEPT !.is = "live"] /\ queue' = <<"objective">>
        /\ Reply(c, "ok") /\ UNCHANGED <<at, last, asked, ran, taken>>
    BY <1>8 DEF HandleStart
  <2>2. replies' \in Seq(Answers) /\ PassIsReal'
    <3>1. TaskSettled => TaskSettled'  BY <1>6, <2>1 DEF TaskSettled, PeerTypeOK
    <3> QED  BY <1>6, <2>1, <3>1, ReplyKeeps DEF PeerCall
  <2>3. queue' \in Seq(SendCall \cup {"objective"})  BY <2>1
  <2>4. task'.status = task.status /\ task'.is = "live" /\ task'.aborted = task.aborted
        /\ task' \in [is : {"new", "live", "gone"}, auto : BOOLEAN, closed : BOOLEAN,
                      aborted : BOOLEAN, status : {"running", "completed", "failed"}]
    BY <1>6, <2>1 DEF PeerTypeOK
  <2>5. PeerTypeOK'  BY <1>6, <1>7, <2>1, <2>2, <2>3, <2>4 DEF PeerTypeOK
  <2> QED  BY <1>1, <1>4, <1>5, <2>1, <2>2, <2>4, <2>5 DEF PeerInv, TaskSettled, clientVars
<1>9. CASE HandleSend(c)
  <2>1. CASE task.is = "live" /\ ~TaskSettled
    <3>1. /\ c \in SendCall /\ queue' = Append(queue, c) /\ taken' = taken \cup {c} /\ Reply(c, "ok")
          /\ UNCHANGED <<task, at, last, asked, ran>>
      BY <1>9, <2>1 DEF HandleSend
    <3>2. replies' \in Seq(Answers) /\ PassIsReal'
      BY <1>6, <3>1, ReplyKeeps DEF PeerCall, TaskSettled
    <3>3. /\ queue' \in Seq(SendCall \cup {"objective"}) /\ DOMAIN queue' = 1..Len(queue) + 1
          /\ \A k \in 1..Len(queue) : queue'[k] = queue[k]
          /\ queue'[Len(queue) + 1] = c
      BY <1>6, <3>1, AppendProperties, LenProperties DEF PeerTypeOK
    <3>4. InInbox \cup {c} \subseteq InInbox'
      BY <1>6, <3>3 DEF InInbox
    <3>5. PeerTypeOK'  BY <1>6, <1>7, <3>1, <3>2, <3>3 DEF PeerTypeOK
    <3> QED  BY <1>1, <1>4, <2>1, <3>1, <3>2, <3>4, <3>5 DEF PeerInv, TaskSettled, clientVars
  <2>2. CASE ~(task.is = "live" /\ ~TaskSettled)
    <3>1. c \in SendCall /\ Reply(c, "error") /\ UNCHANGED peerVars
      BY <1>9, <2>2 DEF HandleSend, peerVars
    <3>2. replies' \in Seq(Answers) /\ PassIsReal'
      BY <1>6, <3>1, ReplyKeeps DEF PeerCall, TaskSettled, peerVars
    <3>3. PeerTypeOK'  BY <1>6, <1>7, <3>1, <3>2 DEF PeerTypeOK, peerVars
    <3> QED  BY <1>1, <1>4, <3>1, <3>2, <3>3 DEF PeerInv, TaskSettled, clientVars, peerVars, InInbox
  <2> QED  BY <2>1, <2>2
<1>10. CASE HandleControl(c)
  <2>1. /\ c \in ControlCall /\ UNCHANGED <<at, last, asked, ran, taken>>
        /\ Reply(c, IF task.is = "live" THEN "ok" ELSE "error")
    BY <1>10 DEF HandleControl
  <2>2. CASE task.is = "live" /\ ~TaskSettled
    <3>1. /\ task' = [task EXCEPT !.closed = TRUE, !.aborted = @ \/ c # "close"]
          /\ queue' = IF c = "close" THEN queue ELSE <<>>
      BY <1>10, <2>2 DEF HandleControl
    <3>2. /\ task' \in [is : {"new", "live", "gone"}, auto : BOOLEAN, closed : BOOLEAN,
                        aborted : BOOLEAN, status : {"running", "completed", "failed"}]
          /\ task'.is = task.is /\ task'.status = task.status
          /\ ~task'.aborted => ~task.aborted /\ queue' = queue
      BY <1>6, <3>1 DEF PeerTypeOK
    <3>3. queue' \in Seq(SendCall \cup {"objective"})  BY <1>6, <3>1, EmptySeq DEF PeerTypeOK
    <3>4. replies' \in Seq(Answers) /\ PassIsReal'
      BY <1>6, <2>1, <3>2, ReplyKeeps DEF PeerCall, TaskSettled
    <3>5. PeerTypeOK'  BY <1>6, <1>7, <2>1, <3>2, <3>3, <3>4 DEF PeerTypeOK
    <3> QED  BY <1>1, <1>4, <2>1, <2>2, <3>2, <3>4, <3>5 DEF PeerInv, TaskSettled, clientVars, InInbox
  <2>3. CASE ~(task.is = "live" /\ ~TaskSettled)
    <3>1. UNCHANGED peerVars  BY <1>10, <2>1, <2>3 DEF HandleControl, peerVars
    <3>2. replies' \in Seq(Answers) /\ PassIsReal'
      BY <1>6, <2>1, <3>1, ReplyKeeps DEF PeerCall, TaskSettled, peerVars
    <3>3. PeerTypeOK'  BY <1>6, <1>7, <3>1, <3>2 DEF PeerTypeOK, peerVars
    <3> QED  BY <1>1, <1>4, <3>1, <3>2, <3>3 DEF PeerInv, TaskSettled, clientVars, peerVars, InInbox
  <2> QED  BY <2>2, <2>3
<1>11. CASE HandleWait(c)
  <2>1. c \in WaitCall /\ UNCHANGED <<task, queue, at, last, ran, taken>>
        /\ (asked' = asked \/ asked' = asked \cup {c})
    BY <1>11 DEF HandleWait
  <2>2. replies' \in Seq(Answers) /\ PassIsReal'
    <3>1. CASE task.is = "live" /\ ~TaskSettled
      BY <1>6, <1>11, <2>1, <3>1 DEF HandleWait, PassIsReal, TaskSettled, PeerTypeOK
    <3>2. CASE task.is = "live" /\ TaskSettled
      <4>1. Reply(c, last)  BY <1>11, <3>2 DEF HandleWait
      <4>2. last \in {"ok", "error", "none", "pass", "fail"}  BY <1>6 DEF PeerTypeOK
      <4> QED  BY <1>6, <2>1, <3>2, <4>1, <4>2, ReplyKeeps DEF PeerCall, TaskSettled
    <3>3. CASE task.is # "live"
      <4>1. Reply(c, "error")  BY <1>11, <3>3 DEF HandleWait
      <4> QED  BY <1>6, <2>1, <4>1, ReplyKeeps DEF PeerCall, TaskSettled
    <3> QED  BY <3>1, <3>2, <3>3
  <2>3. PeerTypeOK'  BY <1>6, <1>7, <2>1, <2>2 DEF PeerTypeOK
  <2> QED  BY <1>1, <1>4, <2>1, <2>2, <2>3 DEF PeerInv, TaskSettled, clientVars, InInbox
<1> QED  BY <1>1, <1>8, <1>9, <1>10, <1>11

(* The settlement: everything executed when it completes, and all who wait *)
(* get the same last answer.                                               *)
LEMMA SettleKeepsTask ==
  ASSUME PeerInv, ~TaskSettled, task.is = "live", NEW how \in {"completed", "failed"}, SettleTask(how),
         how = "completed" => ~task.aborted /\ queue = <<>>
  PROVE  PeerInv'
<1>1. /\ task' = [task EXCEPT !.status = how] /\ at' = "idle" /\ asked' = {}
      /\ UNCHANGED <<link, requests, clientVars, queue, last, ran, taken>>
  BY DEF SettleTask
<1>2. /\ task' \in [is : {"new", "live", "gone"}, auto : BOOLEAN, closed : BOOLEAN,
                    aborted : BOOLEAN, status : {"running", "completed", "failed"}]
      /\ task'.status = how /\ task'.is = "live" /\ TaskSettled'
  BY <1>1 DEF PeerInv, PeerTypeOK, TaskSettled
<1>3. replies' \in Seq(Answers) /\ PassIsReal'
  <2> DEFINE awaiting == {c \in asked : Awaited(c)}
             Said(order) == [k \in DOMAIN order |-> [call |-> order[k], says |-> last]]
  <2>1. PICK order \in [1..Cardinality(awaiting) -> awaiting] : replies' = replies \o Said(order)
    BY DEF SettleTask
  <2>2. awaiting \subseteq PeerCall /\ last \in {"ok", "error", "none", "pass", "fail"}
    BY DEF PeerInv, PeerTypeOK, PeerCall
  <2> DEFINE m == Cardinality(awaiting)
             said == Said(order)
  <2>3. IsFiniteSet(awaiting)
    <3>1. awaiting \subseteq WaitCall  BY DEF PeerInv, PeerTypeOK
    <3> QED  BY <3>1, FS_Subset, PeerAssumption
  <2>4. m \in Nat  BY <2>3, FS_CardinalityType
  <2> HIDE DEF awaiting
  <2>5. DOMAIN order = 1..m /\ \A k \in 1..m : order[k] \in awaiting  BY <2>1
  <2>6. \A k \in 1..m : said[k].says = last /\ said[k] \in Answers
    <3> SUFFICES ASSUME NEW k \in 1..m PROVE said[k].says = last /\ said[k] \in Answers  OBVIOUS
    <3>1. said[k] = [call |-> order[k], says |-> last]  BY <2>5
    <3> QED  BY <2>2, <2>5, <3>1 DEF Answers
  <2>7. said \in Seq(Answers) /\ Len(said) = m
    <3>1. DOMAIN said = 1..m  BY <2>5
    <3> HIDE DEF m
    <3>2. said \in [1..m -> Answers]
      <4>1. said = [k \in 1..m |-> said[k]]  BY <2>5
      <4> HIDE DEF said
      <4> QED  BY <2>6, <4>1
    <3> HIDE DEF said
    <3>3. said \in Seq(Answers)  BY <2>4, <3>2, SeqDef
    <3> QED  BY <2>4, <3>1, <3>3, LenProperties
  <2> HIDE DEF m, said
  <2>8. replies' = replies \o said  BY <2>1 DEF said
  <2>9. replies \in Seq(Answers) /\ Len(replies) \in Nat  BY LenProperties DEF PeerInv, PeerTypeOK
  <2>10. /\ replies' \in Seq(Answers) /\ DOMAIN replies = 1..Len(replies)
         /\ DOMAIN replies' = 1..Len(replies) + m
         /\ \A k \in 1..Len(replies) + m :
              replies'[k] = IF k <= Len(replies) THEN replies[k] ELSE said[k - Len(replies)]
    BY <2>7, <2>8, <2>9, ConcatProperties, LenProperties
  <2>11. ASSUME NEW k \in DOMAIN replies', replies'[k].says = "pass" PROVE last = "pass"
    <3>1. CASE k <= Len(replies)
      <4>1. k \in DOMAIN replies /\ replies[k].says = "pass"  BY <2>9, <2>10, <2>11, <3>1
      <4> QED  BY <4>1 DEF PeerInv, PassIsReal
    <3>2. CASE ~(k <= Len(replies))
      <4>1. k - Len(replies) \in 1..m /\ replies'[k] = said[k - Len(replies)]
        BY <2>4, <2>9, <2>10, <3>2
      <4> QED  BY <2>6, <2>11, <4>1
    <3> QED  BY <3>1, <3>2
  <2> QED  BY <1>1, <1>2, <2>10, <2>11 DEF PassIsReal
<1>4. PeerTypeOK'  BY <1>1, <1>2, <1>3 DEF PeerInv, PeerTypeOK, clientVars
<1>5. StartIsFirst'  BY <1>1 DEF PeerInv, StartIsFirst
<1>6. how = "completed" => taken \subseteq ran
  BY DEF PeerInv, TaskSettled, InInbox
<1>7. handle' = handle /\ handle # "completed"  BY <1>1 DEF PeerInv, clientVars
<1> QED  BY <1>1, <1>2, <1>3, <1>4, <1>5, <1>6, <1>7 DEF PeerInv

(* The pump, the timer of a wait and the end of retention.                 *)
LEMMA PumpKeeps ==
  ASSUME PeerInv, PumpSteps \/ Forget \/ (\E c \in PeerCall : WaitExpires(c)) PROVE PeerInv'
<1>0. PeerTypeOK /\ PassIsReal  BY DEF PeerInv
<1>1. CASE Execute
  <2>1. /\ task.is = "live" /\ ~TaskSettled /\ queue # <<>> /\ queue' = Tail(queue)
        /\ ran' = ran \cup {Head(queue)} /\ at' = "run"
        /\ UNCHANGED <<link, requests, replies, clientVars, task, last, asked, taken>>
    BY <1>1 DEF Execute, Pumping
  <2>2. queue \in Seq(SendCall \cup {"objective"})  BY <1>0 DEF PeerTypeOK
  <2>3. /\ queue' \in Seq(SendCall \cup {"objective"}) /\ Head(queue) = queue[1]
        /\ \A k \in DOMAIN queue : k = 1 \/ (k - 1 \in DOMAIN queue' /\ queue'[k - 1] = queue[k])
    BY <2>1, <2>2, TailOf
  <2>4. ran \cup InInbox \subseteq ran' \cup InInbox'
    <3> SUFFICES ASSUME NEW k \in DOMAIN queue PROVE queue[k] \in ran' \cup InInbox'
      BY <2>1 DEF InInbox
    <3>1. CASE k = 1  BY <2>1, <2>3, <3>1
    <3>2. CASE k - 1 \in DOMAIN queue' /\ queue'[k - 1] = queue[k]  BY <3>2 DEF InInbox
    <3> QED  BY <2>3, <3>1, <3>2
  <2>5. PeerTypeOK'  BY <2>1, <2>3 DEF PeerInv, PeerTypeOK, clientVars
  <2>6. StartIsFirst' /\ PassIsReal'  BY <2>1 DEF PeerInv, StartIsFirst, PassIsReal, TaskSettled
  <2> QED  BY <2>1, <2>4, <2>5, <2>6 DEF PeerInv, TaskSettled, clientVars
<1>2. CASE PumpSettles
  <2>1. task.is = "live" /\ ~TaskSettled  BY <1>2 DEF PumpSettles, Pumping
  <2>2. PICK how \in {"completed", "failed"} :
           SettleTask(how) /\ (how = "completed" => ~task.aborted /\ queue = <<>>)
    BY <1>2 DEF PumpSettles
  <2> QED  BY <2>1, <2>2, SettleKeepsTask
<1>3. CASE ExecuteFails
  <2>1. ~TaskSettled /\ task.is = "live" /\ SettleTask("failed")
    BY <1>0, <1>3 DEF ExecuteFails, PeerInv, PeerTypeOK
  <2> QED  BY <2>1, SettleKeepsTask
<1>4. CASE Executed
  <2>1. at # "idle" /\ UNCHANGED <<link, requests, replies, clientVars, task, last, asked, taken, queue, ran>>
    BY <1>4 DEF Executed
  <2> QED  BY <1>0, <2>1 DEF PeerInv, PeerTypeOK, TaskSettled, clientVars, StartIsFirst, PassIsReal, InInbox
<1>5. ASSUME NEW v \in {"pass", "fail"}, Verified(v) PROVE PeerInv'
  <2>1. /\ at = "verify" /\ at' = "idle" /\ last' = v
        /\ UNCHANGED <<link, requests, replies, clientVars, task, queue, asked, ran, taken>>
    BY <1>5 DEF Verified
  <2>2. ~TaskSettled /\ ~TaskSettled'  BY <2>1 DEF PeerInv, TaskSettled
  <2>3. PassIsReal' /\ handle # "completed" /\ StartIsFirst'
    BY <2>1, <2>2 DEF PeerInv, PassIsReal, StartIsFirst
  <2>4. PeerTypeOK'  BY <1>0, <2>1 DEF PeerTypeOK, clientVars
  <2> QED  BY <2>1, <2>2, <2>3, <2>4 DEF PeerInv, TaskSettled, clientVars, InInbox
<1>6. CASE Forget
  <2>1. /\ TaskSettled /\ task' = [task EXCEPT !.is = "gone"]
        /\ UNCHANGED <<link, requests, replies, clientVars, queue, at, last, asked, ran, taken>>
    BY <1>6 DEF Forget
  <2>2. /\ task' \in [is : {"new", "live", "gone"}, auto : BOOLEAN, closed : BOOLEAN,
                      aborted : BOOLEAN, status : {"running", "completed", "failed"}]
        /\ task'.status = task.status /\ task'.is = "gone"
    BY <1>0, <2>1 DEF PeerTypeOK
  <2>3. PeerTypeOK'  BY <1>0, <2>1, <2>2 DEF PeerTypeOK, clientVars
  <2> QED  BY <2>1, <2>2, <2>3 DEF PeerInv, TaskSettled, clientVars, StartIsFirst, PassIsReal, InInbox
<1>7. ASSUME NEW c \in PeerCall, WaitExpires(c) PROVE PeerInv'
  <2>1. /\ asked' = asked \ {c} /\ Reply(c, "error")
        /\ UNCHANGED <<link, requests, clientVars, task, queue, at, last, ran, taken>>
    BY <1>7 DEF WaitExpires
  <2>2. replies' \in Seq(Answers) /\ PassIsReal'
    BY <1>0, <2>1, ReplyKeeps DEF TaskSettled
  <2>3. PeerTypeOK'  BY <1>0, <2>1, <2>2 DEF PeerTypeOK, clientVars
  <2> QED  BY <2>1, <2>2, <2>3 DEF PeerInv, TaskSettled, clientVars, StartIsFirst, InInbox
<1> QED  BY <1>1, <1>2, <1>3, <1>4, <1>5, <1>6, <1>7 DEF PumpSteps

LEMMA NextPeerInv == PeerInv /\ [PeerNext]_peerTaskVars => PeerInv'
<1> SUFFICES ASSUME PeerInv, [PeerNext]_peerTaskVars PROVE PeerInv'  OBVIOUS
<1>1. CASE UNCHANGED peerTaskVars
  BY <1>1 DEF peerTaskVars, clientVars, peerVars, PeerInv, PeerTypeOK, TaskSettled, StartIsFirst,
              PassIsReal, InInbox
<1>2. "start" \in PeerCall  BY DEF PeerCall
<1>3. CASE PeerNext
  BY <1>2, <1>3, CallerStep, HandleKeeps, PumpKeeps DEF PeerNext
<1> QED  BY <1>1, <1>3

(* No task completes before everything it accepted was executed, and no    *)
(* handle over a timeout, a broken link or a forgotten task, for any number*)
(* of sends and waits (submitter.ts, continuable-peer-tasks.ts).           *)
THEOREM CompletionsAreReal == PeerSpec => []CompletedIsReal
<1>1. PeerInv => CompletedIsReal  BY DEF PeerInv, CompletedIsReal
<1> QED  BY <1>1, InitPeerInv, NextPeerInv, PTL DEF PeerSpec

-----------------------------------------------------------------------------
(* The composition: a step of a part is a step of its component, and every *)
(* other component stutters.                                               *)
LEMMA PartsStep ==
  [MCNext]_mcVars =>
    /\ [Next]_vars /\ [ChildNext]_childVars /\ [PeerNext]_peerTaskVars
    /\ [SchedulerNext]_schedulerVars /\ [TimeoutNext]_timeoutVars /\ [CallNext]_callVars
    /\ [StdioNext]_stdioVars /\ [AsksNext]_askVars /\ [CommandNext]_commandVars
<1> SUFFICES ASSUME [MCNext]_mcVars
             PROVE  /\ [Next]_vars /\ [ChildNext]_childVars /\ [PeerNext]_peerTaskVars
                    /\ [SchedulerNext]_schedulerVars /\ [TimeoutNext]_timeoutVars /\ [CallNext]_callVars
                    /\ [StdioNext]_stdioVars /\ [AsksNext]_askVars /\ [CommandNext]_commandVars
  OBVIOUS
<1>1. CASE UNCHANGED mcVars  BY <1>1 DEF mcVars
<1>2. CASE MCNext
  BY <1>2 DEF MCNext, Only
<1> QED  BY <1>1, <1>2

(* The pool of tool calls and the jobs of an owner stay within their caps, *)
(* for every batch, every set of jobs and every cap (tool-scheduler.ts,    *)
(* jobs/registry.ts).                                                      *)
THEOREM LimitsAlwaysHold == MCSpec => []LimitsHold
<1> DEFINE Inv == BatchInv /\ RegistryInv
<1>1. MCInit => Inv  BY InitBatchInv, InitRegistryInv DEF MCInit
<1>2. Inv /\ [MCNext]_mcVars => Inv'  BY PartsStep, NextBatchInv, NextRegistryInv
<1>3. Inv => LimitsHold  BY DEF BatchInv, RegistryInv, LimitsHold
<1> QED  BY <1>1, <1>2, <1>3, PTL DEF MCSpec

(* What has ended has ended for all: for any number of jobs, owners and    *)
(* waiters, of waiters of a child, and for every command.                  *)
THEOREM EndsAreForAll == MCSpec => []EndedForAll
<1> DEFINE Inv == RegistryInv /\ ChildInv /\ LadderInv
<1>1. MCInit => Inv  BY InitRegistryInv, InitChildInv, InitLadderInv DEF MCInit
<1>2. Inv /\ [MCNext]_mcVars => Inv'  BY PartsStep, NextRegistryInv, NextChildInv, NextLadderInv
<1>3. Inv => EndedForAll
  <2>1. LadderInv => LadderIsComplete  BY DEF LadderInv, LadderIsComplete
  <2> QED  BY <2>1 DEF RegistryInv, ChildInv, LadderInv, EndedForAll
<1> QED  BY <1>1, <1>2, <1>3, PTL DEF MCSpec

(* Every answer is to its own request: of a child process, of a human who  *)
(* allows a tool, and of a child, in the order of its messages, for any    *)
(* number of requests, asks and messages.                                  *)
THEOREM EveryAnswerIsItsOwn == MCSpec => []AnswersAreTheirOwn
<1> DEFINE Inv == StdioInv /\ AskInv /\ ChildInv
<1>1. MCInit => Inv  BY InitStdioInv, InitAskInv, InitChildInv DEF MCInit
<1>2. Inv /\ [MCNext]_mcVars => Inv'  BY PartsStep, NextStdioInv, NextAskInv, NextChildInv
<1>3. Inv => AnswersAreTheirOwn  BY DEF StdioInv, AskInv, ChildInv, AnswersAreTheirOwn
<1> QED  BY <1>1, <1>2, <1>3, PTL DEF MCSpec
=============================================================================
