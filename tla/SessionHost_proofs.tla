------------------------- MODULE SessionHost_proofs -------------------------
(***************************************************************************)
(* The safety of the session host, for any number of requests, transcripts *)
(* and live sessions: one lemma per action, and the theorems at the end.   *)
(***************************************************************************)
EXTENDS SessionHost, FiniteSetTheorems, WellFoundedInduction, TLAPS

(* the number of the next session to be installed is a positive natural *)
LEMMA Rank == Types => Cardinality(Installed) + 1 \in Nat /\ Cardinality(Installed) + 1 > 0
<1>1. IsFiniteSet(Req)
  BY HostAssumption, FS_Interval DEF Req
<1>2. IsFiniteSet(Installed)
  BY <1>1, FS_Subset DEF Installed
<1> QED
  BY <1>2, FS_CardinalityType

(* "no request" is not a request *)
LEMMA NotReq == NoReq \notin Req
BY DEF Req, NoReq

-----------------------------------------------------------------------------
(* session/new and session/load                                            *)

(* what Retire does to agents and leases, the doomed, the acquired and the others *)
LEMMA RetireTypes ==
  ASSUME Types, NEW doomed, NEW acquired, Retire(doomed, acquired)
  PROVE  /\ aborted' \in [Req -> BOOLEAN]
         /\ lease' \in [Req -> {"none", "held", "closing", "released"}]
         /\ asked' \subseteq Req
         /\ \A r \in doomed \cap Req : aborted'[r] /\ lease'[r] = "closing"
         /\ \A r \in Req \ doomed : aborted'[r] = aborted[r]
         /\ \A r \in Req \ doomed : lease'[r] = IF r \in acquired THEN "held" ELSE lease[r]
<1>1. aborted' \in [Req -> BOOLEAN]
  BY DEF Retire, Types
<1>2. lease' \in [Req -> {"none", "held", "closing", "released"}]
  BY DEF Retire, Types
<1>3. asked' \subseteq Req
  BY DEF Retire, Types, Running
<1> QED
  BY <1>1, <1>2, <1>3 DEF Retire, Types

(* pruning disarms whom it evicts, and the new handler has nothing yet *)
LEMMA StartKeeps ==
  ASSUME HostInv, NEW r \in Req, NEW k \in {"new", "load"}, NEW s \in Sid \cup {NoReq},
         Start(r, k, s)
  PROVE  HostInv'
<1> USE HostAssumption, NotReq DEF HostInv
<1>0. Retire(Evicted, {})
  BY DEF Start
<1>1. Types'
  <2>1. table' \in [Sid -> Req \cup {NoReq}]
    BY DEF Start, Types
  <2>2. /\ pc' \in [Req -> {"idle", "acquiring", "resolving", "slash", "turn", "asking", "answered"}]
        /\ kind' \in [Req -> {"none", "new", "load", "prompt", "cancel", "setModel"}]
    BY DEF Start, Types
  <2>3. /\ sid' \in [Req -> Sid \cup {NoReq}]
        /\ guard' \in [Req -> {"none", "acquiring", "discarding", "committed", "settled"}]
    BY DEF Start, Types
  <2>4. UNCHANGED <<files, conn, birth, turnOf, model, live, sig, result, told>>
    BY DEF Start
  <2> QED
    BY <2>1, <2>2, <2>3, <2>4, <1>0, RetireTypes DEF Types
<1>2. \A q \in Evicted : q \in Installed /\ table[sid[q]] = q /\ q # r
  BY DEF Start, Evicted, Living, Sessions, Types, Installed
<1>3. /\ lease'[r] = "none"
      /\ \A q \in Req : q # r =>
           pc'[q] = pc[q] /\ sid'[q] = sid[q] /\ guard'[q] = guard[q] /\ kind'[q] = kind[q]
  BY <1>0, <1>2, RetireTypes DEF Start, Types, Handlers
<1>4. Handlers'
  BY <1>0, <1>2, <1>3, RetireTypes DEF Start, Types, Handlers, Sessions, Running
<1>5. RetiredIsDisarmed'
  <2> SUFFICES ASSUME NEW q \in Req, q \in Installed', table'[sid'[q]] # q
               PROVE  aborted'[q] /\ lease'[q] \in {"closing", "released"}
    BY DEF RetiredIsDisarmed, Installed
  <2>1. q \in Installed /\ q # r /\ sid'[q] = sid[q] /\ sid[q] \in Sid
    BY DEF Start, Installed, Sessions, Types
  <2>2. CASE q \in Evicted
    BY <1>0, <2>2, RetireTypes
  <2>3. CASE q \notin Evicted
    <3>1. table[sid[q]] # q
      BY <2>1, <2>3 DEF Start
    <3> QED
      BY <3>1, <2>1, <2>3, <1>0, RetireTypes DEF RetiredIsDisarmed
  <2> QED
    BY <2>2, <2>3
<1>6. LeaseOwnedUnlessThrown'
  <2> SUFFICES ASSUME Threw' = {}, NEW q \in Req, lease'[q] = "held"
               PROVE  \/ pc'[q] = "resolving" \/ guard'[q] = "discarding"
                      \/ sid'[q] \in Sid /\ table'[sid'[q]] = q
    BY DEF LeaseOwnedUnlessThrown, LeaseOwned
  <2>1. q # r /\ q \notin Evicted /\ lease[q] = "held"
    BY <1>0, <1>3, RetireTypes DEF Types
  <2>2. Threw = {}
    BY <1>3 DEF Threw, Start, Handlers, Types
  <2>3. \/ pc[q] = "resolving" \/ guard[q] = "discarding"
        \/ sid[q] \in Sid /\ table[sid[q]] = q
    BY <2>1, <2>2 DEF LeaseOwnedUnlessThrown, LeaseOwned
  <2> QED
    BY <2>1, <2>3, <1>3 DEF Start
<1>7. Sessions'
  BY DEF Start, Retire, Evicted, Types, Handlers, Sessions, Installed, Living
<1>8. Prompts' /\ Flags' /\ Cancels'
  BY DEF Start, Retire, Evicted, Types, Handlers, Sessions, Prompts, Flags, BusyIsTrue,
         Installed, Running, Cancels
<1>9. BusyIsTrue' /\ CancelIsReported'
  BY DEF Start, Retire, Evicted, Types, Handlers, Sessions, Prompts, Flags, BusyIsTrue,
         Installed, Running, Cancels, CancelIsReported
<1> QED
  BY <1>1, <1>4, <1>5, <1>6, <1>7, <1>8, <1>9


(* the old session of the id is retired in the step that installs the new one *)
LEMMA InstallKeeps ==
  ASSUME HostInv, NEW r \in Req, NEW s \in Sid, Install(r, s),
         pc[r] \in {"acquiring", "resolving"}, sid' = [sid EXCEPT ![r] = s],
         guard' = [guard EXCEPT ![r] = "committed"],
         UNCHANGED <<turnOf, model, kind, live, sig, told>>
  PROVE  Types' /\ Sessions' /\ RetiredIsDisarmed'
<1> USE HostAssumption, NotReq DEF HostInv
<1> DEFINE Old == {q \in Req : table[s] = q}
<1>0. Retire(Old, {r})
  BY DEF Install
<1>1. birth' \in [Req -> Nat] /\ Installed' = Installed \cup {r}
  <2>1. birth' = [birth EXCEPT ![r] = Cardinality(Installed) + 1]
    BY DEF Install
  <2>2. birth' \in [Req -> Nat] /\ birth'[r] > 0 /\ \A q \in Req \ {r} : birth'[q] = birth[q]
    BY <2>1, Rank DEF Types
  <2> QED
    BY <2>2 DEF Installed
<1>2. r \notin Installed
  BY DEF Sessions
<1>3. Types'
  <2>1. /\ conn' \in [Sid -> Req \cup {Idle, Unknown}] /\ table' \in [Sid -> Req \cup {NoReq}]
        /\ sid' \in [Req -> Sid \cup {NoReq}]
    BY DEF Install, Types
  <2>2. /\ pc' \in [Req -> {"idle", "acquiring", "resolving", "slash", "turn", "asking", "answered"}]
        /\ result' \in [Req -> {"none", "ok", "error", "timeout", "slash", "end_turn", "aborted", "cancelled"}]
        /\ guard' \in [Req -> {"none", "acquiring", "discarding", "committed", "settled"}]
    BY DEF Install, Answer, Types
  <2> HIDE DEF Old
  <2>3. /\ aborted' \in [Req -> BOOLEAN]
        /\ lease' \in [Req -> {"none", "held", "closing", "released"}]
        /\ asked' \subseteq Req
    BY <1>0, RetireTypes
  <2> QED
    BY <2>1, <2>2, <2>3, <1>1 DEF Types
<1>4. Sessions'
  <2>1. \A q \in Installed' : pc'[q] = "answered" /\ guard'[q] = "committed" /\ sid'[q] \in Sid
    BY <1>1 DEF Install, Answer, Sessions, Types, Installed
  <2>2. ASSUME NEW t \in Sid, table'[t] # NoReq
        PROVE  table'[t] \in Installed' /\ sid'[table'[t]] = t
    <3>1. CASE t = s
      BY <3>1, <1>1 DEF Install, Types
    <3>2. CASE t # s
      <4>1. table'[t] = table[t] /\ table[t] \in Installed /\ sid[table[t]] = t
        BY <2>2, <3>2 DEF Install, Types, Sessions
      <4> QED
        BY <4>1, <1>1, <1>2 DEF Types, Installed
    <3> QED
      BY <3>1, <3>2
  <2> QED
    BY <2>1, <2>2 DEF Sessions
<1>5. RetiredIsDisarmed'
  <2> SUFFICES ASSUME NEW q \in Installed', table'[sid'[q]] # q
               PROVE  aborted'[q] /\ lease'[q] \in {"closing", "released"}
    BY DEF RetiredIsDisarmed
  <2>1. q # r /\ q \in Installed /\ q \in Req /\ sid'[q] = sid[q] /\ sid[q] \in Sid
    BY <1>1 DEF Install, Types, Sessions, Installed
  <2>2. CASE q \in Old
    <3> HIDE DEF Old
    <3> QED
      BY <1>0, <2>1, <2>2, RetireTypes
  <2>3. CASE q \notin Old
    <3>1. table[sid[q]] # q
      BY <2>1, <2>3 DEF Install, Types
    <3> HIDE DEF Old
    <3> QED
      BY <1>0, <2>1, <2>3, <3>1, RetireTypes DEF RetiredIsDisarmed
  <2> QED
    BY <2>2, <2>3
<1> QED
  BY <1>3, <1>4, <1>5

(* a fresh session is installed under an id of its own *)
LEMMA CreatedKeeps ==
  ASSUME HostInv, NEW r \in Req, Created(r)
  PROVE  HostInv'
<1> USE HostAssumption, NotReq DEF HostInv
<1>1. Types' /\ Sessions' /\ RetiredIsDisarmed'
  BY InstallKeeps DEF Created
<1>2. Handlers' /\ Flags' /\ Cancels'
  BY DEF Created, Install, Retire, Answer, Types, Handlers, Sessions, Running, Flags, Cancels
<1>3. Prompts'
  BY DEF Created, Install, Retire, Answer, Types, Handlers, Sessions, Prompts, Flags,
         BusyIsTrue, Installed, Running
<1>4. BusyIsTrue' /\ CancelIsReported'
  BY DEF Created, Install, Retire, Answer, Types, Handlers, Sessions, Prompts, Flags,
         BusyIsTrue, Installed, Running, Cancels, CancelIsReported
<1>5. LeaseOwnedUnlessThrown'
  BY DEF Created, Install, Retire, Answer, Types, Handlers, Sessions, LeaseOwnedUnlessThrown,
         LeaseOwned, Threw, Installed, Living, Running
<1> QED
  BY <1>1, <1>2, <1>3, <1>4, <1>5

(* the leaked lease is in Threw *)
LEMMA CreateThrowsKeeps ==
  ASSUME HostInv, NEW r \in Req, CreateThrows(r)
  PROVE  HostInv'
<1> USE HostAssumption, NotReq DEF HostInv
<1>1. Types' /\ Handlers' /\ Sessions'
  BY DEF CreateThrows, Answer, Types, Installed, Handlers, Sessions, Running, Living
<1>2. Prompts' /\ Flags' /\ Cancels'
  BY DEF CreateThrows, Answer, Types, Handlers, Sessions, Prompts, Flags, BusyIsTrue, Installed,
         Running, Cancels
<1>3. RetiredIsDisarmed' /\ BusyIsTrue' /\ CancelIsReported' /\ LeaseOwnedUnlessThrown'
  BY DEF CreateThrows, Answer, Types, Handlers, Sessions, RetiredIsDisarmed, Installed, Living,
         Prompts, Flags, BusyIsTrue, Running, Cancels, CancelIsReported, LeaseOwnedUnlessThrown,
         LeaseOwned, Threw
<1> QED
  BY <1>1, <1>2, <1>3

(* the handler that resolves holds the lease *)
LEMMA LoadedKeeps ==
  ASSUME HostInv, NEW r \in Req, Loaded(r)
  PROVE  HostInv'
<1> USE HostAssumption, NotReq DEF HostInv
<1>1. Types' /\ Handlers' /\ Sessions'
  BY DEF Loaded, table_vars, Types, Installed, Handlers, Sessions, Running, Living
<1>2. Prompts' /\ Flags' /\ Cancels'
  BY DEF Loaded, table_vars, Types, Handlers, Sessions, Prompts, Flags, BusyIsTrue, Installed,
         Running, Cancels
<1>3. RetiredIsDisarmed' /\ BusyIsTrue' /\ CancelIsReported' /\ LeaseOwnedUnlessThrown'
  BY DEF Loaded, table_vars, Types, Handlers, Sessions, RetiredIsDisarmed, Installed, Living,
         Prompts, Flags, BusyIsTrue, Running, Cancels, CancelIsReported, LeaseOwnedUnlessThrown,
         LeaseOwned, Threw
<1> QED
  BY <1>1, <1>2, <1>3

(* a loaded session replaces the live one of its id *)
LEMMA ResolvedKeeps ==
  ASSUME HostInv, NEW r \in Req, Resolved(r)
  PROVE  HostInv'
<1> USE HostAssumption, NotReq DEF HostInv
<1>1. Types' /\ Sessions' /\ RetiredIsDisarmed'
  <2>1. sid' = [sid EXCEPT ![r] = sid[r]] /\ guard' = [guard EXCEPT ![r] = "committed"]
    BY DEF Resolved, Types, Handlers
  <2> QED
    BY <2>1, InstallKeeps DEF Resolved, Handlers
<1>2. Handlers' /\ Flags' /\ Cancels'
  BY DEF Resolved, Install, Retire, Answer, Types, Handlers, Sessions, Running, Flags, Cancels
<1>3. Prompts'
  BY DEF Resolved, Install, Retire, Answer, Types, Handlers, Sessions, Prompts, Flags,
         BusyIsTrue, Installed, Running
<1>4. BusyIsTrue' /\ CancelIsReported'
  BY DEF Resolved, Install, Retire, Answer, Types, Handlers, Sessions, Prompts, Flags,
         BusyIsTrue, Installed, Running, Cancels, CancelIsReported
<1>5. LeaseOwnedUnlessThrown'
  BY DEF Resolved, Install, Retire, Answer, Types, Handlers, Sessions, LeaseOwnedUnlessThrown,
         LeaseOwned, Threw, Installed, Living, Running
<1> QED
  BY <1>1, <1>2, <1>3, <1>4, <1>5

(* the leaked lease is in Threw *)
LEMMA ResolveThrowsKeeps ==
  ASSUME HostInv, NEW r \in Req, ResolveThrows(r)
  PROVE  HostInv'
<1> USE HostAssumption, NotReq DEF HostInv
<1>1. Types' /\ Handlers' /\ Sessions'
  BY DEF ResolveThrows, Answer, table_vars, agent_vars, Types, Installed, Handlers, Sessions,
         Running, Living
<1>2. Prompts' /\ Flags' /\ Cancels'
  BY DEF ResolveThrows, Answer, table_vars, agent_vars, Types, Handlers, Sessions, Prompts,
         Flags, BusyIsTrue, Installed, Running, Cancels
<1>3. RetiredIsDisarmed' /\ BusyIsTrue' /\ CancelIsReported' /\ LeaseOwnedUnlessThrown'
  BY DEF ResolveThrows, Answer, table_vars, agent_vars, Types, Handlers, Sessions,
         RetiredIsDisarmed, Installed, Living, Prompts, Flags, BusyIsTrue, Running, Cancels,
         CancelIsReported, LeaseOwnedUnlessThrown, LeaseOwned, Threw
<1> QED
  BY <1>1, <1>2, <1>3

(* nothing was acquired *)
LEMMA AcquireFailsKeeps ==
  ASSUME HostInv, NEW r \in Req, AcquireFails(r)
  PROVE  HostInv'
<1> USE HostAssumption, NotReq DEF HostInv
<1>1. Types' /\ Handlers' /\ Sessions'
  BY DEF AcquireFails, Answer, table_vars, Types, Installed, Handlers, Sessions, Running, Living
<1>2. Prompts' /\ Flags' /\ Cancels'
  BY DEF AcquireFails, Answer, table_vars, Types, Handlers, Sessions, Prompts, Flags,
         BusyIsTrue, Installed, Running, Cancels
<1>3. RetiredIsDisarmed' /\ BusyIsTrue' /\ CancelIsReported' /\ LeaseOwnedUnlessThrown'
  BY DEF AcquireFails, Answer, table_vars, Types, Handlers, Sessions, RetiredIsDisarmed,
         Installed, Living, Prompts, Flags, BusyIsTrue, Running, Cancels, CancelIsReported,
         LeaseOwnedUnlessThrown, LeaseOwned, Threw
<1> QED
  BY <1>1, <1>2, <1>3

(* nothing was acquired yet; the guard stays *)
LEMMA AcquireTimesOutKeeps ==
  ASSUME HostInv, NEW r \in Req, AcquireTimesOut(r)
  PROVE  HostInv'
<1> USE HostAssumption, NotReq DEF HostInv
<1>1. Types' /\ Handlers' /\ Sessions'
  BY DEF AcquireTimesOut, Answer, table_vars, Types, Installed, Handlers, Sessions, Running, Living
<1>2. Prompts' /\ Flags' /\ Cancels'
  BY DEF AcquireTimesOut, Answer, table_vars, Types, Handlers, Sessions, Prompts, Flags,
         BusyIsTrue, Installed, Running, Cancels
<1>3. RetiredIsDisarmed' /\ BusyIsTrue' /\ CancelIsReported' /\ LeaseOwnedUnlessThrown'
  BY DEF AcquireTimesOut, Answer, table_vars, Types, Handlers, Sessions, RetiredIsDisarmed,
         Installed, Living, Prompts, Flags, BusyIsTrue, Running, Cancels, CancelIsReported,
         LeaseOwnedUnlessThrown, LeaseOwned, Threw
<1> QED
  BY <1>1, <1>2, <1>3

(* the guard of a timed-out request owns what it gets *)
LEMMA LateAcquireKeeps ==
  ASSUME HostInv, NEW r \in Req, LateAcquire(r)
  PROVE  HostInv'
<1> USE HostAssumption, NotReq DEF HostInv
<1>1. Types'
  BY DEF LateAcquire, Types, Installed
<1>2. Handlers' /\ Sessions'
  BY DEF LateAcquire, Types, Handlers, Sessions, Running, Installed, Living
<1>3. Prompts'
  BY DEF LateAcquire, Types, Handlers, Sessions, Prompts, Flags, BusyIsTrue, Installed, Running
<1>4. Flags' /\ Cancels'
  BY DEF LateAcquire, Types, Flags, Handlers, Running, Cancels
<1>5. RetiredIsDisarmed' /\ BusyIsTrue' /\ CancelIsReported'
  BY DEF LateAcquire, Types, Handlers, Sessions, RetiredIsDisarmed, Installed, Living, Prompts,
         Flags, BusyIsTrue, Running, Cancels, CancelIsReported
<1>6. LeaseOwnedUnlessThrown'
  BY DEF LateAcquire, Types, Handlers, Sessions, LeaseOwnedUnlessThrown, LeaseOwned, Threw,
         Installed, Living, Running
<1> QED
  BY <1>1, <1>2, <1>3, <1>4, <1>5, <1>6

(* the guard closes what it got *)
LEMMA DiscardKeeps ==
  ASSUME HostInv, NEW r \in Req, Discard(r)
  PROVE  HostInv'
<1> USE HostAssumption, NotReq DEF HostInv
<1>1. Types' /\ Handlers' /\ Sessions'
  BY DEF Discard, table_vars, req_vars, Types, Installed, Handlers, Sessions, Running, Living
<1>2. Prompts' /\ Flags' /\ Cancels'
  BY DEF Discard, table_vars, req_vars, Types, Handlers, Sessions, Prompts, Flags, BusyIsTrue,
         Installed, Running, Cancels
<1>3. RetiredIsDisarmed' /\ BusyIsTrue' /\ CancelIsReported' /\ LeaseOwnedUnlessThrown'
  BY DEF Discard, table_vars, req_vars, Types, Handlers, Sessions, RetiredIsDisarmed, Installed,
         Living, Prompts, Flags, BusyIsTrue, Running, Cancels, CancelIsReported,
         LeaseOwnedUnlessThrown, LeaseOwned, Threw
<1> QED
  BY <1>1, <1>2, <1>3

(* closing ends in released *)
LEMMA ClosedKeeps ==
  ASSUME HostInv, NEW r \in Req, Closed(r)
  PROVE  HostInv'
<1> USE HostAssumption, NotReq DEF HostInv
<1>1. Types' /\ Handlers' /\ Sessions'
  BY DEF Closed, table_vars, req_vars, Types, Installed, Handlers, Sessions, Running, Living
<1>2. Prompts' /\ Flags' /\ Cancels'
  BY DEF Closed, table_vars, req_vars, Types, Handlers, Sessions, Prompts, Flags, BusyIsTrue,
         Installed, Running, Cancels
<1>3. RetiredIsDisarmed' /\ BusyIsTrue' /\ CancelIsReported' /\ LeaseOwnedUnlessThrown'
  BY DEF Closed, table_vars, req_vars, Types, Handlers, Sessions, RetiredIsDisarmed, Installed,
         Living, Prompts, Flags, BusyIsTrue, Running, Cancels, CancelIsReported,
         LeaseOwnedUnlessThrown, LeaseOwned, Threw
<1> QED
  BY <1>1, <1>2, <1>3

-----------------------------------------------------------------------------
(* session/prompt                                                          *)

(* a refused prompt leaves everything alone *)
LEMMA PromptRefusedKeeps ==
  ASSUME HostInv, NEW r \in Req, NEW s \in Sid, PromptRefused(r, s)
  PROVE  HostInv'
<1> USE HostAssumption, NotReq DEF HostInv
<1>1. Types' /\ Handlers' /\ Sessions'
  BY DEF PromptRefused, Answer, table_vars, agent_vars, Types, Installed, Handlers, Sessions,
         Running, Living
<1>2. Prompts' /\ Flags' /\ Cancels'
  BY DEF PromptRefused, Answer, table_vars, agent_vars, Types, Handlers, Sessions, Prompts,
         Flags, BusyIsTrue, Installed, Running, Cancels
<1>3. RetiredIsDisarmed' /\ BusyIsTrue' /\ CancelIsReported' /\ LeaseOwnedUnlessThrown'
  BY DEF PromptRefused, Answer, table_vars, agent_vars, Types, Handlers, Sessions,
         RetiredIsDisarmed, Installed, Living, Prompts, Flags, BusyIsTrue, Running, Cancels,
         CancelIsReported, LeaseOwnedUnlessThrown, LeaseOwned, Threw
<1> QED
  BY <1>1, <1>2, <1>3

(* an idle flag means that no prompt works on the live session *)
LEMMA PromptKeeps ==
  ASSUME HostInv, NEW r \in Req, NEW s \in Sid, Prompt(r, s)
  PROVE  HostInv'
<1> USE HostAssumption, NotReq DEF HostInv
<1>1. Types' /\ Handlers' /\ Sessions'
  BY DEF Prompt, agent_vars, Types, Installed, Handlers, Sessions, Running, Living
<1>2. Prompts' /\ Flags' /\ Cancels'
  BY DEF Prompt, agent_vars, Types, Handlers, Sessions, Prompts, Flags, BusyIsTrue, Installed,
         Running, Cancels
<1>3. RetiredIsDisarmed' /\ BusyIsTrue' /\ CancelIsReported' /\ LeaseOwnedUnlessThrown'
  BY DEF Prompt, agent_vars, Types, Handlers, Sessions, RetiredIsDisarmed, Installed, Living,
         Prompts, Flags, BusyIsTrue, Running, Cancels, CancelIsReported, LeaseOwnedUnlessThrown,
         LeaseOwned, Threw
<1> QED
  BY <1>1, <1>2, <1>3

(* a prompt that answers frees its own flag only *)
LEMMA SlashAnswersKeeps ==
  ASSUME HostInv, NEW r \in Req, SlashAnswers(r)
  PROVE  HostInv'
<1> USE HostAssumption, NotReq DEF HostInv
<1>1. Types' /\ Handlers' /\ Sessions'
  BY DEF SlashAnswers, Release, Answer, agent_vars, Types, Installed, Handlers, Sessions,
         Running, Living
<1>2. Prompts' /\ Flags' /\ Cancels'
  BY DEF SlashAnswers, Release, Answer, agent_vars, Types, Handlers, Sessions, Prompts, Flags,
         BusyIsTrue, Installed, Running, Cancels
<1>3. RetiredIsDisarmed' /\ BusyIsTrue' /\ CancelIsReported' /\ LeaseOwnedUnlessThrown'
  BY DEF SlashAnswers, Release, Answer, agent_vars, Types, Handlers, Sessions,
         RetiredIsDisarmed, Installed, Living, Prompts, Flags, BusyIsTrue, Running, Cancels,
         CancelIsReported, LeaseOwnedUnlessThrown, LeaseOwned, Threw
<1> QED
  BY <1>1, <1>2, <1>3

(* the turn is recorded in the session the prompt has for itself *)
LEMMA TurnBeginsKeeps ==
  ASSUME HostInv, NEW r \in Req, TurnBegins(r)
  PROVE  HostInv'
<1> USE HostAssumption, NotReq DEF HostInv
<1>1. Types'
  BY DEF TurnBegins, table_vars, Types, Installed
<1>2. Handlers' /\ Sessions'
  BY DEF TurnBegins, table_vars, Types, Handlers, Sessions, Running, Installed, Living
<1>3. Prompts'
  BY DEF TurnBegins, table_vars, Types, Handlers, Sessions, Prompts, Flags, BusyIsTrue,
         Installed, Running
<1>4. Flags' /\ Cancels'
  BY DEF TurnBegins, table_vars, Types, Flags, Handlers, Running, Cancels
<1>5. RetiredIsDisarmed' /\ BusyIsTrue' /\ CancelIsReported'
  BY DEF TurnBegins, table_vars, Types, Handlers, Sessions, RetiredIsDisarmed, Installed,
         Living, Prompts, Flags, BusyIsTrue, Running, Cancels, CancelIsReported
<1>6. LeaseOwnedUnlessThrown'
  BY DEF TurnBegins, table_vars, Types, Handlers, Sessions, LeaseOwnedUnlessThrown, LeaseOwned,
         Threw, Installed, Living, Running
<1> QED
  BY <1>1, <1>2, <1>3, <1>4, <1>5, <1>6

(* a turn that asks is still a turn *)
LEMMA AskKeeps ==
  ASSUME HostInv, NEW r \in Req, Ask(r)
  PROVE  HostInv'
<1> USE HostAssumption, NotReq DEF HostInv
<1>1. Types' /\ Handlers' /\ Sessions'
  BY DEF Ask, table_vars, agent_vars, Types, Installed, Handlers, Sessions, Running, Living
<1>2. Prompts' /\ Flags' /\ Cancels'
  BY DEF Ask, table_vars, agent_vars, Types, Handlers, Sessions, Prompts, Flags, BusyIsTrue,
         Installed, Running, Cancels
<1>3. RetiredIsDisarmed' /\ BusyIsTrue' /\ CancelIsReported' /\ LeaseOwnedUnlessThrown'
  BY DEF Ask, table_vars, agent_vars, Types, Handlers, Sessions, RetiredIsDisarmed, Installed,
         Living, Prompts, Flags, BusyIsTrue, Running, Cancels, CancelIsReported,
         LeaseOwnedUnlessThrown, LeaseOwned, Threw
<1> QED
  BY <1>1, <1>2, <1>3

(* and so it is when answered *)
LEMMA HostAnswersKeeps ==
  ASSUME HostInv, NEW r \in Req, HostAnswers(r)
  PROVE  HostInv'
<1> USE HostAssumption, NotReq DEF HostInv
<1>1. Types' /\ Handlers' /\ Sessions'
  BY DEF HostAnswers, table_vars, agent_vars, Types, Installed, Handlers, Sessions, Running, Living
<1>2. Prompts' /\ Flags' /\ Cancels'
  BY DEF HostAnswers, table_vars, agent_vars, Types, Handlers, Sessions, Prompts, Flags,
         BusyIsTrue, Installed, Running, Cancels
<1>3. RetiredIsDisarmed' /\ BusyIsTrue' /\ CancelIsReported' /\ LeaseOwnedUnlessThrown'
  BY DEF HostAnswers, table_vars, agent_vars, Types, Handlers, Sessions, RetiredIsDisarmed,
         Installed, Living, Prompts, Flags, BusyIsTrue, Running, Cancels, CancelIsReported,
         LeaseOwnedUnlessThrown, LeaseOwned, Threw
<1> QED
  BY <1>1, <1>2, <1>3

(* or denied *)
LEMMA AskDeniedKeeps ==
  ASSUME HostInv, NEW r \in Req, AskDenied(r)
  PROVE  HostInv'
<1> USE HostAssumption, NotReq DEF HostInv
<1>1. Types' /\ Handlers' /\ Sessions'
  BY DEF AskDenied, table_vars, agent_vars, Types, Installed, Handlers, Sessions, Running, Living
<1>2. Prompts' /\ Flags' /\ Cancels'
  BY DEF AskDenied, table_vars, agent_vars, Types, Handlers, Sessions, Prompts, Flags,
         BusyIsTrue, Installed, Running, Cancels
<1>3. RetiredIsDisarmed' /\ BusyIsTrue' /\ CancelIsReported' /\ LeaseOwnedUnlessThrown'
  BY DEF AskDenied, table_vars, agent_vars, Types, Handlers, Sessions, RetiredIsDisarmed,
         Installed, Living, Prompts, Flags, BusyIsTrue, Running, Cancels, CancelIsReported,
         LeaseOwnedUnlessThrown, LeaseOwned, Threw
<1> QED
  BY <1>1, <1>2, <1>3

(* a signalled prompt ends as cancelled or throws, and frees its own flag only *)
LEMMA TurnEndsKeeps ==
  ASSUME HostInv, NEW r \in Req, TurnEnds(r)
  PROVE  HostInv'
<1> USE HostAssumption, NotReq DEF HostInv
<1>1. Types'
  <2>1. conn' \in [Sid -> Req \cup {Idle, Unknown}]
    BY DEF TurnEnds, Release, Types
  <2>2. PICK stop \in StopReasons(r) \cup {"error"} : Answer(r, stop)
    BY DEF TurnEnds
  <2>3. stop \in {"end_turn", "aborted", "cancelled", "error"}
    BY <2>2 DEF StopReasons
  <2>4. pc' \in [Req -> {"idle", "acquiring", "resolving", "slash", "turn", "asking", "answered"}]
        /\ result' \in [Req -> {"none", "ok", "error", "timeout", "slash", "end_turn", "aborted", "cancelled"}]
    BY <2>2, <2>3 DEF Answer, Types
  <2>5. turnOf' \in [Req -> Req \cup {NoReq}]
    BY DEF TurnEnds, Types
  <2>6. UNCHANGED <<table, birth, aborted, model, lease, guard, kind, sid, live, sig, told, asked>>
    BY DEF TurnEnds
  <2> QED
    BY <2>1, <2>4, <2>5, <2>6 DEF Types
<1>2. Handlers' /\ Sessions'
  BY DEF TurnEnds, StopReasons, Release, Answer, Types, Handlers, Sessions, Running, Installed,
         Living
<1>3. Prompts'
  BY DEF TurnEnds, StopReasons, Release, Answer, Types, Handlers, Sessions, Prompts, Flags,
         BusyIsTrue, Installed, Running
<1>4. Flags' /\ Cancels'
  BY DEF TurnEnds, StopReasons, Release, Answer, Types, Flags, Handlers, Running, Cancels
<1>5. RetiredIsDisarmed' /\ BusyIsTrue' /\ CancelIsReported'
  BY DEF TurnEnds, StopReasons, Release, Answer, Types, Handlers, Sessions, RetiredIsDisarmed,
         Installed, Living, Prompts, Flags, BusyIsTrue, Running, Cancels, CancelIsReported
<1>6. LeaseOwnedUnlessThrown'
  BY DEF TurnEnds, StopReasons, Release, Answer, Types, Handlers, Sessions,
         LeaseOwnedUnlessThrown, LeaseOwned, Threw, Installed, Living, Running
<1> QED
  BY <1>1, <1>2, <1>3, <1>4, <1>5, <1>6

-----------------------------------------------------------------------------
(* session/cancel, session/set_model, and nothing                          *)

(* the flag names a running prompt, which gets the signal *)
LEMMA CancelKeeps ==
  ASSUME HostInv, NEW r \in Req, NEW s \in Sid, Cancel(r, s)
  PROVE  HostInv'
<1> USE HostAssumption, NotReq DEF HostInv
<1>0. /\ aborted' \in [Req -> BOOLEAN] /\ sig' \in [Req -> BOOLEAN]
      /\ told' \subseteq Req /\ asked' \subseteq Req
  BY DEF Cancel, Types, Running
<1>1. Types'
  <2>1. /\ pc' \in [Req -> {"idle", "acquiring", "resolving", "slash", "turn", "asking", "answered"}]
        /\ result' \in [Req -> {"none", "ok", "error", "timeout", "slash", "end_turn", "aborted", "cancelled"}]
        /\ kind' \in [Req -> {"none", "new", "load", "prompt", "cancel", "setModel"}]
        /\ sid' \in [Req -> Sid \cup {NoReq}]
    BY DEF Cancel, Answer, Types
  <2> QED
    BY <1>0, <2>1 DEF Cancel, Types, table_vars
<1>2. Cancels'
  <2> SUFFICES ASSUME NEW p \in told' PROVE sig'[p] /\ (p \in Running' \/ pc'[p] = "answered")
    BY DEF Cancels
  <2>1. p \in Req /\ (p \in told \/ conn[s] = p)
    BY DEF Cancel, Types
  <2>2. sig[p] \/ conn[s] = p
    BY <2>1 DEF Cancels
  <2>3. p \in Running \/ pc[p] = "answered"
    BY <2>1 DEF Cancels, Flags
  <2> QED
    BY <2>1, <2>2, <2>3 DEF Cancel, Answer, Running, Types
<1>3. Handlers' /\ Sessions'
  BY DEF Cancel, Answer, table_vars, Types, Handlers, Sessions, Running, Installed, Living
<1>4. Prompts' /\ Flags'
  BY DEF Cancel, Answer, table_vars, Types, Handlers, Sessions, Prompts, Flags, BusyIsTrue,
         Installed, Running
<1>5. RetiredIsDisarmed' /\ BusyIsTrue' /\ CancelIsReported'
  BY DEF Cancel, Answer, table_vars, Types, Handlers, Sessions, RetiredIsDisarmed, Installed,
         Living, Prompts, Flags, BusyIsTrue, Running, Cancels, CancelIsReported
<1>6. LeaseOwnedUnlessThrown'
  BY DEF Cancel, Answer, table_vars, Types, Handlers, Sessions, LeaseOwnedUnlessThrown,
         LeaseOwned, Threw, Installed, Living, Running
<1> QED
  BY <1>1, <1>2, <1>3, <1>4, <1>5, <1>6

(* only the model changes *)
LEMMA SetModelKeeps ==
  ASSUME HostInv, NEW r \in Req, NEW s \in Sid, SetModel(r, s)
  PROVE  HostInv'
<1> USE HostAssumption, NotReq DEF HostInv
<1>1. Types' /\ Handlers' /\ Sessions'
  BY DEF SetModel, Answer, table_vars, Types, Installed, Handlers, Sessions, Running, Living
<1>2. Prompts' /\ Flags' /\ Cancels'
  BY DEF SetModel, Answer, table_vars, Types, Handlers, Sessions, Prompts, Flags, BusyIsTrue,
         Installed, Running, Cancels
<1>3. RetiredIsDisarmed' /\ BusyIsTrue' /\ CancelIsReported' /\ LeaseOwnedUnlessThrown'
  BY DEF SetModel, Answer, table_vars, Types, Handlers, Sessions, RetiredIsDisarmed, Installed,
         Living, Prompts, Flags, BusyIsTrue, Running, Cancels, CancelIsReported,
         LeaseOwnedUnlessThrown, LeaseOwned, Threw
<1> QED
  BY <1>1, <1>2, <1>3

(* a stuttering step *)
LEMMA StutterKeeps ==
  ASSUME HostInv, UNCHANGED vars
  PROVE  HostInv'
<1> USE HostAssumption, NotReq DEF HostInv
<1>1. Types' /\ Handlers' /\ Sessions'
  BY DEF vars, table_vars, agent_vars, req_vars, Types, Installed, Handlers, Sessions, Running,
         Living
<1>2. Prompts' /\ Flags' /\ Cancels'
  BY DEF vars, table_vars, agent_vars, req_vars, Types, Handlers, Sessions, Prompts, Flags,
         BusyIsTrue, Installed, Running, Cancels
<1>3. RetiredIsDisarmed' /\ BusyIsTrue' /\ CancelIsReported' /\ LeaseOwnedUnlessThrown'
  BY DEF vars, table_vars, agent_vars, req_vars, Types, Handlers, Sessions, RetiredIsDisarmed,
         Installed, Living, Prompts, Flags, BusyIsTrue, Running, Cancels, CancelIsReported,
         LeaseOwnedUnlessThrown, LeaseOwned, Threw
<1> QED
  BY <1>1, <1>2, <1>3

-----------------------------------------------------------------------------
(* nothing is installed or running at the start *)
LEMMA InitHostInv == Init => HostInv
<1> SUFFICES ASSUME Init PROVE HostInv
  OBVIOUS
<1> USE HostAssumption, NotReq DEF Init
<1>1. Types
  BY DEF Types
<1>2. Installed = {} /\ Running = {} /\ Threw = {}
  BY DEF Installed, Running, Threw
<1>3. Handlers /\ Sessions /\ Prompts /\ Flags /\ Cancels
  BY <1>2 DEF Handlers, Sessions, Prompts, Flags, Cancels
<1>4. RetiredIsDisarmed /\ BusyIsTrue /\ CancelIsReported /\ LeaseOwnedUnlessThrown
  BY <1>2 DEF RetiredIsDisarmed, BusyIsTrue, CancelIsReported, LeaseOwnedUnlessThrown, LeaseOwned
<1> QED
  BY <1>1, <1>3, <1>4 DEF HostInv

(* every step keeps the invariant *)
LEMMA NextHostInv == HostInv /\ [Next]_vars => HostInv'
<1> SUFFICES ASSUME HostInv, [Next]_vars PROVE HostInv'
  OBVIOUS
<1>1. CASE Begin
  <2> PICK r \in Req :
        \/ Start(r, "new", NoReq)
        \/ \E s \in Sid : \/ Start(r, "load", s) \/ PromptRefused(r, s) \/ Prompt(r, s)
                          \/ Cancel(r, s) \/ SetModel(r, s)
    BY <1>1 DEF Begin
  <2> QED
    BY StartKeeps, PromptRefusedKeeps, PromptKeeps, CancelKeeps, SetModelKeeps
<1>2. ASSUME NEW r \in Req, Started(r) PROVE HostInv'
  BY <1>2, CreatedKeeps, CreateThrowsKeeps, LoadedKeeps, ResolvedKeeps, ResolveThrowsKeeps,
     AcquireFailsKeeps, AcquireTimesOutKeeps, LateAcquireKeeps, DiscardKeeps, ClosedKeeps
  DEF Started
<1>3. ASSUME NEW r \in Req, Turn(r) PROVE HostInv'
  BY <1>3, SlashAnswersKeeps, TurnBeginsKeeps, AskKeeps, HostAnswersKeeps, AskDeniedKeeps,
     TurnEndsKeeps
  DEF Turn
<1>4. CASE UNCHANGED vars
  BY <1>4, StutterKeeps
<1> QED
  BY <1>1, <1>2, <1>3, <1>4 DEF Next

(* Handlers, table, busy flags, guards and leases agree at all times. *)
THEOREM Invariance == Spec => []HostInv
<1> QED
  BY InitHostInv, NextHostInv, PTL DEF Spec

(* A session that was evicted or replaced has an aborted agent and a closed *)
(* or closing transcript, in whatever phase of a prompt that happened.      *)
THEOREM RetiredSessionsAreDisarmed == Spec => []RetiredIsDisarmed
<1>1. HostInv => RetiredIsDisarmed
  BY DEF HostInv
<1> QED
  BY <1>1, Invariance, PTL

(* While a prompt works on the live session of an id, the connection        *)
(* refuses a second one.                                                    *)
THEOREM BusyFlagIsTrue == Spec => []BusyIsTrue
<1>1. HostInv => BusyIsTrue
  BY DEF HostInv
<1> QED
  BY <1>1, Invariance, PTL

(* No agent ever runs two prompts of the connection at once, those of       *)
(* replaced and evicted sessions included.                                  *)
OneTurnPerAgent == \A r, q \in Running : live[r] = live[q] => r = q
THEOREM AgentsRunOneTurn == Spec => []OneTurnPerAgent
<1>1. HostInv => OneTurnPerAgent
  BY DEF HostInv, Prompts, OneTurnPerAgent
<1> QED
  BY <1>1, Invariance, PTL

(* A prompt whose busy flag met a cancel is never reported as ended by      *)
(* itself or merely aborted.                                                *)
THEOREM CancelsAreReported == Spec => []CancelIsReported
<1>1. HostInv => CancelIsReported
  BY DEF HostInv
<1> QED
  BY <1>1, Invariance, PTL

(* Unless a start threw after its guard had committed, every lease that is  *)
(* held has somebody who will give it back.                                 *)
THEOREM LeasesHaveOwners == Spec => []LeaseOwnedUnlessThrown
<1>1. HostInv => LeaseOwnedUnlessThrown
  BY DEF HostInv
<1> QED
  BY <1>1, Invariance, PTL

(* session/set_model never changes the model under a running turn.          *)
THEOREM TurnsKeepTheirModel == Spec => ModelFixedDuringTurn
<1> DEFINE Fixed ==
      \A l \in Req : TurnsOn(l) # {} /\ TurnsOn(l)' = TurnsOn(l) => model'[l] = model[l]
<1>1. HostInv /\ [Next]_vars => [Fixed]_vars
  <2> SUFFICES ASSUME HostInv, Next PROVE Fixed
    BY DEF vars
  <2>1. ASSUME NEW r \in Req, NEW s \in Sid, SetModel(r, s) PROVE Fixed
    <3> SUFFICES ASSUME NEW l \in Req, TurnsOn(l) # {} PROVE model'[l] = model[l]
      OBVIOUS
    <3>1. turnOf[l] # NoReq
      BY NotReq DEF TurnsOn, HostInv, Prompts, Running
    <3> QED
      BY <2>1, <3>1 DEF SetModel, HostInv, Types
  <2>2. CASE UNCHANGED model
    BY <2>2
  <2> QED
    BY <2>1, <2>2 DEF Next, Begin, Started, Turn, Start, PromptRefused, Prompt, Cancel,
       Created, CreateThrows, Loaded, Resolved, ResolveThrows, AcquireFails, AcquireTimesOut,
       LateAcquire, Discard, Closed, SlashAnswers, TurnBegins, Ask, HostAnswers, AskDenied,
       TurnEnds, agent_vars
<1> QED
  BY <1>1, Invariance, PTL DEF Spec, ModelFixedDuringTurn

-----------------------------------------------------------------------------
(* The cap on live sessions                                                *)
(* Of the sessions that are not evicted, the oldest has fewer than         *)
(* MaxSessions beside it that are not older: that is the room.             *)
LEMMA OldestOf ==
  ASSUME NEW S, S \subseteq Req, S # {}, birth \in [Req -> Nat]
  PROVE  \E m \in S : \A q \in S : birth[m] <= birth[q]
<1> DEFINE R == {p \in Nat \X Nat : p[1] < p[2]}
           B == {birth[q] : q \in S}
<1>1. IsWellFoundedOn(R, Nat)  BY NatLessThanWellFounded DEF OpToRel
<1>2. B \subseteq Nat /\ B # {}  OBVIOUS
<1>3. PICK b \in B : \A c \in B : <<c, b>> \notin R
  <2> HIDE DEF R, B
  <2> QED  BY <1>1, <1>2, WFMin
<1>4. PICK m \in S : b = birth[m]  OBVIOUS
<1>5. ASSUME NEW q \in S PROVE birth[m] <= birth[q]
  <2>1. birth[q] \in B /\ birth[q] \in Nat /\ birth[m] \in Nat  OBVIOUS
  <2>2. birth[q] < birth[m] => <<birth[q], b>> \in R  BY <1>4, <2>1
  <2> HIDE DEF R, B
  <2> QED  BY <1>3, <2>1, <2>2
<1> QED  BY <1>5

LEMMA FewRequests == ASSUME NEW S, S \subseteq Req PROVE IsFiniteSet(S) /\ Cardinality(S) \in Nat
<1>1. IsFiniteSet(Req)  BY HostAssumption, FS_Interval DEF Req
<1> QED  BY <1>1, FS_Subset, FS_CardinalityType

LEMMA RoomIsMade == ASSUME Types PROVE Cardinality(Living \ Evicted) < MaxSessions
<1> PICK kept : kept = Living \ Evicted  OBVIOUS
<1>1. kept \subseteq Living /\ Living \subseteq Req  BY DEF Living
<1>2. CASE kept = {}  BY <1>2, FS_EmptySet, HostAssumption
<1>3. CASE kept # {}
  <2>1. birth \in [Req -> Nat]  BY DEF Types
  <2>2. PICK m \in kept : \A q \in kept : birth[m] <= birth[q]  BY <1>1, <1>3, <2>1, OldestOf
  <2> PICK older : older = {q \in Living : birth[q] < birth[m]}  OBVIOUS
  <2>3. kept \cap older = {}
    <3>1. \A q \in kept : birth[m] \in Nat /\ birth[q] \in Nat  BY <1>1, <2>1
    <3> QED  BY <2>2, <3>1
  <2>4. /\ IsFiniteSet(kept) /\ IsFiniteSet(older) /\ IsFiniteSet(kept \cap older)
        /\ Cardinality(kept) \in Nat /\ Cardinality(older) \in Nat /\ Cardinality(Living) \in Nat
        /\ IsFiniteSet(Living)
    BY <1>1, FewRequests, FS_Subset
  <2>5. Cardinality(kept \cup older) = Cardinality(kept) + Cardinality(older)
    <3>1. Cardinality(kept \cap older) = 0  BY <2>3, FS_EmptySet
    <3>2. Cardinality(kept \cup older) = Cardinality(kept) + Cardinality(older) - Cardinality(kept \cap older)
      BY <2>4, FS_Union
    <3> QED  BY <2>4, <3>1, <3>2
  <2>6. Cardinality(kept \cup older) <= Cardinality(Living)  BY <1>1, <2>4, FS_Subset
  <2>7. ~(Cardinality(older) + MaxSessions <= Cardinality(Living))  BY <1>1 DEF Evicted
  <2> QED  BY <2>4, <2>5, <2>6, <2>7, HostAssumption
<1> QED  BY <1>2, <1>3

(* Who lives and who starts are requests, and few. *)
LEMMA Counts ==
  /\ IsFiniteSet(Living) /\ IsFiniteSet(Starting)
  /\ Cardinality(Living) \in Nat /\ Cardinality(Starting) \in Nat
BY FewRequests DEF Living, Starting

LEMMA NobodyMore ==
  ASSUME OverCapOnlyByStarts, Living' \subseteq Living, Starting' \subseteq Starting
  PROVE  OverCapOnlyByStarts'
<1>1. Cardinality(Living') <= Cardinality(Living) /\ Cardinality(Starting') <= Cardinality(Starting)
  BY Counts, FS_Subset
<1>2. Cardinality(Living') \in Nat /\ Cardinality(Starting') \in Nat
  BY FewRequests DEF Living, Starting
<1> QED  BY <1>1, <1>2, Counts, HostAssumption DEF OverCapOnlyByStarts

(* A start makes room for one: it may take its place among the starting.   *)
LEMMA StartFits ==
  ASSUME HostInv, NEW r \in Req, NEW k, NEW s, Start(r, k, s)
  PROVE  OverCapOnlyByStarts'
<1> USE DEF HostInv
<1>1. Living' \subseteq Living \ Evicted  BY NotReq DEF Start, Types, Living, Evicted
<1>2. Starting' = Starting \cup {r} /\ r \notin Starting  BY DEF Start, Starting, Types
<1>3. Cardinality(Starting') = Cardinality(Starting) + 1  BY <1>2, Counts, FS_AddElement
<1>4. Cardinality(Living') <= Cardinality(Living \ Evicted) /\ Cardinality(Living') \in Nat
      /\ Cardinality(Living \ Evicted) \in Nat
  <2>1. Living \subseteq Req  BY DEF Living
  <2> QED  BY <1>1, <2>1, FewRequests, FS_Subset
<1>5. Cardinality(Starting) < MaxStarting  BY DEF Start
<1> QED  BY <1>3, <1>4, <1>5, RoomIsMade, Counts, HostAssumption DEF OverCapOnlyByStarts

(* A session that is installed was starting. *)
LEMMA InstallFits ==
  ASSUME HostInv, OverCapOnlyByStarts, NEW r \in Starting, NEW s \in Sid, Install(r, s)
  PROVE  OverCapOnlyByStarts'
<1> USE DEF HostInv
<1>1. Living' \subseteq Living \cup {r}  BY NotReq DEF Install, Types, Living
<1>2. Starting' = Starting \ {r}  BY DEF Install, Answer, Starting, Types
<1>3. Cardinality(Starting') = Cardinality(Starting) - 1  BY <1>2, Counts, FS_RemoveElement
<1>4. Cardinality(Living') <= Cardinality(Living) + 1 /\ Cardinality(Living') \in Nat
  <2>1. /\ IsFiniteSet(Living \cup {r})
        /\ Cardinality(Living \cup {r}) = IF r \in Living THEN Cardinality(Living) ELSE Cardinality(Living) + 1
    BY Counts, FS_AddElement
  <2>2. Cardinality(Living') <= Cardinality(Living \cup {r})  BY <1>1, <2>1, FS_Subset
  <2>3. Cardinality(Living') \in Nat  BY FewRequests DEF Living
  <2> QED  BY <2>1, <2>2, <2>3, Counts
<1> QED  BY <1>3, <1>4, Counts, HostAssumption DEF OverCapOnlyByStarts

LEMMA CapStep == HostInv /\ OverCapOnlyByStarts /\ [Next]_vars => OverCapOnlyByStarts'
<1> SUFFICES ASSUME HostInv, OverCapOnlyByStarts, [Next]_vars PROVE OverCapOnlyByStarts'
  OBVIOUS
<1>1. ASSUME NEW r \in Req, NEW k, NEW s, Start(r, k, s) PROVE OverCapOnlyByStarts'
  BY <1>1, StartFits
<1>2. ASSUME NEW r \in Req, Created(r) PROVE OverCapOnlyByStarts'
  <2>1. r \in Starting  BY <1>2 DEF Created, Starting
  <2> QED  BY <1>2, <2>1, InstallFits DEF Created
<1>3. ASSUME NEW r \in Req, Resolved(r) PROVE OverCapOnlyByStarts'
  <2>1. r \in Starting /\ sid[r] \in Sid
    BY <1>3, NotReq DEF Resolved, Starting, HostInv, Handlers, Types
  <2> QED  BY <1>3, <2>1, InstallFits DEF Resolved
<1>4. ASSUME table' = table, Starting' \subseteq Starting PROVE OverCapOnlyByStarts'
  BY <1>4, NobodyMore DEF Living
<1>5. ASSUME NEW r \in Req, CreateThrows(r) \/ Loaded(r) \/ ResolveThrows(r) \/ AcquireFails(r)
             \/ AcquireTimesOut(r) \/ LateAcquire(r) \/ Discard(r) \/ Closed(r) \/ Turn(r)
      PROVE  table' = table /\ Starting' \subseteq Starting
  BY <1>5 DEF Turn, CreateThrows, Loaded, ResolveThrows, AcquireFails, AcquireTimesOut, LateAcquire,
     Discard, Closed, SlashAnswers, TurnBegins, Ask, HostAnswers, AskDenied, TurnEnds, Answer,
     table_vars, req_vars, Starting, HostInv, Types
<1>6. ASSUME NEW r \in Req, NEW s \in Sid,
             PromptRefused(r, s) \/ Prompt(r, s) \/ Cancel(r, s) \/ SetModel(r, s)
      PROVE  table' = table /\ Starting' \subseteq Starting
  BY <1>6 DEF PromptRefused, Prompt, Cancel, SetModel, Answer, table_vars, Starting, HostInv, Types
<1>7. CASE UNCHANGED vars
  BY <1>4, <1>7 DEF vars, table_vars, req_vars, Starting
<1> QED  BY <1>1, <1>2, <1>3, <1>4, <1>5, <1>6, <1>7 DEF Next, Begin, Started

(* The cap on live sessions is passed by no more than can start at the same*)
(* time: each makes room for one before its awaits, and every later start  *)
(* makes room for all (agent-backend.ts, pruneIfNeeded), for any number of *)
(* requests and sessions and any caps.                                     *)
THEOREM CapIsPassedOnlyByStarts == Spec => []OverCapOnlyByStarts
<1>1. Init => OverCapOnlyByStarts
  <2> SUFFICES ASSUME Init PROVE OverCapOnlyByStarts  OBVIOUS
  <2>1. Living = {} /\ Starting = {}  BY NotReq DEF Init, Living, Starting
  <2> QED  BY <2>1, FS_EmptySet, HostAssumption DEF OverCapOnlyByStarts
<1> QED  BY <1>1, CapStep, Invariance, PTL DEF Spec
=============================================================================
