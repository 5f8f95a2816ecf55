------------------------------ MODULE PeerPool ------------------------------
(***************************************************************************)
(* The pool of connected peers: the discovery rail (discovery-rail.ts)     *)
(* turns the announcements of its sources into connects and disconnects of *)
(* the managed cluster (managed-cluster.ts), one after the other, while    *)
(* the user connects peers too (cluster/connect) and the host may be       *)
(* disposed of (wire-cluster.ts).                                          *)
(***************************************************************************)
EXTENDS Sequences, Integers

CONSTANTS
    Peer,
    Listed,     \* the configured peers, a sequence: the static source announces them once
    Browser,    \* sources that announce and withdraw: mDNS, a mesh feed
    MaxAnnounce \* bound: announcements of the browsers

ASSUME PoolAssumption == Listed \in Seq(Peer) /\ "static" \notin Browser

VARIABLES
    rail,         \* "off", "starting", "on" or "stopped"
    advertisers,  \* peer |-> the sources that announce it
    events,       \* what the rail's chain of promises has still to handle
    awaited,      \* how many of them start() waits for
    dialled,      \* the connectPeer() calls that wait for their socket: {"rail", "user"} |-> peers
    pool,         \* peers in the registry: #connected and #closers hold the same
    failedPeers,  \* ids in #failed
    ownerless,    \* peers a socket is open to that no closer knows
    announced,
    byUser        \* history: peers the user connected

poolVars == <<rail, advertisers, events, awaited, dialled, pool, failedPeers, ownerless, announced,
              byUser>>

PoolInit ==
    /\ rail = "off" /\ advertisers = [p \in Peer |-> {}] /\ events = <<>> /\ awaited = 0
    /\ dialled = [who \in {"rail", "user"} |-> {}]
    /\ pool = {} /\ failedPeers = {} /\ ownerless = {} /\ announced = 0
    /\ byUser = {}

---------------------------------------------------------------------------
(* listenFor(source): a peer is lost when the last source withdraws it *)
HearsFound(s, p) ==
    /\ advertisers' = [advertisers EXCEPT ![p] = @ \cup {s}]
    /\ events' = Append(events, <<"found", p>>)

(* Mutant: the withdrawal of one source disconnects a peer that others still announce *)
HearsLost_Always(s, p) ==
    /\ advertisers' = [advertisers EXCEPT ![p] = @ \ {s}]
    /\ events' = Append(events, <<"lost", p>>)

HearsLost(s, p) ==
    /\ advertisers' = [advertisers EXCEPT ![p] = @ \ {s}]
    /\ events' = IF advertisers'[p] = {} THEN Append(events, <<"lost", p>>) ELSE events

(* start(): the static source announces each of its peers *)
Starts ==
    /\ rail = "off" /\ rail' = "starting"
    /\ advertisers' =
          [p \in Peer |-> IF \E i \in DOMAIN Listed : Listed[i] = p THEN {"static"} ELSE {}]
    /\ events' = [i \in DOMAIN Listed |-> <<"found", Listed[i]>>] /\ awaited' = Len(Listed)
    /\ UNCHANGED <<dialled, pool, failedPeers, ownerless, announced, byUser>>

(* start() returns, and the host is open for requests, when at least the   *)
(* events of the configured peers have been handled                        *)
StartReturns ==
    /\ rail = "starting" /\ awaited = 0 /\ dialled["rail"] = {} /\ rail' = "on"
    /\ UNCHANGED <<advertisers, events, awaited, dialled, pool, failedPeers, ownerless, announced,
                   byUser>>

Announces(s, p) ==
    /\ rail \in {"starting", "on"} /\ announced < MaxAnnounce /\ announced' = announced + 1
    /\ HearsFound(s, p) \/ HearsLost(s, p)
    /\ UNCHANGED <<rail, awaited, dialled, pool, failedPeers, ownerless, byUser>>

(* connectPeer() up to its await: nothing to do for a peer of the pool *)
Dials(who, p) ==
    IF p \in pool
    THEN UNCHANGED <<dialled, failedPeers>>
    ELSE /\ dialled' = [dialled EXCEPT ![who] = @ \cup {p}]
         /\ failedPeers' = failedPeers \ {p}

(* the next event, when the one before it has been handled *)
RailHandles ==
    /\ events # <<>> /\ dialled["rail"] = {} /\ events' = Tail(events)
    /\ awaited' = IF awaited > 0 THEN awaited - 1 ELSE 0
    /\ \/ Head(events)[1] = "found" /\ Dials("rail", Head(events)[2]) /\ UNCHANGED pool
       \/ /\ Head(events)[1] = "lost" /\ pool' = pool \ {Head(events)[2]}
          /\ UNCHANGED <<dialled, failedPeers>>
    /\ UNCHANGED <<rail, advertisers, ownerless, announced, byUser>>

UserConnects(p) ==
    /\ rail = "on" /\ p \notin dialled["user"]
    /\ byUser' = byUser \cup {p} /\ Dials("user", p)
    /\ UNCHANGED <<rail, advertisers, events, awaited, pool, ownerless, announced>>

(* connectPeer() after its await: register() throws for a peer that is in  *)
(* the registry by now, and the socket just opened is left open            *)
SocketUp(who, p) ==
    /\ p \in dialled[who] /\ dialled' = [dialled EXCEPT ![who] = @ \ {p}]
    /\ IF p \in pool
       THEN failedPeers' = failedPeers \cup {p} /\ ownerless' = ownerless \cup {p} /\ UNCHANGED pool
       ELSE pool' = pool \cup {p} /\ UNCHANGED <<failedPeers, ownerless>>
    /\ UNCHANGED <<rail, advertisers, events, awaited, announced, byUser>>

SocketRefused(who, p) ==
    /\ p \in dialled[who] /\ dialled' = [dialled EXCEPT ![who] = @ \ {p}]
    /\ failedPeers' = failedPeers \cup {p}
    /\ UNCHANGED <<rail, advertisers, events, awaited, pool, ownerless, announced, byUser>>

(* dispose(): stop() of the rail, which leaves its chain as it is, and closeAll() *)
PoolDisposed ==
    /\ rail = "on" /\ rail' = "stopped"
    /\ advertisers' = [p \in Peer |-> {}] /\ pool' = {}
    /\ UNCHANGED <<events, awaited, dialled, failedPeers, ownerless, announced, byUser>>

PoolNext ==
    \/ Starts \/ StartReturns \/ RailHandles \/ PoolDisposed
    \/ \E p \in Peer :
          \/ UserConnects(p)
          \/ \E s \in Browser : Announces(s, p)
          \/ \E who \in {"rail", "user"} : SocketUp(who, p) \/ SocketRefused(who, p)

PoolSpec == PoolInit /\ [][PoolNext]_poolVars

---------------------------------------------------------------------------
(* When the rail has handled what it heard, the pool is what the sources   *)
(* say: a peer some source announces is connected or reported failed, and  *)
(* one that nobody announces any more is gone, whatever order the sources' *)
(* announcements, withdrawals and slow connects came in.  And the rail     *)
(* never races itself: no socket of its is open without a closer.          *)
RailConverges ==
    /\ rail \in {"starting", "on"} /\ events = <<>> /\ dialled["rail"] = {} =>
          \A p \in Peer \ byUser :
              /\ advertisers[p] # {} => p \in pool \cup failedPeers
              /\ advertisers[p] = {} => p \notin pool
    /\ ownerless \cup (pool \cap failedPeers) \subseteq byUser
=============================================================================
