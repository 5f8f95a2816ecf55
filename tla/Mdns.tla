-------------------------------- MODULE Mdns --------------------------------
(***************************************************************************)
(* Peers of the local network: each advertises itself by multicast DNS     *)
(* (mdns/advertiser.ts), and a browser (mdns/browser.ts) hears of them and *)
(* tells the discovery rail (MdnsDiscoverySource of discovery.ts).         *)
(* Datagrams are lost, doubled and reordered, peers are restarted and      *)
(* crash.  Time is counted down: `known` holds the ticks a record has left.*)
(***************************************************************************)
EXTENDS Integers

CONSTANTS
    LanPeer,
    Ttl,        \* ticks a record lives
    MaxStarts,  \* bound: starts of a peer; what it says of itself differs from start to start
    MaxCopies   \* bound: datagrams the network doubles

ASSUME LanAssumption == Ttl \in Nat

VARIABLES
    starts,    \* peer |-> how often it has been started
    adverts,   \* peer |-> "off", "fresh" (its repeated announcement is to come) or "on"
    net,       \* datagrams under way: [peer, version, bye]
    copies,
    browser,   \* "on", "deaf" (its socket failed) or "stopped"
    known,     \* #known: peer |-> [version, left], or Nobody
    advertised, \* #announced: peer |-> the version the rail was told of last, or 0
    believed   \* history: peer |-> the version the rail was told of, 0 when it was told of a loss

mdnsVars == <<starts, adverts, net, copies, browser, known, advertised, believed>>

Nobody == [version |-> 0, left |-> 0]

MdnsInit ==
    /\ starts = [p \in LanPeer |-> 0] /\ adverts = [p \in LanPeer |-> "off"]
    /\ net = {} /\ copies = 0 /\ browser = "on"
    /\ known = [p \in LanPeer |-> Nobody] /\ advertised = [p \in LanPeer |-> 0]
    /\ believed = [p \in LanPeer |-> 0]

Datagram(p, v, goodbye) == [peer |-> p, version |-> v, bye |-> goodbye]
(* announce(), and the answer to a question *)
Current(p) == Datagram(p, starts[p], FALSE)

---------------------------------------------------------------------------
(* MdnsAdvertiser.start() and its first announcement *)
AdvertStarts(p) ==
    /\ adverts[p] = "off" /\ starts[p] < MaxStarts
    /\ starts' = [starts EXCEPT ![p] = @ + 1] /\ adverts' = [adverts EXCEPT ![p] = "fresh"]
    /\ net' = net \cup {Datagram(p, starts'[p], FALSE)}
    /\ UNCHANGED <<copies, browser, known, advertised, believed>>

(* the announcement that is repeated a second later *)
AnnouncesAgain(p) ==
    /\ adverts[p] = "fresh" /\ adverts' = [adverts EXCEPT ![p] = "on"]
    /\ net' = net \cup {Current(p)}
    /\ UNCHANGED <<starts, copies, browser, known, advertised, believed>>

(* stop() says goodbye *)
AdvertStops(p) ==
    /\ adverts[p] # "off" /\ adverts' = [adverts EXCEPT ![p] = "off"]
    /\ net' = net \cup {Datagram(p, starts[p], TRUE)}
    /\ UNCHANGED <<starts, copies, browser, known, advertised, believed>>

(* a crash, and a socket that fails, do not *)
AdvertDies(p) ==
    /\ adverts[p] # "off" /\ adverts' = [adverts EXCEPT ![p] = "off"]
    /\ UNCHANGED <<starts, net, copies, browser, known, advertised, believed>>

(* sendQuery(): of the peers, some hear the question and answer *)
Queries(heard) ==
    /\ browser = "on"
    /\ \A p \in heard : adverts[p] # "off"
    /\ net' = net \cup {Current(p) : p \in heard}
    /\ UNCHANGED <<starts, adverts, copies, browser, known, advertised, believed>>

---------------------------------------------------------------------------
(* MdnsDiscoverySource: a loss is passed on, and of a peer that is found   *)
(* what differs from the last time                                         *)
TellsLost(lost) ==
    /\ advertised' = [p \in LanPeer |-> IF p \in lost THEN 0 ELSE advertised[p]]
    /\ believed' = [p \in LanPeer |-> IF p \in lost THEN 0 ELSE believed[p]]

TellsFound(p, v) ==
    IF advertised[p] = v
    THEN UNCHANGED <<advertised, believed>>
    ELSE advertised' = [advertised EXCEPT ![p] = v] /\ believed' = [believed EXCEPT ![p] = v]

(* #handlePacket: a goodbye counts for a known peer only *)
Ingest(d) ==
    IF d.bye
    THEN /\ known' = [known EXCEPT ![d.peer] = Nobody]
         /\ TellsLost({d.peer} \ {p \in LanPeer : known[p] = Nobody})
    ELSE /\ known' = [known EXCEPT ![d.peer] = [version |-> d.version, left |-> Ttl]]
         /\ TellsFound(d.peer, d.version)

Arrives(d) ==
    /\ d \in net /\ browser = "on" /\ Ingest(d)
    /\ \/ net' = net \ {d} /\ UNCHANGED copies
       \/ copies < MaxCopies /\ copies' = copies + 1 /\ UNCHANGED net
    /\ UNCHANGED <<starts, adverts, browser>>

IsLost(d) ==
    /\ d \in net /\ net' = net \ {d}
    /\ UNCHANGED <<starts, adverts, copies, browser, known, advertised, believed>>

Ticks ==
    /\ \E p \in LanPeer : known[p].left > 0
    /\ known' = [p \in LanPeer |-> [known[p] EXCEPT !.left = IF @ > 0 THEN @ - 1 ELSE 0]]
    /\ UNCHANGED <<starts, adverts, net, copies, browser, advertised, believed>>

(* Mutant: a browser whose socket failed sweeps no more *)
Sweeps_Never ==
    LET lapsed == {p \in LanPeer : known[p] # Nobody /\ known[p].left = 0} IN
    /\ browser = "on" /\ lapsed # {}
    /\ known' = [p \in LanPeer |-> IF p \in lapsed THEN Nobody ELSE known[p]]
    /\ TellsLost(lapsed)
    /\ UNCHANGED <<starts, adverts, net, copies, browser>>

(* sweep(), whose timer a failing socket leaves running *)
Sweeps ==
    LET lapsed == {p \in LanPeer : known[p] # Nobody /\ known[p].left = 0} IN
    /\ browser # "stopped" /\ lapsed # {}
    /\ known' = [p \in LanPeer |-> IF p \in lapsed THEN Nobody ELSE known[p]]
    /\ TellsLost(lapsed)
    /\ UNCHANGED <<starts, adverts, net, copies, browser>>

BrowserFails ==
    /\ browser = "on" /\ browser' = "deaf"
    /\ UNCHANGED <<starts, adverts, net, copies, known, advertised, believed>>

(* stop(): the rail is not told, it stops as well and forgets by itself *)
BrowserStops ==
    /\ browser # "stopped" /\ browser' = "stopped"
    /\ known' = [p \in LanPeer |-> Nobody] /\ advertised' = [p \in LanPeer |-> 0]
    /\ believed' = [p \in LanPeer |-> 0]
    /\ UNCHANGED <<starts, adverts, net, copies>>

MdnsNext ==
    \/ Ticks \/ Sweeps \/ BrowserFails \/ BrowserStops
    \/ \E p \in LanPeer : AdvertStarts(p) \/ AnnouncesAgain(p) \/ AdvertStops(p) \/ AdvertDies(p)
    \/ \E heard \in SUBSET LanPeer : heard # {} /\ Queries(heard)
    \/ \E d \in net : Arrives(d) \/ IsLost(d)

(* Clocks run and timers fire.  The network is unfair to any one datagram, *)
(* but of a peer that is asked again and again some answer comes through.  *)
OthersPass(p) == \E d \in net : d # Current(p) /\ (Arrives(d) \/ IsLost(d))
MdnsFairness ==
    /\ WF_mdnsVars(Ticks) /\ WF_mdnsVars(Sweeps)
    /\ \A p \in LanPeer :
          /\ WF_mdnsVars(Queries({p}))
          /\ SF_mdnsVars(Arrives(Current(p)))
          /\ WF_mdnsVars(OthersPass(p))

MdnsSpec == MdnsInit /\ [][MdnsNext]_mdnsVars /\ MdnsFairness

---------------------------------------------------------------------------
(* What the rail was told last is what the browser knows, version for      *)
(* version, though repetitions are not passed on: no restarted peer is     *)
(* dialled where it was, no lapsed one is believed in.                     *)
RailIsToldAll ==
    \A p \in LanPeer : believed[p] = known[p].version /\ advertised[p] = believed[p]

(* A peer that is gone for good, by a crash or with a goodbye that is lost *)
(* or late, is forgotten by a rail whose browser may have failed too; and  *)
(* one that is there for good is known as it is, again and again, though   *)
(* goodbyes and announcements of its earlier runs arrive after its own.    *)
LanIsFollowed ==
    \A p \in LanPeer :
        /\ <>[](adverts[p] = "off") => <>[](believed[p] = 0)
        /\ <>[](adverts[p] # "off" /\ browser = "on") => []<>(believed[p] = starts[p])
=============================================================================
