------------------------------ MODULE Discovery ------------------------------
(***************************************************************************)
(* Discovery between the participants of a domain: SPDP finds the peers    *)
(* (src/rtps/spdp.cpp), a bridge thread polls its table and tells SEDP     *)
(* which of them are new and which are gone (src/rtps/participant.cpp,     *)
(* sync_peers()), and SEDP announces the endpoints to each other and       *)
(* matches readers with writers by topic (src/rtps/sedp.cpp).              *)
(*                                                                         *)
(* Each participant has an application thread that registers endpoints, a  *)
(* bridge thread, and SPDP and SEDP receive threads; a critical section of *)
(* SedpService::mu_ is one action.  The datagrams that follow a critical   *)
(* section go out with it, since the network delays each of them at will.  *)
(* SPDP announcements are periodic, so one that is lost is one that is not *)
(* heard yet; a SEDP announcement is sent once and may be lost, duplicated *)
(* and delayed.                                                            *)
(***************************************************************************)
EXTENDS Naturals, FiniteSets

CONSTANTS
    Parts,          \* participants
    Writers,        \* endpoints ...
    Readers,
    Home,           \* ... the participant that registers each of them
    Topic,          \* ... and its topic
    MaxExpiries     \* bound: expired leases of peers that still run

Endpoints == Writers \cup Readers

ASSUME DiscoveryAssumption ==
    /\ Writers \cap Readers = {}
    /\ Home \in [Endpoints -> Parts]
    /\ DOMAIN Topic = Endpoints
    /\ MaxExpiries \in Nat

VARIABLES
    running,    \* the participants whose process runs
    heard,      \* SpdpService::peers_
    bridged,    \* Participant::known_peers_, the bridge thread's table
    news,       \* the peers it has yet to pass to on_new_peer()
    gone,       \* those it has yet to pass to on_peer_evicted()
    known,      \* SedpService::known_peers_
    reg,        \* each endpoint: "none", "inserted" in its local table, "done"
    remote,     \* remote_writers_ and remote_readers_
    matched,    \* matched_writers_by_reader_
    net,        \* SEDP announcements in the network
    old,        \* those that have arrived
    lost,       \* history: some announcement was lost
    expiries,   \* history and bound: leases of running peers that expired
    told        \* history: told[p], who was sent what since p last knew them

tables == <<heard, bridged, news, gone>>
sedp == <<known, reg, remote, matched>>
vars == <<running, tables, sedp, net, old, lost, expiries, told>>

Announcements == [to : Parts, ep : Endpoints]

TypeOK ==
    /\ running \subseteq Parts
    /\ heard \in [Parts -> SUBSET Parts] /\ bridged \in [Parts -> SUBSET Parts]
    /\ news \in [Parts -> SUBSET Parts] /\ gone \in [Parts -> SUBSET Parts]
    /\ \A p \in Parts : p \notin heard[p] /\ news[p] \cap gone[p] = {}
    /\ known \in [Parts -> SUBSET Parts]
    /\ reg \in [Endpoints -> {"none", "inserted", "done"}]
    /\ remote \in [Parts -> SUBSET Endpoints]
    /\ matched \in [Readers -> SUBSET Writers]
    /\ net \subseteq Announcements /\ old \subseteq Announcements
    /\ lost \in BOOLEAN /\ expiries \in 0..MaxExpiries
    /\ told \in [Parts -> SUBSET (Parts \X Endpoints)]

Init ==
    /\ running = Parts
    /\ heard = [p \in Parts |-> {}] /\ bridged = [p \in Parts |-> {}]
    /\ news = [p \in Parts |-> {}] /\ gone = [p \in Parts |-> {}]
    /\ known = [p \in Parts |-> {}]
    /\ reg = [e \in Endpoints |-> "none"]
    /\ remote = [p \in Parts |-> {}]
    /\ matched = [r \in Readers |-> {}]
    /\ net = {} /\ old = {} /\ lost = FALSE /\ expiries = 0
    /\ told = [p \in Parts |-> {}]

-----------------------------------------------------------------------------
(* SPDP.                                                                   *)

(* store_peer(): p hears the announcement of q; its own it ignores. *)
Hear(p, q) ==
    /\ {p, q} \subseteq running /\ p # q
    /\ heard' = [heard EXCEPT ![p] = @ \cup {q}]
    /\ UNCHANGED <<running, bridged, news, gone, sedp, net, old, lost, expiries, told>>

(* evict_expired(): nothing was heard of q for the time of its lease, *)
(* since it ended or since its announcements were lost.               *)
Expire(p, q) ==
    /\ p \in running /\ q \in heard[p]
    /\ heard' = [heard EXCEPT ![p] = @ \ {q}]
    /\ IF q \in running THEN expiries < MaxExpiries /\ expiries' = expiries + 1
                        ELSE UNCHANGED expiries
    /\ UNCHANGED <<running, bridged, news, gone, sedp, net, old, lost, told>>

-----------------------------------------------------------------------------
(* SEDP.                                                                   *)

Local(p) == {e \in Endpoints : Home[e] = p /\ reg[e] # "none"}

(* announce_writer() and announce_reader(): one datagram for each of the   *)
(* peers and each of the endpoints.                                        *)
Announce(p, peers, eps) ==
    /\ net' = net \cup [to : peers, ep : eps]
    /\ told' = [told EXCEPT ![p] = @ \cup (peers \X eps)]

OnTopic(r, eps) == {w \in eps \cap Writers : Topic[w] = Topic[r]}

Insert_NoMatch(e) ==
    /\ reg[e] = "none" /\ Home[e] \in running
    /\ reg' = [reg EXCEPT ![e] = "inserted"]
    /\ UNCHANGED matched
    /\ UNCHANGED <<running, tables, known, remote, net, old, lost, expiries, told>>

(* register_writer() and register_reader(): the endpoint enters its table, *)
(* where a reader is matched with the remote writers known by now ...      *)
Insert(e) ==
    /\ reg[e] = "none" /\ Home[e] \in running
    /\ reg' = [reg EXCEPT ![e] = "inserted"]
    /\ IF e \in Readers
       THEN matched' = [matched EXCEPT ![e] = OnTopic(e, remote[Home[e]])]
       ELSE UNCHANGED matched
    /\ UNCHANGED <<running, tables, known, remote, net, old, lost, expiries, told>>

(* ... and broadcast() sends it to the peers known then. *)
Broadcast(e) ==
    /\ reg[e] = "inserted" /\ Home[e] \in running
    /\ reg' = [reg EXCEPT ![e] = "done"]
    /\ Announce(Home[e], known[Home[e]], {e})
    /\ UNCHANGED <<running, tables, known, remote, matched, old, lost, expiries>>

OnNewPeer_OnlyWriters(p, q) ==
    /\ p \in running /\ q \in news[p]
    /\ news' = [news EXCEPT ![p] = @ \ {q}]
    /\ known' = [known EXCEPT ![p] = @ \cup {q}]
    /\ Announce(p, {q}, Local(p) \cap Writers)
    /\ UNCHANGED <<running, heard, bridged, gone, reg, remote, matched, old, lost, expiries>>

(* on_new_peer(): q becomes known and gets all that is registered. *)
OnNewPeer(p, q) ==
    /\ p \in running /\ q \in news[p]
    /\ news' = [news EXCEPT ![p] = @ \ {q}]
    /\ known' = [known EXCEPT ![p] = @ \cup {q}]
    /\ Announce(p, {q}, Local(p))
    /\ UNCHANGED <<running, heard, bridged, gone, reg, remote, matched, old, lost, expiries>>

(* on_peer_evicted(): q and its endpoints are forgotten; the readers keep  *)
(* their matches.                                                          *)
OnPeerEvicted(p, q) ==
    /\ p \in running /\ news[p] = {} /\ q \in gone[p]
    /\ gone' = [gone EXCEPT ![p] = @ \ {q}]
    /\ known' = [known EXCEPT ![p] = @ \ {q}]
    /\ remote' = [remote EXCEPT ![p] = {e \in @ : Home[e] # q}]
    /\ told' = [told EXCEPT ![p] = {t \in @ : t[1] # q}]
    /\ UNCHANGED <<running, heard, bridged, news, reg, matched, net, old, lost, expiries>>

(* handle_endpoint_announce(): a remote endpoint is stored, also that of a *)
(* peer SPDP has not heard; a writer is matched with the local readers.    *)
Matches(p, e) ==
    [r \in Readers |-> IF r \in Local(p) THEN matched[r] \cup OnTopic(r, {e})
                                         ELSE matched[r]]

(* An announcement that came once may come again at any time. *)
Receive(m) ==
    /\ m \in net \cup old /\ m.to \in running
    /\ net' = net \ {m} /\ old' = old \cup {m}
    /\ remote' = [remote EXCEPT ![m.to] = @ \cup {m.ep}]
    /\ matched' = Matches(m.to, m.ep)
    /\ UNCHANGED <<running, tables, known, reg, lost, expiries, told>>

-----------------------------------------------------------------------------
(* The bridge: sync_peers(), when the previous round is through.           *)

SyncPeers_KeepsOld(p) ==
    /\ p \in running /\ news[p] = {} /\ gone[p] = {}
    /\ heard[p] # bridged[p]
    /\ news' = [news EXCEPT ![p] = heard[p] \ bridged[p]]
    /\ bridged' = [bridged EXCEPT ![p] = @ \cup heard[p]]
    /\ UNCHANGED <<running, heard, gone, sedp, net, old, lost, expiries, told>>

SyncPeers(p) ==
    /\ p \in running /\ news[p] = {} /\ gone[p] = {}
    /\ heard[p] # bridged[p]
    /\ news' = [news EXCEPT ![p] = heard[p] \ bridged[p]]
    /\ gone' = [gone EXCEPT ![p] = bridged[p] \ heard[p]]
    /\ bridged' = [bridged EXCEPT ![p] = heard[p]]
    /\ UNCHANGED <<running, heard, sedp, net, old, lost, expiries, told>>

-----------------------------------------------------------------------------
(* The environment.                                                        *)

Lose(m) ==
    /\ m \in net /\ net' = net \ {m} /\ lost' = TRUE
    /\ UNCHANGED <<running, tables, sedp, old, expiries, told>>

(* A process ends, by close() or otherwise, between any two steps. *)
Stop(p) ==
    /\ p \in running /\ running' = running \ {p}
    /\ UNCHANGED <<tables, sedp, net, old, lost, expiries, told>>

-----------------------------------------------------------------------------
BridgeStep(p) ==
    SyncPeers(p) \/ \E q \in Parts : OnNewPeer(p, q) \/ OnPeerEvicted(p, q)

Next ==
    \/ \E p, q \in Parts : Hear(p, q) \/ Expire(p, q)
    \/ \E p \in Parts : BridgeStep(p) \/ Stop(p)
    \/ \E e \in Endpoints : Insert(e) \/ Broadcast(e)
    \/ \E m \in Announcements : Receive(m) \/ Lose(m)

(* The loops of SPDP, SEDP and the bridge keep running, a participant that *)
(* runs is heard again and again, one that ended is silent for good, and a *)
(* register call that began goes on.  Nobody is obliged to register.       *)
Fairness ==
    /\ \A p, q \in Parts :
          /\ WF_vars(Hear(p, q))
          /\ WF_vars(q \notin running /\ Expire(p, q))
    /\ \A p \in Parts : WF_vars(BridgeStep(p))
    /\ \A e \in Endpoints : WF_vars(Broadcast(e))
    /\ \A m \in Announcements : WF_vars(m \in net /\ Receive(m))

Safety == Init /\ [][Next]_vars
Spec == Safety /\ Fairness

-----------------------------------------------------------------------------
(* Properties.                                                             *)

(* Whatever the order in which endpoints are registered and peers come and *)
(* go, every peer SEDP knows was sent every endpoint registered: the one   *)
(* that registers and the one that learns of the peer never miss each      *)
(* other.                                                                  *)
KnownPeersAreTold ==
    \A p \in Parts : \A q \in known[p], e \in Endpoints :
        Home[e] = p /\ reg[e] = "done" => <<q, e>> \in told[p]

(* A reader is matched with every remote writer of its topic that its      *)
(* participant has, whichever of them came first, and with no writer of    *)
(* another topic.  It may be matched with more of its topic than its       *)
(* participant has: the writers of a peer that was evicted stay matched.   *)
MatchedByTopic ==
    \A r \in Readers :
        /\ reg[r] # "none" => OnTopic(r, remote[Home[r]]) \subseteq matched[r]
        /\ \A w \in matched[r] : Topic[w] = Topic[r]

(* A writer and a reader of one topic in two participants come to know     *)
(* each other, unless an announcement is lost, a lease expires early or    *)
(* one of the two ends.                                                    *)
Met(w, r) == w \in matched[r] /\ r \in remote[Home[w]]

DiscoveryCompletes ==
    \A w \in Writers, r \in Readers :
        Home[w] # Home[r] /\ Topic[w] = Topic[r] =>
            ((reg[w] = "done" /\ reg[r] = "done") ~>
                (\/ Met(w, r) \/ lost \/ expiries > 0
                 \/ ~({Home[w], Home[r]} \subseteq running)))

(* A peer that has ended is forgotten for good by every participant that   *)
(* goes on.                                                                *)
EndedIsForgotten ==
    \A p, q \in Parts :
        (q \notin running) ~> [](q \notin known[p] \/ p \notin running)
=============================================================================
