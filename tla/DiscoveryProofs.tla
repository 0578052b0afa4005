--------------------------- MODULE DiscoveryProofs ---------------------------
(***************************************************************************)
(* Proofs about Discovery, for any participants, endpoints and topics: its *)
(* types, that a peer SEDP knows was told of every registered endpoint,    *)
(* and that readers are matched with the writers of their topic that are   *)
(* known, and with none of another topic.                                  *)
(***************************************************************************)
EXTENDS Discovery, TLAPS

USE DiscoveryAssumption

-----------------------------------------------------------------------------
(* Announce() sends only well-formed announcements and only adds to told.  *)
LEMMA AnnounceTypes ==
    ASSUME TypeOK, NEW p \in Parts, NEW peers \in SUBSET Parts,
           NEW eps \in SUBSET Endpoints, Announce(p, peers, eps)
    PROVE  /\ net' \subseteq Announcements
           /\ told' \in [Parts -> SUBSET (Parts \X Endpoints)]
           /\ \A o \in Parts : told[o] \subseteq told'[o]
           /\ peers \X eps \subseteq told'[p]
<1>1. [to : peers, ep : eps] \subseteq Announcements
  BY DEF Announcements
<1>2. peers \X eps \subseteq Parts \X Endpoints
  OBVIOUS
<1>3. told \in [Parts -> SUBSET (Parts \X Endpoints)]
  BY DEF TypeOK
<1>4. told' = [told EXCEPT ![p] = @ \cup (peers \X eps)]
  BY DEF Announce
<1>5. told'[p] = told[p] \cup (peers \X eps)
  BY <1>3, <1>4
<1>6. \A o \in Parts : o # p => told'[o] = told[o]
  BY <1>3, <1>4
<1>7. told' \in [Parts -> SUBSET (Parts \X Endpoints)]
  BY <1>2, <1>3, <1>4, <1>5, <1>6
<1> QED
  BY <1>1, <1>5, <1>6, <1>7 DEF Announce, TypeOK

(* Every step of Next keeps the types. *)
LEMMA TypeStep == TypeOK /\ [Next]_vars => TypeOK'
<1> SUFFICES ASSUME TypeOK, [Next]_vars PROVE TypeOK'
  OBVIOUS
<1>1. ASSUME NEW p \in Parts, NEW q \in Parts, Hear(p, q) PROVE TypeOK'
  BY <1>1 DEF TypeOK, Hear, sedp
<1>2. ASSUME NEW p \in Parts, NEW q \in Parts, Expire(p, q) PROVE TypeOK'
  BY <1>2 DEF TypeOK, Expire, sedp
<1>3. ASSUME NEW p \in Parts, SyncPeers(p) PROVE TypeOK'
  BY <1>3 DEF TypeOK, SyncPeers, sedp
<1>4. ASSUME NEW p \in Parts, NEW q \in Parts, OnNewPeer(p, q) PROVE TypeOK'
  <2>1. /\ Announce(p, {q}, Local(p))
        /\ {q} \in SUBSET Parts /\ Local(p) \in SUBSET Endpoints
    BY <1>4 DEF OnNewPeer, Local
  <2>2. /\ net' \subseteq Announcements
        /\ told' \in [Parts -> SUBSET (Parts \X Endpoints)]
    BY <2>1, AnnounceTypes
  <2> QED
    BY <1>4, <2>2 DEF TypeOK, OnNewPeer
<1>5. ASSUME NEW p \in Parts, NEW q \in Parts, OnPeerEvicted(p, q) PROVE TypeOK'
  BY <1>5 DEF TypeOK, OnPeerEvicted
<1>6. ASSUME NEW p \in Parts, Stop(p) PROVE TypeOK'
  BY <1>6 DEF TypeOK, Stop, tables, sedp
<1>7. ASSUME NEW e \in Endpoints, Insert(e) PROVE TypeOK'
  BY <1>7 DEF TypeOK, Insert, tables, OnTopic
<1>8. ASSUME NEW e \in Endpoints, Broadcast(e) PROVE TypeOK'
  <2>1. /\ Announce(Home[e], known[Home[e]], {e})
        /\ Home[e] \in Parts /\ known[Home[e]] \in SUBSET Parts
        /\ {e} \in SUBSET Endpoints
    BY <1>8 DEF Broadcast, TypeOK
  <2>2. /\ net' \subseteq Announcements
        /\ told' \in [Parts -> SUBSET (Parts \X Endpoints)]
    BY <2>1, AnnounceTypes
  <2> QED
    BY <1>8, <2>2 DEF TypeOK, Broadcast, tables
<1>9. ASSUME NEW m \in Announcements, Receive(m) PROVE TypeOK'
  <2>1. matched' \in [Readers -> SUBSET Writers]
    BY <1>9 DEF TypeOK, Receive, Matches, OnTopic
  <2> QED
    BY <1>9, <2>1 DEF TypeOK, Receive, Announcements, tables
<1>10. ASSUME NEW m \in Announcements, Lose(m) PROVE TypeOK'
  BY <1>10 DEF TypeOK, Lose, tables, sedp
<1>11. CASE UNCHANGED vars
  BY <1>11 DEF TypeOK, vars, tables, sedp
<1> QED
  BY <1>1, <1>2, <1>3, <1>4, <1>5, <1>6, <1>7, <1>8, <1>9, <1>10, <1>11
     DEF Next, BridgeStep

(* The model stays within its types: in particular a participant never     *)
(* takes itself for a peer, and no peer is both new and gone.              *)
THEOREM TypeCorrect == Safety => []TypeOK
<1>1. Init => TypeOK
  <2> SUFFICES ASSUME Init PROVE TypeOK
    OBVIOUS
  <2>1. expiries \in 0..MaxExpiries
    BY DEF Init
  <2>2. /\ heard \in [Parts -> SUBSET Parts] /\ bridged \in [Parts -> SUBSET Parts]
        /\ news \in [Parts -> SUBSET Parts] /\ gone \in [Parts -> SUBSET Parts]
        /\ known \in [Parts -> SUBSET Parts] /\ remote \in [Parts -> SUBSET Endpoints]
        /\ matched \in [Readers -> SUBSET Writers]
        /\ told \in [Parts -> SUBSET (Parts \X Endpoints)]
    BY DEF Init
  <2>3. \A p \in Parts : p \notin heard[p] /\ news[p] \cap gone[p] = {}
    BY DEF Init
  <2>4. reg \in [Endpoints -> {"none", "inserted", "done"}]
    BY DEF Init
  <2> QED
    BY <2>1, <2>2, <2>3, <2>4 DEF Init, TypeOK
<1> QED
  BY <1>1, TypeStep, PTL DEF Safety

-----------------------------------------------------------------------------
LEMMA ToldStep ==
    TypeOK /\ KnownPeersAreTold /\ [Next]_vars => KnownPeersAreTold'
<1> SUFFICES ASSUME TypeOK, KnownPeersAreTold, [Next]_vars PROVE KnownPeersAreTold'
  OBVIOUS
<1> DEFINE Told(p) == \A q \in known[p], e \in Endpoints :
                          Home[e] = p /\ reg[e] = "done" => <<q, e>> \in told[p]
<1>0. \A p \in Parts : Told(p)
  BY DEF KnownPeersAreTold
<1>1. CASE UNCHANGED <<known, reg, told>>
  BY <1>1 DEF KnownPeersAreTold
<1>2. ASSUME NEW p \in Parts, NEW q \in Parts, OnNewPeer(p, q)
      PROVE  KnownPeersAreTold'
  <2>1. /\ Announce(p, {q}, Local(p))
        /\ {q} \in SUBSET Parts /\ Local(p) \in SUBSET Endpoints
    BY <1>2 DEF OnNewPeer, Local
  <2>2. /\ \A o \in Parts : told[o] \subseteq told'[o]
        /\ {q} \X Local(p) \subseteq told'[p]
    BY <2>1, AnnounceTypes
  <2>3. /\ known' = [known EXCEPT ![p] = @ \cup {q}] /\ reg' = reg
        /\ known \in [Parts -> SUBSET Parts]
    BY <1>2 DEF OnNewPeer, TypeOK
  <2> SUFFICES ASSUME NEW o \in Parts, NEW x \in known'[o], NEW e \in Endpoints,
                      Home[e] = o, reg'[e] = "done"
               PROVE  <<x, e>> \in told'[o]
    BY DEF KnownPeersAreTold
  <2>4. CASE x \in known[o]
    BY <1>0, <2>2, <2>3, <2>4
  <2>5. CASE x \notin known[o]
    <3>1. o = p /\ x = q
      BY <2>3, <2>5
    <3>2. e \in Local(p)
      BY <2>3, <3>1 DEF Local
    <3> QED
      BY <2>2, <3>1, <3>2
  <2> QED
    BY <2>4, <2>5
<1>3. ASSUME NEW p \in Parts, NEW q \in Parts, OnPeerEvicted(p, q)
      PROVE  KnownPeersAreTold'
  <2>1. /\ reg' = reg
        /\ known' = [known EXCEPT ![p] = @ \ {q}]
        /\ told' = [told EXCEPT ![p] = {t \in @ : t[1] # q}]
        /\ known \in [Parts -> SUBSET Parts]
        /\ told \in [Parts -> SUBSET (Parts \X Endpoints)]
    BY <1>3 DEF OnPeerEvicted, TypeOK
  <2> SUFFICES ASSUME NEW o \in Parts, NEW x \in known'[o], NEW e \in Endpoints,
                      Home[e] = o, reg'[e] = "done"
               PROVE  <<x, e>> \in told'[o]
    BY DEF KnownPeersAreTold
  <2>2. x \in known[o] /\ (o = p => x # q)
    BY <2>1
  <2>3. <<x, e>> \in told[o]
    BY <1>0, <2>1, <2>2
  <2>4. CASE o = p
    <3>1. told'[p] = {t \in told[p] : t[1] # q}
      BY <2>1
    <3>2. <<x, e>>[1] = x
      OBVIOUS
    <3> QED
      BY <2>2, <2>3, <2>4, <3>1, <3>2
  <2>5. CASE o # p
    BY <2>1, <2>3, <2>5
  <2> QED
    BY <2>4, <2>5
<1>4. ASSUME NEW e \in Endpoints, Insert(e) PROVE KnownPeersAreTold'
  BY <1>4 DEF Insert, KnownPeersAreTold, TypeOK
<1>5. ASSUME NEW e \in Endpoints, Broadcast(e) PROVE KnownPeersAreTold'
  <2>1. /\ Announce(Home[e], known[Home[e]], {e})
        /\ Home[e] \in Parts /\ known[Home[e]] \in SUBSET Parts
        /\ {e} \in SUBSET Endpoints
    BY <1>5 DEF Broadcast, TypeOK
  <2>2. /\ \A o \in Parts : told[o] \subseteq told'[o]
        /\ known[Home[e]] \X {e} \subseteq told'[Home[e]]
    BY <2>1, AnnounceTypes, SMTT(30)
  <2>3. known' = known /\ \A f \in Endpoints : f # e => reg'[f] = reg[f]
    BY <1>5 DEF Broadcast, TypeOK
  <2> SUFFICES ASSUME NEW o \in Parts, NEW x \in known'[o], NEW f \in Endpoints,
                      Home[f] = o, reg'[f] = "done"
               PROVE  <<x, f>> \in told'[o]
    BY DEF KnownPeersAreTold
  <2>4. CASE f = e
    BY <2>2, <2>3, <2>4
  <2>5. CASE f # e
    BY <1>0, <2>2, <2>3, <2>5
  <2> QED
    BY <2>4, <2>5
<1> QED
  BY <1>1, <1>2, <1>3, <1>4, <1>5
     DEF Next, BridgeStep, Hear, Expire, SyncPeers, Stop, Receive, Lose, vars, sedp

(* Every peer SEDP knows was sent every registered endpoint, in whatever   *)
(* order participants are met and endpoints registered.                    *)
THEOREM EveryPeerIsTold == Safety => []KnownPeersAreTold
<1>1. Init => KnownPeersAreTold
  BY DEF Init, KnownPeersAreTold
<1> QED
  BY <1>1, ToldStep, TypeCorrect, PTL DEF Safety

-----------------------------------------------------------------------------
LEMMA MatchedStep ==
    TypeOK /\ MatchedByTopic /\ [Next]_vars => MatchedByTopic'
<1> SUFFICES ASSUME TypeOK, MatchedByTopic, [Next]_vars PROVE MatchedByTopic'
  OBVIOUS
<1>1. CASE UNCHANGED <<reg, remote, matched>>
  BY <1>1 DEF MatchedByTopic, OnTopic
<1>2. ASSUME NEW e \in Endpoints, Insert(e) PROVE MatchedByTopic'
  <2>1. /\ remote' = remote /\ reg \in [Endpoints -> {"none", "inserted", "done"}]
        /\ matched \in [Readers -> SUBSET Writers]
        /\ reg' = [reg EXCEPT ![e] = "inserted"]
    BY <1>2 DEF Insert, TypeOK
  <2> SUFFICES ASSUME NEW r \in Readers
               PROVE  /\ reg'[r] # "none" => OnTopic(r, remote[Home[r]]) \subseteq matched'[r]
                      /\ \A w \in matched'[r] : Topic[w] = Topic[r]
    BY <2>1 DEF MatchedByTopic, OnTopic
  <2>2. CASE r = e
    <3>1. matched'[r] = OnTopic(r, remote[Home[r]])
      BY <1>2, <2>1, <2>2 DEF Insert
    <3> QED
      BY <3>1 DEF OnTopic
  <2>3. CASE r # e
    <3>1. matched'[r] = matched[r] /\ reg'[r] = reg[r]
      BY <1>2, <2>1, <2>3 DEF Insert
    <3> QED
      BY <3>1 DEF MatchedByTopic
  <2> QED
    BY <2>2, <2>3
<1>3. ASSUME NEW e \in Endpoints, Broadcast(e) PROVE MatchedByTopic'
  BY <1>3 DEF Broadcast, TypeOK, MatchedByTopic, OnTopic
<1>4. ASSUME NEW p \in Parts, NEW q \in Parts, OnPeerEvicted(p, q)
      PROVE  MatchedByTopic'
  <2>1. \A o \in Parts : remote'[o] \subseteq remote[o]
    BY <1>4 DEF OnPeerEvicted, TypeOK
  <2> QED
    BY <1>4, <2>1 DEF OnPeerEvicted, MatchedByTopic, OnTopic
<1>5. ASSUME NEW m \in Announcements, Receive(m) PROVE MatchedByTopic'
  <2>1. /\ m.to \in Parts /\ m.ep \in Endpoints
        /\ reg' = reg /\ remote' = [remote EXCEPT ![m.to] = @ \cup {m.ep}]
        /\ remote \in [Parts -> SUBSET Endpoints]
        /\ matched' = Matches(m.to, m.ep)
    BY <1>5 DEF Receive, TypeOK, Announcements
  <2> SUFFICES ASSUME NEW r \in Readers
               PROVE  /\ reg[r] # "none" => OnTopic(r, remote'[Home[r]]) \subseteq matched'[r]
                      /\ \A w \in matched'[r] : Topic[w] = Topic[r]
    BY <2>1 DEF MatchedByTopic, OnTopic
  <2>2. CASE r \in Local(m.to)
    <3>1. matched'[r] = matched[r] \cup OnTopic(r, {m.ep})
      BY <2>1, <2>2 DEF Matches
    <3>2. Home[r] = m.to /\ reg[r] # "none"
      BY <2>2 DEF Local
    <3>3. OnTopic(r, remote'[m.to]) \subseteq OnTopic(r, remote[m.to]) \cup OnTopic(r, {m.ep})
      BY <2>1 DEF OnTopic
    <3> QED
      BY <3>1, <3>2, <3>3 DEF MatchedByTopic, OnTopic
  <2>3. CASE r \notin Local(m.to)
    <3>1. matched'[r] = matched[r]
      BY <2>1, <2>3 DEF Matches
    <3>2. reg[r] # "none" => remote'[Home[r]] = remote[Home[r]]
      BY <2>1, <2>3 DEF Local, Endpoints
    <3> QED
      BY <3>1, <3>2 DEF MatchedByTopic
  <2> QED
    BY <2>2, <2>3
<1> QED
  BY <1>1, <1>2, <1>3, <1>4, <1>5
     DEF Next, BridgeStep, Hear, Expire, SyncPeers, OnNewPeer, Stop, Lose, vars, sedp

(* A registered reader is matched with every remote writer of its topic    *)
(* that its participant has, and with no writer of another topic: the two  *)
(* places where readers and writers meet, the registration of a reader and *)
(* the announcement of a writer, leave no pair out in either order         *)
(* (src/rtps/sedp.cpp, register_reader, handle_endpoint_announce).  That   *)
(* a match ends with the writer's peer is not claimed; it does not.        *)
THEOREM ReadersAreMatched == Safety => []MatchedByTopic
<1>1. Init => MatchedByTopic
  BY DEF Init, MatchedByTopic, OnTopic, Endpoints
<1> QED
  BY <1>1, MatchedStep, TypeCorrect, PTL DEF Safety

-----------------------------------------------------------------------------
(* The tables of the bridge.                                               *)

(* SEDP knows the peers of the bridge's table, but for what is left to do  *)
(* of sync_peers()' last round.                                            *)
InStep(p) ==
    /\ known[p] = (bridged[p] \ news[p]) \cup gone[p]
    /\ news[p] \subseteq bridged[p] /\ gone[p] \cap bridged[p] = {}
BridgeInv == \A p \in Parts : InStep(p)

(* Peer q has ended, and nothing is left of it in p's tables.              *)
Forgotten(p, q) == q \notin running \cup heard[p] \cup bridged[p] \cup gone[p]

LEMMA BridgeInvStep ==
    ASSUME TypeOK, BridgeInv, [Next]_vars
    PROVE  BridgeInv'
<1>1. CASE UNCHANGED <<known, bridged, news, gone>>
  BY <1>1 DEF BridgeInv, InStep
<1>2. ASSUME NEW p \in Parts, SyncPeers(p) PROVE BridgeInv'
  <2>1. /\ known' = known /\ news[p] = {} /\ gone[p] = {}
        /\ bridged'[p] = heard[p] /\ news'[p] = heard[p] \ bridged[p] /\ gone'[p] = bridged[p] \ heard[p]
        /\ \A o \in Parts : o # p => bridged'[o] = bridged[o] /\ news'[o] = news[o] /\ gone'[o] = gone[o]
    BY <1>2 DEF SyncPeers, sedp, TypeOK
  <2>2. InStep(p)'
    BY <2>1 DEF BridgeInv, InStep
  <2> QED
    BY <2>1, <2>2 DEF BridgeInv, InStep
<1>3. ASSUME NEW p \in Parts, NEW q \in Parts, OnNewPeer(p, q) PROVE BridgeInv'
  <2>1. /\ UNCHANGED <<bridged, gone>> /\ q \in news[p]
        /\ known'[p] = known[p] \cup {q} /\ news'[p] = news[p] \ {q}
        /\ \A o \in Parts : o # p => known'[o] = known[o] /\ news'[o] = news[o]
    BY <1>3 DEF OnNewPeer, TypeOK
  <2>2. InStep(p)'
    BY <2>1 DEF BridgeInv, InStep
  <2> QED
    BY <2>1, <2>2 DEF BridgeInv, InStep
<1>4. ASSUME NEW p \in Parts, NEW q \in Parts, OnPeerEvicted(p, q) PROVE BridgeInv'
  <2>1. /\ UNCHANGED <<bridged, news>> /\ q \in gone[p] /\ news[p] = {}
        /\ known'[p] = known[p] \ {q} /\ gone'[p] = gone[p] \ {q}
        /\ \A o \in Parts : o # p => known'[o] = known[o] /\ gone'[o] = gone[o]
    BY <1>4 DEF OnPeerEvicted, TypeOK
  <2>2. InStep(p)'
    BY <2>1 DEF BridgeInv, InStep
  <2> QED
    BY <2>1, <2>2 DEF BridgeInv, InStep
<1> QED
  BY <1>1, <1>2, <1>3, <1>4
     DEF Next, BridgeStep, Hear, Expire, Insert, Broadcast, Stop, Receive, Lose, vars, tables, sedp

LEMMA ForgottenStep ==
    ASSUME TypeOK, [Next]_vars, NEW p \in Parts, NEW q \in Parts, Forgotten(p, q)
    PROVE  Forgotten(p, q)'
<1>1. CASE UNCHANGED <<running, heard, bridged, gone>>
  BY <1>1 DEF Forgotten
<1>2. ASSUME NEW o \in Parts, NEW x \in Parts, Hear(o, x) PROVE Forgotten(p, q)'
  <2>1. UNCHANGED <<running, bridged, gone>> /\ x \in running
        /\ heard'[p] \in {heard[p], heard[p] \cup {x}}
    BY <1>2 DEF Hear, TypeOK
  <2> QED
    BY <2>1 DEF Forgotten
<1>3. ASSUME NEW o \in Parts, NEW x \in Parts, Expire(o, x) PROVE Forgotten(p, q)'
  <2>1. UNCHANGED <<running, bridged, gone>> /\ heard'[p] \subseteq heard[p]
    BY <1>3 DEF Expire, TypeOK
  <2> QED
    BY <2>1 DEF Forgotten
<1>4. ASSUME NEW o \in Parts, SyncPeers(o) PROVE Forgotten(p, q)'
  <2>1. UNCHANGED <<running, heard>> /\ bridged'[p] \subseteq bridged[p] \cup heard[p]
        /\ gone'[p] \subseteq gone[p] \cup bridged[p]
    BY <1>4 DEF SyncPeers, TypeOK
  <2> QED
    BY <2>1 DEF Forgotten
<1>5. ASSUME NEW o \in Parts, NEW x \in Parts, OnPeerEvicted(o, x) PROVE Forgotten(p, q)'
  <2>1. UNCHANGED <<running, heard, bridged>> /\ gone'[p] \subseteq gone[p]
    BY <1>5 DEF OnPeerEvicted, TypeOK
  <2> QED
    BY <2>1 DEF Forgotten
<1>6. ASSUME NEW o \in Parts, Stop(o) PROVE Forgotten(p, q)'
  BY <1>6 DEF Stop, tables, Forgotten
<1> QED
  BY <1>1, <1>2, <1>3, <1>4, <1>5, <1>6
     DEF Next, BridgeStep, OnNewPeer, Insert, Broadcast, Receive, Lose, vars, tables

(* SEDP's peers are those the bridge has passed on (sync_peers()), ...     *)
THEOREM BridgeKeepsStep == Safety => []BridgeInv
<1>1. Init => BridgeInv
  BY DEF Init, BridgeInv, InStep
<1> QED
  BY <1>1, BridgeInvStep, TypeCorrect, PTL DEF Safety

(* ... so a peer that has ended and is in none of the tables of SPDP and   *)
(* the bridge is not known to SEDP either, and never comes back, whatever  *)
(* announcement of it still arrives.                                       *)
THEOREM ForgottenForGood ==
    Safety => [][\A p, q \in Parts :
                    Forgotten(p, q) => Forgotten(p, q)' /\ q \notin known[p] \cup known'[p]]_vars
<1>1. TypeOK /\ BridgeInv /\ BridgeInv' /\ [Next]_vars =>
        [\A p, q \in Parts :
            Forgotten(p, q) => Forgotten(p, q)' /\ q \notin known[p] \cup known'[p]]_vars
  <2>1. ASSUME TypeOK, BridgeInv, BridgeInv', [Next]_vars, NEW p \in Parts, NEW q \in Parts, Forgotten(p, q)
        PROVE  Forgotten(p, q)' /\ q \notin known[p] \cup known'[p]
    <3>1. Forgotten(p, q)'
      BY <2>1, ForgottenStep
    <3>2. q \notin known[p]
      BY <2>1 DEF BridgeInv, InStep, Forgotten
    <3>3. q \notin known'[p]
      BY <2>1, <3>1 DEF BridgeInv, InStep, Forgotten
    <3> QED
      BY <3>1, <3>2, <3>3
  <2> QED
    BY <2>1
<1> QED
  BY <1>1, BridgeKeepsStep, TypeCorrect, PTL DEF Safety
=============================================================================
