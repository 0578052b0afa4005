--------------------------- MODULE BridgeCallsProofs ---------------------------
(***************************************************************************)
(* Proofs about BridgeCalls, for any clients, topics and bounds: a topic   *)
(* has one open endpoint at most, no publish is acknowledged for more or   *)
(* fewer samples than it wrote, and the clients that share a subscriber    *)
(* get each of its samples once and in order.  NoClient is not one of the  *)
(* clients.  About AccessPolicy, for any patterns, names and rules: what   *)
(* glob_match accepts is what the pattern means.  About Cdr, for any       *)
(* values and any number of values of a byte: what is encoded is decoded,  *)
(* and a text that lost its end is seen to have lost it.                   *)
(***************************************************************************)
EXTENDS BridgeCalls, AccessPolicy, Cdr, WellFoundedInduction, SequenceTheorems, TLAPS

Places == {"new", "bad", "lookup", "create", "ready", "next", "poll", "send", "done"}
Keys == [role : {"pub", "sub"}, topic : Topics \cup {EmptyTopic}]

(* What the proofs need to know of the values: who serves what, and that   *)
(* the endpoints in use are among those made.                              *)
Shape ==
  /\ call \in [Clients -> Calls] /\ pc \in [Clients -> Places]
  /\ made \in Seq(Keys)
  /\ cache \in [DOMAIN cache -> 1 .. Len(made)] /\ DOMAIN cache \subseteq Keys
  /\ live \subseteq 1 .. Len(made)

(* A worker that has found no endpoint holds mu_ until it has made one, so *)
(* that its topic still has none.                                          *)
CreatorLocks ==
  \A c \in Clients :
    pc[c] = "create" => mu = c /\ Key(Role(c), call[c].topic) \notin DOMAIN cache

Cached == {cache[k] : k \in DOMAIN cache}

MapsInv == Shape /\ CreatorLocks /\ OneEndpointPerTopic

mapVars == <<mu, cache, live, made, todo>>

-----------------------------------------------------------------------------
LEMMA KeyIsKey ==
  ASSUME NEW c \in Clients, call \in [Clients -> Calls]
  PROVE  Key(Role(c), call[c].topic) \in Keys
  BY DEF Key, Role, Keys, Calls

LEMMA MapsInit == Init => MapsInv
<1> SUFFICES ASSUME Init PROVE MapsInv
  OBVIOUS
<1>1. Shape
  <2>1. call \in [Clients -> Calls]
    BY DEF Init, CallsOf
  <2>2. made \in Seq(Keys) /\ cache \in [DOMAIN cache -> 1 .. Len(made)] /\ DOMAIN cache \subseteq Keys
    BY DEF Init
  <2> QED
    BY <2>1, <2>2 DEF Init, Shape, Places
<1>2. CreatorLocks
  BY DEF Init, CreatorLocks
<1>3. OneEndpointPerTopic
  BY DEF Init, OneEndpointPerTopic
<1> QED
  BY <1>1, <1>2, <1>3 DEF MapsInv

(* The steps of a worker that leave the maps alone, and do not lead it to  *)
(* "create".                                                               *)
Elsewhere(c) ==
  /\ UNCHANGED mapVars
  /\ pc' \in [Clients -> Places] /\ call' \in [Clients -> Calls]
  /\ pc[c] # "create" /\ pc'[c] # "create"
  /\ \A d \in Clients \ {c} : pc'[d] = pc[d] /\ call'[d] = call[d]

LEMMA ElsewherePreserves ==
  ASSUME MapsInv, NEW c \in Clients, Elsewhere(c)
  PROVE  MapsInv'
<1>1. Shape'
  BY DEF MapsInv, Shape, Elsewhere, mapVars
<1>2. CreatorLocks'
  BY DEF MapsInv, CreatorLocks, Elsewhere, mapVars, Role
<1>3. OneEndpointPerTopic'
  BY DEF MapsInv, OneEndpointPerTopic, Elsewhere, mapVars
<1> QED
  BY <1>1, <1>2, <1>3 DEF MapsInv

LEMMA NothingMade ==
  ASSUME MapsInv, NEW c \in Clients,
         \/ Refuse(c) \/ Begin(c) \/ EmptyTopicFails(c) \/ ListTopics(c) \/ Publish(c)
         \/ NextFrame(c) \/ StreamWrite(c) \/ StartStream(c) \/ TakeSample(c)
         \/ SendSample(c) \/ EndStream(c)
  PROVE  Elsewhere(c)
<1> USE DEF Elsewhere, mapVars, MapsInv, Shape, Places
<1>1. CASE Refuse(c)
  BY <1>1 DEF Refuse, Ends, idle
<1>2. CASE Begin(c)
  BY <1>2 DEF Begin, idle
<1>3. CASE EmptyTopicFails(c)
  BY <1>3 DEF EmptyTopicFails, Fails, Ends, idle
<1>4. CASE ListTopics(c)
  BY <1>4 DEF ListTopics, Ends, idle
<1>5. CASE Publish(c)
  BY <1>5 DEF Publish, Fails, Ends, writes, maps
<1>6. CASE NextFrame(c)
  <2>1. UNCHANGED mapVars /\ held' = held /\ pc[c] # "create"
    BY <1>6 DEF NextFrame, writes, maps
  <2>2. \/ pc' = [pc EXCEPT ![c] = "lookup"] /\ \E t \in Topics : call' = [call EXCEPT ![c].topic = t]
        \/ pc' = [pc EXCEPT ![c] = "done"] /\ call' = call
    BY <1>6 DEF NextFrame, Ends
  <2> QED
    BY <2>1, <2>2 DEF Calls
<1>7. CASE StreamWrite(c)
  BY <1>7 DEF StreamWrite, Fails, Ends, writes, maps
<1>8. CASE StartStream(c)
  BY <1>8 DEF StartStream, Ends, streams, maps
<1>9. CASE TakeSample(c)
  BY <1>9 DEF TakeSample, streams, maps
<1>10. CASE SendSample(c)
  BY <1>10 DEF SendSample, Ends, streams, maps
<1>11. CASE EndStream(c)
  BY <1>11 DEF EndStream, Ends, streams, maps
<1> QED
  BY <1>1, <1>2, <1>3, <1>4, <1>5, <1>6, <1>7, <1>8, <1>9, <1>10, <1>11

LEMMA LookupPreserves ==
  ASSUME NoClient \notin Clients, MapsInv, NEW c \in Clients, Lookup(c)
  PROVE  MapsInv'
<1> DEFINE k == Key(Role(c), call[c].topic)
<1>1. UNCHANGED <<call, cache, live, made, todo>> /\ mu = NoClient
  BY DEF Lookup, lookedUp
<1>2. Shape'
  BY <1>1 DEF Lookup, MapsInv, Shape, Places
<1>3. \A d \in Clients : pc[d] # "create"
  BY <1>1 DEF MapsInv, CreatorLocks
<1>4. CreatorLocks'
  <2> SUFFICES ASSUME NEW d \in Clients, pc'[d] = "create"
               PROVE  mu' = d /\ Key(Role(d)', call'[d].topic) \notin DOMAIN cache'
    BY DEF CreatorLocks, Role
  <2>1. d = c /\ k \notin DOMAIN cache /\ mu' = c
    BY <1>3 DEF Lookup, MapsInv, Shape
  <2> QED
    BY <2>1, <1>1 DEF Role
<1>5. OneEndpointPerTopic'
  BY <1>1 DEF MapsInv, OneEndpointPerTopic
<1> QED
  BY <1>2, <1>4, <1>5 DEF MapsInv

LEMMA CreatePreserves ==
  ASSUME MapsInv, NEW c \in Clients, Create(c)
  PROVE  MapsInv'
<1> DEFINE k == Key(Role(c), call[c].topic)
           e == Len(made) + 1
<1>1. /\ pc[c] = "create" /\ call' = call /\ todo' = todo
      /\ made' = Append(made, k) /\ live' = live \cup {e}
      /\ cache' = [j \in DOMAIN cache \cup {k} |-> IF j = k THEN e ELSE cache[j]]
      /\ held' = [held EXCEPT ![c] = e] /\ pc' = [pc EXCEPT ![c] = "ready"]
  BY DEF Create, lookedUp
<1>2. k \in Keys /\ k \notin DOMAIN cache
  BY <1>1, KeyIsKey DEF MapsInv, CreatorLocks, Shape
<1>3. Len(made) \in Nat /\ Len(made') = e
  BY <1>1, <1>2 DEF MapsInv, Shape
<1>4. Shape'
  <2>1. made' \in Seq(Keys)
    BY <1>1, <1>2 DEF MapsInv, Shape
  <2>2. cache' \in [DOMAIN cache' -> 1 .. Len(made')] /\ DOMAIN cache' \subseteq Keys
    BY <1>1, <1>2, <1>3 DEF MapsInv, Shape
  <2>3. live' \subseteq 1 .. Len(made')
    BY <1>1, <1>3 DEF MapsInv, Shape
  <2> QED
    BY <1>1, <1>3, <2>1, <2>2, <2>3 DEF MapsInv, Shape, Places
<1>5. CreatorLocks'
  BY <1>1 DEF MapsInv, CreatorLocks, Shape
<1>6. OneEndpointPerTopic'
  <2>1. live' \subseteq {cache'[j] : j \in DOMAIN cache'} \cup todo'
    BY <1>1, <1>2 DEF MapsInv, OneEndpointPerTopic
  <2>2. \A i, j \in DOMAIN cache' : cache'[i] = cache'[j] => i = j
    <3> SUFFICES ASSUME NEW i \in DOMAIN cache', NEW j \in DOMAIN cache', cache'[i] = cache'[j]
                 PROVE  i = j
      OBVIOUS
    <3>1. \A m \in DOMAIN cache : cache[m] # e
      BY <1>3 DEF MapsInv, Shape
    <3> QED
      BY <1>1, <3>1 DEF MapsInv, OneEndpointPerTopic
  <2> QED
    BY <2>1, <2>2 DEF OneEndpointPerTopic
<1> QED
  BY <1>4, <1>5, <1>6 DEF MapsInv

LEMMA CreateFailsPreserves ==
  ASSUME MapsInv, NEW c \in Clients, CreateFails(c)
  PROVE  MapsInv'
<1>1. /\ UNCHANGED <<call, held, cache, live, made, todo>> /\ pc[c] = "create"
      /\ pc' = [pc EXCEPT ![c] = "done"]
  BY DEF CreateFails, Fails, Ends
<1>2. Shape' /\ OneEndpointPerTopic'
  BY <1>1 DEF MapsInv, Shape, Places, OneEndpointPerTopic
<1>3. CreatorLocks'
  BY <1>1 DEF MapsInv, CreatorLocks, Shape
<1> QED
  BY <1>2, <1>3 DEF MapsInv

LEMMA ClosePreserves ==
  ASSUME NoClient \notin Clients, MapsInv, CloseTakes \/ CloseEnds
  PROVE  MapsInv'
<1>1. UNCHANGED <<call, pc, held, made, mu>>
  BY DEF CloseTakes, CloseEnds, worker
<1>2. CASE CloseTakes
  <2>1. /\ mu = NoClient /\ todo = {} /\ todo' = Cached /\ cache' = [k \in {} |-> 0]
        /\ live' \subseteq live
    BY <1>2 DEF CloseTakes, Cached
  <2>2. \A d \in Clients : pc[d] # "create"
    BY <2>1 DEF MapsInv, CreatorLocks
  <2>3. Shape'
    BY <1>1, <2>1 DEF MapsInv, Shape
  <2>4. OneEndpointPerTopic'
    BY <2>1 DEF MapsInv, OneEndpointPerTopic, Cached
  <2> QED
    BY <1>1, <2>2, <2>3, <2>4 DEF MapsInv, CreatorLocks
<1>3. CASE CloseEnds
  <2>1. todo' = {} /\ live' = live \ todo /\ cache' = cache
    BY <1>3 DEF CloseEnds
  <2>2. Shape' /\ CreatorLocks'
    BY <1>1, <2>1 DEF MapsInv, Shape, CreatorLocks, Role
  <2>3. OneEndpointPerTopic'
    BY <2>1 DEF MapsInv, OneEndpointPerTopic
  <2> QED
    BY <2>2, <2>3 DEF MapsInv
<1> QED
  BY <1>2, <1>3

LEMMA MapsStep == ASSUME NoClient \notin Clients PROVE MapsInv /\ [Next]_vars => MapsInv'
<1> SUFFICES ASSUME MapsInv, [Next]_vars PROVE MapsInv'
  OBVIOUS
<1>1. CASE \E c \in Clients : Worker(c)
  <2> PICK c \in Clients : Worker(c)
    BY <1>1
  <2>1. CASE Lookup(c)
    BY <2>1, LookupPreserves
  <2>2. CASE Create(c)
    BY <2>2, CreatePreserves
  <2>3. CASE CreateFails(c)
    BY <2>3, CreateFailsPreserves
  <2>4. CASE ~(Lookup(c) \/ Create(c) \/ CreateFails(c))
    BY <2>4, NothingMade, ElsewherePreserves DEF Worker
  <2> QED
    BY <2>1, <2>2, <2>3, <2>4
<1>2. CASE CloseTakes \/ CloseEnds
  BY <1>2, ClosePreserves
<1>3. CASE Stop \/ (\E t \in Topics : OtherSample(t)) \/ UNCHANGED vars
  <2>1. UNCHANGED <<call, pc, held, mu, cache, live, made, todo>>
    BY <1>3 DEF Stop, OtherSample, vars, worker, maps
  <2> QED
    BY <2>1 DEF MapsInv, Shape, CreatorLocks, OneEndpointPerTopic, Role
<1> QED
  BY <1>1, <1>2, <1>3 DEF Next

(* Two calls never make two endpoints for a topic, and no endpoint is      *)
(* forgotten open, however look-ups, creations and close() interleave.     *)
THEOREM EndpointsUnique ==
  ASSUME NoClient \notin Clients
  PROVE  Spec => []OneEndpointPerTopic
<1>1. Init => MapsInv
  BY MapsInit
<1>2. MapsInv /\ [Next]_vars => MapsInv'
  BY MapsStep
<1>3. MapsInv => OneEndpointPerTopic
  BY DEF MapsInv
<1> QED
  BY <1>1, <1>2, <1>3, PTL DEF Spec

-----------------------------------------------------------------------------
(* Acknowledgements *)

IsSequence(s) == \E P : s \in Seq(P)
Acks(s, n) == \A i \in DOMAIN s : s[i][1] = "ack" => s[i][2] = n
NoAcks(s) == \A i \in DOMAIN s : s[i][1] # "ack"

(* A client that is not served to the end has no acknowledgement yet; what *)
(* stream_publish() counts is what it wrote.                               *)
AckInv ==
  /\ pc \in [Clients -> Places] /\ call \in [Clients -> Calls]
  /\ got \in [Clients -> {got[c] : c \in Clients}] /\ \A c \in Clients : IsSequence(got[c])
  /\ count \in [Clients -> Nat] /\ wrote \in [Clients -> Nat]
  /\ \A c \in Clients : pc[c] # "done" => NoAcks(got[c])
  /\ \A c \in Clients : call[c].op = "stream" => count[c] = wrote[c]
  /\ \A c \in Clients : Acks(got[c], wrote[c])

LEMMA ConcatAcks ==
  ASSUME NEW s, NEW t, IsSequence(s), IsSequence(t), NEW n, Acks(s, n), Acks(t, n)
  PROVE  IsSequence(s \o t) /\ Acks(s \o t, n)
<1>1. PICK P : s \in Seq(P)
  BY DEF IsSequence
<1>2. PICK Q : t \in Seq(Q)
  BY DEF IsSequence
<1>3. s \in Seq(P \cup Q) /\ t \in Seq(P \cup Q)
  BY <1>1, <1>2
<1>4. s \o t \in Seq(P \cup Q)
  BY <1>3
<1>5. ASSUME NEW i \in DOMAIN (s \o t) PROVE (s \o t)[i] = IF i <= Len(s) THEN s[i] ELSE t[i - Len(s)]
  BY <1>3, <1>4
<1>6. ASSUME NEW i \in DOMAIN (s \o t) PROVE i \in DOMAIN s \/ (i > Len(s) /\ i - Len(s) \in DOMAIN t)
  BY <1>3, <1>4
<1>7. Acks(s \o t, n)
  <2> SUFFICES ASSUME NEW i \in DOMAIN (s \o t), (s \o t)[i][1] = "ack" PROVE (s \o t)[i][2] = n
    BY DEF Acks
  <2>1. CASE i <= Len(s)
    BY <1>3, <1>5, <1>6, <2>1 DEF Acks
  <2>2. CASE ~(i <= Len(s))
    BY <1>3, <1>5, <1>6, <2>2 DEF Acks
  <2> QED
    BY <2>1, <2>2
<1> QED
  BY <1>4, <1>7 DEF IsSequence

LEMMA FrontAcks ==
  ASSUME NEW s, IsSequence(s), NEW n, Acks(s, n), NEW k \in 0 .. Len(s)
  PROVE  IsSequence(SubSeq(s, 1, k)) /\ Acks(SubSeq(s, 1, k), n)
<1>1. PICK P : s \in Seq(P)
  BY DEF IsSequence
<1>2. SubSeq(s, 1, k) \in Seq(P) /\ Len(SubSeq(s, 1, k)) = k
  BY <1>1
<1>3. ASSUME NEW i \in DOMAIN SubSeq(s, 1, k) PROVE i \in DOMAIN s /\ SubSeq(s, 1, k)[i] = s[i]
  BY <1>1, <1>2
<1> QED
  BY <1>2, <1>3 DEF IsSequence, Acks

LEMMA FewParts ==
  ASSUME NEW a, NEW b
  PROVE  /\ IsSequence(<<>>) /\ IsSequence(<<a>>) /\ IsSequence(<<a, b>>)
         /\ NoAcks(<<>>)
         /\ a[1] # "ack" => NoAcks(<<a>>) /\ \A n : b = Ack(n) => Acks(<<a, b>>, n)
         /\ a[1] # "ack" /\ b[1] # "ack" => NoAcks(<<a, b>>)
<1>1. <<>> \in Seq({a, b}) /\ <<a>> \in Seq({a, b}) /\ <<a, b>> \in Seq({a, b})
  OBVIOUS
<1>2. IsSequence(<<>>) /\ IsSequence(<<a>>) /\ IsSequence(<<a, b>>)
  BY <1>1 DEF IsSequence
<1>3. DOMAIN <<>> = {} /\ DOMAIN <<a>> = {1} /\ DOMAIN <<a, b>> = {1, 2}
  OBVIOUS
<1>4. NoAcks(<<>>) /\ (a[1] # "ack" => NoAcks(<<a>>))
  BY <1>3 DEF NoAcks
<1>5. a[1] # "ack" /\ b[1] # "ack" => NoAcks(<<a, b>>)
  BY <1>3 DEF NoAcks
<1>6. ASSUME a[1] # "ack", NEW n, b = Ack(n) PROVE Acks(<<a, b>>, n)
  BY <1>3, <1>6 DEF Acks, Ack
<1> QED
  BY <1>2, <1>4, <1>5, <1>6

LEMMA NoAcksAnyCount == ASSUME NEW s, NoAcks(s), NEW n PROVE Acks(s, n)
  BY DEF NoAcks, Acks

(* A call that ends with parts that acknowledge n samples at most.         *)
LEMMA EndsAcks ==
  ASSUME AckInv, NEW c \in Clients, NEW r, NEW parts, Ends(c, r, parts), pc[c] # "done",
         IsSequence(parts), NEW n \in Nat, Acks(parts, n), wrote' = [wrote EXCEPT ![c] = n],
         call' = call \/ (call' \in [Clients -> Calls] /\ \A d \in Clients : call'[d].op = call[d].op),
         count' = [count EXCEPT ![c] = n] \/ (count' = count /\ (call[c].op = "stream" => n = wrote[c]))
  PROVE  AckInv'
<1>1. PICK k \in 0 .. Len(parts) : got' = [got EXCEPT ![c] = @ \o SubSeq(parts, 1, k)]
  BY DEF Ends
<1>2. NoAcks(got[c]) /\ Acks(got[c], n) /\ IsSequence(got[c])
  BY NoAcksAnyCount DEF AckInv
<1>3. got'[c] = got[c] \o SubSeq(parts, 1, k) /\ \A d \in Clients \ {c} : got'[d] = got[d]
  BY <1>1 DEF AckInv
<1>4. IsSequence(got'[c]) /\ Acks(got'[c], n)
  BY <1>2, <1>3, FrontAcks, ConcatAcks
<1>5. pc' = [pc EXCEPT ![c] = "done"]
  BY DEF Ends
<1>6. pc' \in [Clients -> Places] /\ call' \in [Clients -> Calls]
  BY <1>5 DEF AckInv, Places
<1>7. got' \in [Clients -> {got'[d] : d \in Clients}] /\ \A d \in Clients : IsSequence(got'[d])
  BY <1>1, <1>3, <1>4 DEF AckInv
<1>8. count' \in [Clients -> Nat] /\ wrote' \in [Clients -> Nat]
  BY DEF AckInv
<1>9. \A d \in Clients : pc'[d] # "done" => NoAcks(got'[d])
  BY <1>3, <1>5 DEF AckInv
<1>10. \A d \in Clients : call'[d].op = "stream" => count'[d] = wrote'[d]
  BY DEF AckInv
<1>11. \A d \in Clients : Acks(got'[d], wrote'[d])
  BY <1>3, <1>4 DEF AckInv
<1> QED
  BY <1>6, <1>7, <1>8, <1>9, <1>10, <1>11 DEF AckInv

(* A call that goes on: whatever the client receives is no acknowledgement.*)
LEMMA GoesOnAcks ==
  ASSUME AckInv, NEW c \in Clients, NEW parts, IsSequence(parts), NoAcks(parts),
         got' = got \/ got' = [got EXCEPT ![c] = parts] \/ got' = [got EXCEPT ![c] = @ \o parts],
         pc[c] # "done", NEW to \in Places, pc' = [pc EXCEPT ![c] = to],
         call' = call \/ (call' \in [Clients -> Calls] /\ \A d \in Clients : call'[d].op = call[d].op),
         \/ UNCHANGED <<count, wrote>>
         \/ /\ wrote' = [wrote EXCEPT ![c] = @ + 1] /\ count' = [count EXCEPT ![c] = @ + 1]
  PROVE  AckInv'
<1>1. \A d \in Clients \ {c} : got'[d] = got[d] /\ pc'[d] = pc[d] /\ wrote'[d] = wrote[d]
  BY DEF AckInv
<1>2. IsSequence(got'[c]) /\ NoAcks(got'[c])
  <2>1. IsSequence(got[c]) /\ NoAcks(got[c])
    BY DEF AckInv
  <2>2. got'[c] \in {got[c], parts, got[c] \o parts}
    BY DEF AckInv
  <2>3. IsSequence(got[c] \o parts) /\ Acks(got[c] \o parts, 0) /\ Acks(got[c] \o parts, 1)
    BY <2>1, NoAcksAnyCount, ConcatAcks
  <2>4. NoAcks(got[c] \o parts)
    BY <2>3 DEF NoAcks, Acks
  <2> QED
    BY <2>1, <2>2, <2>3, <2>4
<1>3. pc' \in [Clients -> Places] /\ call' \in [Clients -> Calls]
  BY DEF AckInv
<1>4. got' \in [Clients -> {got'[d] : d \in Clients}] /\ \A d \in Clients : IsSequence(got'[d])
  BY <1>1, <1>2 DEF AckInv
<1>5. count' \in [Clients -> Nat] /\ wrote' \in [Clients -> Nat]
  <2>1. count[c] + 1 \in Nat /\ wrote[c] + 1 \in Nat
    BY DEF AckInv
  <2> QED
    BY <2>1 DEF AckInv
<1>6. \A d \in Clients : pc'[d] # "done" => NoAcks(got'[d])
  BY <1>1, <1>2 DEF AckInv
<1>7. \A d \in Clients : call'[d].op = "stream" => count'[d] = wrote'[d]
  <2> SUFFICES ASSUME NEW d \in Clients, call'[d].op = "stream" PROVE count'[d] = wrote'[d]
    OBVIOUS
  <2>1. count[d] = wrote[d]
    BY DEF AckInv
  <2>2. CASE UNCHANGED <<count, wrote>>
    BY <2>1, <2>2
  <2>3. CASE wrote' = [wrote EXCEPT ![c] = @ + 1] /\ count' = [count EXCEPT ![c] = @ + 1]
    BY <2>1, <2>3 DEF AckInv
  <2> QED
    BY <2>2, <2>3
<1>8. \A d \in Clients : Acks(got'[d], wrote'[d])
  BY <1>1, <1>2, NoAcksAnyCount DEF AckInv
<1> QED
  BY <1>3, <1>4, <1>5, <1>6, <1>7, <1>8 DEF AckInv

LEMMA AckInit == Init => AckInv
<1> SUFFICES ASSUME Init PROVE AckInv
  OBVIOUS
<1>1. call \in [Clients -> Calls] /\ pc \in [Clients -> Places]
  BY DEF Init, CallsOf, Places
<1>2. \A c \in Clients : got[c] = <<>> /\ IsSequence(got[c]) /\ NoAcks(got[c])
  BY FewParts DEF Init
<1>3. got \in [Clients -> {got[c] : c \in Clients}] /\ count \in [Clients -> Nat] /\ wrote \in [Clients -> Nat]
  BY DEF Init
<1>4. \A c \in Clients : count[c] = wrote[c]
  BY DEF Init
<1> QED
  BY <1>1, <1>2, <1>3, <1>4, NoAcksAnyCount DEF AckInv

LEMMA StatusParts ==
  ASSUME NEW s
  PROVE  /\ IsSequence(<<Status(s)>>) /\ NoAcks(<<Status(s)>>)
         /\ \A n : Acks(<<Status(s)>>, n)
         /\ \A n : IsSequence(<<Status(s), Ack(n)>>) /\ Acks(<<Status(s), Ack(n)>>, n)
         /\ IsSequence(<<>>) /\ NoAcks(<<>>) /\ \A n : Acks(<<>>, n)
<1>1. Status(s)[1] # "ack"
  BY DEF Status
<1> QED
  BY <1>1, FewParts, NoAcksAnyCount

LEMMA FailsAcks ==
  ASSUME AckInv, NEW c \in Clients, NEW s, Fails(c, s), pc[c] # "done", UNCHANGED <<count, wrote>>, call' = call
  PROVE  AckInv'
<1>1. PICK parts \in {<<>>, <<Status(s)>>} : Ends(c, s, parts)
  BY DEF Fails
<1>2. IsSequence(parts) /\ \A n : Acks(parts, n)
  BY <1>1, StatusParts
<1>3. wrote[c] \in Nat /\ wrote' = [wrote EXCEPT ![c] = wrote[c]]
  BY DEF AckInv
<1> QED
  BY <1>1, <1>2, <1>3, EndsAcks

LEMMA EndsPlainAcks ==
  ASSUME AckInv, NEW c \in Clients, NEW r, NEW parts, Ends(c, r, parts), pc[c] # "done",
         IsSequence(parts), NoAcks(parts), UNCHANGED <<count, wrote>>, call' = call
  PROVE  AckInv'
<1>1. \A n : Acks(parts, n)
  BY NoAcksAnyCount
<1>2. wrote[c] \in Nat /\ wrote' = [wrote EXCEPT ![c] = wrote[c]]
  BY DEF AckInv
<1> QED
  BY <1>1, <1>2, EndsAcks

LEMMA WorkerAcks == ASSUME AckInv, NEW c \in Clients, Worker(c) PROVE AckInv'
<1>1. CASE Refuse(c)
  <2>1. UNCHANGED <<count, wrote, call>> /\ pc[c] # "done"
    BY <1>1 DEF Refuse, idle
  <2>2. \/ Ends(c, "unauthenticated", <<Status("unauthenticated")>>)
        \/ Ends(c, "invalid", <<Status("invalid")>>)
    BY <1>1 DEF Refuse
  <2> QED
    BY <2>1, <2>2, StatusParts, EndsPlainAcks
<1>2. CASE Begin(c)
  <2>1. UNCHANGED <<count, wrote, call>> /\ pc[c] # "done"
    BY <1>2 DEF Begin, idle
  <2>2. PICK to \in {"bad", "lookup"} : pc' = [pc EXCEPT ![c] = to]
    BY <1>2 DEF Begin
  <2>3. PICK parts : /\ IsSequence(parts) /\ NoAcks(parts)
                     /\ got' = got \/ got' = [got EXCEPT ![c] = parts]
    <3>1. IsSequence(<<Status("ok")>>) /\ \A n : Acks(<<Status("ok")>>, n)
      BY StatusParts
    <3>2. \A n \in {0, 1} : n \in 0 .. Len(<<Status("ok")>>)
      OBVIOUS
    <3>3. \A n \in {0, 1} : LET s == SubSeq(<<Status("ok")>>, 1, n) IN IsSequence(s) /\ Acks(s, 0) /\ Acks(s, 1)
      BY <3>1, <3>2, FrontAcks
    <3>4. \A n \in {0, 1} : NoAcks(SubSeq(<<Status("ok")>>, 1, n))
      BY <3>3 DEF NoAcks, Acks
    <3> QED
      BY <1>2, <3>3, <3>4, StatusParts DEF Begin
  <2> QED
    BY <2>1, <2>2, <2>3, GoesOnAcks DEF Places
<1>3. CASE EmptyTopicFails(c)
  BY <1>3, FailsAcks DEF EmptyTopicFails, idle
<1>4. CASE ListTopics(c)
  <2> DEFINE parts == <<Status("ok"), <<"topics", {k.topic : k \in {k \in DOMAIN cache : k.role = "sub"}}>>>>
  <2>1. UNCHANGED <<count, wrote, call>> /\ pc[c] # "done" /\ Ends(c, "ok", parts)
    BY <1>4 DEF ListTopics, idle
  <2>2. IsSequence(parts) /\ NoAcks(parts)
    BY FewParts DEF Status
  <2> HIDE DEF parts
  <2> QED
    BY <2>1, <2>2, EndsPlainAcks
<1>5. CASE Lookup(c)
  <2>1. UNCHANGED <<count, wrote, call, got>> /\ pc[c] # "done"
    BY <1>5 DEF Lookup, lookedUp
  <2>2. PICK to \in {"ready", "create"} : pc' = [pc EXCEPT ![c] = to]
    BY <1>5 DEF Lookup
  <2> QED
    BY <2>1, <2>2, StatusParts, GoesOnAcks DEF Places
<1>6. CASE Create(c)
  <2>1. UNCHANGED <<count, wrote, call, got>> /\ pc[c] # "done" /\ pc' = [pc EXCEPT ![c] = "ready"]
    BY <1>6 DEF Create, lookedUp
  <2> QED
    BY <2>1, StatusParts, GoesOnAcks DEF Places
<1>7. CASE CreateFails(c)
  BY <1>7, FailsAcks DEF CreateFails
<1>8. CASE Publish(c)
  <2>1. call' = call /\ count' = count /\ pc[c] # "done" /\ call[c].op # "stream"
    BY <1>8 DEF Publish
  <2>2. CASE held[c] \in live
    <3>1. PICK parts \in {<<Status("ok")>>, <<Status("ok"), Ack(1)>>} : Ends(c, "ok", parts)
      BY <1>8, <2>2 DEF Publish
    <3>2. IsSequence(parts) /\ Acks(parts, 1) /\ wrote' = [wrote EXCEPT ![c] = 1]
      BY <1>8, <2>2, <3>1, StatusParts DEF Publish
    <3> QED
      BY <2>1, <3>1, <3>2, EndsAcks
  <2>3. CASE held[c] \notin live
    BY <1>8, <2>1, <2>3, FailsAcks DEF Publish
  <2> QED
    BY <2>2, <2>3
<1>9. CASE NextFrame(c)
  <2>1. UNCHANGED <<count, wrote>> /\ pc[c] # "done" /\ call[c].op = "stream"
    BY <1>9 DEF NextFrame
  <2>2. CASE /\ \E t \in Topics : call' = [call EXCEPT ![c].topic = t]
             /\ pc' = [pc EXCEPT ![c] = "lookup"] /\ got' = got
    <3>1. call' \in [Clients -> Calls] /\ \A d \in Clients : call'[d].op = call[d].op
      <4>1. PICK t \in Topics : call' = [call EXCEPT ![c].topic = t]
        BY <2>2
      <4>2. call[c] \in Calls /\ call' = [call EXCEPT ![c] = [call[c] EXCEPT !.topic = t]]
        BY <4>1 DEF AckInv
      <4>3. [call[c] EXCEPT !.topic = t] \in Calls /\ [call[c] EXCEPT !.topic = t].op = call[c].op
        BY <4>2 DEF Calls
      <4> QED
        BY <4>2, <4>3 DEF AckInv
    <3> QED
      BY <2>1, <2>2, <3>1, StatusParts, GoesOnAcks DEF Places
  <2>3. CASE Ends(c, "invalid", <<Status("invalid")>>) /\ call' = call
    BY <2>1, <2>3, StatusParts, EndsPlainAcks
  <2>4. CASE Ends(c, "ok", <<Status("ok"), Ack(count[c])>>) /\ call' = call
    <3>1. count[c] = wrote[c] /\ wrote[c] \in Nat /\ wrote' = [wrote EXCEPT ![c] = wrote[c]]
      BY <2>1 DEF AckInv
    <3> DEFINE parts == <<Status("ok"), Ack(wrote[c])>>
    <3>2. Ends(c, "ok", parts)
      BY <2>4, <3>1
    <3>3. IsSequence(parts) /\ Acks(parts, wrote[c])
      BY StatusParts
    <3> HIDE DEF parts
    <3> QED
      BY <2>1, <2>4, <3>1, <3>2, <3>3, EndsAcks
  <2> QED
    BY <1>9, <2>2, <2>3, <2>4 DEF NextFrame
<1>10. CASE StreamWrite(c)
  <2>1. call' = call /\ pc[c] # "done"
    BY <1>10 DEF StreamWrite
  <2>2. CASE held[c] \in live
    BY <1>10, <2>1, <2>2, StatusParts, GoesOnAcks DEF StreamWrite, Places
  <2>3. CASE held[c] \notin live
    BY <1>10, <2>1, <2>3, FailsAcks DEF StreamWrite
  <2> QED
    BY <2>2, <2>3
<1>11. CASE StartStream(c)
  <2>1. UNCHANGED <<count, wrote, call>> /\ pc[c] # "done"
    BY <1>11 DEF StartStream, streams
  <2>2. CASE pc' = [pc EXCEPT ![c] = "poll"]
    <3>1. got' = got \/ got' = [got EXCEPT ![c] = <<Status("ok")>>]
      BY <1>11, <2>2 DEF StartStream, Ends, AckInv
    <3> QED
      BY <2>1, <2>2, <3>1, StatusParts, GoesOnAcks DEF Places
  <2>3. CASE Ends(c, "ok", <<>>)
    BY <2>1, <2>3, StatusParts, EndsPlainAcks
  <2> QED
    BY <1>11, <2>2, <2>3 DEF StartStream
<1>12. CASE TakeSample(c)
  BY <1>12, StatusParts, GoesOnAcks DEF TakeSample, streams, Places
<1>13. CASE SendSample(c)
  <2>1. UNCHANGED <<count, wrote, call>> /\ pc[c] # "done"
    BY <1>13 DEF SendSample, streams
  <2>2. CASE Ends(c, "internal", <<>>)
    BY <2>1, <2>2, StatusParts, EndsPlainAcks
  <2>3. CASE /\ pc' = [pc EXCEPT ![c] = "poll"]
             /\ got' = got \/ got' = [got EXCEPT ![c] = Append(@, Event(item[c]))]
    <3>1. IsSequence(<<Event(item[c])>>) /\ NoAcks(<<Event(item[c])>>)
      BY FewParts DEF Event
    <3>2. PICK P : got[c] \in Seq(P)
      BY DEF AckInv, IsSequence
    <3>3. Append(got[c], Event(item[c])) = got[c] \o <<Event(item[c])>>
      <4>1. got[c] \in Seq(P \cup {Event(item[c])}) /\ Event(item[c]) \in P \cup {Event(item[c])}
        BY <3>2
      <4> QED
        BY <4>1
    <3>4. got' = got \/ got' = [got EXCEPT ![c] = @ \o <<Event(item[c])>>]
      BY <2>3, <3>3 DEF AckInv
    <3> QED
      BY <2>1, <2>3, <3>1, <3>4, GoesOnAcks DEF Places
  <2> QED
    BY <1>13, <2>2, <2>3 DEF SendSample
<1>14. CASE EndStream(c)
  <2>1. UNCHANGED <<count, wrote, call>> /\ pc[c] # "done"
    BY <1>14 DEF EndStream, streams
  <2>2. PICK r : Ends(c, r, <<>>)
    BY <1>14 DEF EndStream
  <2> QED
    BY <2>1, <2>2, StatusParts, EndsPlainAcks
<1> QED
  BY <1>1, <1>2, <1>3, <1>4, <1>5, <1>6, <1>7, <1>8, <1>9, <1>10, <1>11, <1>12, <1>13, <1>14 DEF Worker

LEMMA AckStep == AckInv /\ [Next]_vars => AckInv'
<1> SUFFICES ASSUME AckInv, [Next]_vars PROVE AckInv'
  OBVIOUS
<1>1. CASE \E c \in Clients : Worker(c)
  BY <1>1, WorkerAcks
<1>2. CASE CloseTakes \/ CloseEnds \/ Stop \/ (\E t \in Topics : OtherSample(t)) \/ UNCHANGED vars
  <2>1. UNCHANGED <<call, pc, got, count, wrote>>
    BY <1>2 DEF CloseTakes, CloseEnds, Stop, OtherSample, vars, worker
  <2> QED
    BY <2>1 DEF AckInv
<1> QED
  BY <1>1, <1>2 DEF Next

(* A client that is told how many samples its call published is told the   *)
(* truth, whatever fails or is closed under it.                            *)
THEOREM AcksTrue == Spec => []AcksAreTrue
<1>1. AckInv => AcksAreTrue
  BY DEF AckInv, AcksAreTrue, Acks
<1> QED
  BY <1>1, AckInit, AckStep, PTL DEF Spec

-----------------------------------------------------------------------------
(* Samples.                                                                *)

(* What a client got and, after it, the sample that its worker has taken   *)
(* for it and not yet sent.                                                *)
Line(c) == IF pc[c] = "send" THEN Append(got[c], Event(item[c])) ELSE got[c]

(* x is a sample that was taken for c: before all that are still in its    *)
(* subscriber's channel, and with an id already given.                     *)
Taken(c, x) ==
  /\ x[2] \in 1 .. samples /\ x[3] \in 0 .. seq /\ held[c] \in Endpoints
  /\ \A k \in DOMAIN chan[held[c]] : x[2] < chan[held[c]][k]

(* The claim of EachSampleOnce about sample x at i for c and y at j for d. *)
Apart(c, i, x, d, j, y) ==
  /\ x[2] = y[2] => held[c] # held[d]
  /\ kind = "rest" => x[3] # y[3]
  /\ c = d /\ i < j => x[2] < y[2] /\ x[3] <= y[3]

LinesTaken ==
  \A c \in Clients : \A i \in DOMAIN Line(c) : Line(c)[i][1] = "sample" => Taken(c, Line(c)[i])

LinesApart ==
  \A c, d \in Clients : \A i \in DOMAIN Line(c), j \in DOMAIN Line(d) :
    Line(c)[i][1] = "sample" /\ Line(d)[j][1] = "sample" /\ (c # d \/ i # j) =>
      Apart(c, i, Line(c)[i], d, j, Line(d)[j])

(* Channels hold samples in the order written. *)
Rising(q) == \A i, j \in DOMAIN q : i < j => q[i] < q[j]
Channels == /\ DOMAIN chan = Endpoints
            /\ \A e \in Endpoints : chan[e] \in Seq(1 .. samples) /\ Rising(chan[e])

NoSamples(s) == \A i \in DOMAIN s : s[i][1] # "sample"

(* Only a call that has its subscriber gets samples, and it keeps it. *)
Serving ==
  /\ samples \in Nat /\ seq \in Nat
  /\ held \in [Clients -> {0} \cup Endpoints] /\ item \in [Clients -> [sample : Nat, id : Nat]]
  /\ \A c \in Clients : /\ pc[c] \notin {"poll", "send", "done"} => NoSamples(got[c])
                        /\ pc[c] \in {"ready", "poll", "send"} => held[c] \in Endpoints
  /\ made \in Seq(Keys) /\ \A k \in DOMAIN cache : cache[k] \in Endpoints

SampleInv == Serving /\ Channels /\ LinesTaken /\ LinesApart

(* r has no sample that s has not in the same place. *)
NoNew(s, r) ==
  IsSequence(r) /\ \A i \in DOMAIN r : r[i][1] = "sample" => i \in DOMAIN s /\ r[i] = s[i]

LEMMA ConcatNoNew ==
  ASSUME NEW s, NEW t, IsSequence(s), IsSequence(t), NoSamples(t)
  PROVE  NoNew(s, s \o t)
<1>1. PICK P : s \in Seq(P)
  BY DEF IsSequence
<1>2. PICK Q : t \in Seq(Q)
  BY DEF IsSequence
<1>3. s \in Seq(P \cup Q) /\ t \in Seq(P \cup Q)
  BY <1>1, <1>2
<1>4. s \o t \in Seq(P \cup Q)
  BY <1>3
<1>5. ASSUME NEW i \in DOMAIN (s \o t)
      PROVE  \/ i \in DOMAIN s /\ (s \o t)[i] = s[i]
             \/ i - Len(s) \in DOMAIN t /\ (s \o t)[i] = t[i - Len(s)]
  <2>1. (s \o t)[i] = IF i <= Len(s) THEN s[i] ELSE t[i - Len(s)]
    BY <1>3, <1>4
  <2>2. i \in 1 .. Len(s) + Len(t) /\ DOMAIN s = 1 .. Len(s) /\ DOMAIN t = 1 .. Len(t)
        /\ Len(s) \in Nat /\ Len(t) \in Nat
    BY <1>3, <1>4
  <2>3. CASE i <= Len(s)
    BY <2>1, <2>2, <2>3
  <2>4. CASE ~(i <= Len(s))
    BY <2>1, <2>2, <2>4
  <2> QED
    BY <2>3, <2>4
<1>6. IsSequence(s \o t)
  BY <1>4 DEF IsSequence
<1> QED
  BY <1>5, <1>6 DEF NoNew, NoSamples

LEMMA FrontNoSamples ==
  ASSUME NEW s, IsSequence(s), NoSamples(s), NEW k \in 0 .. Len(s)
  PROVE  IsSequence(SubSeq(s, 1, k)) /\ NoSamples(SubSeq(s, 1, k))
<1>1. PICK P : s \in Seq(P)
  BY DEF IsSequence
<1>2. SubSeq(s, 1, k) \in Seq(P) /\ Len(SubSeq(s, 1, k)) = k
  BY <1>1
<1>3. ASSUME NEW i \in DOMAIN SubSeq(s, 1, k) PROVE i \in DOMAIN s /\ SubSeq(s, 1, k)[i] = s[i]
  BY <1>1, <1>2
<1> QED
  BY <1>2, <1>3 DEF IsSequence, NoSamples

(* Sending a sample at the end of what was got, or not. *)
LEMMA AppendNoNew ==
  ASSUME NEW s, IsSequence(s), NEW x
  PROVE  /\ NoNew(s, s) /\ NoNew(Append(s, x), s) /\ NoNew(Append(s, x), Append(s, x))
         /\ DOMAIN Append(s, x) = DOMAIN s \cup {Len(s) + 1} /\ Len(s) \in Nat
         /\ \A i \in DOMAIN s : i \in Nat /\ i < Len(s) + 1 /\ Append(s, x)[i] = s[i]
         /\ Append(s, x)[Len(s) + 1] = x
<1>1. PICK P : s \in Seq(P)
  BY DEF IsSequence
<1>2. s \in Seq(P \cup {x}) /\ x \in P \cup {x}
  BY <1>1
<1>3. /\ Append(s, x) \in Seq(P \cup {x}) /\ Len(Append(s, x)) = Len(s) + 1
      /\ \A i \in 1 .. Len(s) : Append(s, x)[i] = s[i]
      /\ Append(s, x)[Len(s) + 1] = x
  BY <1>2
<1>4. IsSequence(Append(s, x))
  BY <1>3 DEF IsSequence
<1>5. DOMAIN s = 1 .. Len(s) /\ DOMAIN Append(s, x) = 1 .. Len(s) + 1 /\ Len(s) \in Nat
  BY <1>2, <1>3
<1> QED
  BY <1>3, <1>4, <1>5 DEF NoNew

LEMMA PlainParts ==
  ASSUME NEW a, NEW b, a[1] # "sample", b[1] # "sample"
  PROVE  /\ IsSequence(<<>>) /\ IsSequence(<<a>>) /\ IsSequence(<<a, b>>)
         /\ NoSamples(<<>>) /\ NoSamples(<<a>>) /\ NoSamples(<<a, b>>)
<1>1. DOMAIN <<>> = {} /\ DOMAIN <<a>> = {1} /\ DOMAIN <<a, b>> = {1, 2}
  OBVIOUS
<1> QED
  BY <1>1, FewParts DEF NoSamples

LEMMA ReplyParts ==
  /\ IsSequence(<<>>) /\ NoSamples(<<>>)
  /\ \A s : IsSequence(<<Status(s)>>) /\ NoSamples(<<Status(s)>>)
  /\ \A s, n : IsSequence(<<Status(s), Ack(n)>>) /\ NoSamples(<<Status(s), Ack(n)>>)
<1>1. \A s : Status(s)[1] # "sample"
  BY DEF Status
<1>2. \A n : Ack(n)[1] # "sample"
  BY DEF Ack
<1> QED
  BY <1>1, <1>2, PlainParts

-----------------------------------------------------------------------------
(* A worker's step that takes no sample. *)
Plain(c) ==
  /\ UNCHANGED <<kind, seq>>
  /\ \A d \in Clients \ {c} : Line(d)' = Line(d) /\ held'[d] = held[d] /\ pc'[d] = pc[d] /\ got'[d] = got[d]
  /\ NoNew(Line(c), Line(c)')
  /\ held'[c] = held[c] \/ NoSamples(Line(c))
  /\ pc'[c] \notin {"poll", "send", "done"} => NoSamples(got'[c])
  /\ pc'[c] \in {"ready", "poll", "send"} => held'[c] \in Endpoints
  /\ held' \in [Clients -> {0} \cup Endpoints] /\ item' \in [Clients -> [sample : Nat, id : Nat]]
  /\ made' \in Seq(Keys) /\ \A k \in DOMAIN cache' : cache'[k] \in Endpoints
  /\ UNCHANGED dds \/ \E t \in Topics \cup {EmptyTopic} : Deliver(t)

LEMMA EndsPlain ==
  ASSUME AckInv, SampleInv, NEW c \in Clients, NEW r, NEW parts, Ends(c, r, parts),
         IsSequence(parts), NoSamples(parts),
         UNCHANGED <<kind, seq, held, made, cache>>,
         item' = item \/ item' = [item EXCEPT ![c] = NoItem],
         UNCHANGED dds \/ \E t \in Topics \cup {EmptyTopic} : Deliver(t)
  PROVE  Plain(c)
<1>1. PICK k \in 0 .. Len(parts) : got' = [got EXCEPT ![c] = @ \o SubSeq(parts, 1, k)]
  BY DEF Ends
<1>2. IsSequence(got[c]) /\ IsSequence(SubSeq(parts, 1, k)) /\ NoSamples(SubSeq(parts, 1, k))
  BY FrontNoSamples DEF AckInv
<1>3. /\ pc' = [pc EXCEPT ![c] = "done"] /\ pc'[c] = "done"
      /\ got'[c] = got[c] \o SubSeq(parts, 1, k) /\ NoNew(got[c], got'[c])
      /\ \A d \in Clients \ {c} : got'[d] = got[d] /\ pc'[d] = pc[d] /\ item'[d] = item[d]
  BY <1>1, <1>2, ConcatNoNew DEF AckInv, Ends, SampleInv, Serving
<1>4. NoNew(Line(c), Line(c)')
  <2>1. Line(c)' = got'[c]
    BY <1>3 DEF Line
  <2>2. Line(c) = got[c] \/ Line(c) = Append(got[c], Event(item[c]))
    BY DEF Line
  <2>3. \A i \in DOMAIN got[c] : /\ i \in DOMAIN Append(got[c], Event(item[c]))
                                /\ Append(got[c], Event(item[c]))[i] = got[c][i]
    BY <1>2, AppendNoNew
  <2>4. NoNew(Append(got[c], Event(item[c])), got'[c])
    BY <1>3, <2>3 DEF NoNew
  <2> QED
    BY <1>3, <2>1, <2>2, <2>4
<1>5. \A d \in Clients \ {c} : Line(d)' = Line(d)
  BY <1>3 DEF Line
<1>6. item' \in [Clients -> [sample : Nat, id : Nat]]
  BY DEF SampleInv, Serving, NoItem
<1> QED
  BY <1>3, <1>4, <1>5, <1>6 DEF Plain, SampleInv, Serving

LEMMA FailsPlain ==
  ASSUME AckInv, SampleInv, NEW c \in Clients, NEW s, Fails(c, s),
         UNCHANGED <<kind, seq, held, made, cache, item, dds>>
  PROVE  Plain(c)
<1>1. PICK parts \in {<<>>, <<Status(s)>>} : Ends(c, s, parts)
  BY DEF Fails
<1>2. IsSequence(parts) /\ NoSamples(parts)
  BY <1>1, ReplyParts
<1> QED
  BY <1>1, <1>2, EndsPlain

(* A call that has no sample yet, and goes on. *)
LEMMA GoesOnPlain ==
  ASSUME AckInv, SampleInv, NEW c \in Clients, pc[c] \notin {"poll", "send", "done"},
         NEW to, to # "send", pc' = [pc EXCEPT ![c] = to],
         NEW parts, IsSequence(parts), NoSamples(parts),
         got' = got \/ got' = [got EXCEPT ![c] = parts],
         UNCHANGED <<kind, seq, item>>,
         held' = held \/ \E e \in Endpoints : held' = [held EXCEPT ![c] = e],
         to \in {"ready", "poll"} => held'[c] \in Endpoints,
         made' \in Seq(Keys), \A k \in DOMAIN cache' : cache'[k] \in Endpoints,
         UNCHANGED dds \/ \E t \in Topics \cup {EmptyTopic} : Deliver(t)
  PROVE  Plain(c)
<1>1. /\ \A d \in Clients \ {c} : got'[d] = got[d] /\ pc'[d] = pc[d] /\ held'[d] = held[d]
      /\ pc'[c] = to /\ held' \in [Clients -> {0} \cup Endpoints]
  BY DEF AckInv, SampleInv, Serving
<1>2. NoSamples(got[c]) /\ IsSequence(got[c]) /\ got'[c] \in {got[c], parts}
  BY DEF AckInv, SampleInv, Serving
<1>3. Line(c) = got[c] /\ Line(c)' = got'[c] /\ NoSamples(got'[c]) /\ IsSequence(got'[c])
  BY <1>1, <1>2 DEF Line
<1>4. NoNew(Line(c), Line(c)')
  BY <1>3 DEF NoNew, NoSamples
<1>5. \A d \in Clients \ {c} : Line(d)' = Line(d)
  BY <1>1 DEF Line
<1> QED
  BY <1>1, <1>2, <1>3, <1>4, <1>5 DEF Plain, SampleInv, Serving

(* In particular one to which nothing is sent. *)
LEMMA SilentPlain ==
  ASSUME AckInv, SampleInv, NEW c \in Clients, pc[c] \notin {"poll", "send", "done"},
         NEW to, to # "send", pc' = [pc EXCEPT ![c] = to],
         UNCHANGED <<kind, seq, item, got>>,
         held' = held \/ \E e \in Endpoints : held' = [held EXCEPT ![c] = e],
         to \in {"ready", "poll"} => held'[c] \in Endpoints,
         made' \in Seq(Keys), \A k \in DOMAIN cache' : cache'[k] \in Endpoints,
         UNCHANGED dds \/ \E t \in Topics \cup {EmptyTopic} : Deliver(t)
  PROVE  Plain(c)
<1>1. PICK parts : IsSequence(parts) /\ NoSamples(parts)
  BY ReplyParts
<1> QED
  BY <1>1, GoesOnPlain

LEMMA WorkerPlain ==
  ASSUME MaxEndpoints \in Nat, AckInv, SampleInv, NEW c \in Clients, Worker(c), ~TakeSample(c)
  PROVE  Plain(c)
<1>0. /\ call[c] \in Calls /\ call[c].topic \in Topics \cup {EmptyTopic}
      /\ made \in Seq(Keys) /\ \A k \in DOMAIN cache : cache[k] \in Endpoints
  BY DEF AckInv, Calls, SampleInv, Serving
<1>1. CASE Refuse(c)
  <2>1. UNCHANGED <<kind, seq, held, made, cache, item, dds>>
    BY <1>1 DEF Refuse, idle
  <2>2. \/ Ends(c, "unauthenticated", <<Status("unauthenticated")>>)
        \/ Ends(c, "invalid", <<Status("invalid")>>)
    BY <1>1 DEF Refuse
  <2> QED
    BY <2>1, <2>2, ReplyParts, EndsPlain
<1>2. CASE Begin(c)
  <2>1. UNCHANGED <<kind, seq, held, made, cache, item, dds>> /\ pc[c] = "new"
    BY <1>2 DEF Begin, idle
  <2>2. PICK to \in {"bad", "lookup"} : pc' = [pc EXCEPT ![c] = to]
    BY <1>2 DEF Begin
  <2>3. PICK parts : /\ IsSequence(parts) /\ NoSamples(parts)
                     /\ got' = got \/ got' = [got EXCEPT ![c] = parts]
    <3>1. \A n \in {0, 1} : n \in 0 .. Len(<<Status("ok")>>)
      OBVIOUS
    <3>2. \A n \in {0, 1} : LET s == SubSeq(<<Status("ok")>>, 1, n) IN IsSequence(s) /\ NoSamples(s)
      BY <3>1, ReplyParts, FrontNoSamples
    <3> QED
      BY <1>2, <3>2, ReplyParts DEF Begin
  <2> QED
    BY <1>0, <2>1, <2>2, <2>3, GoesOnPlain
<1>3. CASE EmptyTopicFails(c)
  BY <1>3, FailsPlain DEF EmptyTopicFails, idle
<1>4. CASE ListTopics(c)
  <2> DEFINE parts == <<Status("ok"), <<"topics", {k.topic : k \in {k \in DOMAIN cache : k.role = "sub"}}>>>>
  <2>1. UNCHANGED <<kind, seq, held, made, cache, item, dds>> /\ Ends(c, "ok", parts)
    BY <1>4 DEF ListTopics, idle
  <2>2. IsSequence(parts) /\ NoSamples(parts)
    BY PlainParts DEF Status
  <2> HIDE DEF parts
  <2> QED
    BY <2>1, <2>2, EndsPlain
<1>5. CASE Lookup(c)
  <2>1. UNCHANGED <<kind, seq, made, cache, item, dds, got>> /\ pc[c] = "lookup"
    BY <1>5 DEF Lookup, lookedUp
  <2>2. \/ pc' = [pc EXCEPT ![c] = "create"] /\ held' = held
        \/ pc' = [pc EXCEPT ![c] = "ready"] /\ \E e \in Endpoints : held' = [held EXCEPT ![c] = e] /\ held'[c] = e
    BY <1>0, <1>5 DEF Lookup, SampleInv, Serving
  <2>3. CASE pc' = [pc EXCEPT ![c] = "create"] /\ held' = held
    BY <1>0, <2>1, <2>3, SilentPlain
  <2>4. CASE pc' = [pc EXCEPT ![c] = "ready"] /\ \E e \in Endpoints : held' = [held EXCEPT ![c] = e] /\ held'[c] = e
    BY <1>0, <2>1, <2>4, SilentPlain
  <2> QED
    BY <2>2, <2>3, <2>4
<1>6. CASE Create(c)
  <2>1. UNCHANGED <<kind, seq, item, dds, got>> /\ pc[c] = "create" /\ pc' = [pc EXCEPT ![c] = "ready"]
    BY <1>6 DEF Create, lookedUp
  <2>2. PICK k \in Keys, e \in Endpoints : /\ made' = Append(made, k) /\ held' = [held EXCEPT ![c] = e]
           /\ cache' = [j \in DOMAIN cache \cup {k} |-> IF j = k THEN e ELSE cache[j]]
    <3>1. Key(Role(c), call[c].topic) \in Keys
      BY KeyIsKey DEF AckInv
    <3>2. Len(made) + 1 \in Endpoints
      BY <1>0, <1>6 DEF Create, Endpoints
    <3> QED
      BY <1>6, <3>1, <3>2 DEF Create
  <2>3. made' \in Seq(Keys) /\ held'[c] \in Endpoints
    BY <1>0, <2>2 DEF SampleInv, Serving
  <2>4. \A j \in DOMAIN cache' : cache'[j] \in Endpoints
    BY <1>0, <2>2
  <2> QED
    BY <2>1, <2>2, <2>3, <2>4, SilentPlain
<1>7. CASE CreateFails(c)
  BY <1>7, FailsPlain DEF CreateFails
<1>8. CASE Publish(c)
  <2>1. UNCHANGED <<kind, seq, held, made, cache, item>>
    BY <1>8 DEF Publish, writes, maps
  <2>2. CASE held[c] \in live
    <3>1. PICK parts \in {<<Status("ok")>>, <<Status("ok"), Ack(1)>>} : Ends(c, "ok", parts)
      BY <1>8, <2>2 DEF Publish
    <3>2. IsSequence(parts) /\ NoSamples(parts) /\ \E t \in Topics \cup {EmptyTopic} : Deliver(t)
      BY <1>0, <1>8, <2>2, <3>1, ReplyParts DEF Publish
    <3> QED
      BY <2>1, <3>1, <3>2, EndsPlain
  <2>3. CASE held[c] \notin live
    BY <1>8, <2>1, <2>3, FailsPlain DEF Publish
  <2> QED
    BY <2>2, <2>3
<1>9. CASE NextFrame(c)
  <2>1. UNCHANGED <<kind, seq, held, made, cache, item, dds>> /\ pc[c] \in {"new", "next"}
    BY <1>9 DEF NextFrame, writes, maps
  <2>2. CASE pc' = [pc EXCEPT ![c] = "lookup"] /\ got' = got
    BY <1>0, <2>1, <2>2, SilentPlain
  <2>3. CASE Ends(c, "invalid", <<Status("invalid")>>)
    BY <2>1, <2>3, ReplyParts, EndsPlain
  <2>4. CASE Ends(c, "ok", <<Status("ok"), Ack(count[c])>>)
    <3> DEFINE parts == <<Status("ok"), Ack(count[c])>>
    <3>1. IsSequence(parts) /\ NoSamples(parts)
      BY ReplyParts
    <3>2. Ends(c, "ok", parts)
      BY <2>4
    <3> HIDE DEF parts
    <3> QED
      BY <2>1, <3>1, <3>2, EndsPlain
  <2> QED
    BY <1>9, <2>2, <2>3, <2>4 DEF NextFrame
<1>10. CASE StreamWrite(c)
  <2>1. UNCHANGED <<kind, seq, held, made, cache, item>> /\ pc[c] = "ready"
    BY <1>10 DEF StreamWrite, writes, maps
  <2>2. CASE held[c] \in live
    <3>1. (\E t \in Topics \cup {EmptyTopic} : Deliver(t)) /\ got' = got /\ pc' = [pc EXCEPT ![c] = "next"]
      BY <1>0, <1>10, <2>2 DEF StreamWrite
    <3> QED
      BY <1>0, <2>1, <3>1, SilentPlain
  <2>3. CASE held[c] \notin live
    BY <1>10, <2>1, <2>3, FailsPlain DEF StreamWrite
  <2> QED
    BY <2>2, <2>3
<1>11. CASE StartStream(c)
  <2>1. UNCHANGED <<kind, seq, held, made, cache, item, dds>> /\ pc[c] = "ready" /\ held[c] \in Endpoints
    BY <1>11 DEF StartStream, streams, maps, dds, SampleInv, Serving
  <2>2. CASE pc' = [pc EXCEPT ![c] = "poll"] /\ (got' = got \/ got' = [got EXCEPT ![c] = <<Status("ok")>>])
    BY <1>0, <2>1, <2>2, ReplyParts, GoesOnPlain
  <2>3. CASE Ends(c, "ok", <<>>)
    BY <2>1, <2>3, ReplyParts, EndsPlain
  <2> QED
    BY <1>11, <2>2, <2>3 DEF StartStream
<1>12. CASE SendSample(c)
  <2>1. UNCHANGED <<kind, seq, held, made, cache, dds>> /\ pc[c] = "send" /\ item' = [item EXCEPT ![c] = NoItem]
    BY <1>12 DEF SendSample, streams, maps, dds
  <2>2. CASE Ends(c, "internal", <<>>)
    BY <2>1, <2>2, ReplyParts, EndsPlain
  <2>3. CASE /\ pc' = [pc EXCEPT ![c] = "poll"]
             /\ got' = got \/ got' = [got EXCEPT ![c] = Append(@, Event(item[c]))]
    <3>1. /\ \A d \in Clients \ {c} : got'[d] = got[d] /\ pc'[d] = pc[d] /\ item'[d] = item[d]
          /\ pc'[c] = "poll" /\ got'[c] \in {got[c], Append(got[c], Event(item[c]))}
      BY <2>1, <2>3 DEF AckInv, SampleInv, Serving
    <3>2. IsSequence(got[c])
      BY DEF AckInv
    <3>3. Line(c) = Append(got[c], Event(item[c])) /\ Line(c)' = got'[c]
      BY <2>1, <3>1 DEF Line
    <3>4. NoNew(Line(c), Line(c)')
      <4>1. /\ NoNew(Append(got[c], Event(item[c])), got[c])
            /\ NoNew(Append(got[c], Event(item[c])), Append(got[c], Event(item[c])))
        BY <3>2, AppendNoNew
      <4> QED
        BY <3>1, <3>3, <4>1
    <3>5. \A d \in Clients \ {c} : Line(d)' = Line(d)
      BY <3>1 DEF Line
    <3>6. item' \in [Clients -> [sample : Nat, id : Nat]]
      BY <2>1 DEF SampleInv, Serving, NoItem
    <3> QED
      BY <1>0, <2>1, <3>1, <3>4, <3>5, <3>6 DEF Plain, SampleInv, Serving
  <2> QED
    BY <1>12, <2>2, <2>3 DEF SendSample
<1>13. CASE EndStream(c)
  <2>1. UNCHANGED <<kind, seq, held, made, cache, item, dds>> /\ \E r : Ends(c, r, <<>>)
    BY <1>13 DEF EndStream, streams, maps, dds
  <2> QED
    BY <2>1, ReplyParts, EndsPlain
<1> QED
  BY <1>1, <1>2, <1>3, <1>4, <1>5, <1>6, <1>7, <1>8, <1>9, <1>10, <1>11, <1>12, <1>13 DEF Worker

(* What a step writes comes after all that was written. *)
Later ==
  /\ samples' \in Nat /\ samples <= samples' /\ Channels'
  /\ \A e \in Endpoints : \A k \in DOMAIN chan'[e] :
        chan'[e][k] > samples \/ \E m \in DOMAIN chan[e] : chan'[e][k] = chan[e][m]

LEMMA DeliverLater ==
  ASSUME samples \in Nat, Channels, UNCHANGED dds \/ \E t : Deliver(t)
  PROVE  Later
<1>1. CASE UNCHANGED dds
  BY <1>1 DEF Later, Channels, dds
<1>2. CASE \E t : Deliver(t)
  <2>1. PICK t : Deliver(t)
    BY <1>2
  <2>2. samples' = samples + 1
    BY <2>1 DEF Deliver
  <2>3. ASSUME NEW e \in Endpoints
        PROVE  /\ chan'[e] \in Seq(1 .. samples') /\ Rising(chan'[e])
               /\ \A k \in DOMAIN chan'[e] :
                    chan'[e][k] > samples \/ \E m \in DOMAIN chan[e] : chan'[e][k] = chan[e][m]
    <3>1. chan'[e] = chan[e] \/ chan'[e] = Append(chan[e], samples + 1)
      BY <2>1, <2>2 DEF Deliver
    <3>2. PICK q \in Seq(1 .. samples) : q = chan[e] /\ Rising(q)
      BY DEF Channels
    <3>3. /\ q \in Seq(1 .. samples + 1) /\ DOMAIN q = 1 .. Len(q) /\ Len(q) \in Nat
          /\ \A k \in DOMAIN q : q[k] \in 1 .. samples
      BY <3>2
    <3>4. CASE chan'[e] = q
      BY <2>2, <3>2, <3>3, <3>4
    <3>5. CASE chan'[e] = Append(q, samples + 1)
      <4>1. PICK r : r = Append(q, samples + 1)
        OBVIOUS
      <4>2. r \in Seq(1 .. samples + 1) /\ DOMAIN r = 1 .. Len(q) + 1 /\ r[Len(q) + 1] = samples + 1
            /\ \A k \in 1 .. Len(q) : r[k] = q[k]
        BY <3>3, <4>1
      <4>3. Rising(r)
        <5> SUFFICES ASSUME NEW i \in 1 .. Len(q) + 1, NEW j \in 1 .. Len(q) + 1, i < j PROVE r[i] < r[j]
          BY <4>2 DEF Rising
        <5>1. i \in 1 .. Len(q) /\ (j \in 1 .. Len(q) \/ j = Len(q) + 1)
          BY <3>3
        <5>2. r[i] = q[i] /\ q[i] \in 1 .. samples /\ i \in DOMAIN q
          BY <3>3, <4>2, <5>1
        <5>3. CASE j \in 1 .. Len(q)
          BY <3>2, <3>3, <4>2, <5>2, <5>3 DEF Rising
        <5>4. CASE j = Len(q) + 1
          BY <4>2, <5>2, <5>4
        <5> QED
          BY <5>1, <5>3, <5>4
      <4>4. ASSUME NEW k \in DOMAIN r PROVE r[k] > samples \/ \E m \in DOMAIN q : r[k] = q[m]
        <5>1. CASE k \in 1 .. Len(q)
          BY <3>3, <4>2, <5>1
        <5>2. CASE k = Len(q) + 1
          BY <4>2, <5>2
        <5> QED
          BY <3>3, <4>2, <5>1, <5>2
      <4> QED
        BY <2>2, <3>2, <3>5, <4>1, <4>2, <4>3, <4>4
    <3> QED
      BY <3>1, <3>2, <3>4, <3>5
  <2>4. DOMAIN chan' = Endpoints
    BY <2>1 DEF Deliver
  <2>5. samples' \in Nat /\ samples <= samples' /\ Channels'
    BY <2>2, <2>3, <2>4 DEF Channels
  <2> QED
    BY <2>3, <2>5 DEF Later
<1> QED
  BY <1>1, <1>2

(* A step that gives no client a new sample. *)
LEMMA NoNewSamples ==
  ASSUME LinesTaken, LinesApart, Later, samples \in Nat, seq \in Nat, UNCHANGED <<kind, seq>>,
         \A c \in Clients : /\ NoNew(Line(c), Line(c)')
                            /\ held'[c] = held[c] \/ NoSamples(Line(c))
  PROVE  LinesTaken' /\ LinesApart'
<1>1. ASSUME NEW c \in Clients, NEW i \in DOMAIN Line(c)', Line(c)'[i][1] = "sample"
      PROVE  i \in DOMAIN Line(c) /\ Line(c)'[i] = Line(c)[i] /\ held'[c] = held[c]
  BY <1>1 DEF NoNew, NoSamples
<1>2. ASSUME NEW c \in Clients, NEW x, Taken(c, x), held'[c] = held[c] PROVE Taken(c, x)'
  <2>1. /\ x[2] \in 1 .. samples /\ x[3] \in 0 .. seq /\ held[c] \in Endpoints
        /\ \A k \in DOMAIN chan[held[c]] : x[2] < chan[held[c]][k]
    BY <1>2 DEF Taken
  <2>2. \A k \in DOMAIN chan'[held[c]] : chan'[held[c]][k] \in Nat
    BY <2>1 DEF Later, Channels
  <2>3. \A k \in DOMAIN chan'[held[c]] : x[2] < chan'[held[c]][k]
    BY <2>1, <2>2 DEF Later
  <2> QED
    BY <1>2, <2>1, <2>3 DEF Taken, Later
<1>3. LinesTaken'
  BY <1>1, <1>2 DEF LinesTaken
<1>4. ASSUME NEW c \in Clients, NEW d \in Clients,
             NEW i \in DOMAIN Line(c)', NEW j \in DOMAIN Line(d)',
             Line(c)'[i][1] = "sample", Line(d)'[j][1] = "sample", c # d \/ i # j
      PROVE  Apart(c, i, Line(c)[i], d, j, Line(d)[j])'
  <2>1. /\ i \in DOMAIN Line(c) /\ Line(c)'[i] = Line(c)[i] /\ held'[c] = held[c]
        /\ j \in DOMAIN Line(d) /\ Line(d)'[j] = Line(d)[j] /\ held'[d] = held[d]
    BY <1>1, <1>4
  <2>2. Apart(c, i, Line(c)[i], d, j, Line(d)[j])
    BY <1>4, <2>1 DEF LinesApart
  <2> QED
    BY <2>1, <2>2 DEF Apart
<1>5. LinesApart'
  BY <1>4 DEF LinesApart
<1> QED
  BY <1>3, <1>5

LEMMA PlainSamples ==
  ASSUME AckInv, SampleInv, NEW c \in Clients, Plain(c)
  PROVE  SampleInv'
<1>1. Later
  <2>1. UNCHANGED dds \/ \E t : Deliver(t)
    BY DEF Plain
  <2> QED
    BY <2>1, DeliverLater DEF SampleInv, Serving
<1>2. \A d \in Clients \ {c} : NoNew(Line(d), Line(d)')
  <2> SUFFICES ASSUME NEW d \in Clients \ {c} PROVE NoNew(Line(d), Line(d))
    BY DEF Plain
  <2>1. IsSequence(got[d])
    BY DEF AckInv
  <2>2. NoNew(got[d], got[d]) /\ NoNew(Append(got[d], Event(item[d])), Append(got[d], Event(item[d])))
    BY <2>1, AppendNoNew
  <2> QED
    BY <2>2 DEF Line
<1>3. \A d \in Clients : NoNew(Line(d), Line(d)') /\ (held'[d] = held[d] \/ NoSamples(Line(d)))
  BY <1>2 DEF Plain
<1>4. LinesTaken' /\ LinesApart'
  BY <1>1, <1>3, NoNewSamples DEF SampleInv, Serving, Plain
<1>5. Serving'
  <2>1. \A d \in Clients \ {c} : pc'[d] = pc[d] /\ got'[d] = got[d] /\ held'[d] = held[d]
    BY DEF Plain
  <2>2. \A d \in Clients : /\ pc'[d] \notin {"poll", "send", "done"} => NoSamples(got'[d])
                           /\ pc'[d] \in {"ready", "poll", "send"} => held'[d] \in Endpoints
    BY <2>1 DEF Plain, SampleInv, Serving
  <2> QED
    BY <1>1, <2>2 DEF Plain, SampleInv, Serving, Later
<1> QED
  BY <1>1, <1>4, <1>5 DEF SampleInv, Later

(* Taking a sample: it comes after all that was taken from the channel and *)
(* before all that stays there, and its id is new on a REST bridge.        *)
LEMMA TakeSamples ==
  ASSUME AckInv, SampleInv, NEW c \in Clients, TakeSample(c)
  PROVE  SampleInv'
<1>1. /\ pc[c] = "poll" /\ chan[held[c]] # <<>> /\ UNCHANGED <<kind, held, got, samples, made, cache>>
      /\ seq' = IF kind = "rest" THEN seq + 1 ELSE seq
      /\ item' = [item EXCEPT ![c] = [sample |-> Head(chan[held[c]]), id |-> seq']]
      /\ chan' = [chan EXCEPT ![held[c]] = Tail(@)]
      /\ pc' = [pc EXCEPT ![c] = "send"]
  BY DEF TakeSample, streams, maps
<1>2. PICK e \in Endpoints : e = held[c]
  BY <1>1 DEF SampleInv, Serving
<1>3. /\ samples \in Nat /\ seq \in Nat /\ seq' \in Nat /\ seq <= seq'
  BY <1>1 DEF SampleInv, Serving
<1>0. PICK S : S = 1 .. samples
  OBVIOUS
<1>4. PICK q \in Seq(S) : q = chan[e] /\ q # <<>> /\ Rising(q)
  BY <1>0, <1>1, <1>2 DEF SampleInv, Channels
<1>5. PICK n \in S, r \in Seq(S) :
         /\ n = Head(q) /\ n = q[1] /\ r = Tail(q) /\ Len(r) = Len(q) - 1
         /\ \A k \in 1 .. Len(r) : r[k] = q[k + 1]
  <2>1. Head(q) \in S /\ Head(q) = q[1]
    BY <1>4
  <2>2. Tail(q) \in Seq(S) /\ Len(Tail(q)) = Len(q) - 1
        /\ \A k \in 1 .. Len(Tail(q)) : Tail(q)[k] = q[k + 1]
    BY <1>4
  <2> QED
    BY <2>1, <2>2
<1>6. /\ DOMAIN q = 1 .. Len(q) /\ Len(q) \in Nat /\ 1 \in DOMAIN q
      /\ (\A k \in DOMAIN q : q[k] \in Nat) /\ n \in 1 .. samples /\ n \in Nat
  <2>1. DOMAIN q = 1 .. Len(q) /\ Len(q) \in Nat /\ 1 \in DOMAIN q /\ \A k \in DOMAIN q : q[k] \in S
    BY <1>4
  <2> QED
    BY <1>0, <1>5, <2>1
<1>7. \A k \in DOMAIN r : k + 1 \in DOMAIN q /\ r[k] = q[k + 1] /\ k \in Nat /\ 1 < k + 1
  BY <1>5, <1>6
<1>8. (\A k \in DOMAIN r : n < r[k]) /\ Rising(r)
  <2>1. \A k \in DOMAIN r : n < r[k]
    BY <1>4, <1>5, <1>6, <1>7 DEF Rising
  <2>2. \A k, m \in DOMAIN r : k < m => k + 1 < m + 1
    BY <1>7
  <2>3. Rising(r)
    BY <1>4, <1>7, <2>2 DEF Rising
  <2> QED
    BY <2>1, <2>3
<1>9. \A f \in Endpoints : chan'[f] = IF f = e THEN r ELSE chan[f]
  BY <1>1, <1>2, <1>4, <1>5 DEF SampleInv, Channels
<1>10. Channels'
  BY <1>0, <1>1, <1>8, <1>9 DEF SampleInv, Channels
<1>11. PICK x : x = <<"sample", n, seq'>> /\ x[1] = "sample" /\ x[2] = n /\ x[3] = seq'
  <2>1. PICK x : x = <<"sample", n, seq'>>
    OBVIOUS
  <2>2. x[1] = "sample" /\ x[2] = n /\ x[3] = seq'
    BY <2>1
  <2> QED
    BY <2>1, <2>2
<1>12. item'[c] = [sample |-> n, id |-> seq'] /\ item' \in [Clients -> [sample : Nat, id : Nat]]
       /\ \A d \in Clients \ {c} : item'[d] = item[d] /\ pc'[d] = pc[d]
  <2>1. PICK v \in [sample : Nat, id : Nat] : v = [sample |-> n, id |-> seq']
    <3>1. [sample |-> n, id |-> seq'] \in [sample : Nat, id : Nat]
      BY <1>3, <1>6
    <3> QED
      BY <3>1
  <2>2. item' = [item EXCEPT ![c] = v] /\ item \in [Clients -> [sample : Nat, id : Nat]]
    BY <1>1, <1>2, <1>4, <1>5, <2>1 DEF SampleInv, Serving
  <2>3. item'[c] = v /\ item' \in [Clients -> [sample : Nat, id : Nat]]
    BY <2>1, <2>2
  <2>4. \A d \in Clients \ {c} : item'[d] = item[d] /\ pc'[d] = pc[d]
    BY <1>1, <2>2 DEF AckInv
  <2> QED
    BY <2>1, <2>3, <2>4
<1>13. pc'[c] = "send"
  BY <1>1 DEF AckInv
<1>14. Event(item[c])' = x
  BY <1>11, <1>12 DEF Event
<1>15. Line(c)' = Append(got[c], x) /\ Line(c) = got[c] /\ \A d \in Clients \ {c} : Line(d)' = Line(d)
  BY <1>1, <1>12, <1>13, <1>14 DEF Line
<1>16. PICK m : m = Len(got[c]) + 1
  OBVIOUS
<1>17. /\ DOMAIN Append(got[c], x) = DOMAIN got[c] \cup {m} /\ m \in Nat
       /\ \A i \in DOMAIN got[c] : i \in Nat /\ i < m /\ Append(got[c], x)[i] = got[c][i]
       /\ Append(got[c], x)[m] = x
  <2>1. IsSequence(got[c])
    BY DEF AckInv
  <2> QED
    BY <1>16, <2>1, AppendNoNew
<1>18. ASSUME NEW d \in Clients, NEW i \in DOMAIN Line(d)', Line(d)'[i][1] = "sample"
       PROVE  \/ d = c /\ i = m /\ Line(d)'[i] = x
              \/ i \in DOMAIN Line(d) /\ Line(d)'[i] = Line(d)[i] /\ (d = c => i < m /\ i \in Nat)
  BY <1>15, <1>17
<1>19. ASSUME NEW d \in Clients, NEW y, Taken(d, y)
       PROVE  Taken(d, y)' /\ (held[d] = e => y[2] < n) /\ y[3] \in 0 .. seq
  <2>1. y[2] \in 1 .. samples /\ y[3] \in 0 .. seq /\ held[d] \in Endpoints
        /\ \A k \in DOMAIN chan[held[d]] : y[2] < chan[held[d]][k]
    BY <1>19 DEF Taken
  <2>2. held[d] = e => y[2] < n
    BY <1>4, <1>5, <1>6, <2>1
  <2>3. \A k \in DOMAIN chan'[held[d]] : y[2] < chan'[held[d]][k]
    BY <1>4, <1>6, <1>7, <1>9, <2>1
  <2>4. y[3] \in 0 .. seq'
    BY <1>3, <2>1
  <2> QED
    BY <1>1, <2>1, <2>2, <2>3, <2>4 DEF Taken
<1>20. Taken(c, x)'
  <2>1. x[2] \in 1 .. samples /\ x[3] \in 0 .. seq' /\ \A k \in DOMAIN r : x[2] < r[k]
    BY <1>3, <1>6, <1>8, <1>11
  <2>2. held'[c] = e /\ chan'[e] = r /\ samples' = samples
    BY <1>1, <1>2, <1>9
  <2> QED
    BY <2>1, <2>2 DEF Taken
<1>21. LinesTaken'
  BY <1>18, <1>19, <1>20 DEF SampleInv, LinesTaken
<1>22. ASSUME NEW d \in Clients, NEW j \in DOMAIN Line(d), Line(d)[j][1] = "sample"
       PROVE  /\ held[d] = e => Line(d)[j][2] < n
              /\ Line(d)[j][3] \in 0 .. seq
  BY <1>19, <1>22 DEF SampleInv, LinesTaken
<1>23. LinesApart'
  <2> SUFFICES ASSUME NEW a \in Clients, NEW b \in Clients,
                      NEW i \in DOMAIN Line(a)', NEW j \in DOMAIN Line(b)',
                      Line(a)'[i][1] = "sample", Line(b)'[j][1] = "sample", a # b \/ i # j
               PROVE  Apart(a, i, Line(a)[i], b, j, Line(b)[j])'
    BY DEF LinesApart
  <2>1. CASE /\ i \in DOMAIN Line(a) /\ Line(a)'[i] = Line(a)[i]
             /\ j \in DOMAIN Line(b) /\ Line(b)'[j] = Line(b)[j]
    <3>1. Apart(a, i, Line(a)[i], b, j, Line(b)[j])
      BY <2>1 DEF SampleInv, LinesApart
    <3> QED
      BY <1>1, <2>1, <3>1 DEF Apart
  <2>2. CASE a = c /\ i = m /\ Line(a)'[i] = x /\ j \in DOMAIN Line(b) /\ Line(b)'[j] = Line(b)[j]
             /\ (b = c => j < m /\ j \in Nat)
    <3>1. (held[b] = e => Line(b)[j][2] < n) /\ Line(b)[j][3] \in 0 .. seq
      BY <1>22, <2>2
    <3>2. ~(a = b /\ i < j)
      BY <1>17, <2>2
    <3>3. PICK y : y = Line(b)[j]
      OBVIOUS
    <3>4. x[3] > seq \/ kind # "rest"
      BY <1>1, <1>3, <1>11
    <3>5. (x[2] = y[2] => held[c] # held[b]) /\ (kind = "rest" => x[3] # y[3])
      BY <1>2, <1>3, <1>6, <1>11, <3>1, <3>3, <3>4
    <3> QED
      BY <1>1, <2>2, <3>2, <3>3, <3>5 DEF Apart
  <2>3. CASE b = c /\ j = m /\ Line(b)'[j] = x /\ i \in DOMAIN Line(a) /\ Line(a)'[i] = Line(a)[i]
    <3>1. (held[a] = e => Line(a)[i][2] < n) /\ Line(a)[i][3] \in 0 .. seq
      BY <1>22, <2>3
    <3>2. a = b => Line(a)[i][2] < n
      BY <1>2, <2>3, <3>1
    <3>3. PICK y : y = Line(a)[i]
      OBVIOUS
    <3>4. x[3] > seq \/ kind # "rest"
      BY <1>1, <1>3, <1>11
    <3>5. (x[2] = y[2] => held[c] # held[a]) /\ (kind = "rest" => x[3] # y[3])
          /\ (a = b => y[2] < x[2]) /\ y[3] <= x[3]
      BY <1>2, <1>3, <1>6, <1>11, <3>1, <3>2, <3>3, <3>4
    <3> QED
      BY <1>1, <2>3, <3>3, <3>5 DEF Apart
  <2> QED
    BY <1>18, <2>1, <2>2, <2>3
<1>24. Serving'
  <2>1. \A d \in Clients : /\ pc'[d] \notin {"poll", "send", "done"} => NoSamples(got'[d])
                           /\ pc'[d] \in {"ready", "poll", "send"} => held'[d] \in Endpoints
    BY <1>1, <1>2, <1>12, <1>13 DEF SampleInv, Serving
  <2> QED
    BY <1>1, <1>3, <1>12, <2>1 DEF SampleInv, Serving
<1> QED
  BY <1>10, <1>21, <1>23, <1>24 DEF SampleInv

LEMMA SampleInit == Init => SampleInv
<1> SUFFICES ASSUME Init PROVE SampleInv
  OBVIOUS
<1>1. \A c \in Clients : Line(c) = <<>>
  BY DEF Init, Line
<1>2. LinesTaken /\ LinesApart
  BY <1>1 DEF LinesTaken, LinesApart
<1>3. Channels
  BY DEF Init, Channels, Rising
<1>4. Serving
  BY DEF Init, Serving, NoItem, NoSamples
<1> QED
  BY <1>2, <1>3, <1>4 DEF SampleInv

LEMMA SampleStep ==
  ASSUME MaxEndpoints \in Nat
  PROVE  AckInv /\ SampleInv /\ [Next]_vars => SampleInv'
<1> SUFFICES ASSUME AckInv, SampleInv, [Next]_vars PROVE SampleInv'
  OBVIOUS
<1>1. CASE \E c \in Clients : Worker(c)
  BY <1>1, WorkerPlain, PlainSamples, TakeSamples DEF Worker
<1>2. CASE CloseTakes \/ CloseEnds \/ Stop \/ (\E t \in Topics : OtherSample(t)) \/ UNCHANGED vars
  <2>1. UNCHANGED <<kind, seq, pc, held, got, item, made>> /\ (UNCHANGED dds \/ \E t : Deliver(t))
    BY <1>2 DEF CloseTakes, CloseEnds, Stop, OtherSample, vars, worker, maps, dds
  <2>2. \A k \in DOMAIN cache' : cache'[k] \in Endpoints
    BY <1>2 DEF CloseTakes, CloseEnds, Stop, OtherSample, vars, maps, SampleInv, Serving
  <2>3. Later
    BY <2>1, DeliverLater DEF SampleInv, Serving
  <2>4. \A c \in Clients : Line(c)' = Line(c) /\ held'[c] = held[c]
    BY <2>1 DEF Line
  <2>5. \A c \in Clients : NoNew(Line(c), Line(c))
    BY AppendNoNew DEF Line, AckInv
  <2>6. LinesTaken' /\ LinesApart'
    BY <2>1, <2>3, <2>4, <2>5, NoNewSamples DEF SampleInv, Serving
  <2>7. Serving'
    BY <2>1, <2>2, <2>3 DEF SampleInv, Serving, Later
  <2> QED
    BY <2>3, <2>6, <2>7 DEF SampleInv, Later
<1> QED
  BY <1>1, <1>2 DEF Next

(* A sample that a topic's subscriber receives goes to one of the clients  *)
(* that share it, each client gets its samples in the order written, and   *)
(* no two SSE events of a bridge have one id, for any number of clients,   *)
(* topics and endpoints (Bridge::subscribe in grpc.cpp, and its REST       *)
(* counterpart in rest/transport.cpp).                                     *)
THEOREM SamplesGoOnce ==
  ASSUME MaxEndpoints \in Nat
  PROVE  Spec => []EachSampleOnce
<1>1. AckInv /\ SampleInv => EachSampleOnce
  <2> SUFFICES ASSUME AckInv, SampleInv,
                      NEW c \in Clients, NEW d \in Clients, NEW i \in DOMAIN got[c], NEW j \in DOMAIN got[d],
                      got[c][i][1] = "sample", got[d][j][1] = "sample", c # d \/ i # j
               PROVE  Apart(c, i, got[c][i], d, j, got[d][j])
    BY DEF EachSampleOnce, Apart
  <2>1. \A b \in Clients : \A k \in DOMAIN got[b] : k \in DOMAIN Line(b) /\ Line(b)[k] = got[b][k]
    <3> SUFFICES ASSUME NEW b \in Clients, NEW k \in DOMAIN got[b] PROVE k \in DOMAIN Line(b) /\ Line(b)[k] = got[b][k]
      OBVIOUS
    <3>1. IsSequence(got[b])
      BY DEF AckInv
    <3>2. k \in DOMAIN Append(got[b], Event(item[b])) /\ Append(got[b], Event(item[b]))[k] = got[b][k]
      BY <3>1, AppendNoNew
    <3> QED
      BY <3>2 DEF Line
  <2> QED
    BY <2>1 DEF SampleInv, LinesApart
<1> QED
  BY <1>1, AckInit, AckStep, SampleInit, SampleStep, PTL DEF Spec

-----------------------------------------------------------------------------
(* The topic rules (AccessPolicy).                                         *)

(* Induction on numbers, without an operator parameter: what fails for     *)
(* some number fails for a least one.                                      *)
LEMMA LeastOf ==
  ASSUME NEW S, S \subseteq Nat, S # {}
  PROVE  /\ Least(S) \in S /\ \A j \in S : Least(S) <= j
<1>1. PICK i \in S : \A j \in S : ~(<<j, i>> \in OpToRel(<, Nat))
  BY NatLessThanWellFounded, WFMin
<1>2. ASSUME NEW j \in S PROVE i <= j
  <2>1. i \in Nat /\ j \in Nat /\ <<j, i>> \in Nat \X Nat
    OBVIOUS
  <2>2. ~(j < i)
    BY <1>1, <2>1 DEF OpToRel
  <2> QED
    BY <2>1, <2>2
<1> QED
  BY <1>2 DEF Least

(* A loop of n rounds has a run. *)
Run(f, m, step, t) == f[0] = t /\ \A k \in 1 .. m : f[k] = step[<<k, f[k - 1]>>]

LEMMA RunExists ==
  ASSUME NEW n \in Nat, NEW T, NEW t \in T, NEW step \in [(1 .. n) \X T -> T]
  PROVE  \E f \in [0 .. n -> T] : Run(f, n, step, t)
<1>. DEFINE Without == {m \in 0 .. n : ~ \E f \in [0 .. m -> T] : Run(f, m, step, t)}
<1>1. SUFFICES ASSUME Without # {} PROVE FALSE
  OBVIOUS
<1>2. PICK m \in Without : \A j \in Without : m <= j
  <2>1. Without \subseteq Nat
    OBVIOUS
  <2> HIDE DEF Without
  <2> QED
    BY <1>1, <2>1, LeastOf
<1>3. CASE m = 0
  <2>1. [k \in 0 .. 0 |-> t] \in [0 .. m -> T] /\ Run([k \in 0 .. 0 |-> t], m, step, t)
    BY <1>3 DEF Run
  <2> QED
    BY <2>1
<1>4. CASE m # 0
  <2>1. m \in 1 .. n /\ m - 1 \in 0 .. n /\ m - 1 \notin Without
    BY <1>2, <1>4
  <2>2. PICK f \in [0 .. m - 1 -> T] : Run(f, m - 1, step, t)
    BY <2>1
  <2>3. PICK g : g = [k \in 0 .. m |-> IF k = m THEN step[<<m, f[m - 1]>>] ELSE f[k]]
    OBVIOUS
  <2>4. f[m - 1] \in T /\ <<m, f[m - 1]>> \in (1 .. n) \X T
    BY <2>1, <2>2
  <2>5. g \in [0 .. m -> T]
    BY <2>1, <2>3, <2>4
  <2>6. g[0] = t
    BY <2>1, <2>2, <2>3 DEF Run
  <2>7. ASSUME NEW k \in 1 .. m PROVE g[k] = step[<<k, g[k - 1]>>]
    <3>1. CASE k = m
      <4>1. g[m] = step[<<m, f[m - 1]>>] /\ g[m - 1] = f[m - 1]
        BY <2>1, <2>3
      <4> QED
        BY <3>1, <4>1
    <3>2. CASE k # m
      <4>1. k \in 1 .. m - 1 /\ k - 1 \in 0 .. m - 1
        BY <2>1, <3>2
      <4>2. g[k] = f[k] /\ g[k - 1] = f[k - 1]
        BY <2>1, <2>3, <4>1
      <4> QED
        BY <2>2, <4>1, <4>2 DEF Run
    <3> QED
      BY <3>1, <3>2
  <2>8. Run(g, m, step, t)
    BY <2>6, <2>7 DEF Run
  <2> QED
    BY <2>5, <2>8
<1> QED
  BY <1>3, <1>4

(* A pattern as scan_chunk cuts it: all chunks but the first have a star. *)
Chunk(C) == [star : BOOLEAN, bad : BOOLEAN, items : Seq(SUBSET C)]
IsPattern(pattern, C) ==
  pattern \in Seq(Chunk(C)) /\ \A k \in 2 .. Len(pattern) : pattern[k].star

(* A chunk is put where it may begin, suits and no earlier place does. *)
LEMMA AfterIs ==
  ASSUME NEW C, NEW pattern, IsPattern(pattern, C), NEW name \in Seq(C),
         NEW k \in 1 .. Len(pattern), NEW from \in -1 .. Len(name)
  PROVE  /\ After(pattern, k, name, from) \in -1 .. Len(name)
         /\ After(pattern, k, name, from) # Stuck =>
              /\ from # Stuck
              /\ \E i \in Begins(pattern[k], name, from) :
                   /\ Suits(pattern, k, name, i)
                   /\ After(pattern, k, name, from) = i + Len(pattern[k].items)
                   /\ \A j \in Begins(pattern[k], name, from) : Suits(pattern, k, name, j) => i <= j
         /\ from # Stuck /\ (\E i \in Begins(pattern[k], name, from) : Suits(pattern, k, name, i)) =>
              After(pattern, k, name, from) # Stuck
<1>1. PICK S : S = {i \in Begins(pattern[k], name, from) : Suits(pattern, k, name, i)}
  OBVIOUS
<1>2. PICK l \in Nat : l = Len(pattern[k].items)
  <2>1. pattern[k] \in Chunk(C)
    BY DEF IsPattern
  <2>2. pattern[k].items \in Seq(SUBSET C)
    BY <2>1 DEF Chunk
  <2>3. Len(pattern[k].items) \in Nat
    BY <2>2
  <2> QED
    BY <2>3
<1>3. PICK n \in Nat : n = Len(name)
  OBVIOUS
<1>4. CASE from = Stuck \/ S = {}
  BY <1>1, <1>3, <1>4 DEF After, Stuck
<1>5. CASE from # Stuck /\ S # {}
  <2>1. S \subseteq from .. n /\ from \in Nat
    BY <1>1, <1>3, <1>5 DEF Begins, Stuck
  <2>2. S \subseteq Nat
    BY <2>1
  <2>3. PICK i \in S : i = Least(S) /\ \A j \in S : i <= j
    BY <1>5, <2>2, LeastOf
  <2>4. After(pattern, k, name, from) = i + l
    BY <1>1, <1>2, <1>5, <2>3 DEF After
  <2>5. i \in Begins(pattern[k], name, from) /\ Suits(pattern, k, name, i)
    BY <1>1, <2>3
  <2>6. i \in Nat /\ i + l <= n
    BY <1>2, <1>3, <2>2, <2>3, <2>5 DEF Suits, TakesAt
  <2>7. \A j \in Begins(pattern[k], name, from) : Suits(pattern, k, name, j) => i <= j
    BY <1>1, <2>3
  <2> QED
    BY <1>2, <1>3, <1>5, <2>4, <2>5, <2>6, <2>7 DEF Stuck
<1> QED
  BY <1>4, <1>5

(* The recursion that defines the ends is that of the loop. *)
LEMMA UsedIs ==
  ASSUME NEW C, NEW pattern, IsPattern(pattern, C), NEW name \in Seq(C)
  PROVE  /\ Used(pattern, name) \in [0 .. Len(pattern) -> -1 .. Len(name)]
         /\ Used(pattern, name)[0] = 0
         /\ \A k \in 1 .. Len(pattern) :
              Used(pattern, name)[k] = After(pattern, k, name, Used(pattern, name)[k - 1])
<1>1. PICK n \in Nat, T \in {-1 .. Len(name)} : n = Len(pattern)
  BY DEF IsPattern
<1>2. Len(name) \in Nat /\ 0 \in T
  BY <1>1
<1>. DEFINE Round(k, e) == IF k = 0 THEN 0 ELSE After(pattern, k, name, e)
            step == [x \in (1 .. n) \X T |-> After(pattern, x[1], name, x[2])]
<1>3. step \in [(1 .. n) \X T -> T]
  <2>1. ASSUME NEW x \in (1 .. n) \X T PROVE After(pattern, x[1], name, x[2]) \in T
    <3>1. x[1] \in 1 .. Len(pattern) /\ x[2] \in -1 .. Len(name)
      BY <1>1
    <3> QED
      BY <1>1, <3>1, AfterIs
  <2> QED
    BY <2>1
<1>4. PICK f \in [0 .. n -> T] : Run(f, n, step, 0)
  <2> HIDE DEF step
  <2> QED
    BY <1>2, <1>3, RunExists
<1>5. \A k \in 0 .. n : f[k] = Round(k, f[k - 1])
  <2>1. ASSUME NEW k \in 1 .. n PROVE f[k] = After(pattern, k, name, f[k - 1])
    <3>1. k - 1 \in 0 .. n /\ f[k - 1] \in T
      BY <1>1
    <3>2. step[<<k, f[k - 1]>>] = After(pattern, k, name, f[k - 1])
      BY <3>1
    <3> QED
      BY <1>4, <3>2 DEF Run
  <2>2. f[0] = 0
    BY <1>4 DEF Run
  <2>3. \A k \in 0 .. n : k = 0 \/ k \in 1 .. n
    BY <1>1
  <2> QED
    BY <2>1, <2>2, <2>3
<1> HIDE DEF step
<1>6. f = [k \in 0 .. n |-> Round(k, f[k - 1])]
  BY <1>4, <1>5
<1>7. PICK at : at = Used(pattern, name)
  OBVIOUS
<1>8. at = [k \in 0 .. n |-> Round(k, at[k - 1])]
  BY <1>1, <1>6, <1>7 DEF Used
<1>9. at[0] = 0 /\ \A k \in 1 .. n : at[k] = After(pattern, k, name, at[k - 1])
  <2>1. 0 \in 0 .. n /\ \A k \in 1 .. n : k \in 0 .. n /\ k # 0
    BY <1>1
  <2>2. at[0] = Round(0, at[0 - 1]) /\ \A k \in 1 .. n : at[k] = Round(k, at[k - 1])
    BY <1>8, <2>1
  <2> QED
    BY <2>1, <2>2
<1>10. \A k \in 0 .. n : at[k] \in T
  <2>. DEFINE Without == {k \in 0 .. n : at[k] \notin T}
  <2>1. SUFFICES ASSUME Without # {} PROVE FALSE
    OBVIOUS
  <2>2. PICK m \in Without : \A j \in Without : m <= j
    <3>1. Without \subseteq Nat
      OBVIOUS
    <3> HIDE DEF Without
    <3> QED
      BY <2>1, <3>1, LeastOf
  <2>3. m \in 1 .. n /\ m - 1 \in 0 .. n
    BY <1>1, <1>2, <1>9, <2>2
  <2>4. at[m - 1] \in T
    BY <2>2, <2>3
  <2>5. After(pattern, m, name, at[m - 1]) \in T
    BY <1>1, <2>3, <2>4, AfterIs
  <2> QED
    BY <1>9, <2>2, <2>3, <2>5
<1> QED
  BY <1>1, <1>7, <1>8, <1>9, <1>10

(* A loop that has come to the end was nowhere stuck. *)
LEMMA NeverStuck ==
  ASSUME NEW C, NEW pattern, IsPattern(pattern, C), NEW name \in Seq(C),
         Used(pattern, name)[Len(pattern)] # Stuck
  PROVE  \A k \in 0 .. Len(pattern) : Used(pattern, name)[k] # Stuck
<1>1. PICK n \in Nat, at \in {Used(pattern, name)} : n = Len(pattern)
  BY DEF IsPattern
<1>2. at \in [0 .. n -> -1 .. Len(name)] /\ \A k \in 1 .. n : at[k] = After(pattern, k, name, at[k - 1])
  BY <1>1, UsedIs
<1>3. SUFFICES ASSUME NEW k \in 0 .. n, at[k] = Stuck PROVE FALSE
  BY <1>1
<1>. DEFINE Beyond == {m \in k .. n : at[m] # Stuck}
<1>4. PICK m \in Beyond : \A j \in Beyond : m <= j
  <2>1. Beyond \subseteq Nat /\ n \in Beyond
    BY <1>1, <1>3
  <2> HIDE DEF Beyond
  <2> QED
    BY <2>1, LeastOf
<1>5. m \in 1 .. n /\ m - 1 \in k .. n /\ m - 1 \notin Beyond
  BY <1>1, <1>3, <1>4
<1>6. at[m - 1] = Stuck
  BY <1>5
<1>7. After(pattern, m, name, at[m - 1]) = Stuck
  BY <1>6 DEF After
<1> QED
  BY <1>2, <1>4, <1>5, <1>7

LEMMA MatchedIs ==
  ASSUME NEW pattern, NEW name
  PROVE  GlobMatch(pattern, name).matched <=>
           /\ ~GlobMatch(pattern, name).malformed
           /\ Used(pattern, name)[Len(pattern)] = Len(name)
<1>. DEFINE bad == \E k \in 1 .. Len(pattern) :
                     Met(pattern, Used(pattern, name), k) \/ Left(pattern, Used(pattern, name), k)
            all == ~bad /\ Used(pattern, name)[Len(pattern)] = Len(name)
<1>1. GlobMatch(pattern, name) = [malformed |-> bad, matched |-> all]
  BY Zenon DEF GlobMatch
<1> HIDE DEF bad, all
<1>2. GlobMatch(pattern, name).malformed = bad
  BY <1>1, SMT
<1>3. GlobMatch(pattern, name).matched = all
  BY <1>1, SMT
<1>4. all <=> ~bad /\ Used(pattern, name)[Len(pattern)] = Len(name)
  BY Zenon DEF all
<1> QED
  BY <1>2, <1>3, <1>4, Zenon

(* What glob_match accepts is what the pattern means: however it places    *)
(* the chunks, no rule applies to a topic that its pattern does not fit    *)
(* (access.cpp, glob_match).                                               *)
THEOREM AcceptsWhatIsMeant ==
  ASSUME NEW C, NEW pattern, IsPattern(pattern, C), NEW name \in Seq(C),
         GlobMatch(pattern, name).matched
  PROVE  Means(pattern, name)
<1>1. PICK n \in Nat, at \in {Used(pattern, name)} : n = Len(pattern)
  BY DEF IsPattern
<1>2. /\ at \in [0 .. n -> -1 .. Len(name)] /\ at[0] = 0
      /\ \A k \in 1 .. n : at[k] = After(pattern, k, name, at[k - 1])
  BY <1>1, UsedIs
<1>3. at[n] = Len(name) /\ Len(name) \in Nat
  BY <1>1, MatchedIs
<1>4. \A k \in 0 .. n : at[k] # Stuck
  BY <1>1, <1>3, NeverStuck DEF Stuck
<1>5. at \in [0 .. n -> 0 .. Len(name)]
  BY <1>2, <1>3, <1>4 DEF Stuck
<1>6. ASSUME NEW k \in 1 .. n
      PROVE  \E i \in Begins(pattern[k], name, at[k - 1]) :
               TakesAt(pattern[k], name, i) /\ at[k] = i + Len(pattern[k].items)
  <2>1. k \in 1 .. Len(pattern) /\ k \in 0 .. n /\ k - 1 \in 0 .. n
    BY <1>1
  <2>2. PICK e \in -1 .. Len(name) : e = at[k - 1]
    BY <1>2, <2>1
  <2>3. PICK a : a = After(pattern, k, name, e)
    OBVIOUS
  <2>4. a # Stuck /\ a = at[k]
    BY <1>2, <1>4, <2>1, <2>2, <2>3
  <2>5. \E i \in Begins(pattern[k], name, e) :
          /\ Suits(pattern, k, name, i)
          /\ a = i + Len(pattern[k].items)
          /\ \A j \in Begins(pattern[k], name, e) : Suits(pattern, k, name, j) => i <= j
    BY <2>1, <2>3, <2>4, AfterIs, Zenon
  <2>6. PICK i \in Begins(pattern[k], name, e) :
          Suits(pattern, k, name, i) /\ a = i + Len(pattern[k].items)
    BY <2>5
  <2> QED
    BY <2>2, <2>4, <2>6 DEF Suits
<1>7. Placed(pattern, name, at)
  BY <1>1, <1>2, <1>3, <1>6 DEF Placed
<1> QED
  BY <1>1, <1>5, <1>7 DEF Means

LEMMA MalformedIs ==
  ASSUME NEW pattern, NEW name
  PROVE  GlobMatch(pattern, name).malformed <=> \E k \in 1 .. Len(pattern) : pattern[k].bad
<1>. DEFINE bad == \E k \in 1 .. Len(pattern) :
                     Met(pattern, Used(pattern, name), k) \/ Left(pattern, Used(pattern, name), k)
            all == ~bad /\ Used(pattern, name)[Len(pattern)] = Len(name)
<1>1. bad <=> \E k \in 1 .. Len(pattern) : pattern[k].bad
  BY DEF Met, Left
<1>2. GlobMatch(pattern, name) = [malformed |-> bad, matched |-> all]
  BY Zenon DEF GlobMatch
<1> HIDE DEF bad, all
<1>3. GlobMatch(pattern, name).malformed = bad
  BY <1>2, SMT
<1> QED
  BY <1>1, <1>3, Zenon

(* A placement of a chunk behind what ends at f; and an end e that is no   *)
(* later than f, with no slash in between.                                 *)
Goes(pattern, k, name, f, q) ==
  /\ q \in Begins(pattern[k], name, f) /\ TakesAt(pattern[k], name, q)
  /\ k = Len(pattern) => q + Len(pattern[k].items) = Len(name)
Ahead(name, e, f) ==
  /\ e \in 0 .. Len(name) /\ f \in 0 .. Len(name)
  /\ e <= f /\ \A j \in e + 1 .. f : name[j] # "/"

(* Being ahead of a placement never costs the match: the next chunk is     *)
(* placed too, and what is used then is again ahead.                       *)
LEMMA StaysAhead ==
  ASSUME NEW C, NEW pattern, IsPattern(pattern, C), SlashesPlain(pattern), NEW name \in Seq(C),
         NEW k \in 1 .. Len(pattern), NEW e, NEW f, Ahead(name, e, f),
         ~pattern[k].star => e = f,
         NEW q, Goes(pattern, k, name, f, q)
  PROVE  /\ Ahead(name, After(pattern, k, name, e), q + Len(pattern[k].items))
         /\ k = Len(pattern) => After(pattern, k, name, e) = Len(name)
<1>1. PICK c : c = pattern[k]
  OBVIOUS
<1>2. c.items \in Seq(SUBSET C)
  <2>1. pattern[k] \in Chunk(C)
    BY DEF IsPattern
  <2> QED
    BY <1>1, <2>1 DEF Chunk
<1>3. PICK l \in Nat : l = Len(c.items)
  BY <1>2
<1>4. PICK N \in Nat : N = Len(name)
  OBVIOUS
<1>5. /\ q \in f .. N /\ (c.star \/ q = f) /\ \A j \in f + 1 .. q : name[j] # "/"
      /\ e \in 0 .. N /\ f \in 0 .. N /\ e <= f /\ \A j \in e + 1 .. f : name[j] # "/"
      /\ q + l <= N /\ TakesAt(c, name, q)
  BY <1>1, <1>3, <1>4 DEF Begins, Goes, Ahead, TakesAt
<1>6. q \in Begins(c, name, e)
  <2>1. q \in e .. N /\ (c.star \/ q = e)
    BY <1>1, <1>4, <1>5
  <2>2. \A j \in e + 1 .. q : j \in e + 1 .. f \/ j \in f + 1 .. q
    BY <1>4, <1>5
  <2> QED
    BY <1>4, <1>5, <2>1, <2>2 DEF Begins
<1>7. Suits(pattern, k, name, q)
  BY DEF Suits, Goes
<1>8. PICK a : a = After(pattern, k, name, e)
  OBVIOUS
<1>9. e \in -1 .. Len(name) /\ e # Stuck
  BY <1>4, <1>5 DEF Stuck
<1>10. a # Stuck
  <2>1. \E i \in Begins(pattern[k], name, e) : Suits(pattern, k, name, i)
    BY <1>1, <1>6, <1>7
  <2>2. After(pattern, k, name, e) # Stuck
    BY <1>9, <2>1, AfterIs, SMT
  <2> QED
    BY <1>8, <2>2
<1>11. \E i \in Begins(c, name, e) :
         /\ Suits(pattern, k, name, i)
         /\ a = i + Len(c.items)
         /\ \A j \in Begins(c, name, e) : Suits(pattern, k, name, j) => i <= j
  BY <1>1, <1>8, <1>9, <1>10, AfterIs, Zenon
<1>12. PICK p \in Begins(c, name, e) : Suits(pattern, k, name, p) /\ a = p + l /\ p <= q
  BY <1>3, <1>6, <1>7, <1>11
<1>13. /\ p \in e .. N /\ (c.star \/ p = e)
       /\ (c.star \/ q = e) /\ \A j \in e + 1 .. q : name[j] # "/"
  BY <1>4, <1>6, <1>12 DEF Begins
<1>14. /\ \A m \in 1 .. l : name[p + m] \in c.items[m]
       /\ \A m \in 1 .. l : name[q + m] \in c.items[m]
  BY <1>1, <1>3, <1>5, <1>12 DEF Suits, TakesAt
<1>15. k = Len(pattern) => a = N
  BY <1>1, <1>3, <1>4, <1>12 DEF Suits
<1>16. ASSUME NEW j \in a + 1 .. q + l, name[j] = "/" PROVE FALSE
  <2>1. p < q /\ c.star
    <3>1. a + 1 <= q + l
      BY <1>3, <1>4, <1>5, <1>12, <1>13, <1>16
    <3>2. p < q
      BY <1>3, <1>4, <1>5, <1>12, <1>13, <3>1
    <3> QED
      BY <1>13, <3>2
  <2>2. k # Len(pattern)
    BY <1>1, <1>3, <1>4, <1>5, <1>12, <1>15, <1>16
  <2>. DEFINE Slashes == {m \in 1 .. l : name[q + m] = "/"}
  <2>3. j - q \in Slashes
    <3>1. j \in Int /\ j > e /\ j <= q + l
      BY <1>3, <1>4, <1>5, <1>12, <1>13
    <3>2. j > q
      BY <1>4, <1>5, <1>13, <1>16, <3>1
    <3>3. q + (j - q) = j /\ j - q \in 1 .. l
      BY <1>3, <1>4, <1>5, <3>1, <3>2
    <3> QED
      BY <1>16, <3>3
  <2>4. PICK m \in Slashes : \A i \in Slashes : m <= i
    <3>1. Slashes \subseteq Nat /\ Slashes # {}
      BY <1>3, <2>3
    <3> HIDE DEF Slashes
    <3> QED
      BY <3>1, LeastOf
  <2>5. m \in 1 .. l /\ name[q + m] = "/"
    BY <2>4
  <2>6. c.items[m] = {"/"}
    <3>1. m \in DOMAIN c.items /\ k \in 1 .. Len(pattern) - 1
      BY <1>2, <1>3, <2>2, <2>5
    <3>2. "/" \in c.items[m]
      BY <1>14, <2>5
    <3> QED
      BY <1>1, <2>1, <3>1, <3>2 DEF SlashesPlain
  <2>7. name[p + m] = "/"
    BY <1>14, <2>5, <2>6
  <2>8. p + m \in Int /\ p + m > e
    BY <1>3, <1>4, <1>5, <1>13, <2>5
  <2>9. p + m > q
    BY <1>4, <1>5, <1>13, <2>7, <2>8
  <2>10. p + m - q \in 1 .. l /\ q + (p + m - q) = p + m /\ p + m - q < m
    BY <1>3, <1>4, <1>5, <1>13, <2>1, <2>5, <2>8, <2>9
  <2>11. p + m - q \in Slashes
    BY <2>7, <2>10
  <2>12. m <= p + m - q
    BY <2>4, <2>11
  <2> QED
    BY <1>3, <2>5, <2>10, <2>12
<1>17. a <= q + l /\ a \in 0 .. N /\ q + l \in 0 .. N
  BY <1>3, <1>4, <1>5, <1>12, <1>13
<1>18. Ahead(name, a, q + l)
  BY <1>4, <1>16, <1>17 DEF Ahead
<1> QED
  BY <1>1, <1>3, <1>4, <1>8, <1>15, <1>18

(* Never going back to a chunk that is placed (glob_match) loses no match: *)
(* a well-formed pattern in which no class between two stars takes a slash *)
(* matches every name that it means.                                       *)
THEOREM MeantIsAccepted ==
  ASSUME NEW C, NEW pattern, IsPattern(pattern, C), SlashesPlain(pattern),
         \A k \in 1 .. Len(pattern) : ~pattern[k].bad,
         NEW name \in Seq(C), Means(pattern, name)
  PROVE  GlobMatch(pattern, name).matched
<1>1. PICK n \in Nat : n = Len(pattern)
  BY DEF IsPattern
<1>2. PICK N \in Nat : N = Len(name)
  OBVIOUS
<1>3. PICK at : at = Used(pattern, name)
  OBVIOUS
<1>4. /\ at \in [0 .. n -> -1 .. N] /\ at[0] = 0
      /\ \A k \in 1 .. n : at[k] = After(pattern, k, name, at[k - 1])
  BY <1>1, <1>2, <1>3, UsedIs
<1>5. PICK b \in [0 .. n -> 0 .. N] : Placed(pattern, name, b)
  BY <1>1, <1>2 DEF Means
<1>6. /\ b[0] = 0 /\ b[n] = N
      /\ \A k \in 1 .. n :
           \E i \in Begins(pattern[k], name, b[k - 1]) :
             TakesAt(pattern[k], name, i) /\ b[k] = i + Len(pattern[k].items)
  BY <1>1, <1>2, <1>5 DEF Placed
<1>. DEFINE Holds(k) == Ahead(name, at[k], b[k]) /\ (k = n => at[k] = N)
            Behind == {k \in 0 .. n : ~Holds(k)}
<1>7. Holds(0)
  BY <1>1, <1>2, <1>4, <1>6 DEF Ahead
<1>8. ASSUME NEW k \in 1 .. n, Ahead(name, at[k - 1], b[k - 1]) PROVE Holds(k)
  <2>1. k - 1 \in 0 .. n /\ k \in 1 .. Len(pattern)
    BY <1>1
  <2>2. PICK e : e = at[k - 1]
    OBVIOUS
  <2>3. PICK f : f = b[k - 1]
    OBVIOUS
  <2>4. Ahead(name, e, f)
    BY <1>8, <2>2, <2>3
  <2>5. ~pattern[k].star => e = f
    <3>1. CASE k = 1
      BY <1>4, <1>6, <2>2, <2>3, <3>1
    <3>2. CASE k # 1
      <4>1. k \in 2 .. Len(pattern)
        BY <2>1, <3>2
      <4> QED
        BY <4>1 DEF IsPattern
    <3> QED
      BY <3>1, <3>2
  <2>6. PICK q \in Begins(pattern[k], name, f) :
          TakesAt(pattern[k], name, q) /\ b[k] = q + Len(pattern[k].items)
    BY <1>6, <2>3
  <2>7. Goes(pattern, k, name, f, q)
    BY <1>1, <1>2, <1>6, <2>6 DEF Goes
  <2>8. /\ Ahead(name, After(pattern, k, name, e), q + Len(pattern[k].items))
        /\ k = Len(pattern) => After(pattern, k, name, e) = Len(name)
    BY <2>1, <2>4, <2>5, <2>7, StaysAhead, Zenon
  <2>9. at[k] = After(pattern, k, name, e)
    BY <1>4, <2>2
  <2> QED
    BY <1>1, <1>2, <2>6, <2>8, <2>9
<1>9. Behind = {}
  <2>1. SUFFICES ASSUME Behind # {} PROVE FALSE
    OBVIOUS
  <2>2. PICK m \in Behind : \A j \in Behind : m <= j
    <3>1. Behind \subseteq Nat
      OBVIOUS
    <3> HIDE DEF Behind
    <3> QED
      BY <2>1, <3>1, LeastOf
  <2>3. m \in 0 .. n /\ ~Holds(m)
    BY <2>2
  <2>4. m \in 1 .. n /\ m - 1 \in 0 .. n
    <3> HIDE DEF Holds
    <3> QED
      BY <1>7, <2>3
  <2>5. Holds(m - 1)
    BY <2>2, <2>4
  <2>6. Ahead(name, at[m - 1], b[m - 1])
    BY <2>5
  <2> HIDE DEF Holds
  <2> QED
    BY <1>8, <2>3, <2>4, <2>6
<1>10. at[n] = N
  BY <1>1, <1>9
<1> QED
  BY <1>1, <1>2, <1>3, <1>10, MatchedIs, MalformedIs

(* A rule whose pattern glob_match decides. *)
Decided(rule, C) ==
  /\ IsPattern(rule.pattern, C) /\ SlashesPlain(rule.pattern)
  /\ \A k \in 1 .. Len(rule.pattern) : ~rule.pattern[k].bad

(* AccessPolicy::allows: a permission is granted by the first rule whose   *)
(* pattern means the topic, and by no other.                               *)
THEOREM FirstMeantDecides ==
  ASSUME NEW C, NEW R, \A r \in R : Decided(r, C), NEW rules \in Seq(R),
         NEW topic \in Seq(C), NEW perm \in Permissions
  PROVE  Allows(rules, topic, perm) <=>
           \E i \in DOMAIN rules :
             /\ Means(rules[i].pattern, topic)
             /\ perm \in rules[i].allow
             /\ \A j \in 1 .. i - 1 : ~Means(rules[j].pattern, topic)
<1>1. ASSUME NEW i \in DOMAIN rules
      PROVE  GlobMatch(rules[i].pattern, topic).matched <=> Means(rules[i].pattern, topic)
  <2>1. PICK p : p = rules[i].pattern
    OBVIOUS
  <2>2. Decided(rules[i], C)
    OBVIOUS
  <2>3. IsPattern(p, C) /\ SlashesPlain(p) /\ \A k \in 1 .. Len(p) : ~p[k].bad
    BY <2>1, <2>2 DEF Decided
  <2>4. GlobMatch(p, topic).matched => Means(p, topic)
    BY <2>3, AcceptsWhatIsMeant, Zenon
  <2>5. Means(p, topic) => GlobMatch(p, topic).matched
    BY <2>3, MeantIsAccepted, Zenon
  <2> QED
    BY <2>1, <2>4, <2>5
<1>2. \A i \in DOMAIN rules : \A j \in 1 .. i - 1 : j \in DOMAIN rules
  OBVIOUS
<1>. DEFINE First(i) == /\ GlobMatch(rules[i].pattern, topic).matched
                        /\ perm \in rules[i].allow
                        /\ \A j \in 1 .. i - 1 : ~GlobMatch(rules[j].pattern, topic).matched
            Meant(i) == /\ Means(rules[i].pattern, topic)
                        /\ perm \in rules[i].allow
                        /\ \A j \in 1 .. i - 1 : ~Means(rules[j].pattern, topic)
<1>3. \A i \in DOMAIN rules : First(i) <=> Meant(i)
  BY <1>1, <1>2
<1>4. Allows(rules, topic, perm) <=> \E i \in DOMAIN rules : First(i)
  BY Zenon DEF Allows
<1> QED
  BY <1>3, <1>4, Zenon

-----------------------------------------------------------------------------
(* Cdr: bytes are numbers below Radix, and there is more than one of them. *)
Byte == 0 .. Radix - 1
ByteRadix == Radix \in Nat /\ Radix >= 2

LEMMA DivModRadix ==
  ASSUME ByteRadix, NEW v \in Nat
  PROVE  /\ v \div Radix \in Nat /\ v % Radix \in Byte
         /\ v = (v \div Radix) * Radix + (v % Radix)
BY DEF ByteRadix, Byte

LEMMA ShiftsAre ==
  ASSUME ByteRadix, NEW v \in Nat, NEW n \in Nat
  PROVE  /\ Shifts(v, n) \in [0 .. n -> Nat]
         /\ Shifts(v, n)[0] = v
         /\ \A i \in 1 .. n : Shifts(v, n)[i] = Shifts(v, n)[i - 1] \div Radix
<1>. DEFINE Round(i, e) == IF i = 0 THEN v ELSE e \div Radix
            step == [x \in (1 .. n) \X Nat |-> x[2] \div Radix]
<1>1. step \in [(1 .. n) \X Nat -> Nat]
  <2>1. ASSUME NEW x \in (1 .. n) \X Nat PROVE x[2] \div Radix \in Nat
    <3>1. x[2] \in Nat
      OBVIOUS
    <3> QED
      BY <3>1, DivModRadix
  <2> QED
    BY <2>1
<1>2. PICK f \in [0 .. n -> Nat] : Run(f, n, step, v)
  <2> HIDE DEF step
  <2> QED
    BY <1>1, RunExists
<1>3. \A i \in 0 .. n : f[i] = Round(i, f[i - 1])
  <2>1. ASSUME NEW i \in 1 .. n PROVE f[i] = f[i - 1] \div Radix
    <3>1. i - 1 \in 0 .. n /\ f[i - 1] \in Nat
      OBVIOUS
    <3>2. step[<<i, f[i - 1]>>] = f[i - 1] \div Radix
      BY <3>1
    <3> QED
      BY <1>2, <3>2 DEF Run
  <2>2. f[0] = v
    BY <1>2 DEF Run
  <2> QED
    BY <2>1, <2>2
<1> HIDE DEF step
<1>4. f = [i \in 0 .. n |-> Round(i, f[i - 1])]
  BY <1>2, <1>3
<1>5. PICK r : r = Shifts(v, n)
  OBVIOUS
<1>6. r = [i \in 0 .. n |-> Round(i, r[i - 1])]
  BY <1>4, <1>5 DEF Shifts
<1>7. r[0] = v /\ \A i \in 1 .. n : r[i] = r[i - 1] \div Radix
  <2>1. 0 \in 0 .. n /\ \A i \in 1 .. n : i \in 0 .. n /\ i # 0
    OBVIOUS
  <2>2. r[0] = Round(0, r[0 - 1]) /\ \A i \in 1 .. n : r[i] = Round(i, r[i - 1])
    BY <1>6, <2>1
  <2> QED
    BY <2>1, <2>2
<1>8. \A i \in 0 .. n : r[i] \in Nat
  <2>. DEFINE Without == {i \in 0 .. n : r[i] \notin Nat}
  <2>1. SUFFICES ASSUME Without # {} PROVE FALSE
    OBVIOUS
  <2>2. PICK m \in Without : \A j \in Without : m <= j
    <3>1. Without \subseteq Nat
      OBVIOUS
    <3> HIDE DEF Without
    <3> QED
      BY <2>1, <3>1, LeastOf
  <2>3. m \in 1 .. n /\ m - 1 \in 0 .. n /\ m - 1 \notin Without
    BY <1>7, <2>2
  <2>4. r[m - 1] \in Nat
    BY <2>3
  <2> QED
    BY <1>7, <2>2, <2>3, <2>4, DivModRadix
<1> QED
  BY <1>5, <1>6, <1>7, <1>8

Numbers(s, pos, n) == \A i \in 1 .. n : s[pos + i] \in Nat

AreSums(w, s, pos, n) ==
  /\ w \in [0 .. n -> Nat] /\ w[0] = 0
  /\ \A i \in 1 .. n : w[i] = w[i - 1] * Radix + s[pos + n - i + 1]

LEMMA SumsAre ==
  ASSUME ByteRadix, NEW s, NEW pos \in Nat, NEW n \in Nat, Numbers(s, pos, n)
  PROVE  AreSums(Sums(s, pos, n), s, pos, n)
<1>. DEFINE Round(i, e) == IF i = 0 THEN 0 ELSE e * Radix + s[pos + n - i + 1]
            step == [x \in (1 .. n) \X Nat |-> x[2] * Radix + s[pos + n - x[1] + 1]]
<1>0. ASSUME NEW i \in 1 .. n, NEW e \in Nat PROVE e * Radix + s[pos + n - i + 1] \in Nat
  <2>1. n - i + 1 \in 1 .. n /\ pos + (n - i + 1) = pos + n - i + 1
    OBVIOUS
  <2>2. s[pos + n - i + 1] \in Nat
    BY <2>1 DEF Numbers
  <2>3. e * Radix \in Nat
    BY DEF ByteRadix
  <2> QED
    BY <2>2, <2>3
<1>1. step \in [(1 .. n) \X Nat -> Nat]
  <2>1. ASSUME NEW x \in (1 .. n) \X Nat PROVE x[2] * Radix + s[pos + n - x[1] + 1] \in Nat
    <3>1. x[1] \in 1 .. n /\ x[2] \in Nat
      OBVIOUS
    <3> QED
      BY <1>0, <3>1
  <2> QED
    BY <2>1
<1>2. PICK f \in [0 .. n -> Nat] : Run(f, n, step, 0)
  <2> HIDE DEF step
  <2> QED
    BY <1>1, RunExists
<1>3. \A i \in 0 .. n : f[i] = Round(i, f[i - 1])
  <2>1. ASSUME NEW i \in 1 .. n PROVE f[i] = f[i - 1] * Radix + s[pos + n - i + 1]
    <3>1. i - 1 \in 0 .. n /\ f[i - 1] \in Nat
      OBVIOUS
    <3>2. step[<<i, f[i - 1]>>] = f[i - 1] * Radix + s[pos + n - i + 1]
      BY <3>1
    <3> QED
      BY <1>2, <3>2 DEF Run
  <2>2. f[0] = 0
    BY <1>2 DEF Run
  <2> QED
    BY <2>1, <2>2
<1> HIDE DEF step
<1>4. f = [i \in 0 .. n |-> Round(i, f[i - 1])]
  BY <1>2, <1>3
<1>5. PICK r : r = Sums(s, pos, n)
  OBVIOUS
<1>6. r = [i \in 0 .. n |-> Round(i, r[i - 1])]
  BY <1>4, <1>5 DEF Sums
<1>7. r[0] = 0 /\ \A i \in 1 .. n : r[i] = r[i - 1] * Radix + s[pos + n - i + 1]
  <2>1. 0 \in 0 .. n /\ \A i \in 1 .. n : i \in 0 .. n /\ i # 0
    OBVIOUS
  <2>2. r[0] = Round(0, r[0 - 1]) /\ \A i \in 1 .. n : r[i] = Round(i, r[i - 1])
    BY <1>6, <2>1
  <2> QED
    BY <2>1, <2>2
<1>8. \A i \in 0 .. n : r[i] \in Nat
  <2>. DEFINE Without == {i \in 0 .. n : r[i] \notin Nat}
  <2>1. SUFFICES ASSUME Without # {} PROVE FALSE
    OBVIOUS
  <2>2. PICK m \in Without : \A j \in Without : m <= j
    <3>1. Without \subseteq Nat
      OBVIOUS
    <3> HIDE DEF Without
    <3> QED
      BY <2>1, <3>1, LeastOf
  <2>3. m \in 1 .. n /\ m - 1 \in 0 .. n /\ m - 1 \notin Without
    BY <1>7, <2>2
  <2>4. r[m - 1] \in Nat
    BY <2>3
  <2> QED
    BY <1>0, <1>7, <2>2, <2>3, <2>4
<1> QED
  BY <1>5, <1>6, <1>7, <1>8 DEF AreSums

(* What sums the rests of the divisions undoes them. *)
LEMMA WordIs ==
  ASSUME ByteRadix, NEW n \in Nat, NEW r \in [0 .. n -> Nat], r[n] = 0,
         \A i \in 1 .. n : r[i] = r[i - 1] \div Radix,
         NEW s, NEW pos \in Nat, \A i \in 1 .. n : s[pos + i] = r[i - 1] % Radix
  PROVE  Word(s, pos, n) = r[0]
<1>1. Numbers(s, pos, n)
  <2>1. ASSUME NEW i \in 1 .. n PROVE s[pos + i] \in Nat
    <3>1. r[i - 1] \in Nat /\ s[pos + i] = r[i - 1] % Radix
      OBVIOUS
    <3> QED
      BY <3>1, DivModRadix DEF Byte
  <2> QED
    BY <2>1 DEF Numbers
<1>2. PICK w : w = Sums(s, pos, n)
  OBVIOUS
<1>3. /\ w \in [0 .. n -> Nat] /\ w[0] = 0
      /\ \A i \in 1 .. n : w[i] = w[i - 1] * Radix + s[pos + n - i + 1]
  <2>1. AreSums(Sums(s, pos, n), s, pos, n)
    BY <1>1, SumsAre, Zenon
  <2> QED
    BY <1>2, <2>1 DEF AreSums
<1>4. \A i \in 0 .. n : w[i] = r[n - i]
  <2>. DEFINE Without == {i \in 0 .. n : w[i] # r[n - i]}
  <2>1. SUFFICES ASSUME Without # {} PROVE FALSE
    OBVIOUS
  <2>2. PICK m \in Without : \A j \in Without : m <= j
    <3>1. Without \subseteq Nat
      OBVIOUS
    <3> HIDE DEF Without
    <3> QED
      BY <2>1, <3>1, LeastOf
  <2>3. m \in 1 .. n /\ m - 1 \in 0 .. n /\ m - 1 \notin Without
    BY <1>3, <2>2
  <2>4. PICK a \in Nat : a = r[n - m]
    BY <2>3
  <2>5. w[m - 1] = a \div Radix
    <3>1. w[m - 1] = r[n - (m - 1)]
      BY <2>3
    <3>2. PICK i \in 1 .. n : i = n - (m - 1) /\ i - 1 = n - m
      BY <2>3
    <3> QED
      BY <2>4, <3>1, <3>2
  <2>6. s[pos + n - m + 1] = a % Radix
    <3>1. PICK i \in 1 .. n : i = n - m + 1 /\ pos + i = pos + n - m + 1 /\ i - 1 = n - m
      BY <2>3
    <3> QED
      BY <2>4, <3>1
  <2>7. w[m] = (a \div Radix) * Radix + (a % Radix)
    BY <1>3, <2>3, <2>5, <2>6
  <2>8. w[m] = a
    BY <2>7, DivModRadix
  <2> QED
    BY <2>2, <2>4, <2>8
<1> QED
  BY <1>2, <1>3, <1>4 DEF Word

(* A number that n bytes hold is read back from them. *)
LEMMA WordBack ==
  ASSUME ByteRadix, NEW v \in Nat, NEW n \in Nat, Shifts(v, n)[n] = 0,
         NEW s, NEW pos \in Nat, \A i \in 1 .. n : s[pos + i] = LittleEndian(v, n)[i]
  PROVE  Word(s, pos, n) = v
<1>1. PICK r : r = Shifts(v, n)
  OBVIOUS
<1>2. r \in [0 .. n -> Nat] /\ r[0] = v /\ \A i \in 1 .. n : r[i] = r[i - 1] \div Radix
  <2>1. /\ Shifts(v, n) \in [0 .. n -> Nat] /\ Shifts(v, n)[0] = v
        /\ \A i \in 1 .. n : Shifts(v, n)[i] = Shifts(v, n)[i - 1] \div Radix
    BY ShiftsAre, Zenon
  <2> QED
    BY <1>1, <2>1
<1>3. \A i \in 1 .. n : s[pos + i] = r[i - 1] % Radix
  BY <1>1 DEF LittleEndian
<1>4. r[n] = 0
  BY <1>1
<1> QED
  BY <1>2, <1>3, <1>4, WordIs, Zenon

-----------------------------------------------------------------------------
(* n shifts leave nothing of v: n bytes hold it. *)
FitsIn(v, n) == v \in Nat /\ Shifts(v, n)[n] = 0

LEMMA LittleEndianIs ==
  ASSUME ByteRadix, NEW v \in Nat, NEW n \in Nat
  PROVE  LittleEndian(v, n) \in Seq(Byte) /\ Len(LittleEndian(v, n)) = n
<1>1. PICK r : r = Shifts(v, n)
  OBVIOUS
<1>2. r \in [0 .. n -> Nat]
  BY <1>1, ShiftsAre, Zenon
<1>3. ASSUME NEW i \in 1 .. n PROVE r[i - 1] % Radix \in Byte
  <2>1. r[i - 1] \in Nat
    BY <1>2
  <2> QED
    BY <2>1, DivModRadix
<1>4. PICK q : q = [i \in 1 .. n |-> r[i - 1] % Radix]
  OBVIOUS
<1>5. q \in [1 .. n -> Byte]
  BY <1>3, <1>4
<1>6. q \in Seq(Byte) /\ Len(q) = n
  BY <1>5, SeqDef
<1> QED
  BY <1>1, <1>4, <1>6 DEF LittleEndian

LEMMA ZerosAre == ASSUME ByteRadix, NEW n \in Nat PROVE Zeros(n) \in Seq(Byte) /\ Len(Zeros(n)) = n
<1>1. PICK z : z = [i \in 1 .. n |-> 0]
  OBVIOUS
<1>2. z \in [1 .. n -> Byte]
  BY <1>1 DEF ByteRadix, Byte
<1>3. z \in Seq(Byte) /\ Len(z) = n
  BY <1>2, SeqDef
<1> QED
  BY <1>1, <1>3 DEF Zeros

(* t is what was written behind buf. *)
Behind(new, buf, t) ==
  /\ new \in Seq(Byte) /\ Len(new) = Len(buf) + Len(t)
  /\ \A i \in 1 .. Len(buf) : new[i] = buf[i]
  /\ \A i \in 1 .. Len(t) : new[Len(buf) + i] = t[i]

LEMMA Written ==
  ASSUME NEW buf \in Seq(Byte), NEW t \in Seq(Byte)
  PROVE  Behind(buf \o t, buf, t)
<1>1. buf \o t \in Seq(Byte) /\ Len(buf \o t) = Len(buf) + Len(t)
  OBVIOUS
<1>2. ASSUME NEW i \in 1 .. Len(t) PROVE (buf \o t)[Len(buf) + i] = t[i]
  OBVIOUS
<1>3. ASSUME NEW i \in 1 .. Len(buf) PROVE (buf \o t)[i] = buf[i]
  OBVIOUS
<1> QED
  BY <1>1, <1>2, <1>3 DEF Behind

(* new has what buf has, and maybe more. *)
Grows(new, buf) ==
  /\ new \in Seq(Byte) /\ buf \in Seq(Byte) /\ Len(buf) <= Len(new)
  /\ \A i \in 1 .. Len(buf) : new[i] = buf[i]

LEMMA Growing ==
  ASSUME NEW a, NEW b, NEW c, Grows(c, b), Grows(b, a)
  PROVE  Grows(c, a)
BY DEF Grows

LEMMA WrittenGrows ==
  ASSUME NEW buf \in Seq(Byte), NEW t \in Seq(Byte)
  PROVE  Grows(buf \o t, buf) /\ Len(buf \o t) = Len(buf) + Len(t)
<1>1. PICK new : new = buf \o t
  OBVIOUS
<1>2. Behind(new, buf, t)
  BY <1>1, Written
<1> QED
  BY <1>1, <1>2 DEF Behind, Grows

(* s has the bytes of new as far as it goes. *)
Cut(s, new) == s \in Seq(Byte) /\ \A i \in 1 .. Len(s) : i <= Len(new) => s[i] = new[i]

LEMMA CutOfPart ==
  ASSUME NEW new, NEW buf, Grows(new, buf), NEW s, Cut(s, new)
  PROVE  Cut(s, buf)
BY DEF Grows, Cut

LEMMA Aligned ==
  ASSUME ByteRadix, NEW buf \in Seq(Byte), NEW n \in Nat \ {0}
  PROVE  /\ AlignBuffer(buf, n) \in Seq(Byte)
         /\ Len(AlignBuffer(buf, n)) = AlignPos(Len(buf), n)
         /\ AlignPos(Len(buf), n) \in Nat /\ Len(buf) <= AlignPos(Len(buf), n)
         /\ Grows(AlignBuffer(buf, n), buf)
<1>1. PICK l \in Nat : l = Len(buf)
  OBVIOUS
<1>2. PICK pad \in Nat : pad = (n - (l % n)) % n
  <2>1. l % n \in 0 .. n - 1
    OBVIOUS
  <2>2. n - (l % n) \in Nat
    BY <2>1
  <2>3. (n - (l % n)) % n \in Nat
    BY <2>2
  <2> QED
    BY <2>3
<1>3. PICK z \in Seq(Byte) : z = Zeros(pad) /\ Len(z) = pad
  BY ZerosAre
<1>4. PICK a : a = AlignBuffer(buf, n)
  OBVIOUS
<1>5. a = buf \o z
  BY <1>1, <1>2, <1>3, <1>4 DEF AlignBuffer
<1>6. AlignPos(Len(buf), n) = l + pad
  BY <1>1, <1>2 DEF AlignPos
<1>7. Grows(a, buf) /\ Len(a) = l + pad
  BY <1>1, <1>3, <1>5, WrittenGrows
<1>8. a \in Seq(Byte)
  BY <1>7 DEF Grows
<1> QED
  BY <1>1, <1>4, <1>6, <1>7, <1>8

(* e are the n bytes of v. *)
BytesOf(e, v, n) == e = LittleEndian(v, n)

LEMMA NumberBehind ==
  ASSUME ByteRadix, NEW a \in Seq(Byte), NEW n \in Nat, NEW v, FitsIn(v, n),
         NEW e, BytesOf(e, v, n), NEW new, Behind(new, a, e), NEW s, Cut(s, new), Len(new) <= Len(s)
  PROVE  Word(s, Len(a), n) = v
<1>1. e = LittleEndian(v, n) /\ e \in Seq(Byte) /\ Len(e) = n
  BY LittleEndianIs DEF FitsIn, BytesOf
<1>2. Behind(new, a, e)
  OBVIOUS
<1>3. ASSUME NEW i \in 1 .. n PROVE s[Len(a) + i] = LittleEndian(v, n)[i]
  <2>1. Len(a) + i \in 1 .. Len(s) /\ Len(a) + i <= Len(new)
    BY <1>1, <1>2 DEF Behind, Cut
  <2>2. s[Len(a) + i] = new[Len(a) + i]
    BY <2>1 DEF Cut
  <2>3. new[Len(a) + i] = e[i]
    BY <1>1, <1>2 DEF Behind
  <2> QED
    BY <1>1, <2>2, <2>3
<1>4. v \in Nat /\ Shifts(v, n)[n] = 0 /\ Len(a) \in Nat
  BY DEF FitsIn
<1> QED
  BY <1>3, <1>4, WordBack, Zenon

(* new is buf with the number v behind it, in n bytes. *)
WithNumber(new, buf, v, n) == new = AlignBuffer(buf, n) \o LittleEndian(v, n)

(* new ends with the number v, in the n bytes after p. *)
HasNumber(new, p, n, v) ==
  /\ p \in Nat /\ Len(new) = p + n
  /\ \A s : Cut(s, new) =>
       /\ Need(s, p, n) <=> Len(new) <= Len(s)
       /\ Len(new) <= Len(s) => Word(s, p, n) = v

(* A number written behind padding is found and read from the same place,  *)
(* if it is there.                                                         *)
LEMMA NumberBack ==
  ASSUME ByteRadix, NEW buf \in Seq(Byte), NEW n \in Nat \ {0}, NEW v, FitsIn(v, n),
         NEW new, WithNumber(new, buf, v, n)
  PROVE  Grows(new, buf) /\ HasNumber(new, AlignPos(Len(buf), n), n, v)
<1>1. PICK a \in Seq(Byte) : a = AlignBuffer(buf, n)
  BY Aligned
<1>2. PICK p \in Nat : p = AlignPos(Len(buf), n) /\ Len(a) = p /\ Grows(a, buf)
  BY <1>1, Aligned
<1>3. PICK e \in Seq(Byte) : e = LittleEndian(v, n) /\ Len(e) = n
  BY LittleEndianIs DEF FitsIn
<1>4. new = a \o e /\ Behind(new, a, e)
  BY <1>1, <1>3, Written DEF WithNumber
<1>5. Grows(new, a)
  BY <1>4, WrittenGrows
<1>6. Grows(new, buf)
  BY <1>2, <1>5, Growing
<1>7. Len(new) = p + n
  BY <1>2, <1>3, <1>4 DEF Behind
<1>8. ASSUME NEW s, Cut(s, new)
      PROVE  /\ Need(s, p, n) <=> Len(new) <= Len(s)
             /\ Len(new) <= Len(s) => Word(s, p, n) = v
  <2>1. Need(s, p, n) <=> Len(new) <= Len(s)
    BY <1>7 DEF Need
  <2>2. ASSUME Len(new) <= Len(s) PROVE Word(s, p, n) = v
    <3>1. n \in Nat /\ BytesOf(e, v, n) /\ Behind(new, a, e)
      BY <1>3, <1>4 DEF BytesOf
    <3>3. Cut(s, new) /\ Len(new) <= Len(s) /\ a \in Seq(Byte)
      BY <1>8, <2>2
    <3>4. FitsIn(v, n) /\ ByteRadix
      OBVIOUS
    <3>2. Word(s, Len(a), n) = v
      BY <3>1, <3>3, <3>4, NumberBehind, SMT
    <3> QED
      BY <1>2, <3>2
  <2> QED
    BY <2>1, <2>2
<1> QED
  BY <1>2, <1>6, <1>7, <1>8 DEF HasNumber

LEMMA WidthIs == \A type \in Primitives : Width[type] \in Nat \ {0}
BY DEF Primitives, Width

(* What a caller may write: a number that its type holds, and a text or    *)
(* bytes whose length 4 bytes hold.                                        *)
IsNumber(x) ==
  /\ x.type \in Primitives /\ FitsIn(x.v, Width[x.type])
  /\ x.type = "bool" => x.v \in {0, 1}
IsText(x) == x.type = "string" /\ x.v \in Seq(Byte) /\ FitsIn(Len(x.v) + 1, 4)
IsBytes(x) == x.type = "bytes" /\ x.v \in Seq(Byte) /\ FitsIn(Len(x.v), 4)
IsValue(x) == x = [type |-> x.type, v |-> x.v] /\ (IsNumber(x) \/ IsText(x) \/ IsBytes(x))

(* What a read of what was written gives: the value, unless s has lost     *)
(* some of its bytes.                                                      *)
Back(s, r, new, v) ==
  /\ Len(new) <= Len(s) => r = [ok |-> TRUE, pos |-> Len(new), v |-> v]
  /\ Len(new) > Len(s) => r.ok = FALSE

LEMMA PrimitiveBack ==
  ASSUME ByteRadix, NEW buf \in Seq(Byte), NEW type \in Primitives, NEW v, FitsIn(v, Width[type]),
         type = "bool" => v \in {0, 1},
         NEW new, WithNumber(new, buf, v, Width[type])
  PROVE  Grows(new, buf) /\ \A s : Cut(s, new) => Back(s, ReadPrimitive(s, Len(buf), type), new, v)
<1>1. PICK n \in Nat \ {0} : n = Width[type]
  BY WidthIs
<1>2. PICK p : p = AlignPos(Len(buf), n)
  OBVIOUS
<1>3. Grows(new, buf) /\ HasNumber(new, p, n, v)
  <2>1. FitsIn(v, n) /\ WithNumber(new, buf, v, n)
    BY <1>1
  <2>2. Grows(new, buf) /\ HasNumber(new, AlignPos(Len(buf), n), n, v)
    BY <2>1, NumberBack, Zenon
  <2> QED
    BY <1>2, <2>2
<1>4. ASSUME NEW s, Cut(s, new) PROVE Back(s, ReadPrimitive(s, Len(buf), type), new, v)
  <2>1. PICK w : w = Word(s, p, n)
    OBVIOUS
  <2>2. PICK r : r = ReadPrimitive(s, Len(buf), type)
    OBVIOUS
  <2>3. PICK there \in BOOLEAN : there <=> Need(s, p, n)
    OBVIOUS
  <2>4. r = IF ~there THEN Failed(p)
            ELSE [ok |-> TRUE, pos |-> p + n,
                  v |-> IF type = "bool" THEN (IF w # 0 THEN 1 ELSE 0) ELSE w]
    BY <1>1, <1>2, <2>1, <2>2, <2>3 DEF ReadPrimitive
  <2>5. (there <=> Len(new) <= Len(s)) /\ (Len(new) <= Len(s) => w = v)
    BY <1>3, <1>4, <2>1, <2>3 DEF HasNumber
  <2>6. Len(new) \in Nat /\ Len(s) \in Nat
    BY <1>3, <1>4 DEF Cut, HasNumber
  <2>7. ASSUME Len(new) <= Len(s) PROVE r = [ok |-> TRUE, pos |-> Len(new), v |-> v]
    BY <1>3, <2>4, <2>5, <2>7 DEF HasNumber
  <2>8. ASSUME Len(new) > Len(s) PROVE r.ok = FALSE
    BY <2>4, <2>5, <2>6, <2>8 DEF Failed
  <2> QED
    BY <2>2, <2>7, <2>8 DEF Back
<1> QED
  BY <1>3, <1>4

(* Bytes are taken back from where they were written. *)
LEMMA BytesBack ==
  ASSUME NEW h \in Seq(Byte), NEW t \in Seq(Byte), NEW new, Behind(new, h, t),
         NEW s, Cut(s, new), Len(new) <= Len(s)
  PROVE  SubSeq(s, Len(h) + 1, Len(h) + Len(t)) = t
<1>1. PICK p \in Nat, n \in Nat : p = Len(h) /\ n = Len(t)
  OBVIOUS
<1>2. Len(s) \in Nat /\ p + n <= Len(s)
  BY <1>1 DEF Behind, Cut
<1>3. \A i \in 1 .. n : s[p + i] = t[i]
  <2>1. ASSUME NEW i \in 1 .. n PROVE s[p + i] = t[i]
    <3>1. p + i \in 1 .. Len(s) /\ p + i <= Len(new)
      BY <1>1, <1>2 DEF Behind
    <3>2. s[p + i] = new[p + i]
      BY <3>1 DEF Cut
    <3>3. new[p + i] = t[i]
      BY <1>1 DEF Behind
    <3> QED
      BY <3>2, <3>3
  <2> QED
    BY <2>1
<1>4. PICK u : u = SubSeq(s, p + 1, p + n)
  OBVIOUS
<1>5. /\ u \in Seq(Byte) /\ Len(u) = n
      /\ \A i \in 1 .. n : u[i] = s[p + i]
  <2>1. \A i \in p + 1 .. p + n : s[i] \in Byte
    BY <1>2 DEF Cut
  <2>2. /\ u \in Seq(Byte)
        /\ Len(u) = IF p + 1 <= p + n THEN (p + n) - (p + 1) + 1 ELSE 0
        /\ \A i \in 1 .. (p + n) - (p + 1) + 1 : u[i] = s[(p + 1) + i - 1]
    <3>1. p + 1 \in Int /\ p + n \in Int
      OBVIOUS
    <3> QED
      BY <1>4, <2>1, <3>1, SubSeqProperties
  <2>3. Len(u) = n
    <3>1. (p + n) - (p + 1) + 1 = n /\ (p + 1 <= p + n \/ n = 0) /\ (p + 1 <= p + n => n # 0)
      OBVIOUS
    <3> QED
      BY <2>2, <3>1
  <2>4. ASSUME NEW i \in 1 .. n PROVE u[i] = s[p + i]
    <3>1. i \in 1 .. (p + n) - (p + 1) + 1 /\ (p + 1) + i - 1 = p + i
      OBVIOUS
    <3>2. u[i] = s[(p + 1) + i - 1]
      BY <2>2, <3>1
    <3> QED
      BY <3>1, <3>2
  <2> QED
    BY <2>2, <2>3, <2>4
<1>6. u = t
  <2>1. \A i \in 1 .. Len(u) : u[i] = t[i]
    BY <1>3, <1>5
  <2> QED
    BY <1>1, <1>5, <2>1, SeqEqual
<1> QED
  BY <1>1, <1>4, <1>6

LEMMA CountedBack ==
  ASSUME ByteRadix, NEW buf \in Seq(Byte), NEW t \in Seq(Byte), FitsIn(Len(t), 4),
         NEW new, new = Append32(buf, Len(t)) \o t, NEW type
  PROVE  /\ Grows(new, buf)
         /\ \A s : Cut(s, new) => Back(s, ReadCounted(s, Len(buf), type), new,
                                       IF type = "string" THEN WithoutNul(t) ELSE t)
<1>1. PICK h : h = Append32(buf, Len(t))
  OBVIOUS
<1>2. "uint32" \in Primitives /\ Width["uint32"] = 4
  BY DEF Primitives, Width
<1>3. PICK type1 \in Primitives : type1 = "uint32"
  BY <1>2
<1>4. WithNumber(h, buf, Len(t), Width[type1])
  BY <1>1, <1>2, <1>3 DEF WithNumber, Append32
<1>5. Grows(h, buf) /\ \A s : Cut(s, h) => Back(s, ReadPrimitive(s, Len(buf), type1), h, Len(t))
  <2>1. FitsIn(Len(t), Width[type1]) /\ (type1 = "bool" => Len(t) \in {0, 1})
    BY <1>2, <1>3
  <2> QED
    BY <1>4, <2>1, PrimitiveBack, Zenon
<1>6. h \in Seq(Byte)
  BY <1>5 DEF Grows
<1>7. new = h \o t
  BY <1>1
<1>8. Behind(new, h, t) /\ Grows(new, h)
  BY <1>6, <1>7, Written, WrittenGrows
<1>9. Grows(new, buf)
  BY <1>5, <1>8, Growing
<1>10. ASSUME NEW s, Cut(s, new)
       PROVE  Back(s, ReadCounted(s, Len(buf), type), new, IF type = "string" THEN WithoutNul(t) ELSE t)
  <2>1. PICK n : n = ReadPrimitive(s, Len(buf), type1)
    OBVIOUS
  <2>2. PICK r : r = ReadCounted(s, Len(buf), type)
    OBVIOUS
  <2>3. PICK u : u = SubSeq(s, n.pos + 1, n.pos + n.v)
    OBVIOUS
  <2>4. r = IF ~n.ok \/ ~Need(s, n.pos, n.v) THEN Failed(n.pos)
            ELSE [ok |-> TRUE, pos |-> n.pos + n.v, v |-> IF type = "string" THEN WithoutNul(u) ELSE u]
    BY <1>3, <2>1, <2>2, <2>3, Zenon DEF ReadCounted
  <2>5. Back(s, n, h, Len(t))
    <3>1. Cut(s, h)
      BY <1>8, <1>10, CutOfPart
    <3> QED
      BY <1>5, <2>1, <3>1
  <2>6. Len(s) \in Nat /\ Len(h) \in Nat /\ Len(t) \in Nat /\ Len(new) = Len(h) + Len(t)
    BY <1>6, <1>8, <1>10 DEF Cut, Behind
  <2>7. CASE Len(h) > Len(s)
    <3>1. n.ok = FALSE
      BY <2>5, <2>7 DEF Back
    <3>2. r.ok = FALSE
      BY <2>4, <3>1 DEF Failed
    <3>3. Len(new) > Len(s)
      BY <2>6, <2>7
    <3> QED
      BY <2>2, <2>6, <3>2, <3>3 DEF Back
  <2>8. CASE Len(h) <= Len(s)
    <3>1. n = [ok |-> TRUE, pos |-> Len(h), v |-> Len(t)]
      BY <2>5, <2>8 DEF Back
    <3>2. n.ok = TRUE /\ n.pos = Len(h) /\ n.v = Len(t)
      BY <3>1
    <3>3. Need(s, n.pos, n.v) <=> Len(new) <= Len(s)
      BY <2>6, <3>2 DEF Need
    <3>4. ASSUME Len(new) > Len(s) PROVE r.ok = FALSE
      BY <2>4, <2>6, <3>3, <3>4 DEF Failed
    <3>5. ASSUME Len(new) <= Len(s)
          PROVE  r = [ok |-> TRUE, pos |-> Len(new), v |-> IF type = "string" THEN WithoutNul(t) ELSE t]
      <4>1. u = t
        <5>1. SubSeq(s, Len(h) + 1, Len(h) + Len(t)) = t
          BY <1>6, <1>8, <1>10, <3>5, BytesBack
        <5> QED
          BY <2>3, <3>2, <5>1
      <4>2. n.pos + n.v = Len(new)
        BY <2>6, <3>2
      <4> QED
        BY <2>4, <3>2, <3>3, <3>5, <4>1, <4>2
    <3> QED
      BY <2>2, <3>4, <3>5 DEF Back
  <2> QED
    BY <2>6, <2>7, <2>8
<1> QED
  BY <1>9, <1>10

LEMMA WithNul ==
  ASSUME ByteRadix, NEW t \in Seq(Byte)
  PROVE  t \o <<0>> \in Seq(Byte) /\ Len(t \o <<0>>) = Len(t) + 1 /\ WithoutNul(t \o <<0>>) = t
<1>1. PICK z : z = <<0>>
  OBVIOUS
<1>2. z \in Seq(Byte) /\ Len(z) = 1 /\ z[1] = 0
  BY <1>1 DEF ByteRadix, Byte
<1>3. PICK u : u = t \o z
  OBVIOUS
<1>4. /\ u \in Seq(Byte) /\ Len(u) = Len(t) + 1 /\ u[Len(t) + 1] = 0
      /\ \A i \in 1 .. Len(t) : u[i] = t[i]
  <2>1. Behind(u, t, z)
    BY <1>2, <1>3, Written
  <2>2. Len(z) = 1 /\ 1 \in 1 .. 1 /\ z[1] = 0
    BY <1>2
  <2>3. u[Len(t) + 1] = z[1]
    BY <2>1, <2>2 DEF Behind
  <2> QED
    BY <2>1, <2>2, <2>3 DEF Behind
<1>5. SubSeq(u, 1, Len(t)) = t
  <2>1. PICK w : w = SubSeq(u, 1, Len(t))
    OBVIOUS
  <2>2. w \in Seq(Byte) /\ Len(w) = Len(t) /\ \A i \in 1 .. Len(t) : w[i] = u[i]
    BY <1>4, <2>1
  <2>3. \A i \in 1 .. Len(w) : w[i] = t[i]
    BY <1>4, <2>2
  <2> QED
    BY <2>1, <2>2, <2>3, SeqEqual
<1>6. u # <<>> /\ Last(u) = 0 /\ Front(u) = t
  BY <1>4, <1>5 DEF Last, Front
<1> QED
  BY <1>1, <1>3, <1>4, <1>6 DEF WithoutNul

LEMMA Regrouped ==
  ASSUME NEW h \in Seq(Byte), NEW w \in Seq(Byte), NEW z \in Seq(Byte)
  PROVE  (h \o w) \o z = h \o (w \o z)
BY ConcatAssociative

(* Every value is read as it was written, or is seen to be cut short. *)
LEMMA ValueBack ==
  ASSUME ByteRadix, NEW buf \in Seq(Byte), NEW x, IsValue(x), NEW new, new = Write(buf, x)
  PROVE  Grows(new, buf) /\ \A s : Cut(s, new) => Back(s, Read(s, Len(buf), x.type), new, x.v)
<1>0. "string" \notin Primitives /\ "bytes" \notin Primitives
  BY DEF Primitives, Width
<1>1. CASE IsNumber(x)
  <2>1. x.type \in Primitives /\ x.type # "string" /\ x.type # "bytes"
    BY <1>0, <1>1 DEF IsNumber
  <2>2. WithNumber(new, buf, x.v, Width[x.type])
    BY <2>1 DEF WithNumber, Write
  <2>3. Grows(new, buf) /\ \A s : Cut(s, new) => Back(s, ReadPrimitive(s, Len(buf), x.type), new, x.v)
    BY <1>1, <2>2, PrimitiveBack, Zenon DEF IsNumber
  <2>4. \A s : Read(s, Len(buf), x.type) = ReadPrimitive(s, Len(buf), x.type)
    BY <2>1, Zenon DEF Read
  <2> QED
    BY <2>3, <2>4
<1>2. CASE IsText(x)
  <2>1. x.type = "string" /\ x.v \in Seq(Byte) /\ x.type \notin Primitives
    BY <1>0, <1>2 DEF IsText
  <2>2. PICK t : t = x.v \o <<0>>
    OBVIOUS
  <2>3. t \in Seq(Byte) /\ Len(t) = Len(x.v) + 1 /\ WithoutNul(t) = x.v
    BY <2>1, <2>2, WithNul
  <2>4. new = Append32(buf, Len(t)) \o t
    <3>1. PICK h : h = Append32(buf, Len(x.v) + 1)
      OBVIOUS
    <3>2. new = h \o x.v \o <<0>>
      BY <2>1, <3>1 DEF Write
    <3>3. h \in Seq(Byte)
      <4>1. h = AlignBuffer(buf, 4) \o LittleEndian(Len(x.v) + 1, 4)
        BY <3>1 DEF Append32
      <4>2. AlignBuffer(buf, 4) \in Seq(Byte)
        BY Aligned
      <4>3. LittleEndian(Len(x.v) + 1, 4) \in Seq(Byte)
        BY <2>1, LittleEndianIs
      <4> QED
        BY <4>1, <4>2, <4>3
    <3>4. PICK z \in Seq(Byte), w \in Seq(Byte) : z = <<0>> /\ w = x.v
      <4>1. <<0>> \in Seq(Byte)
        BY DEF ByteRadix, Byte
      <4> QED
        BY <2>1, <4>1
    <3>5. new = (h \o w) \o z /\ t = w \o z
      BY <2>2, <3>2, <3>4
    <3>6. new = h \o t
      <4>1. (h \o w) \o z = h \o (w \o z)
        BY <3>3, Regrouped, Zenon
      <4> QED
        BY <3>5, <4>1, Zenon
    <3> QED
      BY <2>3, <3>1, <3>6
  <2>5. FitsIn(Len(t), 4)
    BY <1>2, <2>3 DEF IsText
  <2>6. Grows(new, buf) /\ \A s : Cut(s, new) => Back(s, ReadCounted(s, Len(buf), x.type), new,
                                                      IF x.type = "string" THEN WithoutNul(t) ELSE t)
    BY <2>3, <2>4, <2>5, CountedBack, Zenon
  <2>7. \A s : Read(s, Len(buf), x.type) = ReadCounted(s, Len(buf), x.type)
    BY <2>1, Zenon DEF Read
  <2> QED
    BY <2>1, <2>3, <2>6, <2>7
<1>3. CASE IsBytes(x)
  <2>1. x.type = "bytes" /\ x.v \in Seq(Byte) /\ x.type \notin Primitives /\ x.type # "string"
    BY <1>0, <1>3 DEF IsBytes
  <2>2. PICK t : t = x.v
    OBVIOUS
  <2>3. new = Append32(buf, Len(t)) \o t
    BY <2>1, <2>2 DEF Write
  <2>4. t \in Seq(Byte) /\ FitsIn(Len(t), 4)
    BY <1>3, <2>2 DEF IsBytes
  <2>5. Grows(new, buf) /\ \A s : Cut(s, new) => Back(s, ReadCounted(s, Len(buf), x.type), new,
                                                      IF x.type = "string" THEN WithoutNul(t) ELSE t)
    BY <2>3, <2>4, CountedBack, Zenon
  <2>6. \A s : Read(s, Len(buf), x.type) = ReadCounted(s, Len(buf), x.type)
    BY <2>1, Zenon DEF Read
  <2> QED
    BY <2>1, <2>2, <2>5, <2>6
<1> QED
  BY <1>1, <1>2, <1>3 DEF IsValue

-----------------------------------------------------------------------------
(* b are the buffers of the values, one after the other. *)
AreBuffers(b, values) ==
  /\ b \in [0 .. Len(values) -> Seq(Byte)] /\ b[0] = EncapHeader
  /\ \A k \in 1 .. Len(values) : b[k] = Write(b[k - 1], values[k])

LEMMA HeaderIs == ASSUME ByteRadix PROVE EncapHeader \in Seq(Byte) /\ Len(EncapHeader) = 4
BY DEF ByteRadix, Byte, EncapHeader

LEMMA WriteIs == ASSUME ByteRadix, NEW buf \in Seq(Byte), NEW x, IsValue(x) PROVE Write(buf, x) \in Seq(Byte)
<1>1. PICK new : new = Write(buf, x)
  OBVIOUS
<1>2. Grows(new, buf)
  BY <1>1, ValueBack, Zenon
<1> QED
  BY <1>1, <1>2 DEF Grows

LEMMA BuffersAre ==
  ASSUME ByteRadix, NEW V, \A x \in V : IsValue(x), NEW values \in Seq(V)
  PROVE  AreBuffers(Buffers(values), values)
<1>1. PICK n \in Nat : n = Len(values)
  OBVIOUS
<1>. DEFINE Round(i, e) == IF i = 0 THEN EncapHeader ELSE Write(e, values[i])
            step == [x \in (1 .. n) \X Seq(Byte) |-> Write(x[2], values[x[1]])]
<1>2. \A i \in 1 .. n : IsValue(values[i])
  BY <1>1
<1>3. step \in [(1 .. n) \X Seq(Byte) -> Seq(Byte)]
  <2>1. ASSUME NEW x \in (1 .. n) \X Seq(Byte) PROVE Write(x[2], values[x[1]]) \in Seq(Byte)
    <3>1. x[1] \in 1 .. n /\ x[2] \in Seq(Byte)
      OBVIOUS
    <3> QED
      BY <1>2, <3>1, WriteIs
  <2> QED
    BY <2>1
<1>4. PICK f \in [0 .. n -> Seq(Byte)] : Run(f, n, step, EncapHeader)
  <2>1. EncapHeader \in Seq(Byte)
    BY HeaderIs
  <2> HIDE DEF step
  <2> QED
    BY <1>3, <2>1, RunExists
<1>5. \A i \in 0 .. n : f[i] = Round(i, f[i - 1])
  <2>1. ASSUME NEW i \in 1 .. n PROVE f[i] = Write(f[i - 1], values[i])
    <3>1. i - 1 \in 0 .. n /\ f[i - 1] \in Seq(Byte)
      OBVIOUS
    <3>2. step[<<i, f[i - 1]>>] = Write(f[i - 1], values[i])
      BY <3>1
    <3> QED
      BY <1>4, <3>2 DEF Run
  <2>2. f[0] = EncapHeader
    BY <1>4 DEF Run
  <2> QED
    BY <2>1, <2>2
<1> HIDE DEF step
<1>6. f = [i \in 0 .. n |-> Round(i, f[i - 1])]
  BY <1>4, <1>5
<1>7. PICK r : r = Buffers(values)
  OBVIOUS
<1>8. r = [i \in 0 .. n |-> Round(i, r[i - 1])]
  BY <1>1, <1>6, <1>7 DEF Buffers
<1>9. r[0] = EncapHeader /\ \A i \in 1 .. n : r[i] = Write(r[i - 1], values[i])
  <2>1. 0 \in 0 .. n /\ \A i \in 1 .. n : i \in 0 .. n /\ i # 0
    OBVIOUS
  <2>2. r[0] = Round(0, r[0 - 1]) /\ \A i \in 1 .. n : r[i] = Round(i, r[i - 1])
    BY <1>8, <2>1
  <2> QED
    BY <2>1, <2>2
<1>10. \A i \in 0 .. n : r[i] \in Seq(Byte)
  <2>. DEFINE Without == {i \in 0 .. n : r[i] \notin Seq(Byte)}
  <2>1. SUFFICES ASSUME Without # {} PROVE FALSE
    OBVIOUS
  <2>2. PICK m \in Without : \A j \in Without : m <= j
    <3>1. Without \subseteq Nat
      OBVIOUS
    <3> HIDE DEF Without
    <3> QED
      BY <2>1, <3>1, LeastOf
  <2>3. m \in 1 .. n /\ m - 1 \in 0 .. n /\ m - 1 \notin Without
    BY <1>9, <2>2, HeaderIs
  <2>4. r[m - 1] \in Seq(Byte)
    BY <2>3
  <2>5. r[m] \in Seq(Byte)
    BY <1>2, <1>9, <2>3, <2>4, WriteIs
  <2> QED
    BY <2>2, <2>5
<1> QED
  BY <1>1, <1>7, <1>8, <1>9, <1>10 DEF AreBuffers

(* What is cut of the last buffer is cut of every buffer before it. *)
LEMMA CutOfAll ==
  ASSUME ByteRadix, NEW V, \A x \in V : IsValue(x), NEW values \in Seq(V), NEW b, AreBuffers(b, values),
         NEW s, Cut(s, b[Len(values)])
  PROVE  \A k \in 0 .. Len(values) : Cut(s, b[k])
<1>1. PICK n \in Nat : n = Len(values)
  OBVIOUS
<1>. DEFINE Without == {j \in 0 .. n : ~Cut(s, b[n - j])}
<1>2. Without = {}
  <2>1. SUFFICES ASSUME Without # {} PROVE FALSE
    OBVIOUS
  <2>2. PICK j \in Without : \A i \in Without : j <= i
    <3>1. Without \subseteq Nat
      OBVIOUS
    <3> HIDE DEF Without
    <3> QED
      BY <2>1, <3>1, LeastOf
  <2>3. j # 0
    BY <1>1, <2>2
  <2>4. j - 1 \in 0 .. n /\ j - 1 \notin Without
    BY <2>2, <2>3
  <2>5. PICK k \in 1 .. n : k = n - (j - 1) /\ k - 1 = n - j
    BY <2>3
  <2>6. Cut(s, b[k])
    BY <2>4, <2>5
  <2>7. PICK x \in V : x = values[k]
    BY <1>1
  <2>8. PICK a \in Seq(Byte) : a = b[k - 1]
    BY <1>1, <2>5 DEF AreBuffers
  <2>9. b[k] = Write(a, x)
    BY <1>1, <2>7, <2>8 DEF AreBuffers
  <2>10. PICK c : c = b[k]
    OBVIOUS
  <2>11. IsValue(x) /\ c = Write(a, x)
    BY <2>9, <2>10
  <2>12. Grows(c, a)
    BY <2>11, ValueBack, Zenon
  <2>13. Cut(s, a)
    BY <2>6, <2>10, <2>12, CutOfPart
  <2> QED
    BY <2>2, <2>5, <2>8, <2>13
<1>3. ASSUME NEW k \in 0 .. n PROVE Cut(s, b[k])
  <2>1. PICK j \in 0 .. n : j = n - k /\ n - j = k
    OBVIOUS
  <2>2. Cut(s, b[n - j])
    BY <1>2
  <2> QED
    BY <2>1, <2>2
<1> QED
  BY <1>1, <1>3

(* The k-th read reaches as far as the k-th buffer, as long as s does. *)
Reaches(s, d, b, values, k) ==
  IF Len(b[k]) <= Len(s) THEN d = [ok |-> TRUE, pos |-> Len(b[k]), values |-> SubSeq(values, 1, k)]
  ELSE d.ok = FALSE /\ \E c \in 0 .. k : d.values = SubSeq(values, 1, c)

LEMMA FirstReach ==
  ASSUME ByteRadix, NEW values, NEW b, b[0] = EncapHeader, NEW s, Cut(s, b[0])
  PROVE  Reaches(s, Created(s), b, values, 0)
<1>1. Len(s) \in Nat /\ Len(b[0]) = 4
  BY HeaderIs DEF Cut
<1>2. PICK d : d = Created(s)
  OBVIOUS
<1>3. d = [ok |-> CreateOk(s), pos |-> 4, values |-> <<>>]
  BY <1>2 DEF Created
<1>4. SubSeq(values, 1, 0) = <<>>
  BY SubSeqEmpty
<1>5. CASE Len(s) < 4
  <2>1. CreateOk(s) = FALSE
    BY <1>1, <1>5 DEF CreateOk
  <2>2. d.ok = FALSE /\ d.values = SubSeq(values, 1, 0) /\ 0 \in 0 .. 0
    BY <1>3, <1>4, <2>1
  <2> QED
    BY <1>1, <1>2, <1>5, <2>2 DEF Reaches
<1>6. CASE Len(s) >= 4
  <2>1. s[1] = 1 /\ s[2] = 0
    <3>1. 1 \in 1 .. Len(s) /\ 2 \in 1 .. Len(s) /\ 1 <= 4 /\ 2 <= 4
      BY <1>1, <1>6
    <3>2. s[1] = EncapHeader[1] /\ s[2] = EncapHeader[2]
      BY <1>1, <3>1 DEF Cut
    <3> QED
      BY <3>2 DEF EncapHeader
  <2>2. PICK w : w = Sums(s, 0, 2)
    OBVIOUS
  <2>3. AreSums(w, s, 0, 2)
    <3>1. Numbers(s, 0, 2)
      BY <2>1 DEF Numbers
    <3> QED
      BY <2>2, <3>1, SumsAre
  <2>4. w[0] = 0 /\ w[1] = w[0] * Radix + s[2] /\ w[2] = w[1] * Radix + s[1]
    <3>1. /\ w[0] = 0 /\ 1 \in 1 .. 2 /\ 2 \in 1 .. 2
          /\ \A i \in 1 .. 2 : w[i] = w[i - 1] * Radix + s[0 + 2 - i + 1]
      BY <2>3 DEF AreSums
    <3>2. w[1] = w[1 - 1] * Radix + s[0 + 2 - 1 + 1] /\ w[2] = w[2 - 1] * Radix + s[0 + 2 - 2 + 1]
      BY <3>1
    <3> QED
      BY <3>1, <3>2
  <2>5. Word(s, 0, 2) = 1
    BY <2>1, <2>2, <2>4 DEF Word, ByteRadix
  <2>6. CreateOk(s) = TRUE
    BY <1>6, <2>5 DEF CreateOk
  <2> QED
    BY <1>1, <1>2, <1>3, <1>4, <1>6, <2>6 DEF Reaches
<1> QED
  BY <1>1, <1>5, <1>6

LEMMA NextReach ==
  ASSUME ByteRadix, NEW V, \A x \in V : IsValue(x), NEW values \in Seq(V), NEW b, AreBuffers(b, values),
         NEW s, NEW k \in 1 .. Len(values), Cut(s, b[k]), NEW d, Reaches(s, d, b, values, k - 1)
  PROVE  Reaches(s, AfterRead(s, d, values[k].type), b, values, k)
<1>1. PICK x \in V : x = values[k]
  OBVIOUS
<1>2. PICK a \in Seq(Byte) : a = b[k - 1]
  BY DEF AreBuffers
<1>3. PICK c : c = b[k]
  OBVIOUS
<1>4. c = Write(a, x) /\ IsValue(x)
  BY <1>1, <1>2, <1>3 DEF AreBuffers
<1>5. PICK r : r = Read(s, Len(a), x.type)
  OBVIOUS
<1>6. Grows(c, a) /\ Back(s, r, c, x.v)
  <2>1. Grows(c, a) /\ \A q : Cut(q, c) => Back(q, Read(q, Len(a), x.type), c, x.v)
    BY <1>4, ValueBack, Zenon
  <2>2. Cut(s, c)
    BY <1>3
  <2> QED
    BY <1>5, <2>1, <2>2
<1>7. Len(s) \in Nat /\ Len(a) \in Nat /\ Len(c) \in Nat /\ Len(a) <= Len(c)
  BY <1>6 DEF Grows, Cut
<1>8. PICK e : e = AfterRead(s, d, x.type)
  OBVIOUS
<1>9. CASE Len(a) > Len(s)
  <2>1. d.ok = FALSE
    BY <1>2, <1>7, <1>9 DEF Reaches
  <2>2. PICK i \in 0 .. k - 1 : d.values = SubSeq(values, 1, i)
    BY <1>2, <1>7, <1>9 DEF Reaches
  <2>3. e = d
    BY <1>8, <2>1 DEF AfterRead
  <2>4. i \in 0 .. k /\ Len(c) > Len(s)
    BY <1>7, <1>9
  <2>5. ~(Len(b[k]) <= Len(s)) /\ e.ok = FALSE /\ e.values = SubSeq(values, 1, i)
    BY <1>3, <1>7, <2>1, <2>2, <2>3, <2>4
  <2> QED
    BY <1>1, <1>8, <2>4, <2>5 DEF Reaches
<1>10. CASE Len(a) <= Len(s)
  <2>1. d = [ok |-> TRUE, pos |-> Len(a), values |-> SubSeq(values, 1, k - 1)]
    BY <1>2, <1>10 DEF Reaches
  <2>2. d.ok = TRUE /\ d.pos = Len(a) /\ d.values = SubSeq(values, 1, k - 1)
    BY <2>1
  <2>3. r = Read(s, d.pos, x.type)
    BY <1>5, <2>2
  <2>4. CASE Len(c) > Len(s)
    <3>1. r.ok = FALSE
      BY <1>6, <2>4 DEF Back
    <3>2. e = [d EXCEPT !.ok = FALSE]
      BY <1>8, <2>2, <2>3, <3>1 DEF AfterRead
    <3>3. e.ok = FALSE /\ e.values = SubSeq(values, 1, k - 1) /\ k - 1 \in 0 .. k
      BY <2>1, <3>2
    <3>4. ~(Len(b[k]) <= Len(s))
      BY <1>3, <1>7, <2>4
    <3> QED
      BY <1>1, <1>8, <3>3, <3>4 DEF Reaches
  <2>5. CASE Len(c) <= Len(s)
    <3>1. r = [ok |-> TRUE, pos |-> Len(c), v |-> x.v]
      BY <1>6, <2>5 DEF Back
    <3>2. r.ok = TRUE /\ r.pos = Len(c) /\ r.v = x.v
      BY <3>1
    <3>3. x = [type |-> x.type, v |-> x.v]
      BY <1>4 DEF IsValue
    <3>4. e = [ok |-> TRUE, pos |-> Len(c), values |-> Append(SubSeq(values, 1, k - 1), x)]
      BY <1>8, <2>2, <2>3, <3>2, <3>3 DEF AfterRead
    <3>5. Append(SubSeq(values, 1, k - 1), x) = SubSeq(values, 1, k)
      BY <1>1
    <3> QED
      BY <1>1, <1>3, <1>8, <2>5, <3>4, <3>5 DEF Reaches
  <2> QED
    BY <1>7, <2>4, <2>5
<1> QED
  BY <1>7, <1>9, <1>10

(* f are the results of the reads, one after the other. *)
AreReads(f, n, s, types) == f = [i \in 0 .. n |-> IF i = 0 THEN Created(s) ELSE AfterRead(s, f[i - 1], types[i])]

LEMMA ReadsExist ==
  ASSUME NEW n \in Nat, NEW types, NEW s
  PROVE  \E f : AreReads(f, n, s, types)
<1>. DEFINE Without == {m \in 0 .. n : ~ \E f : AreReads(f, m, s, types)}
            Round(i, e) == IF i = 0 THEN Created(s) ELSE AfterRead(s, e, types[i])
<1>1. SUFFICES ASSUME Without # {} PROVE FALSE
  OBVIOUS
<1>2. PICK m \in Without : \A j \in Without : m <= j
  <2>1. Without \subseteq Nat
    OBVIOUS
  <2> HIDE DEF Without
  <2> QED
    BY <1>1, <2>1, LeastOf
<1>3. CASE m = 0
  <2>1. PICK f : f = [i \in 0 .. 0 |-> Created(s)]
    OBVIOUS
  <2>2. f = [i \in 0 .. m |-> Round(i, f[i - 1])]
    BY <1>3, <2>1
  <2> QED
    BY <2>2 DEF AreReads
<1>4. CASE m # 0
  <2>1. m \in 1 .. n /\ m - 1 \in 0 .. n /\ m - 1 \notin Without
    BY <1>2, <1>4
  <2>2. PICK f : f = [i \in 0 .. m - 1 |-> Round(i, f[i - 1])]
    BY <2>1 DEF AreReads
  <2>3. PICK g : g = [i \in 0 .. m |-> IF i = m THEN Round(m, f[m - 1]) ELSE f[i]]
    OBVIOUS
  <2>4. ASSUME NEW i \in 0 .. m PROVE g[i] = Round(i, g[i - 1])
    <3>1. CASE i = m
      <4>1. m - 1 \in 0 .. m /\ m - 1 # m /\ m \in 0 .. m
        BY <2>1
      <4>2. g[m] = Round(m, f[m - 1]) /\ g[m - 1] = f[m - 1]
        BY <2>3, <4>1
      <4> QED
        BY <3>1, <4>2
    <3>2. CASE i # m
      <4>1. i \in 0 .. m - 1
        BY <2>1, <3>2
      <4>2. g[i] = f[i] /\ f[i] = Round(i, f[i - 1])
        BY <2>2, <2>3, <3>2, <4>1
      <4>3. CASE i = 0
        BY <4>2, <4>3
      <4>4. CASE i # 0
        <5>1. i - 1 \in 0 .. m /\ i - 1 # m
          BY <4>1, <4>4
        <5>2. g[i - 1] = f[i - 1]
          BY <2>3, <5>1
        <5> QED
          BY <4>2, <5>2
      <4> QED
        BY <4>3, <4>4
    <3> QED
      BY <3>1, <3>2
  <2>5. g = [i \in 0 .. m |-> Round(i, g[i - 1])]
    BY <2>3, <2>4
  <2>6. AreReads(g, m, s, types)
    BY <2>5 DEF AreReads
  <2> QED
    BY <2>6
<1> QED
  BY <1>3, <1>4

LEMMA DecodedAre ==
  ASSUME NEW n \in Nat, NEW types, Len(types) = n, NEW s, NEW d, d = Decoded(s, types)
  PROVE  d[0] = Created(s) /\ \A k \in 1 .. n : d[k] = AfterRead(s, d[k - 1], types[k])
<1>. DEFINE Round(i, e) == IF i = 0 THEN Created(s) ELSE AfterRead(s, e, types[i])
<1>1. PICK f : f = [i \in 0 .. n |-> Round(i, f[i - 1])]
  <2>1. \E f : AreReads(f, n, s, types)
    BY ReadsExist, Zenon
  <2> QED
    BY <2>1 DEF AreReads
<1>2. d = [i \in 0 .. n |-> Round(i, d[i - 1])]
  BY <1>1 DEF Decoded
<1>3. 0 \in 0 .. n /\ \A i \in 1 .. n : i \in 0 .. n /\ i # 0
  OBVIOUS
<1>4. d[0] = Round(0, d[0 - 1]) /\ \A i \in 1 .. n : d[i] = Round(i, d[i - 1])
  BY <1>2, <1>3
<1> QED
  BY <1>3, <1>4

(* Values written one after the other are read back as they were written;  *)
(* of a buffer that lost its end, the values before the first that is not  *)
(* whole, and it is seen that there are more.                              *)
THEOREM ValuesArrive ==
  ASSUME ByteRadix, NEW V, \A x \in V : IsValue(x), NEW values \in Seq(V),
         NEW types, types = [k \in 1 .. Len(values) |-> values[k].type],
         NEW m \in 0 .. Len(Encode(values)), NEW s, s = SubSeq(Encode(values), 1, m),
         NEW d, d = DecodeAll(s, types)
  PROVE  /\ d.ok <=> s = Encode(values)
         /\ d.ok => d.values = values /\ d.pos = Len(s)
         /\ \E c \in 0 .. Len(values) : d.values = SubSeq(values, 1, c)
<1>1. PICK n \in Nat : n = Len(values)
  OBVIOUS
<1>2. PICK b : b = Buffers(values)
  OBVIOUS
<1>3. AreBuffers(b, values)
  BY <1>2, BuffersAre
<1>4. PICK text \in Seq(Byte) : text = b[n] /\ text = Encode(values)
  BY <1>1, <1>2, <1>3 DEF AreBuffers, Encode
<1>5. PICK r : r = Decoded(s, types)
  OBVIOUS
<1>6. Len(types) = n /\ \A k \in 1 .. n : types[k] = values[k].type
  BY <1>1
<1>7. r[0] = Created(s) /\ \A k \in 1 .. n : r[k] = AfterRead(s, r[k - 1], types[k])
  BY <1>5, <1>6, DecodedAre
<1>8. s \in Seq(Byte) /\ Len(s) = m /\ \A i \in 1 .. m : s[i] = text[i]
  BY <1>4
<1>9. \A k \in 0 .. n : Cut(s, b[k])
  <2>1. Cut(s, text)
    BY <1>8 DEF Cut
  <2> QED
    BY <1>1, <1>3, <1>4, <2>1, CutOfAll
<1>10. Reaches(s, r[n], b, values, n)
  <2>. DEFINE Without == {k \in 0 .. n : ~Reaches(s, r[k], b, values, k)}
  <2>1. ASSUME Without # {} PROVE FALSE
    <3>1. PICK k \in Without : \A j \in Without : k <= j
      <4>1. Without \subseteq Nat
        OBVIOUS
      <4> HIDE DEF Without
      <4> QED
        BY <2>1, <4>1, LeastOf
    <3>2. k # 0
      <4>1. Reaches(s, Created(s), b, values, 0)
        <5>1. b[0] = EncapHeader /\ Cut(s, b[0])
          BY <1>3, <1>9 DEF AreBuffers
        <5> QED
          BY <5>1, FirstReach
      <4> QED
        BY <1>7, <3>1, <4>1
    <3>3. k \in 1 .. n /\ k - 1 \in 0 .. n /\ k - 1 \notin Without
      BY <3>1, <3>2
    <3>4. Reaches(s, r[k - 1], b, values, k - 1)
      BY <3>3
    <3>5. Reaches(s, AfterRead(s, r[k - 1], values[k].type), b, values, k)
      BY <1>1, <1>3, <1>9, <3>3, <3>4, NextReach
    <3>6. r[k] = AfterRead(s, r[k - 1], values[k].type)
      BY <1>6, <1>7, <3>3
    <3> QED
      BY <3>1, <3>5, <3>6
  <2>2. n \in 0 .. n /\ n \notin Without
    BY <2>1
  <2> QED
    BY <2>2
<1>11. d = r[n]
  BY <1>5, <1>6 DEF DecodeAll
<1>12. Len(text) \in Nat /\ m \in Nat /\ (m = Len(text) \/ m < Len(text))
  BY <1>4
<1>13. CASE m = Len(text)
  <2>1. s = text
    BY <1>4, <1>8, <1>13, SeqEqual
  <2>2. d = [ok |-> TRUE, pos |-> Len(text), values |-> SubSeq(values, 1, n)]
    BY <1>4, <1>8, <1>10, <1>11, <1>12, <1>13 DEF Reaches
  <2>3. SubSeq(values, 1, n) = values
    BY <1>1, SubSeqFull
  <2>4. d.ok = TRUE /\ d.pos = Len(s) /\ d.values = values /\ n \in 0 .. Len(values)
    BY <1>1, <2>1, <2>2, <2>3
  <2> QED
    BY <1>1, <1>4, <2>1, <2>3, <2>4
<1>14. CASE m < Len(text)
  <2>1. s # text
    BY <1>8, <1>14
  <2>2. ~(Len(b[n]) <= Len(s))
    BY <1>4, <1>8, <1>12, <1>14
  <2>3. d.ok = FALSE /\ \E c \in 0 .. n : d.values = SubSeq(values, 1, c)
    BY <1>10, <1>11, <2>2 DEF Reaches
  <2> QED
    BY <1>1, <1>4, <2>1, <2>3
<1> QED
  BY <1>12, <1>13, <1>14, Zenon

-----------------------------------------------------------------------------
(* Parameter lists. A parameter is written with zeros behind its value, up *)
(* to a multiple of four, and is read with them.                           *)
Padded(x) == ((Len(x.value) + 3) \div 4) * 4
Entry(x) == [pid |-> x.pid, value |-> x.value \o Zeros(Padded(x) - Len(x.value))]

(* What a participant may put into a list: neither padding nor the end of  *)
(* the list, and a value whose padded length two bytes hold.               *)
IsParam(x) ==
  /\ x.pid \notin {PidPad, PidSentinel} /\ FitsIn(x.pid, 2)
  /\ x.value \in Seq(Byte) /\ FitsIn(Padded(x), 2)

(* s holds the head of the parameter x from p on, and what it announces up *)
(* to q.                                                                   *)
HeadAt(s, p, x) == Word(s, p, 2) = x.pid /\ Word(s, p + 2, 2) = Padded(x)
BodyAt(s, p, q, x) == SubSeq(s, p + 5, q) = Entry(x).value

HasParam(new, buf, x) ==
  /\ Grows(new, buf) /\ Len(new) = Len(buf) + 4 + Padded(x)
  /\ \A s : Cut(s, new) =>
       /\ Len(buf) + 4 <= Len(s) => HeadAt(s, Len(buf), x)
       /\ Len(new) <= Len(s) => BodyAt(s, Len(buf), Len(new), x)

LEMMA PaddedIs ==
  ASSUME NEW x, x.value \in Seq(Byte)
  PROVE  Padded(x) \in Nat /\ Padded(x) - Len(x.value) \in Nat
<1>1. PICK l \in Nat : l = Len(x.value)
  OBVIOUS
<1>2. ((l + 3) \div 4) * 4 \in Nat /\ ((l + 3) \div 4) * 4 - l \in Nat
  OBVIOUS
<1> QED
  BY <1>1, <1>2 DEF Padded

LEMMA ParamBack ==
  ASSUME ByteRadix, NEW buf \in Seq(Byte), NEW x, IsParam(x), NEW new, new = AddParam(buf, x.pid, x.value)
  PROVE  HasParam(new, buf, x)
<1>1. PICK l \in Nat, w \in Nat, v \in Seq(Byte) :
        l = Len(v) /\ w = Padded(x) /\ v = x.value /\ w - l \in Nat
  BY PaddedIs DEF IsParam
<1>2. PICK f \in Seq(Byte) : f = LittleEndian(x.pid, 2) /\ Len(f) = 2
  BY LittleEndianIs DEF IsParam, FitsIn
<1>3. PICK g \in Seq(Byte) : g = LittleEndian(w, 2) /\ Len(g) = 2
  BY LittleEndianIs
<1>4. PICK z \in Seq(Byte) : z = Zeros(w - l) /\ Len(z) = w - l
  BY <1>1, ZerosAre
<1>5. PICK a : a = buf \o f
  OBVIOUS
<1>6. PICK b : b = a \o g
  OBVIOUS
<1>7. PICK e : e = v \o z
  OBVIOUS
<1>8. e \in Seq(Byte) /\ Len(e) = w
  <2>1. Behind(e, v, z)
    BY <1>7, Written
  <2> QED
    BY <1>1, <1>4, <2>1 DEF Behind
<1>9. Behind(a, buf, f) /\ Grows(a, buf) /\ a \in Seq(Byte)
  BY <1>5, Written, WrittenGrows DEF Behind
<1>10. Behind(b, a, g) /\ Grows(b, a) /\ b \in Seq(Byte)
  <2>1. a \in Seq(Byte)
    BY <1>9
  <2>2. Behind(b, a, g)
    BY <1>6, <2>1, Written
  <2>3. Grows(b, a)
    BY <1>6, <2>1, WrittenGrows
  <2> QED
    BY <2>2, <2>3 DEF Behind
<1>11. new = b \o e
  <2>1. new = (b \o v) \o z
    <3>1. ((Len(x.value) + 3) \div 4) * 4 = w
      BY <1>1 DEF Padded
    <3> QED
      BY <1>1, <1>2, <1>3, <1>4, <1>5, <1>6, <3>1 DEF AddParam
  <2>2. e = v \o z /\ b \in Seq(Byte)
    BY <1>7, <1>10, Zenon
  <2>3. (b \o v) \o z = b \o (v \o z)
    BY <2>2, Regrouped, Zenon
  <2> QED
    BY <2>1, <2>2, <2>3, Zenon
<1>12. Behind(new, b, e) /\ Grows(new, b)
  BY <1>8, <1>10, <1>11, Written, WrittenGrows
<1>13. Grows(new, a) /\ Grows(new, buf)
  <2>1. Grows(new, a)
    BY <1>10, <1>12, Growing
  <2> QED
    BY <1>9, <2>1, Growing
<1>14. /\ Len(a) = Len(buf) + 2 /\ Len(b) = Len(buf) + 4 /\ Len(new) = Len(buf) + 4 + w
       /\ Len(buf) \in Nat
  BY <1>2, <1>3, <1>8, <1>9, <1>10, <1>12 DEF Behind
<1>15. ASSUME NEW s, Cut(s, new), Len(buf) + 4 <= Len(s) PROVE HeadAt(s, Len(buf), x)
  <2>1. Cut(s, b)
    BY <1>12, <1>15, CutOfPart
  <2>2. Cut(s, a)
    BY <1>10, <2>1, CutOfPart
  <2>3. Len(b) <= Len(s) /\ Len(a) <= Len(s)
    BY <1>14, <1>15, <2>1 DEF Cut
  <2>4. BytesOf(f, x.pid, 2) /\ BytesOf(g, w, 2) /\ FitsIn(x.pid, 2) /\ FitsIn(w, 2) /\ 2 \in Nat
    BY <1>1, <1>2, <1>3 DEF BytesOf, IsParam
  <2>5. Word(s, Len(buf), 2) = x.pid
    BY <1>9, <2>2, <2>3, <2>4, NumberBehind, SMT
  <2>6. Word(s, Len(a), 2) = w
    BY <1>9, <1>10, <2>1, <2>3, <2>4, NumberBehind, SMT
  <2> QED
    BY <1>1, <1>14, <2>5, <2>6 DEF HeadAt
<1>16. ASSUME NEW s, Cut(s, new), Len(new) <= Len(s) PROVE BodyAt(s, Len(buf), Len(new), x)
  <2>1. SubSeq(s, Len(b) + 1, Len(b) + Len(e)) = e
    <3>1. e \in Seq(Byte) /\ b \in Seq(Byte) /\ Behind(new, b, e) /\ Cut(s, new) /\ Len(new) <= Len(s)
      BY <1>8, <1>10, <1>12, <1>16
    <3> QED
      BY <3>1, BytesBack, SMT
  <2>2. Len(b) + 1 = Len(buf) + 5 /\ Len(b) + Len(e) = Len(new)
    BY <1>8, <1>14
  <2>3. Entry(x).value = e
    BY <1>1, <1>4, <1>7 DEF Entry
  <2> QED
    BY <2>1, <2>2, <2>3 DEF BodyAt
<1> QED
  BY <1>1, <1>13, <1>14, <1>15, <1>16 DEF HasParam

(* b are the lists of the parameters, one after the other. *)
ListHeader == LittleEndian(SchemePlCdrLe, 2) \o Zeros(2)
AreLists(b, params) ==
  /\ b \in [0 .. Len(params) -> Seq(Byte)] /\ b[0] = ListHeader
  /\ \A k \in 1 .. Len(params) : b[k] = AddParam(b[k - 1], params[k].pid, params[k].value)

LEMMA SmallFits ==
  ASSUME ByteRadix, NEW v \in 0 .. 3
  PROVE  FitsIn(v, 2)
<1>1. PICK r : r = Shifts(v, 2)
  OBVIOUS
<1>2. r \in [0 .. 2 -> Nat] /\ r[0] = v /\ \A i \in 1 .. 2 : r[i] = r[i - 1] \div Radix
  <2>1. /\ Shifts(v, 2) \in [0 .. 2 -> Nat] /\ Shifts(v, 2)[0] = v
        /\ \A i \in 1 .. 2 : Shifts(v, 2)[i] = Shifts(v, 2)[i - 1] \div Radix
    <3>1. v \in Nat /\ 2 \in Nat
      OBVIOUS
    <3> QED
      BY <3>1, ShiftsAre, Zenon
  <2> QED
    BY <1>1, <2>1
<1>3. r[1] = v \div Radix /\ r[2] = r[1] \div Radix
  <2>1. 1 \in 1 .. 2 /\ 2 \in 1 .. 2 /\ 1 - 1 = 0 /\ 2 - 1 = 1
    OBVIOUS
  <2> QED
    BY <1>2, <2>1
<1>4. \A a \in Nat, d \in Nat : a <= 1 => (a \div Radix = 0)
  BY DEF ByteRadix
<1>5. v \div Radix \in Nat /\ v \div Radix <= 1
  BY DEF ByteRadix
<1>6. r[2] = 0
  BY <1>3, <1>4, <1>5
<1> QED
  BY <1>1, <1>6 DEF FitsIn

LEMMA ListHeaderIs ==
  ASSUME ByteRadix
  PROVE  /\ ListHeader \in Seq(Byte) /\ Len(ListHeader) = 4
         /\ \A s : Cut(s, ListHeader) /\ Len(s) >= 4 => Word(s, 0, 2) = SchemePlCdrLe
<1>1. PICK e \in Seq(Byte) : e = LittleEndian(SchemePlCdrLe, 2) /\ Len(e) = 2
  BY LittleEndianIs DEF SchemePlCdrLe
<1>2. PICK z \in Seq(Byte) : z = Zeros(2) /\ Len(z) = 2
  BY ZerosAre
<1>3. PICK h : h = ListHeader
  OBVIOUS
<1>4. h = e \o z
  BY <1>1, <1>2, <1>3 DEF ListHeader
<1>5. Behind(h, e, z) /\ Grows(h, e)
  BY <1>4, Written, WrittenGrows
<1>6. h \in Seq(Byte) /\ Len(h) = 4
  BY <1>1, <1>2, <1>5 DEF Behind
<1>7. ASSUME NEW s, Cut(s, h), Len(s) >= 4 PROVE Word(s, 0, 2) = SchemePlCdrLe
  <2>1. Cut(s, e)
    BY <1>5, <1>7, CutOfPart
  <2>2. PICK a \in Seq(Byte) : a = <<>> /\ Len(a) = 0
    <3>1. <<>> \in Seq(Byte) /\ Len(<<>>) = 0
      OBVIOUS
    <3> QED
      BY <3>1
  <2>3. Behind(e, a, e)
    BY <2>2 DEF Behind
  <2>4. BytesOf(e, SchemePlCdrLe, 2) /\ FitsIn(SchemePlCdrLe, 2) /\ 2 \in Nat
    BY <1>1, SmallFits DEF BytesOf, SchemePlCdrLe
  <2>5. Len(e) <= Len(s)
    BY <1>1, <1>7, <2>1 DEF Cut
  <2>6. Word(s, Len(a), 2) = SchemePlCdrLe
    BY <2>1, <2>3, <2>4, <2>5, NumberBehind, SMT
  <2> QED
    BY <2>2, <2>6
<1> QED
  BY <1>3, <1>6, <1>7

LEMMA AddParamIs ==
  ASSUME ByteRadix, NEW buf \in Seq(Byte), NEW x, IsParam(x)
  PROVE  AddParam(buf, x.pid, x.value) \in Seq(Byte)
<1>1. PICK new : new = AddParam(buf, x.pid, x.value)
  OBVIOUS
<1>2. HasParam(new, buf, x)
  BY <1>1, ParamBack, Zenon
<1> QED
  BY <1>1, <1>2 DEF HasParam, Grows

LEMMA ListsAre ==
  ASSUME ByteRadix, NEW V, \A x \in V : IsParam(x), NEW params \in Seq(V)
  PROVE  AreLists(Lists(params), params)
<1>1. PICK n \in Nat : n = Len(params)
  OBVIOUS
<1>. DEFINE Round(i, e) == IF i = 0 THEN ListHeader ELSE AddParam(e, params[i].pid, params[i].value)
            step == [x \in (1 .. n) \X Seq(Byte) |-> AddParam(x[2], params[x[1]].pid, params[x[1]].value)]
<1>2. \A i \in 1 .. n : IsParam(params[i])
  BY <1>1
<1>3. step \in [(1 .. n) \X Seq(Byte) -> Seq(Byte)]
  <2>1. ASSUME NEW x \in (1 .. n) \X Seq(Byte)
        PROVE  AddParam(x[2], params[x[1]].pid, params[x[1]].value) \in Seq(Byte)
    <3>1. x[1] \in 1 .. n /\ x[2] \in Seq(Byte)
      OBVIOUS
    <3> QED
      BY <1>2, <3>1, AddParamIs
  <2> QED
    BY <2>1
<1>4. PICK f \in [0 .. n -> Seq(Byte)] : Run(f, n, step, ListHeader)
  <2>1. ListHeader \in Seq(Byte)
    BY ListHeaderIs
  <2> HIDE DEF step
  <2> QED
    BY <1>3, <2>1, RunExists
<1>5. \A i \in 0 .. n : f[i] = Round(i, f[i - 1])
  <2>1. ASSUME NEW i \in 1 .. n PROVE f[i] = AddParam(f[i - 1], params[i].pid, params[i].value)
    <3>1. i - 1 \in 0 .. n /\ f[i - 1] \in Seq(Byte)
      OBVIOUS
    <3>2. step[<<i, f[i - 1]>>] = AddParam(f[i - 1], params[i].pid, params[i].value)
      BY <3>1
    <3> QED
      BY <1>4, <3>2 DEF Run
  <2>2. f[0] = ListHeader
    BY <1>4 DEF Run
  <2> QED
    BY <2>1, <2>2
<1> HIDE DEF step
<1>6. f = [i \in 0 .. n |-> Round(i, f[i - 1])]
  BY <1>4, <1>5
<1>7. PICK r : r = Lists(params)
  OBVIOUS
<1>8. r = [i \in 0 .. n |-> Round(i, r[i - 1])]
  BY <1>1, <1>6, <1>7 DEF Lists, ListHeader
<1>9. r[0] = ListHeader /\ \A i \in 1 .. n : r[i] = AddParam(r[i - 1], params[i].pid, params[i].value)
  <2>1. 0 \in 0 .. n /\ \A i \in 1 .. n : i \in 0 .. n /\ i # 0
    OBVIOUS
  <2>2. r[0] = Round(0, r[0 - 1]) /\ \A i \in 1 .. n : r[i] = Round(i, r[i - 1])
    BY <1>8, <2>1
  <2> QED
    BY <2>1, <2>2
<1>10. \A i \in 0 .. n : r[i] \in Seq(Byte)
  <2>. DEFINE Without == {i \in 0 .. n : r[i] \notin Seq(Byte)}
  <2>1. SUFFICES ASSUME Without # {} PROVE FALSE
    OBVIOUS
  <2>2. PICK m \in Without : \A j \in Without : m <= j
    <3>1. Without \subseteq Nat
      OBVIOUS
    <3> HIDE DEF Without
    <3> QED
      BY <2>1, <3>1, LeastOf
  <2>3. m \in 1 .. n /\ m - 1 \in 0 .. n /\ m - 1 \notin Without
    BY <1>9, <2>2, ListHeaderIs
  <2>4. r[m - 1] \in Seq(Byte)
    BY <2>3
  <2>5. r[m] \in Seq(Byte)
    BY <1>2, <1>9, <2>3, <2>4, AddParamIs
  <2> QED
    BY <2>2, <2>5
<1> QED
  BY <1>1, <1>7, <1>8, <1>9, <1>10 DEF AreLists

(* Every list is what the last of them begins with. *)
LEMMA ListsGrow ==
  ASSUME ByteRadix, NEW V, \A x \in V : IsParam(x), NEW params \in Seq(V), NEW b, AreLists(b, params)
  PROVE  /\ \A k \in 1 .. Len(params) : HasParam(b[k], b[k - 1], params[k])
         /\ \A k \in 0 .. Len(params) : Grows(b[Len(params)], b[k])
<1>1. PICK n \in Nat : n = Len(params)
  OBVIOUS
<1>2. ASSUME NEW k \in 1 .. n PROVE HasParam(b[k], b[k - 1], params[k])
  <2>1. b[k - 1] \in Seq(Byte) /\ b[k] = AddParam(b[k - 1], params[k].pid, params[k].value)
    BY <1>1 DEF AreLists
  <2>2. IsParam(params[k])
    BY <1>1
  <2> QED
    BY <2>1, <2>2, ParamBack
<1>. DEFINE Without == {j \in 0 .. n : ~Grows(b[n], b[n - j])}
<1>3. Without = {}
  <2>1. SUFFICES ASSUME Without # {} PROVE FALSE
    OBVIOUS
  <2>2. PICK j \in Without : \A i \in Without : j <= i
    <3>1. Without \subseteq Nat
      OBVIOUS
    <3> HIDE DEF Without
    <3> QED
      BY <2>1, <3>1, LeastOf
  <2>3. j # 0
    <3>1. b[n] \in Seq(Byte)
      BY <1>1 DEF AreLists
    <3>2. Grows(b[n], b[n])
      BY <3>1 DEF Grows
    <3> QED
      BY <2>2, <3>2
  <2>4. j - 1 \in 0 .. n /\ j - 1 \notin Without
    BY <2>2, <2>3
  <2>5. PICK k \in 1 .. n : k = n - (j - 1) /\ k - 1 = n - j
    BY <2>3
  <2>6. Grows(b[n], b[k])
    BY <2>4, <2>5
  <2>7. Grows(b[k], b[k - 1])
    BY <1>2, <2>5 DEF HasParam
  <2>8. Grows(b[n], b[k - 1])
    BY <2>6, <2>7, Growing
  <2> QED
    BY <2>2, <2>5, <2>8
<1>4. ASSUME NEW k \in 0 .. n PROVE Grows(b[n], b[k])
  <2>1. PICK j \in 0 .. n : j = n - k /\ n - j = k
    OBVIOUS
  <2>2. Grows(b[n], b[n - j])
    BY <1>3
  <2> QED
    BY <2>1, <2>2
<1> QED
  BY <1>1, <1>2, <1>4

LEMMA WordNat ==
  ASSUME ByteRadix, NEW s \in Seq(Byte), NEW pos \in Nat, NEW n \in Nat, pos + n <= Len(s)
  PROVE  Word(s, pos, n) \in Nat
<1>1. Numbers(s, pos, n)
  <2>1. ASSUME NEW i \in 1 .. n PROVE s[pos + i] \in Nat
    <3>1. pos + i \in 1 .. Len(s)
      OBVIOUS
    <3> QED
      BY <3>1 DEF Byte, ByteRadix
  <2> QED
    BY <2>1 DEF Numbers
<1>2. PICK w : w = Sums(s, pos, n)
  OBVIOUS
<1>3. w \in [0 .. n -> Nat] /\ n \in 0 .. n
  <2>1. AreSums(Sums(s, pos, n), s, pos, n)
    BY <1>1, SumsAre, Zenon
  <2> QED
    BY <1>2, <2>1 DEF AreSums
<1> QED
  BY <1>2, <1>3 DEF Word

(* A parameter list is read from its beginning to its end. *)
LEMMA FromBehind ==
  ASSUME ByteRadix, NEW s \in Seq(Byte), NEW pos \in 0 .. Len(s), NEW f, NEW g,
         \A q \in pos + 1 .. Len(s) : f[q] = g[q]
  PROVE  ParamsFrom(s, f, pos) = ParamsFrom(s, g, pos)
<1>1. CASE pos + 4 > Len(s)
  BY <1>1 DEF ParamsFrom
<1>2. CASE pos + 4 <= Len(s)
  <2>1. f[pos + 4] = g[pos + 4]
    BY <1>2
  <2>2. Word(s, pos + 2, 2) \in Nat
    BY <1>2, WordNat
  <2>3. PICK next \in Nat : next = pos + 4 + Word(s, pos + 2, 2) /\ next >= pos + 4
    BY <2>2
  <2>4. next <= Len(s) => f[next] = g[next]
    BY <2>3
  <2>5. PICK pid : pid = Word(s, pos, 2)
    OBVIOUS
  <2>6. PICK h : h = <<[pid |-> pid, value |-> SubSeq(s, pos + 5, next)]>>
    OBVIOUS
  <2>7. (IF next > Len(s) THEN <<>> ELSE h \o f[next]) = (IF next > Len(s) THEN <<>> ELSE h \o g[next])
    BY <2>4
  <2>8. CASE pid \in {PidSentinel, PidPad}
    BY <1>2, <2>1, <2>5, <2>8 DEF ParamsFrom, PidSentinel, PidPad
  <2>9. CASE pid \notin {PidSentinel, PidPad}
    <3>1. ParamsFrom(s, f, pos) = IF next > Len(s) THEN <<>> ELSE h \o f[next]
      BY <1>2, <2>3, <2>5, <2>6, <2>9 DEF ParamsFrom
    <3>2. ParamsFrom(s, g, pos) = IF next > Len(s) THEN <<>> ELSE h \o g[next]
      BY <1>2, <2>3, <2>5, <2>6, <2>9 DEF ParamsFrom
    <3> QED
      BY <2>7, <3>1, <3>2
  <2> QED
    BY <2>8, <2>9
<1> QED
  BY <1>1, <1>2

AreNexts(f, s, k) == f = [pos \in k .. Len(s) |-> ParamsFrom(s, f, pos)]

LEMMA NextsExist ==
  ASSUME ByteRadix, NEW s \in Seq(Byte)
  PROVE  \E f : AreNexts(f, s, 0)
<1>1. PICK l \in Nat : l = Len(s)
  OBVIOUS
<1>. DEFINE Without == {j \in 0 .. l : ~ \E f : AreNexts(f, s, l - j)}
<1>2. Without = {}
  <2>1. SUFFICES ASSUME Without # {} PROVE FALSE
    OBVIOUS
  <2>2. PICK j \in Without : \A i \in Without : j <= i
    <3>1. Without \subseteq Nat
      OBVIOUS
    <3> HIDE DEF Without
    <3> QED
      BY <2>1, <3>1, LeastOf
  <2>3. PICK k \in 0 .. l : k = l - j
    OBVIOUS
  <2>4. PICK f : \A pos \in k + 1 .. l : f[pos] = ParamsFrom(s, f, pos)
    <3>1. CASE j = 0
      BY <2>3, <3>1
    <3>2. CASE j # 0
      <4>1. j - 1 \in 0 .. l /\ j - 1 \notin Without /\ l - (j - 1) = k + 1
        BY <2>2, <2>3, <3>2
      <4>2. PICK f : AreNexts(f, s, k + 1)
        BY <4>1
      <4>3. f = [pos \in k + 1 .. l |-> ParamsFrom(s, f, pos)]
        BY <1>1, <4>2 DEF AreNexts
      <4>4. \A pos \in k + 1 .. l : f[pos] = ParamsFrom(s, f, pos)
        BY <4>3
      <4> QED
        BY <4>4
    <3> QED
      BY <3>1, <3>2
  <2>5. PICK g : g = [pos \in k .. l |-> IF pos = k THEN ParamsFrom(s, f, k) ELSE f[pos]]
    OBVIOUS
  <2>6. \A q \in k + 1 .. l : f[q] = g[q]
    BY <2>5
  <2>7. ASSUME NEW pos \in k .. l PROVE g[pos] = ParamsFrom(s, g, pos)
    <3>1. pos \in 0 .. Len(s) /\ \A q \in pos + 1 .. Len(s) : f[q] = g[q]
      BY <1>1, <2>6
    <3>2. ParamsFrom(s, f, pos) = ParamsFrom(s, g, pos)
      BY <3>1, FromBehind
    <3>3. g[pos] = ParamsFrom(s, f, pos)
      <4>1. CASE pos = k
        BY <2>5, <4>1
      <4>2. CASE pos # k
        <5>1. pos \in k + 1 .. l
          BY <4>2
        <5> QED
          BY <2>4, <2>6, <5>1
      <4> QED
        BY <4>1, <4>2
    <3> QED
      BY <3>2, <3>3
  <2>8. g = [pos \in k .. l |-> ParamsFrom(s, g, pos)]
    BY <2>5, <2>7
  <2>9. AreNexts(g, s, l - j)
    BY <1>1, <2>3, <2>8 DEF AreNexts
  <2> QED
    BY <2>2, <2>9
<1>3. l \in 0 .. l /\ l - l = 0
  OBVIOUS
<1>4. \E f : AreNexts(f, s, l - l)
  BY <1>2, <1>3
<1> QED
  BY <1>3, <1>4

LEMMA NextsAre ==
  ASSUME ByteRadix, NEW s \in Seq(Byte), NEW r, r = NextParams(s), NEW pos \in 0 .. Len(s)
  PROVE  r[pos] = ParamsFrom(s, r, pos)
<1>1. PICK f : AreNexts(f, s, 0)
  BY NextsExist
<1>2. f = [p \in 0 .. Len(s) |-> ParamsFrom(s, f, p)]
  BY <1>1 DEF AreNexts
<1>3. r = [p \in 0 .. Len(s) |-> ParamsFrom(s, r, p)]
  BY <1>2, Zenon DEF NextParams
<1> QED
  BY <1>3

(* What the end of a list says. *)
LEMMA SentinelIs ==
  ASSUME ByteRadix, NEW b \in Seq(Byte), NEW text, text = b \o LittleEndian(PidSentinel, 2) \o Zeros(2)
  PROVE  /\ Grows(text, b) /\ Len(text) = Len(b) + 4
         /\ \A s : Cut(s, text) /\ Len(b) + 4 <= Len(s) => Word(s, Len(b), 2) = PidSentinel
<1>1. PICK e \in Seq(Byte) : e = LittleEndian(PidSentinel, 2) /\ Len(e) = 2
  BY LittleEndianIs DEF PidSentinel
<1>2. PICK z \in Seq(Byte) : z = Zeros(2) /\ Len(z) = 2
  BY ZerosAre
<1>3. PICK a : a = b \o e
  OBVIOUS
<1>4. text = a \o z
  BY <1>1, <1>2, <1>3
<1>5. Behind(a, b, e) /\ Grows(a, b) /\ a \in Seq(Byte)
  BY <1>3, Written, WrittenGrows DEF Behind
<1>6. Behind(text, a, z) /\ Grows(text, a)
  <2>1. a \in Seq(Byte)
    BY <1>5
  <2> QED
    BY <1>4, <2>1, Written, WrittenGrows
<1>7. Len(a) = Len(b) + 2 /\ Len(text) = Len(b) + 4
  BY <1>1, <1>2, <1>5, <1>6 DEF Behind
<1>8. Grows(text, b)
  BY <1>5, <1>6, Growing
<1>9. ASSUME NEW s, Cut(s, text), Len(b) + 4 <= Len(s) PROVE Word(s, Len(b), 2) = PidSentinel
  <2>1. Cut(s, a)
    BY <1>6, <1>9, CutOfPart
  <2>2. BytesOf(e, PidSentinel, 2) /\ FitsIn(PidSentinel, 2) /\ 2 \in Nat
    BY <1>1, SmallFits DEF BytesOf, PidSentinel
  <2>3. Len(a) <= Len(s)
    BY <1>7, <1>9, <2>1 DEF Cut
  <2> QED
    BY <1>5, <2>1, <2>2, <2>3, NumberBehind, SMT
<1> QED
  BY <1>7, <1>8, <1>9

LEMMA FromIs ==
  ASSUME NEW s \in Seq(Byte), NEW pos \in Nat, NEW f, NEW pid, NEW next,
         pid = Word(s, pos, 2), next = pos + 4 + Word(s, pos + 2, 2)
  PROVE  /\ pos + 4 > Len(s) => ParamsFrom(s, f, pos) = <<>>
         /\ pos + 4 <= Len(s) /\ pid = PidSentinel => ParamsFrom(s, f, pos) = <<>>
         /\ pos + 4 <= Len(s) /\ pid \notin {PidSentinel, PidPad} =>
              ParamsFrom(s, f, pos) = IF next > Len(s) THEN <<>>
                                      ELSE <<[pid |-> pid, value |-> SubSeq(s, pos + 5, next)]>> \o f[next]
<1>1. ASSUME pos + 4 > Len(s) PROVE ParamsFrom(s, f, pos) = <<>>
  BY <1>1 DEF ParamsFrom
<1>2. ASSUME pos + 4 <= Len(s), pid = PidSentinel PROVE ParamsFrom(s, f, pos) = <<>>
  BY <1>2 DEF ParamsFrom, PidSentinel, PidPad
<1>3. ASSUME pos + 4 <= Len(s), pid \notin {PidSentinel, PidPad}
      PROVE  ParamsFrom(s, f, pos) = IF next > Len(s) THEN <<>>
                                     ELSE <<[pid |-> pid, value |-> SubSeq(s, pos + 5, next)]>> \o f[next]
  <2>1. PICK h : h = <<[pid |-> pid, value |-> SubSeq(s, pos + 5, next)]>>
    OBVIOUS
  <2>2. ParamsFrom(s, f, pos) = IF next > Len(s) THEN <<>> ELSE h \o f[next]
    BY <1>3, <2>1 DEF ParamsFrom
  <2> QED
    BY <2>1, <2>2
<1> QED
  BY <1>1, <1>2, <1>3

(* s has the parameter x behind b, up to where new ends. *)
WholeIn(s, new, b, x) ==
  IsParam(x) /\ b \in Seq(Byte) /\ HasParam(new, b, x) /\ Cut(s, new) /\ Len(new) <= Len(s)
ReadsOn(s, f, p, q, x) == ParamsFrom(s, f, p) = <<Entry(x)>> \o f[q]

(* Where a whole parameter lies in s, it is read, and what is behind it.   *)
LEMMA WholeIsRead ==
  ASSUME ByteRadix, NEW s, NEW new, NEW b, NEW x, WholeIn(s, new, b, x), NEW f
  PROVE  ReadsOn(s, f, Len(b), Len(new), x)
<1>0. IsParam(x) /\ b \in Seq(Byte) /\ HasParam(new, b, x) /\ Cut(s, new) /\ Len(new) <= Len(s)
  BY DEF WholeIn
<1>1. PICK p \in Nat, q \in Nat, w \in Nat :
        p = Len(b) /\ q = Len(new) /\ w = Padded(x) /\ q = p + 4 + w
  <2>1. Padded(x) \in Nat
    BY <1>0, PaddedIs DEF IsParam
  <2>2. Len(new) = Len(b) + 4 + Padded(x) /\ Len(new) \in Nat
    BY <1>0 DEF HasParam, Grows
  <2> QED
    BY <2>1, <2>2
<1>2. Len(s) \in Nat /\ p + 4 <= Len(s) /\ q <= Len(s)
  BY <1>0, <1>1 DEF Cut
<1>3. Word(s, p, 2) = x.pid /\ Word(s, p + 2, 2) = w /\ SubSeq(s, p + 5, q) = Entry(x).value
  <2>1. HeadAt(s, p, x) /\ BodyAt(s, p, q, x)
    BY <1>0, <1>1, <1>2 DEF HasParam
  <2> QED
    BY <1>1, <2>1 DEF HeadAt, BodyAt
<1>4. x.pid \notin {PidSentinel, PidPad}
  BY <1>0 DEF IsParam
<1>5. PICK h : h = <<[pid |-> x.pid, value |-> SubSeq(s, p + 5, q)]>>
  OBVIOUS
<1>6. ParamsFrom(s, f, p) = h \o f[q]
  <2>1. /\ s \in Seq(Byte) /\ p + 4 <= Len(s) /\ ~(q > Len(s))
        /\ x.pid = Word(s, p, 2) /\ q = p + 4 + Word(s, p + 2, 2)
    BY <1>0, <1>1, <1>2, <1>3 DEF Cut
  <2>2. ParamsFrom(s, f, p) = IF q > Len(s) THEN <<>>
                              ELSE <<[pid |-> x.pid, value |-> SubSeq(s, p + 5, q)]>> \o f[q]
    BY <1>4, <2>1, FromIs
  <2> QED
    BY <1>5, <2>1, <2>2
<1>7. h = <<Entry(x)>>
  BY <1>3, <1>5 DEF Entry
<1> QED
  BY <1>1, <1>6, <1>7 DEF ReadsOn

(* Where a parameter is cut short, nothing is read. *)
LEMMA PartIsNotRead ==
  ASSUME ByteRadix, NEW x, IsParam(x), NEW b \in Seq(Byte), NEW new, HasParam(new, b, x),
         NEW s, Cut(s, new), Len(new) > Len(s), NEW f
  PROVE  ParamsFrom(s, f, Len(b)) = <<>>
<1>1. PICK p \in Nat, q \in Nat, w \in Nat :
        p = Len(b) /\ q = Len(new) /\ w = Padded(x) /\ q = p + 4 + w
  <2>1. Padded(x) \in Nat
    BY PaddedIs DEF IsParam
  <2>2. Len(new) = Len(b) + 4 + Padded(x) /\ Len(new) \in Nat
    BY DEF HasParam, Grows
  <2> QED
    BY <2>1, <2>2
<1>2. Len(s) \in Nat /\ q > Len(s)
  BY <1>1 DEF Cut
<1>3. CASE p + 4 > Len(s)
  <2>1. ParamsFrom(s, f, p) = <<>>
    BY <1>3, FromIs DEF Cut
  <2> QED
    BY <1>1, <2>1
<1>4. CASE p + 4 <= Len(s)
  <2>1. Word(s, p, 2) = x.pid /\ Word(s, p + 2, 2) = w
    <3>1. HeadAt(s, p, x)
      BY <1>1, <1>4 DEF HasParam
    <3> QED
      BY <1>1, <3>1 DEF HeadAt
  <2>2. x.pid \notin {PidSentinel, PidPad}
    BY DEF IsParam
  <2>3. ParamsFrom(s, f, p) = <<>>
    <3>1. s \in Seq(Byte) /\ q = p + 4 + Word(s, p + 2, 2) /\ x.pid = Word(s, p, 2) /\ q > Len(s)
      BY <1>1, <1>2, <2>1 DEF Cut
    <3>2. ParamsFrom(s, f, p) = IF q > Len(s) THEN <<>>
                                ELSE <<[pid |-> x.pid, value |-> SubSeq(s, p + 5, q)]>> \o f[q]
      BY <1>4, <2>2, <3>1, FromIs
    <3> QED
      BY <3>1, <3>2
  <2> QED
    BY <1>1, <2>3
<1> QED
  BY <1>1, <1>2, <1>3, <1>4

(* Of a list that lost its end, the parameters before the first that is    *)
(* not whole are read, and no other; of a list that lost nothing, all.     *)
THEOREM ParametersArrive ==
  ASSUME ByteRadix, NEW V, \A x \in V : IsParam(x), NEW params \in Seq(V),
         NEW out, out = [i \in 1 .. Len(params) |-> Entry(params[i])],
         NEW m \in 0 .. Len(ParameterList(params)), NEW s, s = SubSeq(ParameterList(params), 1, m)
  PROVE  /\ s = ParameterList(params) => ReadParameterList(s) = out
         /\ \E c \in 0 .. Len(params) :
              /\ ReadParameterList(s) = SubSeq(out, 1, c)
              /\ c < Len(params) => Len(s) < Len(Lists(params)[c + 1])
<1>1. PICK n \in Nat : n = Len(params)
  OBVIOUS
<1>2. PICK b : b = Lists(params)
  OBVIOUS
<1>3. AreLists(b, params)
  BY <1>2, ListsAre
<1>4. /\ \A k \in 1 .. n : HasParam(b[k], b[k - 1], params[k])
      /\ \A k \in 0 .. n : Grows(b[n], b[k]) /\ b[k] \in Seq(Byte)
  <2>1. /\ \A k \in 1 .. n : HasParam(b[k], b[k - 1], params[k])
        /\ \A k \in 0 .. n : Grows(b[n], b[k])
    BY <1>1, <1>3, ListsGrow
  <2> QED
    BY <2>1 DEF Grows
<1>5. \A k \in 1 .. n : IsParam(params[k])
  BY <1>1
<1>6. PICK text : text = ParameterList(params)
  OBVIOUS
<1>7. PICK last \in Seq(Byte) : last = b[n]
  BY <1>4
<1>8. text = last \o LittleEndian(PidSentinel, 2) \o Zeros(2)
  BY <1>1, <1>2, <1>6, <1>7 DEF ParameterList
<1>9. /\ Grows(text, last) /\ Len(text) = Len(last) + 4
      /\ \A t : Cut(t, text) /\ Len(last) + 4 <= Len(t) => Word(t, Len(last), 2) = PidSentinel
  BY <1>8, SentinelIs, Zenon
<1>10. text \in Seq(Byte) /\ s \in Seq(Byte) /\ Len(s) = m /\ m \in Nat /\ Cut(s, text)
  <2>1. text \in Seq(Byte)
    BY <1>9 DEF Grows
  <2>2. s \in Seq(Byte) /\ Len(s) = m /\ m \in Nat /\ \A i \in 1 .. m : s[i] = text[i]
    BY <1>6, <2>1
  <2> QED
    BY <2>1, <2>2 DEF Cut
<1>11. \A k \in 0 .. n : Cut(s, b[k])
  <2>1. Cut(s, last)
    BY <1>9, <1>10, CutOfPart
  <2>2. ASSUME NEW k \in 0 .. n PROVE Cut(s, b[k])
    <3>1. Grows(last, b[k])
      BY <1>4, <1>7
    <3> QED
      BY <2>1, <3>1, CutOfPart
  <2> QED
    BY <2>2
<1>12. PICK E : out \in Seq(E) /\ Len(out) = n /\ \A k \in 1 .. n : out[k] = Entry(params[k])
  <2>1. PICK E : E = {Entry(params[k]) : k \in 1 .. n}
    OBVIOUS
  <2>2. out \in [1 .. n -> E] /\ \A k \in 1 .. n : out[k] = Entry(params[k])
    BY <1>1, <2>1
  <2>3. out \in Seq(E) /\ Len(out) = n
    BY <2>2, SeqDef
  <2> QED
    BY <2>2, <2>3
<1>13. /\ b[0] \in Seq(Byte) /\ Len(b[0]) = 4
       /\ Len(s) >= 4 => Word(s, 0, 2) = SchemePlCdrLe
  <2>1. b[0] = ListHeader
    BY <1>3 DEF AreLists
  <2>2. Cut(s, ListHeader)
    BY <1>11, <2>1
  <2> QED
    BY <2>1, <2>2, ListHeaderIs
<1>14. PICK r : r = NextParams(s)
  OBVIOUS
<1>15. \A pos \in 0 .. m : r[pos] = ParamsFrom(s, r, pos)
  BY <1>10, <1>14, NextsAre
<1>16. CASE m < 4
  <2>1. ReadParameterList(s) = <<>>
    BY <1>10, <1>16 DEF ReadParameterList
  <2>2. SubSeq(out, 1, 0) = <<>>
    BY SubSeqEmpty
  <2>3. s # text
    <3>1. Len(text) >= 4
      BY <1>7, <1>9
    <3> QED
      BY <1>10, <1>16, <3>1
  <2>4. 0 < n => m < Len(b[1])
    <3>1. ASSUME 0 < n PROVE m < Len(b[1])
      <4>1. HasParam(b[1], b[0], params[1]) /\ IsParam(params[1])
        <5>1. 1 \in 1 .. n /\ 1 - 1 = 0
          BY <3>1
        <5> QED
          BY <1>4, <1>5, <5>1
      <4>2. Padded(params[1]) \in Nat
        BY <4>1, PaddedIs DEF IsParam
      <4>3. Len(b[1]) = 4 + 4 + Padded(params[1])
        BY <1>13, <4>1 DEF HasParam
      <4> QED
        BY <1>10, <1>16, <4>2, <4>3
    <3> QED
      BY <3>1
  <2>5. 0 \in 0 .. n /\ 0 + 1 = 1
    OBVIOUS
  <2> QED
    BY <1>1, <1>2, <1>6, <1>10, <2>1, <2>2, <2>3, <2>4, <2>5
<1>17. CASE m >= 4
  <2>1. ReadParameterList(s) = r[4]
    BY <1>10, <1>13, <1>14, <1>17 DEF ReadParameterList
  <2>. DEFINE Enough == {k \in 0 .. n : k < n => m < Len(b[k + 1])}
  <2>2. PICK c \in Enough : \A j \in Enough : c <= j
    <3>1. n \in Enough /\ Enough \subseteq Nat
      OBVIOUS
    <3> HIDE DEF Enough
    <3> QED
      BY <3>1, LeastOf
  <2>3. c \in 0 .. n /\ (c < n => m < Len(b[c + 1]))
    OBVIOUS
  <2>4. ASSUME NEW k \in 0 .. c PROVE Len(b[k]) <= m
    <3>1. CASE k = 0
      BY <1>13, <1>17, <3>1
    <3>2. CASE k # 0
      <4>1. k - 1 \in 0 .. n /\ k - 1 < n /\ k - 1 < c /\ k - 1 + 1 = k
        BY <2>3, <3>2
      <4>2. k - 1 \notin Enough
        <5>1. c \in Nat /\ k - 1 \in Nat
          BY <2>3, <4>1
        <5> HIDE DEF Enough
        <5> QED
          BY <2>2, <4>1, <5>1
      <4>3. ~(m < Len(b[k]))
        BY <4>1, <4>2
      <4>4. Len(b[k]) \in Nat
        BY <1>4, <2>3
      <4> QED
        BY <1>10, <4>3, <4>4
    <3> QED
      BY <3>1, <3>2
  <2> HIDE DEF Enough
  <2>5. r[Len(b[c])] = <<>>
    <3>1. PICK p \in Nat : p = Len(b[c]) /\ p <= m /\ r[p] = ParamsFrom(s, r, p)
      <4>1. Len(b[c]) \in Nat /\ Len(b[c]) <= m
        BY <1>4, <2>3, <2>4
      <4> QED
        BY <1>10, <1>15, <4>1
    <3>2. CASE c = n
      <4>1. CASE p + 4 > m
        <5>1. ParamsFrom(s, r, p) = <<>>
          BY <1>10, <4>1, FromIs
        <5> QED
          BY <3>1, <5>1
      <4>2. CASE p + 4 <= m
        <5>1. Word(s, p, 2) = PidSentinel
          BY <1>7, <1>9, <1>10, <3>1, <3>2, <4>2
        <5> QED
          <6>1. ParamsFrom(s, r, p) = <<>>
            BY <1>10, <4>2, <5>1, FromIs
          <6> QED
            BY <3>1, <6>1
      <4> QED
        BY <1>10, <4>1, <4>2
    <3>3. CASE c # n
      <4>1. PICK k \in 1 .. n : k = c + 1 /\ k - 1 = c /\ m < Len(b[k])
        BY <2>3, <3>3
      <4>2. IsParam(params[k]) /\ HasParam(b[k], b[c], params[k]) /\ b[c] \in Seq(Byte) /\ Cut(s, b[k])
        BY <1>4, <1>5, <1>11, <2>3, <4>1
      <4>3. Len(b[k]) > Len(s)
        <5>1. Len(b[k]) \in Nat
          BY <1>4
        <5> QED
          BY <1>10, <4>1, <5>1
      <4>4. ParamsFrom(s, r, Len(b[c])) = <<>>
        BY <4>2, <4>3, PartIsNotRead
      <4> QED
        BY <3>1, <4>4
    <3> QED
      BY <3>2, <3>3
  <2>6. r[Len(b[0])] = SubSeq(out, 1, c)
    <3>. DEFINE Without == {j \in 0 .. c : r[Len(b[c - j])] # SubSeq(out, c - j + 1, c)}
    <3>1. ASSUME Without # {} PROVE FALSE
      <4>1. PICK j \in Without : \A i \in Without : j <= i
        <5>1. Without \subseteq Nat
          OBVIOUS
        <5> HIDE DEF Without
        <5> QED
          BY <3>1, <5>1, LeastOf
      <4>0. j \in 0 .. c /\ c \in Nat /\ r[Len(b[c - j])] # SubSeq(out, c - j + 1, c)
        BY <2>3, <4>1
      <4>2. j # 0
        <5>1. SubSeq(out, c + 1, c) = <<>>
          BY <2>3, SubSeqEmpty
        <5>2. ASSUME j = 0 PROVE FALSE
          <6>1. c - j = c /\ c - j + 1 = c + 1
            BY <4>0, <5>2
          <6> QED
            BY <2>5, <4>0, <5>1, <6>1
        <5> QED
          BY <5>2
      <4>3. j - 1 \in 0 .. c /\ j - 1 \notin Without
        <5>1. j - 1 \in 0 .. c /\ j \in Nat
          BY <4>0, <4>2
        <5> HIDE DEF Without
        <5> QED
          BY <4>1, <5>1
      <4>4. PICK k \in 1 .. c : k = c - (j - 1) /\ k - 1 = c - j
        BY <4>0, <4>2
      <4>5. r[Len(b[k])] = SubSeq(out, k + 1, c)
        BY <4>3, <4>4
      <4>6. k \in 1 .. n /\ k \in 0 .. c /\ k - 1 \in 0 .. c /\ k - 1 \in 0 .. n /\ k \in 0 .. n
        BY <2>3, <4>4
      <4>7. PICK a \in Seq(Byte), new \in Seq(Byte) : a = b[k - 1] /\ new = b[k]
        BY <1>4, <4>6
      <4>8. PICK x : x = params[k] /\ IsParam(x)
        BY <1>5, <4>6
      <4>9. HasParam(new, a, x) /\ Cut(s, new) /\ Len(new) <= Len(s)
        BY <1>4, <1>10, <1>11, <2>4, <4>6, <4>7, <4>8
      <4>10. ReadsOn(s, r, Len(a), Len(new), x)
        <5>1. WholeIn(s, new, a, x)
          BY <4>8, <4>9 DEF WholeIn
        <5> QED
          BY <5>1, WholeIsRead, Zenon
      <4>11. r[Len(a)] = ParamsFrom(s, r, Len(a))
        <5>1. Len(a) \in Nat /\ Len(a) <= m
          BY <2>4, <4>6, <4>7
        <5> QED
          BY <1>10, <1>15, <5>1
      <4>12. SubSeq(out, k, c) = <<out[k]>> \o SubSeq(out, k + 1, c)
        <5>1. k \in 1 .. Len(out) /\ c \in k .. Len(out)
          BY <1>12, <2>3, <4>4
        <5> QED
          BY <1>12, <5>1, SubSeqRecursiveFirst
      <4>13. r[Len(b[k - 1])] = SubSeq(out, k, c)
        BY <1>12, <4>5, <4>6, <4>7, <4>8, <4>10, <4>11, <4>12 DEF ReadsOn
      <4>14. r[Len(b[c - j])] = SubSeq(out, c - j + 1, c)
        <5>1. c - j + 1 = k
          BY <2>3, <4>1, <4>4
        <5> QED
          BY <4>4, <4>13, <5>1
      <4> QED
        BY <4>1, <4>14
    <3>2. c \in 0 .. c /\ c - c = 0 /\ c - c + 1 = 1
      BY <2>3
    <3>3. r[Len(b[c - c])] = SubSeq(out, c - c + 1, c)
      BY <3>1, <3>2
    <3> QED
      BY <3>2, <3>3
  <2>7. ReadParameterList(s) = SubSeq(out, 1, c)
    BY <1>13, <2>1, <2>6
  <2>8. ASSUME s = text PROVE c = n
    <3>1. m = Len(text)
      BY <1>10, <2>8
    <3>2. ASSUME c < n PROVE FALSE
      <4>1. c + 1 \in 0 .. n
        BY <2>3, <3>2
      <4>2. Len(b[c + 1]) <= Len(last)
        BY <1>4, <1>7, <4>1 DEF Grows
      <4>3. Len(b[c + 1]) \in Nat
        BY <1>4, <4>1
      <4> QED
        BY <1>7, <1>9, <2>3, <3>1, <3>2, <4>2, <4>3
    <3> QED
      BY <2>3, <3>2
  <2>9. SubSeq(out, 1, n) = out
    BY <1>12, SubSeqFull
  <2> QED
    BY <1>1, <1>2, <1>6, <1>10, <2>3, <2>7, <2>8, <2>9
<1>18. m < 4 \/ m >= 4
  BY <1>10
<1> QED
  BY <1>16, <1>17, <1>18, Zenon
=============================================================================
