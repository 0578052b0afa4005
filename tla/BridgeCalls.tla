----------------------------- MODULE BridgeCalls -----------------------------
(***************************************************************************)
(* The calls that clients make on the gRPC and the REST bridge: publish a  *)
(* sample, publish a stream of them (gRPC), subscribe to a topic, list the *)
(* topics (REST).  Every connection carries one call and has a worker      *)
(* thread; all of them share the bridge's map of topics to publishers and  *)
(* subscribers, guarded by mu_, and a topic's only subscriber.             *)
(*                                                                         *)
(* A client gets a sequence of parts: a status line or an HTTP status,     *)
(* then an acknowledgement or the samples.  How they are encoded is in     *)
(* BridgeCodec, how a server accepts and closes in BridgeServer.           *)
(***************************************************************************)
EXTENDS Naturals, Sequences, FiniteSets

CONSTANTS
  Clients, NoClient,
  Topics,
  Kinds,       \* the bridges considered, among "grpc" and "rest"
  MaxSamples,  \* bound: samples written on all topics
  MaxStream,   \* bound: frames of a StreamPublish call
  MaxEndpoints, MaxCloses    \* bounds

EmptyTopic == ""

VARIABLES
  kind,      \* which bridge this is
  call,      \* call[c]: what the client asks for
  pc,        \* pc[c]: the place of the worker that serves it
  held,      \* held[c]: the endpoint the worker uses
  mu,        \* mu_: the client whose worker holds it, or none
  cache,     \* subs_ and pubs_: [role, topic] -> endpoint
  live,      \* endpoints that are open
  made,      \* endpoints created so far, each with its role and topic
  chan,      \* chan[e]: samples in the channel of a subscriber
  samples,   \* samples written so far: a sample is its number
  seq,       \* seq_: the last SSE id
  item,      \* item[c]: the sample a worker has taken, and its id
  stopping,  \* the server's stop flag
  todo,      \* endpoints close() has taken and not closed
  closes,    \* how many times close() was called
  got,       \* got[c]: the parts the client received
  count,     \* count[c]: stream_publish's count
  wrote,     \* history: wrote[c], samples written for the call
  result     \* history: result[c], what the bridge's operation returned

worker == <<call, pc, held, item, got, count, wrote, result>>
maps == <<mu, cache, live, made, todo, closes>>
dds == <<chan, samples>>
vars == <<kind, worker, maps, dds, seq, stopping>>

Pending == "none"
Key(role, t) == [role |-> role, topic |-> t]
Endpoints == 1 .. MaxEndpoints
NoItem == [sample |-> 0, id |-> 0]

(* Requests: a topic of StreamPublish is chosen frame by frame. *)
Calls == [op : {"publish", "subscribe", "stream", "list"}, topic : Topics \cup {EmptyTopic}, authorized : BOOLEAN]
CallsOf(k) ==
  {r \in Calls :
     /\ r.op \in (IF k = "grpc" THEN {"publish", "subscribe", "stream"} ELSE {"publish", "subscribe", "list"})
     /\ (r.op \in {"stream", "list"} \/ k = "rest") => (r.topic = EmptyTopic <=> r.op \in {"stream", "list"})}

Init ==
  /\ kind \in Kinds
  /\ call \in [Clients -> CallsOf(kind)]
  /\ pc = [c \in Clients |-> "new"] /\ held = [c \in Clients |-> 0]
  /\ mu = NoClient /\ cache = [k \in {} |-> 0] /\ live = {} /\ made = <<>>
  /\ chan = [e \in Endpoints |-> <<>>] /\ samples = 0 /\ seq = 0
  /\ item = [c \in Clients |-> NoItem]
  /\ stopping = FALSE /\ todo = {} /\ closes = 0
  /\ got = [c \in Clients |-> <<>>] /\ count = [c \in Clients |-> 0]
  /\ wrote = [c \in Clients |-> 0] /\ result = [c \in Clients |-> Pending]

-----------------------------------------------------------------------------
(* Steps of a worker *)

Role(c) == IF call[c].op = "subscribe" THEN "sub" ELSE "pub"

(* The operation returns status r and the client is sent parts; a client   *)
(* that has left gets none of them, nor any that come after one it missed. *)
Ends(c, r, parts) ==
  /\ pc' = [pc EXCEPT ![c] = "done"]
  /\ result' = [result EXCEPT ![c] = r]
  /\ \E n \in 0 .. Len(parts) : got' = [got EXCEPT ![c] = @ \o SubSeq(parts, 1, n)]

Status(s) == <<"status", s>>
Ack(n) == <<"ack", n>>
Event(i) == <<"sample", i.sample, i.id>>

(* gRPC has sent OK before it subscribes, so an error reaches the client   *)
(* as the end of the stream.                                               *)
Fails(c, status) ==
  Ends(c, status, IF kind = "grpc" /\ call[c].op = "subscribe" THEN <<>> ELSE <<Status(status)>>)

idle(c) == UNCHANGED <<kind, call, item, mu, cache, live, made, todo, closes, dds, seq, stopping, wrote, held, count>>

(* The request is read and authorized; gRPC also finds it malformed. *)
Refuse(c) ==
  /\ pc[c] = "new"
  /\ \/ ~call[c].authorized /\ Ends(c, "unauthenticated", <<Status("unauthenticated")>>)
     \/ call[c].authorized /\ kind = "grpc" /\ call[c].op # "stream"
          /\ Ends(c, "invalid", <<Status("invalid")>>)
  /\ idle(c)

(* The topic is checked before the maps are looked at. *)
Begin(c) ==
  /\ pc[c] = "new" /\ call[c].authorized /\ call[c].op \in {"publish", "subscribe"}
  /\ IF kind = "grpc" /\ call[c].op = "subscribe"
     THEN \E n \in {0, 1} : got' = [got EXCEPT ![c] = SubSeq(<<Status("ok")>>, 1, n)]
     ELSE got' = got
  /\ pc' = [pc EXCEPT ![c] = IF call[c].topic = EmptyTopic THEN "bad" ELSE "lookup"]
  /\ UNCHANGED <<result>> /\ idle(c)

EmptyTopicFails(c) == pc[c] = "bad" /\ Fails(c, "invalid") /\ idle(c)

(* GET /topics: the topics with a cached subscriber. *)
ListTopics(c) ==
  /\ pc[c] = "new" /\ call[c].authorized /\ call[c].op = "list" /\ mu = NoClient
  /\ Ends(c, "ok", <<Status("ok"), <<"topics", {k.topic : k \in {k \in DOMAIN cache : k.role = "sub"}}>>>>)
  /\ idle(c)

lookedUp(c) == UNCHANGED <<kind, item, todo, closes, dds, seq, stopping, wrote, count, got>>

Lookup_Unlocked(c) ==
  /\ pc[c] = "lookup" /\ mu' = mu
  /\ LET k == Key(Role(c), call[c].topic) IN
     IF k \in DOMAIN cache
     THEN held' = [held EXCEPT ![c] = cache[k]] /\ pc' = [pc EXCEPT ![c] = "ready"]
     ELSE held' = held /\ pc' = [pc EXCEPT ![c] = "create"]
  /\ UNCHANGED <<call, cache, live, made, result>> /\ lookedUp(c)

(* get_or_create_sub(), get_or_create_pub(), get_subscriber() and          *)
(* get_publisher() hold mu_ from the look-up to the entry ...              *)
Lookup(c) ==
  /\ pc[c] = "lookup" /\ mu = NoClient
  /\ LET k == Key(Role(c), call[c].topic) IN
     IF k \in DOMAIN cache
     THEN held' = [held EXCEPT ![c] = cache[k]] /\ pc' = [pc EXCEPT ![c] = "ready"] /\ mu' = mu
     ELSE held' = held /\ pc' = [pc EXCEPT ![c] = "create"] /\ mu' = c
  /\ UNCHANGED <<call, cache, live, made, result>> /\ lookedUp(c)

(* ... of the endpoint that the participant makes, or refuses to. *)
Create(c) ==
  /\ pc[c] = "create" /\ Len(made) < MaxEndpoints
  /\ LET k == Key(Role(c), call[c].topic)
         e == Len(made) + 1 IN
     /\ made' = Append(made, k) /\ live' = live \cup {e}
     /\ held' = [held EXCEPT ![c] = e]
     /\ cache' = [j \in DOMAIN cache \cup {k} |-> IF j = k THEN e ELSE cache[j]]
  /\ mu' = NoClient /\ pc' = [pc EXCEPT ![c] = "ready"]
  /\ UNCHANGED <<call, result>> /\ lookedUp(c)

CreateFails(c) ==
  /\ pc[c] = "create" /\ mu' = NoClient /\ Fails(c, "internal")
  /\ UNCHANGED <<call, held, cache, live, made, kind, item, todo, closes, dds, seq, stopping, wrote, count>>

(* A sample of topic t reaches the channels of its open subscribers. *)
Deliver(t) ==
  /\ samples' = samples + 1
  /\ chan' = [e \in Endpoints |-> IF e \in live /\ made[e] = Key("sub", t)
                                  THEN Append(chan[e], samples') ELSE chan[e]]

writes(c) == UNCHANGED <<kind, item, maps, seq, stopping, held>>

(* write() of the unary call, which fails on a publisher closed meanwhile. *)
Publish(c) ==
  /\ pc[c] = "ready" /\ call[c].op = "publish" /\ samples < MaxSamples
  /\ IF held[c] \in live
     THEN /\ Deliver(call[c].topic) /\ wrote' = [wrote EXCEPT ![c] = 1]
          /\ Ends(c, "ok", IF kind = "grpc" THEN <<Status("ok"), Ack(1)>> ELSE <<Status("ok")>>)
     ELSE Fails(c, "internal") /\ UNCHANGED <<dds, wrote>>
  /\ UNCHANGED <<call, count>> /\ writes(c)

-----------------------------------------------------------------------------
(* StreamPublish *)

(* The next frame, for some topic; one that is malformed or whose topic is *)
(* empty ends the call with an error, and whatever cannot be read ends it  *)
(* like the client's half-close.                                           *)
NextFrame(c) ==
  /\ call[c].op = "stream" /\ call[c].authorized /\ pc[c] \in {"new", "next"}
  /\ \/ /\ count[c] < MaxStream
        /\ \E t \in Topics : call' = [call EXCEPT ![c].topic = t]
        /\ pc' = [pc EXCEPT ![c] = "lookup"] /\ UNCHANGED <<got, result>>
     \/ Ends(c, "invalid", <<Status("invalid")>>) /\ call' = call
     \/ Ends(c, "ok", <<Status("ok"), Ack(count[c])>>) /\ call' = call
  /\ UNCHANGED <<dds, wrote, count>> /\ writes(c)

StreamWrite_CountsFailures(c) ==
  /\ pc[c] = "ready" /\ call[c].op = "stream" /\ samples < MaxSamples
  /\ pc' = [pc EXCEPT ![c] = "next"] /\ count' = [count EXCEPT ![c] = @ + 1]
  /\ IF held[c] \in live
     THEN Deliver(call[c].topic) /\ wrote' = [wrote EXCEPT ![c] = @ + 1]
     ELSE UNCHANGED <<dds, wrote>>
  /\ UNCHANGED <<call, got, result>> /\ writes(c)

StreamWrite(c) ==
  /\ pc[c] = "ready" /\ call[c].op = "stream" /\ samples < MaxSamples
  /\ IF held[c] \in live
     THEN /\ Deliver(call[c].topic) /\ wrote' = [wrote EXCEPT ![c] = @ + 1]
          /\ count' = [count EXCEPT ![c] = @ + 1]
          /\ pc' = [pc EXCEPT ![c] = "next"] /\ UNCHANGED <<got, result>>
     ELSE Fails(c, "internal") /\ UNCHANGED <<dds, wrote, count>>
  /\ UNCHANGED call /\ writes(c)

-----------------------------------------------------------------------------
(* Subscribe: Bridge::subscribe() and run_sse_loop() *)

streams(c) == UNCHANGED <<kind, call, held, count, wrote, maps, samples, stopping>>

(* REST sends its headers now that it has the subscriber. *)
StartStream(c) ==
  /\ pc[c] = "ready" /\ call[c].op = "subscribe"
  /\ \/ /\ kind = "grpc" /\ pc' = [pc EXCEPT ![c] = "poll"] /\ UNCHANGED <<got, result>>
     \/ /\ kind = "rest" /\ pc' = [pc EXCEPT ![c] = "poll"] /\ result' = result
        /\ got' = [got EXCEPT ![c] = <<Status("ok")>>]
     \/ kind = "rest" /\ Ends(c, "ok", <<>>)
  /\ UNCHANGED <<chan, seq, item>> /\ streams(c)

TakeSample_OwnIds(c) ==
  /\ pc[c] = "poll" /\ ~stopping /\ chan[held[c]] # <<>>
  /\ seq' = seq
  /\ item' = [item EXCEPT ![c] = [sample |-> Head(chan[held[c]]), id |-> Len(got[c])]]
  /\ chan' = [chan EXCEPT ![held[c]] = Tail(@)]
  /\ pc' = [pc EXCEPT ![c] = "send"]
  /\ UNCHANGED <<got, result>> /\ streams(c)

(* A sample is taken off the channel all clients of the topic share; SSE   *)
(* gives it the bridge's next id.                                          *)
TakeSample(c) ==
  /\ pc[c] = "poll" /\ ~stopping /\ chan[held[c]] # <<>>
  /\ seq' = IF kind = "rest" THEN seq + 1 ELSE seq
  /\ item' = [item EXCEPT ![c] = [sample |-> Head(chan[held[c]]), id |-> seq']]
  /\ chan' = [chan EXCEPT ![held[c]] = Tail(@)]
  /\ pc' = [pc EXCEPT ![c] = "send"]
  /\ UNCHANGED <<got, result>> /\ streams(c)

(* The sample is sent; gRPC's filter and transform may drop it. *)
SendSample(c) ==
  /\ pc[c] = "send" /\ item' = [item EXCEPT ![c] = NoItem]
  /\ \/ /\ pc' = [pc EXCEPT ![c] = "poll"] /\ result' = result
        /\ \/ got[c] # <<>> /\ got' = [got EXCEPT ![c] = Append(@, Event(item[c]))]
           \/ kind = "grpc" /\ got' = got
     \/ Ends(c, "internal", <<>>)
  /\ UNCHANGED <<chan, seq>> /\ streams(c)

(* The stop flag, or a channel that is closed and empty. *)
EndStream(c) ==
  /\ pc[c] = "poll"
  /\ stopping \/ (held[c] \notin live /\ chan[held[c]] = <<>>)
  /\ Ends(c, IF stopping THEN "cancelled" ELSE "ok", <<>>)
  /\ UNCHANGED <<chan, seq, item>> /\ streams(c)

-----------------------------------------------------------------------------
(* Bridge::close(), and the rest of the process *)

(* close() takes all endpoints and the maps are empty; gRPC closes them    *)
(* before it releases mu_.                                                 *)
CloseTakes ==
  /\ mu = NoClient /\ todo = {} /\ closes < MaxCloses
  /\ closes' = closes + 1
  /\ todo' = {cache[k] : k \in DOMAIN cache} /\ cache' = [k \in {} |-> 0]
  /\ live' = IF kind = "grpc" THEN live \ todo' ELSE live
  /\ UNCHANGED <<kind, worker, mu, made, dds, seq, stopping>>

CloseEnds ==
  /\ todo # {} /\ todo' = {} /\ live' = live \ todo
  /\ UNCHANGED <<kind, worker, mu, cache, made, closes, dds, seq, stopping>>

Stop == ~stopping /\ stopping' = TRUE /\ UNCHANGED <<kind, worker, maps, dds, seq>>

(* A publisher elsewhere in the domain. *)
OtherSample(t) ==
  /\ samples < MaxSamples /\ Deliver(t)
  /\ UNCHANGED <<kind, worker, maps, seq, stopping>>

Worker(c) ==
  \/ Refuse(c) \/ Begin(c) \/ EmptyTopicFails(c) \/ ListTopics(c)
  \/ Lookup(c) \/ Create(c) \/ CreateFails(c) \/ Publish(c)
  \/ NextFrame(c) \/ StreamWrite(c)
  \/ StartStream(c) \/ TakeSample(c) \/ SendSample(c) \/ EndStream(c)

Next ==
  \/ \E c \in Clients : Worker(c)
  \/ CloseTakes \/ CloseEnds \/ Stop
  \/ \E t \in Topics : OtherSample(t)

Spec == Init /\ [][Next]_vars

-----------------------------------------------------------------------------
(* An open endpoint is the cached one of its topic, or about to be closed: *)
(* two calls never make two, and none is forgotten open.                   *)
OneEndpointPerTopic ==
  /\ live \subseteq {cache[k] : k \in DOMAIN cache} \cup todo
  /\ \A j, k \in DOMAIN cache : cache[j] = cache[k] => j = k

(* A client that is told its call published n samples is right, whatever   *)
(* was closed under it.                                                    *)
AcksAreTrue ==
  \A c \in Clients : \A i \in DOMAIN got[c] : got[c][i][1] = "ack" => got[c][i][2] = wrote[c]

(* A subscriber's sample goes to one of the clients that share it; a       *)
(* client gets them in order, and no two SSE events of a bridge have the   *)
(* same id, whoever gets them.                                             *)
EachSampleOnce ==
  \A c, d \in Clients : \A i \in DOMAIN got[c], j \in DOMAIN got[d] :
    LET x == got[c][i]
        y == got[d][j] IN
    x[1] = "sample" /\ y[1] = "sample" /\ (c # d \/ i # j) =>
      /\ x[2] = y[2] => held[c] # held[d]
      /\ kind = "rest" => x[3] # y[3]
      /\ c = d /\ i < j => x[2] < y[2] /\ x[3] <= y[3]
=============================================================================
