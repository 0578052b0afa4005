------------------------------- MODULE WanLink -------------------------------
(***************************************************************************)
(* The client of the WAN bridge, Bridge::connect() to Bridge::close(), with*)
(* a sender thread per topic, and the connection of the server that turns  *)
(* its frames into writes.                                                 *)
(*                                                                         *)
(* A frame goes out in two sends, its length and its text.  The stream is  *)
(* the sequence of these parts, and the token's before them; what becomes  *)
(* of the bytes inside a part is in BridgeCodec.  The connection breaks at *)
(* any time, and all that is under way is lost then; the server's host may *)
(* also stop reading for good.                                             *)
(***************************************************************************)
EXTENDS Naturals, Sequences, SequencesExt, FiniteSetsExt

CONSTANTS
  Topics,      \* opts.topics; Order gives their order
  Order,
  Tokens,      \* tokens; NoToken stands for the empty one
  NoToken,
  ChanCap,     \* capacity of a subscriber's channel
  MaxSamples   \* bound: samples published in all

VARIABLES
  token,      \* token[side], side "client" or "server"
  cpc,        \* the thread that connects and closes the client
  made,       \* how many subscribers connect() has created
  undone,     \* how many of them it has closed again
  closedSub,  \* topics whose subscriber was closed
  chan,       \* chan[t]: samples in the subscriber's channel
  given,      \* given[t]: samples published so far
  spc,        \* spc[t]: the sender thread of a topic
  item,       \* item[t]: the sample it took
  lock,       \* write_mu: the topic of the thread that holds it, or none
  stopping,   \* stopping
  conn,       \* the connection: "none", "up", "down"
  reads,      \* the server's host still reads
  wire,       \* parts sent and not read
  srv,        \* the server's place: "auth", "length", "text", "done"
  want,       \* the frame whose length it has read
  bad,        \* why it stopped, when not for the connection
  taken,      \* history: taken[t], the samples the sender took
  published   \* history: published[t], what the server wrote on

client == <<token, cpc, made, undone, closedSub, stopping>>
source == <<chan, given>>
senders == <<spc, item, lock, taken>>
server == <<srv, want, bad, published>>
vars == <<client, source, senders, conn, reads, wire, server>>

None == "none"
Part(kind, t, n) == [kind |-> kind, t |-> t, n |-> n]
NoPart == Part(None, None, 0)

Init ==
  /\ token \in [{"client", "server"} -> Tokens \cup {NoToken}]
  /\ cpc = "subscribe" /\ made = 0 /\ undone = 0 /\ closedSub = {} /\ stopping = FALSE
  /\ chan = [t \in Topics |-> <<>>] /\ given = [t \in Topics |-> 0]
  /\ spc = [t \in Topics |-> "none"] /\ item = [t \in Topics |-> 0] /\ lock = None
  /\ conn = "none" /\ reads = TRUE /\ wire = <<>>
  /\ srv = IF token["server"] = NoToken THEN "length" ELSE "auth"
  /\ want = NoPart /\ bad = None
  /\ taken = [t \in Topics |-> <<>>] /\ published = [t \in Topics |-> <<>>]

Subscribed(t) == \E i \in 1 .. made : Order[i] = t

(* A local publisher writes; a sample a full channel has no room for is    *)
(* dropped there.                                                          *)
Give(t) ==
  /\ Subscribed(t) /\ t \notin closedSub /\ MapThenSumSet(LAMBDA u : given[u], Topics) < MaxSamples
  /\ given' = [given EXCEPT ![t] = @ + 1]
  /\ chan' = IF Len(chan[t]) < ChanCap THEN [chan EXCEPT ![t] = Append(@, given'[t])] ELSE chan
  /\ UNCHANGED <<client, senders, conn, reads, wire, server>>

-----------------------------------------------------------------------------
(* Bridge::connect() *)

calling == <<token, closedSub, stopping, source, senders, reads, wire, server>>
CallGoes(from, to) == cpc = from /\ cpc' = to

(* new_subscriber() for the next topic. *)
Subscribe ==
  /\ cpc = "subscribe" /\ made < Len(Order)
  /\ made' = made + 1
  /\ UNCHANGED <<calling, cpc, undone, conn>>

(* A subscriber is refused: those made so far are closed again. *)
SubscribeFails ==
  /\ made < Len(Order) /\ CallGoes("subscribe", "undo")
  /\ UNCHANGED <<calling, made, undone, conn>>

(* parse_host_port() *)
Address ==
  /\ made = Len(Order) /\ CallGoes("subscribe", "dial")
  /\ UNCHANGED <<calling, made, undone, conn>>

AddressFails ==
  /\ made = Len(Order) /\ CallGoes("subscribe", "undo")
  /\ UNCHANGED <<calling, made, undone, conn>>

Dial ==
  /\ CallGoes("dial", "auth") /\ conn' = "up"
  /\ UNCHANGED <<calling, made, undone>>

DialFails_KeepsSubs ==
  /\ CallGoes("dial", "failed")
  /\ UNCHANGED <<calling, made, undone, conn>>

(* Nobody listens. *)
DialFails ==
  /\ CallGoes("dial", "undo")
  /\ UNCHANGED <<calling, made, undone, conn>>

(* write_auth() fails: the connection is closed first. *)
AuthFails ==
  /\ token["client"] # NoToken /\ CallGoes("auth", "undo") /\ conn' = "down"
  /\ UNCHANGED <<calling, made, undone>>

(* Each way to fail goes through what it has made, one by one, while local *)
(* publishers may still write to what is not closed yet.                   *)
UndoNext ==
  /\ cpc = "undo" /\ undone < made
  /\ undone' = undone + 1 /\ closedSub' = closedSub \cup {Order[undone']}
  /\ UNCHANGED <<token, cpc, made, stopping, source, senders, conn, reads, wire, server>>

Undone ==
  /\ undone = made /\ CallGoes("undo", "failed")
  /\ UNCHANGED <<calling, made, undone, conn>>

Connecting ==
  \/ Subscribe \/ SubscribeFails \/ Address \/ AddressFails \/ Dial \/ DialFails \/ AuthFails
  \/ UndoNext \/ Undone

MadeSubs == {Order[i] : i \in 1 .. made}

(* write_auth(), when there is a token; then a thread for each topic. *)
Start ==
  /\ cpc = "auth" /\ (conn = "up" \/ token["client"] = NoToken)
  /\ wire' = IF token["client"] = NoToken THEN wire ELSE <<Part("token", None, 0)>>
  /\ cpc' = "open" /\ spc' = [t \in Topics |-> "poll"]
  /\ UNCHANGED <<token, made, undone, closedSub, stopping, source, item, lock, taken, conn, reads,
                 server>>

-----------------------------------------------------------------------------
(* run_sender_loop() *)

sending == <<client, conn, reads, server>>
Goes(t, from, to) == spc[t] = from /\ spc' = [spc EXCEPT ![t] = to]

(* The stop flag, then a sample, which a closed channel still holds. *)
Poll(t) ==
  \/ /\ stopping /\ Goes(t, "poll", "ended")
     /\ UNCHANGED <<sending, source, item, lock, taken, wire>>
  \/ /\ ~stopping /\ chan[t] # <<>> /\ Goes(t, "poll", "lock")
     /\ item' = [item EXCEPT ![t] = Head(chan[t])]
     /\ taken' = [taken EXCEPT ![t] = Append(@, Head(chan[t]))]
     /\ chan' = [chan EXCEPT ![t] = Tail(@)]
     /\ UNCHANGED <<sending, given, lock, wire>>
  \/ /\ ~stopping /\ chan[t] = <<>> /\ t \in closedSub /\ Goes(t, "poll", "ended")
     /\ UNCHANGED <<sending, source, item, lock, taken, wire>>

LockWrites_Unlocked(t) ==
  /\ Goes(t, "lock", "length") /\ lock' = lock
  /\ UNCHANGED <<sending, source, item, taken, wire>>

(* write_mu is held for both parts of a frame. *)
LockWrites(t) ==
  /\ lock = None
  /\ Goes(t, "lock", "length") /\ lock' = t
  /\ UNCHANGED <<sending, source, item, taken, wire>>

(* send_all() of one part; the host that stops reading holds it up. *)
SendPart(t) ==
  /\ conn = "up" /\ reads
  /\ \/ Goes(t, "length", "text") /\ lock' = lock
     \/ Goes(t, "text", "poll") /\ lock' = None
  /\ wire' = Append(wire, Part(spc[t], t, item[t]))
  /\ UNCHANGED <<sending, source, item, taken>>

SendFails(t) ==
  /\ conn = "down" /\ spc[t] \in {"length", "text"}
  /\ spc' = [spc EXCEPT ![t] = "failed"] /\ lock' = None
  /\ UNCHANGED <<sending, source, item, taken, wire>>

CloseSubs_OnlyOwn(t) ==
  /\ Goes(t, "failed", "ended")
  /\ closedSub' = closedSub \cup {t}
  /\ UNCHANGED <<token, cpc, made, undone, stopping, source, item, lock, taken, conn, reads, wire,
                 server>>

(* A failed write closes the subscribers of all topics. *)
CloseSubs(t) ==
  /\ Goes(t, "failed", "ended")
  /\ closedSub' = Topics
  /\ UNCHANGED <<token, cpc, made, undone, stopping, source, item, lock, taken, conn, reads, wire,
                 server>>

Sender(t) == Poll(t) \/ LockWrites(t) \/ SendPart(t) \/ SendFails(t) \/ CloseSubs(t)

-----------------------------------------------------------------------------
(* Bridge::close() of the client *)

closing == <<token, made, undone, source, senders, reads, server>>

CloseStarts ==
  /\ cpc = "open" /\ cpc' = "shutdown" /\ stopping' = TRUE
  /\ UNCHANGED <<closing, closedSub, conn, wire>>

(* close_all_conns(): what was sent may still arrive, or not. *)
ShutConn ==
  /\ cpc = "shutdown" /\ cpc' = "subs"
  /\ conn' = "down" /\ wire' \in {wire, <<>>}
  /\ UNCHANGED <<closing, closedSub, stopping>>

CloseOwnSubs ==
  /\ cpc = "subs" /\ cpc' = "join" /\ closedSub' = Topics
  /\ UNCHANGED <<closing, stopping, conn, wire>>

JoinSenders ==
  /\ cpc = "join" /\ \A t \in Topics : spc[t] = "ended"
  /\ cpc' = "closed"
  /\ UNCHANGED <<closing, closedSub, stopping, conn, wire>>

Closer == ShutConn \/ CloseOwnSubs \/ JoinSenders

-----------------------------------------------------------------------------
(* The server's handle_connection() *)

serving == <<client, source, senders, reads>>
Read == wire # <<>> /\ reads /\ wire' = Tail(wire)

(* The server stops and its end of the connection is closed. *)
Stops(why) == srv' = "done" /\ bad' = why /\ conn' = "down" /\ UNCHANGED <<want, published>>

Authorized(part) == part.kind = "token" /\ token["client"] = token["server"]

(* read_auth() takes the first length for that of a token. *)
Authenticate ==
  /\ srv = "auth" /\ conn # "none" /\ Read
  /\ IF Authorized(Head(wire))
     THEN srv' = "length" /\ UNCHANGED <<want, bad, published, conn>>
     ELSE Stops("token")
  /\ UNCHANGED serving

(* read_frame(): a length, and as many bytes as it says; they are a frame  *)
(* when they are the text that belongs to it.  A token nobody asked for is *)
(* none.                                                                   *)
ReadLength ==
  /\ srv = "length" /\ conn # "none" /\ Read
  /\ IF Head(wire).kind = "token" THEN Stops("frame")
     ELSE srv' = "text" /\ want' = Head(wire) /\ UNCHANGED <<bad, published, conn>>
  /\ UNCHANGED serving

IsText(part) == want.kind = "length" /\ part = Part("text", want.t, want.n)

ReadText ==
  /\ srv = "text" /\ Read
  /\ IF ~IsText(Head(wire)) THEN Stops("frame")
     ELSE \/ /\ srv' = "length" /\ want' = NoPart
             /\ published' = [published EXCEPT ![want.t] = Append(@, want.n)]
             /\ UNCHANGED <<bad, conn>>
          \/ Stops("publisher")
  /\ UNCHANGED serving

(* recv() ends when the connection does. *)
ReadFails ==
  /\ srv # "done" /\ conn = "down" /\ wire = <<>>
  /\ srv' = "done" /\ UNCHANGED <<want, bad, published, conn, wire, serving>>

Server == Authenticate \/ ReadLength \/ ReadText \/ ReadFails

-----------------------------------------------------------------------------
(* The network *)

Break ==
  /\ conn = "up"
  /\ conn' = "down" /\ \E n \in 0 .. Len(wire) : wire' = SubSeq(wire, 1, n)
  /\ UNCHANGED <<client, source, senders, reads, server>>

StopReading ==
  /\ reads /\ conn = "up"
  /\ reads' = FALSE
  /\ UNCHANGED <<client, source, senders, conn, wire, server>>

Next ==
  \/ \E t \in Topics : Give(t) \/ Sender(t)
  \/ Connecting \/ Start \/ CloseStarts \/ Closer
  \/ Server \/ Break \/ StopReading

(* The threads of the client go on; nobody has to give samples, to close   *)
(* the bridge, or to read.                                                 *)
Fairness == WF_vars(Closer) /\ \A t \in Topics : WF_vars(Sender(t))
Spec == Init /\ [][Next]_vars /\ Fairness

-----------------------------------------------------------------------------
(* The samples of a topic that wait: taken by its sender and not published *)
(* yet, in its hand, in the stream or lost with the connection, and those  *)
(* in its channel.                                                         *)
Waiting(t) == SubSeq(taken[t], Len(published[t]) + 1, Len(taken[t])) \o chan[t]

Fifo == INSTANCE LossyFifo WITH
          Capacity <- ChanCap, shared <- token["client"] = token["server"], written <- given,
          queue <- [t \in Topics |-> Waiting(t)], arrived <- published, fault <- bad

(* From local publishers to remote ones a topic is a queue that loses only *)
(* what finds its channel full: its samples are not mixed up with others,  *)
(* left out or repeated by the threads that share the connection.          *)
ImplementsFifo == Fifo!Spec

(* In particular what the server has written for a topic is what the       *)
(* sender took for it, in that order, and but for a failing publisher or a *)
(* token the two sides do not share the server has no reason to stop:      *)
(* frames of the topics never get into each other.                         *)
FramesIntact ==
  /\ \A t \in Topics : IsPrefix(published[t], taken[t])
  /\ token["client"] = token["server"] => bad \in {None, "publisher"}

(* A connect() that fails, at whatever step, and a close() that returns    *)
(* leave nothing behind: every subscriber that was made is closed, the     *)
(* connection is down, and no sender thread is left running, although      *)
(* senders that fail close subscribers too, and may be held up in a send   *)
(* or by each other when close() comes.                                    *)
NothingLeft ==
  cpc \in {"failed", "closed"} =>
    /\ MadeSubs \subseteq closedSub /\ conn # "up"
    /\ \A t \in Topics : spc[t] \in {"none", "ended"}

(* When a sender finds the connection broken, or the bridge is closed,     *)
(* every sender ends, also those that have nothing to send and those held  *)
(* up by a host that does not read; so close(), which joins them, returns. *)
SendersEnd ==
  stopping \/ (\E t \in Topics : spc[t] = "failed") ~> (\A t \in Topics : spc[t] = "ended")
=============================================================================
