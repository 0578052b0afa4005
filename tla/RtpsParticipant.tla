--------------------------- MODULE RtpsParticipant ---------------------------
(***************************************************************************)
(* The threads of one RTPS participant (src/rtps/participant.cpp): the     *)
(* data loop that dispatches what UDP brings, the heartbeat thread of each *)
(* reliable writer, the threads that write, and the calls that create,     *)
(* unsubscribe and close, on one topic.                                    *)
(*                                                                         *)
(* A delivery under the Block policy waits in the thread that dispatches,  *)
(* which is the data loop for a remote sample, the caller of write() for a *)
(* local one and the caller of new_subscriber() for the last sample.       *)
(*                                                                         *)
(* Which sample is delivered makes no difference here, so a channel is its *)
(* length, and last_samples_ whether it holds the topic.  The reliability  *)
(* protocol is RtpsReliable's.  persist_dir is empty and ipv6 off, as they *)
(* are by default; the SPDP, SEDP and bridge threads never block and share *)
(* nothing used here, so close() stops them in one step.                   *)
(***************************************************************************)
EXTENDS Naturals, Sequences, SequencesExt, FiniteSets

CONSTANTS
    Readers, Writers,  \* the subscribers and publishers made in a run
    Durable,           \* those of them with TransientLocal durability
    Reliable,          \* the writers with Reliable reliability
    Asked,             \* Asked[r]: the back-pressure policies r may ask for
    Depth,             \* the depth of every channel
    MaxSamples         \* bound: samples written or received in all

Policies == {"DropNewest", "DropOldest", "Block"}

ASSUME ParticipantAssumption ==
    /\ Depth \in Nat \ {0} /\ MaxSamples \in Nat
    /\ Durable \subseteq Readers \cup Writers /\ Reliable \subseteq Writers
    /\ Asked \in [Readers -> SUBSET Policies]
    /\ IsFiniteSet(Readers)

VARIABLES
    closed,      \* closed_
    closer,      \* how far the close() that raised it is
    todo,        \* the writers, then the readers, it has yet to close
    inside,      \* the writer whose close() it is in, if any
    readers,     \* readers_
    writers,     \* writers_
    hasLast,     \* last_samples_ holds the topic
    matched,     \* the readers matched in SEDP with the remote writer
    rd,          \* how far each reader is in its life
    policy,      \* the back-pressure policy of each reader
    chan,        \* how many samples each channel holds
    chanClosed,  \* the readers whose channel is closed
    wr,          \* what the thread that owns each writer is doing
    wrClosed,    \* the writers whose closed_ is set
    hb,          \* the heartbeat thread of each writer
    data,        \* the data loop: "recv", "deliver" or "exited"
    dataRunning, \* data_running_
    route,       \* the readers each dispatching thread has yet to serve
    samples,     \* bound: samples written or received so far
    ownedR,      \* history: the live readers when close() was called
    ownedW       \* history: the writers then open, with no close() of theirs

readerVars == <<matched, rd, policy>>
chanVars == <<chan, chanClosed>>
writerVars == <<wr, wrClosed, hb, writers>>
closeVars == <<closed, closer, todo, inside, ownedR, ownedW>>
dataVars == <<data, dataRunning>>
vars == <<readerVars, chanVars, writerVars, closeVars, dataVars, readers,
          hasLast, route, samples>>

DataLoop == "data loop"
Dispatchers == Writers \cup {DataLoop}

TypeOK ==
    /\ closed \in BOOLEAN /\ hasLast \in BOOLEAN /\ dataRunning \in BOOLEAN
    /\ closer \in {"open", "raised", "writers", "loops", "sockets", "readers", "closed"}
    /\ closed <=> closer # "open"
    /\ todo # {} => \/ closer = "writers" /\ todo \subseteq Writers
                    \/ closer = "readers" /\ todo \subseteq Readers
    /\ wrClosed \subseteq Writers /\ inside \subseteq wrClosed
    /\ (inside # {} => closer = "writers")
    /\ readers \subseteq Readers /\ writers \subseteq Writers
    /\ matched \subseteq Readers
    /\ rd \in [Readers -> {"none", "checked", "registered", "matched", "replay",
                           "live", "unsubscribing", "erased", "gone"}]
    /\ policy \in [Readers -> Policies]
    /\ chan \in [Readers -> 0..Depth] /\ chanClosed \subseteq Readers
    /\ wr \in [Writers -> {"none", "checked", "made", "idle", "store", "snapshot",
                           "deliver", "closing", "gone"}]
    /\ hb \in [Writers -> {"off", "running", "stopping", "exited"}]
    /\ \A w \in Writers : hb[w] \in {"stopping", "exited"} => w \in wrClosed
    /\ data \in {"recv", "deliver", "exited"}
    /\ data = "exited" => ~dataRunning
    /\ route \in [Dispatchers -> Seq(Readers)]
    /\ samples \in 0..MaxSamples

Init ==
    /\ closed = FALSE /\ closer = "open" /\ todo = {} /\ inside = {}
    /\ readers = {} /\ writers = {} /\ hasLast = FALSE
    /\ matched = {} /\ rd = [r \in Readers |-> "none"]
    /\ policy = [r \in Readers |-> "DropNewest"]
    /\ chan = [r \in Readers |-> 0] /\ chanClosed = {}
    /\ wr = [w \in Writers |-> "none"] /\ wrClosed = {}
    /\ hb = [w \in Writers |-> "off"]
    /\ data = "recv" /\ dataRunning = TRUE
    /\ route = [d \in Dispatchers |-> <<>>] /\ samples = 0
    /\ ownedR = {} /\ ownedW = {}

-----------------------------------------------------------------------------
(* Dispatch.                                                               *)

(* Reader::deliver(): the lengths its channel may then have.  Under Block  *)
(* there is none while the channel is open and full.                       *)
Enqueued(r) ==
    IF r \in chanClosed THEN {chan[r]}
    ELSE IF chan[r] < Depth THEN {chan[r] + 1}
    ELSE IF policy[r] = "Block" THEN {}
    ELSE {chan[r]}

(* dispatch() copies readers_ under its mutex, in the map's own order ...  *)
Snapshot(d) == \E order \in SetToSeqs(readers) : route' = [route EXCEPT ![d] = order]

Serving(d, r) == route[d] # <<>> /\ Head(route[d]) = r

Accepted(d, r) == d \in Writers \/ r \in matched

(* ... and serves the copy with no lock held. *)
Serve(d) ==
    /\ route[d] # <<>>
    /\ LET r == Head(route[d])
       IN  \/ ~Accepted(d, r) /\ UNCHANGED chan
           \/ Accepted(d, r) /\ \E n \in Enqueued(r) : chan' = [chan EXCEPT ![r] = n]
    /\ route' = [route EXCEPT ![d] = Tail(@)]
    /\ UNCHANGED <<readerVars, chanClosed, writerVars, closeVars, dataVars,
                   readers, hasLast, samples>>

(* data_loop(): a datagram arrives and the loop has not been told to stop. *)
ReceiveSample ==
    /\ data = "recv" /\ dataRunning
    /\ samples < MaxSamples /\ samples' = samples + 1
    /\ data' = "deliver"
    /\ Snapshot(DataLoop)
    /\ UNCHANGED <<readerVars, chanVars, writerVars, closeVars, dataRunning,
                   readers, hasLast>>

DispatchDone ==
    /\ data = "deliver" /\ route[DataLoop] = <<>>
    /\ data' = "recv"
    /\ UNCHANGED <<readerVars, chanVars, writerVars, closeVars, dataRunning,
                   readers, hasLast, route, samples>>

(* recv() times out every quarter of a second; then the flag is read. *)
DataLoopExits ==
    /\ data = "recv" /\ ~dataRunning
    /\ data' = "exited"
    /\ UNCHANGED <<readerVars, chanVars, writerVars, closeVars, dataRunning,
                   readers, hasLast, route, samples>>

-----------------------------------------------------------------------------
(* Writers.                                                                *)

WrGoes(w, from, to) == wr[w] = from /\ wr' = [wr EXCEPT ![w] = to]

notWriter == <<readerVars, chanVars, closeVars, dataVars, readers>>

(* new_publisher(): the closed check; the Writer, whose constructor starts *)
(* the heartbeat thread; then writers_.                                    *)
NewPublisher(w) ==
    /\ WrGoes(w, "none", "checked") /\ ~closed
    /\ UNCHANGED <<notWriter, wrClosed, hb, writers, hasLast, route, samples>>

MakeWriter(w) ==
    /\ WrGoes(w, "checked", "made")
    /\ hb' = [hb EXCEPT ![w] = IF w \in Reliable THEN "running" ELSE "off"]
    /\ UNCHANGED <<notWriter, wrClosed, writers, hasLast, route, samples>>

RegisterWriter(w) ==
    /\ WrGoes(w, "made", "idle")
    /\ writers' = writers \cup {w}
    /\ UNCHANGED <<notWriter, wrClosed, hb, hasLast, route, samples>>

(* write(): refused when the writer or the participant is closed. *)
WriteBegin(w) ==
    /\ WrGoes(w, "idle", IF w \in Durable THEN "store" ELSE "snapshot")
    /\ w \notin wrClosed /\ ~closed
    /\ samples < MaxSamples /\ samples' = samples + 1
    /\ UNCHANGED <<notWriter, wrClosed, hb, writers, hasLast, route>>

StoreLast(w) ==
    /\ WrGoes(w, "store", "snapshot")
    /\ hasLast' = TRUE
    /\ UNCHANGED <<notWriter, wrClosed, hb, writers, route, samples>>

DispatchLocal(w) ==
    /\ WrGoes(w, "snapshot", "deliver")
    /\ Snapshot(w)
    /\ UNCHANGED <<notWriter, wrClosed, hb, writers, hasLast, samples>>

(* The DATA and the HEARTBEAT are sent; UDP sends do not wait. *)
WriteEnd(w) ==
    /\ WrGoes(w, "deliver", "idle") /\ route[w] = <<>>
    /\ UNCHANGED <<notWriter, wrClosed, hb, writers, hasLast, route, samples>>

(* What Writer::close() does first in whichever thread is the first to set *)
(* its closed_: it tells the heartbeat thread to stop.                     *)
StopHeartbeat(w) ==
    /\ wrClosed' = wrClosed \cup {w}
    /\ hb' = [hb EXCEPT ![w] = IF @ = "running" THEN "stopping" ELSE @]

(* It then joins that thread and leaves writers_. *)
Joined(w) == hb[w] \in {"off", "exited"}

(* The owner's close().  *)
CloseWriter(w) ==
    /\ WrGoes(w, "idle", IF w \in wrClosed THEN "gone" ELSE "closing")
    /\ IF w \in wrClosed THEN UNCHANGED <<wrClosed, hb>> ELSE StopHeartbeat(w)
    /\ UNCHANGED <<notWriter, writers, hasLast, route, samples>>

WriterClosed(w) ==
    /\ WrGoes(w, "closing", "gone") /\ Joined(w)
    /\ writers' = writers \ {w}
    /\ UNCHANGED <<notWriter, wrClosed, hb, hasLast, route, samples>>

(* heartbeat_loop() reads the flag every 50 ms. *)
HeartbeatExits(w) ==
    /\ hb[w] = "stopping"
    /\ hb' = [hb EXCEPT ![w] = "exited"]
    /\ UNCHANGED <<notWriter, wr, wrClosed, writers, hasLast, route, samples>>

-----------------------------------------------------------------------------
(* Readers.                                                                *)

RdGoes(r, from, to) == rd[r] = from /\ rd' = [rd EXCEPT ![r] = to]

notReader == <<writerVars, closeVars, dataVars, hasLast, route, samples>>

(* new_subscriber(): the closed check; readers_, from where on samples may *)
(* come; SEDP; for a durable reader the last sample, delivered under its   *)
(* own policy; the caller then has the channel.                            *)
NewSubscriber(r) ==
    /\ RdGoes(r, "none", "checked") /\ ~closed
    /\ \E b \in Asked[r] : policy' = [policy EXCEPT ![r] = b]
    /\ UNCHANGED <<notReader, chanVars, matched, readers>>

RegisterReader(r) ==
    /\ RdGoes(r, "checked", "registered")
    /\ readers' = readers \cup {r}
    /\ UNCHANGED <<notReader, chanVars, matched, policy>>

SedpRegister(r) ==
    /\ RdGoes(r, "registered", "matched")
    /\ matched' = matched \cup {r}
    /\ UNCHANGED <<notReader, chanVars, policy, readers>>

ReadLast(r) ==
    /\ RdGoes(r, "matched", IF r \in Durable /\ hasLast THEN "replay" ELSE "live")
    /\ UNCHANGED <<notReader, chanVars, matched, policy, readers>>

Replay(r) ==
    /\ RdGoes(r, "replay", "live")
    /\ \E n \in Enqueued(r) : chan' = [chan EXCEPT ![r] = n]
    /\ UNCHANGED <<notReader, chanClosed, matched, policy, readers>>

(* The owner has the channel and may or may not read it. *)
Recv(r) ==
    /\ rd[r] \in {"live", "unsubscribing", "erased", "gone"}
    /\ chan[r] > 0
    /\ chan' = [chan EXCEPT ![r] = @ - 1]
    /\ UNCHANGED <<notReader, readerVars, chanClosed, readers>>

Unsubscribe(r) ==
    /\ RdGoes(r, "live", "unsubscribing")
    /\ UNCHANGED <<notReader, chanVars, matched, policy, readers>>

(* As if dispatch() held readers_mu_ while it delivers. *)
Unregister_WaitsForDispatch(r) ==
    /\ RdGoes(r, "unsubscribing", "erased")
    /\ \A d \in Dispatchers : route[d] = <<>>
    /\ readers' = readers \ {r}
    /\ UNCHANGED <<notReader, chanVars, matched, policy>>

(* unsubscribe(): readers_ is left first, then the channel is closed. *)
Unregister(r) ==
    /\ RdGoes(r, "unsubscribing", "erased")
    /\ readers' = readers \ {r}
    /\ UNCHANGED <<notReader, chanVars, matched, policy>>

CloseChannel_Never(r) ==
    /\ RdGoes(r, "erased", "gone")
    /\ UNCHANGED <<notReader, chanVars, matched, policy, readers>>

CloseChannel(r) ==
    /\ RdGoes(r, "erased", "gone")
    /\ chanClosed' = chanClosed \cup {r}
    /\ UNCHANGED <<notReader, chan, matched, policy, readers>>

-----------------------------------------------------------------------------
(* Participant::close().                                                   *)

notClose == <<readerVars, chan, wr, hasLast, route, samples, ownedR, ownedW>>

CloserGoes(from, to) == closer = from /\ closer' = to

(* The first caller raises closed_; any later one returns at once. *)
Close ==
    /\ CloserGoes("open", "raised") /\ closed' = TRUE
    /\ ownedR' = {r \in Readers : rd[r] = "live"}
    /\ ownedW' = writers \ wrClosed
    /\ UNCHANGED <<readerVars, chanVars, writerVars, dataVars, readers, todo,
                   inside, hasLast, route, samples>>

(* The writers still registered are closed one after the other, unless     *)
(* their owner did or is doing so.                                         *)
TakeWriters ==
    /\ CloserGoes("raised", "writers") /\ todo' = writers
    /\ UNCHANGED <<notClose, chanClosed, closed, inside, readers, wrClosed, hb,
                   writers, dataVars>>

StopWriter(w) ==
    /\ closer = "writers" /\ inside = {} /\ w \in todo
    /\ todo' = todo \ {w}
    /\ \/ w \in wrClosed /\ UNCHANGED <<inside, wrClosed, hb>>
       \/ w \notin wrClosed /\ inside' = {w} /\ StopHeartbeat(w)
    /\ UNCHANGED <<notClose, chanClosed, closed, closer, readers, writers, dataVars>>

JoinWriter_Detaches(w) ==
    /\ w \in inside
    /\ inside' = {} /\ writers' = writers \ {w}
    /\ UNCHANGED <<notClose, chanClosed, closed, closer, todo, readers, wrClosed,
                   hb, dataVars>>

JoinWriter(w) ==
    /\ w \in inside /\ Joined(w)
    /\ inside' = {} /\ writers' = writers \ {w}
    /\ UNCHANGED <<notClose, chanClosed, closed, closer, todo, readers, wrClosed,
                   hb, dataVars>>

(* The bridge loop, then the data loop, which is told to stop ... *)
StopLoops_KeepsFlag ==
    /\ CloserGoes("writers", "loops") /\ todo = {} /\ inside = {}
    /\ UNCHANGED <<notClose, chanClosed, closed, todo, inside, readers, wrClosed, hb,
                   writers, dataVars>>

StopLoops ==
    /\ CloserGoes("writers", "loops") /\ todo = {} /\ inside = {}
    /\ dataRunning' = FALSE
    /\ UNCHANGED <<notClose, chanClosed, closed, todo, inside, readers, wrClosed, hb,
                   writers, data>>

(* ... and joined; then SPDP, SEDP and the sockets. *)
JoinDataLoop ==
    /\ CloserGoes("loops", "sockets") /\ data = "exited"
    /\ UNCHANGED <<notClose, chanClosed, closed, todo, inside, readers, wrClosed, hb,
                   writers, dataVars>>

(* readers_ is emptied into a snapshot, whose channels are closed. *)
TakeReaders ==
    /\ CloserGoes("sockets", "readers")
    /\ todo' = readers /\ readers' = {}
    /\ UNCHANGED <<notClose, chanClosed, closed, inside, wrClosed, hb, writers, dataVars>>

CloseReader_SkipsFull(r) ==
    /\ closer = "readers" /\ r \in todo
    /\ todo' = todo \ {r}
    /\ chanClosed' = IF chan[r] = Depth THEN chanClosed ELSE chanClosed \cup {r}
    /\ UNCHANGED <<notClose, closed, closer, inside, readers, wrClosed, hb, writers,
                   dataVars>>

CloseReader(r) ==
    /\ closer = "readers" /\ r \in todo
    /\ todo' = todo \ {r} /\ chanClosed' = chanClosed \cup {r}
    /\ UNCHANGED <<notClose, closed, closer, inside, readers, wrClosed, hb, writers,
                   dataVars>>

CloseDone ==
    /\ CloserGoes("readers", "closed") /\ todo = {}
    /\ UNCHANGED <<notClose, chanClosed, closed, todo, inside, readers, wrClosed, hb,
                   writers, dataVars>>

-----------------------------------------------------------------------------
DataStep == Serve(DataLoop) \/ DispatchDone \/ DataLoopExits
WriterStep(w) ==
    \/ MakeWriter(w) \/ RegisterWriter(w)
    \/ StoreLast(w) \/ DispatchLocal(w) \/ Serve(w) \/ WriteEnd(w)
    \/ WriterClosed(w)
ReaderStep(r) ==
    \/ RegisterReader(r) \/ SedpRegister(r) \/ ReadLast(r) \/ Replay(r)
    \/ Unregister(r) \/ CloseChannel(r)
CloserStep ==
    \/ TakeWriters \/ StopLoops \/ JoinDataLoop \/ TakeReaders \/ CloseDone
    \/ \E w \in Writers : StopWriter(w) \/ JoinWriter(w)
    \/ \E r \in Readers : CloseReader(r)

Next ==
    \/ ReceiveSample \/ DataStep
    \/ \E w \in Writers : \/ NewPublisher(w) \/ WriterStep(w) \/ WriteBegin(w)
                          \/ CloseWriter(w) \/ HeartbeatExits(w)
    \/ \E r \in Readers : \/ NewSubscriber(r) \/ ReaderStep(r) \/ Recv(r)
                          \/ Unsubscribe(r)
    \/ Close \/ CloserStep

(* Threads inside a call and the background loops keep running.  Nobody is *)
(* obliged to write, to receive, to unsubscribe or to close.               *)
Fairness ==
    /\ WF_vars(DataStep)
    /\ \A w \in Writers : WF_vars(WriterStep(w)) /\ WF_vars(HeartbeatExits(w))
    /\ \A r \in Readers : WF_vars(ReaderStep(r))
    /\ WF_vars(CloserStep)

Safety == Init /\ [][Next]_vars
Spec == Safety /\ Fairness

-----------------------------------------------------------------------------
(* Properties.                                                             *)

(* close() returns with the channel of every subscriber that was open when *)
(* it was called closed, whatever was created, unsubscribed, written or    *)
(* received meanwhile; one that its owner is unsubscribing has at least    *)
(* left readers_.                                                          *)
CloseClosesOwned ==
    closer = "closed" =>
        \A r \in ownedR : \/ r \in chanClosed
                          \/ rd[r] = "erased"

(* No heartbeat thread of a writer that was open when close() was called   *)
(* outlives the call, unless the owner's own close() had taken over the    *)
(* join.                                                                   *)
HeartbeatsStopped ==
    closer = "closed" =>
        \A w \in ownedW : w \in wrClosed /\ (Joined(w) \/ wr[w] = "closing")

(* A dispatch that snapshot a reader before its unsubscribe() delivers     *)
(* nothing to it after unsubscribe() has returned.                         *)
GoneIsQuiet ==
    [][\A r \in Readers : rd[r] = "gone" => chan'[r] <= chan[r]]_vars

(* unsubscribe() always returns, also while a delivery waits for room in   *)
(* the very channel, and that delivery then goes on.                       *)
UnsubscribeReleases ==
    \A r \in Readers :
        rd[r] = "unsubscribing" ~>
            rd[r] = "gone" /\ \A d \in Dispatchers : ~Serving(d, r)

(* close() returns if the data loop is not stuck in a delivery for ever.   *)
CloseReturns ==
    []<>(data # "deliver") => (closed ~> (closer = "closed"))

-----------------------------------------------------------------------------
(* What the documentation says and the code does not do.                   *)

(* HARA.md, SG-001: close() closes every subscriber channel that was       *)
(* already returned, which unblocks any thread in recv().                  *)
CloseUnblocksReaders ==
    \A r \in Readers : (closed /\ r \in ownedR) ~> (r \in chanClosed)
=============================================================================
