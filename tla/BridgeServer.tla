---------------------------- MODULE BridgeServer ----------------------------
(***************************************************************************)
(* The TCP servers of the bridges: an accept loop, a worker thread per     *)
(* connection, and the call that closes the server.  The WAN bridge        *)
(* (src/bridge/wan/wan.cpp) and the REST bridge (bridge/rest/transport.cpp)*)
(* list their open connections to force-close them; the gRPC bridge        *)
(* (bridge/grpc/transport.cpp) keeps no list and waits for its peers.      *)
(*                                                                         *)
(* A worker of the WAN bridge reads frames until something fails and       *)
(* publishes them on publishers of its own; one of the others serves one   *)
(* request, which may stream a subscriber's samples until the server stops.*)
(* What is read and written does not matter here, only what a worker waits *)
(* for:                                                                    *)
(*   "io"       its peer, in a recv or a send of a conversation;           *)
(*   "publish"  the local participant's write(), which waits for the local *)
(*              subscribers of the topic whose policy is Block;            *)
(*   "stream"   at most a polling interval for the next sample;            *)
(*   "send"     its peer, in the send of such a sample;                    *)
(*   "last"     its peer, in the last send of a conversation: an answer, or*)
(*              the end of a stream.                                       *)
(*                                                                         *)
(* A descriptor is a number, which accept() takes from the free ones and   *)
(* close() gives back, whoever uses it for what.                           *)
(***************************************************************************)
EXTENDS Naturals, FiniteSets

CONSTANTS
    Peers,   \* the clients; each connects at most once
    Fds,     \* descriptor numbers for their connections
    Kinds    \* the servers considered, among "wan", "rest" and "grpc"

ASSUME ServerAssumption ==
    /\ Fds \subseteq Nat \ {0}
    /\ Kinds \subseteq {"wan", "rest", "grpc"}

NoPeer == "none"
ASSUME NoPeerAssumption == NoPeer \notin Peers

VARIABLES
    kind,       \* which server this is
    stopping,   \* stopping
    listening,  \* the listening socket is open
    peer,       \* each peer: "away", "here" or "gone"
    backlog,    \* the peers that wait for accept()
    table,      \* the kernel's descriptor table, for the connections
    shut,       \* the peers whose connection was shut down from this side
    acc,        \* the accept loop: its place, connection and descriptor
    conns,      \* conns: the descriptors to force-close, each with the peer
                \* it was added for, which the code does not know; their
                \* order has no effect
    workers,    \* workers: the threads not yet joined, by the peer they serve
    work,       \* each worker thread: its place and descriptor
    pubs,       \* the workers with open publishers of their own
    closer,     \* how far the call that closes the server is
    todo,       \* the entries of conns it has yet to shut down and close
    cur,        \* the descriptor it has shut down and not yet closed
    late,       \* history: peers accepted too late for the list to have them
    erased      \* history: peers whose entry another worker erased

connVars == <<table, shut, conns, todo, cur>>
vars == <<kind, stopping, listening, peer, backlog, connVars, acc, workers, work, pubs,
          closer, late, erased>>

NoFd == 0

Idle == [pc |-> "poll", p |-> NoPeer, fd |-> NoFd]
NoWorker == [pc |-> "none", fd |-> NoFd]

Entries == [p : Peers, fd : Fds]

Lists == kind # "grpc"

(* Workers that serve: they use their descriptor as their connection. *)
Serving(p) == work[p].pc \in {"io", "publish", "stream", "send", "last"}

Places == {"none", "io", "publish", "stream", "send", "last", "pubs", "close", "remove", "done"}

(* Types; and, as long as a connection is not shut down from this side, the *)
(* descriptor of the thread that serves it denotes it and nothing else.     *)
TypeOK ==
    /\ kind \in Kinds
    /\ stopping \in BOOLEAN /\ listening \in BOOLEAN
    /\ peer \in [Peers -> {"away", "here", "gone"}] /\ backlog \subseteq Peers
    /\ table \in [Fds -> Peers \cup {NoPeer}]
    /\ shut \subseteq Peers
    /\ acc \in [pc : {"poll", "check", "accept", "add", "spawn", "exited"},
                p : Peers \cup {NoPeer}, fd : Fds \cup {NoFd}]
    /\ acc.pc \in {"add", "spawn"} => acc.p \in Peers /\ acc.fd \in Fds
    /\ conns \subseteq Entries /\ todo \subseteq Entries
    /\ cur \in Fds \cup {NoFd} /\ (closer = "fd" => cur \in Fds)
    /\ workers \subseteq Peers
    /\ work \in [Peers -> [pc : Places, fd : Fds \cup {NoFd}]]
    /\ \A p \in Peers :
          /\ work[p].pc # "none" => work[p].fd \in Fds
          /\ Serving(p) /\ p \notin shut => table[work[p].fd] = p
    /\ pubs \subseteq Peers
    /\ closer \in {"open", "stopping", "deaf", "conns", "fd", "accept", "workers", "closed"}
    /\ late \subseteq Peers /\ erased \subseteq Peers

Init ==
    /\ kind \in Kinds
    /\ stopping = FALSE /\ listening = TRUE
    /\ peer = [p \in Peers |-> "away"] /\ backlog = {}
    /\ table = [f \in Fds |-> NoPeer] /\ shut = {}
    /\ acc = Idle
    /\ conns = {} /\ todo = {} /\ cur = NoFd
    /\ workers = {} /\ work = [p \in Peers |-> NoWorker] /\ pubs = {}
    /\ closer = "open"
    /\ late = {} /\ erased = {}

-----------------------------------------------------------------------------
(* The peers.                                                              *)

Connect(p) ==
    /\ peer[p] = "away" /\ listening
    /\ peer' = [peer EXCEPT ![p] = "here"]
    /\ backlog' = backlog \cup {p}
    /\ UNCHANGED <<kind, stopping, listening, connVars, acc, workers, work, pubs,
                   closer, late, erased>>

Leave(p) ==
    /\ peer[p] = "here"
    /\ peer' = [peer EXCEPT ![p] = "gone"]
    /\ UNCHANGED <<kind, stopping, listening, backlog, connVars, acc, workers, work, pubs,
                   closer, late, erased>>

-----------------------------------------------------------------------------
(* The accept loop.                                                        *)

notAccept == <<kind, stopping, listening, peer, closer, todo, cur, shut, pubs, erased>>

AcceptExits ==
    /\ acc.pc \in {"poll", "check"} /\ stopping
    /\ acc' = [acc EXCEPT !.pc = "exited"]
    /\ UNCHANGED <<notAccept, backlog, table, conns, workers, work, late>>

(* wait_readable() finds a connection; on a closed descriptor it does not. *)
Readable ==
    /\ acc.pc = "poll" /\ listening
    /\ backlog # {}
    /\ acc' = [acc EXCEPT !.pc = "check"]
    /\ UNCHANGED <<notAccept, backlog, table, conns, workers, work, late>>

CheckStopping ==
    /\ acc.pc = "check" /\ ~stopping
    /\ acc' = [acc EXCEPT !.pc = "accept"]
    /\ UNCHANGED <<notAccept, backlog, table, conns, workers, work, late>>

(* accept() fails when the socket is closed or there is no descriptor, and *)
(* else takes the lowest one that is free.                                 *)
AcceptFails ==
    /\ acc.pc = "accept"
    /\ \/ ~listening
       \/ \A f \in Fds : table[f] # NoPeer
    /\ acc' = [acc EXCEPT !.pc = IF stopping THEN "exited" ELSE "poll"]
    /\ UNCHANGED <<notAccept, backlog, table, conns, workers, work, late>>

Accept(p) ==
    /\ acc.pc = "accept" /\ listening /\ p \in backlog
    /\ \E f \in Fds :
          /\ table[f] = NoPeer
          /\ \A g \in Fds : table[g] = NoPeer => f <= g
          /\ table' = [table EXCEPT ![f] = p]
          /\ acc' = [pc |-> IF Lists THEN "add" ELSE "spawn", p |-> p, fd |-> f]
    /\ backlog' = backlog \ {p}
    /\ UNCHANGED <<notAccept, conns, workers, work, late>>

ConnsMuFree == closer \notin {"conns", "fd"}

(* add_conn() *)
AddConn ==
    /\ acc.pc = "add" /\ ConnsMuFree
    /\ conns' = conns \cup {[p |-> acc.p, fd |-> acc.fd]}
    /\ acc' = [acc EXCEPT !.pc = "spawn"]
    /\ late' = IF closer \in {"accept", "workers", "closed"}
               THEN late \cup {acc.p} ELSE late
    /\ UNCHANGED <<notAccept, backlog, table, workers, work>>

Done(p) == work[p].pc = "done"

Spawn_DropsWorkers ==
    /\ acc.pc = "spawn"
    /\ workers' = {acc.p}
    /\ work' = [work EXCEPT ![acc.p] = [pc |-> "io", fd |-> acc.fd]]
    /\ acc' = Idle
    /\ UNCHANGED <<notAccept, backlog, table, conns, late>>

(* The workers that are done are joined and dropped, and a new one starts. *)
Spawn ==
    /\ acc.pc = "spawn"
    /\ workers' = {p \in workers : ~Done(p)} \cup {acc.p}
    /\ work' = [work EXCEPT ![acc.p] = [pc |-> "io", fd |-> acc.fd]]
    /\ acc' = Idle
    /\ UNCHANGED <<notAccept, backlog, table, conns, late>>

AcceptStep ==
    \/ AcceptExits \/ Readable \/ CheckStopping \/ AcceptFails \/ AddConn \/ Spawn
    \/ \E p \in Peers : Accept(p)

-----------------------------------------------------------------------------
(* The workers.                                                            *)

notWorker == <<kind, stopping, listening, peer, backlog, acc, workers, closer, todo,
               cur, shut, late>>

WorkerGoes(p, from, to) ==
    /\ work[p].pc = from
    /\ work' = [work EXCEPT ![p].pc = to]

(* A worker leaves its loop by way of its publishers, if it has any.       *)
Exit == IF kind = "wan" THEN "pubs" ELSE "close"

(* A stream of the REST bridge ends with a terminator, also when it ends   *)
(* because the server stops; gRPC's ends with the connection.              *)
StreamExit == IF kind = "rest" THEN "last" ELSE "close"

(* The peer does its part.  The WAN bridge has a frame, and publishes it on*)
(* the publisher it has or makes for the topic; a bad frame ends it.  A    *)
(* request of the others is published, becomes a stream of samples, or is  *)
(* answered; the stream goes on when its sample is sent.                   *)
Served(p) ==
    /\ \/ /\ WorkerGoes(p, "io", "publish")
          /\ pubs' = IF kind = "wan" THEN pubs \cup {p} ELSE pubs
       \/ /\ \E to \in IF kind = "wan" THEN {Exit} ELSE {"stream", "last", Exit} :
                WorkerGoes(p, "io", to)
          /\ pubs' = pubs
       \/ (WorkerGoes(p, "send", "stream") \/ WorkerGoes(p, "last", Exit)) /\ pubs' = pubs
    /\ UNCHANGED <<notWorker, table, conns, erased>>

(* pub->write() returns: the local subscribers have, or had, room for the  *)
(* sample.  That ending the connection does not bring about.  The WAN      *)
(* bridge and gRPC's StreamPublish read on, or end on an error.            *)
Written(p) ==
    /\ \E to \in CASE kind = "wan" -> {"io", Exit}
                   [] kind = "rest" -> {"last"}
                   [] kind = "grpc" -> {"io", "last"} :
          WorkerGoes(p, "publish", to)
    /\ UNCHANGED <<notWorker, table, conns, pubs, erased>>

(* recv() and send() fail once the connection ends on either side. *)
IOFails(p) ==
    /\ peer[p] = "gone" \/ p \in shut
    /\ \E from \in {"io", "send", "last"} : WorkerGoes(p, from, Exit)
    /\ UNCHANGED <<notWorker, table, conns, pubs, erased>>

StreamStep_IgnoresStopping(p) ==
    /\ work[p].pc = "stream"
    /\ \E to \in {"stream", "send", StreamExit} : WorkerGoes(p, "stream", to)
    /\ UNCHANGED <<notWorker, table, conns, pubs, erased>>

(* One turn of run_sse_loop() and Bridge::subscribe(): the stop flag, then *)
(* a sample to send, or the end of the subscriber's channel.               *)
StreamStep(p) ==
    /\ \/ ~stopping /\ WorkerGoes(p, "stream", "send")
       \/ WorkerGoes(p, "stream", StreamExit)
    /\ UNCHANGED <<notWorker, table, conns, pubs, erased>>

ClosePubs(p) ==
    /\ WorkerGoes(p, "pubs", "close")
    /\ pubs' = pubs \ {p}
    /\ UNCHANGED <<notWorker, table, conns, erased>>

(* close_native(): whatever the number denotes by now. *)
CloseFd(p) ==
    /\ WorkerGoes(p, "close", IF Lists THEN "remove" ELSE "done")
    /\ table' = [table EXCEPT ![work[p].fd] = NoPeer]
    /\ UNCHANGED <<notWorker, conns, pubs, erased>>

(* remove_conn() erases every entry with the number, also the one of a     *)
(* connection that got the number since.                                   *)
RemoveConn(p) ==
    /\ ConnsMuFree
    /\ WorkerGoes(p, "remove", "done")
    /\ conns' = {e \in conns : e.fd # work[p].fd}
    /\ erased' = erased \cup {q \in Peers \ {p} : [p |-> q, fd |-> work[p].fd] \in conns}
    /\ UNCHANGED <<notWorker, table, pubs>>

WorkerStep(p) ==
    IOFails(p) \/ StreamStep(p) \/ ClosePubs(p) \/ CloseFd(p) \/ RemoveConn(p)

-----------------------------------------------------------------------------
(* Bridge::close(), Server::close() and Server::stop().                    *)

notCloser == <<kind, peer, acc, workers, work, pubs, late, erased>>

CloserGoes(from, to) == closer = from /\ closer' = to

Close ==
    /\ CloserGoes("open", "stopping")
    /\ stopping' = TRUE
    /\ UNCHANGED <<notCloser, listening, backlog, connVars>>

(* The kernel resets whoever waits for accept().  gRPC's stop() has nothing *)
(* to force-close.                                                          *)
CloseListen ==
    /\ CloserGoes("stopping", IF Lists THEN "deaf" ELSE "accept")
    /\ listening' = FALSE /\ backlog' = {}
    /\ UNCHANGED <<notCloser, stopping, connVars>>

TakeConns_AllButOne ==
    /\ CloserGoes("deaf", "conns")
    /\ \E e \in conns : todo' = conns \ {e}
    /\ UNCHANGED <<notCloser, stopping, listening, backlog, table, shut, conns, cur>>

(* close_all_conns() takes conns_mu and goes through the list. *)
TakeConns ==
    /\ CloserGoes("deaf", "conns")
    /\ todo' = conns
    /\ UNCHANGED <<notCloser, stopping, listening, backlog, table, shut, conns, cur>>

(* shutdown_both() ends the connection that the number denotes, if any ... *)
ShutdownNext ==
    /\ CloserGoes("conns", "fd")
    /\ \E e \in todo :
          /\ todo' = todo \ {e} /\ cur' = e.fd
          /\ shut' = shut \cup ({table[e.fd]} \ {NoPeer})
    /\ UNCHANGED <<notCloser, stopping, listening, backlog, table, conns>>

(* ... and close_native() gives the number back. *)
CloseNext ==
    /\ CloserGoes("fd", "conns")
    /\ table' = [table EXCEPT ![cur] = NoPeer]
    /\ cur' = NoFd
    /\ UNCHANGED <<notCloser, stopping, listening, backlog, shut, conns, todo>>

ConnsClosed ==
    /\ CloserGoes("conns", "accept") /\ todo = {}
    /\ conns' = {}
    /\ UNCHANGED <<notCloser, stopping, listening, backlog, table, shut, todo, cur>>

JoinAccept ==
    /\ CloserGoes("accept", "workers") /\ acc.pc = "exited"
    /\ UNCHANGED <<notCloser, stopping, listening, backlog, connVars>>

JoinWorkers ==
    /\ CloserGoes("workers", "closed")
    /\ \A p \in workers : Done(p)
    /\ workers' = {}
    /\ UNCHANGED <<kind, peer, acc, work, pubs, late, erased, stopping, listening,
                   backlog, connVars>>

CloserStep ==
    \/ CloseListen \/ TakeConns \/ ShutdownNext \/ CloseNext \/ ConnsClosed
    \/ JoinAccept \/ JoinWorkers

-----------------------------------------------------------------------------
Next ==
    \/ \E p \in Peers : Connect(p) \/ Leave(p) \/ Served(p) \/ Written(p) \/ WorkerStep(p)
    \/ AcceptStep
    \/ Close \/ CloserStep

(* Every thread goes on, and on a connection that has ended only so much is*)
(* left to read.  No peer is obliged to do anything, no local subscriber to*)
(* take its samples, and nobody to close the server.                       *)
Fairness ==
    /\ WF_vars(AcceptStep) /\ WF_vars(CloserStep)
    /\ \A p \in Peers : WF_vars(WorkerStep(p)) /\ SF_vars(IOFails(p))

Safety == Init /\ [][Next]_vars
Spec == Safety /\ Fairness

-----------------------------------------------------------------------------
(* Properties.                                                             *)

(* When the call that closes the server has returned, and the server may   *)
(* be destroyed, its accept loop and all its workers have ended, those     *)
(* accepted during the call included, and their publishers are closed.     *)
NobodyOutlivesClose ==
    closer = "closed" =>
        /\ acc.pc = "exited"
        /\ \A p \in Peers : work[p].pc \in {"none", "done"}
        /\ pubs = {}

(* Past close_all_conns() every connection still served was shut down, but *)
(* for two races: one accepted before the listening socket was closed was  *)
(* listed too late, or the entry was erased by the worker that had the     *)
(* descriptor before.                                                      *)
OnlyRacesSlip ==
    Lists /\ closer \in {"accept", "workers", "closed"} =>
        {p \in Peers : Serving(p)} \subseteq shut \cup late \cup erased

(* A worker on a connection that nobody has shut down waits for its peer. *)
HeldByPeer(p) == work[p].pc \in {"io", "send", "last"} /\ p \notin shut /\ peer[p] = "here"

(* A worker waits in write(), whatever has become of its connection. *)
HeldByReader(p) == work[p].pc = "publish"

(* The call that closes the server returns, unless a worker is for ever    *)
(* held up: by a peer that stays, on a connection that was not shut down - *)
(* all of gRPC's are such, and of the others only those that slipped - or  *)
(* in a write() that a local subscriber with a full Block channel holds up,*)
(* which shutting the connection down does not end.                        *)
CloseReturns ==
    (\A p \in Peers : []<>~(HeldByPeer(p) \/ HeldByReader(p))) =>
        (closer = "stopping" ~> closer = "closed")
=============================================================================
