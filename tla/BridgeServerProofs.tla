------------------------- MODULE BridgeServerProofs -------------------------
(***************************************************************************)
(* BridgeServer is correct for any number of peers and descriptors, and    *)
(* WanLink, the instance Link of MCBridges, for any topics, tokens, channel*)
(* capacity and number of samples.                                         *)
(*                                                                         *)
(* TypeOK contains that a number denotes, to the worker that serves on it, *)
(* its own connection until close() shuts that down, although a worker and *)
(* close() may both close the number.  That rests on close() having closed *)
(* the listening socket first: a number closed twice is then not given out *)
(* in between.                                                             *)
(*                                                                         *)
(* Of the server's close() and of the client's it is shown for whom they   *)
(* can wait, and of the client that neither a connect() that fails nor     *)
(* close() leaves anything behind.                                         *)
(***************************************************************************)
EXTENDS MCBridges, Integers, SequenceTheorems, TLAPS

-----------------------------------------------------------------------------
(* The invariants.                                                         *)

(* Peer p is being accepted, or its worker has not closed its descriptor.  *)
Accepting(p) == acc.pc \in {"add", "spawn"} /\ acc.p = p
Using(p) == Serving(p) \/ work[p].pc \in {"pubs", "close"}

(* The number a connection uses is its own, or was closed by close().      *)
Own(p, f) == table[f] = p \/ (table[f] = NoPeer /\ p \in shut)

(* TypeOK without its consequence of FdInv. *)
Types ==
    /\ kind \in Kinds
    /\ stopping \in BOOLEAN /\ listening \in BOOLEAN
    /\ peer \in [Peers -> {"away", "here", "gone"}] /\ backlog \subseteq Peers
    /\ table \in [Fds -> Peers \cup {NoPeer}]
    /\ shut \subseteq Peers
    /\ acc \in [pc : {"poll", "check", "accept", "add", "spawn", "exited"},
                p : Peers \cup {NoPeer}, fd : Fds \cup {NoFd}]
    /\ acc.pc \in {"add", "spawn"} => acc.p \in Peers /\ acc.fd \in Fds
    /\ conns \subseteq Entries /\ todo \subseteq Entries
    /\ cur \in Fds \cup {NoFd} /\ (closer = "fd" => cur \in Fds)
    /\ workers \subseteq Peers
    /\ work \in [Peers -> [pc : Places, fd : Fds \cup {NoFd}]]
    /\ \A p \in Peers : work[p].pc # "none" => work[p].fd \in Fds
    /\ pubs \subseteq Peers
    /\ closer \in {"open", "stopping", "deaf", "conns", "fd", "accept", "workers", "closed"}
    /\ late \subseteq Peers /\ erased \subseteq Peers

FdInv ==
    /\ \A p \in Peers : Using(p) => Own(p, work[p].fd)
    /\ \A p \in Peers : Accepting(p) => Own(p, acc.fd) /\ work[p].pc = "none"
    /\ \A p \in Peers : p \in backlog \/ peer[p] = "away" =>
                            work[p].pc = "none" /\ ~Accepting(p)
    /\ backlog \subseteq {p \in Peers : peer[p] # "away"}
    /\ shut # {} \/ closer \notin {"open", "stopping"} => ~listening
    /\ closer = "fd" => table[cur] \in shut \cup {NoPeer}

(* What joining the threads rests on. *)
JoinInv ==
    /\ \A p \in Peers : work[p].pc \notin {"none", "done"} => p \in workers
    /\ closer \in {"workers", "closed"} => acc.pc = "exited"
    /\ closer = "closed" => \A p \in Peers : work[p].pc \in {"none", "done"}
    /\ \A p \in pubs : kind = "wan" /\ work[p].pc \in {"io", "publish", "pubs"}
    /\ \A p \in Peers : work[p].pc \in {"stream", "send", "last"} => kind # "wan"

(* A connection in use is on the list, or still in close()'s copy of it,   *)
(* or slipped.                                                             *)
Slipped == shut \cup late \cup erased
SlipInv ==
    Lists => \A p \in Peers :
        /\ Serving(p) =>
              \/ p \in Slipped
              \/ closer \in {"open", "stopping", "deaf"}
                    /\ [p |-> p, fd |-> work[p].fd] \in conns
              \/ closer \in {"conns", "fd"} /\ [p |-> p, fd |-> work[p].fd] \in todo
        /\ acc.pc = "spawn" /\ acc.p = p =>
              \/ p \in Slipped
              \/ closer \in {"open", "stopping", "deaf"}
                    /\ [p |-> p, fd |-> acc.fd] \in conns
              \/ closer \in {"conns", "fd"} /\ [p |-> p, fd |-> acc.fd] \in todo

-----------------------------------------------------------------------------
(* What the steps of a thread have in common.                              *)

(* The worker of p goes on from one place to one of others.               *)
Moves(p, from, tos) ==
    /\ work' \in [Peers -> [pc : Places, fd : Fds \cup {NoFd}]]
    /\ work[p].pc = from /\ work[p].fd \in Fds
    /\ work'[p].pc \in tos /\ work'[p].fd = work[p].fd
    /\ \A q \in Peers \ {p} : work'[q] = work[q]
    /\ UNCHANGED notWorker

(* WorkerGoes in the terms the proofs use. *)
LEMMA GoesMoves ==
    ASSUME Types, NEW p \in Peers, NEW from \in Places \ {"none"},
           NEW tos \in SUBSET Places, NEW to \in tos, WorkerGoes(p, from, to),
           UNCHANGED notWorker
    PROVE  Moves(p, from, tos)
  BY DEF WorkerGoes, Types, Places, Moves

(* The worker of p goes on with its conversation, or ends it. *)
Talks(p) ==
    /\ work' \in [Peers -> [pc : Places, fd : Fds \cup {NoFd}]]
    /\ Serving(p) /\ work[p].fd \in Fds
    /\ work'[p].fd = work[p].fd
    /\ \/ work'[p].pc \in {"io", "publish", Exit}
       \/ work'[p].pc \in {"stream", "send", "last", "close"} /\ kind # "wan"
       \/ work'[p].pc \in {"stream", "send", "last", "close"}
             /\ work[p].pc \in {"stream", "send", "last"}
    /\ \A q \in Peers \ {p} : work'[q] = work[q]
    /\ pubs' = pubs \/ (kind = "wan" /\ pubs' = pubs \cup {p} /\ work'[p].pc = "publish")
    /\ UNCHANGED <<notWorker, table, conns, erased>>

(* Where the steps of a worker lead from and to. *)
LEMMA WorkerTalks ==
    ASSUME Types, NEW p \in Peers,
           Served(p) \/ Written(p) \/ IOFails(p) \/ StreamStep(p)
    PROVE  Talks(p)
  <1>1. CASE Served(p)
    BY <1>1 DEF Served, WorkerGoes, Exit, Talks, Types, Places, Serving
  <1>2. CASE Written(p)
    <2>1. PICK to \in {"io", "last", Exit} :
              WorkerGoes(p, "publish", to) /\ (to = "last" => kind # "wan")
      <3>1. kind \in {"wan", "rest", "grpc"}
        BY ServerAssumption DEF Types
      <3>2. CASE kind = "wan"
        BY <1>2, <3>2 DEF Written, Exit
      <3>3. CASE kind = "rest"
        BY <1>2, <3>3 DEF Written
      <3>4. CASE kind = "grpc"
        BY <1>2, <3>4 DEF Written
      <3> QED
        BY <3>1, <3>2, <3>3, <3>4
    <2>2. UNCHANGED <<notWorker, table, conns, pubs, erased>>
      BY <1>2 DEF Written
    <2> QED
      BY <2>1, <2>2 DEF WorkerGoes, Exit, Talks, Types, Places, Serving
  <1>3. CASE IOFails(p)
    BY <1>3 DEF IOFails, WorkerGoes, Exit, Talks, Types, Places, Serving
  <1>4. CASE StreamStep(p)
    BY <1>4 DEF StreamStep, StreamExit, WorkerGoes, Exit, Talks, Types, Places, Serving
  <1> QED
    BY <1>1, <1>2, <1>3, <1>4

LEMMA WorkerMoves ==
    ASSUME Types, NEW p \in Peers
    PROVE  /\ ClosePubs(p) => Moves(p, "pubs", {"close"})
           /\ CloseFd(p) => Moves(p, "close", {"remove", "done"})
           /\ RemoveConn(p) => Moves(p, "remove", {"done"})
  <1>1. ClosePubs(p) => Moves(p, "pubs", {"close"})
    BY GoesMoves DEF ClosePubs, Places
  <1>2. CloseFd(p) => Moves(p, "close", {"remove", "done"})
    BY GoesMoves DEF CloseFd, Places
  <1>3. RemoveConn(p) => Moves(p, "remove", {"done"})
    BY GoesMoves DEF RemoveConn, Places
  <1> QED
    BY <1>1, <1>2, <1>3

(* Spawn starts one worker, for the connection accepted, and polls again. *)
LEMMA WorkerStarts ==
    ASSUME Types, Spawn
    PROVE  /\ work' \in [Peers -> [pc : Places, fd : Fds \cup {NoFd}]]
           /\ acc.p \in Peers /\ acc.fd \in Fds
           /\ work'[acc.p].pc = "io" /\ work'[acc.p].fd = acc.fd
           /\ \A q \in Peers \ {acc.p} : work'[q] = work[q]
           /\ acc'.pc = "poll" /\ acc'.fd = NoFd /\ acc' = Idle
  BY DEF Spawn, Types, Places, Idle

(* The other steps of the accept loop only move it. *)
LEMMA AcceptMoves ==
    ASSUME Types,
           AcceptExits \/ Readable \/ CheckStopping \/ AcceptFails \/ AddConn
    PROVE  /\ acc' \in [pc : {"poll", "check", "accept", "add", "spawn", "exited"},
                         p : Peers \cup {NoPeer}, fd : Fds \cup {NoFd}]
           /\ acc'.p = acc.p /\ acc'.fd = acc.fd
           /\ acc'.pc \notin {"add"}
           /\ acc'.pc = "spawn" => acc.pc = "add"
           /\ work' = work /\ table' = table /\ backlog' = backlog
  BY DEF AcceptExits, Readable, CheckStopping, AcceptFails, AddConn, Types, notAccept

(* Types. *)
LEMMA TypesStep == Types /\ [Next]_vars => Types'
  <1> SUFFICES ASSUME Types, [Next]_vars PROVE Types'
    OBVIOUS
  <1> USE DEF Types
  <1>1. ASSUME NEW p \in Peers, Connect(p) PROVE Types'
    BY <1>1 DEF Connect, connVars
  <1>2. ASSUME NEW p \in Peers, Leave(p) PROVE Types'
    BY <1>2 DEF Leave, connVars
  <1>3. ASSUME NEW p \in Peers, Served(p) \/ Written(p) \/ IOFails(p) \/ StreamStep(p)
        PROVE  Types'
    <2>1. Talks(p)
      BY <1>3, WorkerTalks
    <2> QED
      BY <2>1, SMTT(30) DEF Talks, Places, notWorker, Exit
  <1>6. ASSUME NEW p \in Peers, ClosePubs(p) PROVE Types'
    <2>1. Moves(p, "pubs", {"close"})
      BY <1>6, WorkerMoves
    <2>2. pubs' = pubs \ {p} /\ UNCHANGED <<table, conns, erased>>
      BY <1>6 DEF ClosePubs
    <2> QED
      BY <2>1, <2>2, SMTT(30) DEF Moves, Places, notWorker
  <1>7. ASSUME NEW p \in Peers, CloseFd(p) PROVE Types'
    <2>1. Moves(p, "close", {"remove", "done"})
      BY <1>7, WorkerMoves
    <2>2. /\ table' = [table EXCEPT ![work[p].fd] = NoPeer]
          /\ UNCHANGED <<conns, pubs, erased>>
      BY <1>7 DEF CloseFd
    <2> QED
      BY <2>1, <2>2, SMTT(30) DEF Moves, Places, notWorker
  <1>8. ASSUME NEW p \in Peers, RemoveConn(p) PROVE Types'
    <2>1. Moves(p, "remove", {"done"})
      BY <1>8, WorkerMoves
    <2>2. /\ ConnsMuFree
          /\ conns' = {e \in conns : e.fd # work[p].fd}
          /\ erased' = erased \cup {q \in Peers \ {p} : [p |-> q, fd |-> work[p].fd] \in conns}
          /\ UNCHANGED <<table, pubs>>
      BY <1>8 DEF RemoveConn
    <2> QED
      BY <2>1, <2>2, SMTT(30) DEF Moves, Places, notWorker, ConnsMuFree
  <1>9. CASE AcceptExits
    BY <1>9, AcceptMoves DEF AcceptExits, notAccept
  <1>10. CASE Readable
    BY <1>10, AcceptMoves DEF Readable, notAccept
  <1>11. CASE CheckStopping
    BY <1>11, AcceptMoves DEF CheckStopping, notAccept
  <1>12. CASE AcceptFails
    BY <1>12, AcceptMoves DEF AcceptFails, notAccept
  <1>13. CASE AddConn
    BY <1>13, AcceptMoves DEF AddConn, notAccept, Entries, ConnsMuFree
  <1>14. CASE Spawn
    BY <1>14, WorkerStarts DEF Spawn, notAccept, Places, Idle
  <1>15. ASSUME NEW p \in Peers, Accept(p) PROVE Types'
    BY <1>15 DEF Accept, notAccept
  <1>16. CASE Close
    BY <1>16 DEF Close, notCloser, connVars, CloserGoes
  <1>17. CASE CloseListen
    BY <1>17 DEF CloseListen, notCloser, connVars, CloserGoes
  <1>18. CASE TakeConns
    BY <1>18 DEF TakeConns, notCloser, connVars, CloserGoes
  <1>19. CASE ShutdownNext
    BY <1>19 DEF ShutdownNext, notCloser, connVars, CloserGoes, Entries
  <1>20. CASE CloseNext
    BY <1>20 DEF CloseNext, notCloser, connVars, CloserGoes
  <1>21. CASE ConnsClosed
    BY <1>21 DEF ConnsClosed, notCloser, connVars, CloserGoes
  <1>22. CASE JoinAccept
    BY <1>22 DEF JoinAccept, notCloser, connVars, CloserGoes
  <1>23. CASE JoinWorkers
    BY <1>23 DEF JoinWorkers, notCloser, connVars, CloserGoes
  <1>24. CASE UNCHANGED vars
    BY <1>24 DEF vars, connVars
  <1> QED
    BY <1>1, <1>2, <1>3, <1>6, <1>7, <1>8, <1>9, <1>10, <1>11, <1>12,
       <1>13, <1>14, <1>15, <1>16, <1>17, <1>18, <1>19, <1>20, <1>21, <1>22, <1>23, <1>24
    DEF Next, WorkerStep, AcceptStep, CloserStep

(* A number is given out again only while the server listens, and close()  *)
(* closes the number of another thread only once it does not.              *)
LEMMA FdStep == Types /\ FdInv /\ [Next]_vars => FdInv'
  <1> SUFFICES ASSUME Types, FdInv, [Next]_vars PROVE FdInv'
    OBVIOUS
  <1> USE DEF FdInv, Types, Accepting, Using, Serving, Own
  <1>1. ASSUME NEW p \in Peers, Connect(p) PROVE FdInv'
    BY <1>1 DEF Connect, connVars
  <1>2. ASSUME NEW p \in Peers, Leave(p) PROVE FdInv'
    BY <1>2 DEF Leave, connVars
  <1>3. ASSUME NEW p \in Peers, Served(p) \/ Written(p) \/ IOFails(p) \/ StreamStep(p)
        PROVE  FdInv'
    <2>1. Talks(p)
      BY <1>3, WorkerTalks
    <2> QED
      BY <2>1, SMTT(30) DEF Talks, Places, notWorker, Exit
  <1>6. ASSUME NEW p \in Peers, ClosePubs(p) PROVE FdInv'
    <2>1. Moves(p, "pubs", {"close"})
      BY <1>6, WorkerMoves
    <2>2. pubs' = pubs \ {p} /\ UNCHANGED <<table, conns, erased>>
      BY <1>6 DEF ClosePubs
    <2>3. /\ work[p].pc = "pubs" /\ work[p].fd \in Fds
          /\ work'[p].pc \in {"close"} /\ work'[p].fd = work[p].fd
          /\ \A q \in Peers \ {p} : work'[q] = work[q]
          /\ UNCHANGED <<listening, peer, backlog, acc, closer, cur, shut>>
      BY <2>1 DEF Moves, notWorker
    <2> QED
      BY <2>2, <2>3
  <1>7. ASSUME NEW p \in Peers, CloseFd(p) PROVE FdInv'
    <2>1. Moves(p, "close", {"remove", "done"})
      BY <1>7, WorkerMoves
    <2>2. /\ table' = [table EXCEPT ![work[p].fd] = NoPeer]
          /\ UNCHANGED <<conns, pubs, erased>>
      BY <1>7 DEF CloseFd
    <2>3. /\ work[p].pc = "close" /\ work[p].fd \in Fds
          /\ work'[p].pc \in {"remove", "done"} /\ work'[p].fd = work[p].fd
          /\ \A q \in Peers \ {p} : work'[q] = work[q]
          /\ UNCHANGED <<listening, peer, backlog, acc, closer, cur, shut>>
      BY <2>1 DEF Moves, notWorker
    <2> QED
      BY <2>2, <2>3
  <1>8. ASSUME NEW p \in Peers, RemoveConn(p) PROVE FdInv'
    <2>1. Moves(p, "remove", {"done"})
      BY <1>8, WorkerMoves
    <2>2. /\ ConnsMuFree
          /\ conns' = {e \in conns : e.fd # work[p].fd}
          /\ erased' = erased \cup {q \in Peers \ {p} : [p |-> q, fd |-> work[p].fd] \in conns}
          /\ UNCHANGED <<table, pubs>>
      BY <1>8 DEF RemoveConn
    <2> QED
      BY <2>1, <2>2, SMTT(30) DEF Moves, Places, notWorker, ConnsMuFree
  <1>9. CASE AcceptExits
    BY <1>9, AcceptMoves DEF AcceptExits, notAccept
  <1>10. CASE Readable
    BY <1>10, AcceptMoves DEF Readable, notAccept
  <1>11. CASE CheckStopping
    BY <1>11, AcceptMoves DEF CheckStopping, notAccept
  <1>12. CASE AcceptFails
    BY <1>12, AcceptMoves DEF AcceptFails, notAccept
  <1>13. CASE AddConn
    BY <1>13, AcceptMoves DEF AddConn, notAccept, Entries, ConnsMuFree
  <1>14. CASE Spawn
    BY <1>14, WorkerStarts DEF Spawn, notAccept, Places, Idle
  <1>15. ASSUME NEW p \in Peers, Accept(p) PROVE FdInv'
    <2>1. PICK f \in Fds :
              /\ table[f] = NoPeer
              /\ table' = [table EXCEPT ![f] = p]
              /\ acc' = [pc |-> IF Lists THEN "add" ELSE "spawn", p |-> p, fd |-> f]
      BY <1>15 DEF Accept
    <2>2. /\ table'[f] = p /\ \A g \in Fds \ {f} : table'[g] = table[g]
          /\ acc'.p = p /\ acc'.fd = f
      BY <2>1 DEF Types
    <2>3. /\ p \in backlog /\ backlog' = backlog \ {p} /\ acc.pc = "accept" /\ listening
          /\ UNCHANGED <<work, peer, listening, closer, cur, shut>>
      BY <1>15 DEF Accept, notAccept
    <2>4. \A q \in Peers : Using(q) => work[q].fd # f /\ work[q].fd \in Fds
      BY <2>1, <2>3, NoPeerAssumption DEF Using, Serving, Own, Types
    <2> QED
      BY <2>1, <2>2, <2>3, <2>4 DEF Types, Accepting, Using, Serving, Own
  <1>16. CASE Close
    BY <1>16 DEF Close, notCloser, connVars, CloserGoes
  <1>17. CASE CloseListen
    BY <1>17 DEF CloseListen, notCloser, connVars, CloserGoes
  <1>18. CASE TakeConns
    BY <1>18 DEF TakeConns, notCloser, connVars, CloserGoes
  <1>19. CASE ShutdownNext
    BY <1>19 DEF ShutdownNext, notCloser, connVars, CloserGoes, Entries
  <1>20. CASE CloseNext
    BY <1>20 DEF CloseNext, notCloser, connVars, CloserGoes
  <1>21. CASE ConnsClosed
    BY <1>21 DEF ConnsClosed, notCloser, connVars, CloserGoes
  <1>22. CASE JoinAccept
    BY <1>22 DEF JoinAccept, notCloser, connVars, CloserGoes
  <1>23. CASE JoinWorkers
    BY <1>23 DEF JoinWorkers, notCloser, connVars, CloserGoes
  <1>24. CASE UNCHANGED vars
    BY <1>24 DEF vars, connVars
  <1> QED
    BY <1>1, <1>2, <1>3, <1>6, <1>7, <1>8, <1>9, <1>10, <1>11, <1>12,
       <1>13, <1>14, <1>15, <1>16, <1>17, <1>18, <1>19, <1>20, <1>21, <1>22, <1>23, <1>24
    DEF Next, WorkerStep, AcceptStep, CloserStep

(* The accept loop adds a worker before it starts it and drops only those  *)
(* that are done; close() joins the accept loop before the workers.        *)
LEMMA JoinStep == Types /\ FdInv /\ JoinInv /\ [Next]_vars => JoinInv'
  <1> SUFFICES ASSUME Types, FdInv, JoinInv, [Next]_vars PROVE JoinInv'
    OBVIOUS
  <1> USE DEF JoinInv, Types, FdInv, Accepting, Done
  <1>1. ASSUME NEW p \in Peers, Connect(p) PROVE JoinInv'
    BY <1>1 DEF Connect, connVars
  <1>2. ASSUME NEW p \in Peers, Leave(p) PROVE JoinInv'
    BY <1>2 DEF Leave, connVars
  <1>3. ASSUME NEW p \in Peers, Served(p) \/ Written(p) \/ IOFails(p) \/ StreamStep(p)
        PROVE  JoinInv'
    <2>1. Talks(p)
      BY <1>3, WorkerTalks
    <2> QED
      BY <2>1, SMTT(30) DEF Talks, Places, notWorker, Exit, Serving
  <1>6. ASSUME NEW p \in Peers, ClosePubs(p) PROVE JoinInv'
    <2>1. Moves(p, "pubs", {"close"})
      BY <1>6, WorkerMoves
    <2>2. pubs' = pubs \ {p} /\ UNCHANGED <<table, conns, erased>>
      BY <1>6 DEF ClosePubs
    <2> QED
      BY <2>1, <2>2, SMTT(30) DEF Moves, Places, notWorker
  <1>7. ASSUME NEW p \in Peers, CloseFd(p) PROVE JoinInv'
    <2>1. Moves(p, "close", {"remove", "done"})
      BY <1>7, WorkerMoves
    <2>2. /\ table' = [table EXCEPT ![work[p].fd] = NoPeer]
          /\ UNCHANGED <<conns, pubs, erased>>
      BY <1>7 DEF CloseFd
    <2> QED
      BY <2>1, <2>2, SMTT(30) DEF Moves, Places, notWorker
  <1>8. ASSUME NEW p \in Peers, RemoveConn(p) PROVE JoinInv'
    <2>1. Moves(p, "remove", {"done"})
      BY <1>8, WorkerMoves
    <2>2. /\ ConnsMuFree
          /\ conns' = {e \in conns : e.fd # work[p].fd}
          /\ erased' = erased \cup {q \in Peers \ {p} : [p |-> q, fd |-> work[p].fd] \in conns}
          /\ UNCHANGED <<table, pubs>>
      BY <1>8 DEF RemoveConn
    <2> QED
      BY <2>1, <2>2, SMTT(30) DEF Moves, Places, notWorker, ConnsMuFree
  <1>9. CASE AcceptExits
    BY <1>9, AcceptMoves DEF AcceptExits, notAccept
  <1>10. CASE Readable
    BY <1>10, AcceptMoves DEF Readable, notAccept
  <1>11. CASE CheckStopping
    BY <1>11, AcceptMoves DEF CheckStopping, notAccept
  <1>12. CASE AcceptFails
    BY <1>12, AcceptMoves DEF AcceptFails, notAccept
  <1>13. CASE AddConn
    BY <1>13, AcceptMoves DEF AddConn, notAccept, Entries, ConnsMuFree
  <1>14. CASE Spawn
    BY <1>14, WorkerStarts DEF Spawn, notAccept, Places, Idle
  <1>15. ASSUME NEW p \in Peers, Accept(p) PROVE JoinInv'
    BY <1>15 DEF Accept, notAccept
  <1>16. CASE Close
    BY <1>16 DEF Close, notCloser, connVars, CloserGoes
  <1>17. CASE CloseListen
    BY <1>17 DEF CloseListen, notCloser, connVars, CloserGoes
  <1>18. CASE TakeConns
    BY <1>18 DEF TakeConns, notCloser, connVars, CloserGoes
  <1>19. CASE ShutdownNext
    BY <1>19 DEF ShutdownNext, notCloser, connVars, CloserGoes, Entries
  <1>20. CASE CloseNext
    BY <1>20 DEF CloseNext, notCloser, connVars, CloserGoes
  <1>21. CASE ConnsClosed
    BY <1>21 DEF ConnsClosed, notCloser, connVars, CloserGoes
  <1>22. CASE JoinAccept
    BY <1>22 DEF JoinAccept, notCloser, connVars, CloserGoes
  <1>23. CASE JoinWorkers
    BY <1>23 DEF JoinWorkers, notCloser, connVars, CloserGoes
  <1>24. CASE UNCHANGED vars
    BY <1>24 DEF vars, connVars
  <1> QED
    BY <1>1, <1>2, <1>3, <1>6, <1>7, <1>8, <1>9, <1>10, <1>11, <1>12,
       <1>13, <1>14, <1>15, <1>16, <1>17, <1>18, <1>19, <1>20, <1>21, <1>22, <1>23, <1>24
    DEF Next, WorkerStep, AcceptStep, CloserStep

(* An entry leaves the list when its connection is shut down, or its own   *)
(* worker removes it, or the worker that had the number before.            *)
LEMMA SlipStep == Types /\ FdInv /\ SlipInv /\ [Next]_vars => SlipInv'
  <1> SUFFICES ASSUME Types, FdInv, SlipInv, [Next]_vars PROVE SlipInv'
    OBVIOUS
  <1> USE DEF SlipInv, Types, FdInv, Accepting, Using, Own, Serving, Slipped, Lists
  <1>1. ASSUME NEW p \in Peers, Connect(p) PROVE SlipInv'
    BY <1>1 DEF Connect, connVars
  <1>2. ASSUME NEW p \in Peers, Leave(p) PROVE SlipInv'
    BY <1>2 DEF Leave, connVars
  <1>3. ASSUME NEW p \in Peers, Served(p) \/ Written(p) \/ IOFails(p) \/ StreamStep(p)
        PROVE  SlipInv'
    <2>1. Talks(p)
      BY <1>3, WorkerTalks
    <2> QED
      BY <2>1, SMTT(30) DEF Talks, Places, notWorker, Exit
  <1>6. ASSUME NEW p \in Peers, ClosePubs(p) PROVE SlipInv'
    <2>1. Moves(p, "pubs", {"close"})
      BY <1>6, WorkerMoves
    <2>2. pubs' = pubs \ {p} /\ UNCHANGED <<table, conns, erased>>
      BY <1>6 DEF ClosePubs
    <2> QED
      BY <2>1, <2>2, SMTT(30) DEF Moves, Places, notWorker
  <1>7. ASSUME NEW p \in Peers, CloseFd(p) PROVE SlipInv'
    <2>1. Moves(p, "close", {"remove", "done"})
      BY <1>7, WorkerMoves
    <2>2. /\ table' = [table EXCEPT ![work[p].fd] = NoPeer]
          /\ UNCHANGED <<conns, pubs, erased>>
      BY <1>7 DEF CloseFd
    <2> QED
      BY <2>1, <2>2, SMTT(30) DEF Moves, Places, notWorker
  <1>8. ASSUME NEW p \in Peers, RemoveConn(p) PROVE SlipInv'
    <2>1. Moves(p, "remove", {"done"})
      BY <1>8, WorkerMoves
    <2>2. /\ ConnsMuFree
          /\ conns' = {e \in conns : e.fd # work[p].fd}
          /\ erased' = erased \cup {q \in Peers \ {p} : [p |-> q, fd |-> work[p].fd] \in conns}
          /\ UNCHANGED <<table, pubs>>
      BY <1>8 DEF RemoveConn
    <2> QED
      BY <2>1, <2>2, SMTT(30) DEF Moves, Places, notWorker, ConnsMuFree
  <1>9. CASE AcceptExits
    BY <1>9, AcceptMoves DEF AcceptExits, notAccept
  <1>10. CASE Readable
    BY <1>10, AcceptMoves DEF Readable, notAccept
  <1>11. CASE CheckStopping
    BY <1>11, AcceptMoves DEF CheckStopping, notAccept
  <1>12. CASE AcceptFails
    BY <1>12, AcceptMoves DEF AcceptFails, notAccept
  <1>13. CASE AddConn
    BY <1>13, AcceptMoves DEF AddConn, notAccept, Entries, ConnsMuFree
  <1>14. CASE Spawn
    BY <1>14, WorkerStarts DEF Spawn, notAccept, Places, Idle
  <1>15. ASSUME NEW p \in Peers, Accept(p) PROVE SlipInv'
    BY <1>15 DEF Accept, notAccept
  <1>16. CASE Close
    BY <1>16 DEF Close, notCloser, connVars, CloserGoes
  <1>17. CASE CloseListen
    BY <1>17 DEF CloseListen, notCloser, connVars, CloserGoes
  <1>18. CASE TakeConns
    BY <1>18 DEF TakeConns, notCloser, connVars, CloserGoes
  <1>19. CASE ShutdownNext
    <2>1. PICK e \in todo :
              /\ todo' = todo \ {e}
              /\ shut' = shut \cup ({table[e.fd]} \ {NoPeer})
      BY <1>19 DEF ShutdownNext
    <2>2. /\ closer = "conns" /\ closer' = "fd"
          /\ UNCHANGED <<kind, acc, work, late, erased>>
      BY <1>19 DEF ShutdownNext, CloserGoes, notCloser
    <2>3. \A p \in Peers, f \in Fds :
              Own(p, f) /\ [p |-> p, fd |-> f] \in todo =>
                  p \in Slipped' \/ [p |-> p, fd |-> f] \in todo'
      <3> SUFFICES ASSUME NEW p \in Peers, NEW f \in Fds, Own(p, f),
                          e = [p |-> p, fd |-> f]
                   PROVE  p \in shut'
        BY <2>1 DEF Slipped
      <3> QED
        BY <2>1, NoPeerAssumption DEF Own
    <2>4. \A p \in Peers : /\ Serving(p) => Own(p, work[p].fd) /\ work[p].fd \in Fds
                           /\ acc.pc = "spawn" /\ acc.p = p => Own(p, acc.fd) /\ acc.fd \in Fds
      BY DEF FdInv, Types, Serving, Using, Accepting
    <2>5. Slipped \subseteq Slipped'
      BY <2>1, <2>2 DEF Slipped
    <2> QED
      BY <2>2, <2>3, <2>4, <2>5 DEF Serving, Lists
  <1>20. CASE CloseNext
    BY <1>20 DEF CloseNext, notCloser, connVars, CloserGoes
  <1>21. CASE ConnsClosed
    BY <1>21 DEF ConnsClosed, notCloser, connVars, CloserGoes
  <1>22. CASE JoinAccept
    BY <1>22 DEF JoinAccept, notCloser, connVars, CloserGoes
  <1>23. CASE JoinWorkers
    BY <1>23 DEF JoinWorkers, notCloser, connVars, CloserGoes
  <1>24. CASE UNCHANGED vars
    BY <1>24 DEF vars, connVars
  <1> QED
    BY <1>1, <1>2, <1>3, <1>6, <1>7, <1>8, <1>9, <1>10, <1>11, <1>12,
       <1>13, <1>14, <1>15, <1>16, <1>17, <1>18, <1>19, <1>20, <1>21, <1>22, <1>23, <1>24
    DEF Next, WorkerStep, AcceptStep, CloserStep

-----------------------------------------------------------------------------
(* The theorems.                                                           *)

(* The invariants hold when the server starts. *)
LEMMA Initially == Init => Types /\ FdInv /\ JoinInv /\ SlipInv
  <1> SUFFICES ASSUME Init PROVE Types /\ FdInv /\ JoinInv /\ SlipInv
    OBVIOUS
  <1> USE DEF Init, Idle, NoWorker
  <1>1. Types
    BY DEF Types, Places
  <1>2. FdInv
    BY DEF FdInv, Using, Serving, Accepting
  <1>3. JoinInv
    BY DEF JoinInv
  <1>4. SlipInv
    BY DEF SlipInv, Serving
  <1> QED
    BY <1>1, <1>2, <1>3, <1>4

(* All of it holds in every state of the server. *)
THEOREM Invariant == Spec => [](Types /\ FdInv /\ JoinInv /\ SlipInv)
  <1>1. Types /\ FdInv /\ JoinInv /\ SlipInv /\ [Next]_vars
            => (Types /\ FdInv /\ JoinInv /\ SlipInv)'
    BY TypesStep, FdStep, JoinStep, SlipStep
  <1> QED
    BY Initially, <1>1, PTL DEF Spec, Safety

(* A worker's descriptor denotes its own connection until close() shuts    *)
(* that down, however often a number is closed and given out again         *)
(* (handle_connection(), close_all_conns()).                               *)
THEOREM TypeCorrect == Spec => []TypeOK
  <1>1. Types /\ FdInv => TypeOK
    BY DEF Types, FdInv, TypeOK, Serving, Using, Own
  <1> QED
    BY Invariant, <1>1, PTL

(* close() returns only after every thread of the server has ended, those  *)
(* of connections accepted during the call included.                       *)
THEOREM CloseJoinsEverybody == Spec => []NobodyOutlivesClose
  <1>1. Types /\ JoinInv => NobodyOutlivesClose
    BY DEF Types, JoinInv, NobodyOutlivesClose
  <1> QED
    BY Invariant, <1>1, PTL

(* close_all_conns() misses a connection only by one of the two races.     *)
THEOREM CloseShutsAllButRaces == Spec => []OnlyRacesSlip
  <1>1. SlipInv => OnlyRacesSlip
    BY DEF SlipInv, OnlyRacesSlip, Slipped
  <1> QED
    BY Invariant, <1>1, PTL

-----------------------------------------------------------------------------
(* Whom the call that closes the server waits for.                         *)

(* It raises the flag before anything else, and joins threads that run.    *)
StopInv ==
    /\ closer # "open" => stopping
    /\ \A p \in workers : work[p].pc # "none"

(* The call has nothing to wait for, or what it waits for has happened. *)
CloseGoesOn ==
    \/ closer \in {"stopping", "deaf", "conns", "fd"}
    \/ closer = "accept" /\ acc.pc = "exited"
    \/ closer = "workers" /\ \A p \in workers : Done(p)

(* It waits for the accept loop, which waits for nobody ... *)
AcceptGoesOn ==
    /\ closer = "accept" /\ stopping
    /\ \/ acc.pc \in {"poll", "check", "spawn"}
       \/ acc.pc = "accept" /\ ~listening
       \/ acc.pc = "add" /\ ConnsMuFree

(* ... or for a worker that waits for nobody ... *)
WorkerGoesOn(p) ==
    \/ work[p].pc \in {"io", "send", "last"} /\ (p \in shut \/ peer[p] = "gone")
    \/ work[p].pc = "stream" /\ stopping
    \/ work[p].pc \in {"pubs", "close"}
    \/ work[p].pc = "remove" /\ ConnsMuFree

(* ... or all that it waits for are held up: by a local subscriber, or by  *)
(* their peers, which for a server that lists its connections have slipped *)
(* from the list.                                                          *)
AwaitsOthers ==
    /\ closer = "workers"
    /\ \A p \in workers : ~Done(p) =>
          HeldByReader(p) \/ (HeldByPeer(p) /\ (Lists => p \in late \cup erased))

LEMMA StopStep == Types /\ StopInv /\ [Next]_vars => StopInv'
  <1> SUFFICES ASSUME Types, StopInv, [Next]_vars PROVE StopInv'
    OBVIOUS
  <1>1. ASSUME NEW p \in Peers, NEW from \in Places, NEW tos \in SUBSET (Places \ {"none"}),
               Moves(p, from, tos)
        PROVE  StopInv'
    BY <1>1 DEF Moves, notWorker, StopInv, Types
  <1>2. ASSUME NEW p \in Peers, Served(p) \/ Written(p) \/ WorkerStep(p) PROVE StopInv'
    <2>1. CASE Served(p) \/ Written(p) \/ IOFails(p) \/ StreamStep(p)
      <3>1. Talks(p)
        BY <2>1, WorkerTalks
      <3> QED
        BY <3>1 DEF Talks, Exit, notWorker, StopInv, Types
    <2>2. CASE ClosePubs(p) \/ CloseFd(p) \/ RemoveConn(p)
      <3>1. \/ Moves(p, "pubs", {"close"}) \/ Moves(p, "close", {"remove", "done"})
            \/ Moves(p, "remove", {"done"})
        BY <2>2, WorkerMoves
      <3> QED
        BY <1>1, <3>1 DEF Places
    <2> QED
      BY <1>2, <2>1, <2>2 DEF WorkerStep
  <1>3. ASSUME NEW p \in Peers, Connect(p) \/ Leave(p) \/ Accept(p) PROVE StopInv'
    BY <1>3 DEF Connect, Leave, Accept, notAccept, StopInv
  <1>4. CASE AcceptExits \/ Readable \/ CheckStopping \/ AcceptFails \/ AddConn
    BY <1>4 DEF AcceptExits, Readable, CheckStopping, AcceptFails, AddConn, notAccept, StopInv
  <1>5. CASE Spawn
    <2>1. /\ workers' \subseteq workers \cup {acc.p} /\ UNCHANGED <<stopping, closer>>
      BY <1>5 DEF Spawn, notAccept
    <2> QED
      BY <1>5, <2>1, WorkerStarts DEF StopInv, Types
  <1>6. CASE Close \/ CloserStep
    BY <1>6 DEF Close, CloserStep, CloseListen, TakeConns, ShutdownNext, CloseNext, ConnsClosed,
                JoinAccept, JoinWorkers, CloserGoes, notCloser, StopInv
  <1>7. CASE UNCHANGED vars
    BY <1>7 DEF vars, StopInv
  <1> QED
    BY <1>2, <1>3, <1>4, <1>5, <1>6, <1>7 DEF Next, AcceptStep

(* A call that closes the server and has not returned goes on, or waits    *)
(* for a thread that goes on by itself; but when all the workers it still  *)
(* has to join are held up, it hangs as long as they are.  Each is then in *)
(* a write() that a local subscriber with a full Block channel holds up,   *)
(* whether its connection was shut down or not (pub->write() in            *)
(* handle_connection(), handle_publish(), publish(), stream_publish()), or *)
(* waits for a peer that neither sends nor reads nor leaves, on a          *)
(* connection nobody shut down.  For the WAN and REST bridges these were   *)
(* accepted too late to be listed, or erased from the list by the worker   *)
(* that had the number before.                                             *)
THEOREM CloseHangsOnlyOnOthers ==
    Spec => [](closer \notin {"open", "closed"} =>
                  \/ CloseGoesOn \/ AcceptGoesOn
                  \/ closer = "workers" /\ \E p \in workers : WorkerGoesOn(p)
                  \/ AwaitsOthers)
  <1>1. Init => StopInv
    BY DEF Init, StopInv
  <1>2. Types /\ FdInv /\ SlipInv /\ StopInv =>
          (closer \notin {"open", "closed"} =>
              \/ CloseGoesOn \/ AcceptGoesOn
              \/ closer = "workers" /\ \E p \in workers : WorkerGoesOn(p)
              \/ AwaitsOthers)
    <2> SUFFICES ASSUME Types, FdInv, SlipInv, StopInv, closer \notin {"open", "closed"}
                 PROVE  \/ CloseGoesOn \/ AcceptGoesOn
                        \/ closer = "workers" /\ \E p \in workers : WorkerGoesOn(p)
                        \/ AwaitsOthers
      OBVIOUS
    <2>1. CASE closer \in {"stopping", "deaf", "conns", "fd"}
      BY <2>1 DEF CloseGoesOn
    <2>2. CASE closer = "accept"
      <3>1. stopping /\ ~listening /\ ConnsMuFree
        BY <2>2 DEF StopInv, FdInv, ConnsMuFree
      <3>2. acc.pc \in {"poll", "check", "accept", "add", "spawn", "exited"}
        BY DEF Types
      <3> QED
        BY <2>2, <3>1, <3>2 DEF CloseGoesOn, AcceptGoesOn
    <2>3. CASE closer = "workers"
      <3>1. ASSUME NEW p \in workers, ~Done(p), ~WorkerGoesOn(p)
            PROVE  HeldByReader(p) \/ (HeldByPeer(p) /\ (Lists => p \in late \cup erased))
        <4>1. p \in Peers /\ work[p].pc \in Places \ {"none", "done"} /\ stopping /\ ConnsMuFree
          BY <2>3, <3>1 DEF Types, StopInv, Done, ConnsMuFree, Places
        <4>2. \/ work[p].pc = "publish"
              \/ work[p].pc \in {"io", "send", "last"} /\ p \notin shut /\ peer[p] # "gone"
          BY <3>1, <4>1 DEF WorkerGoesOn, Places
        <4>3. CASE work[p].pc = "publish"
          BY <4>3 DEF HeldByReader
        <4>4. CASE work[p].pc \in {"io", "send", "last"} /\ p \notin shut /\ peer[p] # "gone"
          <5>1. peer[p] = "here"
            BY <4>1, <4>4 DEF FdInv, Types
          <5>2. Lists => p \in late \cup erased
            BY <2>3, <4>1, <4>4 DEF SlipInv, Slipped, Serving
          <5> QED
            BY <4>4, <5>1, <5>2 DEF HeldByPeer
        <4> QED
          BY <4>2, <4>3, <4>4
      <3> QED
        BY <2>3, <3>1 DEF AwaitsOthers
    <2> QED
      BY <2>1, <2>2, <2>3 DEF Types
  <1>3. Spec => []StopInv
    BY <1>1, Invariant, StopStep, PTL DEF Spec, Safety
  <1> QED
    BY <1>2, <1>3, Invariant, PTL

-----------------------------------------------------------------------------
(***************************************************************************)
(* The link of the WAN bridge.                                             *)
(*                                                                         *)
(* That the server publishes what the senders took needs the whole stream: *)
(* its parts form a chain of frames that goes on from what the server has  *)
(* read of its frame (Chain), it ends inside a frame exactly while a       *)
(* sender holds write_mu between its two sends (AtEnd), and the texts      *)
(* under way for a topic are the samples sent and not yet published, in    *)
(* order (Ordered), all of them while the connection is up (AllIn).        *)
(***************************************************************************)

(* The stream of a link: its parts, and what the server has read of the    *)
(* frame it is in.                                                         *)
TextOf(t, n) == Link!Part("text", t, n)
LengthOf(t, n) == Link!Part("length", t, n)
Parts == {p \in [kind : {"none", "token", "length", "text"}, t : Topics \cup {"none"}, n : Nat] :
            p.kind \in {"length", "text"} => p.t \in Topics}

(* A text follows its length; a token is the first part. *)
Fits(a, b, i) ==
  IF a.kind = "length" THEN b = TextOf(a.t, a.n) ELSE b.kind = "length" \/ (b.kind = "token" /\ i = 1)
Before(w, x, i) == IF i = 1 THEN x ELSE w[i - 1]
Chain(w, x) == \A i \in 1 .. Len(w) : Fits(Before(w, x, i), w[i], i)
LastOf(w, x) == IF w = <<>> THEN x ELSE w[Len(w)]

(* For topic t the texts in w are samples of q from number p + 1 to s, each*)
(* after those before it ...                                               *)
IsText(x, t) == x.kind = "text" /\ x.t = t
Has(w, i, t, n) == \E j \in 1 .. i : w[j] = TextOf(t, n)
Place(w, i, t, p, q, k) == w[i].n = q[k] /\ \A m \in p + 1 .. k - 1 : Has(w, i - 1, t, q[m])
Ordered(w, t, p, q, s) ==
  \A i \in 1 .. Len(w) : IsText(w[i], t) => \E k \in p + 1 .. s : Place(w, i, t, p, q, k)
(* ... and none is missing.                                                *)
AllIn(w, t, p, q, s) == \A k \in p + 1 .. s : Has(w, Len(w), t, q[k])
Distinct(w) == \A i, j \in 1 .. Len(w) : w[i].kind = "text" /\ w[i] = w[j] => i = j
Increasing(q) == \A i, j \in 1 .. Len(q) : i < j => q[i] < q[j]

LEMMA TextIs ==
  ASSUME NEW t, NEW n
  PROVE  /\ TextOf(t, n).kind = "text" /\ TextOf(t, n).t = t /\ TextOf(t, n).n = n
         /\ LengthOf(t, n).kind = "length" /\ LengthOf(t, n).t = t /\ LengthOf(t, n).n = n
BY DEF TextOf, LengthOf, Link!Part

LEMMA TailOf ==
  ASSUME NEW S, NEW w \in Seq(S), w # <<>>
  PROVE  /\ Head(w) = w[1] /\ Len(w) \in Nat \ {0} /\ w[1] \in S
         /\ Tail(w) \in Seq(S) /\ Len(Tail(w)) = Len(w) - 1
         /\ \A i \in 1 .. Len(w) - 1 : Tail(w)[i] = w[i + 1]
BY HeadTailProperties

LEMMA CutOf ==
  ASSUME NEW S, NEW w \in Seq(S), NEW n \in 0 .. Len(w)
  PROVE  /\ SubSeq(w, 1, n) \in Seq(S) /\ Len(SubSeq(w, 1, n)) = n
         /\ \A i \in 1 .. n : SubSeq(w, 1, n)[i] = w[i]
<1>1. \A i \in 1 .. n : w[i] \in S
  OBVIOUS
<1> QED
  BY <1>1, SubSeqProperties

LEMMA ChainTail ==
  ASSUME NEW S, NEW w \in Seq(S), w # <<>>, NEW x, NEW y, Chain(w, x),
         y = w[1] \/ (y.kind # "length" /\ w[1].kind # "length")
  PROVE  Chain(Tail(w), y) /\ Fits(x, w[1], 1) /\ LastOf(w, x).kind = LastOf(Tail(w), w[1]).kind
<1>1. PICK v \in Seq(S) : v = Tail(w)
  BY TailOf
<1>2. Len(v) = Len(w) - 1 /\ Len(w) \in Nat \ {0} /\ \A i \in 1 .. Len(w) - 1 : v[i] = w[i + 1]
  BY <1>1, TailOf
<1>3. ASSUME NEW i \in 1 .. Len(v) PROVE Fits(Before(v, y, i), v[i], i)
  <2>1. i + 1 \in 1 .. Len(w) /\ v[i] = w[i + 1] /\ Before(w, x, i + 1) = w[i] /\ i + 1 # 1
    BY <1>2 DEF Before
  <2>2. Fits(w[i], w[i + 1], i + 1)
    BY <2>1 DEF Chain
  <2>3. CASE i = 1
    <3>1. Before(v, y, i) = y
      BY <2>3 DEF Before
    <3> QED
      BY <2>1, <2>2, <2>3, <3>1 DEF Fits
  <2>4. CASE i # 1
    <3>1. i - 1 \in 1 .. Len(w) - 1 /\ i - 1 + 1 = i
      BY <1>2, <2>4
    <3>2. Before(v, y, i) = w[i]
      BY <1>2, <2>4, <3>1 DEF Before
    <3> QED
      BY <2>1, <2>2, <3>2 DEF Fits
  <2> QED
    BY <2>3, <2>4
<1>4. Fits(x, w[1], 1)
  <2>1. 1 \in 1 .. Len(w) /\ Before(w, x, 1) = x
    BY <1>2 DEF Before
  <2> QED
    BY <2>1 DEF Chain
<1>5. LastOf(w, x) = LastOf(v, w[1])
  <2>1. CASE v = <<>>
    <3>1. Len(w) = 1
      BY <1>2, <2>1
    <3> QED
      BY <2>1, <3>1 DEF LastOf
  <2>2. CASE v # <<>>
    <3>1. Len(v) \in 1 .. Len(w) - 1 /\ Len(v) + 1 = Len(w)
      BY <1>2, <2>2
    <3>2. v[Len(v)] = w[Len(w)]
      BY <1>2, <3>1
    <3> QED
      BY <2>2, <3>2 DEF LastOf
  <2> QED
    BY <2>1, <2>2
<1> QED
  BY <1>1, <1>3, <1>4, <1>5 DEF Chain

LEMMA ChainCut ==
  ASSUME NEW S, NEW w \in Seq(S), NEW n \in 0 .. Len(w), NEW x, Chain(w, x)
  PROVE  Chain(SubSeq(w, 1, n), x)
<1>1. PICK v \in Seq(S) : v = SubSeq(w, 1, n)
  BY CutOf
<1>2. Len(v) = n /\ \A i \in 1 .. n : v[i] = w[i]
  BY <1>1, CutOf
<1>3. ASSUME NEW i \in 1 .. n PROVE Fits(Before(v, x, i), v[i], i)
  <2>1. i \in 1 .. Len(w) /\ v[i] = w[i]
    BY <1>2
  <2>2. Before(v, x, i) = Before(w, x, i)
    <3>1. i # 1 => i - 1 \in 1 .. n
      OBVIOUS
    <3> QED
      BY <1>2, <3>1 DEF Before
  <2> QED
    BY <2>1, <2>2 DEF Chain
<1> QED
  BY <1>1, <1>2, <1>3 DEF Chain

LEMMA ChainAppend ==
  ASSUME NEW S, NEW w \in Seq(S), NEW x, NEW y \in S, Chain(w, x), Fits(LastOf(w, x), y, Len(w) + 1)
  PROVE  Chain(Append(w, y), x) /\ LastOf(Append(w, y), x) = y
<1>1. PICK v \in Seq(S) : v = Append(w, y)
  BY AppendProperties
<1>2. /\ Len(v) = Len(w) + 1 /\ Len(w) \in Nat /\ v[Len(w) + 1] = y /\ v # <<>>
      /\ \A i \in 1 .. Len(w) : v[i] = w[i]
  BY <1>1, AppendProperties
<1>3. ASSUME NEW i \in 1 .. Len(w) + 1 PROVE Fits(Before(v, x, i), v[i], i)
  <2>1. CASE i = Len(w) + 1
    <3>1. Before(v, x, i) = LastOf(w, x)
      <4>1. CASE w = <<>>
        BY <2>1, <4>1 DEF Before, LastOf
      <4>2. CASE w # <<>>
        <5>1. i # 1 /\ i - 1 = Len(w) /\ i - 1 \in 1 .. Len(w)
          BY <1>2, <2>1, <4>2
        <5> QED
          BY <1>2, <4>2, <5>1 DEF Before, LastOf
      <4> QED
        BY <4>1, <4>2
    <3> QED
      BY <1>2, <2>1, <3>1
  <2>2. CASE i \in 1 .. Len(w)
    <3>1. Before(v, x, i) = Before(w, x, i)
      <4>1. i # 1 => i - 1 \in 1 .. Len(w)
        BY <2>2
      <4> QED
        BY <1>2, <4>1 DEF Before
    <3> QED
      BY <1>2, <2>2, <3>1 DEF Chain
  <2> QED
    BY <1>2, <2>1, <2>2
<1> QED
  BY <1>1, <1>2, <1>3 DEF Chain, LastOf

LEMMA HasTail ==
  ASSUME NEW S, NEW w \in Seq(S), w # <<>>, NEW t, NEW n, w[1] # TextOf(t, n),
         NEW i \in 1 .. Len(w), Has(w, i, t, n)
  PROVE  Has(Tail(w), i - 1, t, n)
<1>1. PICK j \in 1 .. i : w[j] = TextOf(t, n)
  BY DEF Has
<1>2. j # 1 /\ j - 1 \in 1 .. i - 1 /\ j - 1 \in 1 .. Len(w) - 1 /\ j - 1 + 1 = j
  BY <1>1
<1>3. Tail(w)[j - 1] = w[j]
  BY <1>2, TailOf
<1> QED
  BY <1>1, <1>2, <1>3 DEF Has

(* The part the server reads is no text of t ... *)
LEMMA OrderTail ==
  ASSUME NEW S, NEW w \in Seq(S), w # <<>>, NEW t, NEW p \in Nat, NEW q, NEW s \in Int,
         Ordered(w, t, p, q, s), ~IsText(w[1], t)
  PROVE  /\ Ordered(Tail(w), t, p, q, s)
         /\ AllIn(w, t, p, q, s) => AllIn(Tail(w), t, p, q, s)
<1>1. PICK v \in Seq(S) : v = Tail(w)
  BY TailOf
<1>2. Len(v) = Len(w) - 1 /\ Len(w) \in Nat \ {0} /\ \A i \in 1 .. Len(w) - 1 : v[i] = w[i + 1]
  BY <1>1, TailOf
<1>3. \A n : w[1] # TextOf(t, n)
  BY TextIs DEF IsText
<1>4. ASSUME NEW i \in 1 .. Len(v), IsText(v[i], t)
      PROVE  \E k \in p + 1 .. s : Place(v, i, t, p, q, k)
  <2>1. i + 1 \in 1 .. Len(w) /\ i \in 1 .. Len(w) /\ v[i] = w[i + 1] /\ i + 1 - 1 = i
    BY <1>2
  <2>2. PICK k \in p + 1 .. s : Place(w, i + 1, t, p, q, k)
    BY <1>4, <2>1 DEF Ordered
  <2>3. ASSUME NEW m \in p + 1 .. k - 1 PROVE Has(v, i - 1, t, q[m])
    <3>1. Has(w, i, t, q[m])
      BY <2>1, <2>2 DEF Place
    <3> QED
      BY <1>1, <1>3, <2>1, <3>1, HasTail
  <2> QED
    BY <2>1, <2>2, <2>3 DEF Place
<1>5. ASSUME AllIn(w, t, p, q, s), NEW k \in p + 1 .. s PROVE Has(v, Len(v), t, q[k])
  <2>1. Has(w, Len(w), t, q[k]) /\ Len(w) \in 1 .. Len(w)
    BY <1>2, <1>5 DEF AllIn
  <2> QED
    BY <1>1, <1>2, <1>3, <2>1, HasTail
<1> QED
  BY <1>1, <1>4, <1>5 DEF Ordered, AllIn

(* ... or the text of the sample that is due, and of no other. *)
LEMMA OrderPublish ==
  ASSUME NEW S, NEW w \in Seq(S), w # <<>>, NEW t, NEW p \in Nat, NEW q \in Seq(Nat),
         NEW s \in Int, s <= Len(q), Increasing(q), Distinct(w),
         \A i \in 1 .. Len(w) : IsText(w[i], t) => w[i] = TextOf(t, w[i].n),
         Ordered(w, t, p, q, s), IsText(w[1], t), NEW n, w[1] = TextOf(t, n)
  PROVE  /\ p + 1 <= s /\ n = q[p + 1]
         /\ Ordered(Tail(w), t, p + 1, q, s)
         /\ AllIn(w, t, p, q, s) => AllIn(Tail(w), t, p + 1, q, s)
<1>1. PICK v \in Seq(S) : v = Tail(w)
  BY TailOf
<1>2. Len(v) = Len(w) - 1 /\ Len(w) \in Nat \ {0} /\ \A i \in 1 .. Len(w) - 1 : v[i] = w[i + 1]
  BY <1>1, TailOf
<1>3. 1 \in 1 .. Len(w)
  BY <1>2
<1>4. PICK k \in p + 1 .. s : Place(w, 1, t, p, q, k)
  BY <1>3 DEF Ordered
<1>5. k = p + 1
  <2>. SUFFICES ASSUME k # p + 1 PROVE FALSE
    OBVIOUS
  <2>1. p + 1 \in p + 1 .. k - 1
    OBVIOUS
  <2>2. Has(w, 1 - 1, t, q[p + 1])
    BY <1>4, <2>1 DEF Place
  <2> QED
    BY <2>2 DEF Has
<1>6. p + 1 <= s /\ n = q[p + 1] /\ p + 1 \in 1 .. Len(q)
  BY <1>4, <1>5, TextIs DEF Place
<1>7. ASSUME NEW m \in p + 2 .. s PROVE w[1] # TextOf(t, q[m])
  <2>1. m \in 1 .. Len(q) /\ p + 1 < m
    <3>1. PICK e \in Nat : e = Len(q) /\ s <= e
      OBVIOUS
    <3>2. m \in 1 .. e /\ p + 1 < m
      BY <3>1
    <3> QED
      BY <3>1, <3>2
  <2>2. q[p + 1] < q[m]
    BY <1>6, <2>1 DEF Increasing
  <2>3. q[p + 1] \in Nat /\ q[m] \in Nat
    BY <1>6, <2>1
  <2>4. w[1].n = q[p + 1] /\ TextOf(t, q[m]).n = q[m]
    BY <1>6, TextIs
  <2> QED
    BY <2>2, <2>3, <2>4
<1>8. ASSUME NEW i \in 1 .. Len(v), IsText(v[i], t)
      PROVE  \E e \in p + 1 + 1 .. s : Place(v, i, t, p + 1, q, e)
  <2>1. i + 1 \in 1 .. Len(w) /\ i \in 1 .. Len(w) /\ v[i] = w[i + 1] /\ i + 1 - 1 = i /\ i + 1 # 1
    BY <1>2
  <2>2. PICK e \in p + 1 .. s : Place(w, i + 1, t, p, q, e)
    BY <1>8, <2>1 DEF Ordered
  <2>3. e # p + 1
    <3>. SUFFICES ASSUME e = p + 1 PROVE FALSE
      OBVIOUS
    <3>1. Has(w, i, t, q[p + 1])
      BY <1>3, <1>6, <2>1 DEF Has
    <3>2. w[i + 1].n = n /\ w[i + 1].kind = "text" /\ w[i + 1] = TextOf(t, w[i + 1].n)
      BY <1>6, <1>8, <2>1, <2>2 DEF Place, IsText
    <3>3. w[i + 1] = w[1] /\ w[1].kind = "text"
      BY <3>2
    <3> QED
      BY <1>3, <2>1, <3>3 DEF Distinct
  <2>4. ASSUME NEW m \in p + 1 + 1 .. e - 1 PROVE Has(v, i - 1, t, q[m])
    <3>2. m \in p + 2 .. s /\ m \in p + 1 .. e - 1
      BY <2>2
    <3>1. Has(w, i, t, q[m])
      BY <2>1, <2>2, <3>2 DEF Place
    <3> QED
      BY <1>1, <1>7, <2>1, <3>1, <3>2, HasTail
  <2>5. e \in p + 1 + 1 .. s
    BY <2>2, <2>3
  <2> QED
    BY <2>1, <2>2, <2>4, <2>5 DEF Place
<1>9. ASSUME AllIn(w, t, p, q, s), NEW e \in p + 1 + 1 .. s PROVE Has(v, Len(v), t, q[e])
  <2>1. Has(w, Len(w), t, q[e]) /\ Len(w) \in 1 .. Len(w) /\ e \in p + 2 .. s
    BY <1>2, <1>9 DEF AllIn
  <2> QED
    BY <1>1, <1>2, <1>7, <2>1, HasTail
<1> QED
  BY <1>1, <1>6, <1>8, <1>9 DEF Ordered, AllIn

LEMMA DistinctTail ==
  ASSUME NEW S, NEW w \in Seq(S), w # <<>>, Distinct(w)
  PROVE  Distinct(Tail(w))
<1>1. PICK v \in Seq(S) : v = Tail(w)
  BY TailOf
<1>2. Len(v) = Len(w) - 1 /\ Len(w) \in Nat \ {0} /\ \A i \in 1 .. Len(w) - 1 : v[i] = w[i + 1]
  BY <1>1, TailOf
<1>3. ASSUME NEW i \in 1 .. Len(v), NEW j \in 1 .. Len(v), v[i].kind = "text", v[i] = v[j]
      PROVE  i = j
  <2>1. i + 1 \in 1 .. Len(w) /\ j + 1 \in 1 .. Len(w) /\ v[i] = w[i + 1] /\ v[j] = w[j + 1]
    BY <1>2
  <2>2. i + 1 = j + 1
    BY <1>3, <2>1 DEF Distinct
  <2> QED
    BY <2>2
<1> QED
  BY <1>1, <1>3 DEF Distinct

LEMMA OrderCut ==
  ASSUME NEW S, NEW w \in Seq(S), NEW c \in 0 .. Len(w)
  PROVE  /\ Distinct(w) => Distinct(SubSeq(w, 1, c))
         /\ \A t, p, q, s : Ordered(w, t, p, q, s) => Ordered(SubSeq(w, 1, c), t, p, q, s)
<1>1. PICK v \in Seq(S) : v = SubSeq(w, 1, c)
  BY CutOf
<1>2. Len(v) = c /\ (\A i \in 1 .. c : v[i] = w[i]) /\ 1 .. c \subseteq 1 .. Len(w)
  BY <1>1, CutOf
<1>3. Distinct(w) => Distinct(v)
  BY <1>2 DEF Distinct
<1>4. ASSUME NEW t, NEW p, NEW q, NEW s, Ordered(w, t, p, q, s) PROVE Ordered(v, t, p, q, s)
  <2>. SUFFICES ASSUME NEW i \in 1 .. c, IsText(v[i], t)
                PROVE  \E k \in p + 1 .. s : Place(v, i, t, p, q, k)
    BY <1>2 DEF Ordered
  <2>1. PICK k \in p + 1 .. s : Place(w, i, t, p, q, k)
    BY <1>2, <1>4 DEF Ordered
  <2>2. \A n : Has(w, i - 1, t, n) => Has(v, i - 1, t, n)
    <3>1. \A j \in 1 .. i - 1 : v[j] = w[j]
      BY <1>2
    <3> QED
      BY <3>1 DEF Has
  <2>3. v[i] = w[i]
    BY <1>2
  <2>4. Place(v, i, t, p, q, k)
    BY <2>1, <2>2, <2>3 DEF Place
  <2> QED
    BY <2>4
<1> QED
  BY <1>1, <1>3, <1>4

LEMMA HasAppend ==
  ASSUME NEW S, NEW w \in Seq(S), NEW y \in S, NEW t, NEW n
  PROVE  /\ \A i \in 0 .. Len(w) : Has(w, i, t, n) => Has(Append(w, y), i, t, n)
         /\ Has(w, Len(w), t, n) => Has(Append(w, y), Len(Append(w, y)), t, n)
         /\ y = TextOf(t, n) => Has(Append(w, y), Len(Append(w, y)), t, n)
<1>1. PICK v \in Seq(S) : v = Append(w, y)
  BY AppendProperties
<1>2. /\ Len(v) = Len(w) + 1 /\ Len(w) \in Nat /\ v[Len(w) + 1] = y
      /\ \A i \in 1 .. Len(w) : v[i] = w[i]
  BY <1>1, AppendProperties
<1>3. \A i \in 0 .. Len(w) : Has(w, i, t, n) => Has(v, i, t, n)
  BY <1>2 DEF Has
<1>4. Has(w, Len(w), t, n) => Has(v, Len(v), t, n)
  BY <1>2 DEF Has
<1>5. y = TextOf(t, n) => Has(v, Len(v), t, n)
  <2>1. Len(v) \in 1 .. Len(v) /\ v[Len(v)] = y
    BY <1>2
  <2> QED
    BY <2>1 DEF Has
<1> QED
  BY <1>1, <1>3, <1>4, <1>5

(* A sender adds a part, which is no text of t ... *)
LEMMA OrderAppend ==
  ASSUME NEW S, NEW w \in Seq(S), NEW y \in S, NEW t, NEW p \in Nat, NEW q, NEW s \in Int,
         ~IsText(y, t)
  PROVE  /\ Ordered(w, t, p, q, s) => Ordered(Append(w, y), t, p, q, s)
         /\ AllIn(w, t, p, q, s) => AllIn(Append(w, y), t, p, q, s)
<1>1. PICK v \in Seq(S) : v = Append(w, y)
  BY AppendProperties
<1>2. /\ Len(v) = Len(w) + 1 /\ Len(w) \in Nat /\ v[Len(w) + 1] = y
      /\ \A i \in 1 .. Len(w) : v[i] = w[i]
  BY <1>1, AppendProperties
<1>3. ASSUME Ordered(w, t, p, q, s), NEW i \in 1 .. Len(v), IsText(v[i], t)
      PROVE  \E k \in p + 1 .. s : Place(v, i, t, p, q, k)
  <2>1. i \in 1 .. Len(w) /\ v[i] = w[i] /\ i - 1 \in 0 .. Len(w)
    BY <1>2, <1>3
  <2>2. PICK k \in p + 1 .. s : Place(w, i, t, p, q, k)
    BY <1>3, <2>1 DEF Ordered
  <2>3. Place(v, i, t, p, q, k)
    BY <1>1, <2>1, <2>2, HasAppend DEF Place
  <2> QED
    BY <2>3
<1>4. AllIn(w, t, p, q, s) => AllIn(v, t, p, q, s)
  BY <1>1, HasAppend DEF AllIn
<1> QED
  BY <1>1, <1>3, <1>4 DEF Ordered

(* ... or the text of the next sample of t. *)
LEMMA OrderAppendText ==
  ASSUME NEW S, NEW w \in Seq(S), NEW t, NEW p \in Nat, NEW q \in Seq(Nat), NEW s \in Nat,
         s + 1 <= Len(q), p <= s, TextOf(t, q[s + 1]) \in S,
         Ordered(w, t, p, q, s), AllIn(w, t, p, q, s)
  PROVE  /\ Ordered(Append(w, TextOf(t, q[s + 1])), t, p, q, s + 1)
         /\ AllIn(Append(w, TextOf(t, q[s + 1])), t, p, q, s + 1)
<1>0. PICK y \in S : y = TextOf(t, q[s + 1])
  OBVIOUS
<1>1. PICK v \in Seq(S) : v = Append(w, y)
  BY AppendProperties
<1>2. /\ Len(v) = Len(w) + 1 /\ Len(w) \in Nat /\ v[Len(w) + 1] = y
      /\ \A i \in 1 .. Len(w) : v[i] = w[i]
  BY <1>1, AppendProperties
<1>3. ASSUME NEW i \in 1 .. Len(v), IsText(v[i], t)
      PROVE  \E k \in p + 1 .. s + 1 : Place(v, i, t, p, q, k)
  <2>1. CASE i = Len(w) + 1
    <3>1. v[i].n = q[s + 1] /\ i - 1 = Len(w) /\ i - 1 \in 0 .. Len(w)
      BY <1>0, <1>2, <2>1, TextIs
    <3>2. ASSUME NEW m \in p + 1 .. s + 1 - 1 PROVE Has(v, i - 1, t, q[m])
      <4>1. m \in p + 1 .. s
        OBVIOUS
      <4>2. Has(w, Len(w), t, q[m])
        BY <4>1 DEF AllIn
      <4> QED
        BY <1>1, <3>1, <4>2, HasAppend
    <3>3. s + 1 \in p + 1 .. s + 1
      OBVIOUS
    <3> QED
      BY <3>1, <3>2, <3>3 DEF Place
  <2>2. CASE i \in 1 .. Len(w)
    <3>1. v[i] = w[i] /\ i - 1 \in 0 .. Len(w)
      BY <1>2, <2>2
    <3>2. PICK k \in p + 1 .. s : Place(w, i, t, p, q, k)
      BY <1>3, <2>2, <3>1 DEF Ordered
    <3>3. Place(v, i, t, p, q, k)
      BY <1>1, <3>1, <3>2, HasAppend DEF Place
    <3>4. k \in p + 1 .. s + 1
      OBVIOUS
    <3> QED
      BY <3>3, <3>4
  <2> QED
    BY <1>2, <2>1, <2>2
<1>4. ASSUME NEW k \in p + 1 .. s + 1 PROVE Has(v, Len(v), t, q[k])
  <2>1. CASE k = s + 1
    BY <1>0, <1>1, <2>1, HasAppend
  <2>2. CASE k \in p + 1 .. s
    <3>1. Has(w, Len(w), t, q[k])
      BY <2>2 DEF AllIn
    <3> QED
      BY <1>1, <3>1, HasAppend
  <2> QED
    BY <2>1, <2>2
<1> QED
  BY <1>0, <1>1, <1>3, <1>4 DEF Ordered, AllIn

LEMMA DistinctAppend ==
  ASSUME NEW S, NEW w \in Seq(S), NEW y \in S, Distinct(w),
         y.kind = "text" => \A i \in 1 .. Len(w) : w[i] # y
  PROVE  Distinct(Append(w, y))
<1>1. PICK v \in Seq(S) : v = Append(w, y)
  BY AppendProperties
<1>2. /\ Len(v) = Len(w) + 1 /\ Len(w) \in Nat /\ v[Len(w) + 1] = y
      /\ \A i \in 1 .. Len(w) : v[i] = w[i]
  BY <1>1, AppendProperties
<1>3. ASSUME NEW i \in 1 .. Len(v), NEW j \in 1 .. Len(v), v[i].kind = "text", v[i] = v[j]
      PROVE  i = j
  <2>1. CASE i = Len(w) + 1 /\ j = Len(w) + 1
    BY <2>1
  <2>2. CASE i = Len(w) + 1 /\ j \in 1 .. Len(w)
    BY <1>2, <1>3, <2>2
  <2>3. CASE i \in 1 .. Len(w) /\ j = Len(w) + 1
    BY <1>2, <1>3, <2>3
  <2>4. CASE i \in 1 .. Len(w) /\ j \in 1 .. Len(w)
    BY <1>2, <1>3, <2>4 DEF Distinct
  <2> QED
    BY <1>2, <2>1, <2>2, <2>3, <2>4
<1> QED
  BY <1>1, <1>3 DEF Distinct

(* The sample in hand was not sent yet. *)
LEMMA InHandIsNew ==
  ASSUME NEW S, NEW w \in Seq(S), NEW t, NEW p \in Nat, NEW q \in Seq(Nat), NEW s \in Nat,
         s + 1 <= Len(q), Increasing(q), Ordered(w, t, p, q, s)
  PROVE  \A i \in 1 .. Len(w) : w[i] # TextOf(t, q[s + 1])
<1>. SUFFICES ASSUME NEW i \in 1 .. Len(w), w[i] = TextOf(t, q[s + 1]) PROVE FALSE
  OBVIOUS
<1>1. IsText(w[i], t) /\ w[i].n = q[s + 1]
  BY TextIs DEF IsText
<1>2. PICK k \in p + 1 .. s : q[s + 1] = q[k]
  BY <1>1 DEF Ordered, Place
<1>3. k \in 1 .. Len(q) /\ s + 1 \in 1 .. Len(q) /\ k < s + 1
  OBVIOUS
<1>4. q[k] < q[s + 1] /\ q[k] \in Nat
  BY <1>3 DEF Increasing
<1> QED
  BY <1>2, <1>4

LEMMA OrderGrow ==
  ASSUME NEW w, NEW t, NEW p \in Nat, NEW q, NEW r, NEW s \in Int, NEW e \in Int, s <= e,
         \A k \in 1 .. s : r[k] = q[k]
  PROVE  /\ Ordered(w, t, p, q, s) => Ordered(w, t, p, r, e)
         /\ AllIn(w, t, p, q, s) /\ s = e => AllIn(w, t, p, r, e)
<1>1. ASSUME Ordered(w, t, p, q, s), NEW i \in 1 .. Len(w), IsText(w[i], t)
      PROVE  \E k \in p + 1 .. e : Place(w, i, t, p, r, k)
  <2>1. PICK k \in p + 1 .. s : Place(w, i, t, p, q, k)
    BY <1>1 DEF Ordered
  <2>2. k \in p + 1 .. e /\ r[k] = q[k] /\ \A m \in p + 1 .. k - 1 : r[m] = q[m]
    OBVIOUS
  <2>3. Place(w, i, t, p, r, k)
    BY <2>1, <2>2 DEF Place
  <2> QED
    BY <2>2, <2>3
<1>2. AllIn(w, t, p, q, s) /\ s = e => AllIn(w, t, p, r, e)
  <2>1. \A k \in p + 1 .. s : r[k] = q[k]
    OBVIOUS
  <2> QED
    BY <2>1 DEF AllIn
<1> QED
  BY <1>1, <1>2 DEF Ordered

-----------------------------------------------------------------------------
(* The invariant of a link.                                                *)

InHand(t) == spc[t] \in {"lock", "length", "text"}
Sent(t) == IF InHand(t) THEN Len(taken[t]) - 1 ELSE Len(taken[t])

LinkTypes ==
  /\ spc \in [Topics -> {"none", "poll", "lock", "length", "text", "failed", "ended"}]
  /\ taking \in [Topics -> Nat] /\ given \in [Topics -> Nat]
  /\ subChan \in [Topics -> Seq(Nat)]
  /\ taken \in [Topics -> Seq(Nat)] /\ published \in [Topics -> Seq(Nat)]
  /\ wire \in Seq(Parts) /\ want \in Parts

(* Samples are numbered as they are given; the last one taken is in hand   *)
(* until its text is sent.                                                 *)
TakenInv ==
  \A t \in Topics :
    /\ Increasing(taken[t] \o subChan[t])
    /\ \A i \in 1 .. Len(taken[t] \o subChan[t]) : (taken[t] \o subChan[t])[i] <= given[t]
    /\ InHand(t) => Len(taken[t]) > 0 /\ taking[t] = taken[t][Len(taken[t])]

LockInv == \A t \in Topics : spc[t] \in {"length", "text"} => lock = t

StartInv ==
  /\ cpc \in {"subscribe", "dial", "auth", "undo", "failed"} => wire = <<>> /\ \A t \in Topics : spc[t] = "none"
  /\ cpc \in {"subscribe", "dial"} => conn = "none"
  /\ srv = "done" => conn = "down"

(* The stream is a chain of frames, which ends within one when a sender is *)
(* between its two sends.                                                  *)
AtEnd ==
  /\ \A t \in Topics : spc[t] = "text" => LastOf(wire, want) = LengthOf(t, taking[t])
  /\ (\A t \in Topics : spc[t] # "text") => LastOf(wire, want).kind # "length"
FrameInv ==
  srv # "done" =>
    /\ srv = "text" => want.kind = "length"
    /\ srv # "text" => want = Link!NoPart
    /\ Chain(wire, want)
    /\ conn # "down" => AtEnd

PublishedInv ==
  \A t \in Topics :
    /\ Len(published[t]) <= Sent(t)
    /\ \A k \in 1 .. Len(published[t]) : published[t][k] = taken[t][k]

(* What is under way for t are the samples sent and not published, in      *)
(* order, all of them while the connection is up.                          *)
Flow(t) ==
  /\ Ordered(wire, t, Len(published[t]), taken[t], Sent(t))
  /\ conn # "down" => AllIn(wire, t, Len(published[t]), taken[t], Sent(t))
OrderInv == srv # "done" => Distinct(wire) /\ \A t \in Topics : Flow(t)

(* A token is read first, when the two sides have the same.                *)
AdmitInv ==
  token["client"] = token["server"] =>
    /\ bad \in {"none", "publisher"}
    /\ srv # "done" =>
       /\ srv = "auth" => /\ token["client"] # NoToken
                          /\ wire = <<>> => conn # "up" \/ cpc = "auth"
                          /\ wire # <<>> => wire[1].kind = "token"
       /\ srv # "auth" => \A i \in 1 .. Len(wire) : wire[i].kind # "token"
       /\ cpc \in {"subscribe", "dial", "auth"} => (srv = "auth" <=> token["client"] # NoToken)

LinkInv ==
  /\ LinkTypes /\ TakenInv /\ LockInv /\ StartInv /\ FrameInv /\ PublishedInv /\ OrderInv /\ AdmitInv

LEMMA PartsAre ==
  /\ Link!NoPart \in Parts /\ Link!NoPart.kind = "none"
  /\ \A t \in Topics, n \in Nat : TextOf(t, n) \in Parts /\ LengthOf(t, n) \in Parts
  /\ Link!Part("token", Link!None, 0) \in Parts /\ Link!Part("token", Link!None, 0).kind = "token"
  /\ \A x \in Parts : x.kind = "text" => x = TextOf(x.t, x.n) /\ x.t \in Topics /\ x.n \in Nat
  /\ \A x \in Parts : x.kind = "length" => x = LengthOf(x.t, x.n) /\ x.t \in Topics /\ x.n \in Nat
BY DEF Parts, TextOf, LengthOf, Link!Part, Link!NoPart, Link!None

LEMMA SentTypes ==
  ASSUME LinkTypes, TakenInv, NEW t \in Topics
  PROVE  /\ Sent(t) \in Nat /\ taken[t] \in Seq(Nat) /\ published[t] \in Seq(Nat)
         /\ Sent(t) <= Len(taken[t])
         /\ InHand(t) => Sent(t) + 1 = Len(taken[t])
BY DEF LinkTypes, TakenInv, Sent

LEMMA IncreasingFront ==
  ASSUME NEW q \in Seq(Nat), NEW r \in Seq(Nat), Increasing(q \o r)
  PROVE  Increasing(q)
BY DEF Increasing

(* Steps that move neither the stream nor the server. *)
LEMMA SendersMove ==
  ASSUME LinkInv, LinkTypes', TakenInv', UNCHANGED <<wire, srv, published>>,
         conn' # "down" => conn # "down" /\ \A t \in Topics : Sent(t)' = Sent(t),
         \A t \in Topics : /\ Sent(t) <= Sent(t)'
                           /\ \A k \in 1 .. Sent(t) : taken'[t][k] = taken[t][k]
  PROVE  PublishedInv' /\ OrderInv'
<1>1. ASSUME NEW t \in Topics
      PROVE  /\ Len(published'[t]) <= Sent(t)'
             /\ \A k \in 1 .. Len(published'[t]) : published'[t][k] = taken'[t][k]
             /\ srv # "done" => Flow(t)'
  <2>1. PICK s \in Nat, e \in Nat, p \in Nat : s = Sent(t) /\ e = Sent(t)' /\ p = Len(published[t])
    <3>1. Sent(t) \in Nat /\ Len(published[t]) \in Nat
      BY SentTypes DEF LinkInv
    <3>2. Sent(t)' \in Nat
      BY DEF LinkTypes, TakenInv, Sent
    <3> QED
      BY <3>1, <3>2
  <2>2. s <= e /\ \A k \in 1 .. s : taken'[t][k] = taken[t][k]
    BY <2>1
  <2>3. p <= s /\ \A k \in 1 .. p : published[t][k] = taken[t][k]
    BY <2>1 DEF LinkInv, PublishedInv
  <2>4. p <= e /\ \A k \in 1 .. p : published[t][k] = taken'[t][k]
    BY <2>2, <2>3
  <2>5. PICK w, q, r : w = wire /\ q = taken[t] /\ r = taken'[t]
    OBVIOUS
  <2>6. srv # "done" => /\ Ordered(w, t, p, q, s)
                        /\ conn # "down" => AllIn(w, t, p, q, s)
    BY <2>1, <2>5 DEF LinkInv, OrderInv, Flow
  <2>7. /\ Ordered(w, t, p, q, s) => Ordered(w, t, p, r, e)
        /\ AllIn(w, t, p, q, s) /\ s = e => AllIn(w, t, p, r, e)
    BY <2>2, <2>5, OrderGrow
  <2>8. conn' # "down" => conn # "down" /\ s = e
    BY <2>1
  <2>9. srv # "done" => Flow(t)'
    BY <2>1, <2>5, <2>6, <2>7, <2>8 DEF Flow
  <2> QED
    BY <2>1, <2>4, <2>9
<1>2. srv # "done" => Distinct(wire')
  BY DEF LinkInv, OrderInv
<1>3. PublishedInv'
  BY <1>1 DEF PublishedInv
<1>4. OrderInv'
  BY <1>1, <1>2 DEF OrderInv
<1> QED
  BY <1>3, <1>4

(* Taking a sample from a channel moves it behind those taken before. *)
LEMMA JoinedSeqs ==
  ASSUME NEW S, NEW g \in Seq(S), NEW c \in Seq(S)
  PROVE  /\ g \o c \in Seq(S)
         /\ \A n \in S : g \o Append(c, n) = Append(g \o c, n)
         /\ c # <<>> => /\ Head(c) \in S /\ Tail(c) \in Seq(S)
                        /\ Append(g, Head(c)) \o Tail(c) = g \o c
<1>1. g \o c \in Seq(S)
  OBVIOUS
<1>2. \A n \in S : g \o Append(c, n) = Append(g \o c, n)
  OBVIOUS
<1>3. ASSUME c # <<>>
      PROVE  /\ Head(c) \in S /\ Tail(c) \in Seq(S)
             /\ Append(g, Head(c)) \o Tail(c) = g \o c
  BY <1>3
<1> QED
  BY <1>1, <1>2, <1>3

LEMMA JoinedHead ==
  \A S : \A g, c \in Seq(S) :
    c # <<>> => /\ Head(c) \in S /\ Tail(c) \in Seq(S)
                /\ Append(g, Head(c)) \o Tail(c) = g \o c
<1>. SUFFICES ASSUME NEW S, NEW g \in Seq(S), NEW c \in Seq(S), c # <<>>
              PROVE  /\ Head(c) \in S /\ Tail(c) \in Seq(S)
                     /\ Append(g, Head(c)) \o Tail(c) = g \o c
  OBVIOUS
<1>1. Head(c) \in S /\ Tail(c) \in Seq(S)
  BY TailOf
<1> QED
  BY <1>1, JoinedSeqs

LEMMA IncreasingAppend ==
  ASSUME NEW q \in Seq(Nat), NEW g \in Nat, Increasing(q), \A i \in 1 .. Len(q) : q[i] <= g
  PROVE  /\ Increasing(Append(q, g + 1))
         /\ \A i \in 1 .. Len(Append(q, g + 1)) : Append(q, g + 1)[i] <= g + 1
<1>1. PICK v \in Seq(Nat) : v = Append(q, g + 1)
  <2>1. g + 1 \in Nat
    OBVIOUS
  <2> QED
    BY <2>1, AppendProperties
<1>2. /\ Len(v) = Len(q) + 1 /\ Len(q) \in Nat /\ v[Len(q) + 1] = g + 1
      /\ \A i \in 1 .. Len(q) : v[i] = q[i] /\ q[i] \in Nat
  BY <1>1, AppendProperties
<1>3. \A i \in 1 .. Len(q) + 1 : v[i] <= g + 1
  BY <1>2
<1>4. ASSUME NEW i \in 1 .. Len(q) + 1, NEW j \in 1 .. Len(q) + 1, i < j PROVE v[i] < v[j]
  <2>1. CASE j \in 1 .. Len(q)
    <3>1. i \in 1 .. Len(q)
      BY <1>4, <2>1
    <3> QED
      BY <1>2, <1>4, <2>1, <3>1 DEF Increasing
  <2>2. CASE j = Len(q) + 1
    <3>1. i \in 1 .. Len(q)
      BY <1>2, <1>4, <2>2
    <3>2. v[i] = q[i] /\ q[i] \in Nat /\ q[i] <= g
      BY <1>2, <3>1
    <3>3. v[j] = g + 1
      BY <1>2, <2>2
    <3> QED
      BY <3>2, <3>3
  <2>3. j \in 1 .. Len(q) \/ j = Len(q) + 1
    BY <1>2
  <2> QED
    BY <2>1, <2>2, <2>3
<1> QED
  BY <1>1, <1>2, <1>3, <1>4 DEF Increasing

LEMMA GiveKeeps ==
  ASSUME LinkInv, NEW t \in Topics, Link!Give(t)
  PROVE  LinkInv'
<1>1. /\ UNCHANGED <<token, cpc, spc, taking, lock, conn, wire, srv, want, bad, taken, published>>
      /\ given' = [given EXCEPT ![t] = @ + 1]
      /\ subChan' = IF Len(subChan[t]) < ChanCap THEN [subChan EXCEPT ![t] = Append(@, given'[t])] ELSE subChan
  BY DEF Link!Give, Link!client, Link!senders, Link!server
<1>2. PICK g \in Nat, q \in Seq(Nat), r \in Seq(Nat) : g = given[t] /\ q = taken[t] /\ r = subChan[t]
  BY DEF LinkInv, LinkTypes
<1>3. /\ given' \in [Topics -> Nat] /\ given'[t] = g + 1 /\ subChan'[t] \in {r, Append(r, g + 1)}
      /\ \A u \in Topics \ {t} : given'[u] = given[u] /\ subChan'[u] = subChan[u]
  BY <1>1, <1>2 DEF LinkInv, LinkTypes
<1>4. subChan' \in [Topics -> Seq(Nat)]
  <2>1. Append(r, g + 1) \in Seq(Nat)
    BY AppendProperties
  <2> QED
    BY <1>1, <1>2, <1>3, <2>1 DEF LinkInv, LinkTypes
<1>5. Increasing(q \o r) /\ \A i \in 1 .. Len(q \o r) : (q \o r)[i] <= g
  BY <1>2 DEF LinkInv, TakenInv
<1>6. /\ Increasing(q \o subChan'[t])
      /\ \A i \in 1 .. Len(q \o subChan'[t]) : (q \o subChan'[t])[i] <= g + 1
  <2>1. CASE subChan'[t] = r
    <3>1. \A i \in 1 .. Len(q \o r) : (q \o r)[i] \in Nat
      OBVIOUS
    <3> QED
      BY <1>5, <2>1, <3>1
  <2>2. CASE subChan'[t] = Append(r, g + 1)
    <3>1. q \o subChan'[t] = Append(q \o r, g + 1) /\ q \o r \in Seq(Nat)
      BY <2>2, JoinedSeqs
    <3> QED
      BY <1>5, <3>1, IncreasingAppend
  <2> QED
    BY <1>3, <2>1, <2>2
<1>7. TakenInv'
  <2>1. ASSUME NEW u \in Topics
        PROVE  /\ Increasing(taken[u] \o subChan'[u])
               /\ \A i \in 1 .. Len(taken[u] \o subChan'[u]) : (taken[u] \o subChan'[u])[i] <= given'[u]
    <3>1. CASE u = t
      BY <1>2, <1>3, <1>6, <3>1
    <3>2. CASE u # t
      <4>1. subChan'[u] = subChan[u] /\ given'[u] = given[u]
        BY <1>3, <3>2
      <4> QED
        BY <4>1 DEF LinkInv, TakenInv
    <3> QED
      BY <3>1, <3>2
  <2>2. \A u \in Topics : InHand(u) => Len(taken[u]) > 0 /\ taking[u] = taken[u][Len(taken[u])]
    BY DEF LinkInv, TakenInv
  <2>3. \A u \in Topics : InHand(u)' = InHand(u)
    BY <1>1 DEF InHand
  <2> QED
    BY <1>1, <2>1, <2>2, <2>3 DEF TakenInv
<1>8. LinkTypes'
  BY <1>1, <1>3, <1>4 DEF LinkInv, LinkTypes
<1>9. PublishedInv' /\ OrderInv'
  BY <1>1 DEF LinkInv, PublishedInv, OrderInv, Flow, Sent, InHand
<1>10. LockInv' /\ StartInv' /\ FrameInv' /\ AdmitInv'
  BY <1>1 DEF LinkInv, LockInv, StartInv, FrameInv, AtEnd, AdmitInv
<1> QED
  BY <1>7, <1>8, <1>9, <1>10 DEF LinkInv

(* The steps of connect() before its threads run, which move no sample. *)
LEMMA ConnectingMoves ==
  ASSUME Link!Connecting
  PROVE  /\ UNCHANGED <<token, given, subChan, spc, taking, lock, taken, ending, wire, srv, want, bad,
                        published>>
         /\ \/ UNCHANGED <<cpc, conn>> /\ cpc \in {"subscribe", "undo"}
            \/ cpc = "subscribe" /\ cpc' \in {"dial", "undo"} /\ conn' = conn
            \/ cpc = "dial" /\ cpc' = "auth" /\ conn' = "up"
            \/ cpc = "dial" /\ cpc' = "undo" /\ conn' = conn
            \/ cpc = "auth" /\ cpc' = "undo" /\ conn' = "down"
            \/ cpc = "undo" /\ cpc' = "failed" /\ conn' = conn
BY DEF Link!Connecting, Link!Subscribe, Link!SubscribeFails, Link!Address, Link!AddressFails, Link!Dial,
   Link!DialFails, Link!AuthFails, Link!UndoNext, Link!Undone, Link!calling, Link!CallGoes, Link!source,
   Link!senders, Link!server

(* The steps of connect() and close(), which move no sample. *)
LEMMA CallerKeeps ==
  ASSUME LinkInv,
         \/ Link!Connecting \/ Link!Start
         \/ Link!CloseStarts \/ Link!CloseOwnSubs \/ Link!JoinSenders
  PROVE  LinkInv'
<1>0. UNCHANGED <<subChan, given, taking, taken, token, srv, want, bad, published>>
  BY ConnectingMoves DEF Link!Start, Link!CloseStarts, Link!CloseOwnSubs,
     Link!JoinSenders, Link!closing, Link!source, Link!senders, Link!server
<1>1. CASE Link!CloseStarts \/ Link!CloseOwnSubs \/ Link!JoinSenders
  <2>1. /\ UNCHANGED <<spc, lock, wire, conn>>
        /\ cpc' \notin {"subscribe", "dial", "auth", "undo", "failed"} /\ cpc \notin {"subscribe", "dial", "auth"}
    BY <1>1 DEF Link!CloseStarts, Link!CloseOwnSubs, Link!JoinSenders,
       Link!closing, Link!source, Link!senders, Link!server
  <2>2. LinkTypes' /\ TakenInv' /\ LockInv' /\ FrameInv'
    BY <1>0, <2>1 DEF LinkInv, LinkTypes, TakenInv, InHand, LockInv, FrameInv, AtEnd
  <2>3. PublishedInv' /\ OrderInv'
    BY <1>0, <2>1 DEF LinkInv, PublishedInv, OrderInv, Flow, Sent, InHand
  <2>4. StartInv' /\ AdmitInv'
    BY <1>0, <2>1 DEF LinkInv, StartInv, AdmitInv
  <2> QED
    BY <2>2, <2>3, <2>4 DEF LinkInv
<1>2. CASE Link!Connecting
  <2>1. /\ UNCHANGED <<spc, lock, wire>>
        /\ \/ UNCHANGED <<cpc, conn>> /\ cpc \in {"subscribe", "undo"}
           \/ cpc = "subscribe" /\ cpc' \in {"dial", "undo"} /\ conn' = conn
           \/ cpc = "dial" /\ cpc' = "auth" /\ conn' = "up"
           \/ cpc = "dial" /\ cpc' = "undo" /\ conn' = conn
           \/ cpc = "auth" /\ cpc' = "undo" /\ conn' = "down"
           \/ cpc = "undo" /\ cpc' = "failed" /\ conn' = conn
    BY <1>2, ConnectingMoves
  <2>2. /\ wire = <<>> /\ (\A t \in Topics : spc[t] = "none")
        /\ cpc \in {"subscribe", "dial"} => conn = "none"
    BY <2>1 DEF LinkInv, StartInv
  <2>3. LinkTypes' /\ TakenInv' /\ LockInv'
    BY <1>0, <2>1 DEF LinkInv, LinkTypes, TakenInv, InHand, LockInv
  <2>4. conn' # "down" => conn # "down"
    BY <2>1, <2>2
  <2>5. FrameInv'
    BY <1>0, <2>1, <2>4 DEF LinkInv, FrameInv, AtEnd
  <2>6. PublishedInv' /\ OrderInv'
    BY <1>0, <2>1, <2>4 DEF LinkInv, PublishedInv, OrderInv, Flow, Sent, InHand
  <2>7. StartInv' /\ AdmitInv'
    BY <1>0, <2>1, <2>2 DEF LinkInv, StartInv, AdmitInv
  <2> QED
    BY <2>3, <2>5, <2>6, <2>7 DEF LinkInv
<1>3. CASE Link!Start
  <2>1. /\ cpc = "auth" /\ (conn = "up" \/ token["client"] = NoToken) /\ cpc' = "open"
        /\ wire' = IF token["client"] = NoToken THEN wire ELSE <<Link!Part("token", Link!None, 0)>>
        /\ spc' = [t \in Topics |-> "poll"] /\ UNCHANGED <<lock, conn>>
    BY <1>3 DEF Link!Start
  <2>2. wire = <<>> /\ \A t \in Topics : spc[t] = "none"
    BY <2>1 DEF LinkInv, StartInv
  <2>3. \A t \in Topics : InHand(t)' = InHand(t)
    BY <2>1, <2>2 DEF InHand
  <2>4. LinkTypes'
    BY <1>0, <2>1, PartsAre DEF LinkInv, LinkTypes
  <2>5. TakenInv' /\ LockInv'
    BY <1>0, <2>1, <2>3 DEF LinkInv, TakenInv, LockInv
  <2>6. StartInv'
    BY <1>0, <2>1 DEF LinkInv, StartInv
  <2>7. CASE token["client"] = NoToken
    <3>1. wire' = wire
      BY <2>1, <2>7
    <3>2. FrameInv'
      BY <1>0, <2>1, <2>2, <3>1 DEF LinkInv, FrameInv, AtEnd
    <3>3. PublishedInv' /\ OrderInv'
      BY <1>0, <2>1, <2>3, <3>1 DEF LinkInv, PublishedInv, OrderInv, Flow, Sent
    <3>4. AdmitInv'
      BY <1>0, <2>1, <2>7, <3>1 DEF LinkInv, AdmitInv
    <3> QED
      BY <2>4, <2>5, <2>6, <3>2, <3>3, <3>4 DEF LinkInv
  <2>8. CASE token["client"] # NoToken
    <3>1. PICK x \in Parts : x = Link!Part("token", Link!None, 0) /\ x.kind = "token"
      BY PartsAre
    <3>2. wire' = <<x>> /\ conn = "up" /\ srv # "done"
      BY <2>1, <2>8, <3>1 DEF LinkInv, StartInv
    <3>3. Len(wire') = 1 /\ wire'[1] = x
      BY <3>2
    <3>4. want.kind # "length"
      BY <2>2, <3>2 DEF LinkInv, FrameInv, AtEnd, LastOf
    <3>5. Chain(wire', want)
      BY <3>1, <3>3, <3>4 DEF Chain, Fits, Before
    <3>6. LastOf(wire', want).kind = "token"
      BY <3>1, <3>2, <3>3 DEF LastOf
    <3>7. FrameInv'
      BY <1>0, <2>1, <3>5, <3>6, <3>2 DEF LinkInv, FrameInv, AtEnd
    <3>8. PublishedInv' /\ \A t \in Topics : Sent(t)' = Sent(t)
      BY <1>0, <2>3 DEF LinkInv, PublishedInv, Sent
    <3>9. OrderInv'
      <4>1. Distinct(wire')
        BY <3>3 DEF Distinct
      <4>2. ASSUME NEW t \in Topics PROVE Flow(t)'
        <5>1. PICK s, p, q : s = Sent(t) /\ p = Len(published[t]) /\ q = taken[t]
          OBVIOUS
        <5>2. AllIn(wire, t, p, q, s) /\ Len(wire) = 0
          BY <2>2, <3>2, <5>1 DEF LinkInv, OrderInv, Flow
        <5>3. AllIn(wire', t, p, q, s)
          BY <5>2 DEF AllIn, Has
        <5>4. Ordered(wire', t, p, q, s)
          BY <3>1, <3>3 DEF Ordered, IsText
        <5> QED
          BY <1>0, <3>8, <5>1, <5>3, <5>4 DEF Flow
      <4> QED
        BY <4>1, <4>2 DEF OrderInv
    <3>10. AdmitInv'
      BY <1>0, <2>1, <2>8, <3>1, <3>2, <3>3 DEF LinkInv, AdmitInv
    <3> QED
      BY <2>4, <2>5, <2>6, <3>7, <3>8, <3>9, <3>10 DEF LinkInv
  <2> QED
    BY <2>7, <2>8
<1> QED
  BY <1>1, <1>2, <1>3

LEMMA PollKeeps ==
  ASSUME LinkInv, NEW t \in Topics, Link!Poll(t)
  PROVE  LinkInv'
<1>0. /\ UNCHANGED <<token, cpc, conn, wire, srv, want, bad, published, given, lock>>
      /\ spc[t] = "poll"
  BY DEF Link!Poll, Link!sending, Link!source, Link!client, Link!server, Link!Goes
<1>1. StartInv' /\ AdmitInv'
  <2>1. cpc \notin {"subscribe", "dial", "auth", "undo", "failed"}
    BY <1>0 DEF LinkInv, StartInv
  <2> QED
    BY <1>0, <2>1 DEF LinkInv, StartInv, AdmitInv
<1>2. CASE spc' = [spc EXCEPT ![t] = "ended"] /\ UNCHANGED <<taking, taken, subChan>>
  <2>1. \A u \in Topics : InHand(u)' = InHand(u) /\ (spc'[u] = "text" <=> spc[u] = "text")
                          /\ (spc'[u] \in {"length", "text"} => spc[u] \in {"length", "text"})
    BY <1>0, <1>2 DEF LinkInv, LinkTypes, InHand
  <2>2. LinkTypes' /\ TakenInv' /\ LockInv' /\ FrameInv'
    BY <1>0, <1>2, <2>1 DEF LinkInv, LinkTypes, TakenInv, LockInv, FrameInv, AtEnd
  <2>3. \A u \in Topics : Sent(u)' = Sent(u) /\ taken'[u] = taken[u]
    BY <1>2, <2>1 DEF Sent
  <2>4. PublishedInv' /\ OrderInv'
    BY <1>0, <2>3 DEF LinkInv, PublishedInv, OrderInv, Flow
  <2> QED
    BY <1>1, <2>2, <2>4 DEF LinkInv
<1>3. CASE /\ subChan[t] # <<>> /\ spc' = [spc EXCEPT ![t] = "lock"]
           /\ taking' = [taking EXCEPT ![t] = Head(subChan[t])]
           /\ taken' = [taken EXCEPT ![t] = Append(@, Head(subChan[t]))]
           /\ subChan' = [subChan EXCEPT ![t] = Tail(@)]
  <2>1. PICK q \in Seq(Nat), r \in Seq(Nat) : q = taken[t] /\ r = subChan[t] /\ r # <<>>
    BY <1>3 DEF LinkInv, LinkTypes
  <2>2. Head(r) \in Nat /\ Tail(r) \in Seq(Nat) /\ Append(q, Head(r)) \o Tail(r) = q \o r
    <3>1. Head(r) \in Nat /\ Tail(r) \in Seq(Nat)
      BY <2>1, TailOf
    <3>2. \A g, c \in Seq(Nat) : c # <<>> => Append(g, Head(c)) \o Tail(c) = g \o c
      BY JoinedHead
    <3>3. r # <<>>
      BY <2>1
    <3>4. Append(q, Head(r)) \o Tail(r) = q \o r
      BY <3>2, <3>3, Zenon
    <3> QED
      BY <3>1, <3>4
  <2>3. PICK v \in Seq(Nat) :
          /\ v = Append(q, Head(r)) /\ Len(v) = Len(q) + 1 /\ Len(q) \in Nat /\ v[Len(q) + 1] = Head(r)
          /\ \A i \in 1 .. Len(q) : v[i] = q[i]
    <3>1. PICK h \in Nat : h = Head(r)
      BY <2>2
    <3>2. PICK v \in Seq(Nat) : v = Append(q, h)
      BY AppendProperties
    <3>3. /\ Len(v) = Len(q) + 1 /\ Len(q) \in Nat /\ v[Len(q) + 1] = h
          /\ \A i \in 1 .. Len(q) : v[i] = q[i]
      BY <3>2, AppendProperties
    <3> QED
      BY <3>1, <3>2, <3>3
  <2>4. /\ taken'[t] = v /\ subChan'[t] = Tail(r) /\ taking'[t] = Head(r)
        /\ \A u \in Topics \ {t} : taken'[u] = taken[u] /\ subChan'[u] = subChan[u] /\ taking'[u] = taking[u]
    BY <1>3, <2>1, <2>3 DEF LinkInv, LinkTypes
  <2>5. /\ taken' \in [Topics -> Seq(Nat)] /\ subChan' \in [Topics -> Seq(Nat)]
        /\ taking' \in [Topics -> Nat]
        /\ spc' \in [Topics -> {"none", "poll", "lock", "length", "text", "failed", "ended"}]
    <3>1. taken' = [taken EXCEPT ![t] = v] /\ subChan' = [subChan EXCEPT ![t] = Tail(r)]
          /\ taking' = [taking EXCEPT ![t] = Head(r)]
      BY <1>3, <2>1, <2>3
    <3>2. taken \in [Topics -> Seq(Nat)] /\ subChan \in [Topics -> Seq(Nat)] /\ taking \in [Topics -> Nat]
          /\ spc \in [Topics -> {"none", "poll", "lock", "length", "text", "failed", "ended"}]
      BY DEF LinkInv, LinkTypes
    <3>3. taken' \in [Topics -> Seq(Nat)]
      BY <3>1, <3>2
    <3>4. subChan' \in [Topics -> Seq(Nat)]
      BY <2>2, <3>1, <3>2
    <3>5. taking' \in [Topics -> Nat]
      BY <2>2, <3>1, <3>2
    <3>6. spc' \in [Topics -> {"none", "poll", "lock", "length", "text", "failed", "ended"}]
      BY <1>3, <3>2
    <3> QED
      BY <3>3, <3>4, <3>5, <3>6
  <2>6. LinkTypes'
    BY <1>0, <2>5 DEF LinkInv, LinkTypes
  <2>7. /\ spc'[t] = "lock" /\ ~InHand(t) /\ InHand(t)'
        /\ \A u \in Topics \ {t} : spc'[u] = spc[u] /\ InHand(u)' = InHand(u)
    BY <1>0, <1>3 DEF LinkInv, LinkTypes, InHand
  <2>8. TakenInv'
    <3>1. ASSUME NEW u \in Topics
          PROVE  /\ Increasing(taken'[u] \o subChan'[u])
                 /\ \A i \in 1 .. Len(taken'[u] \o subChan'[u]) : (taken'[u] \o subChan'[u])[i] <= given[u]
                 /\ InHand(u)' => Len(taken'[u]) > 0 /\ taking'[u] = taken'[u][Len(taken'[u])]
      <4>1. taken'[u] \o subChan'[u] = taken[u] \o subChan[u]
        BY <2>1, <2>2, <2>3, <2>4
      <4>2. InHand(u)' => Len(taken'[u]) > 0 /\ taking'[u] = taken'[u][Len(taken'[u])]
        <5>1. CASE u = t
          BY <2>3, <2>4, <5>1
        <5>2. CASE u # t
          BY <2>4, <2>7, <5>2 DEF LinkInv, TakenInv
        <5> QED
          BY <5>1, <5>2
      <4> QED
        BY <4>1, <4>2 DEF LinkInv, TakenInv
    <3> QED
      BY <1>0, <3>1 DEF TakenInv
  <2>9. \A u \in Topics : /\ Sent(u)' = Sent(u)
                         /\ \A k \in 1 .. Sent(u) : taken'[u][k] = taken[u][k]
    <3>. SUFFICES ASSUME NEW u \in Topics
                  PROVE  /\ Sent(u)' = Sent(u)
                         /\ \A k \in 1 .. Sent(u) : taken'[u][k] = taken[u][k]
      OBVIOUS
    <3>1. CASE u = t
      <4>1. Sent(t) = Len(q) /\ Sent(t)' = Len(q)
        BY <2>1, <2>3, <2>4, <2>7 DEF Sent
      <4> QED
        BY <2>1, <2>3, <2>4, <3>1, <4>1
    <3>2. CASE u # t
      BY <2>4, <2>7, <3>2 DEF Sent
    <3> QED
      BY <3>1, <3>2
  <2>10. \A u \in Topics : Sent(u) <= Sent(u)'
    BY <2>9, SentTypes DEF LinkInv
  <2>11. PublishedInv' /\ OrderInv'
    BY <1>0, <2>6, <2>8, <2>9, <2>10, SendersMove
  <2>12. LockInv' /\ FrameInv'
    <3>1. \A u \in Topics : (spc'[u] = "text" <=> spc[u] = "text")
                           /\ (spc'[u] \in {"length", "text"} => spc[u] \in {"length", "text"})
                           /\ (spc'[u] = "text" => taking'[u] = taking[u])
      BY <1>0, <2>4, <2>7
    <3> QED
      BY <1>0, <3>1 DEF LinkInv, LockInv, FrameInv, AtEnd
  <2> QED
    BY <1>1, <2>6, <2>8, <2>11, <2>12 DEF LinkInv
<1> QED
  BY <1>2, <1>3 DEF Link!Poll, Link!Goes, Link!sending, Link!source

(* Taking write_mu, and what follows a send that failed. *)
LEMMA TurnKeeps ==
  ASSUME Link!None \notin Topics, LinkInv, NEW t \in Topics,
         Link!LockWrites(t) \/ Link!SendFails(t) \/ Link!CloseSubs(t)
  PROVE  LinkInv'
<1>0. UNCHANGED <<token, cpc, conn, wire, srv, want, bad, published, given, subChan, taking, taken>>
  BY DEF Link!LockWrites, Link!SendFails, Link!CloseSubs, Link!sending, Link!source, Link!client, Link!server
<1>1. PICK to \in {"length", "failed", "ended"} : spc' = [spc EXCEPT ![t] = to]
  BY DEF Link!LockWrites, Link!SendFails, Link!CloseSubs, Link!Goes
<1>2. /\ spc[t] \in {"lock", "length", "text", "failed"}
      /\ to = "length" => spc[t] = "lock" /\ lock = Link!None /\ lock' = t
      /\ to = "failed" => spc[t] \in {"length", "text"} /\ conn = "down"
      /\ to = "ended" => spc[t] = "failed" /\ lock' = lock
  BY <1>1 DEF Link!LockWrites, Link!SendFails, Link!CloseSubs, Link!Goes, LinkInv, LinkTypes
<1>3. spc'[t] = to /\ \A u \in Topics \ {t} : spc'[u] = spc[u]
  BY <1>1 DEF LinkInv, LinkTypes
<1>4. LinkTypes' /\ StartInv' /\ AdmitInv'
  <2>1. cpc \notin {"subscribe", "dial", "auth", "undo", "failed"}
    BY <1>2 DEF LinkInv, StartInv
  <2> QED
    BY <1>0, <1>1, <2>1 DEF LinkInv, LinkTypes, StartInv, AdmitInv
<1>5. ASSUME NEW u \in Topics
      PROVE  /\ InHand(u)' => InHand(u)
             /\ conn # "down" /\ InHand(u) => InHand(u)'
  <2>1. CASE u = t
    BY <1>2, <1>3, <2>1 DEF InHand
  <2>2. CASE u # t
    BY <1>3, <2>2 DEF InHand
  <2> QED
    BY <2>1, <2>2
<1>6. TakenInv'
  <2>1. ASSUME NEW u \in Topics, InHand(u)'
        PROVE  Len(taken[u]) > 0 /\ taking[u] = taken[u][Len(taken[u])]
    <3>1. InHand(u)
      BY <1>5, <2>1
    <3> QED
      BY <3>1 DEF LinkInv, TakenInv
  <2>2. \A u \in Topics : /\ Increasing(taken[u] \o subChan[u])
                         /\ \A i \in 1 .. Len(taken[u] \o subChan[u]) : (taken[u] \o subChan[u])[i] <= given[u]
    BY DEF LinkInv, TakenInv
  <2> QED
    BY <1>0, <2>1, <2>2 DEF TakenInv
<1>7. ASSUME NEW u \in Topics
      PROVE  Sent(u) <= Sent(u)' /\ (conn # "down" => Sent(u)' = Sent(u))
  <2>1. PICK n \in Nat : n = Len(taken[u])
    BY DEF LinkInv, LinkTypes
  <2>2. Sent(u) = IF InHand(u) THEN n - 1 ELSE n
    BY <2>1 DEF Sent
  <2>3. Sent(u)' = IF InHand(u)' THEN n - 1 ELSE n
    BY <1>0, <2>1 DEF Sent
  <2>4. (InHand(u)' => InHand(u)) /\ (conn # "down" /\ InHand(u) => InHand(u)')
    BY <1>5
  <2> QED
    BY <2>2, <2>3, <2>4
<1>8. PublishedInv' /\ OrderInv'
  <2>1. LinkTypes' /\ TakenInv' /\ UNCHANGED <<wire, srv, published>>
    BY <1>0, <1>4, <1>6
  <2>2. ASSUME NEW u \in Topics
        PROVE  /\ conn' # "down" => Sent(u)' = Sent(u)
               /\ Sent(u) <= Sent(u)' /\ \A k \in 1 .. Sent(u) : taken'[u][k] = taken[u][k]
    BY <1>0, <1>7
  <2>3. conn' # "down" => conn # "down"
    BY <1>0
  <2> QED
    BY <2>1, <2>2, <2>3, SendersMove
<1>9. LockInv'
  <2>1. CASE to = "length"
    <3>1. \A u \in Topics \ {t} : spc[u] \notin {"length", "text"}
      BY <1>2, <2>1 DEF LinkInv, LockInv
    <3> QED
      BY <1>2, <1>3, <2>1, <3>1 DEF LockInv
  <2>2. CASE to = "failed"
    <3>1. \A u \in Topics \ {t} : spc[u] \notin {"length", "text"}
      BY <1>2, <2>2 DEF LinkInv, LockInv
    <3> QED
      BY <1>3, <2>2, <3>1 DEF LockInv
  <2>3. CASE to = "ended"
    BY <1>2, <1>3, <2>3 DEF LinkInv, LockInv
  <2> QED
    BY <1>1, <2>1, <2>2, <2>3
<1>10. FrameInv'
  <2>1. conn # "down" => \A u \in Topics : spc'[u] = "text" <=> spc[u] = "text"
    BY <1>2, <1>3
  <2> QED
    BY <1>0, <2>1 DEF LinkInv, FrameInv, AtEnd
<1> QED
  BY <1>4, <1>6, <1>8, <1>9, <1>10 DEF LinkInv

LEMMA SendKeeps ==
  ASSUME Link!None \notin Topics, LinkInv, NEW t \in Topics, Link!SendPart(t)
  PROVE  LinkInv'
<1>0. /\ UNCHANGED <<token, cpc, conn, srv, want, bad, published, given, subChan, taking, taken>>
      /\ conn = "up" /\ spc[t] \in {"length", "text"}
      /\ wire' = Append(wire, Link!Part(spc[t], t, taking[t]))
  BY DEF Link!SendPart, Link!Goes, Link!sending, Link!source, Link!client, Link!server
<1>1. srv # "done" /\ cpc \notin {"subscribe", "dial", "auth", "undo", "failed"}
  BY <1>0 DEF LinkInv, StartInv
<1>2. PICK w \in Seq(Parts), n \in Nat : w = wire /\ n = taking[t]
  BY DEF LinkInv, LinkTypes
<1>3. \A u \in Topics \ {t} : spc[u] \notin {"length", "text"}
  BY <1>0 DEF LinkInv, LockInv
<1>4. PICK y \in Parts : /\ wire' = Append(w, y) /\ y.kind \in {"length", "text"}
                        /\ \/ spc[t] = "length" /\ y = LengthOf(t, n)
                           \/ spc[t] = "text" /\ y = TextOf(t, n)
  <2>1. CASE spc[t] = "length"
    <3>1. wire' = Append(w, LengthOf(t, n)) /\ LengthOf(t, n) \in Parts
      BY <1>0, <1>2, <2>1, PartsAre DEF LengthOf
    <3> QED
      BY <2>1, <3>1, TextIs
  <2>2. CASE spc[t] = "text"
    <3>1. wire' = Append(w, TextOf(t, n)) /\ TextOf(t, n) \in Parts
      BY <1>0, <1>2, <2>2, PartsAre DEF TextOf
    <3> QED
      BY <2>2, <3>1, TextIs
  <2> QED
    BY <1>0, <2>1, <2>2
<1>5. /\ wire' = Append(w, y) /\ wire' \in Seq(Parts) /\ wire' # <<>>
      /\ Len(wire') = Len(w) + 1 /\ Len(w) \in Nat /\ wire'[Len(w) + 1] = y
      /\ \A i \in 1 .. Len(w) : wire'[i] = w[i]
  <2>1. PICK v \in Seq(Parts) : v = Append(w, y)
    BY AppendProperties
  <2>2. /\ v # <<>> /\ Len(v) = Len(w) + 1 /\ Len(w) \in Nat /\ v[Len(w) + 1] = y
        /\ \A i \in 1 .. Len(w) : v[i] = w[i]
    BY <2>1, AppendProperties
  <2> QED
    BY <1>4, <2>1, <2>2
<1>6. Distinct(w) /\ \A u \in Topics : Flow(u)
  BY <1>1, <1>2 DEF LinkInv, OrderInv
<1>7. Chain(w, want) /\ AtEnd
  BY <1>0, <1>1, <1>2 DEF LinkInv, FrameInv
<1>8. StartInv'
  BY <1>0, <1>1 DEF LinkInv, StartInv
<1>9. AdmitInv'
  <2>1. token["client"] = token["server"] =>
          /\ bad \in {"none", "publisher"}
          /\ srv = "auth" => token["client"] # NoToken /\ w # <<>> /\ w[1].kind = "token"
          /\ srv # "auth" => \A i \in 1 .. Len(w) : w[i].kind # "token"
    BY <1>0, <1>1, <1>2 DEF LinkInv, AdmitInv
  <2>2. w # <<>> => wire'[1] = w[1]
    BY <1>5
  <2>3. y.kind # "token"
    BY <1>4
  <2> QED
    BY <1>0, <1>1, <1>5, <2>1, <2>2, <2>3 DEF AdmitInv
<1>10. CASE spc[t] = "length"
  <2>0. y = LengthOf(t, n) /\ y.kind = "length"
    BY <1>4, <1>10, TextIs
  <2>1. spc' = [spc EXCEPT ![t] = "text"] /\ lock' = lock
    BY <1>10 DEF Link!SendPart, Link!Goes
  <2>2. spc'[t] = "text" /\ \A u \in Topics \ {t} : spc'[u] = spc[u]
    BY <2>1 DEF LinkInv, LinkTypes
  <2>3. LinkTypes' /\ LockInv'
    BY <1>0, <1>5, <1>10, <2>1, <2>2 DEF LinkInv, LinkTypes, LockInv
  <2>4. \A u \in Topics : InHand(u)' = InHand(u)
    BY <1>10, <2>2 DEF InHand
  <2>5. TakenInv' /\ PublishedInv' /\ \A u \in Topics : Sent(u)' = Sent(u)
    BY <1>0, <2>4 DEF LinkInv, TakenInv, PublishedInv, Sent
  <2>6. LastOf(w, want).kind # "length"
    BY <1>2, <1>3, <1>7, <1>10 DEF AtEnd
  <2>7. Chain(wire', want) /\ LastOf(wire', want) = LengthOf(t, n)
    <3>1. Fits(LastOf(w, want), y, Len(w) + 1)
      BY <2>0, <2>6 DEF Fits
    <3> QED
      BY <1>5, <1>7, <2>0, <3>1, ChainAppend
  <2>8. AtEnd'
    BY <1>0, <1>2, <1>3, <2>2, <2>7 DEF AtEnd
  <2>9. FrameInv'
    BY <1>0, <1>1, <2>7, <2>8 DEF LinkInv, FrameInv
  <2>10. Distinct(wire')
    BY <1>5, <1>6, <2>0, DistinctAppend
  <2>11. ASSUME NEW u \in Topics PROVE Flow(u)'
    <3>1. PICK s \in Nat, p \in Nat, q \in Seq(Nat) : s = Sent(u) /\ p = Len(published[u]) /\ q = taken[u]
      BY SentTypes DEF LinkInv
    <3>2. Ordered(w, u, p, q, s) /\ AllIn(w, u, p, q, s)
      BY <1>0, <1>2, <1>6, <3>1 DEF Flow
    <3>3. ~IsText(y, u)
      BY <2>0 DEF IsText
    <3>4. Ordered(wire', u, p, q, s) /\ AllIn(wire', u, p, q, s)
      BY <1>5, <3>2, <3>3, OrderAppend
    <3> QED
      BY <1>0, <2>5, <3>1, <3>4 DEF Flow
  <2>12. OrderInv'
    BY <2>10, <2>11 DEF OrderInv
  <2> QED
    BY <1>8, <1>9, <2>3, <2>5, <2>9, <2>12 DEF LinkInv
<1>11. CASE spc[t] = "text"
  <2>0. y = TextOf(t, n) /\ y.kind = "text" /\ y.t = t
    BY <1>4, <1>11, TextIs
  <2>1. spc' = [spc EXCEPT ![t] = "poll"] /\ lock' = Link!None
    BY <1>11 DEF Link!SendPart, Link!Goes
  <2>2. spc'[t] = "poll" /\ \A u \in Topics \ {t} : spc'[u] = spc[u]
    BY <2>1 DEF LinkInv, LinkTypes
  <2>3. LinkTypes' /\ LockInv'
    BY <1>0, <1>3, <1>5, <2>1, <2>2 DEF LinkInv, LinkTypes, LockInv
  <2>4. InHand(t) /\ ~InHand(t)' /\ \A u \in Topics \ {t} : InHand(u)' = InHand(u)
    BY <1>11, <2>2 DEF InHand
  <2>5. TakenInv'
    BY <1>0, <2>4 DEF LinkInv, TakenInv
  <2>6. Sent(t)' = Sent(t) + 1 /\ \A u \in Topics \ {t} : Sent(u)' = Sent(u)
    <3>1. Len(taken[t]) \in Nat /\ taken' = taken
      BY <1>0 DEF LinkInv, LinkTypes
    <3> QED
      BY <2>4, <3>1 DEF Sent
  <2>7. PublishedInv'
    <3>. SUFFICES ASSUME NEW u \in Topics
                  PROVE  /\ Len(published[u]) <= Sent(u)'
                         /\ \A k \in 1 .. Len(published[u]) : published[u][k] = taken[u][k]
      BY <1>0 DEF PublishedInv
    <3>1. /\ Len(published[u]) <= Sent(u) /\ Sent(u) \in Nat /\ Len(published[u]) \in Nat
          /\ \A k \in 1 .. Len(published[u]) : published[u][k] = taken[u][k]
      BY SentTypes DEF LinkInv, PublishedInv
    <3>2. Sent(u)' = Sent(u) \/ Sent(u)' = Sent(u) + 1
      BY <2>6
    <3> QED
      BY <3>1, <3>2
  <2>8. LastOf(w, want) = LengthOf(t, n)
    BY <1>2, <1>7, <1>11 DEF AtEnd
  <2>9. Chain(wire', want) /\ LastOf(wire', want) = TextOf(t, n)
    <3>1. Fits(LastOf(w, want), y, Len(w) + 1)
      <4>1. LengthOf(t, n).kind = "length" /\ LengthOf(t, n).t = t /\ LengthOf(t, n).n = n
        BY TextIs
      <4> QED
        BY <2>0, <2>8, <4>1 DEF Fits
    <3> QED
      BY <1>5, <1>7, <2>0, <3>1, ChainAppend
  <2>10. AtEnd'
    <3>1. LastOf(wire', want).kind = "text"
      BY <2>9, TextIs
    <3>2. \A u \in Topics : spc'[u] # "text"
      BY <1>3, <2>2
    <3> QED
      BY <1>0, <3>1, <3>2 DEF AtEnd
  <2>11. FrameInv'
    BY <1>0, <1>1, <2>9, <2>10 DEF LinkInv, FrameInv
  <2>12. PICK s \in Nat, p \in Nat, q \in Seq(Nat) :
           s = Sent(t) /\ p = Len(published[t]) /\ q = taken[t]
    BY SentTypes DEF LinkInv
  <2>13. /\ s + 1 = Len(q) /\ n = q[s + 1] /\ p <= s /\ Increasing(q)
         /\ Ordered(w, t, p, q, s) /\ AllIn(w, t, p, q, s)
    <3>1. s + 1 = Len(q)
      BY <2>4, <2>12, SentTypes DEF LinkInv
    <3>2. n = q[Len(q)]
      BY <1>2, <2>4, <2>12 DEF LinkInv, TakenInv
    <3>3. p <= s
      BY <2>12 DEF LinkInv, PublishedInv
    <3>4. Ordered(w, t, p, q, s) /\ AllIn(w, t, p, q, s)
      BY <1>0, <1>2, <1>6, <2>12 DEF Flow
    <3>5. Increasing(q)
      <4>1. PICK r \in Seq(Nat) : r = subChan[t]
        BY DEF LinkInv, LinkTypes
      <4>2. Increasing(q \o r)
        BY <2>12, <4>1 DEF LinkInv, TakenInv
      <4> QED
        BY <4>2, IncreasingFront
    <3> QED
      BY <3>1, <3>2, <3>3, <3>4, <3>5
  <2>14. Distinct(wire')
    <3>1. \A i \in 1 .. Len(w) : w[i] # y
      BY <2>0, <2>13, InHandIsNew
    <3> QED
      BY <1>5, <1>6, <3>1, DistinctAppend
  <2>15. ASSUME NEW u \in Topics PROVE Flow(u)'
    <3>1. CASE u = t
      <4>1. y = TextOf(t, q[s + 1]) /\ TextOf(t, q[s + 1]) \in Parts /\ s + 1 <= Len(q)
        BY <2>0, <2>13
      <4>2. Ordered(wire', t, p, q, s + 1) /\ AllIn(wire', t, p, q, s + 1)
        BY <1>5, <2>13, <4>1, OrderAppendText
      <4> QED
        BY <1>0, <2>6, <2>12, <3>1, <4>2 DEF Flow
    <3>2. CASE u # t
      <4>0. Sent(u) \in Nat /\ taken[u] \in Seq(Nat) /\ published[u] \in Seq(Nat)
        BY SentTypes DEF LinkInv
      <4>1. PICK a \in Nat, b \in Nat, c \in Seq(Nat) : a = Sent(u) /\ b = Len(published[u]) /\ c = taken[u]
        <5>1. Len(published[u]) \in Nat
          BY <4>0
        <5> QED
          BY <4>0, <5>1
      <4>2. Ordered(w, u, b, c, a) /\ AllIn(w, u, b, c, a)
        BY <1>0, <1>2, <1>6, <4>1 DEF Flow
      <4>3. ~IsText(y, u)
        BY <2>0, <3>2 DEF IsText
      <4>4. Ordered(wire', u, b, c, a) /\ AllIn(wire', u, b, c, a)
        BY <1>5, <4>2, <4>3, OrderAppend
      <4> QED
        BY <1>0, <2>6, <3>2, <4>1, <4>4 DEF Flow
    <3> QED
      BY <3>1, <3>2
  <2>16. OrderInv'
    BY <2>14, <2>15 DEF OrderInv
  <2> QED
    BY <1>8, <1>9, <2>3, <2>5, <2>7, <2>11, <2>16 DEF LinkInv
<1> QED
  BY <1>0, <1>10, <1>11

(* The connection goes, and with it the end of what is under way. *)
LEMMA CutKeeps ==
  ASSUME LinkInv, UNCHANGED <<token, srv, want, bad, published, given, subChan, taking, taken, spc, lock>>,
         conn' = "down", NEW c \in 0 .. Len(wire), wire' = SubSeq(wire, 1, c),
         (cpc' = cpc /\ cpc \notin {"subscribe", "dial"}) \/ (cpc' = "subs" /\ cpc = "shutdown")
  PROVE  LinkInv'
<1>1. PICK w \in Seq(Parts) : w = wire
  BY DEF LinkInv, LinkTypes
<1>2. PICK v \in Seq(Parts) : v = SubSeq(w, 1, c)
  BY <1>1, CutOf
<1>3. wire' = v /\ c \in 0 .. Len(w) /\ Len(v) = c /\ \A i \in 1 .. c : v[i] = w[i]
  BY <1>1, <1>2, CutOf
<1>4. w = <<>> => v = <<>>
  BY <1>3
<1>5. LinkTypes' /\ TakenInv' /\ LockInv' /\ PublishedInv'
  BY <1>3 DEF LinkInv, LinkTypes, TakenInv, LockInv, PublishedInv, Sent, InHand
<1>6. StartInv'
  BY <1>1, <1>3, <1>4 DEF LinkInv, StartInv
<1>7. FrameInv'
  <2>1. srv # "done" => Chain(w, want)
    BY <1>1 DEF LinkInv, FrameInv
  <2>2. srv # "done" => Chain(v, want)
    BY <1>2, <1>3, <2>1, ChainCut
  <2> QED
    BY <1>3, <2>2 DEF LinkInv, FrameInv
<1>8. OrderInv'
  <2>. SUFFICES ASSUME srv # "done" PROVE Distinct(wire') /\ \A t \in Topics : Flow(t)'
    BY DEF OrderInv
  <2>1. Distinct(v)
    BY <1>1, <1>2, <1>3, OrderCut DEF LinkInv, OrderInv
  <2>2. ASSUME NEW t \in Topics PROVE Flow(t)'
    <3>1. PICK s, p, q : s = Sent(t) /\ p = Len(published[t]) /\ q = taken[t]
      OBVIOUS
    <3>2. Ordered(w, t, p, q, s)
      BY <1>1, <3>1 DEF LinkInv, OrderInv, Flow
    <3>3. Ordered(v, t, p, q, s)
      BY <1>2, <1>3, <3>2, OrderCut
    <3>4. s = Sent(t)'
      BY <3>1 DEF Sent, InHand
    <3> QED
      BY <1>3, <3>1, <3>3, <3>4 DEF Flow
  <2> QED
    BY <1>3, <2>1, <2>2
<1>9. AdmitInv'
  <2>1. v # <<>> => w # <<>> /\ v[1] = w[1]
    BY <1>3, <1>4
  <2>2. \A i \in 1 .. Len(v) : v[i] = w[i] /\ i \in 1 .. Len(w)
    BY <1>3
  <2> QED
    BY <1>1, <1>3, <2>1, <2>2 DEF LinkInv, AdmitInv
<1> QED
  BY <1>5, <1>6, <1>7, <1>8, <1>9 DEF LinkInv

LEMMA NetworkKeeps ==
  ASSUME LinkInv, Link!ShutConn \/ Link!Break \/ Link!StopReading
  PROVE  LinkInv'
<1>0. UNCHANGED <<token, srv, want, bad, published, given, subChan, taking, taken, spc, lock>>
  BY DEF Link!ShutConn, Link!Break, Link!StopReading, Link!closing, Link!client, Link!source,
     Link!senders, Link!server
<1>1. PICK w \in Seq(Parts) : w = wire
  BY DEF LinkInv, LinkTypes
<1>2. CASE Link!ShutConn
  <2>1. conn' = "down" /\ cpc' = "subs" /\ cpc = "shutdown" /\ wire' \in {w, <<>>}
    BY <1>1, <1>2 DEF Link!ShutConn
  <2>2. CASE wire' = w
    <3>1. w = SubSeq(w, 1, Len(w)) /\ Len(w) \in 0 .. Len(w)
      OBVIOUS
    <3> QED
      BY <1>0, <1>1, <2>1, <2>2, <3>1, CutKeeps
  <2>3. CASE wire' = <<>>
    <3>1. <<>> = SubSeq(w, 1, 0) /\ 0 \in 0 .. Len(w)
      OBVIOUS
    <3> QED
      BY <1>0, <1>1, <2>1, <2>3, <3>1, CutKeeps
  <2> QED
    BY <2>1, <2>2, <2>3
<1>3. CASE Link!Break
  <2>1. conn = "up" /\ conn' = "down" /\ cpc' = cpc /\ \E n \in 0 .. Len(wire) : wire' = SubSeq(wire, 1, n)
    BY <1>3 DEF Link!Break, Link!client
  <2>2. cpc \notin {"subscribe", "dial"}
    BY <2>1 DEF LinkInv, StartInv
  <2>3. PICK n \in 0 .. Len(wire) : wire' = SubSeq(wire, 1, n)
    BY <2>1
  <2> QED
    BY <1>0, <2>1, <2>2, <2>3, CutKeeps
<1>4. CASE Link!StopReading
  <2>1. UNCHANGED <<cpc, conn, wire>>
    BY <1>4 DEF Link!StopReading, Link!client
  <2>2. LinkTypes' /\ TakenInv' /\ LockInv' /\ StartInv'
    BY <1>0, <2>1 DEF LinkInv, LinkTypes, TakenInv, LockInv, StartInv, InHand
  <2>3. FrameInv' /\ AdmitInv'
    BY <1>0, <2>1 DEF LinkInv, FrameInv, AtEnd, AdmitInv
  <2>4. PublishedInv' /\ OrderInv'
    BY <1>0, <2>1 DEF LinkInv, PublishedInv, OrderInv, Flow, Sent, InHand
  <2> QED
    BY <2>2, <2>3, <2>4 DEF LinkInv
<1> QED
  BY <1>2, <1>3, <1>4

LEMMA LastTail ==
  ASSUME NEW S, NEW w \in Seq(S), w # <<>>, NEW x, NEW y
  PROVE  /\ LastOf(Tail(w), w[1]) = LastOf(w, x)
         /\ Tail(w) # <<>> => LastOf(Tail(w), y) = LastOf(w, x)
         /\ Tail(w) = <<>> => LastOf(Tail(w), y) = y /\ LastOf(w, x) = w[1]
<1>1. PICK v \in Seq(S) : v = Tail(w)
  BY TailOf
<1>2. Len(v) = Len(w) - 1 /\ Len(w) \in Nat \ {0} /\ \A i \in 1 .. Len(w) - 1 : v[i] = w[i + 1]
  BY <1>1, TailOf
<1>3. LastOf(w, x) = w[Len(w)]
  BY DEF LastOf
<1>4. CASE v = <<>>
  <2>1. Len(w) = 1
    BY <1>2, <1>4
  <2> QED
    BY <1>1, <1>3, <1>4, <2>1 DEF LastOf
<1>5. CASE v # <<>>
  <2>1. Len(v) \in 1 .. Len(w) - 1 /\ Len(v) + 1 = Len(w)
    BY <1>2, <1>5
  <2>2. v[Len(v)] = w[Len(w)]
    BY <1>2, <2>1
  <2> QED
    BY <1>1, <1>3, <1>5, <2>2 DEF LastOf
<1> QED
  BY <1>4, <1>5

(* The server reads the part x, and goes on. *)
LEMMA ReadKeeps ==
  ASSUME LinkInv, wire # <<>>, wire' = Tail(wire), srv # "done",
         UNCHANGED <<token, cpc, given, subChan, taken, taking, spc, lock, conn>>,
         NEW x, x = wire[1], want' \in Parts,
         want' = x \/ (want'.kind # "length" /\ x.kind # "length")
  PROVE  /\ wire' \in Seq(Parts) /\ x \in Parts /\ Fits(want, x, 1)
         /\ Chain(wire', want') /\ (conn # "down" => AtEnd') /\ Distinct(wire')
         /\ cpc \notin {"subscribe", "dial", "auth", "undo", "failed"}
         /\ TakenInv' /\ LockInv'
<1>1. PICK w \in Seq(Parts) : w = wire /\ w # <<>> /\ x = w[1]
  BY DEF LinkInv, LinkTypes
<1>2. PICK v \in Seq(Parts) : v = Tail(w)
  BY <1>1, TailOf
<1>3. wire' = v /\ x \in Parts
  BY <1>1, <1>2, TailOf
<1>4. PICK y \in Parts, z \in Parts : y = want' /\ z = want
  BY DEF LinkInv, LinkTypes
<1>5. Chain(w, z) /\ (conn # "down" => AtEnd) /\ Distinct(w)
  BY <1>1, <1>4 DEF LinkInv, FrameInv, OrderInv
<1>6. Chain(v, y) /\ Fits(z, x, 1)
  BY <1>1, <1>2, <1>4, <1>5, ChainTail
<1>7. Distinct(v)
  BY <1>1, <1>2, <1>5, DistinctTail
<1>8. ASSUME conn # "down" PROVE AtEnd'
  <2>1. /\ \A t \in Topics : spc[t] = "text" => LastOf(w, z) = LengthOf(t, taking[t])
        /\ (\A t \in Topics : spc[t] # "text") => LastOf(w, z).kind # "length"
    BY <1>1, <1>4, <1>5, <1>8 DEF AtEnd
  <2>2. CASE LastOf(v, y) = LastOf(w, z)
    BY <1>3, <1>4, <2>1, <2>2 DEF AtEnd
  <2>3. CASE LastOf(v, y) # LastOf(w, z)
    <3>1. y # x /\ LastOf(v, y) = y /\ LastOf(w, z) = x
      BY <1>1, <1>2, <2>3, LastTail
    <3>2. y.kind # "length" /\ x.kind # "length"
      BY <1>4, <3>1
    <3>3. ASSUME NEW t \in Topics PROVE spc[t] # "text"
      BY <2>1, <3>1, <3>2, TextIs
    <3> QED
      BY <1>3, <1>4, <3>1, <3>2, <3>3 DEF AtEnd
  <2> QED
    BY <2>2, <2>3
<1>9. cpc \notin {"subscribe", "dial", "auth", "undo", "failed"}
  BY DEF LinkInv, StartInv
<1>10. TakenInv' /\ LockInv'
  BY DEF LinkInv, TakenInv, LockInv, InHand
<1> QED
  BY <1>3, <1>4, <1>6, <1>7, <1>8, <1>9, <1>10

(* A part that is no text of t leaves what is under way for t. *)
LEMMA ReadFlow ==
  ASSUME LinkInv, wire # <<>>, wire' = Tail(wire), srv # "done", NEW t \in Topics, ~IsText(wire[1], t),
         UNCHANGED <<taken, spc, conn>>, published'[t] = published[t]
  PROVE  Flow(t)' /\ Sent(t)' = Sent(t)
<1>1. PICK w \in Seq(Parts) : w = wire /\ w # <<>>
  BY DEF LinkInv, LinkTypes
<1>2. PICK s \in Nat, p \in Nat, q \in Seq(Nat) : s = Sent(t) /\ p = Len(published[t]) /\ q = taken[t]
  BY SentTypes DEF LinkInv
<1>3. Sent(t)' = s
  BY <1>2 DEF Sent, InHand
<1>4. Ordered(w, t, p, q, s) /\ (conn # "down" => AllIn(w, t, p, q, s))
  BY <1>1, <1>2 DEF LinkInv, OrderInv, Flow
<1>5. Ordered(Tail(w), t, p, q, s) /\ (AllIn(w, t, p, q, s) => AllIn(Tail(w), t, p, q, s))
  BY <1>1, <1>4, OrderTail
<1>6. Ordered(wire', t, p, q, s) /\ (conn # "down" => AllIn(wire', t, p, q, s))
  BY <1>1, <1>4, <1>5
<1> QED
  BY <1>2, <1>3, <1>6 DEF Flow

(* A server that has stopped reads nothing more. *)
LEMMA StopsKeeps ==
  ASSUME LinkInv, UNCHANGED <<token, cpc, given, subChan, taken, taking, spc, lock, published, want>>,
         srv' = "done", conn' = "down", wire' \in Seq(Parts), wire = <<>> => wire' = <<>>,
         cpc \notin {"subscribe", "dial"},
         token["client"] = token["server"] => bad' \in {"none", "publisher"}
  PROVE  LinkInv'
<1>1. LinkTypes' /\ TakenInv' /\ LockInv' /\ PublishedInv'
  BY DEF LinkInv, LinkTypes, TakenInv, LockInv, PublishedInv, Sent, InHand
<1>2. StartInv'
  BY DEF LinkInv, StartInv
<1>3. FrameInv' /\ OrderInv' /\ AdmitInv'
  BY DEF FrameInv, OrderInv, AdmitInv
<1> QED
  BY <1>1, <1>2, <1>3 DEF LinkInv

LEMMA ServerKeeps ==
  ASSUME LinkInv, Link!Server
  PROVE  LinkInv'
<1>0. UNCHANGED <<token, cpc, given, subChan, taken, taking, spc, lock>> /\ srv # "done"
  BY DEF Link!Server, Link!Authenticate, Link!ReadLength, Link!ReadText, Link!ReadFails, Link!serving,
     Link!client, Link!source, Link!senders
<1>1. CASE Link!ReadFails
  <2>1. srv' = "done" /\ conn = "down" /\ conn' = conn /\ UNCHANGED <<wire, want, bad, published>>
    BY <1>1 DEF Link!ReadFails
  <2>2. cpc \notin {"subscribe", "dial"} /\ wire' \in Seq(Parts)
    BY <2>1 DEF LinkInv, StartInv, LinkTypes
  <2>3. token["client"] = token["server"] => bad' \in {"none", "publisher"}
    BY <2>1 DEF LinkInv, AdmitInv
  <2> QED
    BY <1>0, <2>1, <2>2, <2>3, StopsKeeps
<1>2. CASE Link!Authenticate \/ Link!ReadLength \/ Link!ReadText
  <2>0. wire # <<>> /\ wire' = Tail(wire)
    BY <1>2 DEF Link!Authenticate, Link!ReadLength, Link!ReadText, Link!Read
  <2>1. PICK w \in Seq(Parts) : w = wire /\ w # <<>>
    BY <2>0 DEF LinkInv, LinkTypes
  <2>2. PICK x \in Parts : x = w[1] /\ x = Head(wire) /\ x = wire[1] /\ Len(w) \in Nat \ {0}
    BY <2>1, TailOf
  <2>3. wire' \in Seq(Parts) /\ cpc \notin {"subscribe", "dial", "auth", "undo", "failed"} /\ Fits(want, x, 1)
    <3>1. wire' \in Seq(Parts)
      BY <2>0, <2>1, TailOf
    <3>2. cpc \notin {"subscribe", "dial", "auth", "undo", "failed"}
      BY <2>0 DEF LinkInv, StartInv
    <3>3. Chain(w, want)
      BY <1>0, <2>1 DEF LinkInv, FrameInv
    <3>4. Fits(want, x, 1)
      BY <2>1, <2>2, <3>3, ChainTail
    <3> QED
      BY <3>1, <3>2, <3>4
  <2>4. ASSUME UNCHANGED <<want, published>>, srv' = "done", conn' = "down",
               token["client"] = token["server"] => bad' \in {"none", "publisher"}
        PROVE  LinkInv'
    BY <1>0, <2>0, <2>3, <2>4, StopsKeeps
  <2>5. CASE srv = "auth" /\ Link!Authenticate
    <3>1. CASE Link!Authorized(x)
      <4>1. srv' = "length" /\ UNCHANGED <<want, bad, published, conn>>
        BY <2>2, <2>5, <3>1 DEF Link!Authenticate
      <4>2. x.kind = "token" /\ want = Link!NoPart /\ want \in Parts /\ want.kind # "length"
        BY <1>0, <2>5, <3>1, PartsAre DEF Link!Authorized, LinkInv, FrameInv
      <4>3. /\ Chain(wire', want') /\ (conn # "down" => AtEnd') /\ Distinct(wire')
            /\ TakenInv' /\ LockInv'
        BY <1>0, <2>0, <2>2, <4>1, <4>2, ReadKeeps
      <4>4. FrameInv'
        BY <4>1, <4>2, <4>3 DEF FrameInv
      <4>5. ASSUME NEW t \in Topics PROVE Flow(t)' /\ Sent(t)' = Sent(t)
        <5>1. ~IsText(wire[1], t)
          BY <2>2, <4>2 DEF IsText
        <5> QED
          BY <1>0, <2>0, <4>1, <5>1, ReadFlow
      <4>6. OrderInv' /\ PublishedInv'
        BY <4>1, <1>0, <4>3, <4>5 DEF LinkInv, OrderInv, PublishedInv
      <4>7. LinkTypes' /\ StartInv'
        BY <1>0, <2>3, <4>1 DEF LinkInv, LinkTypes, StartInv
      <4>8. AdmitInv'
        <5>1. PICK v \in Seq(Parts) : v = Tail(w)
          BY <2>1, TailOf
        <5>2. Len(v) = Len(w) - 1 /\ \A i \in 1 .. Len(w) - 1 : v[i] = w[i + 1]
          BY <2>1, <5>1, TailOf
        <5>3. ASSUME NEW i \in 1 .. Len(v) PROVE v[i].kind # "token"
          <6>1. i + 1 \in 1 .. Len(w) /\ v[i] = w[i + 1] /\ i + 1 # 1 /\ Before(w, want, i + 1) = w[i]
            BY <2>2, <5>2 DEF Before
          <6>2. Fits(w[i], w[i + 1], i + 1)
            BY <1>0, <2>1, <6>1 DEF LinkInv, FrameInv, Chain
          <6> QED
            BY <6>1, <6>2, TextIs DEF Fits
        <5>4. wire' = v
          BY <2>0, <2>1, <5>1
        <5> QED
          BY <1>0, <2>3, <4>1, <5>3, <5>4 DEF LinkInv, AdmitInv
      <4> QED
        BY <4>3, <4>4, <4>6, <4>7, <4>8 DEF LinkInv
    <3>2. CASE ~Link!Authorized(x)
      <4>1. srv' = "done" /\ bad' = "token" /\ conn' = "down" /\ UNCHANGED <<want, published>>
        BY <2>2, <2>5, <3>2 DEF Link!Authenticate, Link!Stops
      <4>2. token["client"] # token["server"]
        BY <2>0, <2>2, <2>5, <1>0, <3>2 DEF LinkInv, AdmitInv, Link!Authorized
      <4> QED
        BY <2>4, <4>1, <4>2
    <3> QED
      BY <3>1, <3>2
  <2>6. CASE srv = "length" /\ Link!ReadLength
    <3>0. want = Link!NoPart /\ want.kind = "none"
      BY <2>6, PartsAre DEF LinkInv, FrameInv
    <3>1. CASE x.kind = "token"
      <4>1. srv' = "done" /\ conn' = "down" /\ UNCHANGED <<want, published>>
        BY <2>2, <2>6, <3>1 DEF Link!ReadLength, Link!Stops
      <4>2. token["client"] # token["server"]
        <5>1. 1 \in 1 .. Len(wire)
          BY <2>1, <2>2
        <5> QED
          BY <2>2, <2>6, <1>0, <3>1, <5>1 DEF LinkInv, AdmitInv
      <4> QED
        BY <2>4, <4>1, <4>2
    <3>2. CASE x.kind # "token"
      <4>1. srv' = "text" /\ want' = x /\ UNCHANGED <<bad, published, conn>>
        BY <2>2, <2>6, <3>2 DEF Link!ReadLength
      <4>2. x.kind = "length"
        BY <2>3, <3>0, <3>2 DEF Fits
      <4>3. /\ Chain(wire', want') /\ (conn # "down" => AtEnd') /\ Distinct(wire')
            /\ TakenInv' /\ LockInv'
        BY <1>0, <2>0, <2>2, <4>1, ReadKeeps
      <4>4. FrameInv'
        BY <4>1, <4>2, <4>3 DEF FrameInv
      <4>5. ASSUME NEW t \in Topics PROVE Flow(t)' /\ Sent(t)' = Sent(t)
        <5>1. ~IsText(wire[1], t)
          BY <2>2, <4>2 DEF IsText
        <5> QED
          BY <1>0, <2>0, <4>1, <5>1, ReadFlow
      <4>6. OrderInv' /\ PublishedInv'
        BY <4>1, <1>0, <4>3, <4>5 DEF LinkInv, OrderInv, PublishedInv
      <4>7. LinkTypes' /\ StartInv'
        BY <1>0, <2>2, <2>3, <4>1 DEF LinkInv, LinkTypes, StartInv
      <4>8. AdmitInv'
        <5>1. \A i \in 1 .. Len(wire') : \E j \in 1 .. Len(wire) : wire'[i] = wire[j]
          <6>1. PICK v \in Seq(Parts) : v = Tail(w)
            BY <2>1, TailOf
          <6>2. \A i \in 1 .. Len(v) : i + 1 \in 1 .. Len(w) /\ v[i] = w[i + 1]
            BY <2>1, <2>2, <6>1, TailOf
          <6> QED
            BY <2>0, <2>1, <6>1, <6>2
        <5> QED
          BY <1>0, <2>3, <2>6, <4>1, <5>1 DEF LinkInv, AdmitInv
      <4> QED
        BY <4>3, <4>4, <4>6, <4>7, <4>8 DEF LinkInv
    <3> QED
      BY <3>1, <3>2
  <2>7. CASE srv = "text" /\ Link!ReadText
    <3>0. want.kind = "length" /\ want \in Parts /\ want = LengthOf(want.t, want.n)
          /\ want.t \in Topics /\ want.n \in Nat
      <4>1. want.kind = "length" /\ want \in Parts
        BY <2>7 DEF LinkInv, LinkTypes, FrameInv
      <4> QED
        BY <4>1, PartsAre
    <3>1. PICK u \in Topics, n \in Nat : u = want.t /\ n = want.n
      BY <3>0
    <3>2. x = TextOf(u, n) /\ x.kind = "text" /\ x.t = u /\ x.n = n
      <4>1. x = TextOf(u, n)
        BY <2>3, <3>0, <3>1 DEF Fits
      <4> QED
        BY <4>1, TextIs
    <3>3. Link!IsText(x)
      BY <3>0, <3>1, <3>2 DEF Link!IsText, TextOf
    <3>4. \/ /\ srv' = "length" /\ want' = Link!NoPart /\ UNCHANGED <<bad, conn>>
             /\ published' = [published EXCEPT ![u] = Append(@, n)]
          \/ srv' = "done" /\ bad' = "publisher" /\ conn' = "down" /\ UNCHANGED <<want, published>>
      BY <2>2, <2>7, <3>1, <3>3 DEF Link!ReadText, Link!Stops
    <3>5. CASE srv' = "done" /\ bad' = "publisher" /\ conn' = "down" /\ UNCHANGED <<want, published>>
      BY <2>4, <3>5
    <3>6. CASE /\ srv' = "length" /\ want' = Link!NoPart /\ UNCHANGED <<bad, conn>>
               /\ published' = [published EXCEPT ![u] = Append(@, n)]
      <4>0. want' \in Parts /\ want'.kind = "none"
        BY <3>6, PartsAre
      <4>1. /\ Chain(wire', want') /\ (conn # "down" => AtEnd') /\ Distinct(wire')
            /\ TakenInv' /\ LockInv'
        BY <1>0, <2>0, <2>2, <3>2, <3>6, <4>0, ReadKeeps
      <4>2. FrameInv'
        BY <3>6, <4>1 DEF FrameInv
      <4>3. PICK s \in Nat, p \in Nat, q \in Seq(Nat), r \in Seq(Nat) :
              s = Sent(u) /\ r = published[u] /\ p = Len(r) /\ q = taken[u] /\ s <= Len(q)
        BY SentTypes DEF LinkInv
      <4>4. PICK e \in Seq(Nat) :
              /\ e = Append(r, n) /\ Len(e) = p + 1 /\ e[p + 1] = n /\ \A k \in 1 .. p : e[k] = r[k]
        <5>1. PICK e \in Seq(Nat) : e = Append(r, n)
          BY AppendProperties
        <5>2. Len(e) = p + 1 /\ e[p + 1] = n /\ \A k \in 1 .. p : e[k] = r[k]
          BY <4>3, <5>1, AppendProperties
        <5> QED
          BY <5>1, <5>2
      <4>5. /\ published'[u] = e /\ published' \in [Topics -> Seq(Nat)]
            /\ \A t \in Topics \ {u} : published'[t] = published[t]
        BY <3>6, <4>3, <4>4 DEF LinkInv, LinkTypes
      <4>6. /\ Ordered(w, u, p, q, s) /\ Distinct(w) /\ Increasing(q)
            /\ conn # "down" => AllIn(w, u, p, q, s)
            /\ p <= s /\ \A k \in 1 .. p : r[k] = q[k]
        <5>1. Ordered(w, u, p, q, s) /\ Distinct(w) /\ (conn # "down" => AllIn(w, u, p, q, s))
          BY <1>0, <2>1, <4>3 DEF LinkInv, OrderInv, Flow
        <5>2. p <= s /\ \A k \in 1 .. p : r[k] = q[k]
          BY <4>3 DEF LinkInv, PublishedInv
        <5>3. PICK c \in Seq(Nat) : c = subChan[u]
          BY DEF LinkInv, LinkTypes
        <5>4. Increasing(q \o c)
          BY <4>3, <5>3 DEF LinkInv, TakenInv
        <5>5. Increasing(q)
          BY <5>4, IncreasingFront
        <5> QED
          BY <5>1, <5>2, <5>5
      <4>7. \A i \in 1 .. Len(w) : IsText(w[i], u) => w[i] = TextOf(u, w[i].n)
        <5>. SUFFICES ASSUME NEW i \in 1 .. Len(w), IsText(w[i], u) PROVE w[i] = TextOf(u, w[i].n)
          OBVIOUS
        <5>1. w[i] \in Parts
          OBVIOUS
        <5> QED
          BY <5>1, PartsAre DEF IsText
      <4>8. /\ p + 1 <= s /\ n = q[p + 1] /\ Ordered(Tail(w), u, p + 1, q, s)
            /\ AllIn(w, u, p, q, s) => AllIn(Tail(w), u, p + 1, q, s)
        <5>1. w[1] = TextOf(u, n) /\ IsText(w[1], u)
          BY <2>2, <3>2 DEF IsText
        <5>2. s \in Int /\ s <= Len(q) /\ w # <<>>
          BY <2>1, <4>3
        <5>3. Increasing(q) /\ Distinct(w) /\ Ordered(w, u, p, q, s)
          BY <4>6
        <5> QED
          BY <4>7, <5>1, <5>2, <5>3, OrderPublish, SMTT(60)
      <4>9. Sent(u)' = s /\ \A t \in Topics : InHand(t)' = InHand(t)
        BY <1>0, <4>3 DEF Sent, InHand
      <4>10. Flow(u)'
        <5>1. wire' = Tail(w) /\ taken'[u] = q /\ Len(published'[u]) = p + 1 /\ conn' = conn
          BY <1>0, <2>0, <2>1, <3>6, <4>3, <4>4, <4>5
        <5>2. conn # "down" => AllIn(wire', u, p + 1, q, s)
          BY <4>6, <4>8, <5>1
        <5>3. Ordered(wire', u, p + 1, q, s)
          BY <4>8, <5>1
        <5> QED
          BY <4>9, <5>1, <5>2, <5>3 DEF Flow
      <4>11. ASSUME NEW t \in Topics, t # u PROVE Flow(t)' /\ Sent(t)' = Sent(t)
        <5>1. ~IsText(wire[1], t) /\ published'[t] = published[t]
          BY <2>2, <3>2, <4>5, <4>11 DEF IsText
        <5> QED
          BY <1>0, <2>0, <3>6, <5>1, ReadFlow
      <4>12. OrderInv'
        BY <4>1, <4>10, <4>11 DEF OrderInv
      <4>13. PublishedInv'
        <5>1. ASSUME NEW t \in Topics
              PROVE  /\ Len(published'[t]) <= Sent(t)'
                     /\ \A k \in 1 .. Len(published'[t]) : published'[t][k] = taken[t][k]
          <6>1. CASE t = u
            <7>1. taken[t] = q /\ published'[t] = e /\ Len(e) = p + 1 /\ Sent(t)' = s /\ p + 1 <= s
              BY <4>3, <4>4, <4>5, <4>8, <4>9, <6>1
            <7>2. \A k \in 1 .. p + 1 : e[k] = q[k]
              BY <4>4, <4>6, <4>8
            <7> QED
              BY <7>1, <7>2
          <6>2. CASE t # u
            BY <4>5, <4>11, <6>2 DEF LinkInv, PublishedInv
          <6> QED
            BY <6>1, <6>2
        <5> QED
          BY <1>0, <5>1 DEF PublishedInv
      <4>14. LinkTypes' /\ StartInv'
        BY <1>0, <2>3, <3>6, <4>0, <4>5 DEF LinkInv, LinkTypes, StartInv
      <4>15. AdmitInv'
        <5>1. \A i \in 1 .. Len(wire') : \E j \in 1 .. Len(wire) : wire'[i] = wire[j]
          <6>1. PICK v \in Seq(Parts) : v = Tail(w)
            BY <2>1, TailOf
          <6>2. \A i \in 1 .. Len(v) : i + 1 \in 1 .. Len(w) /\ v[i] = w[i + 1]
            BY <2>1, <2>2, <6>1, TailOf
          <6> QED
            BY <2>0, <2>1, <6>1, <6>2
        <5> QED
          BY <1>0, <2>3, <2>7, <3>6, <5>1 DEF LinkInv, AdmitInv
      <4> QED
        BY <4>1, <4>2, <4>12, <4>13, <4>14, <4>15 DEF LinkInv
    <3> QED
      BY <3>4, <3>5, <3>6
  <2> QED
    BY <1>2, <2>5, <2>6, <2>7 DEF Link!Authenticate, Link!ReadLength, Link!ReadText
<1> QED
  BY <1>1, <1>2 DEF Link!Server

(* The invariant holds at first, and every step keeps it. *)
LEMMA LinkInvInit ==
  ASSUME Link!Init
  PROVE  LinkInv
<1>0. /\ cpc = "subscribe" /\ conn = "none" /\ wire = <<>> /\ want = Link!NoPart /\ bad = "none"
      /\ srv = (IF token["server"] = NoToken THEN "length" ELSE "auth")
      /\ spc = [t \in Topics |-> "none"] /\ taking = [t \in Topics |-> 0]
      /\ subChan = [t \in Topics |-> <<>>] /\ given = [t \in Topics |-> 0]
      /\ taken = [t \in Topics |-> <<>>] /\ published = [t \in Topics |-> <<>>]
  BY DEF Link!Init, Link!None
<1>1. LinkTypes
  <2>1. <<>> \in Seq(Nat) /\ <<>> \in Seq(Parts)
    OBVIOUS
  <2> QED
    BY <1>0, <2>1, PartsAre DEF LinkTypes
<1>2. \A t \in Topics : spc[t] = "none" /\ ~InHand(t) /\ Sent(t) = 0
  BY <1>0 DEF InHand, Sent
<1>3. TakenInv
  <2>1. ASSUME NEW t \in Topics
        PROVE  /\ Increasing(taken[t] \o subChan[t]) /\ ~InHand(t)
               /\ \A i \in 1 .. Len(taken[t] \o subChan[t]) : (taken[t] \o subChan[t])[i] <= given[t]
    <3>1. taken[t] \o subChan[t] = <<>>
      BY <1>0
    <3>2. Len(taken[t] \o subChan[t]) = 0
      BY <3>1
    <3> QED
      BY <1>2, <3>2 DEF Increasing
  <2> QED
    BY <2>1 DEF TakenInv
<1>4. LockInv /\ StartInv
  BY <1>0, <1>2 DEF LockInv, StartInv
<1>5. FrameInv
  BY <1>0, <1>2, PartsAre DEF FrameInv, Chain, AtEnd, LastOf
<1>6. PublishedInv
  BY <1>0, <1>2 DEF PublishedInv
<1>7. OrderInv
  <2>1. \A t \in Topics : Len(published[t]) = 0
    BY <1>0
  <2> QED
    BY <1>0, <1>2, <2>1 DEF OrderInv, Distinct, Flow, Ordered, AllIn
<1>8. AdmitInv
  BY <1>0 DEF AdmitInv
<1> QED
  BY <1>1, <1>3, <1>4, <1>5, <1>6, <1>7, <1>8 DEF LinkInv

LEMMA LinkInvStep ==
  ASSUME Link!None \notin Topics, LinkInv, [Link!Next]_(Link!vars)
  PROVE  LinkInv'
<1>1. ASSUME NEW t \in Topics, Link!Give(t) PROVE LinkInv'
  BY <1>1, GiveKeeps
<1>2. ASSUME NEW t \in Topics, Link!Sender(t) PROVE LinkInv'
  BY <1>2, PollKeeps, TurnKeeps, SendKeeps DEF Link!Sender
<1>3. CASE Link!Connecting \/ Link!Start \/ Link!CloseStarts \/ Link!Closer
  BY <1>3, CallerKeeps, NetworkKeeps DEF Link!Closer
<1>4. CASE Link!Server \/ Link!Break \/ Link!StopReading
  BY <1>4, ServerKeeps, NetworkKeeps
<1>5. CASE UNCHANGED Link!vars
  <2>1. UNCHANGED <<token, cpc, given, subChan, taken, taking, spc, lock, conn, wire, srv, want, bad, published>>
    BY <1>5 DEF Link!vars, Link!client, Link!source, Link!senders, Link!server
  <2>2. LinkTypes' /\ TakenInv' /\ LockInv' /\ StartInv'
    BY <2>1 DEF LinkInv, LinkTypes, TakenInv, LockInv, StartInv, InHand
  <2>3. FrameInv' /\ AdmitInv'
    BY <2>1 DEF LinkInv, FrameInv, AtEnd, AdmitInv
  <2>4. PublishedInv' /\ OrderInv'
    BY <2>1 DEF LinkInv, PublishedInv, OrderInv, Flow, Sent, InHand
  <2> QED
    BY <2>2, <2>3, <2>4 DEF LinkInv
<1> QED
  BY <1>1, <1>2, <1>3, <1>4, <1>5 DEF Link!Next

LEMMA PrefixOf ==
  ASSUME NEW r \in Seq(Nat), NEW q \in Seq(Nat), Len(r) <= Len(q), \A k \in 1 .. Len(r) : r[k] = q[k]
  PROVE  Link!IsPrefix(r, q)
<1>1. SubSeq(r, 1, Len(r)) = r
  OBVIOUS
<1>2. PICK v \in Seq(Nat) : v = SubSeq(q, 1, Len(r)) /\ Len(v) = Len(r) /\ \A k \in 1 .. Len(r) : v[k] = q[k]
  <2>1. Len(r) \in 0 .. Len(q)
    OBVIOUS
  <2> QED
    BY <2>1, CutOf
<1>3. v = r
  <2>1. \A k \in 1 .. Len(r) : v[k] = r[k]
    BY <1>2
  <2> QED
    BY <1>2, <2>1
<1> QED
  BY <1>1, <1>2, <1>3 DEF Link!IsPrefix

(* A step of the model moves the server or the link (see MCBridges).       *)
LEMMA SideSteps ==
  [MCNext]_<<vars, linkVars, side>> => [Link!Next]_(Link!vars)
BY DEF MCNext, linkVars, Link!vars, Link!client, Link!source, Link!senders, Link!server

(* For any topics, tokens, capacity of the channels and number of samples: *)
(* what the server of a WAN link publishes for a topic is a prefix of what *)
(* the sender took, and two sides with the same token never stop for a     *)
(* frame or for the token (write_frame() under write_mu, read_frame()).    *)
THEOREM FramesStayWhole ==
  ASSUME Link!None \notin Topics
  PROVE  MCSpec => []FramesIntact
<1>1. MCInit => LinkInv
  BY LinkInvInit DEF MCInit
<1>2. LinkInv /\ [MCNext]_<<vars, linkVars, side>> => LinkInv'
  BY SideSteps, LinkInvStep
<1>3. LinkInv => FramesIntact
  <2>. SUFFICES ASSUME LinkInv PROVE FramesIntact
    OBVIOUS
  <2>1. ASSUME NEW t \in Topics PROVE Link!IsPrefix(published[t], taken[t])
    <3>1. PICK r \in Seq(Nat), q \in Seq(Nat) : r = published[t] /\ q = taken[t]
      BY DEF LinkInv, LinkTypes
    <3>2. Len(r) <= Len(q) /\ \A k \in 1 .. Len(r) : r[k] = q[k]
      <4>1. Len(r) <= Sent(t) /\ Sent(t) <= Len(q) /\ Sent(t) \in Nat
        BY <3>1, SentTypes DEF LinkInv, PublishedInv
      <4>2. \A k \in 1 .. Len(r) : r[k] = q[k]
        BY <3>1 DEF LinkInv, PublishedInv
      <4> QED
        BY <4>1, <4>2
    <3> QED
      BY <3>1, <3>2, PrefixOf
  <2>2. token["client"] = token["server"] => bad \in {Link!None, "publisher"}
    BY DEF LinkInv, AdmitInv, Link!None
  <2> QED
    BY <2>1, <2>2 DEF FramesIntact, Link!FramesIntact
<1> QED
  BY <1>1, <1>2, <1>3, PTL DEF MCSpec

-----------------------------------------------------------------------------
(***************************************************************************)
(* The link implements LossyFifo.  What waits of a topic (Waiting) is what *)
(* its sender took and the server has not published, and then its channel. *)
(***************************************************************************)

LEMMA RestOf ==
  ASSUME NEW q \in Seq(Nat), NEW p \in 0 .. Len(q)
  PROVE  \E a \in Seq(Nat) : /\ a = SubSeq(q, p + 1, Len(q)) /\ Len(a) = Len(q) - p
                           /\ \A i \in 1 .. Len(q) - p : a[i] = q[p + i]
<1>1. PICK n \in Nat : n = Len(q)
  OBVIOUS
<1>2. p + 1 \in Int /\ n \in Int /\ \A i \in p + 1 .. n : q[i] \in Nat
  BY <1>1
<1>3. /\ SubSeq(q, p + 1, n) \in Seq(Nat)
      /\ Len(SubSeq(q, p + 1, n)) = IF p + 1 <= n THEN n - (p + 1) + 1 ELSE 0
      /\ \A i \in 1 .. n - (p + 1) + 1 : SubSeq(q, p + 1, n)[i] = q[p + 1 + i - 1]
  BY <1>2, SubSeqProperties
<1>4. PICK a \in Seq(Nat) : a = SubSeq(q, p + 1, n)
  BY <1>3
<1>5. Len(a) = n - p
  BY <1>1, <1>3, <1>4
<1>6. ASSUME NEW i \in 1 .. n - p PROVE a[i] = q[p + i]
  <2>1. i \in 1 .. n - (p + 1) + 1 /\ p + 1 + i - 1 = p + i
    BY <1>1
  <2> QED
    BY <1>3, <1>4, <2>1
<1> QED
  BY <1>1, <1>4, <1>5, <1>6

Joins(x, a, b) ==
  /\ x = a \o b /\ x \in Seq(Nat) /\ Len(x) = Len(a) + Len(b)
  /\ \A i \in 1 .. Len(a) : x[i] = a[i]
  /\ \A i \in 1 .. Len(b) : x[Len(a) + i] = b[i]

LEMMA JoinOf ==
  ASSUME NEW a \in Seq(Nat), NEW b \in Seq(Nat), NEW x, x = a \o b
  PROVE  Joins(x, a, b)
<1>1. /\ x \in Seq(Nat) /\ Len(x) = Len(a) + Len(b)
      /\ \A i \in 1 .. Len(a) + Len(b) : x[i] = IF i <= Len(a) THEN a[i] ELSE b[i - Len(a)]
  BY ConcatProperties
<1>2. PICK m \in Nat : m = Len(a)
  OBVIOUS
<1>3. PICK n \in Nat : n = Len(b)
  OBVIOUS
<1>4. ASSUME NEW i \in 1 .. n PROVE x[m + i] = b[i]
  <2>1. m + i \in 1 .. m + n /\ ~(m + i <= m) /\ m + i - m = i
    OBVIOUS
  <2>2. x[m + i] = IF m + i <= m THEN a[m + i] ELSE b[m + i - m]
    BY <1>1, <1>2, <1>3, <2>1
  <2> QED
    BY <2>1, <2>2
<1>5. ASSUME NEW i \in 1 .. m PROVE x[i] = a[i]
  BY <1>1, <1>2, <1>3
<1> QED
  BY <1>1, <1>2, <1>3, <1>4, <1>5 DEF Joins

(* What waits grows at its end, is not moved when a sender takes a sample, *)
(* and shrinks at its front.                                               *)
LEMMA WaitingGrows ==
  ASSUME NEW q \in Seq(Nat), NEW p \in 0 .. Len(q), NEW c \in Seq(Nat), NEW n \in Nat
  PROVE  /\ Len(SubSeq(q, p + 1, Len(q)) \o c) \in Nat /\ Len(SubSeq(q, p + 1, Len(q)) \o c) >= Len(c)
         /\ SubSeq(q, p + 1, Len(q)) \o Append(c, n) = Append(SubSeq(q, p + 1, Len(q)) \o c, n)
<1>1. PICK b \in Seq(Nat) : b = SubSeq(q, p + 1, Len(q))
  BY RestOf, Zenon
<1>2. b \o Append(c, n) = Append(b \o c, n)
  <2>1. b \o c \in Seq(Nat) /\ Len(b \o c) = Len(b) + Len(c)
    BY ConcatProperties
  <2>2. Append(c, n) = c \o <<n>> /\ Append(b \o c, n) = (b \o c) \o <<n>> /\ <<n>> \in Seq(Nat)
    BY <2>1, AppendIsConcat
  <2>3. b \o (c \o <<n>>) = (b \o c) \o <<n>>
    BY <2>2, ConcatAssociative, SMT
  <2> QED
    BY <2>2, <2>3
<1>3. Len(b \o c) = Len(b) + Len(c) /\ Len(b) \in Nat /\ Len(c) \in Nat
  BY ConcatProperties
<1>4. Len(b \o c) \in Nat /\ Len(b \o c) >= Len(c)
  BY <1>3
<1> QED
  BY <1>1, <1>2, <1>4, Zenon

LEMMA WaitingMoves ==
  ASSUME NEW q \in Seq(Nat), NEW p \in 0 .. Len(q), NEW c \in Seq(Nat), c # <<>>,
         NEW r, r = Append(q, Head(c))
  PROVE  SubSeq(r, p + 1, Len(r)) \o Tail(c) = SubSeq(q, p + 1, Len(q)) \o c
<1>1. PICK n \in Nat : n = Len(q)
  OBVIOUS
<1>2. PICK k \in Nat : k = n - p
  <2>1. n - p \in Nat
    BY <1>1
  <2> QED
    BY <2>1
<1>3. PICK l \in Nat : Len(c) = l + 1
  <2>1. Len(c) - 1 \in Nat /\ Len(c) = Len(c) - 1 + 1
    BY TailOf
  <2> QED
    BY <2>1
<1>4. PICK d \in Seq(Nat) : d = Tail(c)
  BY TailOf
<1>5. Len(d) = l /\ Head(c) = c[1] /\ c[1] \in Nat /\ \A i \in 1 .. l : d[i] = c[i + 1]
  BY <1>3, <1>4, TailOf
<1>6. r \in Seq(Nat) /\ Len(r) = n + 1 /\ r[n + 1] = c[1] /\ \A i \in 1 .. n : r[i] = q[i]
  BY <1>1, <1>5, AppendProperties
<1>7. PICK a \in Seq(Nat) : /\ a = SubSeq(q, p + 1, Len(q)) /\ Len(a) = Len(q) - p
                            /\ \A i \in 1 .. Len(q) - p : a[i] = q[p + i]
  BY RestOf, Zenon
<1>8. PICK b \in Seq(Nat) : /\ b = SubSeq(r, p + 1, Len(r)) /\ Len(b) = Len(r) - p
                            /\ \A i \in 1 .. Len(r) - p : b[i] = r[p + i]
  <2>1. p \in 0 .. Len(r) /\ r \in Seq(Nat)
    BY <1>1, <1>6
  <2> QED
    BY <2>1, RestOf, Zenon
<1>9. Len(a) = k /\ Len(b) = k + 1 /\ k + p = n
  BY <1>1, <1>2, <1>6, <1>7, <1>8
<1>x. PICK x : x = b \o d
  OBVIOUS
<1>10. Joins(x, b, d)
  BY <1>x, JoinOf
<1>y. PICK y : y = a \o c
  OBVIOUS
<1>11. Joins(y, a, c)
  BY <1>y, JoinOf
<1>12. ASSUME NEW i \in 1 .. k + 1 + l PROVE x[i] = y[i]
  <2>1. CASE i \in 1 .. k
    <3>1. i \in 1 .. k + 1 /\ p + i \in 1 .. n
      BY <1>9, <2>1
    <3>2. x[i] = r[p + i] /\ y[i] = q[p + i]
      <4>1. x[i] = b[i] /\ b[i] = r[p + i]
        BY <1>8, <1>9, <1>10, <3>1 DEF Joins
      <4>2. y[i] = a[i] /\ a[i] = q[p + i]
        BY <1>7, <1>9, <1>11, <2>1 DEF Joins
      <4> QED
        BY <4>1, <4>2
    <3> QED
      BY <1>6, <3>1, <3>2
  <2>2. CASE i = k + 1
    <3>1. k + 1 \in 1 .. k + 1 /\ p + (k + 1) = n + 1 /\ 1 \in 1 .. l + 1
      BY <1>9
    <3>2. x[k + 1] = b[k + 1] /\ b[k + 1] = r[n + 1]
      BY <1>8, <1>9, <1>10, <3>1 DEF Joins
    <3>3. y[k + 1] = c[1]
      BY <1>3, <1>9, <1>11, <3>1 DEF Joins
    <3> QED
      BY <1>6, <2>2, <3>2, <3>3
  <2>3. CASE i \notin 1 .. k + 1
    <3>1. PICK j \in 1 .. l : j = i - (k + 1)
      <4>1. i - (k + 1) \in 1 .. l
        BY <2>3
      <4> QED
        BY <4>1
    <3>2. i = k + 1 + j /\ i = k + (j + 1) /\ j + 1 \in 1 .. l + 1
      BY <3>1
    <3>3. x[i] = d[j]
      BY <1>5, <1>9, <1>10, <3>2 DEF Joins
    <3>4. y[i] = c[j + 1]
      BY <1>3, <1>9, <1>11, <3>2 DEF Joins
    <3> QED
      BY <1>5, <3>3, <3>4
  <2> QED
    BY <2>1, <2>2, <2>3
<1>13. Len(x) = k + 1 + l /\ Len(y) = k + 1 + l
  BY <1>3, <1>5, <1>9, <1>10, <1>11 DEF Joins
<1>14. x = y
  <2>1. x \in Seq(Nat) /\ y \in Seq(Nat)
    BY <1>10, <1>11 DEF Joins
  <2> QED
    BY <1>12, <1>13, <2>1
<1> QED
  BY <1>4, <1>7, <1>8, <1>10, <1>11, <1>14, Zenon DEF Joins

LEMMA WaitingShrinks ==
  ASSUME NEW q \in Seq(Nat), NEW p \in Nat, p < Len(q), NEW c \in Seq(Nat)
  PROVE  /\ SubSeq(q, p + 1, Len(q)) \o c # <<>>
         /\ Head(SubSeq(q, p + 1, Len(q)) \o c) = q[p + 1]
         /\ Tail(SubSeq(q, p + 1, Len(q)) \o c) = SubSeq(q, (p + 1) + 1, Len(q)) \o c
<1>1. PICK k \in Nat : k = Len(q) - (p + 1)
  <2>1. Len(q) - (p + 1) \in Nat
    OBVIOUS
  <2> QED
    BY <2>1
<1>2. PICK l \in Nat : l = Len(c)
  OBVIOUS
<1>3. PICK a \in Seq(Nat) : /\ a = SubSeq(q, p + 1, Len(q)) /\ Len(a) = Len(q) - p
                            /\ \A i \in 1 .. Len(q) - p : a[i] = q[p + i]
  <2>1. p \in 0 .. Len(q)
    OBVIOUS
  <2> QED
    BY <2>1, RestOf, Zenon
<1>4. PICK b \in Seq(Nat) : /\ b = SubSeq(q, (p + 1) + 1, Len(q)) /\ Len(b) = Len(q) - (p + 1)
                            /\ \A i \in 1 .. Len(q) - (p + 1) : b[i] = q[(p + 1) + i]
  <2>1. p + 1 \in 0 .. Len(q)
    OBVIOUS
  <2> QED
    BY <2>1, RestOf, Zenon
<1>5. Len(a) = k + 1 /\ Len(b) = k /\ Len(q) - p = k + 1
  BY <1>1, <1>3, <1>4
<1>x. PICK x : x = a \o c
  OBVIOUS
<1>6. Joins(x, a, c)
  BY <1>x, JoinOf
<1>y. PICK y : y = b \o c
  OBVIOUS
<1>7. Joins(y, b, c)
  BY <1>y, JoinOf
<1>8. x # <<>> /\ x[1] = q[p + 1]
  <2>1. 1 \in 1 .. k + 1 /\ Len(x) # 0
    BY <1>2, <1>5, <1>6 DEF Joins
  <2>2. x[1] = a[1] /\ a[1] = q[p + 1]
    BY <1>3, <1>5, <1>6, <2>1 DEF Joins
  <2> QED
    BY <2>1, <2>2
<1>9. PICK z \in Seq(Nat) : z = Tail(x)
  BY <1>6, <1>8, TailOf DEF Joins
<1>10. Head(x) = x[1] /\ Len(z) = k + l /\ \A i \in 1 .. k + l : z[i] = x[i + 1]
  <2>1. Len(x) - 1 = k + l
    BY <1>2, <1>5, <1>6 DEF Joins
  <2> QED
    BY <1>8, <1>9, <2>1, TailOf
<1>11. ASSUME NEW i \in 1 .. k + l PROVE z[i] = y[i]
  <2>1. z[i] = x[i + 1]
    BY <1>10
  <2>2. CASE i \in 1 .. k
    <3>1. i + 1 \in 1 .. k + 1 /\ p + (i + 1) = (p + 1) + i
      BY <2>2
    <3>2. x[i + 1] = a[i + 1]
      BY <1>5, <1>6, <3>1 DEF Joins
    <3>3. a[i + 1] = q[p + (i + 1)]
      BY <1>3, <1>5, <3>1
    <3>4. y[i] = b[i] /\ b[i] = q[(p + 1) + i]
      BY <1>1, <1>4, <1>5, <1>7, <2>2 DEF Joins
    <3> QED
      BY <2>1, <3>1, <3>2, <3>3, <3>4
  <2>3. CASE i \notin 1 .. k
    <3>1. PICK j \in 1 .. l : j = i - k
      <4>1. i - k \in 1 .. l
        BY <2>3
      <4> QED
        BY <4>1
    <3>2. i + 1 = k + 1 + j /\ i = k + j
      BY <3>1
    <3>3. j \in 1 .. Len(c)
      BY <1>2
    <3>4. x[k + 1 + j] = c[j]
      <4>1. x[Len(a) + j] = c[j]
        BY <1>6, <3>3 DEF Joins
      <4> QED
        BY <1>5, <4>1
    <3>5. y[k + j] = c[j]
      <4>1. y[Len(b) + j] = c[j]
        BY <1>7, <3>3 DEF Joins
      <4> QED
        BY <1>5, <4>1
    <3> QED
      BY <2>1, <3>2, <3>4, <3>5
  <2> QED
    BY <2>2, <2>3
<1>12. Len(y) = k + l
  BY <1>2, <1>5, <1>7 DEF Joins
<1>13. z = y
  <2>1. y \in Seq(Nat) /\ Len(z) = k + l
    BY <1>7, <1>10 DEF Joins
  <2> QED
    BY <1>11, <1>12, <2>1
<1> QED
  BY <1>3, <1>4, <1>6, <1>7, <1>8, <1>9, <1>10, <1>13, Zenon DEF Joins

(* A server that reads on has met no fault. *)
FaultInv == srv # "done" => bad = "none"

LEMMA FaultStep ==
  ASSUME FaultInv, [Link!Next]_(Link!vars)
  PROVE  FaultInv'
<1>1. CASE UNCHANGED <<srv, bad>>
  BY <1>1 DEF FaultInv
<1>2. CASE Link!Server
  BY <1>2 DEF FaultInv, Link!Server, Link!Authenticate, Link!ReadLength, Link!ReadText, Link!ReadFails,
     Link!Stops
<1>3. Link!Server \/ UNCHANGED <<srv, bad>>
  <2>1. CASE \E t \in Topics : Link!Give(t) \/ Link!Sender(t)
    BY <2>1 DEF Link!Give, Link!Sender, Link!Poll, Link!LockWrites, Link!SendPart, Link!SendFails,
       Link!CloseSubs, Link!sending, Link!server
  <2>2. CASE Link!Connecting \/ Link!Start \/ Link!CloseStarts \/ Link!Closer
    BY <2>2, ConnectingMoves DEF Link!Start, Link!CloseStarts, Link!Closer,
       Link!ShutConn, Link!CloseOwnSubs, Link!JoinSenders, Link!closing, Link!server
  <2>3. CASE Link!Break \/ Link!StopReading \/ UNCHANGED Link!vars
    BY <2>3 DEF Link!Break, Link!StopReading, Link!vars, Link!server
  <2> QED
    BY <2>1, <2>2, <2>3 DEF Link!Next
<1> QED
  BY <1>1, <1>2, <1>3

(* What the queue of LossyFifo stands for does not move in a step that     *)
(* leaves the samples where they are.                                      *)
held == <<token, given, taken, published, subChan, bad>>
LEMMA HeldStutters == UNCHANGED held => UNCHANGED Link!Fifo!fifoVars
BY DEF held, Link!Fifo!fifoVars, Link!Waiting

(* The queue, where the samples of one topic move. *)
LEMMA QueueMoves ==
  ASSUME NEW t \in Topics, NEW v, Link!Waiting(t)' = v,
         \A u \in Topics \ {t} : Link!Waiting(u)' = Link!Waiting(u)
  PROVE  [u \in Topics |-> Link!Waiting(u)]' = [[u \in Topics |-> Link!Waiting(u)] EXCEPT ![t] = v]
OBVIOUS

LEMMA GiveWrites ==
  ASSUME ChanCap \in Nat, LinkInv, NEW t \in Topics, Link!Give(t)
  PROVE  Link!Fifo!Write(t)
<1>1. /\ given' = [given EXCEPT ![t] = @ + 1]
      /\ subChan' = IF Len(subChan[t]) < ChanCap THEN [subChan EXCEPT ![t] = Append(@, given'[t])] ELSE subChan
      /\ UNCHANGED <<token, taken, published, bad>>
  BY DEF Link!Give, Link!client, Link!senders, Link!server
<1>2. PICK q \in Seq(Nat), c \in Seq(Nat), n \in Nat : q = taken[t] /\ c = subChan[t] /\ n = given'[t]
  <2>1. given[t] \in Nat /\ given'[t] = given[t] + 1
    BY <1>1 DEF LinkInv, LinkTypes
  <2>2. taken[t] \in Seq(Nat) /\ subChan[t] \in Seq(Nat)
    BY DEF LinkInv, LinkTypes
  <2> QED
    BY <2>1, <2>2
<1>3. PICK p \in 0 .. Len(q) : p = Len(published[t])
  <2>1. published[t] \in Seq(Nat) /\ Len(published[t]) <= Sent(t) /\ Sent(t) \in Nat /\ Sent(t) <= Len(taken[t])
    BY SentTypes DEF LinkInv, PublishedInv
  <2> QED
    BY <1>2, <2>1
<1>4. Link!Waiting(t) = SubSeq(q, p + 1, Len(q)) \o c
  BY <1>2, <1>3 DEF Link!Waiting
<1>5. \A u \in Topics \ {t} : Link!Waiting(u)' = Link!Waiting(u)
  <2>1. subChan \in [Topics -> Seq(Nat)]
    BY DEF LinkInv, LinkTypes
  <2>2. \A u \in Topics \ {t} : subChan'[u] = subChan[u]
    BY <1>1, <2>1
  <2> QED
    BY <1>1, <2>2 DEF Link!Waiting
<1>6. CASE Len(c) < ChanCap
  <2>1. subChan'[t] = Append(c, n)
    BY <1>1, <1>2, <1>6 DEF LinkInv, LinkTypes
  <2>2. Link!Waiting(t)' = SubSeq(q, p + 1, Len(q)) \o Append(c, n)
    BY <1>1, <1>2, <1>3, <2>1 DEF Link!Waiting
  <2>3. Link!Waiting(t)' = Append(Link!Waiting(t), n)
    <3>1. SubSeq(q, p + 1, Len(q)) \o Append(c, n) = Append(SubSeq(q, p + 1, Len(q)) \o c, n)
      BY WaitingGrows
    <3> QED
      BY <1>4, <2>2, <3>1, Zenon
  <2>4. [u \in Topics |-> Link!Waiting(u)]'
          = [[u \in Topics |-> Link!Waiting(u)] EXCEPT ![t] = Append(@, n)]
    BY <1>5, <2>3, QueueMoves
  <2> QED
    BY <1>1, <1>2, <2>4 DEF Link!Fifo!Write
<1>7. CASE ~(Len(c) < ChanCap)
  <2>1. subChan' = subChan
    BY <1>1, <1>2, <1>7
  <2>2. [u \in Topics |-> Link!Waiting(u)]' = [u \in Topics |-> Link!Waiting(u)]
    BY <1>1, <2>1 DEF Link!Waiting
  <2>3. Len(Link!Waiting(t)) >= ChanCap
    <3>1. Len(Link!Waiting(t)) \in Nat /\ Len(Link!Waiting(t)) >= Len(c)
      BY <1>4, WaitingGrows
    <3> QED
      BY <1>7, <3>1
  <2> QED
    BY <1>1, <2>2, <2>3 DEF Link!Fifo!Write
<1> QED
  BY <1>6, <1>7

LEMMA PollStutters ==
  ASSUME LinkInv, NEW t \in Topics, Link!Poll(t)
  PROVE  UNCHANGED Link!Fifo!fifoVars
<1>1. CASE UNCHANGED <<taken, subChan>>
  <2>1. UNCHANGED held
    BY <1>1 DEF held, Link!Poll, Link!sending, Link!client, Link!server, Link!source
  <2> QED
    BY <2>1, HeldStutters
<1>2. CASE /\ subChan[t] # <<>>
           /\ taken' = [taken EXCEPT ![t] = Append(@, Head(subChan[t]))]
           /\ subChan' = [subChan EXCEPT ![t] = Tail(@)]
  <2>1. UNCHANGED <<token, given, published, bad>>
    BY DEF Link!Poll, Link!sending, Link!client, Link!server, Link!source
  <2>2. taken \in [Topics -> Seq(Nat)] /\ subChan \in [Topics -> Seq(Nat)]
    BY DEF LinkInv, LinkTypes
  <2>3. PICK q \in Seq(Nat), c \in Seq(Nat) : q = taken[t] /\ c = subChan[t]
    BY <2>2
  <2>4. PICK p \in 0 .. Len(q) : p = Len(published[t])
    <3>1. /\ published[t] \in Seq(Nat) /\ Len(published[t]) <= Sent(t)
          /\ Sent(t) \in Nat /\ Sent(t) <= Len(taken[t])
      BY SentTypes DEF LinkInv, PublishedInv
    <3> QED
      BY <2>3, <3>1
  <2>5. PICK r : r = Append(q, Head(c))
    OBVIOUS
  <2>6. taken'[t] = r /\ subChan'[t] = Tail(c)
    BY <1>2, <2>2, <2>3, <2>5
  <2>7. Link!Waiting(t)' = Link!Waiting(t)
    <3>1. SubSeq(r, p + 1, Len(r)) \o Tail(c) = SubSeq(q, p + 1, Len(q)) \o c
      <4>1. c # <<>>
        BY <1>2, <2>3
      <4> QED
        BY <2>5, <4>1, WaitingMoves, Zenon
    <3>2. Link!Waiting(t)' = SubSeq(r, p + 1, Len(r)) \o Tail(c)
      BY <2>1, <2>4, <2>6 DEF Link!Waiting
    <3>3. Link!Waiting(t) = SubSeq(q, p + 1, Len(q)) \o c
      BY <2>3, <2>4 DEF Link!Waiting
    <3> QED
      BY <3>1, <3>2, <3>3, Zenon
  <2>8. \A u \in Topics : u # t => Link!Waiting(u)' = Link!Waiting(u)
    <3>1. \A u \in Topics : u # t => taken'[u] = taken[u] /\ subChan'[u] = subChan[u]
      BY <1>2, <2>2
    <3> QED
      BY <2>1, <3>1 DEF Link!Waiting
  <2>9. [u \in Topics |-> Link!Waiting(u)]' = [u \in Topics |-> Link!Waiting(u)]
    BY <2>7, <2>8
  <2> QED
    BY <2>1, <2>9 DEF Link!Fifo!fifoVars
<1> QED
  BY <1>1, <1>2 DEF Link!Poll, Link!source

(* A text that is published is that of the first sample that waits: what   *)
(* is published stays a prefix of what was taken (PublishedInv).           *)
LEMMA TextArrives ==
  ASSUME LinkInv, LinkInv', FaultInv, srv # "done", UNCHANGED <<token, given, subChan, taken, spc, bad>>,
         NEW t \in Topics, NEW n, published' = [published EXCEPT ![t] = Append(@, n)]
  PROVE  Link!Fifo!Arrive(t)
<1>1. taken \in [Topics -> Seq(Nat)] /\ subChan \in [Topics -> Seq(Nat)] /\ published \in [Topics -> Seq(Nat)]
  BY DEF LinkInv, LinkTypes
<1>2. PICK q \in Seq(Nat), c \in Seq(Nat) : q = taken[t] /\ c = subChan[t]
  BY <1>1
<1>3. PICK p \in Nat : p = Len(published[t])
  BY <1>1
<1>4. published'[t] = Append(published[t], n) /\ published'[t] \in Seq(Nat)
  BY <1>1 DEF LinkInv, LinkTypes
<1>5. Len(published'[t]) = p + 1 /\ published'[t][p + 1] = n
  BY <1>1, <1>3, <1>4
<1>6. p < Len(q) /\ q[p + 1] = n
  <2>1. Sent(t)' = Sent(t) /\ Sent(t) \in Nat /\ Sent(t) <= Len(q)
    BY <1>2, SentTypes DEF LinkInv, Sent, InHand
  <2>2. Len(published'[t]) <= Sent(t)' /\ \A k \in 1 .. Len(published'[t]) : published'[t][k] = taken'[t][k]
    BY DEF LinkInv, PublishedInv
  <2>3. p + 1 \in 1 .. p + 1
    OBVIOUS
  <2>4. p + 1 <= Sent(t)
    BY <1>5, <2>1, <2>2
  <2>5. n = taken[t][p + 1]
    BY <1>5, <2>2, <2>3
  <2> QED
    BY <1>2, <2>1, <2>4, <2>5
<1>7. PICK w : w = SubSeq(q, p + 1, Len(q)) \o c /\ w # <<>> /\ Head(w) = n
               /\ Tail(w) = SubSeq(q, (p + 1) + 1, Len(q)) \o c
  BY <1>6, WaitingShrinks
<1>8. Link!Waiting(t) = w
  BY <1>2, <1>3, <1>7 DEF Link!Waiting
<1>9. Link!Waiting(t)' = Tail(w)
  BY <1>2, <1>5, <1>7 DEF Link!Waiting
<1>10. \A u \in Topics \ {t} : Link!Waiting(u)' = Link!Waiting(u)
  <2>1. \A u \in Topics \ {t} : published'[u] = published[u]
    BY <1>1
  <2> QED
    BY <2>1 DEF Link!Waiting
<1>11. [u \in Topics |-> Link!Waiting(u)]' = [[u \in Topics |-> Link!Waiting(u)] EXCEPT ![t] = Tail(@)]
  BY <1>8, <1>9, <1>10, QueueMoves
<1> QED
  BY <1>7, <1>8, <1>11 DEF Link!Fifo!Arrive, FaultInv

LEMMA StopsStop ==
  ASSUME LinkInv', FaultInv, srv # "done", UNCHANGED <<token, given, subChan, taken, published>>,
         bad' \in {"publisher", "token", "frame"}
  PROVE  Link!Fifo!Stop
<1>1. [u \in Topics |-> Link!Waiting(u)]' = [u \in Topics |-> Link!Waiting(u)]
  BY DEF Link!Waiting
<1>2. bad = "none"
  BY DEF FaultInv
<1>3. token["client"] = token["server"] => bad' = "publisher"
  BY DEF LinkInv, AdmitInv
<1> QED
  BY <1>1, <1>2, <1>3 DEF Link!Fifo!Stop

LEMMA ServerMaps ==
  ASSUME LinkInv, LinkInv', FaultInv, Link!Server
  PROVE  [Link!Fifo!Next]_(Link!Fifo!fifoVars)
<1>1. UNCHANGED <<token, given, subChan, taken, spc>> /\ srv # "done"
  BY DEF Link!Server, Link!Authenticate, Link!ReadLength, Link!ReadText, Link!ReadFails, Link!serving,
     Link!client, Link!source, Link!senders
<1>2. CASE UNCHANGED <<published, bad>>
  BY <1>1, <1>2, HeldStutters DEF held
<1>3. CASE \E why \in {"token", "frame", "publisher"} : Link!Stops(why)
  <2>1. published' = published /\ bad' \in {"publisher", "token", "frame"}
    BY <1>3 DEF Link!Stops
  <2> QED
    BY <1>1, <2>1, StopsStop DEF Link!Fifo!Next
<1>4. CASE /\ srv = "text" /\ Link!IsText(Head(wire))
           /\ published' = [published EXCEPT ![want.t] = Append(@, want.n)] /\ bad' = bad
  <2>1. want.t \in Topics
    <3>1. want \in Parts /\ want.kind = "length"
      BY <1>4 DEF Link!IsText, LinkInv, LinkTypes
    <3> QED
      BY <3>1 DEF Parts
  <2>2. Link!Fifo!Arrive(want.t)
    BY <1>1, <1>4, <2>1, TextArrives
  <2> QED
    BY <2>1, <2>2 DEF Link!Fifo!Next
<1> QED
  BY <1>1, <1>2, <1>3, <1>4
     DEF Link!Server, Link!Authenticate, Link!ReadLength, Link!ReadText, Link!ReadFails

LEMMA StepMaps ==
  ASSUME ChanCap \in Nat, LinkInv, LinkInv', FaultInv, [Link!Next]_(Link!vars)
  PROVE  [Link!Fifo!Next]_(Link!Fifo!fifoVars)
<1>1. ASSUME NEW t \in Topics, Link!Give(t) PROVE Link!Fifo!Next
  BY <1>1, GiveWrites DEF Link!Fifo!Next
<1>2. ASSUME NEW t \in Topics, Link!Sender(t) PROVE UNCHANGED Link!Fifo!fifoVars
  <2>1. CASE Link!Poll(t)
    BY <2>1, PollStutters
  <2>2. CASE Link!LockWrites(t) \/ Link!SendPart(t) \/ Link!SendFails(t) \/ Link!CloseSubs(t)
    <3>1. UNCHANGED held
      BY <2>2 DEF held, Link!LockWrites, Link!SendPart, Link!SendFails, Link!CloseSubs, Link!sending,
         Link!client, Link!server, Link!source
    <3> QED
      BY <3>1, HeldStutters
  <2> QED
    BY <1>2, <2>1, <2>2 DEF Link!Sender
<1>3. CASE Link!Server
  BY <1>3, ServerMaps
<1>4. CASE \/ Link!Connecting \/ Link!Start \/ Link!CloseStarts
           \/ Link!Closer \/ Link!Break \/ Link!StopReading \/ UNCHANGED Link!vars
  <2>1. UNCHANGED held
    BY <1>4, ConnectingMoves DEF held, Link!Start, Link!CloseStarts,
       Link!Closer, Link!ShutConn, Link!CloseOwnSubs, Link!JoinSenders, Link!Break, Link!StopReading,
       Link!vars, Link!closing, Link!client, Link!source, Link!senders, Link!server
  <2> QED
    BY <2>1, HeldStutters
<1> QED
  BY <1>1, <1>2, <1>3, <1>4 DEF Link!Next

(* From end to end each topic of the WAN bridge is a queue that loses a    *)
(* sample only where its channel is full: every step of the senders, the   *)
(* connection and the server is a step of LossyFifo or none                *)
(* (run_sender_loop(), write_frame(), handle_connection()).                *)
THEOREM LinkIsLossyFifo ==
  ASSUME Link!None \notin Topics, ChanCap \in Nat
  PROVE  MCSpec => ImplementsFifo
<1>1. MCInit => LinkInv /\ FaultInv /\ Link!Fifo!Init
  <2> SUFFICES ASSUME MCInit PROVE LinkInv /\ FaultInv /\ Link!Fifo!Init
    OBVIOUS
  <2>1. LinkInv
    BY LinkInvInit DEF MCInit
  <2>2. FaultInv
    BY DEF MCInit, Link!Init, FaultInv, Link!None
  <2>3. \A t \in Topics : Link!Waiting(t) = <<>>
    <3>1. ASSUME NEW t \in Topics PROVE taken[t] = <<>> /\ published[t] = <<>> /\ subChan[t] = <<>>
      BY DEF MCInit, Link!Init
    <3>2. SubSeq(<<>>, 1, 0) = <<>> /\ <<>> \o <<>> = <<>> /\ Len(<<>>) = 0 /\ 0 + 1 = 1
      OBVIOUS
    <3> QED
      BY <3>1, <3>2 DEF Link!Waiting
  <2>4. Link!Fifo!Init
    BY <2>3 DEF MCInit, Link!Init, Link!None, Link!Fifo!Init
  <2> QED
    BY <2>1, <2>2, <2>4
<1>2. LinkInv /\ FaultInv /\ [MCNext]_<<vars, linkVars, side>> => LinkInv' /\ FaultInv'
  BY SideSteps, LinkInvStep, FaultStep
<1>3. LinkInv /\ LinkInv' /\ FaultInv /\ [MCNext]_<<vars, linkVars, side>>
        => [Link!Fifo!Next]_(Link!Fifo!fifoVars)
  BY SideSteps, StepMaps
<1> QED
  BY <1>1, <1>2, <1>3, PTL DEF MCSpec, ImplementsFifo, Link!ImplementsFifo, Link!Fifo!Spec

-----------------------------------------------------------------------------
(* From its start until the bridge is closed a sender thread runs; once    *)
(* one has failed, or close() is past the connection, that one is down;    *)
(* and write_mu is held only between the two sends of a frame.             *)
EndInv ==
  /\ cpc \in {"subscribe", "dial", "auth", "undo", "failed", "open", "shutdown", "subs", "join", "closed"}
  /\ spc \in [Topics -> {"none", "poll", "lock", "length", "text", "failed", "ended"}]
  /\ cpc \in {"subscribe", "dial", "auth", "undo", "failed"} => \A t \in Topics : spc[t] = "none"
  /\ cpc \in {"subscribe", "dial", "auth"} => closedSub = {}
  /\ cpc \notin {"subscribe", "dial", "auth", "undo", "failed"} =>
       /\ \A t \in Topics : spc[t] # "none"
       /\ closedSub # {} => conn = "down"
  /\ (\E t \in Topics : spc[t] = "failed") => conn = "down"
  /\ ending <=> cpc \in {"shutdown", "subs", "join", "closed"}
  /\ cpc \in {"subscribe", "dial", "undo", "failed"} => conn # "up"
  /\ cpc \in {"join", "closed"} => closedSub = Topics
  /\ cpc = "closed" => \A t \in Topics : spc[t] = "ended"
  /\ cpc \in {"subs", "join", "closed"} => conn = "down"
  /\ lock # Link!None => lock \in Topics /\ spc[lock] \in {"length", "text"}

(* The senders have been told to end: by close(), or by one that failed    *)
(* and closes, or has closed, the subscribers of all.                      *)
Told == ending \/ closedSub = Topics \/ \E t \in Topics : spc[t] = "failed"

(* The next step of a sender waits for no sample, lock or peer. *)
SenderGoesOn(t) ==
  \/ spc[t] = "poll" /\ (ending \/ subChan[t] # <<>> \/ t \in closedSub)
  \/ spc[t] = "lock" /\ lock = Link!None
  \/ spc[t] \in {"length", "text"} /\ conn = "down"
  \/ spc[t] = "failed"

LEMMA EndStep ==
  EndInv /\ [Link!Next]_(Link!vars) => EndInv'
<1> SUFFICES ASSUME EndInv, [Link!Next]_(Link!vars) PROVE EndInv'
  OBVIOUS
<1>1. CASE UNCHANGED <<cpc, spc, closedSub, ending, conn, lock>>
  BY <1>1 DEF EndInv
<1>2. ASSUME NEW t \in Topics, Link!Give(t) PROVE EndInv'
  BY <1>1, <1>2 DEF Link!Give, Link!client, Link!senders
<1>3. ASSUME NEW t \in Topics, Link!Poll(t) PROVE EndInv'
  BY <1>3 DEF Link!Poll, Link!Goes, Link!sending, Link!client, EndInv
<1>4. ASSUME NEW t \in Topics, Link!LockWrites(t) PROVE EndInv'
  BY <1>4 DEF Link!LockWrites, Link!Goes, Link!sending, Link!client, EndInv
<1>5. ASSUME NEW t \in Topics, Link!SendPart(t) PROVE EndInv'
  BY <1>5 DEF Link!SendPart, Link!Goes, Link!sending, Link!client, EndInv
<1>6. ASSUME NEW t \in Topics, Link!SendFails(t) PROVE EndInv'
  BY <1>6 DEF Link!SendFails, Link!sending, Link!client, EndInv
<1>7. ASSUME NEW t \in Topics, Link!CloseSubs(t) PROVE EndInv'
  BY <1>7 DEF Link!CloseSubs, Link!Goes, EndInv
<1>8. CASE Link!Connecting
  <2>1. closedSub' = closedSub \/ cpc = "undo"
    BY <1>8 DEF Link!Connecting, Link!Subscribe, Link!SubscribeFails, Link!Address, Link!AddressFails,
       Link!Dial, Link!DialFails, Link!AuthFails, Link!UndoNext, Link!Undone, Link!calling
  <2> QED
    BY <1>8, <2>1, ConnectingMoves DEF EndInv
<1>9. CASE Link!Start
  BY <1>9 DEF Link!Start, EndInv
<1>10. CASE Link!CloseStarts \/ Link!Closer
  BY <1>10 DEF Link!CloseStarts, Link!Closer, Link!ShutConn, Link!CloseOwnSubs, Link!JoinSenders,
               Link!closing, Link!senders, EndInv
<1>11. CASE Link!Server \/ Link!Break \/ Link!StopReading
  <2>1. UNCHANGED <<cpc, spc, closedSub, ending, lock>> /\ conn' \in {conn, "down"}
    BY <1>11 DEF Link!Server, Link!Authenticate, Link!ReadLength, Link!ReadText, Link!ReadFails,
                 Link!Stops, Link!Break, Link!StopReading, Link!serving, Link!client, Link!senders
  <2> QED
    BY <2>1 DEF EndInv
<1>12. CASE UNCHANGED Link!vars
  BY <1>1, <1>12 DEF Link!vars, Link!client, Link!senders
<1> QED
  BY <1>2, <1>3, <1>4, <1>5, <1>6, <1>7, <1>8, <1>9, <1>10, <1>11, <1>12
     DEF Link!Next, Link!Sender

(* What connect() has closed again of what it has made.                    *)
UndoInv ==
  /\ subs \in 0 .. Len(Order) /\ undone \in 0 .. subs
  /\ cpc \in {"undo", "failed"} => \A i \in 1 .. undone : Order[i] \in closedSub
  /\ cpc \in {"subscribe", "dial", "auth"} => undone = 0
  /\ cpc = "failed" => undone = subs

LEMMA UndoStep ==
  ASSUME Order \in Seq(Topics), EndInv, UndoInv, [Link!Next]_(Link!vars)
  PROVE  UndoInv'
<1> USE DEF UndoInv
<1>1. CASE UNCHANGED <<cpc, subs, undone, closedSub>>
  BY <1>1
<1>2. CASE Link!Connecting
  <2>1. CASE Link!Subscribe \/ Link!SubscribeFails \/ Link!Address \/ Link!AddressFails
    BY <2>1 DEF Link!Subscribe, Link!SubscribeFails, Link!Address, Link!AddressFails, Link!CallGoes,
       Link!calling
  <2>2. CASE Link!Dial \/ Link!DialFails \/ Link!AuthFails
    BY <2>2 DEF Link!Dial, Link!DialFails, Link!AuthFails, Link!CallGoes, Link!calling
  <2>3. CASE Link!UndoNext
    <3>1. /\ cpc = "undo" /\ cpc' = "undo" /\ subs' = subs /\ undone < subs /\ undone' = undone + 1
          /\ closedSub' = closedSub \cup {Order[undone']}
      BY <2>3 DEF Link!UndoNext
    <3>2. undone' \in 0 .. subs' /\ \A i \in 1 .. undone' : i \in 1 .. undone \/ i = undone'
      BY <3>1
    <3>3. \A i \in 1 .. undone' : Order[i] \in closedSub'
      BY <3>1, <3>2
    <3> QED
      BY <3>1, <3>2, <3>3
  <2>4. CASE Link!Undone
    BY <2>4 DEF Link!Undone, Link!CallGoes, Link!calling
  <2> QED
    BY <1>2, <2>1, <2>2, <2>3, <2>4 DEF Link!Connecting
<1>3. ASSUME NEW t \in Topics, Link!Sender(t) PROVE UndoInv'
  <2>1. /\ UNCHANGED <<cpc, subs, undone>> /\ spc[t] # "none"
    BY <1>3 DEF Link!Sender, Link!Poll, Link!LockWrites, Link!SendPart, Link!SendFails, Link!CloseSubs,
       Link!Goes, Link!sending, Link!client
  <2>2. cpc \notin {"subscribe", "dial", "auth", "undo", "failed"}
    BY <2>1 DEF EndInv
  <2> QED
    BY <2>1, <2>2
<1>4. CASE Link!Start \/ Link!CloseStarts \/ Link!Closer
  <2>1. /\ UNCHANGED <<subs, undone>>
        /\ cpc' \notin {"subscribe", "dial", "auth", "undo", "failed"}
    BY <1>4 DEF Link!Start, Link!CloseStarts, Link!Closer, Link!ShutConn, Link!CloseOwnSubs,
       Link!JoinSenders, Link!closing
  <2> QED
    BY <2>1
<1>5. CASE \/ \E t \in Topics : Link!Give(t)
           \/ Link!Server \/ Link!Break \/ Link!StopReading \/ UNCHANGED Link!vars
  BY <1>1, <1>5 DEF Link!Give, Link!Server, Link!Authenticate, Link!ReadLength, Link!ReadText,
     Link!ReadFails, Link!Break, Link!StopReading, Link!vars, Link!serving, Link!client
<1> QED
  BY <1>2, <1>3, <1>4, <1>5 DEF Link!Next

(* A connect() that fails at any of its four places, and a close() that    *)
(* returns, leave no subscriber of the bridge open, no connection up and   *)
(* no sender thread running, whatever the senders and the connection do    *)
(* meanwhile (the error paths of Bridge::connect(), Bridge::close()).      *)
THEOREM NothingIsLeft ==
  ASSUME Order \in Seq(Topics)
  PROVE  MCSpec => []NothingLeft
<1>1. MCInit => EndInv /\ UndoInv
  <2> SUFFICES ASSUME MCInit PROVE EndInv /\ UndoInv
    OBVIOUS
  <2>1. EndInv
    BY DEF MCInit, Link!Init, EndInv
  <2>2. Len(Order) \in Nat
    OBVIOUS
  <2> QED
    BY <2>1, <2>2 DEF MCInit, Link!Init, UndoInv
<1>2. EndInv /\ UndoInv /\ [MCNext]_<<vars, linkVars, side>> => EndInv' /\ UndoInv'
  BY SideSteps, EndStep, UndoStep
<1>3. EndInv /\ UndoInv => NothingLeft
  <2> SUFFICES ASSUME EndInv, UndoInv, cpc \in {"failed", "closed"}
               PROVE  /\ Link!MadeSubs \subseteq closedSub /\ conn # "up"
                      /\ \A t \in Topics : spc[t] \in {"none", "ended"}
    BY DEF NothingLeft, Link!NothingLeft
  <2>1. \A i \in 1 .. subs : Order[i] \in Topics
    BY DEF UndoInv
  <2>2. Link!MadeSubs \subseteq closedSub
    BY <2>1 DEF EndInv, UndoInv, Link!MadeSubs
  <2> QED
    BY <2>2 DEF EndInv
<1> QED
  BY <1>1, <1>2, <1>3, PTL DEF MCSpec

(* Once the senders have been told to end, they all have, or close() has   *)
(* a step of its own to take, or one of them does: none is left waiting    *)
(* for a sample, for write_mu or for a host that does not read, so the     *)
(* close() that joins them is not either (run_sender_loop()).              *)
THEOREM SendersNeverStick ==
  MCSpec => [](cpc \notin {"subscribe", "dial", "auth", "undo", "failed"} /\ Told =>
                 \/ \A t \in Topics : spc[t] = "ended"
                 \/ cpc \in {"shutdown", "subs"}
                 \/ \E t \in Topics : SenderGoesOn(t))
<1>1. MCInit => EndInv
  BY DEF MCInit, Link!Init, EndInv
<1>2. EndInv =>
        (cpc \notin {"subscribe", "dial", "auth", "undo", "failed"} /\ Told =>
           \/ \A t \in Topics : spc[t] = "ended"
           \/ cpc \in {"shutdown", "subs"}
           \/ \E t \in Topics : SenderGoesOn(t))
  <2> SUFFICES ASSUME EndInv, cpc \notin {"subscribe", "dial", "auth", "undo", "failed"}, Told,
                      cpc \notin {"shutdown", "subs"},
                      NEW t \in Topics, spc[t] # "ended"
               PROVE  \E u \in Topics : SenderGoesOn(u)
    OBVIOUS
  <2>1. CASE \E u \in Topics : spc[u] = "failed"
    BY <2>1 DEF SenderGoesOn
  <2>2. CASE ending \/ closedSub = Topics
    <3>1. conn = "down"
      BY <2>2 DEF EndInv
    <3>2. spc[t] \in {"poll", "lock", "length", "text", "failed"}
      BY DEF EndInv
    <3>3. CASE spc[t] = "lock" /\ lock # Link!None
      BY <3>1, <3>3 DEF EndInv, SenderGoesOn
    <3>4. CASE ~(spc[t] = "lock" /\ lock # Link!None)
      BY <2>2, <3>1, <3>2, <3>4 DEF SenderGoesOn
    <3> QED
      BY <3>3, <3>4
  <2> QED
    BY <2>1, <2>2 DEF Told
<1>3. EndInv /\ [MCNext]_<<vars, linkVars, side>> => EndInv'
  BY SideSteps, EndStep
<1> QED
  BY <1>1, <1>2, <1>3, PTL DEF MCSpec
=============================================================================
