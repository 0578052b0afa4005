------------------------ MODULE RtpsParticipantProofs ------------------------
(***************************************************************************)
(* Proofs about RtpsParticipant, for any readers, writers, policies and    *)
(* depth: its types, that close() leaves no channel of an open subscriber  *)
(* unclosed, that nothing is delivered after unsubscribe(), that no        *)
(* heartbeat thread of an open writer outlives close(), and what close()   *)
(* can wait for.                                                           *)
(***************************************************************************)
EXTENDS RtpsParticipant, FiniteSetTheorems, SequenceTheorems, TLAPS

USE ParticipantAssumption

Opened == {"live", "unsubscribing", "erased", "gone"}
Registered == {"registered", "matched", "replay", "live", "unsubscribing"}

(* Until close() empties readers_ every subscriber in use is in it; then   *)
(* those open at the call are in its snapshot or closed.                   *)
ReadersInv ==
    /\ ownedR \subseteq Readers
    /\ \A r \in ownedR : rd[r] \in Opened
    /\ \A r \in Readers : rd[r] = "gone" => r \in chanClosed
    /\ closer \in {"open", "raised", "writers", "loops", "sockets"} =>
          \A r \in Readers : rd[r] \in Registered => r \in readers
    /\ closer = "readers" =>
          \A r \in ownedR : r \in todo \/ r \in chanClosed \/ rd[r] = "erased"
    /\ CloseClosesOwned

(* A closed writer's heartbeat thread has been joined or somebody is about *)
(* to; the writers open at the call of close() are in writers_, then in    *)
(* its snapshot, until they are closed.                                    *)
WritersInv ==
    /\ ownedW \subseteq Writers
    /\ \A v, w \in inside : v = w
    /\ \A w \in wrClosed : w \in inside \/ Joined(w) \/ wr[w] = "closing"
    /\ \A w \in Writers : wr[w] = "closing" => w \in wrClosed
    /\ \A w \in Writers : wr[w] \in {"none", "checked", "made"} =>
          w \notin writers /\ w \notin wrClosed /\ (closer = "writers" => w \notin todo)
    /\ closer = "raised" => ownedW \subseteq writers \cup wrClosed
    /\ closer = "writers" => ownedW \subseteq todo \cup wrClosed
    /\ closer \in {"loops", "sockets", "readers", "closed"} => ownedW \subseteq wrClosed

-----------------------------------------------------------------------------
(* dispatch()'s copy of readers_ is a sequence of readers. *)
LEMMA SnapshotType ==
    ASSUME TypeOK, NEW d \in Dispatchers, Snapshot(d)
    PROVE  route' \in [Dispatchers -> Seq(Readers)]
<1>1. IsFiniteSet(readers)
  BY FS_Subset DEF TypeOK
<1>2. Cardinality(readers) \in Nat
  BY <1>1, FS_CardinalityType
<1>3. PICK order \in SetToSeqs(readers) : route' = [route EXCEPT ![d] = order]
  BY DEF Snapshot
<1>4. order \in [1..Cardinality(readers) -> readers]
  BY <1>3 DEF SetToSeqs
<1>5. order \in Seq(Readers)
  <2>1. order \in [1..Cardinality(readers) -> Readers]
    BY <1>4 DEF TypeOK
  <2> QED
    BY <1>2, <2>1, SeqDef
<1> QED
  BY <1>3, <1>5 DEF TypeOK

(* A delivery leaves at most Depth samples in a channel. *)
LEMMA EnqueuedType ==
    ASSUME TypeOK, NEW r \in Readers, NEW n \in Enqueued(r)
    PROVE  n \in 0..Depth
BY DEF TypeOK, Enqueued

(* Every step of a dispatch keeps the types. *)
LEMMA DispatchTypes ==
    TypeOK /\ (ReceiveSample \/ DataStep \/ \E w \in Writers : Serve(w)) => TypeOK'
<1> SUFFICES ASSUME TypeOK, ReceiveSample \/ DataStep \/ \E w \in Writers : Serve(w)
             PROVE  TypeOK'
  OBVIOUS
<1> USE DEF readerVars, chanVars, writerVars, closeVars, dataVars
<1>1. ASSUME NEW d \in Dispatchers, Serve(d) PROVE TypeOK'
  <2>1. /\ route[d] \in Seq(Readers) /\ route[d] # <<>>
        /\ route' = [route EXCEPT ![d] = Tail(@)]
    BY <1>1 DEF TypeOK, Serve
  <2>2. Head(route[d]) \in Readers /\ Tail(route[d]) \in Seq(Readers)
    BY <2>1
  <2>3. chan' \in [Readers -> 0..Depth]
    <3>1. \/ chan' = chan
          \/ \E n \in Enqueued(Head(route[d])) :
                chan' = [chan EXCEPT ![Head(route[d])] = n]
      BY <1>1 DEF Serve
    <3> QED
      BY <2>2, <3>1, EnqueuedType DEF TypeOK
  <2>4. route' \in [Dispatchers -> Seq(Readers)]
    BY <2>1, <2>2 DEF TypeOK
  <2> QED
    BY <1>1, <2>3, <2>4 DEF TypeOK, Serve
<1>2. CASE ReceiveSample
  <2>1. route' \in [Dispatchers -> Seq(Readers)]
    BY <1>2, SnapshotType DEF ReceiveSample, Dispatchers
  <2> QED
    BY <1>2, <2>1 DEF TypeOK, ReceiveSample
<1>3. CASE DispatchDone
  BY <1>3 DEF TypeOK, DispatchDone
<1>4. CASE DataLoopExits
  BY <1>4 DEF TypeOK, DataLoopExits
<1> QED
  BY <1>1, <1>2, <1>3, <1>4 DEF DataStep, Dispatchers

(* Every step of a writer's owner or of its heartbeat thread does. *)
LEMMA WriterTypes ==
    ASSUME TypeOK, NEW w \in Writers,
           \/ NewPublisher(w) \/ MakeWriter(w) \/ RegisterWriter(w)
           \/ WriteBegin(w) \/ StoreLast(w) \/ DispatchLocal(w) \/ WriteEnd(w)
           \/ CloseWriter(w) \/ WriterClosed(w) \/ HeartbeatExits(w)
    PROVE  TypeOK'
<1> USE DEF notWriter, readerVars, chanVars, closeVars, dataVars, WrGoes
<1>1. CASE NewPublisher(w)
  BY <1>1 DEF TypeOK, NewPublisher
<1>2. CASE MakeWriter(w)
  BY <1>2 DEF TypeOK, MakeWriter
<1>3. CASE RegisterWriter(w)
  BY <1>3 DEF TypeOK, RegisterWriter
<1>4. CASE WriteBegin(w)
  BY <1>4 DEF TypeOK, WriteBegin
<1>5. CASE StoreLast(w)
  BY <1>5 DEF TypeOK, StoreLast
<1>6. CASE DispatchLocal(w)
  <2>1. route' \in [Dispatchers -> Seq(Readers)]
    BY <1>6, SnapshotType DEF DispatchLocal, Dispatchers
  <2> QED
    BY <1>6, <2>1 DEF TypeOK, DispatchLocal
<1>7. CASE WriteEnd(w)
  BY <1>7 DEF TypeOK, WriteEnd
<1>8. CASE CloseWriter(w)
  <2>1. CASE w \in wrClosed
    BY <1>8, <2>1 DEF TypeOK, CloseWriter
  <2>2. CASE w \notin wrClosed
    BY <1>8, <2>2 DEF TypeOK, CloseWriter, StopHeartbeat
  <2> QED
    BY <2>1, <2>2
<1>9. CASE WriterClosed(w)
  BY <1>9 DEF TypeOK, WriterClosed
<1>10. CASE HeartbeatExits(w)
  BY <1>10 DEF TypeOK, HeartbeatExits
<1> QED
  BY <1>1, <1>2, <1>3, <1>4, <1>5, <1>6, <1>7, <1>8, <1>9, <1>10

(* Every step of a reader's owner or of its consumer does. *)
LEMMA ReaderTypes ==
    ASSUME TypeOK, NEW r \in Readers,
           NewSubscriber(r) \/ ReaderStep(r) \/ Recv(r) \/ Unsubscribe(r)
    PROVE  TypeOK'
<1> USE DEF notReader, readerVars, chanVars, writerVars, closeVars, dataVars, RdGoes
<1>1. CASE NewSubscriber(r)
  <2>1. policy' \in [Readers -> Policies]
    <3>1. PICK b \in Asked[r] : policy' = [policy EXCEPT ![r] = b]
      BY <1>1 DEF NewSubscriber
    <3>2. b \in Policies
      BY <3>1
    <3> QED
      BY <3>1, <3>2 DEF TypeOK
  <2> QED
    BY <1>1, <2>1 DEF TypeOK, NewSubscriber
<1>2. CASE RegisterReader(r)
  BY <1>2 DEF TypeOK, RegisterReader
<1>3. CASE SedpRegister(r)
  BY <1>3 DEF TypeOK, SedpRegister
<1>4. CASE ReadLast(r)
  BY <1>4 DEF TypeOK, ReadLast
<1>5. CASE Replay(r)
  <2>1. chan' \in [Readers -> 0..Depth]
    BY <1>5, EnqueuedType DEF TypeOK, Replay
  <2> QED
    BY <1>5, <2>1 DEF TypeOK, Replay
<1>6. CASE Unregister(r)
  BY <1>6 DEF TypeOK, Unregister
<1>7. CASE CloseChannel(r)
  BY <1>7 DEF TypeOK, CloseChannel
<1>8. CASE Recv(r)
  <2>1. chan' \in [Readers -> 0..Depth]
    BY <1>8 DEF TypeOK, Recv
  <2> QED
    BY <1>8, <2>1 DEF TypeOK, Recv
<1>9. CASE Unsubscribe(r)
  BY <1>9 DEF TypeOK, Unsubscribe
<1> QED
  BY <1>1, <1>2, <1>3, <1>4, <1>5, <1>6, <1>7, <1>8, <1>9 DEF ReaderStep

(* Every step of close() does. *)
LEMMA CloseTypes == ASSUME TypeOK, Close \/ CloserStep PROVE TypeOK'
<1> USE DEF notClose, readerVars, chanVars, writerVars, closeVars, dataVars, CloserGoes
<1>1. CASE Close
  BY <1>1 DEF TypeOK, Close
<1>2. CASE TakeWriters
  BY <1>2 DEF TypeOK, TakeWriters
<1>3. ASSUME NEW w \in Writers, StopWriter(w) PROVE TypeOK'
  BY <1>3 DEF TypeOK, StopWriter, StopHeartbeat
<1>4. ASSUME NEW w \in Writers, JoinWriter(w) PROVE TypeOK'
  BY <1>4 DEF TypeOK, JoinWriter
<1>5. CASE StopLoops
  BY <1>5 DEF TypeOK, StopLoops
<1>6. CASE JoinDataLoop
  BY <1>6 DEF TypeOK, JoinDataLoop
<1>7. CASE TakeReaders
  BY <1>7 DEF TypeOK, TakeReaders
<1>8. ASSUME NEW r \in Readers, CloseReader(r) PROVE TypeOK'
  BY <1>8 DEF TypeOK, CloseReader
<1>9. CASE CloseDone
  BY <1>9 DEF TypeOK, CloseDone
<1> QED
  BY <1>1, <1>2, <1>3, <1>4, <1>5, <1>6, <1>7, <1>8, <1>9 DEF CloserStep

LEMMA TypeStep == TypeOK /\ [Next]_vars => TypeOK'
<1>1. TypeOK /\ UNCHANGED vars => TypeOK'
  BY DEF TypeOK, vars, readerVars, chanVars, writerVars, closeVars, dataVars
<1>2. TypeOK /\ Next => TypeOK'
  BY DispatchTypes, WriterTypes, ReaderTypes, CloseTypes DEF Next, WriterStep
<1> QED
  BY <1>1, <1>2

(* The model stays within its types, which hold more than sets: a channel  *)
(* never exceeds its depth, a heartbeat thread stops only when its writer  *)
(* is closed, and the data loop exits only when it was told to.            *)
THEOREM TypeCorrect == Safety => []TypeOK
<1>1. Init => TypeOK
  <2> SUFFICES ASSUME Init PROVE TypeOK
    OBVIOUS
  <2>1. /\ chan \in [Readers -> 0..Depth] /\ samples \in 0..MaxSamples
        /\ route \in [Dispatchers -> Seq(Readers)]
    BY DEF Init
  <2> QED
    BY <2>1 DEF Init, TypeOK, Policies
<1> QED
  BY <1>1, TypeStep, PTL DEF Safety

-----------------------------------------------------------------------------
(* The readers.                                                            *)

LEMMA ReadersStep ==
    TypeOK /\ ReadersInv /\ [Next]_vars => ReadersInv'
<1> SUFFICES ASSUME TypeOK, ReadersInv, [Next]_vars PROVE ReadersInv'
  OBVIOUS
<1> USE DEF notWriter, notReader, notClose, readerVars, chanVars, writerVars,
            closeVars, dataVars, RdGoes, CloserGoes, Opened, Registered
(* Steps that touch nothing of it. *)
<1>1. CASE UNCHANGED <<ownedR, rd, chanClosed, closer, readers, todo>>
  BY <1>1 DEF ReadersInv, CloseClosesOwned
<1>2. CASE ReceiveSample \/ DataStep \/ \E w \in Writers : Serve(w)
  <2>1. UNCHANGED <<ownedR, rd, chanClosed, closer, readers, todo>>
    BY <1>2 DEF ReceiveSample, DataStep, DispatchDone, DataLoopExits, Serve
  <2> QED
    BY <1>1, <2>1
<1>3. ASSUME NEW w \in Writers,
             \/ NewPublisher(w) \/ MakeWriter(w) \/ RegisterWriter(w)
             \/ WriteBegin(w) \/ StoreLast(w) \/ DispatchLocal(w) \/ WriteEnd(w)
             \/ CloseWriter(w) \/ WriterClosed(w) \/ HeartbeatExits(w)
      PROVE  ReadersInv'
  <2>1. UNCHANGED <<ownedR, rd, chanClosed, closer, readers, todo>>
    BY <1>3 DEF NewPublisher, MakeWriter, RegisterWriter, WriteBegin, StoreLast,
                DispatchLocal, WriteEnd, CloseWriter, WriterClosed, HeartbeatExits
  <2> QED
    BY <1>1, <2>1
(* The calls of a subscriber. *)
<1>4. ASSUME NEW r \in Readers, NewSubscriber(r) PROVE ReadersInv'
  BY <1>4 DEF NewSubscriber, ReadersInv, CloseClosesOwned, TypeOK
<1>5. ASSUME NEW r \in Readers, RegisterReader(r) PROVE ReadersInv'
  BY <1>5 DEF RegisterReader, ReadersInv, CloseClosesOwned, TypeOK
<1>6. ASSUME NEW r \in Readers, SedpRegister(r) PROVE ReadersInv'
  BY <1>6 DEF SedpRegister, ReadersInv, CloseClosesOwned, TypeOK
<1>7. ASSUME NEW r \in Readers, ReadLast(r) PROVE ReadersInv'
  BY <1>7 DEF ReadLast, ReadersInv, CloseClosesOwned, TypeOK
<1>8. ASSUME NEW r \in Readers, Replay(r) PROVE ReadersInv'
  BY <1>8 DEF Replay, ReadersInv, CloseClosesOwned, TypeOK
<1>9. ASSUME NEW r \in Readers, Recv(r) PROVE ReadersInv'
  BY <1>1, <1>9 DEF Recv
<1>10. ASSUME NEW r \in Readers, Unsubscribe(r) PROVE ReadersInv'
  BY <1>10 DEF Unsubscribe, ReadersInv, CloseClosesOwned, TypeOK
<1>11. ASSUME NEW r \in Readers, Unregister(r) PROVE ReadersInv'
  BY <1>11 DEF Unregister, ReadersInv, CloseClosesOwned, TypeOK
<1>12. ASSUME NEW r \in Readers, CloseChannel(r) PROVE ReadersInv'
  BY <1>12 DEF CloseChannel, ReadersInv, CloseClosesOwned, TypeOK
(* The steps of close(). *)
<1>13. CASE Close
  BY <1>13 DEF Close, ReadersInv, CloseClosesOwned, TypeOK
<1>14. CASE TakeWriters \/ StopLoops \/ JoinDataLoop
  BY <1>14 DEF TakeWriters, StopLoops, JoinDataLoop, ReadersInv, CloseClosesOwned
<1>15. ASSUME NEW w \in Writers, StopWriter(w) \/ JoinWriter(w) PROVE ReadersInv'
  BY <1>15 DEF StopWriter, JoinWriter, StopHeartbeat, ReadersInv, CloseClosesOwned,
               TypeOK
<1>16. CASE TakeReaders
  BY <1>16 DEF TakeReaders, ReadersInv, CloseClosesOwned
<1>17. ASSUME NEW r \in Readers, CloseReader(r) PROVE ReadersInv'
  BY <1>17 DEF CloseReader, ReadersInv, CloseClosesOwned
<1>18. CASE CloseDone
  BY <1>18 DEF CloseDone, ReadersInv, CloseClosesOwned
<1>19. CASE UNCHANGED vars
  BY <1>1, <1>19 DEF vars
<1> QED
  BY <1>2, <1>3, <1>4, <1>5, <1>6, <1>7, <1>8, <1>9, <1>10, <1>11, <1>12, <1>13,
     <1>14, <1>15, <1>16, <1>17, <1>18, <1>19
     DEF Next, WriterStep, ReaderStep, CloserStep

(* When close() has returned, every subscriber that was open when it was   *)
(* called has its channel closed or is past leaving readers_ in its own    *)
(* unsubscribe(), which closes it.                                         *)
THEOREM CloseClosesEveryOwned == Safety => []CloseClosesOwned
<1>1. Init => ReadersInv
  BY DEF Init, ReadersInv, CloseClosesOwned, Registered
<1>2. ReadersInv => CloseClosesOwned
  BY DEF ReadersInv
<1> QED
  BY <1>1, <1>2, ReadersStep, TypeCorrect, PTL DEF Safety

(* A full channel of a reader whose unsubscribe() has returned stays as it *)
(* is under every policy, since it is closed: only the owner takes from it.*)
LEMMA OnlyRecvMovesGone ==
    ASSUME TypeOK, ReadersInv, [Next]_vars, NEW r \in Readers, rd[r] = "gone"
    PROVE  chan'[r] <= chan[r]
<1> USE DEF notWriter, notReader, notClose, readerVars, chanVars, writerVars,
            closeVars, dataVars, RdGoes
<1>1. r \in chanClosed /\ chan[r] \in Nat
  BY DEF ReadersInv, TypeOK
<1>2. CASE UNCHANGED chan
  BY <1>1, <1>2
<1>3. ASSUME NEW d \in Dispatchers, Serve(d) PROVE chan'[r] <= chan[r]
  <2>1. PICK h : h = Head(route[d])
    OBVIOUS
  <2>2. UNCHANGED chan \/ \E n \in Enqueued(h) : chan' = [chan EXCEPT ![h] = n]
    BY <1>3, <2>1 DEF Serve
  <2>3. CASE h = r
    <3>1. Enqueued(h) = {chan[h]}
      BY <1>1, <2>3 DEF Enqueued
    <3> QED
      BY <1>1, <1>2, <2>2, <2>3, <3>1 DEF TypeOK
  <2>4. CASE h # r
    BY <1>1, <1>2, <2>2, <2>4 DEF TypeOK
  <2> QED
    BY <2>3, <2>4
<1>4. ASSUME NEW q \in Readers, Replay(q) PROVE chan'[r] <= chan[r]
  <2>1. q # r /\ \E n \in Enqueued(q) : chan' = [chan EXCEPT ![q] = n]
    BY <1>4 DEF Replay
  <2> QED
    BY <1>1, <2>1 DEF TypeOK
<1>5. ASSUME NEW q \in Readers, Recv(q) PROVE chan'[r] <= chan[r]
  <2>1. chan' = [chan EXCEPT ![q] = @ - 1]
    BY <1>5 DEF Recv
  <2>2. chan'[r] = chan[r] \/ chan'[r] = chan[r] - 1
    BY <2>1 DEF TypeOK
  <2> QED
    BY <1>1, <2>2
<1>6. CASE ReceiveSample \/ DispatchDone \/ DataLoopExits \/ UNCHANGED vars
  BY <1>2, <1>6 DEF ReceiveSample, DispatchDone, DataLoopExits, vars
<1>7. ASSUME NEW w \in Writers,
             \/ NewPublisher(w) \/ MakeWriter(w) \/ RegisterWriter(w)
             \/ WriteBegin(w) \/ StoreLast(w) \/ DispatchLocal(w) \/ WriteEnd(w)
             \/ CloseWriter(w) \/ WriterClosed(w) \/ HeartbeatExits(w)
      PROVE  chan'[r] <= chan[r]
  BY <1>2, <1>7 DEF NewPublisher, MakeWriter, RegisterWriter, WriteBegin, StoreLast,
                    DispatchLocal, WriteEnd, CloseWriter, WriterClosed, HeartbeatExits
<1>8. ASSUME NEW q \in Readers,
             \/ NewSubscriber(q) \/ RegisterReader(q) \/ SedpRegister(q) \/ ReadLast(q)
             \/ Unsubscribe(q) \/ Unregister(q) \/ CloseChannel(q)
      PROVE  chan'[r] <= chan[r]
  BY <1>2, <1>8 DEF NewSubscriber, RegisterReader, SedpRegister, ReadLast, Unsubscribe,
                    Unregister, CloseChannel
<1>9. CASE Close \/ CloserStep
  BY <1>2, <1>9 DEF Close, CloserStep, TakeWriters, StopWriter, JoinWriter, StopLoops,
                    JoinDataLoop, TakeReaders, CloseReader, CloseDone
<1> QED
  BY <1>3, <1>4, <1>5, <1>6, <1>7, <1>8, <1>9
     DEF Next, DataStep, WriterStep, ReaderStep, Dispatchers

(* Once unsubscribe() has returned, no dispatch that snapshot the reader   *)
(* before it adds to its channel.                                          *)
THEOREM UnsubscribedIsQuiet == Safety => GoneIsQuiet
<1>1. Init => ReadersInv
  BY DEF Init, ReadersInv, CloseClosesOwned, Registered
<1>2. TypeOK /\ ReadersInv /\ [Next]_vars =>
        [\A r \in Readers : rd[r] = "gone" => chan'[r] <= chan[r]]_vars
  BY OnlyRecvMovesGone
<1> QED
  BY <1>1, <1>2, ReadersStep, TypeCorrect, PTL DEF Safety, GoneIsQuiet

-----------------------------------------------------------------------------
(* The writers.                                                            *)

LEMMA WritersStep ==
    TypeOK /\ WritersInv /\ [Next]_vars => WritersInv'
<1> SUFFICES ASSUME TypeOK, WritersInv, [Next]_vars PROVE WritersInv'
  OBVIOUS
<1> USE DEF notWriter, notReader, notClose, readerVars, chanVars, writerVars,
            closeVars, dataVars, WrGoes, CloserGoes, Joined
(* Steps that touch nothing of it. *)
<1>1. CASE UNCHANGED <<ownedW, wr, hb, wrClosed, writers, closer, todo, inside>>
  BY <1>1 DEF WritersInv
<1>2. CASE ReceiveSample \/ DataStep \/ \E w \in Writers : Serve(w)
  <2>1. UNCHANGED <<ownedW, wr, hb, wrClosed, writers, closer, todo, inside>>
    BY <1>2 DEF ReceiveSample, DataStep, DispatchDone, DataLoopExits, Serve
  <2> QED
    BY <1>1, <2>1
<1>3. ASSUME NEW r \in Readers,
             NewSubscriber(r) \/ ReaderStep(r) \/ Recv(r) \/ Unsubscribe(r)
      PROVE  WritersInv'
  <2>1. UNCHANGED <<ownedW, wr, hb, wrClosed, writers, closer, todo, inside>>
    BY <1>3 DEF NewSubscriber, ReaderStep, RegisterReader, SedpRegister, ReadLast,
                Replay, Unregister, CloseChannel, Recv, Unsubscribe
  <2> QED
    BY <1>1, <2>1
(* The calls of a publisher, and its heartbeat thread. *)
<1>4. ASSUME NEW w \in Writers, NewPublisher(w) PROVE WritersInv'
  BY <1>4 DEF NewPublisher, WritersInv, TypeOK
<1>5. ASSUME NEW w \in Writers, MakeWriter(w) PROVE WritersInv'
  BY <1>5 DEF MakeWriter, WritersInv, TypeOK
<1>6. ASSUME NEW w \in Writers, RegisterWriter(w) PROVE WritersInv'
  BY <1>6 DEF RegisterWriter, WritersInv, TypeOK
<1>7. ASSUME NEW w \in Writers,
             WriteBegin(w) \/ StoreLast(w) \/ DispatchLocal(w) \/ WriteEnd(w)
      PROVE  WritersInv'
  BY <1>7 DEF WriteBegin, StoreLast, DispatchLocal, WriteEnd, WritersInv, TypeOK
<1>8. ASSUME NEW w \in Writers, CloseWriter(w) PROVE WritersInv'
  <2>1. CASE w \in wrClosed
    BY <1>8, <2>1 DEF CloseWriter, WritersInv, TypeOK
  <2>2. CASE w \notin wrClosed
    BY <1>8, <2>2 DEF CloseWriter, StopHeartbeat, WritersInv, TypeOK
  <2> QED
    BY <2>1, <2>2
<1>9. ASSUME NEW w \in Writers, WriterClosed(w) PROVE WritersInv'
  BY <1>9 DEF WriterClosed, WritersInv, TypeOK
<1>10. ASSUME NEW w \in Writers, HeartbeatExits(w) PROVE WritersInv'
  BY <1>10 DEF HeartbeatExits, WritersInv, TypeOK
(* The steps of close(). *)
<1>11. CASE Close
  BY <1>11 DEF Close, WritersInv, TypeOK
<1>12. CASE TakeWriters
  BY <1>12 DEF TakeWriters, WritersInv
<1>13. ASSUME NEW w \in Writers, StopWriter(w) PROVE WritersInv'
  <2>1. CASE w \in wrClosed
    BY <1>13, <2>1 DEF StopWriter, WritersInv
  <2>2. CASE w \notin wrClosed
    BY <1>13, <2>2 DEF StopWriter, StopHeartbeat, WritersInv, TypeOK
  <2> QED
    BY <2>1, <2>2
<1>14. ASSUME NEW w \in Writers, JoinWriter(w) PROVE WritersInv'
  BY <1>14 DEF JoinWriter, WritersInv, TypeOK
<1>15. CASE StopLoops
  BY <1>15 DEF StopLoops, WritersInv
<1>16. CASE JoinDataLoop \/ TakeReaders \/ CloseDone
  BY <1>16 DEF JoinDataLoop, TakeReaders, CloseDone, WritersInv
<1>17. ASSUME NEW r \in Readers, CloseReader(r) PROVE WritersInv'
  BY <1>17 DEF CloseReader, WritersInv
<1>18. CASE UNCHANGED vars
  BY <1>1, <1>18 DEF vars
<1> QED
  BY <1>2, <1>3, <1>4, <1>5, <1>6, <1>7, <1>8, <1>9, <1>10, <1>11, <1>12, <1>13,
     <1>14, <1>15, <1>16, <1>17, <1>18
     DEF Next, WriterStep, CloserStep

(* When close() has returned, the heartbeat thread of every writer that    *)
(* was open when it was called has ended, or the writer's own close() has  *)
(* yet to join it.                                                         *)
THEOREM NoHeartbeatOutlives == Safety => []HeartbeatsStopped
<1>1. Init => WritersInv
  BY DEF Init, WritersInv
<1>2. TypeOK /\ WritersInv => HeartbeatsStopped
  BY DEF TypeOK, WritersInv, HeartbeatsStopped
<1> QED
  BY <1>1, <1>2, WritersStep, TypeCorrect, PTL DEF Safety

-----------------------------------------------------------------------------
(* Whom close() waits for.                                                 *)

(* Whoever close() joins has been told to stop before. *)
ToldInv ==
    /\ \A w \in inside : hb[w] # "running"
    /\ closer \in {"loops", "sockets", "readers", "closed"} => ~dataRunning

(* close() has nothing to wait for, or what it waits for has happened. *)
CloseGoesOn ==
    \/ closer \in {"raised", "sockets", "readers"}
    \/ closer = "writers" /\ \A w \in inside : Joined(w)
    \/ closer = "loops" /\ data = "exited"

(* It waits for a thread that waits for nobody: a heartbeat thread or a    *)
(* data loop about to end, or a data loop whose delivery goes on.          *)
AwaitedGoesOn ==
    \/ closer = "writers" /\ \A w \in inside : hb[w] = "stopping"
    \/ /\ closer = "loops" /\ ~dataRunning
       /\ \/ data = "recv"
          \/ /\ data = "deliver"
             /\ \/ route[DataLoop] = <<>>
                \/ \E r \in Readers : /\ Serving(DataLoop, r)
                                      /\ Accepted(DataLoop, r) => Enqueued(r) # {}

(* The data loop is delivering to a reader that asked for Block, and whose *)
(* channel is open and full.                                               *)
AwaitsRoom ==
    /\ closer = "loops" /\ data = "deliver"
    /\ \E r \in Readers : /\ Serving(DataLoop, r) /\ Accepted(DataLoop, r)
                          /\ policy[r] = "Block"
                          /\ r \notin chanClosed /\ chan[r] = Depth

LEMMA ToldStep == TypeOK /\ WritersInv /\ ToldInv /\ [Next]_vars => ToldInv'
<1> SUFFICES ASSUME TypeOK, WritersInv, ToldInv, [Next]_vars PROVE ToldInv'
  OBVIOUS
<1> USE DEF notWriter, notReader, notClose, readerVars, chanVars, writerVars,
            closeVars, dataVars, WrGoes, CloserGoes
(* Steps that touch nothing of it. *)
<1>1. CASE UNCHANGED <<hb, closer, inside, dataRunning>>
  BY <1>1 DEF ToldInv
<1>2. CASE ReceiveSample \/ DataStep \/ Close \/ TakeWriters
  BY <1>2 DEF ReceiveSample, DataStep, DispatchDone, DataLoopExits, Serve, Close,
              TakeWriters, ToldInv
<1>3. ASSUME NEW r \in Readers,
             \/ NewSubscriber(r) \/ ReaderStep(r) \/ Recv(r)
             \/ Unsubscribe(r) \/ CloseReader(r)
      PROVE  ToldInv'
  BY <1>1, <1>3 DEF NewSubscriber, ReaderStep, RegisterReader, SedpRegister, ReadLast,
                    Replay, Unregister, CloseChannel, Recv, Unsubscribe, CloseReader
<1>4. ASSUME NEW w \in Writers,
             \/ NewPublisher(w) \/ RegisterWriter(w) \/ WriteBegin(w) \/ StoreLast(w)
             \/ DispatchLocal(w) \/ Serve(w) \/ WriteEnd(w) \/ WriterClosed(w)
      PROVE  ToldInv'
  BY <1>1, <1>4 DEF NewPublisher, RegisterWriter, WriteBegin, StoreLast,
                    DispatchLocal, Serve, WriteEnd, WriterClosed
(* A heartbeat thread is started before anybody can close its writer. *)
<1>5. ASSUME NEW w \in Writers, MakeWriter(w) PROVE ToldInv'
  <2>1. w \notin inside
    BY <1>5 DEF MakeWriter, WritersInv, TypeOK
  <2> QED
    BY <1>5, <2>1 DEF MakeWriter, ToldInv, TypeOK
<1>6. ASSUME NEW w \in Writers, CloseWriter(w) \/ HeartbeatExits(w) PROVE ToldInv'
  BY <1>6 DEF CloseWriter, StopHeartbeat, HeartbeatExits, ToldInv, TypeOK
(* close() tells before it joins. *)
<1>7. ASSUME NEW w \in Writers, StopWriter(w) \/ JoinWriter(w) PROVE ToldInv'
  BY <1>7 DEF StopWriter, StopHeartbeat, JoinWriter, ToldInv, TypeOK
<1>8. CASE StopLoops \/ JoinDataLoop \/ TakeReaders \/ CloseDone
  BY <1>8 DEF StopLoops, JoinDataLoop, TakeReaders, CloseDone, ToldInv
<1>9. CASE UNCHANGED vars
  BY <1>1, <1>9 DEF vars
<1> QED
  BY <1>2, <1>3, <1>4, <1>5, <1>6, <1>7, <1>8, <1>9 DEF Next, WriterStep, CloserStep

(* A close() that has not returned goes on, or waits for a thread that     *)
(* was told to stop and that waits for nobody, but for one case: the data  *)
(* loop it joins waits for room in the open, full channel of a reader that *)
(* asked for Block.  Nothing else can make it hang.                        *)
THEOREM CloseHangsOnlyOnFull ==
    Safety => [](closed /\ closer # "closed" =>
                    CloseGoesOn \/ AwaitedGoesOn \/ AwaitsRoom)
<1>1. Init => WritersInv /\ ToldInv
  BY DEF Init, WritersInv, ToldInv
<1>2. TypeOK /\ WritersInv /\ ToldInv =>
        (closed /\ closer # "closed" => CloseGoesOn \/ AwaitedGoesOn \/ AwaitsRoom)
  <2> SUFFICES ASSUME TypeOK, WritersInv, ToldInv, closed, closer # "closed"
               PROVE  CloseGoesOn \/ AwaitedGoesOn \/ AwaitsRoom
    OBVIOUS
  <2>1. CASE closer \in {"raised", "sockets", "readers"}
    BY <2>1 DEF CloseGoesOn
  <2>2. CASE closer = "writers"
    <3>1. CASE inside = {}
      BY <2>2, <3>1 DEF CloseGoesOn
    <3>2. ASSUME NEW w \in inside PROVE CloseGoesOn \/ AwaitedGoesOn
      <4>1. inside = {w} /\ hb[w] \in {"off", "stopping", "exited"}
        BY <3>2 DEF WritersInv, ToldInv, TypeOK
      <4> QED
        BY <2>2, <4>1 DEF CloseGoesOn, AwaitedGoesOn, Joined
    <3> QED
      BY <3>1, <3>2
  <2>3. CASE closer = "loops"
    <3>1. ~dataRunning
      BY <2>3 DEF ToldInv
    <3>2. CASE data = "exited" \/ data = "recv" \/ route[DataLoop] = <<>>
      BY <2>3, <3>1, <3>2 DEF CloseGoesOn, AwaitedGoesOn, TypeOK
    <3>3. CASE data = "deliver" /\ route[DataLoop] # <<>>
      <4>1. route[DataLoop] \in Seq(Readers)
        BY DEF TypeOK, Dispatchers
      <4>2. PICK r \in Readers : Serving(DataLoop, r)
        BY <3>3, <4>1 DEF Serving
      <4>3. CASE ~Accepted(DataLoop, r) \/ Enqueued(r) # {}
        BY <2>3, <3>1, <3>3, <4>2, <4>3 DEF AwaitedGoesOn
      <4>4. CASE Accepted(DataLoop, r) /\ Enqueued(r) = {}
        <5>1. r \notin chanClosed /\ ~(chan[r] < Depth) /\ policy[r] = "Block"
          BY <4>4 DEF Enqueued
        <5>2. chan[r] = Depth
          BY <5>1 DEF TypeOK
        <5> QED
          BY <2>3, <3>3, <4>2, <4>4, <5>1, <5>2 DEF AwaitsRoom
      <4> QED
        BY <4>3, <4>4
    <3> QED
      BY <3>2, <3>3 DEF TypeOK
  <2> QED
    BY <2>1, <2>2, <2>3 DEF TypeOK
<1> QED
  BY <1>1, <1>2, WritersStep, ToldStep, TypeCorrect, PTL DEF Safety
=============================================================================
