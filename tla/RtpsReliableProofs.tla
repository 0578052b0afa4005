------------------------- MODULE RtpsReliableProofs -------------------------
(***************************************************************************)
(* Proofs about RtpsReliable, for any number of threads and readers, any   *)
(* history depth, window and reorder bound: its types, that a reader's     *)
(* watermark never passes a sample that was not dispatched to it, and,     *)
(* when write() is called by one thread at a time, that no HEARTBEAT       *)
(* starts above a retained sample.                                         *)
(***************************************************************************)
EXTENDS RtpsReliable, TLAPS

USE ReliableAssumption

TrackerType(k) == k \in [init : BOOLEAN, expected : Nat, ahead : SUBSET Seqs]

(* What a tracker may claim of the set D of dispatched samples, given that *)
(* its watermark started at c.                                             *)
Sound(k, c, D) ==
    /\ k.init => c <= k.expected /\ c..k.expected - 1 \subseteq D
    /\ k.ahead \subseteq D
    /\ \A n \in k.ahead : k.expected < n

Started(k) == IF k.init THEN k.expected > 0 ELSE k.ahead = {}

Bounded(k) == \A n \in k.ahead : n <= k.expected + MaxReorderAhead

Start(k, c, n) == IF k.init THEN c ELSE n

-----------------------------------------------------------------------------
(* The RecvTracker operations.                                             *)

(* init_expected() anchors a fresh tracker and leaves any other alone. *)
LEMMA InitExpectedSound ==
    ASSUME NEW k, NEW c \in Nat, NEW D, NEW n \in Seqs,
           TrackerType(k), Started(k), Sound(k, c, D)
    PROVE  LET i == InitExpected(k, n)
           IN  /\ TrackerType(i) /\ i.init /\ Started(i)
               /\ Sound(i, Start(k, c, n), D)
               /\ Bounded(k) => Bounded(i)
<1>1. CASE k.init
  BY <1>1 DEF InitExpected, Start
<1>2. CASE ~k.init
  <2>1. InitExpected(k, n) = [init |-> TRUE, expected |-> n, ahead |-> {}]
    BY <1>2 DEF InitExpected, TrackerType, Started
  <2> QED
    BY <1>2, <2>1 DEF TrackerType, Started, Sound, Bounded, Start, Seqs
<1> QED
  BY <1>1, <1>2

(* record(n) claims n on top of what was claimed, and nothing else. *)
LEMMA RecordSound ==
    ASSUME NEW k, NEW c \in Nat, NEW D, NEW n \in Seqs,
           TrackerType(k), Started(k), Sound(k, c, D),
           NEW j \in Record(k, n)
    PROVE  /\ TrackerType(j) /\ j.init /\ Started(j)
           /\ Sound(j, Start(k, c, n), D \cup {n})
           /\ Bounded(k) => Bounded(j)
<1> DEFINE i == InitExpected(k, n)
           s == Start(k, c, n)
           runs == {e \in n + 1..MaxSeq + 1 :
                       e \notin i.ahead /\ n + 1..e - 1 \subseteq i.ahead}
<1>1. /\ TrackerType(i) /\ i.init /\ Started(i) /\ Sound(i, s, D)
      /\ Bounded(k) => Bounded(i)
  BY InitExpectedSound
<1>2. /\ i.expected \in Nat \ {0} /\ i.ahead \subseteq Seqs /\ n \in Nat \ {0}
      /\ s \in Nat /\ s <= i.expected /\ s..i.expected - 1 \subseteq D
      /\ i.ahead \subseteq D /\ \A a \in i.ahead : i.expected < a
  BY <1>1 DEF TrackerType, Started, Sound, Start, Seqs
<1>3. CASE n < i.expected
  <2>1. j = i
    BY <1>3 DEF Record
  <2> QED
    BY <1>1, <1>2, <2>1 DEF Sound
<1>4. CASE n = i.expected
  <2>0. ~(n < i.expected)
    BY <1>2, <1>4
  <2>1. PICK e \in runs : j = [i EXCEPT !.expected = e, !.ahead = @ \ (n + 1..e - 1)]
    BY <1>4, <2>0 DEF Record
  <2>2. /\ e \in Nat /\ n < e /\ e \notin i.ahead /\ n + 1..e - 1 \subseteq i.ahead
    BY <1>2
  <2>3. /\ j.init = i.init /\ j.expected = e /\ j.ahead = i.ahead \ (n + 1..e - 1)
        /\ TrackerType(j)
    BY <1>1, <2>1, <2>2 DEF TrackerType
  <2>4. \A x \in s..e - 1 : x \in s..i.expected - 1 \/ x = n \/ x \in n + 1..e - 1
    BY <1>2, <1>4, <2>2
  <2>5. s..e - 1 \subseteq D \cup {n}
    BY <1>2, <2>2, <2>4
  <2>6. \A a \in j.ahead : e < a
    <3> TAKE a \in j.ahead
    <3>1. a \in i.ahead /\ a \in Nat /\ n < a /\ a \notin n + 1..e - 1 /\ a # e
      BY <1>2, <1>4, <2>2, <2>3 DEF Seqs
    <3> QED
      BY <1>2, <2>2, <3>1
  <2>7. Sound(j, s, D \cup {n})
    BY <1>2, <1>4, <2>2, <2>3, <2>5, <2>6 DEF Sound
  <2>8. Bounded(i) => Bounded(j)
    BY <1>2, <1>4, <2>2, <2>3 DEF Bounded, Seqs
  <2> QED
    BY <1>1, <1>2, <2>2, <2>3, <2>7, <2>8 DEF Started
<1>5. CASE n > i.expected
  <2>0. ~(n < i.expected) /\ n # i.expected
    BY <1>2, <1>5
  <2>1. CASE n - i.expected <= MaxReorderAhead
    <3>1. j = [i EXCEPT !.ahead = @ \cup {n}]
      BY <2>0, <2>1 DEF Record
    <3>2. /\ j.init = i.init /\ j.expected = i.expected /\ j.ahead = i.ahead \cup {n}
          /\ TrackerType(j)
      BY <1>1, <3>1 DEF TrackerType
    <3> QED
      BY <1>1, <1>2, <1>5, <2>1, <3>2 DEF Sound, Started, Bounded, Seqs
  <2>2. CASE ~(n - i.expected <= MaxReorderAhead)
    <3>1. j = i
      BY <2>0, <2>2 DEF Record
    <3> QED
      BY <1>1, <1>2, <3>1 DEF Sound
  <2> QED
    BY <2>1, <2>2
<1> QED
  BY <1>2, <1>3, <1>4, <1>5

(* missing() only requests samples of the window below the last number. *)
LEMMA AckNackType ==
    ASSUME NEW k, TrackerType(k), k.expected > 0, NEW r \in Readers, NEW last \in Seqs
    PROVE  AckNack(r, k, last) \subseteq Message
<1>1. Missing(k, last) \subseteq Seqs
  BY DEF Missing, Seqs, TrackerType
<1>2. [kind |-> "acknack", from |-> r, base |-> k.expected,
       missing |-> Missing(k, last)] \in Message
  BY <1>1 DEF Message, TrackerType
<1> QED
  BY <1>2 DEF AckNack

-----------------------------------------------------------------------------
(* The inductive invariant.                                                *)

ReaderInv(r) ==
    /\ TrackerType(tracker[r]) /\ Started(tracker[r]) /\ Bounded(tracker[r])
    /\ Sound(tracker[r], contact[r], delivered[r])

IInv == TypeOK /\ \A r \in Readers : ReaderInv(r)

(* The invariants that the runs check, in the terms of the lemmas. *)
LEMMA IInvImplies == IInv => WatermarkSound /\ ReorderBounded /\ TrackerInv
<1> SUFFICES ASSUME IInv
             PROVE  WatermarkSound /\ ReorderBounded /\ TrackerInv
  OBVIOUS
<1>1. \A r \in Readers : ReaderInv(r)
  BY DEF IInv
<1> QED
  BY <1>1 DEF WatermarkSound, ReorderBounded, TrackerInv, ReaderInv, Sound,
              Started, Bounded

(* Nothing is tracked, sent or dispatched at first. *)
LEMMA InitInv == Init => IInv
<1> SUFFICES ASSUME Init PROVE IInv
  OBVIOUS
<1>1. \A r \in Readers : tracker[r] = NewTracker /\ contact[r] = 0 /\ delivered[r] = {}
  BY DEF Init
<1>2. /\ NewTracker.init = FALSE /\ NewTracker.expected = 0 /\ NewTracker.ahead = {}
      /\ TrackerType(NewTracker)
  BY DEF NewTracker, TrackerType
<1>3. TypeOK
  <2>1. tracker \in [Readers -> [init : BOOLEAN, expected : Nat, ahead : SUBSET Seqs]]
    BY <1>2 DEF Init, TrackerType
  <2>2. /\ write \in [Threads -> [pc : {"idle", "store", "send", "announce"}, n : 0..MaxSeq]]
        /\ \A t \in Threads : write[t].pc = "idle"
    BY DEF Init
  <2>3. history \in Seq(Seqs) /\ Len(history) <= HistoryDepth /\ seq \in 0..MaxSeq
    BY DEF Init
  <2>4. /\ matched \subseteq Readers /\ accepting \subseteq Readers
        /\ net \subseteq Message /\ closed \in BOOLEAN
    BY DEF Init
  <2>5. delivered \in [Readers -> SUBSET Seqs] /\ contact \in [Readers -> Nat]
    BY DEF Init
  <2> QED
    BY <2>1, <2>2, <2>3, <2>4, <2>5 DEF TypeOK
<1>4. \A r \in Readers : ReaderInv(r)
  BY <1>1, <1>2 DEF ReaderInv, Started, Bounded, Sound
<1> QED
  BY <1>3, <1>4 DEF IInv

(* What the writer sends are messages. *)
LEMMA DataType ==
    ASSUME TypeOK, NEW n \in Seqs
    PROVE  Data(n) \subseteq Message
BY DEF TypeOK, Data, Message

LEMMA HeartbeatsType ==
    ASSUME TypeOK
    PROVE  Heartbeats \subseteq Message
<1>1. CASE history = <<>>
  BY <1>1 DEF Heartbeats
<1>2. CASE history # <<>>
  <2>1. history[1] \in Seqs /\ Last(history) \in Seqs
    BY <1>2 DEF TypeOK, Last
  <2> QED
    BY <1>2, <2>1 DEF Heartbeats, Span, TypeOK, Message
<1> QED
  BY <1>1, <1>2

(* A step that leaves the readers alone leaves their invariant alone. *)
LEMMA ReadersUnchanged ==
    ASSUME IInv, UNCHANGED readerVars
    PROVE  \A r \in Readers : ReaderInv(r)'
BY DEF IInv, ReaderInv, readerVars, TrackerType, Started, Bounded, Sound

(* Storing keeps at most HistoryDepth samples. *)
LEMMA StoreType ==
    ASSUME TypeOK, NEW t \in Threads, Store(t)
    PROVE  history' \in Seq(Seqs) /\ Len(history') <= HistoryDepth
<1> DEFINE longer == Append(history, write[t].n)
<1>1. write[t].n \in Seqs
  BY DEF TypeOK, Store, Step
<1>2. longer \in Seq(Seqs) /\ Len(longer) = Len(history) + 1 /\ Len(history) \in Nat
  BY <1>1 DEF TypeOK
<1>3. CASE Len(longer) > HistoryDepth
  <2>1. history' = Tail(longer)
    BY <1>3 DEF Store
  <2>2. longer # <<>>
    BY <1>2
  <2>3. Tail(longer) \in Seq(Seqs) /\ Len(Tail(longer)) = Len(longer) - 1
    BY <1>2, <2>2
  <2> QED
    BY <1>2, <2>1, <2>3 DEF TypeOK
<1>4. CASE ~(Len(longer) > HistoryDepth)
  <2>1. history' = longer
    BY <1>4 DEF Store
  <2> QED
    BY <1>2, <1>4, <2>1
<1> QED
  BY <1>3, <1>4

(* The writer's steps and the environment's preserve the types. *)
LEMMA WriterType ==
    ASSUME TypeOK,
           \/ \E t \in Threads : TakeNumber(t) \/ Store(t) \/ SendData(t) \/ Announce(t)
           \/ HeartbeatTick \/ CloseWriter
           \/ \E r \in Readers : MatchReader(r) \/ AcceptWriter(r)
           \/ \E m \in net : ReceiveAckNack(m) \/ Lose(m)
    PROVE  TypeOK' /\ UNCHANGED readerVars
<1>1. ASSUME NEW t \in Threads, TakeNumber(t) PROVE TypeOK' /\ UNCHANGED readerVars
  BY <1>1 DEF TakeNumber, TypeOK, readerVars, Seqs
<1>2. ASSUME NEW t \in Threads, Store(t) PROVE TypeOK' /\ UNCHANGED readerVars
  BY <1>2, StoreType DEF Store, Step, TypeOK, readerVars
<1>3. ASSUME NEW t \in Threads, SendData(t) PROVE TypeOK' /\ UNCHANGED readerVars
  <2>1. Data(write[t].n) \subseteq Message
    BY <1>3, DataType DEF SendData, Step, TypeOK
  <2> QED
    BY <1>3, <2>1 DEF SendData, Step, TypeOK, readerVars
<1>4. ASSUME NEW t \in Threads, Announce(t) PROVE TypeOK' /\ UNCHANGED readerVars
  BY <1>4, HeartbeatsType DEF Announce, Step, TypeOK, readerVars
<1>5. CASE HeartbeatTick
  BY <1>5, HeartbeatsType DEF HeartbeatTick, TypeOK, readerVars, writerVars
<1>6. CASE CloseWriter
  BY <1>6 DEF CloseWriter, TypeOK, readerVars
<1>7. ASSUME NEW r \in Readers, MatchReader(r) \/ AcceptWriter(r)
      PROVE  TypeOK' /\ UNCHANGED readerVars
  BY <1>7 DEF MatchReader, AcceptWriter, TypeOK, readerVars, writerVars
<1>8. ASSUME NEW m \in net, ReceiveAckNack(m) PROVE TypeOK' /\ UNCHANGED readerVars
  <2>1. \A n \in m.missing \cap ToSet(history) : n \in Seqs
    BY <1>8 DEF ReceiveAckNack, TypeOK, ToSet
  <2>2. UNION {Data(n) : n \in m.missing \cap ToSet(history)} \subseteq Message
    BY <2>1, DataType
  <2> QED
    BY <1>8, <2>2 DEF ReceiveAckNack, TypeOK, readerVars, writerVars
<1>9. ASSUME NEW m \in net, Lose(m) PROVE TypeOK' /\ UNCHANGED readerVars
  BY <1>9 DEF Lose, TypeOK, readerVars, writerVars
<1> QED
  BY <1>1, <1>2, <1>3, <1>4, <1>5, <1>6, <1>7, <1>8, <1>9

(* Receiving DATA: the tracker's claims grow with what is dispatched. *)
LEMMA ReceiveDataInv ==
    ASSUME IInv, NEW m \in net, ReceiveData(m)
    PROVE  IInv'
<1>1. m.kind = "data" /\ m \in Message
  BY DEF ReceiveData, IInv, TypeOK
<1>2. m.to \in Readers /\ m.n \in Seqs
  BY <1>1 DEF Message
<1> DEFINE r == m.to
<1>3. ReaderInv(r)
  BY <1>2 DEF IInv
<1>4. PICK rest \in {net, net \ {m}} :
        IF m.to \in accepting
        THEN /\ \E k \in Record(tracker[m.to], m.n) :
                  /\ tracker' = [tracker EXCEPT ![m.to] = k]
                  /\ net' = rest \cup AckNack(m.to, k, m.n)
             /\ Contact(m.to, m.n)
             /\ delivered' = [delivered EXCEPT ![m.to] = @ \cup {m.n}]
        ELSE net' = rest /\ UNCHANGED readerVars
  BY DEF ReceiveData
<1>5. UNCHANGED <<writerVars, matched, accepting>>
  BY DEF ReceiveData
<1>6. CASE r \in accepting
  <2>1. PICK k \in Record(tracker[r], m.n) :
            /\ tracker' = [tracker EXCEPT ![r] = k]
            /\ net' = rest \cup AckNack(r, k, m.n)
    BY <1>4, <1>6
  <2>2. Contact(r, m.n) /\ delivered' = [delivered EXCEPT ![r] = @ \cup {m.n}]
    BY <1>4, <1>6
  <2>3. contact[r] \in Nat /\ contact' \in [Readers -> Nat]
    BY <1>2, <2>2 DEF Contact, IInv, TypeOK, Seqs
  <2>4. /\ TrackerType(k) /\ k.init /\ Started(k) /\ Bounded(k)
        /\ Sound(k, Start(tracker[r], contact[r], m.n), delivered[r] \cup {m.n})
    BY <1>2, <1>3, <2>3, RecordSound DEF ReaderInv
  <2>5. /\ tracker'[r] = k /\ delivered'[r] = delivered[r] \cup {m.n}
        /\ contact'[r] = Start(tracker[r], contact[r], m.n)
    BY <1>2, <2>1, <2>2 DEF Contact, Start, IInv, TypeOK
  <2>6. \A q \in Readers \ {r} : /\ tracker'[q] = tracker[q] /\ contact'[q] = contact[q]
                                 /\ delivered'[q] = delivered[q]
    BY <1>2, <2>1, <2>2 DEF Contact, IInv, TypeOK
  <2>7. \A q \in Readers : ReaderInv(q)'
    <3>1. ReaderInv(r)'
      BY <2>4, <2>5 DEF ReaderInv
    <3>2. ASSUME NEW q \in Readers \ {r} PROVE ReaderInv(q)'
      BY <2>6 DEF ReaderInv, IInv
    <3> QED
      BY <3>1, <3>2
  <2>8. AckNack(r, k, m.n) \subseteq Message
    BY <1>2, <2>4, AckNackType DEF Started
  <2>9. TypeOK'
    BY <1>2, <1>5, <2>1, <2>2, <2>3, <2>4, <2>8
       DEF IInv, TypeOK, TrackerType, writerVars
  <2> QED
    BY <2>7, <2>9 DEF IInv
<1>7. CASE r \notin accepting
  <2>1. net' = rest /\ UNCHANGED readerVars
    BY <1>4, <1>7
  <2>2. TypeOK'
    BY <1>5, <2>1 DEF IInv, TypeOK, writerVars, readerVars
  <2> QED
    BY <2>1, <2>2, ReadersUnchanged DEF IInv
<1> QED
  BY <1>6, <1>7

(* Receiving a HEARTBEAT: at most the first contact is made. *)
LEMMA ReceiveHeartbeatInv ==
    ASSUME IInv, NEW m \in net, ReceiveHeartbeat(m)
    PROVE  IInv'
<1>1. m.kind = "heartbeat" /\ m \in Message
  BY DEF ReceiveHeartbeat, IInv, TypeOK
<1>2. m.to \in Readers /\ m.first \in Seqs /\ m.last \in Seqs
  BY <1>1 DEF Message
<1> DEFINE r == m.to
           k == InitExpected(tracker[r], m.first)
<1>3. ReaderInv(r)
  BY <1>2 DEF IInv
<1>4. UNCHANGED <<writerVars, matched, accepting, delivered>>
  BY DEF ReceiveHeartbeat
<1>5. CASE r \in accepting
  <2>1. /\ tracker' = [tracker EXCEPT ![r] = k]
        /\ net' = (net \ {m}) \cup AckNack(r, k, m.last)
        /\ Contact(r, m.first)
    BY <1>5 DEF ReceiveHeartbeat
  <2>2. contact[r] \in Nat /\ contact' \in [Readers -> Nat]
    BY <1>2, <2>1 DEF Contact, IInv, TypeOK, Seqs
  <2>3. /\ TrackerType(k) /\ k.init /\ Started(k) /\ Bounded(k)
        /\ Sound(k, Start(tracker[r], contact[r], m.first), delivered[r])
    BY <1>2, <1>3, <2>2, InitExpectedSound DEF ReaderInv
  <2>4. tracker'[r] = k /\ contact'[r] = Start(tracker[r], contact[r], m.first)
    BY <1>2, <2>1 DEF Contact, Start, IInv, TypeOK
  <2>5. \A q \in Readers \ {r} : tracker'[q] = tracker[q] /\ contact'[q] = contact[q]
    BY <1>2, <2>1 DEF Contact, IInv, TypeOK
  <2>6. \A q \in Readers : ReaderInv(q)'
    <3>1. ReaderInv(r)'
      BY <1>4, <2>3, <2>4 DEF ReaderInv
    <3>2. ASSUME NEW q \in Readers \ {r} PROVE ReaderInv(q)'
      BY <1>4, <2>5 DEF ReaderInv, IInv
    <3> QED
      BY <3>1, <3>2
  <2>7. AckNack(r, k, m.last) \subseteq Message
    BY <1>2, <2>3, AckNackType DEF Started
  <2>8. TypeOK'
    BY <1>2, <1>4, <2>1, <2>2, <2>3, <2>7
       DEF IInv, TypeOK, TrackerType, writerVars
  <2> QED
    BY <2>6, <2>8 DEF IInv
<1>6. CASE r \notin accepting
  <2>1. net' = net \ {m} /\ UNCHANGED <<tracker, contact>>
    BY <1>6 DEF ReceiveHeartbeat
  <2>2. TypeOK' /\ UNCHANGED readerVars
    BY <1>4, <2>1 DEF IInv, TypeOK, writerVars, readerVars
  <2> QED
    BY <2>2, ReadersUnchanged DEF IInv
<1> QED
  BY <1>5, <1>6

(* Every step preserves the invariant. *)
LEMMA NextInv == IInv /\ [Next]_vars => IInv'
<1> SUFFICES ASSUME IInv, [Next]_vars PROVE IInv'
  OBVIOUS
<1>1. ASSUME NEW m \in net, ReceiveData(m) PROVE IInv'
  BY <1>1, ReceiveDataInv
<1>2. ASSUME NEW m \in net, ReceiveHeartbeat(m) PROVE IInv'
  BY <1>2, ReceiveHeartbeatInv
<1>3. ASSUME
           \/ \E t \in Threads : TakeNumber(t) \/ Store(t) \/ SendData(t) \/ Announce(t)
           \/ HeartbeatTick \/ CloseWriter
           \/ \E r \in Readers : MatchReader(r) \/ AcceptWriter(r)
           \/ \E m \in net : ReceiveAckNack(m) \/ Lose(m)
      PROVE IInv'
  BY <1>3, WriterType, ReadersUnchanged DEF IInv
<1>4. CASE UNCHANGED vars
  <2>1. TypeOK' /\ UNCHANGED readerVars
    BY <1>4 DEF IInv, TypeOK, vars, readerVars
  <2> QED
    BY <2>1, ReadersUnchanged DEF IInv
<1> QED
  BY <1>1, <1>2, <1>3, <1>4 DEF Next

-----------------------------------------------------------------------------
(* The theorems.                                                           *)

(* The inductive invariant holds throughout, under any loss, duplication   *)
(* and reordering.                                                         *)
LEMMA IInvHolds == Safety => []IInv
<1> QED
  BY InitInv, NextInv, PTL DEF Safety

(* Every variable of the protocol keeps its type; in particular the        *)
(* history never outgrows HistoryDepth (HistoryCache::store()).            *)
THEOREM TypeCorrect == Safety => []TypeOK
<1>1. IInv => TypeOK
  BY DEF IInv
<1> QED
  BY <1>1, IInvHolds, PTL

(* RecvTracker's watermark and ahead_ never claim a sample that was not    *)
(* dispatched to the reader, for any number of readers and any network.    *)
THEOREM AcknowledgedWasDelivered == Safety => []WatermarkSound
<1> QED
  BY IInvImplies, IInvHolds, PTL

(* ahead_ never holds a number more than kMaxReorderAhead past the         *)
(* watermark, which bounds a tracker's memory.                             *)
THEOREM AheadIsBounded == Safety => []ReorderBounded
<1> QED
  BY IInvImplies, IInvHolds, PTL

-----------------------------------------------------------------------------
(* One write() at a time.                                                  *)
(*                                                                         *)
(* write() takes its number and stores its sample in two steps, so two     *)
(* threads may store out of order and the span of the history is then not  *)
(* its lowest and highest number (run rtps_concurrent_writes).  What       *)
(* follows is about callers that serialise their writes.                   *)

Serial == \A t, u \in Threads : t = u

(* The history is in order, and older than a number that is yet to be      *)
(* stored.                                                                 *)
HistoryOrder ==
    /\ \A i, j \in DOMAIN history : i < j => history[i] < history[j]
    /\ \A i \in DOMAIN history : history[i] <= seq
    /\ \A t \in Threads : write[t].pc = "store" =>
          write[t].n = seq /\ \A i \in DOMAIN history : history[i] < seq

(* A HEARTBEAT starts no higher than what is retained, and no higher than  *)
(* what will be.                                                           *)
HeartbeatOrder ==
    \A m \in net : m.kind = "heartbeat" =>
        m.first <= seq /\ \A i \in DOMAIN history : m.first <= history[i]

SerialInv == HistoryOrder /\ HeartbeatOrder

LEMMA SerialInit == Init => SerialInv
BY DEF Init, SerialInv, HistoryOrder, HeartbeatOrder

(* What the writer announces starts with its oldest sample. *)
LEMMA HeartbeatsInOrder ==
    ASSUME TypeOK, HistoryOrder, NEW m \in Heartbeats
    PROVE  /\ m.kind = "heartbeat" /\ m.first <= seq
           /\ \A i \in DOMAIN history : m.first <= history[i]
<1>1. history # <<>> /\ history \in Seq(Seqs) /\ m.kind = "heartbeat" /\ m.first = history[1]
  BY DEF Heartbeats, Span, TypeOK
<1>2. DOMAIN history = 1..Len(history) /\ 1 \in DOMAIN history /\ Len(history) \in Nat
  BY <1>1
<1>3. \A i \in DOMAIN history : history[i] \in Nat
  BY <1>1, <1>2 DEF Seqs
<1>4. \A i \in DOMAIN history : i = 1 \/ 1 < i
  BY <1>2
<1> QED
  BY <1>1, <1>2, <1>3, <1>4 DEF HistoryOrder

LEMMA StoreInOrder ==
    ASSUME Serial, TypeOK, SerialInv, NEW t \in Threads, Store(t)
    PROVE  SerialInv'
<1>1. PICK n \in Seqs : n = write[t].n
  BY DEF TypeOK, Store, Step
<1>2. /\ n = seq /\ \A i \in DOMAIN history : history[i] < n
      /\ \A i, j \in DOMAIN history : i < j => history[i] < history[j]
  BY <1>1 DEF Store, Step, SerialInv, HistoryOrder
<1>3. /\ UNCHANGED <<seq, net>> /\ \A u \in Threads : write'[u].pc # "store"
      /\ history' \in {Append(history, n), Tail(Append(history, n))}
  BY <1>1 DEF Store, Step, Serial, TypeOK
<1>4. PICK longer \in Seq(Seqs) : longer = Append(history, n)
  <2>1. Append(history, n) \in Seq(Seqs)
    BY DEF TypeOK
  <2> QED
    BY <2>1
<1>5. /\ Len(history) \in Nat /\ DOMAIN history = 1..Len(history) /\ DOMAIN longer = 1..Len(history) + 1
      /\ \A i \in 1..Len(history) : longer[i] = history[i] /\ history[i] \in Nat
      /\ longer[Len(history) + 1] = n /\ n \in Nat
  BY <1>1, <1>4 DEF TypeOK, Seqs
<1>6. \A i \in DOMAIN longer : longer[i] <= n /\ longer[i] \in Nat
  BY <1>2, <1>5
<1>7. \A i, j \in DOMAIN longer : i < j => longer[i] < longer[j]
  BY <1>2, <1>5
<1>8. ASSUME NEW m \in net, m.kind = "heartbeat"
      PROVE  m.first <= seq /\ \A i \in DOMAIN longer : m.first <= longer[i]
  BY <1>2, <1>5, <1>8 DEF SerialInv, HeartbeatOrder
<1>9. CASE history' = longer
  BY <1>2, <1>3, <1>6, <1>7, <1>8, <1>9 DEF SerialInv, HistoryOrder, HeartbeatOrder
<1>10. CASE history' = Tail(longer)
  <2>1. /\ DOMAIN history' = 1..Len(history)
        /\ \A i \in 1..Len(history) : history'[i] = longer[i + 1]
    BY <1>4, <1>5, <1>10
  <2>2. \A i \in DOMAIN history' : i + 1 \in DOMAIN longer /\ history'[i] = longer[i + 1]
    BY <1>5, <2>1
  <2>3. \A i, j \in DOMAIN history' : i < j => i + 1 < j + 1
    BY <2>1
  <2> QED
    BY <1>2, <1>3, <1>6, <1>7, <1>8, <2>2, <2>3 DEF SerialInv, HistoryOrder, HeartbeatOrder
<1> QED
  BY <1>3, <1>4, <1>9, <1>10

(* A step that stores nothing and puts only such HEARTBEATs in flight. *)
LEMMA OthersInOrder ==
    ASSUME TypeOK, SerialInv, UNCHANGED <<seq, history>>,
           \A t \in Threads : write'[t].pc = "store" => write'[t] = write[t],
           \A m \in net' \ net : m.kind = "heartbeat" => m \in Heartbeats
    PROVE  SerialInv'
<1>1. HistoryOrder'
  BY DEF SerialInv, HistoryOrder
<1>2. \A m \in net' : m.kind = "heartbeat" => m \in net \/ m \in Heartbeats
  OBVIOUS
<1>3. HeartbeatOrder'
  BY <1>2, HeartbeatsInOrder DEF SerialInv, HeartbeatOrder
<1> QED
  BY <1>1, <1>3 DEF SerialInv

LEMMA SerialStep == Serial /\ TypeOK /\ SerialInv /\ [Next]_vars => SerialInv'
<1> SUFFICES ASSUME Serial, TypeOK, SerialInv, [Next]_vars PROVE SerialInv'
  OBVIOUS
<1>1. ASSUME NEW t \in Threads, TakeNumber(t) PROVE SerialInv'
  <2>1. /\ seq \in Nat /\ seq' = seq + 1 /\ UNCHANGED <<history, net>>
        /\ write'[t].n = seq' /\ \A u \in Threads : u = t
    BY <1>1 DEF TakeNumber, TypeOK, Serial
  <2>2. \A i \in DOMAIN history : history[i] \in Nat /\ history[i] < seq' /\ history[i] <= seq'
    BY <2>1 DEF SerialInv, HistoryOrder, TypeOK, Seqs
  <2>3. HistoryOrder'
    BY <2>1, <2>2 DEF SerialInv, HistoryOrder
  <2>4. ASSUME NEW m \in net, m.kind = "heartbeat" PROVE m.first <= seq'
    <3>1. m.first \in Nat /\ m.first <= seq
      BY <2>4 DEF TypeOK, Message, Seqs, SerialInv, HeartbeatOrder
    <3> QED
      BY <2>1, <3>1
  <2>5. HeartbeatOrder'
    BY <2>1, <2>4 DEF SerialInv, HeartbeatOrder
  <2> QED
    BY <2>3, <2>5 DEF SerialInv
<1>2. ASSUME NEW t \in Threads, Store(t) PROVE SerialInv'
  BY <1>2, StoreInOrder
<1>3. ASSUME NEW t \in Threads, SendData(t) PROVE SerialInv'
  <2>1. /\ UNCHANGED <<seq, history>> /\ \A m \in net' \ net : m.kind = "data"
        /\ \A u \in Threads : write'[u].pc = "store" => write'[u] = write[u]
    BY <1>3 DEF SendData, Step, Data, TypeOK
  <2> QED
    BY <2>1, OthersInOrder
<1>4. ASSUME NEW t \in Threads, Announce(t) PROVE SerialInv'
  <2>1. /\ UNCHANGED <<seq, history>> /\ \A m \in net' \ net : m \in Heartbeats
        /\ \A u \in Threads : write'[u].pc = "store" => write'[u] = write[u]
    BY <1>4 DEF Announce, Step, TypeOK
  <2> QED
    BY <2>1, OthersInOrder
<1>5. ASSUME HeartbeatTick \/ CloseWriter \/ (\E r \in Readers : MatchReader(r) \/ AcceptWriter(r))
             \/ (\E m \in net : Lose(m)) \/ UNCHANGED vars
      PROVE SerialInv'
  <2>1. UNCHANGED <<seq, history, write>> /\ \A m \in net' \ net : m \in Heartbeats
    BY <1>5 DEF HeartbeatTick, CloseWriter, MatchReader, AcceptWriter, Lose, vars, writerVars
  <2> QED
    BY <2>1, OthersInOrder
<1>6. ASSUME NEW m \in net, ReceiveAckNack(m) PROVE SerialInv'
  <2>1. UNCHANGED <<seq, history, write>> /\ \A x \in net' \ net : x.kind = "data"
    BY <1>6 DEF ReceiveAckNack, Data, writerVars
  <2> QED
    BY <2>1, OthersInOrder
<1>7. ASSUME NEW m \in net, ReceiveData(m) \/ ReceiveHeartbeat(m) PROVE SerialInv'
  <2>1. UNCHANGED <<seq, history, write>>
    BY <1>7 DEF ReceiveData, ReceiveHeartbeat, writerVars
  <2>2. \A k, r, last : \A x \in AckNack(r, k, last) : x.kind = "acknack"
    BY DEF AckNack
  <2>3. \A x \in net' \ net : x.kind = "acknack"
    BY <1>7, <2>2 DEF ReceiveData, ReceiveHeartbeat
  <2> QED
    BY <2>1, <2>3, OthersInOrder
<1> QED
  BY <1>1, <1>2, <1>3, <1>4, <1>5, <1>6, <1>7 DEF Next

LEMMA SerialInvImplies ==
    ASSUME TypeOK, SerialInv
    PROVE  HeartbeatHidesNothing /\ SpanCoversHistory
<1>1. HeartbeatHidesNothing
  BY DEF SerialInv, HeartbeatOrder, HeartbeatHidesNothing, ToSet
<1>2. ASSUME NEW i \in DOMAIN history
      PROVE  Span.first <= history[i] /\ history[i] <= Span.last
  <2>1. /\ history \in Seq(Seqs) /\ Len(history) \in Nat /\ DOMAIN history = 1..Len(history)
        /\ 1 \in DOMAIN history /\ Len(history) \in DOMAIN history
    BY <1>2 DEF TypeOK
  <2>2. Span.first = history[1] /\ Span.last = history[Len(history)]
    BY DEF Span, Last
  <2>3. \A j \in DOMAIN history : history[j] \in Nat
    BY <2>1 DEF Seqs
  <2>4. (i = 1 \/ 1 < i) /\ (i = Len(history) \/ i < Len(history))
    BY <2>1
  <2> QED
    BY <2>1, <2>2, <2>3, <2>4 DEF SerialInv, HistoryOrder
<1> QED
  BY <1>1, <1>2 DEF SpanCoversHistory

(* When write() is called by one thread at a time, span() is the lowest    *)
(* and the highest retained number, and no HEARTBEAT in flight, however    *)
(* late it arrives, starts above a sample that is retained: an evicted     *)
(* number is below all that follow it (HistoryCache::store, span).         *)
THEOREM SerialHeartbeatsHideNothing ==
    ASSUME Serial
    PROVE  Safety => [](HeartbeatHidesNothing /\ SpanCoversHistory)
<1>1. IInv => TypeOK
  BY DEF IInv
<1>2. IInv /\ SerialInv /\ [Next]_vars => SerialInv'
  BY <1>1, SerialStep
<1>3. TypeOK /\ SerialInv => HeartbeatHidesNothing /\ SpanCoversHistory
  BY SerialInvImplies
<1> QED
  BY <1>1, <1>2, <1>3, IInvHolds, SerialInit, PTL DEF Safety
=============================================================================
