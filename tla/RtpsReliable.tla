---------------------------- MODULE RtpsReliable ----------------------------
(***************************************************************************)
(* Reliable delivery between one RTPS writer and its remote readers, each  *)
(* in a participant of its own (src/rtps/participant.cpp, Writer and the   *)
(* receive path; include/dds/rtps/history_cache.hpp and reliable.hpp).     *)
(*                                                                         *)
(* The writer numbers its samples, keeps the last HistoryDepth of them and *)
(* advertises their span in HEARTBEATs, after each write and periodically. *)
(* A reader tracks what it has and answers with an ACKNACK that requests   *)
(* what is missing within one window; the writer sends again what it still *)
(* retains.  UDP loses, duplicates, delays and reorders.                   *)
(*                                                                         *)
(* A sample is its sequence number.  The GAP that handle_ack_nack() sends  *)
(* is left out: handle_data_packet() has no case for one.  A DATA_FRAG     *)
(* sample is here one message, as reassembly hands it over whole.          *)
(***************************************************************************)
EXTENDS Integers, Sequences, SequencesExt, FiniteSets

CONSTANTS
    Threads,          \* the threads that call write() on the writer
    Readers,          \* the matched reliable readers
    HistoryDepth,     \* ParticipantOptions::history_depth, 256 by default
    AckWindow,        \* bits in an ACKNACK bitmap: 32
    MaxReorderAhead,  \* kMaxReorderAhead: 8192
    MaxSeq            \* bound: samples written in all

ASSUME ReliableAssumption ==
    /\ HistoryDepth \in Nat \ {0} /\ AckWindow \in Nat \ {0}
    /\ MaxReorderAhead \in Nat /\ MaxSeq \in Nat

VARIABLES
    seq,        \* seq_: the last number taken
    history,    \* changes_: the retained numbers, oldest first
    write,      \* the write() in progress of each thread
    closed,     \* whether the writer has been closed
    matched,    \* the readers the writer's side of SEDP has matched
    accepting,  \* the readers whose side of SEDP has matched the writer
    tracker,    \* the RecvTracker of each reader for the writer
    net,        \* the messages in flight
    delivered,  \* history: what was dispatched to each reader
    contact     \* history: where each reader's watermark started

writerVars == <<seq, history, write, closed>>
readerVars == <<tracker, delivered, contact>>
vars == <<seq, history, write, closed, matched, accepting, tracker, net,
          delivered, contact>>

Seqs == 1..MaxSeq

Message == [kind : {"data"}, to : Readers, n : Seqs]
    \cup [kind : {"heartbeat"}, to : Readers, first : Seqs, last : Seqs]
    \cup [kind : {"acknack"}, from : Readers, base : Nat, missing : SUBSET Seqs]

NewTracker == [init |-> FALSE, expected |-> 0, ahead |-> {}]

TypeOK ==
    /\ seq \in 0..MaxSeq
    /\ history \in Seq(Seqs) /\ Len(history) <= HistoryDepth
    /\ write \in [Threads -> [pc : {"idle", "store", "send", "announce"}, n : 0..MaxSeq]]
    /\ \A t \in Threads : write[t].pc # "idle" => write[t].n \in Seqs
    /\ closed \in BOOLEAN
    /\ matched \subseteq Readers
    /\ accepting \subseteq Readers
    /\ tracker \in [Readers -> [init : BOOLEAN, expected : Nat, ahead : SUBSET Seqs]]
    /\ net \subseteq Message
    /\ delivered \in [Readers -> SUBSET Seqs]
    /\ contact \in [Readers -> Nat]

Init ==
    /\ seq = 0 /\ history = <<>>
    /\ write = [t \in Threads |-> [pc |-> "idle", n |-> 0]]
    /\ closed = FALSE
    /\ matched = {} /\ accepting = {}
    /\ tracker = [r \in Readers |-> NewTracker]
    /\ net = {}
    /\ delivered = [r \in Readers |-> {}]
    /\ contact = [r \in Readers |-> 0]

-----------------------------------------------------------------------------
(* The writer.                                                             *)

Data(n) == [kind : {"data"}, to : matched, n : {n}]

Span == [first |-> history[1], last |-> Last(history)]

(* send_heartbeat(): nothing while there is nothing to advertise. *)
Heartbeats ==
    IF history = <<>> THEN {}
    ELSE [kind : {"heartbeat"}, to : matched, first : {Span.first}, last : {Span.last}]

Step(t, from, to) ==
    /\ write[t].pc = from
    /\ write' = [write EXCEPT ![t].pc = to]

(* write(): the number is taken by an atomic increment, under no lock.     *)
TakeNumber(t) ==
    /\ write[t].pc = "idle" /\ ~closed
    /\ seq < MaxSeq
    /\ seq' = seq + 1
    /\ write' = [write EXCEPT ![t] = [pc |-> "store", n |-> seq']]
    /\ UNCHANGED <<history, closed, matched, accepting, readerVars, net>>

Store_RingSlot(t) ==
    /\ Step(t, "store", "send")
    /\ history' = IF Len(history) < HistoryDepth THEN Append(history, write[t].n)
                  ELSE [history EXCEPT ![((write[t].n - 1) % HistoryDepth) + 1] = write[t].n]
    /\ UNCHANGED <<seq, closed, matched, accepting, readerVars, net>>

(* HistoryCache::store() *)
Store(t) ==
    /\ Step(t, "store", "send")
    /\ LET longer == Append(history, write[t].n)
       IN  history' = IF Len(longer) > HistoryDepth THEN Tail(longer) ELSE longer
    /\ UNCHANGED <<seq, closed, matched, accepting, readerVars, net>>

(* One DATA to the locator of every matched reader. *)
SendData(t) ==
    /\ Step(t, "send", "announce")
    /\ net' = net \cup Data(write[t].n)
    /\ UNCHANGED <<seq, history, closed, matched, accepting, readerVars>>

(* The HEARTBEAT with which write() ends. *)
Announce(t) ==
    /\ Step(t, "announce", "idle")
    /\ net' = net \cup Heartbeats
    /\ UNCHANGED <<seq, history, closed, matched, accepting, readerVars>>

(* The periodic HEARTBEAT of heartbeat_loop(). *)
HeartbeatTick ==
    /\ ~closed
    /\ net' = net \cup Heartbeats
    /\ UNCHANGED <<writerVars, matched, accepting, readerVars>>

(* handle_ack_nack(): all that is requested and retained goes to every     *)
(* matched reader, not only to the one that asked.  A closed writer is no  *)
(* longer registered and gets no ACKNACK.                                  *)
ReceiveAckNack(m) ==
    /\ m \in net /\ m.kind = "acknack"
    /\ LET found == m.missing \cap ToSet(history)
           again == IF closed THEN {} ELSE UNION {Data(n) : n \in found}
       IN  net' = (net \ {m}) \cup again
    /\ UNCHANGED <<writerVars, matched, accepting, readerVars>>

CloseWriter ==
    /\ ~closed
    /\ closed' = TRUE
    /\ UNCHANGED <<seq, history, write, matched, accepting, readerVars, net>>

-----------------------------------------------------------------------------
(* The readers.                                                            *)

(* RecvTracker::init_expected(first) *)
InitExpected(k, first) ==
    IF k.init THEN k ELSE [k EXCEPT !.init = TRUE, !.expected = first]

Record_JumpsGap(k, n) ==
    LET i == InitExpected(k, n)
    IN  IF n < i.expected THEN {i}
        ELSE {[i EXCEPT !.expected = n + 1, !.ahead = {a \in @ : a > n + 1}]}

(* RecvTracker::record(n): the trackers it can leave behind, which is one. *)
Record(k, n) ==
    LET i == InitExpected(k, n)
        runs == {e \in n + 1..MaxSeq + 1 :
                    e \notin i.ahead /\ n + 1..e - 1 \subseteq i.ahead}
    IN  IF n < i.expected THEN {i}
        ELSE IF n = i.expected
        THEN {[i EXCEPT !.expected = e, !.ahead = @ \ (n + 1..e - 1)] : e \in runs}
        ELSE IF n - i.expected <= MaxReorderAhead
        THEN {[i EXCEPT !.ahead = @ \cup {n}]}
        ELSE {i}

Missing_ExcludesLast(k, last) ==
    {n \in k.expected..last : n < k.expected + AckWindow /\ n < last} \ k.ahead

(* RecvTracker::missing(last), restricted to the numbers of the window.    *)
Missing(k, last) ==
    {n \in k.expected..last : n < k.expected + AckWindow} \ k.ahead

AckNack(r, k, last) ==
    LET lost == Missing(k, last)
    IN  IF lost = {} THEN {}
        ELSE {[kind |-> "acknack", from |-> r, base |-> k.expected, missing |-> lost]}

Contact(r, k) ==
    contact' = IF tracker[r].init THEN contact
               ELSE [contact EXCEPT ![r] = k]

(* handle_data_packet() on DATA: notify_reliable_readers(), which may      *)
(* request what is missing below it, then dispatch(), whatever record()    *)
(* said.  The datagram may come again.                                     *)
ReceiveData(m) ==
    /\ m \in net /\ m.kind = "data"
    /\ \E rest \in {net, net \ {m}} :
        IF m.to \in accepting
        THEN /\ \E k \in Record(tracker[m.to], m.n) :
                  /\ tracker' = [tracker EXCEPT ![m.to] = k]
                  /\ net' = rest \cup AckNack(m.to, k, m.n)
             /\ Contact(m.to, m.n)
             /\ delivered' = [delivered EXCEPT ![m.to] = @ \cup {m.n}]
        ELSE net' = rest /\ UNCHANGED readerVars
    /\ UNCHANGED <<writerVars, matched, accepting>>

(* handle_heartbeat() *)
ReceiveHeartbeat(m) ==
    /\ m \in net /\ m.kind = "heartbeat"
    /\ IF m.to \in accepting
       THEN LET k == InitExpected(tracker[m.to], m.first)
            IN  /\ tracker' = [tracker EXCEPT ![m.to] = k]
                /\ net' = (net \ {m}) \cup AckNack(m.to, k, m.last)
                /\ Contact(m.to, m.first)
       ELSE net' = net \ {m} /\ UNCHANGED <<tracker, contact>>
    /\ UNCHANGED <<writerVars, matched, accepting, delivered>>

-----------------------------------------------------------------------------
(* The environment: SEDP matches the two sides one at a time; UDP loses.   *)

MatchReader(r) ==
    /\ r \notin matched
    /\ matched' = matched \cup {r}
    /\ UNCHANGED <<writerVars, accepting, readerVars, net>>

AcceptWriter(r) ==
    /\ r \notin accepting
    /\ accepting' = accepting \cup {r}
    /\ UNCHANGED <<writerVars, matched, readerVars, net>>

Lose(m) ==
    /\ m \in net
    /\ net' = net \ {m}
    /\ UNCHANGED <<writerVars, matched, accepting, readerVars>>

Next ==
    \/ \E t \in Threads : TakeNumber(t) \/ Store(t) \/ SendData(t) \/ Announce(t)
    \/ HeartbeatTick \/ CloseWriter
    \/ \E m \in net : ReceiveAckNack(m) \/ ReceiveData(m) \/ ReceiveHeartbeat(m)
                      \/ Lose(m)
    \/ \E r \in Readers : MatchReader(r) \/ AcceptWriter(r)

(* A write() runs to its end, the heartbeat thread keeps ticking, and UDP  *)
(* is fair-lossy: what is sent again and again arrives in the end.  Nobody *)
(* has to write, to be matched or to close.                                *)
Fairness ==
    /\ \A t \in Threads : WF_vars(Store(t) \/ SendData(t) \/ Announce(t))
    /\ WF_vars(HeartbeatTick)
    /\ \A r \in Readers :
        /\ SF_vars(\E m \in net : ReceiveHeartbeat(m) /\ m.to = r)
        /\ SF_vars(\E m \in net : ReceiveAckNack(m) /\ m.from = r)
        /\ \A n \in Seqs :
              SF_vars(\E m \in net : ReceiveData(m) /\ m.to = r /\ m.n = n)

Safety == Init /\ [][Next]_vars
Spec == Safety /\ Fairness

-----------------------------------------------------------------------------
(* Properties.                                                             *)

Contacted(r) == tracker[r].init

(* The cumulative acknowledgement never runs ahead of delivery: whatever   *)
(* UDP lost, doubled or reordered, each sample from the first contact up   *)
(* to the watermark, and each one buffered above it, was dispatched, and   *)
(* what lies at the watermark is not taken for buffered.                   *)
WatermarkSound ==
    \A r \in Readers :
        LET k == tracker[r]
        IN  /\ k.init => contact[r] <= k.expected
                         /\ contact[r]..k.expected - 1 \subseteq delivered[r]
            /\ k.ahead \subseteq delivered[r]
            /\ \A n \in k.ahead : k.expected < n

(* The memory of a tracker is bounded, however far ahead of the watermark  *)
(* the writer runs while a gap stays open.                                 *)
ReorderBounded ==
    \A r \in Readers : \A n \in tracker[r].ahead :
        n <= tracker[r].expected + MaxReorderAhead

(* span() is what its comment says, the lowest and the highest retained    *)
(* number: so a HEARTBEAT hides no retained sample from a reader.          *)
SpanCoversHistory ==
    \A i \in DOMAIN history : Span.first <= history[i] /\ history[i] <= Span.last

(* No HEARTBEAT in flight starts above a sample that is retained: a reader *)
(* whose watermark it anchors can still ask for all that there is.         *)
HeartbeatHidesNothing ==
    \A m \in net : m.kind = "heartbeat" => \A n \in ToSet(history) : m.first <= n

(* Something the reader still lacks has left the history for good.         *)
Starved(r) ==
    history # <<>> /\ \E n \in contact[r]..Span.first - 1 : n \notin delivered[r]

(* Over a fair-lossy network each retained sample from the first contact   *)
(* on gets delivered, as long as nothing that the reader lacks has been    *)
(* evicted and the writer stays open; gaps wider than a window included.   *)
RetainedArrives ==
    \A r \in Readers, n \in Seqs :
        Contacted(r) /\ contact[r] <= n /\ n \in ToSet(history)
            ~> n \in delivered[r] \/ Starved(r) \/ closed

(* Makes WatermarkSound and TypeOK inductive: a tracker holds nothing      *)
(* before its first contact, and its watermark then is a sample's number.  *)
TrackerInv ==
    \A r \in Readers : IF tracker[r].init THEN tracker[r].expected > 0
                                         ELSE tracker[r].ahead = {}

-----------------------------------------------------------------------------
(* What the comments say and the code does not do.                         *)

(* reliable.hpp and handle_heartbeat(): a missing number is requested      *)
(* again on every HEARTBEAT until it arrives, so what stays retained       *)
(* arrives, also when something older was evicted meanwhile.               *)
MissingIsRequestedUntilItArrives ==
    \A r \in Readers, n \in Seqs :
        Contacted(r) /\ contact[r] <= n /\ n \in ToSet(history)
            ~> n \in delivered[r] \/ n \notin ToSet(history) \/ closed
=============================================================================
