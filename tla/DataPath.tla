------------------------------- MODULE DataPath -------------------------------
(***************************************************************************)
(* The way of a large sample from the application's buffer to the          *)
(* application at the other end: a buffer is loaned from a BytePool,       *)
(* committed through LoaningWriter::write_loaned, cut into DATA_FRAG       *)
(* submessages, sent over a network that loses, repeats and reorders,      *)
(* reassembled by the FragmentAssembler and staged in a SampleBuffer ring. *)
(*                                                                         *)
(* A byte of a sample is <<number, position>>, so a payload that mixes two *)
(* samples or has a hole (Zero, what the assembler's buffer starts with)  *)
(* is told from the one that was committed.                                *)
(*                                                                         *)
(* Time enters only as the age of an incomplete reassembly, in ticks; a    *)
(* tick (a second against kStaleFragAge = 5 s) is longer than a datagram   *)
(* is in flight, so Tick waits until the network is empty.                 *)
(***************************************************************************)
EXTENDS Integers, Sequences, FiniteSets, FiniteSetsExt

CONSTANTS
  Threads,      \* application threads that publish through one LoaningWriter
  Buffers,      \* identities operator new can give out
  NoBuffer,     \* no buffer
  PoolSize,     \* BytePool::size_, the capacity a buffer is created with
  LoanSizes,    \* sizes the application asks for
  MovedSizes,   \* capacities a loaned vector may have after the application
                \* moved another vector into it
  Shapes,       \* set of [users, live, retrans]: the threads that publish and
                \* the fragment sizes of the writer, one of which Init picks:
                \*   live     Writer::fragment_size(), a TSN stream's MaxFragPayload
                \*   retrans  the default of build_data_messages, kMaxFragmentPayload
  StaleAge,     \* kStaleFragAge in ticks
  RingCap,      \* SampleBuffer::cap_
  MaxWrites, MaxFaults   \* bounds of the model: a fault is a datagram lost,
                         \* repeated, or requested again while under way

ASSUME SizesAssumption ==
  /\ PoolSize \in Nat \ {0} /\ RingCap \in Nat \ {0}
  /\ LoanSizes \subseteq Nat /\ MovedSizes \subseteq Nat
  /\ \A s \in Shapes : s.live \in Nat \ {0} /\ s.retrans \in Nat \ {0} /\ s.users \subseteq Threads

VARIABLES
  shape,     \* the member of Shapes this behaviour has
  free,      \* BytePool::free_, used as a stack
  heap,      \* buffers allocated and not deleted
  vec,       \* vec[b]: capacity and length of the vector b
  loan,      \* loan[t]: what thread t holds and how far its commit is
  closed,    \* Writer::closed_
  history,   \* HistoryCache: the size of the payload stored under each number
  net,       \* messages in flight
  partials,  \* FragmentAssembler::buffers_
  ring, head, tail, len,       \* SampleBuffer
  arrived,   \* sequence numbers dispatched to the reader
  intact,    \* history: numbers of whose latest transmission nothing was lost
  faults     \* how many faults the network has had

pool == <<shape, free, heap, vec, loan, closed>>
link == <<net, intact, faults>>
reader == <<partials, arrived>>
stage == <<ring, head, tail, len>>
vars == <<pool, history, link, reader, stage>>

Idle == [buf |-> NoBuffer, committed |-> FALSE]
Written == 1 .. Len(history)

Init ==
  /\ shape \in Shapes
  /\ free = <<>> /\ heap = {} /\ closed = FALSE
  /\ vec = [b \in Buffers |-> [cap |-> 0, size |-> 0]]
  /\ loan = [t \in Threads |-> Idle]
  /\ history = <<>>
  /\ net = {} /\ intact = {} /\ faults = 0
  /\ partials = <<>> /\ arrived = {}
  /\ ring = [i \in 0 .. RingCap - 1 |-> <<>>]
  /\ head = 0 /\ tail = 0 /\ len = 0

-----------------------------------------------------------------------------
(* Loans *)

(* BytePool::get: the last buffer put back, or a new one. *)
Get(b) ==
  IF free # <<>>
  THEN b = free[Len(free)] /\ free' = SubSeq(free, 1, Len(free) - 1) /\ heap' = heap
  ELSE b \in Buffers \ heap /\ free' = free /\ heap' = heap \cup {b}

Capacity(b) == IF free # <<>> THEN vec[b].cap ELSE PoolSize

(* LoaningWriter::loan_buffer, granted: the vector is resized to n. The    *)
(* application fills it before it does anything else that others can see,  *)
(* and may move another vector into it, which changes the capacity.        *)
Loan(t, n) ==
  /\ loan[t] = Idle /\ ~closed
  /\ \E b \in Buffers :
       /\ Get(b) /\ Capacity(b) >= n
       /\ \/ vec' = [vec EXCEPT ![b] = [cap |-> Capacity(b), size |-> n]]
          \/ \E k \in MovedSizes : vec' = [vec EXCEPT ![b] = [cap |-> k, size |-> k]]
       /\ loan' = [loan EXCEPT ![t].buf = b]
  /\ UNCHANGED <<shape, closed, history, link, reader, stage>>

(* The request exceeds the buffer got: it is put straight back. *)
LoanRefused(t, n) ==
  /\ loan[t] = Idle /\ ~closed
  /\ \E b \in Buffers :
       /\ (IF free # <<>> THEN b = free[Len(free)] ELSE b \in Buffers \ heap)
       /\ Capacity(b) < n
       /\ free' = IF free # <<>> THEN free ELSE Append(free, b)
       /\ heap' = heap \cup {b}
       /\ vec' = [vec EXCEPT ![b] = [cap |-> Capacity(b), size |-> 0]]
  /\ UNCHANGED <<shape, loan, closed, history, link, reader, stage>>

Put_KeepsUndersized(t) ==
  LET b == loan[t].buf IN
  /\ free' = Append(free, b) /\ heap' = heap
  /\ vec' = [vec EXCEPT ![b].size = 0]
  /\ loan' = [loan EXCEPT ![t] = Idle]

(* BytePool::put: an undersized vector is deleted, any other kept. *)
Put(t) ==
  LET b == loan[t].buf IN
  /\ free' = IF vec[b].cap < PoolSize THEN free ELSE Append(free, b)
  /\ heap' = IF vec[b].cap < PoolSize THEN heap \ {b} ELSE heap
  /\ vec' = [vec EXCEPT ![b].size = 0]
  /\ loan' = [loan EXCEPT ![t] = Idle]

(* return_loan without a write, or the end of write_loaned. *)
Return(t) ==
  /\ loan[t].buf # NoBuffer
  /\ Put(t)
  /\ UNCHANGED <<shape, closed, history, link, reader, stage>>

Close ==
  /\ ~closed /\ closed' = TRUE
  /\ UNCHANGED <<shape, free, heap, vec, loan, history, link, reader, stage>>

-----------------------------------------------------------------------------
(* Writing and fragmenting *)

Zero == <<0, 0>>
Bytes(s, n) == [i \in 1 .. n |-> <<s, i>>]
CeilDiv(a, b) == (a + b - 1) \div b

(* split_into_fragments_n: fragment k carries the bytes after (k-1)*size,  *)
(* the last one what is left.                                              *)
SplitIntoFragments(s, n, size) ==
  { [kind |-> "DATA_FRAG", seq |-> s, num |-> k, fragment_size |-> size, data_size |-> n,
     payload |-> SubSeq(Bytes(s, n), (k - 1) * size + 1, Min({k * size, n}))]
    : k \in 1 .. CeilDiv(n, size) }

(* build_data_messages: one DATA, or one message per fragment. *)
BuildDataMessages(s, n, size) ==
  IF n > size
  THEN SplitIntoFragments(s, n, size)
  ELSE {[kind |-> "DATA", seq |-> s, payload |-> Bytes(s, n)]}

Send(s, msgs) == net' = net \cup msgs /\ intact' = intact \cup {s}

(* Writer::write called by write_loaned. A closed writer stores and sends  *)
(* nothing; write_loaned returns the buffer in either case.                *)
WriteLoaned(t) ==
  LET n == vec[loan[t].buf].size
      s == Len(history) + 1 IN
  /\ loan[t].buf # NoBuffer /\ ~loan[t].committed
  /\ loan' = [loan EXCEPT ![t].committed = TRUE]
  /\ IF closed
     THEN UNCHANGED <<history, net, intact>>
     ELSE /\ Len(history) < MaxWrites
          /\ history' = Append(history, n)
          /\ Send(s, BuildDataMessages(s, n, shape.live))
  /\ UNCHANGED <<shape, free, heap, vec, closed, faults, reader, stage>>

Fault == faults < MaxFaults /\ faults' = faults + 1
InFlight(s) == {m \in net : m.seq = s}

Retransmit_NewestOnly(s) ==
  /\ s \in Written \ arrived /\ s = Len(history)
  /\ IF InFlight(s) = {} THEN faults' = faults ELSE Fault
  /\ Send(s, BuildDataMessages(s, history[s], shape.retrans))
  /\ UNCHANGED <<pool, history, reader, stage>>

(* Writer::handle_ack_nack for one requested number: the reader asks for   *)
(* what it has not got on every heartbeat. A heartbeat that overtakes the  *)
(* datagrams of the transmission before makes the request come early.      *)
Retransmit(s) ==
  /\ s \in Written \ arrived
  /\ IF InFlight(s) = {} THEN faults' = faults ELSE Fault
  /\ Send(s, BuildDataMessages(s, history[s], shape.retrans))
  /\ UNCHANGED <<pool, history, reader, stage>>

Lose(m) ==
  /\ Fault
  /\ net' = net \ {m} /\ intact' = intact \ {m.seq}
  /\ UNCHANGED <<pool, history, reader, stage>>

-----------------------------------------------------------------------------
(* Reassembling and staging *)

(* SampleBuffer::push of what dispatch() delivered; a full ring refuses. *)
Push(s, data) ==
  IF len = RingCap
  THEN UNCHANGED stage
  ELSE /\ ring' = [ring EXCEPT ![tail] = <<s, data>>]
       /\ tail' = (tail + 1) % RingCap /\ len' = len + 1
       /\ head' = head

Dispatch(s, data) == arrived' = arrived \cup {s} /\ Push(s, data)

(* The sweep every receive() makes first. *)
Fresh == [s \in {q \in DOMAIN partials : partials[q].age <= StaleAge} |-> partials[s]]

NewPartial(f) ==
  [data |-> [i \in 1 .. f.data_size |-> Zero], mask |-> {}, received |-> 0,
   total |-> CeilDiv(f.data_size, f.fragment_size),
   data_size |-> f.data_size, fragment_size |-> f.fragment_size, age |-> 0]

Copied_CountsAgain(b, f) ==
  LET offset == (f.num - 1) * f.fragment_size IN
  [b EXCEPT !.data = [i \in 1 .. b.data_size |->
                        IF i - offset \in 1 .. Len(f.payload) THEN f.payload[i - offset] ELSE @[i]],
            !.mask = @ \cup {f.num},
            !.received = @ + 1]

(* The bytes of fragment f copied to their place; an index counts once. *)
Copied(b, f) ==
  LET offset == (f.num - 1) * f.fragment_size IN
  [b EXCEPT !.data = [i \in 1 .. b.data_size |->
                        IF i - offset \in 1 .. Len(f.payload) THEN f.payload[i - offset] ELSE @[i]],
            !.mask = @ \cup {f.num},
            !.received = @ + (IF f.num \in b.mask THEN 0 ELSE 1)]

Disagrees(f) ==
  /\ f.seq \in DOMAIN Fresh
  /\ \/ f.data_size # Fresh[f.seq].data_size
     \/ f.fragment_size # Fresh[f.seq].fragment_size

(* FragmentAssembler::receive and the dispatch of a completed payload. *)
ReceiveFragment(f) ==
  IF Disagrees(f)
  THEN partials' = Fresh /\ UNCHANGED <<arrived, stage>>
  ELSE LET b == Copied(IF f.seq \in DOMAIN Fresh THEN Fresh[f.seq] ELSE NewPartial(f), f)
           rest == DOMAIN Fresh \ {f.seq} IN
       IF b.received >= b.total
       THEN /\ partials' = [s \in rest |-> Fresh[s]]
            /\ Dispatch(f.seq, b.data)
       ELSE /\ partials' = [s \in rest \cup {f.seq} |-> IF s = f.seq THEN b ELSE Fresh[s]]
            /\ UNCHANGED <<arrived, stage>>

(* Participant::handle_data_packet for one DATA or DATA_FRAG submessage;   *)
(* the network may keep a copy.                                            *)
Receive(m, again) ==
  /\ IF again
     THEN Fault /\ net' = net
     ELSE faults' = faults /\ net' = net \ {m}
  /\ IF m.kind = "DATA"
     THEN Dispatch(m.seq, m.payload) /\ UNCHANGED partials
     ELSE ReceiveFragment(m)
  /\ UNCHANGED <<pool, history, intact>>

Tick ==
  /\ net = {} /\ \E s \in DOMAIN partials : partials[s].age <= StaleAge
  /\ partials' = [s \in DOMAIN partials |->
                    [partials[s] EXCEPT !.age = Min({@ + 1, StaleAge + 1})]]
  /\ UNCHANGED <<pool, history, link, arrived, stage>>

(* SampleBuffer::pop by the processing loop. *)
Pop ==
  /\ len > 0
  /\ ring' = [ring EXCEPT ![head] = <<>>]
  /\ head' = (head + 1) % RingCap /\ len' = len - 1
  /\ tail' = tail
  /\ UNCHANGED <<pool, history, link, reader>>

Next ==
  \/ \E t \in shape.users : \/ \E n \in LoanSizes : Loan(t, n) \/ LoanRefused(t, n)
                        \/ WriteLoaned(t) \/ Return(t)
  \/ \E s \in Written : Retransmit(s)
  \/ \E m \in net : Lose(m) \/ \E again \in BOOLEAN : Receive(m, again)
  \/ Close \/ Tick \/ Pop

(* A datagram that is not lost is read in time; a heartbeat makes the      *)
(* reader ask for what it lacks, and the writer answers.                   *)
Fairness ==
  \A s \in 1 .. MaxWrites :
    /\ WF_vars(s \in Written /\ InFlight(s) = {} /\ Retransmit(s))
    /\ WF_vars(\E m \in InFlight(s) : Receive(m, FALSE))
Spec == Init /\ [][Next]_vars /\ Fairness

-----------------------------------------------------------------------------
(* Properties *)

(* What reaches the application is byte for byte what was committed under  *)
(* that number: no hole, no byte of another sample or of a recycled        *)
(* buffer, although a fragment may arrive twice and buffers are reused as  *)
(* soon as write_loaned returns, and whatever way the ring's head, tail    *)
(* and length have wrapped.                                                *)
ArrivesAsCommitted ==
  \A k \in 0 .. len - 1 :
    LET slot == ring[(head + k) % RingCap] IN
    slot # <<>> /\ slot[2] = Bytes(slot[1], history[slot[1]])

(* A pool buffer has one owner: it is on the free list once, or loaned to  *)
(* one thread, or deleted, whatever capacities the applications leave; and *)
(* what is on the free list can serve a loan of the pool's size.           *)
OneOwner ==
  /\ \A i, j \in 1 .. Len(free) : free[i] = free[j] => i = j
  /\ \A t \in Threads : loan[t].buf # NoBuffer =>
       /\ loan[t].buf \in heap /\ \A i \in 1 .. Len(free) : free[i] # loan[t].buf
       /\ \A u \in Threads : loan[u].buf = loan[t].buf => u = t
  /\ \A i \in 1 .. Len(free) : free[i] \in heap /\ vec[free[i]].cap >= PoolSize

(* A transmission of which nothing is lost or still under way delivers its *)
(* sample, whatever reassembly an earlier one left behind: a               *)
(* retransmission repairs a live write that lost fragments.                *)
TransmissionRepairs ==
  \A s \in intact : InFlight(s) = {} => s \in arrived

(* A committed sample arrives at last although fragments are lost,         *)
(* repeated and reordered, as long as the writer retransmits.              *)
CommittedArrives == \A s \in 1 .. MaxWrites : s \in Written ~> s \in arrived
=============================================================================
