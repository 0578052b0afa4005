-------------------------------- MODULE E2ELink --------------------------------
(***************************************************************************)
(* End-to-end protection: application threads write through an             *)
(* E2EPublisher, which puts a counter, a timestamp and a CRC before each   *)
(* payload, and the pump thread of an E2ESubscriber checks them.           *)
(*                                                                         *)
(* Between the two is the plain DDS endpoint pair, one sequence of frames  *)
(* here, in which a frame may be lost, repeated, overtaken, damaged or get *)
(* too old.  A payload is the number of the write that made it; a CRC      *)
(* that does not match is the frame's state "damaged", since the           *)
(* polynomial is not the model's subject.                                  *)
(***************************************************************************)
EXTENDS Naturals, Sequences, SequencesExt

CONSTANTS
  Writers,      \* application threads that share the publisher
  Modulus,      \* 2^32, the range of the counter
  ChanCap,      \* capacity of ch_ (64)
  ErrCap,       \* capacity of err_ch_ (32)
  Earlier,      \* writes the publisher made before the subscriber existed
  MaxWrites, MaxFaults   \* bounds; Modulus > MaxWrites, as a whole period of
                         \* the counter cannot be missed or overtaken here

VARIABLES
  counter,     \* writes begun: counter_ is this number modulo Modulus
  writing,     \* writing[w]: the number a thread has taken and not sent, or 0
  pubClosed,   \* the wrapped publisher is closed
  raw,         \* frames sent and not yet taken by the pump
  rawClosed,   \* sub_ is closed
  hasFirst, lastCounter,   \* has_first_, last_counter_
  ch, chClosed,            \* ch_
  errors,      \* err_ch_: kinds of errors
  closer,      \* E2ESubscriber::close(): "open", "closing", "closed"
  pumping,     \* the pump thread runs
  got,         \* numbers of the samples the application has received
  faults,      \* bound
  alarmed,     \* history: an error was emitted, kept or not
  overflowed,  \* history: ch_ had no room for a sample
  disturbed    \* history: something happened that may raise an alarm

sender == <<counter, writing, pubClosed>>
checked == <<hasFirst, lastCounter, ch, errors, alarmed, overflowed>>
life == <<rawClosed, chClosed, closer, pumping>>
vars == <<sender, raw, checked, life, got, faults, disturbed>>

Init ==
  /\ counter = Earlier /\ writing = [w \in Writers |-> 0] /\ pubClosed = FALSE
  /\ raw = <<>> /\ rawClosed = FALSE
  /\ hasFirst = FALSE /\ lastCounter = 0
  /\ ch = <<>> /\ chClosed = FALSE /\ errors = <<>>
  /\ closer = "open" /\ pumping = TRUE
  /\ got = <<>> /\ faults = 0
  /\ alarmed = FALSE /\ overflowed = FALSE /\ disturbed = FALSE

-----------------------------------------------------------------------------
(* E2EPublisher *)

MakeFrame(n) == [number |-> n, counter |-> n % Modulus, state |-> "intact", old |-> FALSE]

(* write() takes its counter under mu_ ... *)
TakeCounter(w) ==
  /\ writing[w] = 0 /\ counter < Earlier + MaxWrites
  /\ counter' = counter + 1
  /\ writing' = [writing EXCEPT ![w] = counter']
  /\ disturbed' = (disturbed \/ \E v \in Writers : writing[v] # 0)
  /\ UNCHANGED <<pubClosed, raw, checked, life, got, faults>>

(* ... and sends the frame when it has released it.  The wrapped           *)
(* publisher's write() may fail, for a context that is done or because it  *)
(* is closed; the counter is used up then.                                 *)
WriteFrame(w) ==
  /\ writing[w] # 0
  /\ writing' = [writing EXCEPT ![w] = 0]
  /\ \/ ~pubClosed /\ raw' = (IF rawClosed THEN raw ELSE Append(raw, MakeFrame(writing[w])))
        /\ UNCHANGED disturbed
     \/ raw' = raw /\ disturbed' = TRUE
  /\ UNCHANGED <<counter, pubClosed, checked, life, got, faults>>

ClosePublisher ==
  /\ ~pubClosed /\ pubClosed' = TRUE
  /\ UNCHANGED <<counter, writing, raw, checked, life, got, faults, disturbed>>

-----------------------------------------------------------------------------
(* What happens to frames on the way *)

Fault ==
  /\ faults < MaxFaults /\ faults' = faults + 1 /\ disturbed' = TRUE
  /\ UNCHANGED <<sender, checked, life, got>>

Lose(i) == Fault /\ raw' = RemoveAt(raw, i)
Repeat(i) == Fault /\ raw' = Append(raw, raw[i])
Overtake(i) == Fault /\ i > 1 /\ raw' = [raw EXCEPT ![i] = raw[i - 1], ![i - 1] = raw[i]]
Damage(i) == Fault /\ \E s \in {"damaged", "short"} : raw' = [raw EXCEPT ![i].state = s]

(* max_age passes. *)
GrowOld ==
  /\ Fault /\ raw # <<>>
  /\ raw' = [i \in 1 .. Len(raw) |-> [raw[i] EXCEPT !.old = TRUE]]

-----------------------------------------------------------------------------
(* E2ESubscriber *)

EmitError(kind) ==
  /\ errors' = IF Len(errors) < ErrCap THEN Append(errors, kind) ELSE errors
  /\ alarmed' = TRUE

Rejected(f) ==
  CASE f.state = "short"   -> "HeaderTooShort"
    [] f.state = "damaged" -> "CRCMismatch"
    [] f.state = "intact"  -> IF f.old THEN "StaleSample" ELSE "none"

InSequence_NoWrap(f) == ~hasFirst \/ f.counter = lastCounter + 1

InSequence_Newer(f) == ~hasFirst \/ f.counter > lastCounter \/ f.counter = (lastCounter + 1) % Modulus

InSequence(f) == ~hasFirst \/ f.counter = (lastCounter + 1) % Modulus

Forward_Waits(f) ==
  Len(ch) < ChanCap /\ ch' = Append(ch, f.number) /\ UNCHANGED overflowed

(* ch_->try_send(), whose result nobody looks at. *)
Forward(f) ==
  IF Len(ch) < ChanCap
  THEN ch' = Append(ch, f.number) /\ UNCHANGED overflowed
  ELSE ch' = ch /\ overflowed' = TRUE

(* process(): a sample out of sequence is reported and still delivered. *)
Process(f) ==
  IF Rejected(f) # "none"
  THEN EmitError(Rejected(f)) /\ UNCHANGED <<hasFirst, lastCounter, ch, overflowed>>
  ELSE /\ IF InSequence(f) THEN UNCHANGED <<errors, alarmed>> ELSE EmitError("SequenceGap")
       /\ hasFirst' = TRUE /\ lastCounter' = f.counter
       /\ Forward(f)

(* pump(): the raw channel gives what it holds before it ends. *)
Pump ==
  /\ pumping /\ raw # <<>>
  /\ Process(Head(raw)) /\ raw' = Tail(raw)
  /\ UNCHANGED <<sender, life, got, faults, disturbed>>

PumpEnds ==
  /\ pumping /\ raw = <<>> /\ rawClosed
  /\ pumping' = FALSE /\ chClosed' = TRUE
  /\ UNCHANGED <<sender, raw, checked, rawClosed, closer, got, faults, disturbed>>

(* close(): the wrapped subscriber is closed, then the pump joined. *)
CloseRaw ==
  /\ closer = "open" /\ closer' = "closing" /\ rawClosed' = TRUE
  /\ UNCHANGED <<sender, raw, checked, chClosed, pumping, got, faults, disturbed>>

JoinPump ==
  /\ closer = "closing" /\ ~pumping /\ closer' = "closed"
  /\ UNCHANGED <<sender, raw, checked, rawClosed, chClosed, pumping, got, faults, disturbed>>

(* The application reads channel() or errors(). *)
Receive ==
  /\ ch # <<>> /\ ch' = Tail(ch) /\ got' = Append(got, Head(ch))
  /\ UNCHANGED <<sender, raw, hasFirst, lastCounter, errors, alarmed, overflowed, life, faults, disturbed>>

ReadError ==
  /\ errors # <<>> /\ errors' = Tail(errors)
  /\ UNCHANGED <<sender, raw, hasFirst, lastCounter, ch, alarmed, overflowed, life, got, faults, disturbed>>

Next ==
  \/ \E w \in Writers : TakeCounter(w) \/ WriteFrame(w)
  \/ \E i \in 1 .. Len(raw) : Lose(i) \/ Repeat(i) \/ Overtake(i) \/ Damage(i)
  \/ ClosePublisher \/ GrowOld
  \/ Pump \/ PumpEnds \/ CloseRaw \/ JoinPump \/ Receive \/ ReadError

(* The pump and the thread in close() run; nobody has to read or write. *)
Fairness == WF_vars(Pump \/ PumpEnds) /\ WF_vars(JoinPump)
Spec == Init /\ [][Next]_vars /\ Fairness

-----------------------------------------------------------------------------
(* As long as no error was reported the samples that arrived are those of  *)
(* consecutive writes, in order: whatever is lost, repeated, overtaken,    *)
(* damaged or late between two samples raises an alarm, also where the     *)
(* counter wraps and however many errors the application left unread.      *)
(* Excluded are samples for which channel() had no room, which are dropped *)
(* after the check without a word.                                         *)
SilenceMeansIntact ==
  LET all == got \o ch IN
  ~alarmed /\ ~overflowed => \A i \in 1 .. Len(all) - 1 : all[i + 1] = all[i] + 1

(* And an alarm has a cause: writes that overlap or fail, or a fault on    *)
(* the way.  One thread over a link without faults never raises one, in    *)
(* particular not where the counter wraps.                                 *)
AlarmsHaveCause == alarmed => disturbed

(* close() returns although the application has stopped reading, with      *)
(* channel() full and frames left to process.                              *)
CloseReturns == closer = "closing" ~> closer = "closed" /\ chClosed
=============================================================================
