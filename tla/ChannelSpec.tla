----------------------------- MODULE ChannelSpec -----------------------------
(***************************************************************************)
(* What relay::Channel<T> promises its callers: a closable FIFO of at most *)
(* Capacity values, where a blocking call stays pending until it can take  *)
(* effect and then takes effect in one step.  There is no mutex and no     *)
(* condition variable here; module Channel shows that the code's wait and  *)
(* notify protocol implements this specification, liveness included.       *)
(***************************************************************************)
EXTENDS Naturals, Sequences

CONSTANTS Senders,    \* threads that send on the channel
          Receivers,  \* threads that receive from it
          Values,     \* the values sent
          Capacity    \* the capacity given to the constructor

VARIABLES queue,    \* the values accepted and not yet received
          closed,   \* close() has been called
          pending,  \* the blocking call each thread is inside, or NoCall
          ret       \* what the last call of each thread returned

absVars == <<queue, closed, pending, ret>>

NoCall == [op |-> "none"]
Sends == [op : {"push"}, arg : Values]
Recvs == [op : {"recv", "recv_until"}]

SendResults == {"Ok", "Full", "Closed"}
RecvResults == Values \cup {"nullopt"}

TypeOK ==
    /\ queue \in Seq(Values) /\ Len(queue) <= Capacity
    /\ closed \in BOOLEAN
    /\ pending \in [Senders \cup Receivers -> Sends \cup Recvs \cup {NoCall}]
    /\ ret \in [Senders \cup Receivers ->
                    SendResults \cup RecvResults \cup {"none"}]

Init ==
    /\ queue = <<>>
    /\ closed = FALSE
    /\ pending = [t \in Senders \cup Receivers |-> NoCall]
    /\ ret = [t \in Senders \cup Receivers |-> "none"]

Idle(t) == pending[t] = NoCall

(* A blocking call begins. *)
Invoke(t, call) ==
    /\ Idle(t)
    /\ pending' = [pending EXCEPT ![t] = call]
    /\ ret' = [ret EXCEPT ![t] = "none"]
    /\ UNCHANGED <<queue, closed>>

(* A call ends with result r, from a pending or a non-blocking call. *)
Return(t, r) ==
    /\ pending' = [pending EXCEPT ![t] = NoCall]
    /\ ret' = [ret EXCEPT ![t] = r]

(* A pending push is accepted, or refused because the channel is closed.  *)
PushAccepted(s) ==
    /\ pending[s].op = "push" /\ ~closed /\ Len(queue) < Capacity
    /\ queue' = Append(queue, pending[s].arg)
    /\ Return(s, "Ok")
    /\ UNCHANGED closed

PushRefused(s) ==
    /\ pending[s].op = "push" /\ closed
    /\ Return(s, "Closed")
    /\ UNCHANGED <<queue, closed>>

(* A pending receive takes the oldest value, or learns that the channel is *)
(* closed and drained; recv_until may also give up on an empty channel.    *)
Take(r) ==
    /\ pending[r].op \in {"recv", "recv_until"} /\ queue # <<>>
    /\ queue' = Tail(queue)
    /\ Return(r, Head(queue))
    /\ UNCHANGED closed

Drained(r) ==
    /\ pending[r].op \in {"recv", "recv_until"} /\ closed /\ queue = <<>>
    /\ Return(r, "nullopt")
    /\ UNCHANGED <<queue, closed>>

GiveUp(r) ==
    /\ pending[r].op = "recv_until" /\ queue = <<>>
    /\ Return(r, "nullopt")
    /\ UNCHANGED <<queue, closed>>

(* The calls that never block. *)
TrySend(s, v) ==
    /\ Idle(s)
    /\ LET result == IF closed THEN "Closed"
                     ELSE IF Len(queue) < Capacity THEN "Ok" ELSE "Full"
       IN  /\ queue' = IF result = "Ok" THEN Append(queue, v) ELSE queue
           /\ Return(s, result)
    /\ UNCHANGED closed

SendDropOldest(s, v) ==
    /\ Idle(s)
    /\ \/ closed /\ Return(s, "Closed") /\ UNCHANGED queue
       \/ /\ ~closed
          /\ \/ Len(queue) < Capacity /\ queue' = Append(queue, v)
             \/ Len(queue) = Capacity /\ queue' = Append(Tail(queue), v)
          /\ Return(s, "Ok")
    /\ UNCHANGED closed

TryRecv(r) ==
    /\ Idle(r)
    /\ \/ /\ queue = <<>>
          /\ Return(r, "nullopt") /\ UNCHANGED queue
       \/ /\ queue # <<>>
          /\ queue' = Tail(queue)
          /\ Return(r, Head(queue))
    /\ UNCHANGED closed

Close ==
    /\ closed' = TRUE
    /\ UNCHANGED <<queue, pending, ret>>

PushReturns == \E s \in Senders : PushAccepted(s) \/ PushRefused(s)
RecvReturns == \E r \in Receivers : Take(r) \/ Drained(r)

Next ==
    \/ \E s \in Senders, call \in Sends : Invoke(s, call)
    \/ \E r \in Receivers, call \in Recvs : Invoke(r, call)
    \/ PushReturns
    \/ RecvReturns
    \/ \E r \in Receivers : GiveUp(r)
    \/ \E s \in Senders, v \in Values : TrySend(s, v) \/ SendDropOldest(s, v)
    \/ \E r \in Receivers : TryRecv(r)
    \/ Close

(* What the waiters may count on: while some pending push could return, a  *)
(* push returns, and likewise for receives (not every waiter: the channel  *)
(* is not fair among them, and a value may be snatched by a newcomer).     *)
(* Once the channel is closed every waiter returns.                        *)
Fairness ==
    /\ WF_absVars(PushReturns)
    /\ WF_absVars(RecvReturns)
    /\ \A s \in Senders : WF_absVars(PushRefused(s))
    /\ \A r \in Receivers : WF_absVars(Drained(r))

Safety == Init /\ [][Next]_absVars
Spec == Safety /\ Fairness
=============================================================================
