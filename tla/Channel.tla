------------------------------- MODULE Channel -------------------------------
(***************************************************************************)
(* relay::Channel<T> (include/dds/channel.hpp): a bounded FIFO guarded by  *)
(* one mutex, with one condition variable for blocked receivers and one    *)
(* for blocked senders.                                                    *)
(*                                                                         *)
(* Every method holds the mutex from its first to its last statement,      *)
(* except while it waits on a condition variable, so an action is a whole  *)
(* method or the part of a blocking method between two waits.  A thread    *)
(* inside a blocking method is                                             *)
(*   "ready"    about to lock the mutex and evaluate the wait predicate:   *)
(*              it has just called, or was notified, woken spuriously or   *)
(*              timed out; or                                              *)
(*   "waiting"  on the condition variable.                                 *)
(* notify_one makes one waiting thread ready; it hands nothing over, and   *)
(* another thread may lock the mutex first.                                *)
(*                                                                         *)
(* A definition Op_Fault is Op with a mistake in it.  No action uses one:  *)
(* put in the place of Op, it must break the property it is meant for.     *)
(***************************************************************************)
EXTENDS Naturals, Sequences, FiniteSets

CONSTANTS Senders, Receivers, Values, Capacity

(* Channels are built by effective_depth(), which never yields 0. *)
ASSUME ChannelAssumption ==
    /\ Capacity \in Nat \ {0}
    /\ IsFiniteSet(Senders)
    /\ IsFiniteSet(Receivers)
    /\ Senders \cap Receivers = {}

Threads == Senders \cup Receivers

NoCall == [op |-> "none"]
Sends == [op : {"push"}, arg : Values]
Timed == [op : {"recv_until"}]
Recvs == [op : {"recv"}] \cup Timed

SendResults == {"Ok", "Full", "Closed"}
RecvResults == Values \cup {"nullopt"}

VARIABLES buf,      \* buf_
          closed,   \* closed_
          call,     \* the blocking call each thread is inside, or NoCall
          pc,       \* "idle", "ready" or "waiting"
          expired,  \* the threads whose recv_until deadline has passed
          ret       \* what the last call of each thread returned

vars == <<buf, closed, call, pc, expired, ret>>

(* Types, and that a thread has a call in progress exactly when it is not   *)
(* idle, senders in push only, receivers in a receive only, and that a     *)
(* passed deadline belongs to a recv_until still in progress.              *)
TypeOK ==
    /\ buf \in Seq(Values)
    /\ closed \in BOOLEAN
    /\ call \in [Threads -> Sends \cup Recvs \cup {NoCall}]
    /\ \A s \in Senders : call[s] \in Sends \cup {NoCall}
    /\ \A r \in Receivers : call[r] \in Recvs \cup {NoCall}
    /\ pc \in [Threads -> {"idle", "ready", "waiting"}]
    /\ \A t \in Threads : pc[t] = "idle" <=> call[t] = NoCall
    /\ expired \in SUBSET {r \in Receivers : call[r] \in Timed}
    /\ ret \in [Threads -> SendResults \cup RecvResults \cup {"none"}]

Init ==
    /\ buf = <<>>
    /\ closed = FALSE
    /\ call = [t \in Threads |-> NoCall]
    /\ pc = [t \in Threads |-> "idle"]
    /\ expired = {}
    /\ ret = [t \in Threads |-> "none"]

-----------------------------------------------------------------------------
In(state, S) == {t \in S : pc[t] = state}

(* pc after thread t moved to state st and notify_one() on the condition   *)
(* variable that the threads of S wait on: any one of them becomes ready,  *)
(* nobody if none waits.                                                   *)
NotifyOne(t, st, S) ==
    IF In("waiting", S) = {}
    THEN pc' = [pc EXCEPT ![t] = st]
    ELSE \E w \in In("waiting", S) :
            pc' = [pc EXCEPT ![t] = st, ![w] = "ready"]

Return(t, r) ==
    /\ call' = [call EXCEPT ![t] = NoCall]
    /\ expired' = expired \ {t}
    /\ ret' = [ret EXCEPT ![t] = r]

Invoke(t, c) ==
    /\ pc[t] = "idle"
    /\ pc' = [pc EXCEPT ![t] = "ready"]
    /\ call' = [call EXCEPT ![t] = c]
    /\ ret' = [ret EXCEPT ![t] = "none"]
    /\ UNCHANGED <<buf, closed, expired>>

(* A thread goes (back) to sleep: the mutex is released as it does. *)
Wait(t) ==
    /\ pc' = [pc EXCEPT ![t] = "waiting"]
    /\ UNCHANGED <<buf, closed, call, expired, ret>>

(* push(): the wait predicate is closed_ || buf_.size() < capacity_. *)
PushWait(s) ==
    /\ pc[s] = "ready" /\ ~closed /\ Len(buf) >= Capacity
    /\ Wait(s)

PushClosed(s) ==
    /\ pc[s] = "ready" /\ closed
    /\ pc' = [pc EXCEPT ![s] = "idle"]
    /\ Return(s, "Closed")
    /\ UNCHANGED <<buf, closed>>

Push_NoNotify(s) ==
    /\ pc[s] = "ready" /\ ~closed /\ Len(buf) < Capacity
    /\ buf' = Append(buf, call[s].arg)
    /\ pc' = [pc EXCEPT ![s] = "idle"]
    /\ Return(s, "Ok")
    /\ UNCHANGED closed

Push(s) ==
    /\ pc[s] = "ready" /\ ~closed /\ Len(buf) < Capacity
    /\ buf' = Append(buf, call[s].arg)
    /\ NotifyOne(s, "idle", Receivers)
    /\ Return(s, "Ok")
    /\ UNCHANGED closed

TrySend(s, v) ==
    /\ pc[s] = "idle"
    /\ \/ /\ closed
          /\ Return(s, "Closed") /\ UNCHANGED <<buf, pc>>
       \/ /\ ~closed /\ Len(buf) >= Capacity
          /\ Return(s, "Full") /\ UNCHANGED <<buf, pc>>
       \/ /\ ~closed /\ Len(buf) < Capacity
          /\ buf' = Append(buf, v)
          /\ NotifyOne(s, "idle", Receivers)
          /\ Return(s, "Ok")
    /\ UNCHANGED closed

SendDropOldest_DropsNewest(s, v) ==
    /\ pc[s] = "idle"
    /\ \/ /\ closed
          /\ Return(s, "Closed") /\ UNCHANGED <<buf, pc>>
       \/ /\ ~closed
          /\ buf' = IF Len(buf) >= Capacity
                    THEN [buf EXCEPT ![Len(buf)] = v] ELSE Append(buf, v)
          /\ NotifyOne(s, "idle", Receivers)
          /\ Return(s, "Ok")
    /\ UNCHANGED closed

SendDropOldest(s, v) ==
    /\ pc[s] = "idle"
    /\ \/ /\ closed
          /\ Return(s, "Closed") /\ UNCHANGED <<buf, pc>>
       \/ /\ ~closed
          /\ buf' = Append(IF Len(buf) >= Capacity THEN Tail(buf) ELSE buf, v)
          /\ NotifyOne(s, "idle", Receivers)
          /\ Return(s, "Ok")
    /\ UNCHANGED closed

(* recv() and recv_until(): the predicate is !buf_.empty() || closed_.     *)
(* wait_until() evaluates it once more when the deadline has passed.       *)
RecvWait(r) ==
    /\ pc[r] = "ready" /\ buf = <<>> /\ ~closed /\ r \notin expired
    /\ Wait(r)

RecvNullopt(r) ==
    /\ pc[r] = "ready" /\ buf = <<>> /\ (closed \/ r \in expired)
    /\ pc' = [pc EXCEPT ![r] = "idle"]
    /\ Return(r, "nullopt")
    /\ UNCHANGED <<buf, closed>>

Recv(r) ==
    /\ pc[r] = "ready" /\ buf # <<>>
    /\ buf' = Tail(buf)
    /\ NotifyOne(r, "idle", Senders)
    /\ Return(r, Head(buf))
    /\ UNCHANGED closed

TryRecv(r) ==
    /\ pc[r] = "idle"
    /\ \/ /\ buf = <<>>
          /\ Return(r, "nullopt") /\ UNCHANGED <<buf, pc>>
       \/ /\ buf # <<>>
          /\ buf' = Tail(buf)
          /\ NotifyOne(r, "idle", Senders)
          /\ Return(r, Head(buf))
    /\ UNCHANGED closed

(* The deadline of a recv_until passes; a waiting thread wakes up. *)
Expire(r) ==
    /\ call[r] \in Timed /\ r \notin expired
    /\ expired' = expired \cup {r}
    /\ pc' = [pc EXCEPT ![r] = "ready"]
    /\ UNCHANGED <<buf, closed, call, ret>>

SpuriousWakeup(t) ==
    /\ pc[t] = "waiting"
    /\ pc' = [pc EXCEPT ![t] = "ready"]
    /\ UNCHANGED <<buf, closed, call, expired, ret>>

(* close(): notify_all on both condition variables. *)
Close_ReceiversOnly ==
    /\ closed' = TRUE
    /\ pc' = [t \in Threads |-> IF t \in In("waiting", Receivers)
                               THEN "ready" ELSE pc[t]]
    /\ UNCHANGED <<buf, call, expired, ret>>

Close ==
    /\ closed' = TRUE
    /\ pc' = [t \in Threads |-> IF pc[t] = "waiting" THEN "ready" ELSE pc[t]]
    /\ UNCHANGED <<buf, call, expired, ret>>

-----------------------------------------------------------------------------
SenderStep(s) == PushWait(s) \/ PushClosed(s) \/ Push(s)
ReceiverStep(r) == RecvWait(r) \/ RecvNullopt(r) \/ Recv(r)

Next ==
    \/ \E s \in Senders :
        \/ SenderStep(s)
        \/ \E c \in Sends : Invoke(s, c)
        \/ \E v \in Values : TrySend(s, v) \/ SendDropOldest(s, v)
    \/ \E r \in Receivers :
        \/ ReceiverStep(r)
        \/ \E c \in Recvs : Invoke(r, c)
        \/ TryRecv(r)
        \/ Expire(r)
    \/ \E t \in Threads : SpuriousWakeup(t)
    \/ Close

(* A ready thread gets the mutex in the end and a deadline passes in the   *)
(* end.  Nobody is obliged to call anything, and no spurious wakeup is     *)
(* ever relied on.                                                         *)
Fairness ==
    /\ \A s \in Senders : WF_vars(SenderStep(s))
    /\ \A r \in Receivers : WF_vars(ReceiverStep(r)) /\ WF_vars(Expire(r))

Safety == Init /\ [][Next]_vars
Spec == Safety /\ Fairness

-----------------------------------------------------------------------------
(* The buffer never holds more than the capacity, whichever mix of push,   *)
(* try_send and send_drop_oldest fills it.                                 *)
BoundedBuffer == Len(buf) <= Capacity

(* No wakeup is lost.  notify_one is called once per value while several   *)
(* receivers sleep, any woken thread may be overtaken, time out or find    *)
(* the buffer empty again; still, whenever a receiver is left waiting      *)
(* there is a ready receiver for every buffered value, and whenever a      *)
(* sender is left waiting there is a ready sender for every free slot.     *)
NoLostWakeup ==
    /\ In("waiting", Receivers) # {} =>
            Len(buf) <= Cardinality(In("ready", Receivers))
    /\ In("waiting", Senders) # {} =>
            Capacity <= Len(buf) + Cardinality(In("ready", Senders))

(* Nobody sleeps on a closed channel: close() woke every waiter and no     *)
(* later step goes back to sleep.                                          *)
NoWaiterAfterClose == closed => In("waiting", Threads) = {}

(* close() releases every blocked thread: each call in progress returns.   *)
CloseReleases ==
    \A t \in Threads : closed /\ pc[t] # "idle" ~> pc[t] = "idle"

(* The channel implements ChannelSpec: which values go in, which come out, *)
(* in which order and with which results, and that whenever a blocked call *)
(* could complete, one of them does.                                       *)
Abstract == INSTANCE ChannelSpec WITH queue <- buf, pending <- call
ImplementsChannelSpec == Abstract!Spec
=============================================================================
