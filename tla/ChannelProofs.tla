---------------------------- MODULE ChannelProofs ----------------------------
(***************************************************************************)
(* Proofs about Channel: its types, the bound on the buffer, that no       *)
(* wakeup is lost, and that every step implements a step of ChannelSpec.   *)
(***************************************************************************)
EXTENDS Channel, FiniteSetTheorems, TLAPS

States == {"idle", "ready", "waiting"}
PcType == pc \in [Threads -> States]

-----------------------------------------------------------------------------
(* Counting the threads of a group S that are in a given state.            *)

(* Counts are natural numbers. *)
LEMMA InFinite ==
    ASSUME NEW st, NEW S, IsFiniteSet(S)
    PROVE  /\ IsFiniteSet(In(st, S))
           /\ Cardinality(In(st, S)) \in Nat
<1>1. In(st, S) \subseteq S
  BY DEF In
<1> QED
  BY <1>1, FS_Subset, FS_CardinalityType

(* The thread that notifies ends its call, at most one waiter of S becomes *)
(* ready, and nobody else is affected.                                     *)
LEMMA NotifyOneEffect ==
    ASSUME NEW S \in SUBSET Threads, NEW t \in Threads \ S,
           PcType, NotifyOne(t, "idle", S)
    PROVE  /\ PcType'
           /\ pc'[t] = "idle"
           /\ \A u \in Threads \ (S \cup {t}) : pc'[u] = pc[u]
           /\ \/ /\ In("waiting", S) = {}
                 /\ \A u \in S : pc'[u] = pc[u]
              \/ \E w \in In("waiting", S) :
                    /\ pc'[w] = "ready"
                    /\ \A u \in S \ {w} : pc'[u] = pc[u]
<1>1. CASE In("waiting", S) = {}
  BY <1>1 DEF NotifyOne, PcType, States
<1>2. CASE In("waiting", S) # {}
  <2>1. PICK w \in In("waiting", S) :
            pc' = [pc EXCEPT ![t] = "idle", ![w] = "ready"]
    BY <1>2 DEF NotifyOne
  <2>2. w \in S /\ w \in Threads /\ w # t
    BY DEF In
  <2> QED
    BY <2>1, <2>2 DEF PcType, States
<1> QED
  BY <1>1, <1>2

(* notify_one ends no call but the notifier's. *)
LEMMA NotifyOneIdle ==
    ASSUME NEW S \in SUBSET Threads, NEW t \in Threads \ S,
           PcType, NotifyOne(t, "idle", S)
    PROVE  /\ PcType'
           /\ \A u \in Threads : pc'[u] = "idle" <=> pc[u] = "idle" \/ u = t
<1>1. CASE In("waiting", S) = {}
  BY <1>1, NotifyOneEffect
<1>2. CASE In("waiting", S) # {}
  <2>1. PICK w \in In("waiting", S) :
            pc'[w] = "ready" /\ \A u \in S \ {w} : pc'[u] = pc[u]
    BY <1>2, NotifyOneEffect
  <2>2. w \in S /\ pc[w] = "waiting"
    BY DEF In
  <2> QED
    BY <2>1, <2>2, NotifyOneEffect
<1> QED
  BY <1>1, <1>2

(* If somebody still waits after notify_one, somebody was made ready. *)
LEMMA NotifiedCounts ==
    ASSUME NEW S \in SUBSET Threads, IsFiniteSet(S), NEW t \in Threads \ S,
           PcType, NotifyOne(t, "idle", S), In("waiting", S)' # {}
    PROVE  /\ In("waiting", S) # {}
           /\ Cardinality(In("ready", S)') = Cardinality(In("ready", S)) + 1
<1>1. PICK w \in In("waiting", S) :
          pc'[w] = "ready" /\ \A u \in S \ {w} : pc'[u] = pc[u]
  BY NotifyOneEffect DEF In
<1>2. In("ready", S)' = In("ready", S) \cup {w}
  BY <1>1 DEF In
<1>3. w \notin In("ready", S)
  BY DEF In
<1> QED
  BY <1>2, <1>3, InFinite, FS_AddElement

(* A thread of S that returns leaves the others of S as they were. *)
LEMMA ReturnCounts ==
    ASSUME NEW S \in SUBSET Threads, IsFiniteSet(S), NEW t \in S,
           pc'[t] = "idle", \A u \in S \ {t} : pc'[u] = pc[u]
    PROVE  /\ In("waiting", S)' \subseteq In("waiting", S)
           /\ pc[t] = "ready" =>
                Cardinality(In("ready", S)') = Cardinality(In("ready", S)) - 1
           /\ pc[t] = "idle" => In("ready", S)' = In("ready", S)
<1>1. In("waiting", S)' \subseteq In("waiting", S)
  BY DEF In
<1>2. ASSUME pc[t] = "ready"
      PROVE  Cardinality(In("ready", S)') = Cardinality(In("ready", S)) - 1
  <2>1. In("ready", S)' = In("ready", S) \ {t} /\ t \in In("ready", S)
    BY <1>2 DEF In
  <2> QED
    BY <2>1, InFinite, FS_RemoveElement
<1>3. pc[t] = "idle" => In("ready", S)' = In("ready", S)
  BY DEF In
<1> QED
  BY <1>1, <1>2, <1>3

-----------------------------------------------------------------------------
(* Type correctness.                                                       *)

LEMMA InitType == Init => TypeOK
<1> SUFFICES ASSUME Init PROVE TypeOK
  OBVIOUS
<1>1. buf \in Seq(Values)
  BY DEF Init
<1>2. pc \in [Threads -> {"idle", "ready", "waiting"}]
      /\ call \in [Threads -> Sends \cup Recvs \cup {NoCall}]
      /\ ret \in [Threads -> SendResults \cup RecvResults \cup {"none"}]
  BY DEF Init
<1> QED
  BY <1>1, <1>2 DEF Init, TypeOK, Threads

LEMMA NextType == TypeOK /\ [Next]_vars => TypeOK'
<1> SUFFICES ASSUME TypeOK, [Next]_vars PROVE TypeOK'
  OBVIOUS
<1> USE DEF TypeOK, Threads
<1>0. PcType /\ Senders \in SUBSET Threads /\ Receivers \in SUBSET Threads
      /\ Senders \cap Receivers = {}
  BY ChannelAssumption DEF PcType, States
(* The calls in progress do not look like NoCall. *)
<1>N. NoCall \notin Sends /\ NoCall \notin Recvs /\ NoCall \notin Timed
  BY DEF NoCall, Sends, Recvs, Timed
<1>1. ASSUME NEW s \in Senders, SenderStep(s) PROVE TypeOK'
  <2>1. CASE PushWait(s)
    BY <2>1, <1>0, <1>N DEF PushWait, Wait
  <2>2. CASE PushClosed(s)
    BY <2>2, <1>0, <1>N DEF PushClosed, Return, SendResults
  <2>3. CASE Push(s)
    <3>1. call[s] \in Sends
      BY <2>3, <1>0 DEF Push
    <3>2. buf' \in Seq(Values)
      BY <2>3, <3>1 DEF Push, Sends
    <3>3. PcType' /\ \A t \in Threads : pc'[t] = "idle" <=> pc[t] = "idle" \/ t = s
      BY <2>3, <1>0, NotifyOneIdle DEF Push
    <3> QED
      BY <2>3, <3>2, <3>3, <1>0, <1>N DEF Push, Return, SendResults, PcType, States
  <2> QED
    BY <1>1, <2>1, <2>2, <2>3 DEF SenderStep
<1>2. ASSUME NEW s \in Senders, NEW c \in Sends, Invoke(s, c) PROVE TypeOK'
  BY <1>2, <1>0, <1>N DEF Invoke
<1>3. ASSUME NEW s \in Senders, NEW v \in Values,
             TrySend(s, v) \/ SendDropOldest(s, v)
      PROVE  TypeOK'
  <2>1. buf' \in Seq(Values)
    <3>1. buf' = buf \/ buf' = Append(buf, v)
          \/ (Len(buf) >= Capacity /\ buf' = Append(Tail(buf), v))
      BY <1>3 DEF TrySend, SendDropOldest
    <3>2. Len(buf) >= Capacity => buf # <<>>
      BY ChannelAssumption
    <3> QED
      BY <3>1, <3>2, SMTT(30)
  <2>2. PcType' /\ \A t \in Threads : pc'[t] = "idle" <=> pc[t] = "idle"
    <3>1. s \in Threads \ Receivers /\ pc[s] = "idle"
      BY <1>3, <1>0 DEF TrySend, SendDropOldest
    <3>2. UNCHANGED pc \/ NotifyOne(s, "idle", Receivers)
      BY <1>3 DEF TrySend, SendDropOldest
    <3>3. CASE UNCHANGED pc
      BY <3>1, <3>3, <1>0 DEF PcType
    <3>4. CASE ~UNCHANGED pc
      BY <3>1, <3>2, <3>4, <1>0, NotifyOneIdle
    <3> QED
      BY <3>3, <3>4
  <2> QED
    BY <1>3, <2>1, <2>2, <1>0, <1>N
    DEF TrySend, SendDropOldest, Return, SendResults, PcType, States
<1>4. ASSUME NEW r \in Receivers, ReceiverStep(r) PROVE TypeOK'
  <2>1. CASE RecvWait(r)
    BY <2>1, <1>0, <1>N DEF RecvWait, Wait
  <2>2. CASE RecvNullopt(r)
    BY <2>2, <1>0, <1>N DEF RecvNullopt, Return, RecvResults
  <2>3. CASE Recv(r)
    <3>1. buf' \in Seq(Values) /\ Head(buf) \in Values
      BY <2>3 DEF Recv
    <3>2. PcType' /\ \A t \in Threads : pc'[t] = "idle" <=> pc[t] = "idle" \/ t = r
      BY <2>3, <1>0, NotifyOneIdle DEF Recv
    <3> QED
      BY <2>3, <3>1, <3>2, <1>0, <1>N DEF Recv, Return, RecvResults, PcType, States
  <2> QED
    BY <1>4, <2>1, <2>2, <2>3 DEF ReceiverStep
<1>5. ASSUME NEW r \in Receivers, NEW c \in Recvs, Invoke(r, c) PROVE TypeOK'
  BY <1>5, <1>0, <1>N DEF Invoke
<1>6. ASSUME NEW r \in Receivers, TryRecv(r) PROVE TypeOK'
  <2>1. buf' \in Seq(Values) /\ (buf # <<>> => Head(buf) \in Values)
    BY <1>6 DEF TryRecv
  <2>2. PcType' /\ \A t \in Threads : pc'[t] = "idle" <=> pc[t] = "idle"
    <3>1. r \in Threads \ Senders /\ pc[r] = "idle"
      BY <1>6, <1>0 DEF TryRecv
    <3>2. UNCHANGED pc \/ NotifyOne(r, "idle", Senders)
      BY <1>6 DEF TryRecv
    <3>3. CASE UNCHANGED pc
      BY <3>1, <3>3, <1>0 DEF PcType
    <3>4. CASE ~UNCHANGED pc
      BY <3>1, <3>2, <3>4, <1>0, NotifyOneIdle
    <3> QED
      BY <3>3, <3>4
  <2> QED
    BY <1>6, <2>1, <2>2, <1>0, <1>N DEF TryRecv, Return, RecvResults, PcType, States
<1>7. ASSUME NEW r \in Receivers, Expire(r) PROVE TypeOK'
  BY <1>7, <1>0, <1>N DEF Expire, Timed, Recvs
<1>8. ASSUME NEW t \in Threads, SpuriousWakeup(t) PROVE TypeOK'
  BY <1>8 DEF SpuriousWakeup
<1>9. CASE Close
  BY <1>9 DEF Close
<1>10. CASE UNCHANGED vars
  BY <1>10 DEF vars
<1> QED
  BY <1>1, <1>2, <1>3, <1>4, <1>5, <1>6, <1>7, <1>8, <1>9, <1>10 DEF Next

(* The types of channel.hpp's state, and that a thread is inside a call    *)
(* exactly when it is not idle, for any number of threads, any values and  *)
(* any capacity.                                                           *)
THEOREM TypeCorrect == Safety => []TypeOK
BY InitType, NextType, PTL DEF Safety

-----------------------------------------------------------------------------
(* The inductive invariant.  The three facts are inductive only together:  *)
(* the counts use the bound, and close() turns waiters into ready threads. *)

Counted == TypeOK /\ BoundedBuffer /\ NoLostWakeup /\ NoWaiterAfterClose

LEMMA InitCounted == Init => Counted
<1> SUFFICES ASSUME Init PROVE Counted
  OBVIOUS
<1>1. In("waiting", Receivers) = {} /\ In("waiting", Senders) = {}
      /\ In("waiting", Threads) = {}
  BY DEF Init, In, Threads
<1>2. Len(buf) = 0
  BY DEF Init
<1> QED
  BY <1>1, <1>2, InitType, ChannelAssumption
  DEF Counted, BoundedBuffer, NoLostWakeup, NoWaiterAfterClose

(* A sender puts one value in, or replaces the oldest, and notifies a      *)
(* receiver: the common part of push, try_send and send_drop_oldest.       *)
LEMMA PutCounted ==
    ASSUME Counted, ~closed, UNCHANGED closed,
           NEW s \in Senders, pc[s] \in {"ready", "idle"},
           NotifyOne(s, "idle", Receivers),
           buf' \in Seq(Values),
           Len(buf') \in Nat,
           \/ Len(buf) < Capacity /\ Len(buf') = Len(buf) + 1
           \/ pc[s] = "idle" /\ Len(buf') = Len(buf)
    PROVE  BoundedBuffer' /\ NoLostWakeup' /\ NoWaiterAfterClose'
<1>0. /\ PcType /\ Len(buf) \in Nat /\ Capacity \in Nat
      /\ Senders \in SUBSET Threads /\ Receivers \in SUBSET Threads
      /\ s \in Threads \ Receivers
      /\ IsFiniteSet(Senders) /\ IsFiniteSet(Receivers)
  BY ChannelAssumption DEF Counted, TypeOK, PcType, States, Threads
<1>1. BoundedBuffer' /\ NoWaiterAfterClose'
  BY <1>0 DEF Counted, BoundedBuffer, NoWaiterAfterClose
<1>2. ASSUME In("waiting", Receivers)' # {}
      PROVE  Len(buf') <= Cardinality(In("ready", Receivers)')
  <2>1. /\ In("waiting", Receivers) # {}
        /\ Cardinality(In("ready", Receivers)') =
                Cardinality(In("ready", Receivers)) + 1
    BY <1>0, <1>2, NotifiedCounts
  <2>2. Cardinality(In("ready", Receivers)) \in Nat
    BY <1>0, InFinite
  <2> QED
    BY <1>0, <2>1, <2>2 DEF Counted, NoLostWakeup
<1>3. ASSUME In("waiting", Senders)' # {}
      PROVE  Capacity <= Len(buf') + Cardinality(In("ready", Senders)')
  <2>1. pc'[s] = "idle" /\ \A u \in Senders \ {s} : pc'[u] = pc[u]
    BY <1>0, NotifyOneEffect, ChannelAssumption DEF Threads
  <2>2. /\ In("waiting", Senders) # {}
        /\ pc[s] = "ready" => Cardinality(In("ready", Senders)') =
                                  Cardinality(In("ready", Senders)) - 1
        /\ pc[s] = "idle" => In("ready", Senders)' = In("ready", Senders)
    BY <1>0, <1>3, <2>1, ReturnCounts
  <2>3. Cardinality(In("ready", Senders)) \in Nat
    BY <1>0, InFinite
  <2> QED
    BY <1>0, <2>2, <2>3 DEF Counted, NoLostWakeup
<1> QED
  BY <1>1, <1>2, <1>3 DEF NoLostWakeup

(* A receiver takes one value and notifies a sender. *)
LEMMA TakeCounted ==
    ASSUME Counted, UNCHANGED closed,
           NEW r \in Receivers, pc[r] \in {"ready", "idle"},
           NotifyOne(r, "idle", Senders),
           Len(buf') \in Nat, Len(buf') = Len(buf) - 1
    PROVE  BoundedBuffer' /\ NoLostWakeup' /\ NoWaiterAfterClose'
<1>0. /\ PcType /\ Len(buf) \in Nat /\ Capacity \in Nat
      /\ Senders \in SUBSET Threads /\ Receivers \in SUBSET Threads
      /\ r \in Threads \ Senders
      /\ IsFiniteSet(Senders) /\ IsFiniteSet(Receivers)
  BY ChannelAssumption DEF Counted, TypeOK, PcType, States, Threads
<1>R. pc'[r] = "idle" /\ \A u \in Receivers \ {r} : pc'[u] = pc[u]
  BY <1>0, NotifyOneEffect, ChannelAssumption DEF Threads
<1>1. BoundedBuffer'
  BY <1>0 DEF Counted, BoundedBuffer
<1>2. NoWaiterAfterClose'
  <2> SUFFICES ASSUME closed, NEW t \in Threads PROVE pc'[t] # "waiting"
    BY DEF NoWaiterAfterClose, In
  <2>1. In("waiting", Senders) = {} /\ pc[t] # "waiting"
    BY DEF Counted, NoWaiterAfterClose, In, Threads
  <2>2. pc'[t] = pc[t] \/ t = r
    BY <1>0, <1>R, <2>1, NotifyOneEffect
  <2> QED
    BY <1>R, <2>1, <2>2
<1>3. ASSUME In("waiting", Senders)' # {}
      PROVE  Capacity <= Len(buf') + Cardinality(In("ready", Senders)')
  <2>1. /\ In("waiting", Senders) # {}
        /\ Cardinality(In("ready", Senders)') =
                Cardinality(In("ready", Senders)) + 1
    BY <1>0, <1>3, NotifiedCounts
  <2>2. Cardinality(In("ready", Senders)) \in Nat
    BY <1>0, InFinite
  <2> QED
    BY <1>0, <2>1, <2>2 DEF Counted, NoLostWakeup
<1>4. ASSUME In("waiting", Receivers)' # {}
      PROVE  Len(buf') <= Cardinality(In("ready", Receivers)')
  <2>1. /\ In("waiting", Receivers) # {}
        /\ pc[r] = "ready" => Cardinality(In("ready", Receivers)') =
                                  Cardinality(In("ready", Receivers)) - 1
        /\ pc[r] = "idle" => In("ready", Receivers)' = In("ready", Receivers)
    BY <1>0, <1>4, <1>R, ReturnCounts
  <2>2. Cardinality(In("ready", Receivers)) \in Nat
    BY <1>0, InFinite
  <2> QED
    BY <1>0, <2>1, <2>2 DEF Counted, NoLostWakeup
<1> QED
  BY <1>1, <1>2, <1>3, <1>4 DEF NoLostWakeup

(* Steps that only make threads ready: a call begins, a deadline passes,   *)
(* a spurious wakeup, close().                                             *)
LEMMA WakeCounted ==
    ASSUME Counted, UNCHANGED buf,
           \A t \in Threads : pc'[t] = pc[t] \/ pc'[t] = "ready"
    PROVE  BoundedBuffer' /\ NoLostWakeup'
<1>0. /\ Len(buf) \in Nat /\ Capacity \in Nat
      /\ IsFiniteSet(Senders) /\ IsFiniteSet(Receivers)
  BY ChannelAssumption DEF Counted, TypeOK
<1>1. ASSUME NEW S \in SUBSET Threads, IsFiniteSet(S)
      PROVE  /\ In("waiting", S)' \subseteq In("waiting", S)
             /\ Cardinality(In("ready", S)) \in Nat
             /\ Cardinality(In("ready", S)') \in Nat
             /\ Cardinality(In("ready", S)) <= Cardinality(In("ready", S)')
  <2>1. In("waiting", S)' \subseteq In("waiting", S)
    BY DEF In
  <2>2. In("ready", S) \subseteq In("ready", S)' /\ In("ready", S)' \subseteq S
    BY DEF In
  <2>3. IsFiniteSet(In("ready", S)')
    BY <1>1, <2>2, FS_Subset
  <2> QED
    BY <1>1, <2>1, <2>2, <2>3, InFinite, FS_Subset, FS_CardinalityType
<1>2. Senders \in SUBSET Threads /\ Receivers \in SUBSET Threads
  BY DEF Threads
<1>3. BoundedBuffer'
  BY DEF Counted, BoundedBuffer
<1>4. In("waiting", Receivers)' # {} =>
          Len(buf') <= Cardinality(In("ready", Receivers)')
  BY <1>0, <1>1, <1>2 DEF Counted, NoLostWakeup
<1>5. In("waiting", Senders)' # {} =>
          Capacity <= Len(buf') + Cardinality(In("ready", Senders)')
  BY <1>0, <1>1, <1>2 DEF Counted, NoLostWakeup
<1> QED
  BY <1>3, <1>4, <1>5 DEF NoLostWakeup

LEMMA NextCounted == Counted /\ [Next]_vars => Counted'
<1> SUFFICES ASSUME Counted, [Next]_vars
             PROVE  BoundedBuffer' /\ NoLostWakeup' /\ NoWaiterAfterClose'
  BY NextType DEF Counted
<1>0. /\ TypeOK /\ TypeOK' /\ PcType
      /\ buf \in Seq(Values) /\ Len(buf) \in Nat
      /\ buf' \in Seq(Values) /\ Len(buf') \in Nat
      /\ Capacity \in Nat \ {0}
      /\ Senders \cap Receivers = {}
      /\ Senders \in SUBSET Threads /\ Receivers \in SUBSET Threads
      /\ IsFiniteSet(Senders) /\ IsFiniteSet(Receivers)
  BY NextType, ChannelAssumption DEF Counted, TypeOK, PcType, States, Threads
(* What the wait predicates say of the counts. *)
<1>S. ASSUME NEW s \in Senders, PushWait(s)
      PROVE  BoundedBuffer' /\ NoLostWakeup' /\ NoWaiterAfterClose'
  <2>1. /\ In("waiting", Receivers)' = In("waiting", Receivers)
        /\ In("ready", Receivers)' = In("ready", Receivers)
    BY <1>0, <1>S DEF PushWait, Wait, In, PcType
  <2>2. Cardinality(In("ready", Senders)') \in Nat
    <3>1. In("ready", Senders)' \subseteq Senders
      BY DEF In
    <3> QED
      BY <1>0, <3>1, FS_Subset, FS_CardinalityType
  <2> QED
    BY <1>0, <1>S, <2>1, <2>2
    DEF Counted, BoundedBuffer, NoLostWakeup, NoWaiterAfterClose, PushWait, Wait
<1>R. ASSUME NEW r \in Receivers, RecvWait(r)
      PROVE  BoundedBuffer' /\ NoLostWakeup' /\ NoWaiterAfterClose'
  <2>1. /\ In("waiting", Senders)' = In("waiting", Senders)
        /\ In("ready", Senders)' = In("ready", Senders)
    BY <1>0, <1>R DEF RecvWait, Wait, In, PcType
  <2>2. Cardinality(In("ready", Receivers)') \in Nat
    <3>1. In("ready", Receivers)' \subseteq Receivers
      BY DEF In
    <3> QED
      BY <1>0, <3>1, FS_Subset, FS_CardinalityType
  <2>3. Len(buf') = 0
    BY <1>R DEF RecvWait, Wait
  <2> QED
    BY <1>0, <1>R, <2>1, <2>2, <2>3
    DEF Counted, BoundedBuffer, NoLostWakeup, NoWaiterAfterClose, RecvWait, Wait
<1>C. ASSUME NEW s \in Senders, PushClosed(s)
      PROVE  BoundedBuffer' /\ NoLostWakeup' /\ NoWaiterAfterClose'
  <2>1. \A t \in Threads : pc[t] # "waiting"
    BY <1>C DEF PushClosed, Counted, NoWaiterAfterClose, In
  <2>2. \A t \in Threads : pc'[t] # "waiting"
    BY <1>0, <1>C, <2>1 DEF PushClosed, PcType
  <2>3. /\ In("waiting", Senders)' = {} /\ In("waiting", Receivers)' = {}
        /\ In("waiting", Threads)' = {}
    BY <1>0, <2>2 DEF In
  <2> QED
    BY <1>C, <2>3
    DEF PushClosed, Counted, BoundedBuffer, NoLostWakeup, NoWaiterAfterClose
<1>N. ASSUME NEW r \in Receivers, RecvNullopt(r)
      PROVE  BoundedBuffer' /\ NoLostWakeup' /\ NoWaiterAfterClose'
  <2>1. /\ In("waiting", Senders)' = In("waiting", Senders)
        /\ In("ready", Senders)' = In("ready", Senders)
        /\ In("waiting", Threads)' \subseteq In("waiting", Threads)
    BY <1>0, <1>N DEF RecvNullopt, In, PcType
  <2>2. Cardinality(In("ready", Receivers)') \in Nat
    <3>1. In("ready", Receivers)' \subseteq Receivers
      BY DEF In
    <3> QED
      BY <1>0, <3>1, FS_Subset, FS_CardinalityType
  <2>3. Len(buf') = 0
    BY <1>N DEF RecvNullopt
  <2> QED
    BY <1>0, <1>N, <2>1, <2>2, <2>3
    DEF Counted, BoundedBuffer, NoLostWakeup, NoWaiterAfterClose, RecvNullopt
(* Steps in which nobody goes to sleep and the buffer stays as it is. *)
<1>W. ASSUME UNCHANGED <<buf, closed>>,
             \A t \in Threads : pc'[t] = pc[t] \/ pc'[t] = "ready"
      PROVE  BoundedBuffer' /\ NoLostWakeup' /\ NoWaiterAfterClose'
  BY <1>W, WakeCounted DEF Counted, NoWaiterAfterClose, In
<1>1. ASSUME NEW s \in Senders, Push(s)
      PROVE  BoundedBuffer' /\ NoLostWakeup' /\ NoWaiterAfterClose'
  <2>1. Len(buf) < Capacity /\ Len(buf') = Len(buf) + 1
    BY <1>0, <1>1 DEF Push
  <2> QED
    BY <1>0, <1>1, <2>1, PutCounted DEF Push
<1>2. ASSUME NEW s \in Senders, NEW v \in Values,
             TrySend(s, v) \/ SendDropOldest(s, v)
      PROVE  BoundedBuffer' /\ NoLostWakeup' /\ NoWaiterAfterClose'
  <2>1. CASE UNCHANGED <<buf, pc>>
    BY <1>2, <1>W, <2>1 DEF TrySend, SendDropOldest
  <2>2. CASE ~UNCHANGED <<buf, pc>>
    <3>1. /\ ~closed /\ UNCHANGED closed /\ pc[s] = "idle"
          /\ NotifyOne(s, "idle", Receivers)
          /\ \/ Len(buf) < Capacity /\ buf' = Append(buf, v)
             \/ Len(buf) >= Capacity /\ buf' = Append(Tail(buf), v)
      BY <1>0, <1>2, <2>2 DEF TrySend, SendDropOldest
    <3>2. \/ Len(buf) < Capacity /\ Len(buf') = Len(buf) + 1
          \/ Len(buf') = Len(buf)
      BY <1>0, <3>1
    <3> QED
      BY <1>0, <3>1, <3>2, PutCounted
  <2> QED
    BY <2>1, <2>2
<1>3. ASSUME NEW r \in Receivers, Recv(r)
      PROVE  BoundedBuffer' /\ NoLostWakeup' /\ NoWaiterAfterClose'
  <2>1. Len(buf') = Len(buf) - 1
    BY <1>0, <1>3 DEF Recv
  <2> QED
    BY <1>0, <1>3, <2>1, TakeCounted DEF Recv
<1>4. ASSUME NEW r \in Receivers, TryRecv(r)
      PROVE  BoundedBuffer' /\ NoLostWakeup' /\ NoWaiterAfterClose'
  <2>1. CASE buf = <<>>
    BY <1>4, <1>W, <2>1 DEF TryRecv
  <2>2. CASE buf # <<>>
    <3>1. Len(buf') = Len(buf) - 1
      BY <1>0, <1>4, <2>2 DEF TryRecv
    <3> QED
      BY <1>0, <1>4, <2>2, <3>1, TakeCounted DEF TryRecv
  <2> QED
    BY <2>1, <2>2
<1>5. ASSUME NEW t \in Threads, NEW c, Invoke(t, c)
      PROVE  BoundedBuffer' /\ NoLostWakeup' /\ NoWaiterAfterClose'
  BY <1>0, <1>5, <1>W DEF Invoke, PcType
<1>6. ASSUME NEW r \in Receivers, Expire(r)
      PROVE  BoundedBuffer' /\ NoLostWakeup' /\ NoWaiterAfterClose'
  BY <1>0, <1>6, <1>W DEF Expire, PcType
<1>7. ASSUME NEW t \in Threads, SpuriousWakeup(t)
      PROVE  BoundedBuffer' /\ NoLostWakeup' /\ NoWaiterAfterClose'
  BY <1>0, <1>7, <1>W DEF SpuriousWakeup, PcType
<1>8. CASE Close
  <2>1. \A t \in Threads : pc'[t] = pc[t] \/ pc'[t] = "ready"
    BY <1>8 DEF Close
  <2>2. In("waiting", Threads)' = {}
    BY <1>8 DEF Close, In
  <2> QED
    BY <1>8, <2>1, <2>2, WakeCounted DEF Close, NoWaiterAfterClose
<1>9. CASE UNCHANGED vars
  BY <1>9, <1>W DEF vars
<1> QED
  BY <1>0, <1>S, <1>R, <1>C, <1>N, <1>1, <1>2, <1>3, <1>4, <1>5, <1>6, <1>7,
     <1>8, <1>9
  DEF Next, SenderStep, ReceiverStep

LEMMA CountedInvariant == Safety => []Counted
BY InitCounted, NextCounted, PTL DEF Safety

(* No mix of push, try_send and send_drop_oldest from any number of        *)
(* threads overfills the buffer.                                           *)
THEOREM BufferBounded == Safety => []BoundedBuffer
<1>1. Counted => BoundedBuffer
  BY DEF Counted
<1> QED
  BY <1>1, CountedInvariant, PTL

(* No wakeup is lost: one notify_one per value or slot is enough, for any  *)
(* number of senders, receivers and timeouts.                              *)
THEOREM WakeupsSuffice == Safety => []NoLostWakeup
<1>1. Counted => NoLostWakeup
  BY DEF Counted
<1> QED
  BY <1>1, CountedInvariant, PTL

(* After close() no thread is left, or goes back, to sleep. *)
THEOREM CloseWakesAll == Safety => []NoWaiterAfterClose
<1>1. Counted => NoWaiterAfterClose
  BY DEF Counted
<1> QED
  BY <1>1, CountedInvariant, PTL

-----------------------------------------------------------------------------
(* Refinement.  Waiting, waking and being overtaken are stutters of        *)
(* ChannelSpec; every other step is the action of the same purpose.        *)

LEMMA InitRefines == Init => Abstract!Init
BY DEF Init, Abstract!Init, NoCall, Abstract!NoCall, Threads

LEMMA NextRefines ==
    TypeOK /\ BoundedBuffer /\ [Next]_vars => [Abstract!Next]_(Abstract!absVars)
<1> SUFFICES ASSUME TypeOK, BoundedBuffer, [Next]_vars
             PROVE  Abstract!Next \/ UNCHANGED Abstract!absVars
  OBVIOUS
<1>0. /\ Abstract!NoCall = NoCall /\ Abstract!Sends = Sends
      /\ Abstract!Recvs = Recvs
  BY DEF Abstract!NoCall, NoCall, Abstract!Sends, Sends, Abstract!Recvs, Recvs,
         Timed
<1>A. \A t \in Threads : pc[t] = "idle" <=> Abstract!Idle(t)
  BY <1>0 DEF TypeOK, Abstract!Idle
<1>B. \A s \in Senders : pc[s] # "idle" => call[s].op = "push"
  BY DEF TypeOK, Threads, Sends
<1>C. \A r \in Receivers : pc[r] # "idle" => call[r].op \in {"recv", "recv_until"}
  BY DEF TypeOK, Threads, Recvs, Timed
<1>D. \A r \in expired : call[r].op = "recv_until"
  BY DEF TypeOK, Timed
<1>E. Len(buf) \in Nat /\ Len(buf) <= Capacity /\ Capacity \in Nat
  BY ChannelAssumption DEF TypeOK, BoundedBuffer
<1>F. ASSUME NEW t, NEW r, Return(t, r) PROVE Abstract!Return(t, r)
  BY <1>F, <1>0 DEF Return, Abstract!Return
<1>1. ASSUME NEW s \in Senders, SenderStep(s)
      PROVE  Abstract!Next \/ UNCHANGED Abstract!absVars
  <2>1. CASE PushWait(s)
    BY <2>1 DEF PushWait, Wait, Abstract!absVars
  <2>2. CASE PushClosed(s)
    <3>1. Abstract!PushRefused(s)
      BY <2>2, <1>B, <1>F DEF PushClosed, Abstract!PushRefused
    <3> QED
      BY <3>1 DEF Abstract!Next, Abstract!PushReturns
  <2>3. CASE Push(s)
    <3>1. Abstract!PushAccepted(s)
      BY <2>3, <1>B, <1>F DEF Push, Abstract!PushAccepted
    <3> QED
      BY <3>1 DEF Abstract!Next, Abstract!PushReturns
  <2> QED
    BY <1>1, <2>1, <2>2, <2>3 DEF SenderStep
<1>2. ASSUME NEW s \in Senders, NEW c \in Sends, Invoke(s, c)
      PROVE  Abstract!Next
  <2>1. Abstract!Invoke(s, c)
    BY <1>2, <1>A DEF Invoke, Abstract!Invoke, Threads
  <2> QED
    BY <2>1, <1>0 DEF Abstract!Next
<1>3. ASSUME NEW s \in Senders, NEW v \in Values, TrySend(s, v)
      PROVE  Abstract!Next
  <2>1. Abstract!Idle(s)
    BY <1>3, <1>A DEF TrySend, Threads
  <2>2. CASE closed
    <3>1. Abstract!TrySend(s, v)
      BY <1>3, <1>F, <2>1, <2>2 DEF TrySend, Abstract!TrySend
    <3> QED
      BY <3>1 DEF Abstract!Next
  <2>3. CASE ~closed /\ Len(buf) >= Capacity
    <3>1. Abstract!TrySend(s, v)
      BY <1>3, <1>E, <1>F, <2>1, <2>3 DEF TrySend, Abstract!TrySend
    <3> QED
      BY <3>1 DEF Abstract!Next
  <2>4. CASE ~closed /\ Len(buf) < Capacity
    <3>1. Abstract!TrySend(s, v)
      BY <1>3, <1>E, <1>F, <2>1, <2>4 DEF TrySend, Abstract!TrySend
    <3> QED
      BY <3>1 DEF Abstract!Next
  <2> QED
    BY <1>E, <2>2, <2>3, <2>4
<1>4. ASSUME NEW s \in Senders, NEW v \in Values, SendDropOldest(s, v)
      PROVE  Abstract!Next
  <2>1. Abstract!Idle(s)
    BY <1>4, <1>A DEF SendDropOldest, Threads
  <2>2. Abstract!SendDropOldest(s, v)
    BY <1>4, <1>E, <1>F, <2>1 DEF SendDropOldest, Abstract!SendDropOldest
  <2> QED
    BY <2>2 DEF Abstract!Next
<1>5. ASSUME NEW r \in Receivers, ReceiverStep(r)
      PROVE  Abstract!Next \/ UNCHANGED Abstract!absVars
  <2>1. CASE RecvWait(r)
    BY <2>1 DEF RecvWait, Wait, Abstract!absVars
  <2>2. CASE RecvNullopt(r) /\ closed
    <3>1. Abstract!Drained(r)
      BY <2>2, <1>C, <1>F DEF RecvNullopt, Abstract!Drained
    <3> QED
      BY <3>1 DEF Abstract!Next, Abstract!RecvReturns
  <2>3. CASE RecvNullopt(r) /\ ~closed
    <3>1. Abstract!GiveUp(r)
      BY <2>3, <1>D, <1>F DEF RecvNullopt, Abstract!GiveUp
    <3> QED
      BY <3>1 DEF Abstract!Next
  <2>4. CASE Recv(r)
    <3>1. Abstract!Take(r)
      BY <2>4, <1>C, <1>F DEF Recv, Abstract!Take
    <3> QED
      BY <3>1 DEF Abstract!Next, Abstract!RecvReturns
  <2> QED
    BY <1>5, <2>1, <2>2, <2>3, <2>4 DEF ReceiverStep
<1>6. ASSUME NEW r \in Receivers, NEW c \in Recvs, Invoke(r, c)
      PROVE  Abstract!Next
  <2>1. Abstract!Invoke(r, c)
    BY <1>6, <1>A DEF Invoke, Abstract!Invoke, Threads
  <2> QED
    BY <2>1, <1>0 DEF Abstract!Next
<1>7. ASSUME NEW r \in Receivers, TryRecv(r) PROVE Abstract!Next
  <2>1. Abstract!TryRecv(r)
    BY <1>7, <1>A, <1>F DEF TryRecv, Abstract!TryRecv, Threads
  <2> QED
    BY <2>1 DEF Abstract!Next
<1>8. ASSUME NEW r \in Receivers, Expire(r) PROVE UNCHANGED Abstract!absVars
  BY <1>8 DEF Expire, Abstract!absVars
<1>9. ASSUME NEW t \in Threads, SpuriousWakeup(t)
      PROVE  UNCHANGED Abstract!absVars
  BY <1>9 DEF SpuriousWakeup, Abstract!absVars
<1>10. CASE Close
  <2>1. Abstract!Close
    BY <1>10 DEF Close, Abstract!Close
  <2> QED
    BY <2>1 DEF Abstract!Next
<1>11. CASE UNCHANGED vars
  BY <1>11 DEF vars, Abstract!absVars
<1> QED
  BY <1>1, <1>2, <1>3, <1>4, <1>5, <1>6, <1>7, <1>8, <1>9, <1>10, <1>11 DEF Next

(* Every behaviour of the mutex-and-condition-variable implementation is,  *)
(* for its callers, a behaviour of the closable bounded FIFO ChannelSpec.  *)
THEOREM ChannelRefinesSpec == Safety => Abstract!Safety
<1>1. Counted => TypeOK /\ BoundedBuffer
  BY DEF Counted
<1> QED
  BY <1>1, InitRefines, NextRefines, CountedInvariant, PTL
  DEF Safety, Abstract!Safety
=============================================================================
