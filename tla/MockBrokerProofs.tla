-------------------------- MODULE MockBrokerProofs --------------------------
(* Theorems about the in-process participant, for any threads and depth.   *)
(* close() closes the channel of every subscriber it had returned: the     *)
(* invariant follows one subscriber's channel from sub_channels_ through   *)
(* the closing loop.  What publish() delivers of a publisher arrives in    *)
(* order and once, the last sample handed to a late joiner is one and not  *)
(* newer than the rest, and a Block subscriber misses nothing: the         *)
(* invariant relates what a subscriber got and has in its channel (Line)   *)
(* to the write in progress of every publisher.  Whoever waits for mu_     *)
(* waits for a Block subscriber's full channel at most.  No channel holds  *)
(* more than its depth.                                                    *)
EXTENDS MockBroker, FiniteSetTheorems, SequenceTheorems, TLAPS

SubStates == {"none", "checked", "read", "replay", "register",
              "live", "unsubscribing", "erased", "gone"}

(* new_subscriber() returns only after it has registered the channel, and  *)
(* a channel is never taken out of sub_channels_.                          *)
LiveRegistered == \A s \in Subs : sub[s] = "live" => s \in registered

(* Where the channels of the subscribers that were live when close() was   *)
(* called are while it runs.                                               *)
OwnedAccounted ==
    /\ closer \in {"open", "raised", "closing", "closed"}
    /\ owned \subseteq Subs
    /\ closer = "raised" => owned \subseteq registered
    /\ closer = "closing" => owned \subseteq todo \cup chanClosed
    /\ closer = "closed" => owned \subseteq chanClosed

CloseInv == /\ sub \in [Subs -> SubStates]
            /\ LiveRegistered
            /\ OwnedAccounted

(* Every step of a subscriber moves only that subscriber. *)
LEMMA SubGoesTyped ==
    ASSUME NEW s \in Subs, NEW from \in SubStates, NEW to \in SubStates,
           sub \in [Subs -> SubStates], SubGoes(s, from, to)
    PROVE  /\ sub' \in [Subs -> SubStates]
           /\ sub[s] = from /\ sub'[s] = to
           /\ \A u \in Subs : u # s => sub'[u] = sub[u]
BY DEF SubGoes

LEMMA CloseInvInit == Init => CloseInv
BY DEF Init, CloseInv, LiveRegistered, OwnedAccounted, SubStates

LEMMA PublisherKeeps ==
    ASSUME CloseInv, NEW p \in Pubs,
           WriteBegin(p) \/ PubStep(p) \/ ClosePublisher(p)
    PROVE  CloseInv'
<1>1. UNCHANGED <<sub, partVars, chanClosed>>
  BY DEF WriteBegin, PubStep, StoreLast, LockShared, Deliver, WriteEnd,
         ClosePublisher, chanVars
<1> QED
  BY <1>1 DEF CloseInv, LiveRegistered, OwnedAccounted, partVars

LEMMA SubscriberKeeps ==
    ASSUME CloseInv, NEW s \in Subs,
           NewSubscriber(s) \/ SubStep(s) \/ Recv(s) \/ Unsubscribe(s)
    PROVE  CloseInv'
<1>. USE DEF CloseInv
<1>1. CASE \/ NewSubscriber(s) \/ ReadLast(s) \/ Subscribe(s) \/ Replay(s)
           \/ Unsubscribe(s) \/ Erase(s)
  <2>1. UNCHANGED <<partVars, chanClosed>>
    BY <1>1 DEF NewSubscriber, ReadLast, Subscribe, Replay, Unsubscribe, Erase,
                chanVars
  <2>2. /\ sub' \in [Subs -> SubStates] /\ sub'[s] # "live"
        /\ \A u \in Subs : u # s => sub'[u] = sub[u]
    BY <1>1, SubGoesTyped DEF NewSubscriber, ReadLast, Subscribed, Subscribe,
                Replay, Unsubscribe, Erase, SubStates
  <2> QED
    BY <2>1, <2>2 DEF LiveRegistered, OwnedAccounted, partVars
<1>2. CASE Register(s)
  <2>1. /\ sub' \in [Subs -> SubStates]
        /\ \A u \in Subs : u # s => sub'[u] = sub[u]
    BY <1>2, SubGoesTyped DEF Register, SubStates
  <2>2. /\ registered' = registered \cup {s}
        /\ UNCHANGED <<closer, todo, owned, chanClosed>>
    BY <1>2 DEF Register, chanVars
  <2> QED
    BY <2>1, <2>2 DEF LiveRegistered, OwnedAccounted
<1>3. CASE Recv(s)
  <2>1. UNCHANGED <<sub, partVars, chanClosed>>
    BY <1>3 DEF Recv
  <2> QED
    BY <2>1 DEF LiveRegistered, OwnedAccounted, partVars
<1>4. CASE CloseChannel(s)
  <2>1. /\ sub' \in [Subs -> SubStates] /\ sub'[s] # "live"
        /\ \A u \in Subs : u # s => sub'[u] = sub[u]
    BY <1>4, SubGoesTyped DEF CloseChannel, SubStates
  <2>2. chanClosed' = chanClosed \cup {s} /\ UNCHANGED partVars
    BY <1>4 DEF CloseChannel
  <2> QED
    BY <2>1, <2>2 DEF LiveRegistered, OwnedAccounted, partVars
<1> QED
  BY <1>1, <1>2, <1>3, <1>4 DEF SubStep

LEMMA CloserKeeps ==
    ASSUME CloseInv, Close \/ CloserStep
    PROVE  CloseInv'
<1>. USE DEF CloseInv, LiveRegistered, OwnedAccounted, notPart, chanVars
<1>1. CASE Close      BY <1>1 DEF Close
<1>2. CASE LockSubs   BY <1>2 DEF LockSubs
<1>3. CASE CloseNext  BY <1>3 DEF CloseNext
<1>4. CASE CloseDone  BY <1>4 DEF CloseDone
<1> QED
  BY <1>1, <1>2, <1>3, <1>4 DEF CloserStep

LEMMA CloseInvStep == CloseInv /\ [Next]_vars => CloseInv'
<1>1. ASSUME CloseInv, UNCHANGED vars
      PROVE  CloseInv'
  BY <1>1 DEF CloseInv, LiveRegistered, OwnedAccounted, vars
<1> QED
  BY <1>1, PublisherKeeps, SubscriberKeeps, CloserKeeps DEF Next

(* close() returns only when every subscriber that new_subscriber() had    *)
(* returned has its channel closed, for any number of publishers,          *)
(* subscribers and samples (mock/participant.cpp, MockParticipant::close). *)
THEOREM ClosesWhatItOwns == Spec => []CloseClosesOwned
<1>1. CloseInv => CloseClosesOwned
  BY DEF CloseInv, OwnedAccounted, CloseClosesOwned
<1> QED
  BY <1>1, CloseInvInit, CloseInvStep, PTL DEF Spec, Safety

-----------------------------------------------------------------------------
(* Sequences.                                                              *)

(* A receive moves the head of the channel to what was got. *)
LEMMA ReceiveKeepsLine ==
    ASSUME NEW S, NEW g \in Seq(S), NEW c \in Seq(S), c # <<>>
    PROVE  /\ Append(g, Head(c)) \in Seq(S) /\ Tail(c) \in Seq(S)
           /\ Append(g, Head(c)) \o Tail(c) = g \o c
<1>1. /\ Head(c) \in S /\ Tail(c) \in Seq(S) /\ Len(Tail(c)) = Len(c) - 1
      /\ \A i \in 1..Len(Tail(c)) : Tail(c)[i] = c[i + 1]
  BY HeadTailProperties
<1>2. /\ Append(g, Head(c)) \in Seq(S) /\ Len(Append(g, Head(c))) = Len(g) + 1
      /\ \A i \in 1..Len(g) : Append(g, Head(c))[i] = g[i]
      /\ Append(g, Head(c))[Len(g) + 1] = Head(c)
  BY <1>1, AppendProperties
<1>. DEFINE new == Append(g, Head(c)) \o Tail(c)
            old == g \o c
<1>3. /\ old \in Seq(S) /\ Len(old) = Len(g) + Len(c)
      /\ \A i \in 1..Len(g) + Len(c) : old[i] = IF i <= Len(g) THEN g[i] ELSE c[i - Len(g)]
  BY ConcatProperties
<1>4. /\ new \in Seq(S) /\ Len(new) = Len(g) + 1 + Len(c) - 1
      /\ \A i \in 1..Len(g) + Len(c) :
            new[i] = IF i <= Len(g) + 1 THEN Append(g, Head(c))[i] ELSE Tail(c)[i - (Len(g) + 1)]
  BY <1>1, <1>2, ConcatProperties
<1>5. Len(g) \in Nat /\ Len(c) \in Nat /\ Len(c) > 0 /\ Head(c) = c[1]
  OBVIOUS
<1>6. ASSUME NEW i \in 1..Len(g) + Len(c) PROVE new[i] = old[i]
  <2>1. CASE i <= Len(g)
    BY <1>2, <1>3, <1>4, <1>5, <2>1
  <2>2. CASE i = Len(g) + 1
    BY <1>2, <1>3, <1>4, <1>5, <2>2
  <2>3. CASE i > Len(g) + 1
    <3>1. new[i] = Tail(c)[i - (Len(g) + 1)] /\ old[i] = c[i - Len(g)]
      BY <1>3, <1>4, <1>5, <2>3
    <3>2. i - (Len(g) + 1) \in 1..Len(Tail(c)) /\ i - (Len(g) + 1) + 1 = i - Len(g)
      BY <1>1, <1>5, <2>3
    <3> QED
      BY <1>1, <3>1, <3>2
  <2> QED
    BY <1>5, <2>1, <2>2, <2>3
<1>7. new = old
  BY <1>3, <1>4, <1>5, <1>6, SeqEqual
<1> QED
  BY <1>1, <1>2, <1>7

(* new is old, or some of old in its order, and then x. *)
GoesOn(old, new, x) ==
    /\ Len(new) \in Nat \ {0} /\ new[Len(new)] = x
    /\ \A i \in 1..Len(new) - 1 : \E k \in 1..Len(old) : new[i] = old[k]
    /\ \A i, j \in 1..Len(new) - 1 : i < j =>
          \E k, m \in 1..Len(old) : k < m /\ new[i] = old[k] /\ new[j] = old[m]

(* u is in q; nothing is in q twice. *)
Has(q, u) == \E i \in DOMAIN q : q[i] = u
Once(q) == \A i, j \in DOMAIN q : q[i] = q[j] => i = j

(* Nothing is lost. *)
Kept(old, new) == \A i \in 1..Len(old) : \E k \in 1..Len(new) : new[k] = old[i]

LEMMA SendGoesOn ==
    ASSUME NEW S, NEW g \in Seq(S), NEW c \in Seq(S), NEW x \in S
    PROVE  /\ GoesOn(g \o c, g \o Append(c, x), x)
           /\ Kept(g \o c, g \o Append(c, x))
<1>. DEFINE longer == Append(c, x)
            new == g \o longer
            old == g \o c
<1>1. /\ longer \in Seq(S) /\ Len(longer) = Len(c) + 1
      /\ \A i \in 1..Len(c) : longer[i] = c[i]
      /\ longer[Len(c) + 1] = x
  BY AppendProperties
<1>2. /\ old \in Seq(S) /\ Len(old) = Len(g) + Len(c)
      /\ \A i \in 1..Len(g) + Len(c) : old[i] = IF i <= Len(g) THEN g[i] ELSE c[i - Len(g)]
  BY ConcatProperties
<1>4. Len(g) \in Nat /\ Len(c) \in Nat
  OBVIOUS
<1> HIDE DEF longer
<1>3. /\ new \in Seq(S) /\ Len(new) = Len(g) + Len(longer)
      /\ \A i \in 1..Len(g) + Len(longer) :
            new[i] = IF i <= Len(g) THEN g[i] ELSE longer[i - Len(g)]
  BY <1>1, ConcatProperties
<1>5. \A i \in 1..Len(old) : new[i] = old[i]
  <2>1. SUFFICES ASSUME NEW i \in 1..Len(old) PROVE new[i] = old[i]
    OBVIOUS
  <2> HIDE DEF new, old
  <2>2. CASE i <= Len(g)
    BY <1>1, <1>2, <1>3, <1>4, <2>2
  <2>3. CASE i > Len(g)
    <3>1. i - Len(g) \in 1..Len(c)
      BY <1>2, <1>4, <2>3
    <3>2. new[i] = longer[i - Len(g)]
      BY <1>1, <1>2, <1>3, <1>4, <2>3
    <3>3. old[i] = c[i - Len(g)]
      BY <1>2, <1>4, <2>3
    <3>4. longer[i - Len(g)] = c[i - Len(g)]
      BY <1>1, <3>1
    <3> QED
      BY <3>2, <3>3, <3>4
  <2> QED
    BY <1>2, <1>4, <2>2, <2>3
<1> HIDE DEF new, old
<1>6. new[Len(new)] = x /\ Len(new) = Len(old) + 1 /\ Len(old) \in Nat
  <2>1. Len(new) = Len(g) + Len(c) + 1 /\ Len(old) = Len(g) + Len(c)
    BY <1>1, <1>2, <1>3
  <2>2. new[Len(g) + Len(c) + 1] = longer[Len(c) + 1]
    BY <1>1, <1>3, <1>4
  <2> QED
    BY <1>1, <1>4, <2>1, <2>2
<1>7. GoesOn(old, new, x)
  BY <1>5, <1>6 DEF GoesOn
<1>8. Kept(old, new)
  BY <1>5, <1>6 DEF Kept
<1> QED
  BY <1>7, <1>8 DEF new, old, longer

LEMMA EvictionGoesOn ==
    ASSUME NEW S, NEW g \in Seq(S), NEW c \in Seq(S), c # <<>>, NEW x \in S
    PROVE  GoesOn(g \o c, g \o Append(Tail(c), x), x)
<1>1. /\ Tail(c) \in Seq(S) /\ Len(Tail(c)) = Len(c) - 1
      /\ \A i \in 1..Len(Tail(c)) : Tail(c)[i] = c[i + 1]
  BY HeadTailProperties
<1>2. /\ Append(Tail(c), x) \in Seq(S) /\ Len(Append(Tail(c), x)) = Len(c)
      /\ \A i \in 1..Len(c) - 1 : Append(Tail(c), x)[i] = c[i + 1]
      /\ Append(Tail(c), x)[Len(c)] = x
  BY <1>1, AppendProperties
<1>. DEFINE new == g \o Append(Tail(c), x)
            old == g \o c
<1>3. /\ old \in Seq(S) /\ Len(old) = Len(g) + Len(c)
      /\ \A i \in 1..Len(g) + Len(c) : old[i] = IF i <= Len(g) THEN g[i] ELSE c[i - Len(g)]
  BY ConcatProperties
<1>4. /\ new \in Seq(S) /\ Len(new) = Len(g) + Len(c)
      /\ \A i \in 1..Len(g) + Len(c) :
            new[i] = IF i <= Len(g) THEN g[i] ELSE Append(Tail(c), x)[i - Len(g)]
  BY <1>2, ConcatProperties
<1>5. Len(g) \in Nat /\ Len(c) \in Nat \ {0}
  OBVIOUS
<1>6. /\ \A i \in 1..Len(g) : new[i] = old[i]
      /\ \A i \in Len(g) + 1..Len(new) - 1 : new[i] = old[i + 1]
      /\ new[Len(new)] = x
  <2>1. \A i \in 1..Len(g) : new[i] = old[i]
    BY <1>3, <1>4, <1>5
  <2>2. ASSUME NEW i \in Len(g) + 1..Len(new) - 1 PROVE new[i] = old[i + 1]
    <3>1. new[i] = Append(Tail(c), x)[i - Len(g)] /\ old[i + 1] = c[i + 1 - Len(g)]
      BY <1>3, <1>4, <1>5
    <3>2. i - Len(g) \in 1..Len(c) - 1 /\ i - Len(g) + 1 = i + 1 - Len(g)
      BY <1>4, <1>5
    <3> QED
      BY <1>2, <3>1, <3>2
  <2>3. new[Len(new)] = x
    BY <1>2, <1>4, <1>5
  <2> QED
    BY <2>1, <2>2, <2>3
<1>7. Len(new) = Len(old) /\ Len(old) \in Nat \ {0} /\ Len(g) \in 0..Len(old) - 1
  BY <1>3, <1>4, <1>5
<1> HIDE DEF new, old
<1>. DEFINE from(i) == IF i <= Len(g) THEN i ELSE i + 1
<1>8. \A i \in 1..Len(new) - 1 : from(i) \in 1..Len(old) /\ new[i] = old[from(i)]
  BY <1>6, <1>7
<1>9. \A i, j \in 1..Len(new) - 1 : i < j => from(i) < from(j)
  BY <1>7
<1>10. GoesOn(old, new, x)
  BY <1>6, <1>7, <1>8, <1>9 DEF GoesOn
<1> QED
  BY <1>10 DEF new, old

-----------------------------------------------------------------------------
(* The invariant of the deliveries.                                        *)

Items == [n : Nat, live : BOOLEAN]
Busy == {"store", "lock", "deliver"}
Subscribing == {"replay", "register", "live", "unsubscribing"}
Writes == [pc : Busy \cup {"idle", "closed"}, n : Nat, list : Seq(Subs), delivered : Nat, dropped : Nat]

Types ==
    /\ sent \in Seq(Pubs) /\ subs \in Seq(Subs)
    /\ policy \in [Subs -> Policies] /\ sub \in [Subs -> SubStates]
    /\ chan \in [Subs -> Seq(Items)] /\ got \in [Subs -> Seq(Items)]
    /\ pub \in [Pubs -> Writes]
    /\ last \in Nat /\ lastRead \in [Subs -> Nat] /\ joined \in [Subs -> Nat]

(* Every subscriber between subscribe() and unsubscribe() has one entry. *)
EntriesInv ==
    /\ Once(subs)
    /\ \A s \in Subs : sub[s] \in Subscribing <=> Has(subs, s)

(* A write in progress has a sample of its own and delivers to nobody      *)
(* twice.                                                                  *)
WritesInv ==
    \A p \in Pubs :
        /\ pub[p].pc \in Busy => pub[p].n \in DOMAIN sent /\ sent[pub[p].n] = p
        /\ Once(pub[p].list)

(* s is still to be offered the sample of p's write. *)
Ahead(p, s) == \/ pub[p].pc \in {"store", "lock"}
               \/ pub[p].pc = "deliver" /\ Has(pub[p].list, s)

InOrder(line) ==
    \A i, j \in DOMAIN line :
        i < j /\ line[i].live /\ line[j].live /\ sent[line[i].n] = sent[line[j].n] =>
            line[i].n < line[j].n

(* Item x is not newer than its publisher's write in progress, and older   *)
(* when that write is still to be offered to s.                            *)
Older(x, s) ==
    x.live => /\ x.n \in DOMAIN sent
              /\ \A p \in Pubs :
                    pub[p].pc \in Busy /\ sent[x.n] = p =>
                        x.n <= pub[p].n /\ (Ahead(p, s) => x.n < pub[p].n)

OrderInv ==
    \A s \in Subs : InOrder(Line(s)) /\ \A i \in DOMAIN Line(s) : Older(Line(s)[i], s)

OrderIInv == Types /\ EntriesInv /\ WritesInv /\ OrderInv

(* What a live Block subscriber has not got is still to be offered to it. *)
BlockAt(s) ==
    sub[s] = "live" /\ s \notin chanClosed /\ policy[s] = "Block" =>
        \A n \in joined[s] + 1..Len(sent) :
            n \in Accepts[s] =>
                \/ \E i \in DOMAIN Line(s) : Line(s)[i] = [n |-> n, live |-> TRUE]
                \/ \E p \in Pubs : pub[p].n = n /\ Ahead(p, s)

BlockInv == \A s \in Subs : BlockAt(s)

LEMMA DeliveryInit == Init => OrderIInv /\ BlockInv
<1>1. SUFFICES ASSUME Init PROVE OrderIInv /\ BlockInv
  OBVIOUS
<1>2. Types
  BY <1>1 DEF Init, Types, Policies, SubStates, Writes, IdlePub, Busy
<1>3. EntriesInv /\ WritesInv
  BY <1>1 DEF Init, EntriesInv, WritesInv, Subscribing, IdlePub, Busy, Has, Once
<1>4. \A s \in Subs : Line(s) = <<>>
  BY <1>1 DEF Init, Line
<1>5. OrderInv
  BY <1>4 DEF OrderInv, InOrder
<1>6. BlockInv
  BY <1>1 DEF Init, BlockInv, BlockAt
<1> QED
  BY <1>2, <1>3, <1>5, <1>6 DEF OrderIInv

(* What one iteration of the delivery loop does: the first subscriber of   *)
(* the list is done with, and what it has is as before or goes on with the *)
(* sample; a Block subscriber loses nothing by it.                         *)
Delivered(p, s, x) ==
    /\ pub[p].list # <<>> /\ s = Head(pub[p].list)
    /\ pub' \in [Pubs -> Writes]
    /\ \A q \in Pubs \ {p} : pub'[q] = pub[q]
    /\ pub'[p].list = Tail(pub[p].list)
    /\ pub[p].pc = "deliver" /\ pub'[p].pc = "deliver" /\ pub'[p].n = pub[p].n
    /\ chan' \in [Subs -> Seq(Items)]
    /\ UNCHANGED <<sent, subs, policy, sub, last, lastRead, joined, got, chanClosed>>
    /\ \A u \in Subs \ {s} : Line(u)' = Line(u)
    /\ \/ /\ Line(s)' = Line(s)
          /\ x.n \in Accepts[s] /\ s \notin chanClosed => policy[s] # "Block"
       \/ GoesOn(Line(s), Line(s)', x)
    /\ policy[s] = "Block" => Kept(Line(s), Line(s)')

(* An iteration of the loop counts its result and goes on to the rest. *)
LEMMA WriteGoesOn ==
    ASSUME NEW w \in Writes, w.list # <<>>,
           NEW v, LET next == [w EXCEPT !.list = Tail(@)]
                  IN  \/ v = next
                      \/ v = [next EXCEPT !.delivered = @ + 1]
                      \/ v = [next EXCEPT !.dropped = @ + 1]
    PROVE  v \in Writes /\ v.pc = w.pc /\ v.n = w.n /\ v.list = Tail(w.list)
<1>1. w.list \in Seq(Subs) /\ w.delivered \in Nat /\ w.dropped \in Nat
  BY DEF Writes
<1>2. Tail(w.list) \in Seq(Subs)
  BY <1>1, HeadTailProperties
<1>. DEFINE rest == Tail(w.list)
            next == [w EXCEPT !.list = rest]
<1> HIDE DEF rest
<1>3. next \in Writes /\ next.pc = w.pc /\ next.n = w.n /\ next.list = rest
  BY <1>2 DEF Writes, rest
<1>4. v = next \/ v = [next EXCEPT !.delivered = @ + 1] \/ v = [next EXCEPT !.dropped = @ + 1]
  BY DEF rest
<1> HIDE DEF next
<1>5. /\ [next EXCEPT !.delivered = @ + 1] \in Writes
      /\ [next EXCEPT !.dropped = @ + 1] \in Writes
  BY <1>3 DEF Writes
<1>6. v.pc = next.pc /\ v.n = next.n /\ v.list = next.list
  BY <1>3, <1>4 DEF Writes
<1> QED
  BY <1>3, <1>4, <1>5, <1>6 DEF rest

LEMMA DeliverEffect ==
    ASSUME Types, NEW p \in Pubs, Deliver(p)
    PROVE  \E s \in Subs : Delivered(p, s, [n |-> pub[p].n, live |-> TRUE])
<1>. DEFINE w == pub[p]
            next == [w EXCEPT !.list = Tail(@)]
<1>1. /\ w \in Writes /\ w.pc = "deliver" /\ w.list # <<>> /\ w.n \in Nat
      /\ w.list \in Seq(Subs)
  BY DEF Types, Writes, Deliver
<1>2. PICK s \in Subs : s = Head(w.list)
  BY <1>1, HeadTailProperties
<1>3. PICK x \in Items : x = [n |-> w.n, live |-> TRUE]
  BY <1>1 DEF Items
<1>4. /\ chan[s] \in Seq(Items) /\ got[s] \in Seq(Items) /\ policy[s] \in Policies
      /\ UNCHANGED <<sent, subs, policy, sub, last, lastRead, joined, got, chanClosed>>
  BY DEF Types, Deliver, brokerVars
<1>5. ASSUME NEW v, pub' = [pub EXCEPT ![p] = v],
             \/ v = next \/ v = [next EXCEPT !.delivered = @ + 1]
                         \/ v = [next EXCEPT !.dropped = @ + 1]
      PROVE  /\ pub' \in [Pubs -> Writes] /\ \A q \in Pubs \ {p} : pub'[q] = pub[q]
             /\ pub'[p].list = Tail(w.list) /\ pub'[p].pc = "deliver" /\ pub'[p].n = w.n
  <2>1. v \in Writes /\ v.pc = w.pc /\ v.n = w.n /\ v.list = Tail(w.list)
    BY <1>1, <1>5, WriteGoesOn
  <2> HIDE DEF next
  <2>2. pub'[p] = v /\ pub' \in [Pubs -> Writes] /\ \A q \in Pubs \ {p} : pub'[q] = pub[q]
    BY <1>5, <2>1 DEF Types
  <2> QED
    BY <1>1, <2>1, <2>2
<1>6. ASSUME NEW v, pub' = [pub EXCEPT ![p] = v], v = next \/ v = [next EXCEPT !.dropped = @ + 1],
             UNCHANGED chan, x.n \in Accepts[s] /\ s \notin chanClosed => policy[s] # "Block"
      PROVE  Delivered(p, s, x)
  <2>1. /\ pub' \in [Pubs -> Writes] /\ \A q \in Pubs \ {p} : pub'[q] = pub[q]
        /\ pub'[p].list = Tail(w.list) /\ pub'[p].pc = "deliver" /\ pub'[p].n = w.n
    BY <1>5, <1>6
  <2>2. chan' \in [Subs -> Seq(Items)] /\ \A u \in Subs : Line(u)' = Line(u)
    BY <1>4, <1>6 DEF Line, Types
  <2>3. Kept(Line(s), Line(s)')
    BY <2>2 DEF Kept
  <2> QED
    BY <1>1, <1>2, <1>4, <1>6, <2>1, <2>2, <2>3 DEF Delivered
<1>7. ASSUME NEW v, pub' = [pub EXCEPT ![p] = v], v = [next EXCEPT !.delivered = @ + 1],
             NEW c \in Seq(Items), chan' = [chan EXCEPT ![s] = c],
             GoesOn(got[s] \o chan[s], got[s] \o c, x),
             policy[s] = "Block" => Kept(got[s] \o chan[s], got[s] \o c)
      PROVE  Delivered(p, s, x)
  <2>1. /\ pub' \in [Pubs -> Writes] /\ \A q \in Pubs \ {p} : pub'[q] = pub[q]
        /\ pub'[p].list = Tail(w.list) /\ pub'[p].pc = "deliver" /\ pub'[p].n = w.n
    BY <1>5, <1>7
  <2>2. /\ chan' \in [Subs -> Seq(Items)] /\ chan'[s] = c
        /\ \A u \in Subs \ {s} : chan'[u] = chan[u]
    BY <1>7 DEF Types
  <2>3. /\ \A u \in Subs \ {s} : Line(u)' = Line(u)
        /\ Line(s) = got[s] \o chan[s] /\ Line(s)' = got[s] \o c
    BY <1>4, <2>2 DEF Line
  <2> QED
    BY <1>1, <1>2, <1>4, <1>7, <2>1, <2>2, <2>3 DEF Delivered
<1>8. CASE w.n \notin Accepts[s] /\ UNCHANGED chan /\ pub' = [pub EXCEPT ![p] = next]
  BY <1>3, <1>6, <1>8
<1>9. ASSUME NEW o \in Outcomes(s, x), chan' = [chan EXCEPT ![s] = o.chan],
             pub' = [pub EXCEPT ![p] = IF o.ok THEN [next EXCEPT !.delivered = @ + 1]
                                               ELSE [next EXCEPT !.dropped = @ + 1]]
      PROVE  Delivered(p, s, x)
  <2>1. CASE o = [chan |-> chan[s], ok |-> FALSE] /\ (s \in chanClosed \/ policy[s] # "Block")
    <3>1. UNCHANGED chan
      BY <1>9, <2>1 DEF Types
    <3>2. pub' = [pub EXCEPT ![p] = [next EXCEPT !.dropped = @ + 1]]
      BY <1>9, <2>1
    <3> HIDE DEF next
    <3> QED
      BY <1>6, <2>1, <3>1, <3>2
  <2>2. CASE o = [chan |-> Append(chan[s], x), ok |-> TRUE]
    <3>. DEFINE c == Append(chan[s], x)
    <3>1. c \in Seq(Items)
      BY <1>4, AppendProperties
    <3>2. GoesOn(got[s] \o chan[s], got[s] \o c, x) /\ Kept(got[s] \o chan[s], got[s] \o c)
      BY <1>4, SendGoesOn
    <3>3. /\ chan' = [chan EXCEPT ![s] = c]
          /\ pub' = [pub EXCEPT ![p] = [next EXCEPT !.delivered = @ + 1]]
      BY <1>9, <2>2
    <3> HIDE DEF c, next
    <3> QED
      BY <1>7, <3>1, <3>2, <3>3
  <2>3. CASE o = [chan |-> Append(Tail(chan[s]), x), ok |-> TRUE] /\ Full(s) /\ policy[s] = "DropOldest"
    <3>. DEFINE c == Append(Tail(chan[s]), x)
    <3>1. chan[s] # <<>>
      BY <1>4, <2>3, MockAssumption DEF Full
    <3>2. c \in Seq(Items)
      BY <1>4, <3>1, HeadTailProperties, AppendProperties
    <3>3. GoesOn(got[s] \o chan[s], got[s] \o c, x)
      BY <1>4, <3>1, EvictionGoesOn
    <3>4. /\ chan' = [chan EXCEPT ![s] = c]
          /\ pub' = [pub EXCEPT ![p] = [next EXCEPT !.delivered = @ + 1]]
      BY <1>9, <2>3
    <3> HIDE DEF c, next
    <3> QED
      BY <1>7, <2>3, <3>2, <3>3, <3>4
  <2> QED
    BY <1>4, <1>9, <2>1, <2>2, <2>3 DEF Outcomes, Policies
<1>10. \/ w.n \notin Accepts[s] /\ UNCHANGED chan /\ pub' = [pub EXCEPT ![p] = next]
       \/ \E o \in Outcomes(s, x) :
             /\ chan' = [chan EXCEPT ![s] = o.chan]
             /\ pub' = [pub EXCEPT ![p] = IF o.ok THEN [next EXCEPT !.delivered = @ + 1]
                                                 ELSE [next EXCEPT !.dropped = @ + 1]]
  BY <1>2, <1>3 DEF Deliver
<1> HIDE DEF w, next
<1>11. CASE \E o \in Outcomes(s, x) :
             /\ chan' = [chan EXCEPT ![s] = o.chan]
             /\ pub' = [pub EXCEPT ![p] = IF o.ok THEN [next EXCEPT !.delivered = @ + 1]
                                                 ELSE [next EXCEPT !.dropped = @ + 1]]
  <2>1. PICK o \in Outcomes(s, x) :
             /\ chan' = [chan EXCEPT ![s] = o.chan]
             /\ pub' = [pub EXCEPT ![p] = IF o.ok THEN [next EXCEPT !.delivered = @ + 1]
                                                 ELSE [next EXCEPT !.dropped = @ + 1]]
    BY <1>11
  <2>2. Delivered(p, s, x)
    BY <1>9, <2>1
  <2> QED
    BY <1>3, <2>2 DEF w
<1> QED
  BY <1>3, <1>8, <1>10, <1>11 DEF w
-----------------------------------------------------------------------------
(* Types, entries and writes.                                              *)

LEMMA RemoveAtProperties ==
    ASSUME NEW S, NEW q \in Seq(S), NEW i \in 1..Len(q)
    PROVE  /\ RemoveAt(q, i) \in Seq(S) /\ Len(RemoveAt(q, i)) = Len(q) - 1
           /\ \A j \in 1..Len(q) - 1 :
                 RemoveAt(q, i)[j] = IF j < i THEN q[j] ELSE q[j + 1]
<1>. DEFINE a == SubSeq(q, 1, i - 1)
            b == SubSeq(q, i + 1, Len(q))
<1>1. a \in Seq(S) /\ Len(a) = i - 1 /\ \A j \in 1..i - 1 : a[j] = q[j]
  BY SubSeqProperties
<1>2. /\ b \in Seq(S) /\ Len(b) = Len(q) - i
      /\ \A j \in 1..Len(q) - i : b[j] = q[i + j]
  <2>1. /\ b \in Seq(S)
        /\ Len(b) = IF i + 1 <= Len(q) THEN Len(q) - (i + 1) + 1 ELSE 0
        /\ \A j \in 1..Len(q) - (i + 1) + 1 : b[j] = q[i + 1 + j - 1]
    BY SubSeqProperties
  <2> QED
    BY <2>1
<1> HIDE DEF a, b
<1>3. /\ a \o b \in Seq(S) /\ Len(a \o b) = Len(a) + Len(b)
      /\ \A j \in 1..Len(a) + Len(b) : (a \o b)[j] = IF j <= Len(a) THEN a[j] ELSE b[j - Len(a)]
  BY <1>1, <1>2, ConcatProperties
<1>4. ASSUME NEW j \in 1..Len(q) - 1
      PROVE  (a \o b)[j] = IF j < i THEN q[j] ELSE q[j + 1]
  <2>1. CASE j < i
    BY <1>1, <1>2, <1>3, <2>1
  <2>2. CASE j >= i
    <3>1. (a \o b)[j] = b[j - (i - 1)] /\ j - (i - 1) \in 1..Len(q) - i
      BY <1>1, <1>2, <1>3, <2>2
    <3> QED
      BY <1>2, <2>2, <3>1
  <2>3. j < i \/ j >= i
    OBVIOUS
  <2> QED
    BY <2>1, <2>2, <2>3
<1>5. RemoveAt(q, i) = a \o b
  BY DEF RemoveAt, a, b
<1>6. Len(a \o b) = Len(q) - 1
  BY <1>1, <1>2, <1>3
<1> QED
  BY <1>3, <1>4, <1>5, <1>6, Zenon

LEMMA AppendEntry ==
    ASSUME NEW S, NEW q \in Seq(S), NEW e \in S, Once(q), ~Has(q, e)
    PROVE  /\ Once(Append(q, e))
           /\ \A u \in S : Has(Append(q, e), u) <=> Has(q, u) \/ u = e
<1>1. PICK r : r = Append(q, e)
  OBVIOUS
<1>2. /\ Len(q) \in Nat /\ DOMAIN q = 1..Len(q) /\ DOMAIN r = 1..Len(q) + 1
      /\ r[Len(q) + 1] = e /\ \A i \in 1..Len(q) : r[i] = q[i]
  BY <1>1, AppendProperties
<1>3. Once(r)
  BY <1>2 DEF Once, Has
<1>4. ASSUME NEW u \in S PROVE Has(r, u) <=> Has(q, u) \/ u = e
  BY <1>2 DEF Has
<1> QED
  BY <1>1, <1>3, <1>4

LEMMA RemoveEntry ==
    ASSUME NEW S, NEW q \in Seq(S), NEW k \in 1..Len(q), Once(q)
    PROVE  /\ Once(RemoveAt(q, k))
           /\ \A u \in S : Has(RemoveAt(q, k), u) <=> Has(q, u) /\ u # q[k]
<1>1. PICK r : r = RemoveAt(q, k)
  OBVIOUS
<1>2. /\ Len(q) \in Nat /\ DOMAIN q = 1..Len(q) /\ DOMAIN r = 1..Len(q) - 1
      /\ \A j \in 1..Len(q) - 1 : r[j] = IF j < k THEN q[j] ELSE q[j + 1]
  BY <1>1, RemoveAtProperties
<1>. DEFINE from(j) == IF j < k THEN j ELSE j + 1
            back(i) == IF i < k THEN i ELSE i - 1
<1>3. \A j \in DOMAIN r : from(j) \in DOMAIN q /\ from(j) # k /\ r[j] = q[from(j)]
  BY <1>2
<1>4. \A i, j \in DOMAIN r : from(i) = from(j) => i = j
  BY <1>2
<1>5. \A i \in DOMAIN q : i # k => back(i) \in DOMAIN r /\ from(back(i)) = i
  BY <1>2
<1>6. k \in DOMAIN q
  BY <1>2
<1> HIDE DEF from, back
<1>7. Once(r)
  BY <1>3, <1>4 DEF Once
<1>8. ASSUME NEW u \in S PROVE Has(r, u) <=> Has(q, u) /\ u # q[k]
  BY <1>3, <1>5, <1>6 DEF Once, Has
<1> QED
  BY <1>1, <1>7, <1>8

LEMMA TailEntry ==
    ASSUME NEW S, NEW q \in Seq(S), q # <<>>, Once(q)
    PROVE  /\ Once(Tail(q)) /\ Head(q) \in S /\ Tail(q) \in Seq(S)
           /\ \A u \in S : Has(Tail(q), u) <=> Has(q, u) /\ u # Head(q)
<1>1. PICK r : r = Tail(q)
  OBVIOUS
<1>2. /\ Len(q) \in Nat /\ DOMAIN q = 1..Len(q) /\ DOMAIN r = 1..Len(q) - 1
      /\ \A j \in 1..Len(q) - 1 : r[j] = q[j + 1]
      /\ Head(q) = q[1] /\ Head(q) \in S /\ r \in Seq(S) /\ Len(q) > 0
  BY <1>1, HeadTailProperties
<1>3. Once(r)
  BY <1>2 DEF Once
<1>4. ASSUME NEW u \in S PROVE Has(r, u) <=> Has(q, u) /\ u # Head(q)
  <2>1. \A i \in DOMAIN q : i = 1 \/ (i - 1 \in DOMAIN r /\ r[i - 1] = q[i])
    BY <1>2
  <2>2. \A i \in DOMAIN r : i + 1 \in DOMAIN q /\ r[i] = q[i + 1] /\ i + 1 # 1 /\ 1 \in DOMAIN q
    BY <1>2
  <2>3. Has(r, u) => Has(q, u) /\ u # q[1]
    BY <2>2 DEF Has, Once
  <2>4. Has(q, u) /\ u # q[1] => Has(r, u)
    BY <2>1 DEF Has
  <2> QED
    BY <1>2, <2>3, <2>4
<1> QED
  BY <1>1, <1>2, <1>3, <1>4

LEMMA PublisherTypes ==
    ASSUME Types, NEW p \in Pubs, WriteBegin(p) \/ PubStep(p) \/ ClosePublisher(p)
    PROVE  Types'
<1>1. CASE WriteBegin(p)
  <2>1. sent' = Append(sent, p) /\ sent' \in Seq(Pubs) /\ Len(sent') \in Nat
    BY <1>1, AppendProperties DEF WriteBegin, Types
  <2>2. \A w \in Writes, c \in Busy, n \in Nat : [w EXCEPT !.pc = c, !.n = n] \in Writes
    BY DEF Writes
  <2>3. pub' \in [Pubs -> Writes]
    <3>. DEFINE c == IF p \in Durable THEN "store" ELSE "lock"
    <3>1. pub' = [pub EXCEPT ![p] = [pub[p] EXCEPT !.pc = c, !.n = Len(sent')]]
      BY <1>1 DEF WriteBegin, Types
    <3>2. [pub[p] EXCEPT !.pc = c, !.n = Len(sent')] \in Writes
      BY <2>1, <2>2 DEF Types, Busy
    <3> QED
      BY <3>1, <3>2 DEF Types
  <2> QED
    BY <1>1, <2>1, <2>3 DEF WriteBegin, Types, brokerVars, chanVars
<1>2. CASE StoreLast(p)
  <2>1. pub' \in [Pubs -> Writes] /\ last' \in Nat
    BY <1>2 DEF StoreLast, Types, Writes, Busy
  <2> QED
    BY <1>2, <2>1 DEF StoreLast, Types, chanVars
<1>3. CASE LockShared(p)
  <2>1. pub' \in [Pubs -> Writes]
    BY <1>3 DEF LockShared, Types, Writes, Busy
  <2> QED
    BY <1>3, <2>1 DEF LockShared, Types, chanVars
<1>4. CASE Deliver(p)
  <2>1. PICK s \in Subs : Delivered(p, s, [n |-> pub[p].n, live |-> TRUE])
    BY <1>4, DeliverEffect
  <2> QED
    BY <2>1 DEF Delivered, Types
<1>5. CASE WriteEnd(p)
  <2>1. IdlePub \in Writes
    BY DEF IdlePub, Writes
  <2> QED
    BY <1>5, <2>1 DEF WriteEnd, Types, chanVars
<1>6. CASE ClosePublisher(p)
  <2>1. pub' \in [Pubs -> Writes]
    BY <1>6 DEF ClosePublisher, Types, Writes
  <2> QED
    BY <1>6, <2>1 DEF ClosePublisher, Types, brokerVars, chanVars
<1> QED
  BY <1>1, <1>2, <1>3, <1>4, <1>5, <1>6 DEF PubStep

LEMMA SubscriberTypes ==
    ASSUME Types, NEW s \in Subs,
           NewSubscriber(s) \/ SubStep(s) \/ Recv(s) \/ Unsubscribe(s)
    PROVE  Types'
<1>0. \A b \in SubStates : [sub EXCEPT ![s] = b] \in [Subs -> SubStates]
  BY DEF Types
<1>1. CASE NewSubscriber(s)
  <2>1. policy' \in [Subs -> Policies]
    BY <1>1, MockAssumption DEF NewSubscriber, Types
  <2>2. sub' \in [Subs -> SubStates]
    BY <1>0, <1>1 DEF NewSubscriber, SubGoes, SubStates
  <2> QED
    BY <1>1, <2>1, <2>2 DEF NewSubscriber, Types, brokerVars, chanVars
<1>2. CASE ReadLast(s)
  <2>1. sub' \in [Subs -> SubStates] /\ lastRead' \in [Subs -> Nat]
    BY <1>0, <1>2 DEF ReadLast, SubGoes, SubStates, Types
  <2> QED
    BY <1>2, <2>1 DEF ReadLast, Types, brokerVars, chanVars
<1>3. CASE Subscribe(s)
  <2>1. sub' \in [Subs -> SubStates] /\ subs' \in Seq(Subs)
    BY <1>0, <1>3, AppendProperties DEF Subscribe, Subscribed, SubGoes, SubStates, Types
  <2> QED
    BY <1>3, <2>1 DEF Subscribe, Types, chanVars
<1>4. CASE Replay(s)
  <2>1. sub' \in [Subs -> SubStates]
    BY <1>0, <1>4 DEF Replay, SubGoes, SubStates
  <2>2. chan' \in [Subs -> Seq(Items)]
    <3>1. PICK x \in Items : x = [n |-> lastRead[s], live |-> FALSE]
      BY DEF Types, Items
    <3>2. Append(chan[s], x) \in Seq(Items)
      BY AppendProperties DEF Types
    <3>3. chan' = chan \/ chan' = [chan EXCEPT ![s] = Append(chan[s], x)]
      BY <1>4, <3>1 DEF Replay
    <3> QED
      BY <3>2, <3>3 DEF Types
  <2> QED
    BY <1>4, <2>1, <2>2 DEF Replay, Types, brokerVars
<1>5. CASE Register(s)
  <2>1. sub' \in [Subs -> SubStates] /\ lastRead' \in [Subs -> Nat] /\ joined' \in [Subs -> Nat]
    BY <1>0, <1>5 DEF Register, SubGoes, SubStates, Types
  <2> QED
    BY <1>5, <2>1 DEF Register, Types, brokerVars, chanVars
<1>6. CASE Recv(s)
  <2>1. Append(got[s], Head(chan[s])) \in Seq(Items) /\ Tail(chan[s]) \in Seq(Items)
    BY <1>6, ReceiveKeepsLine DEF Recv, Types
  <2>2. got' \in [Subs -> Seq(Items)] /\ chan' \in [Subs -> Seq(Items)]
    BY <1>6, <2>1 DEF Recv, Types
  <2> QED
    BY <1>6, <2>2 DEF Recv, Types, brokerVars
<1>7. CASE Unsubscribe(s)
  <2>1. sub' \in [Subs -> SubStates]
    BY <1>0, <1>7 DEF Unsubscribe, SubGoes, SubStates
  <2> QED
    BY <1>7, <2>1 DEF Unsubscribe, Types, brokerVars, chanVars
<1>8. CASE Erase(s)
  <2>1. sub' \in [Subs -> SubStates]
    BY <1>0, <1>8 DEF Erase, SubGoes, SubStates
  <2>2. subs' \in Seq(Subs)
    BY <1>8, RemoveAtProperties DEF Erase, Types
  <2> QED
    BY <1>8, <2>1, <2>2 DEF Erase, Types, chanVars
<1>9. CASE CloseChannel(s)
  <2>1. sub' \in [Subs -> SubStates]
    BY <1>0, <1>9 DEF CloseChannel, SubGoes, SubStates
  <2> QED
    BY <1>9, <2>1 DEF CloseChannel, Types, brokerVars
<1> QED
  BY <1>1, <1>2, <1>3, <1>4, <1>5, <1>6, <1>7, <1>8, <1>9 DEF SubStep

LEMMA CloserTypes ==
    ASSUME Close \/ CloserStep
    PROVE  UNCHANGED <<sent, brokerVars, policy, chan, got, pub, sub, lastRead, joined>>
BY DEF Close, CloserStep, LockSubs, CloseNext, CloseDone, chanVars, notPart

LEMMA TypesStep == Types /\ [Next]_vars => Types'
<1>1. ASSUME Types, UNCHANGED vars PROVE Types'
  BY <1>1 DEF Types, vars
<1>2. ASSUME Types, Close \/ CloserStep PROVE Types'
  BY <1>2, CloserTypes DEF Types, brokerVars
<1> QED
  BY <1>1, <1>2, PublisherTypes, SubscriberTypes DEF Next

LEMMA SubscriberEntries ==
    ASSUME Types, EntriesInv, NEW s \in Subs,
           NewSubscriber(s) \/ SubStep(s) \/ Recv(s) \/ Unsubscribe(s)
    PROVE  EntriesInv'
<1>. USE DEF Types
<1>1. CASE NewSubscriber(s) \/ ReadLast(s) \/ Replay(s) \/ Register(s) \/ Unsubscribe(s)
           \/ CloseChannel(s)
  <2>1. /\ UNCHANGED subs /\ (sub[s] \in Subscribing <=> sub'[s] \in Subscribing)
        /\ \A u \in Subs : u # s => sub'[u] = sub[u]
    BY <1>1, SubGoesTyped DEF NewSubscriber, ReadLast, Replay, Register, Unsubscribe, CloseChannel,
                brokerVars, SubStates, Subscribing
  <2> QED
    BY <2>1 DEF EntriesInv
<1>2. CASE Recv(s)
  BY <1>2 DEF Recv, brokerVars, EntriesInv
<1>3. CASE Subscribe(s)
  <2>1. /\ sub[s] \notin Subscribing /\ sub'[s] \in Subscribing
        /\ \A u \in Subs : u # s => sub'[u] = sub[u]
    BY <1>3, SubGoesTyped DEF Subscribe, Subscribed, SubStates, Subscribing
  <2>2. subs' = Append(subs, s) /\ Once(subs) /\ ~Has(subs, s)
    BY <1>3, <2>1 DEF EntriesInv, Subscribe
  <2>3. Once(subs') /\ \A u \in Subs : Has(subs', u) <=> Has(subs, u) \/ u = s
    BY <2>2, AppendEntry
  <2> QED
    BY <2>1, <2>3 DEF EntriesInv
<1>4. CASE Erase(s)
  <2>1. /\ sub'[s] \notin Subscribing
        /\ \A u \in Subs : u # s => sub'[u] = sub[u]
    BY <1>4, SubGoesTyped DEF Erase, SubStates, Subscribing
  <2>2. PICK k \in 1..Len(subs) : subs[k] = s /\ subs' = RemoveAt(subs, k)
    BY <1>4 DEF Erase
  <2>3. Once(subs') /\ \A u \in Subs : Has(subs', u) <=> Has(subs, u) /\ u # s
    BY <2>2, RemoveEntry DEF EntriesInv
  <2> QED
    BY <2>1, <2>3 DEF EntriesInv
<1> QED
  BY <1>1, <1>2, <1>3, <1>4 DEF SubStep

LEMMA PublisherSubs ==
    ASSUME NEW p \in Pubs, WriteBegin(p) \/ PubStep(p) \/ ClosePublisher(p)
    PROVE  UNCHANGED <<subs, sub, got, policy, chanClosed, joined>>
BY DEF WriteBegin, PubStep, StoreLast, LockShared, Deliver, WriteEnd, ClosePublisher,
       brokerVars, chanVars

LEMMA EntriesStep == Types /\ EntriesInv /\ [Next]_vars => EntriesInv'
<1>1. ASSUME EntriesInv, UNCHANGED <<subs, sub>> PROVE EntriesInv'
  BY <1>1 DEF EntriesInv
<1>2. UNCHANGED vars => UNCHANGED <<subs, sub>>
  BY DEF vars
<1>3. Close \/ CloserStep => UNCHANGED <<subs, sub>>
  BY CloserTypes DEF brokerVars
<1> QED
  BY <1>1, <1>2, <1>3, PublisherSubs, SubscriberEntries DEF Next

LEMMA SubscriberWrites ==
    ASSUME NEW s \in Subs, NewSubscriber(s) \/ SubStep(s) \/ Recv(s) \/ Unsubscribe(s)
    PROVE  UNCHANGED <<sent, pub>>
BY DEF NewSubscriber, SubStep, ReadLast, Subscribe, Replay, Register, Erase, CloseChannel, Recv,
       Unsubscribe

LEMMA PublisherWrites ==
    ASSUME Types, EntriesInv, WritesInv, NEW p \in Pubs,
           WriteBegin(p) \/ PubStep(p) \/ ClosePublisher(p)
    PROVE  WritesInv'
<1>. DEFINE Good(q, w, t) ==
              /\ w.pc \in Busy => w.n \in DOMAIN t /\ t[w.n] = q
              /\ Once(w.list)
<1>1. \A q \in Pubs : Good(q, pub[q], sent)
  BY DEF WritesInv
<1>2. pub \in [Pubs -> Writes] /\ sent \in Seq(Pubs)
  BY DEF Types
<1>3. SUFFICES \A q \in Pubs : Good(q, pub'[q], sent')
  BY DEF WritesInv
<1>4. CASE WriteBegin(p)
  <2>1. /\ Len(sent) \in Nat /\ Len(sent') = Len(sent) + 1
        /\ sent'[Len(sent) + 1] = p /\ \A i \in 1..Len(sent) : sent'[i] = sent[i]
        /\ DOMAIN sent = 1..Len(sent) /\ DOMAIN sent' = 1..Len(sent) + 1
    BY <1>2, <1>4, AppendProperties DEF WriteBegin
  <2>2. pub'[p].n = Len(sent) + 1 /\ pub'[p].list = pub[p].list
    BY <1>2, <1>4, <2>1 DEF WriteBegin, Writes
  <2>3. \A q \in Pubs : q # p => pub'[q] = pub[q]
    BY <1>2, <1>4 DEF WriteBegin
  <2>4. Good(p, pub'[p], sent')
    BY <1>1, <2>1, <2>2
  <2>5. ASSUME NEW q \in Pubs, q # p PROVE Good(q, pub'[q], sent')
    BY <1>1, <2>1, <2>3, <2>5
  <2> QED
    BY <2>4, <2>5
<1>5. CASE StoreLast(p) \/ LockShared(p) \/ Deliver(p) \/ WriteEnd(p) \/ ClosePublisher(p)
  <2>1. /\ UNCHANGED sent /\ \A q \in Pubs : q # p => pub'[q] = pub[q]
        /\ pub'[p].pc \in Busy => pub[p].pc \in Busy /\ pub'[p].n = pub[p].n
        /\ pub'[p].list \in {pub[p].list, subs, Tail(pub[p].list), <<>>}
        /\ pub'[p].list = Tail(pub[p].list) => pub[p].list # <<>> \/ pub'[p].list = <<>>
    <3>1. CASE StoreLast(p)
      BY <1>2, <3>1 DEF StoreLast, Busy, Writes
    <3>2. CASE LockShared(p)
      BY <1>2, <3>2 DEF LockShared, Busy, Writes
    <3>3. CASE Deliver(p)
      <4>1. PICK s \in Subs : Delivered(p, s, [n |-> pub[p].n, live |-> TRUE])
        BY <3>3, DeliverEffect
      <4> QED
        BY <4>1 DEF Delivered, Busy
    <3>4. CASE WriteEnd(p)
      BY <1>2, <3>4 DEF WriteEnd, IdlePub, Busy, Writes
    <3>5. CASE ClosePublisher(p)
      BY <1>2, <3>5 DEF ClosePublisher, Busy, Writes
    <3> QED
      BY <1>5, <3>1, <3>2, <3>3, <3>4, <3>5
  <2>2. Once(pub'[p].list)
    <3>1. Once(<<>>)
      BY DEF Once
    <3>2. pub[p].list # <<>> => Once(Tail(pub[p].list))
      BY <1>1, <1>2, TailEntry DEF Writes
    <3> QED
      BY <1>1, <2>1, <3>1, <3>2 DEF EntriesInv
  <2>3. Good(p, pub'[p], sent')
    BY <1>1, <2>1, <2>2
  <2> QED
    BY <1>1, <2>1, <2>3
<1> QED
  BY <1>4, <1>5 DEF PubStep

LEMMA WritesStep == Types /\ EntriesInv /\ WritesInv /\ [Next]_vars => WritesInv'
<1>1. ASSUME WritesInv, UNCHANGED <<sent, pub>> PROVE WritesInv'
  BY <1>1 DEF WritesInv
<1>2. UNCHANGED vars => UNCHANGED <<sent, pub>>
  BY DEF vars
<1>3. Close \/ CloserStep => UNCHANGED <<sent, pub>>
  BY CloserTypes
<1> QED
  BY <1>1, <1>2, <1>3, PublisherWrites, SubscriberWrites DEF Next

-----------------------------------------------------------------------------
(* Order.                                                                  *)

(* A step is quiet when no channel gets anything and no write begins. *)
Quiet ==
    /\ UNCHANGED sent
    /\ \A s \in Subs : Line(s)' = Line(s)
    /\ \A p \in Pubs : /\ pub'[p].pc \in Busy => pub[p].pc \in Busy /\ pub'[p].n = pub[p].n
                       /\ \A s \in Subs : Ahead(p, s)' => Ahead(p, s)

LEMMA QuietOrder == OrderInv /\ Quiet => OrderInv'
<1>1. SUFFICES ASSUME OrderInv, Quiet, NEW s \in Subs
               PROVE  InOrder(Line(s))' /\ \A i \in DOMAIN Line(s)' : Older(Line(s)[i], s)'
  BY DEF OrderInv
<1>2. PICK l : l = Line(s)
  OBVIOUS
<1>3. Line(s)' = l /\ UNCHANGED sent
  BY <1>1, <1>2 DEF Quiet
<1>4. InOrder(l) /\ \A i \in DOMAIN l : Older(l[i], s)
  BY <1>1, <1>2 DEF OrderInv
<1>5. InOrder(Line(s))'
  BY <1>3, <1>4 DEF InOrder
<1>6. ASSUME NEW i \in DOMAIN l PROVE Older(Line(s)[i], s)'
  <2>1. Older(l[i], s)
    BY <1>4
  <2>2. \A p \in Pubs : /\ pub'[p].pc \in Busy => pub[p].pc \in Busy /\ pub'[p].n = pub[p].n
                        /\ Ahead(p, s)' => Ahead(p, s)
    BY <1>1 DEF Quiet
  <2> QED
    BY <1>3, <2>1, <2>2 DEF Older
<1> QED
  BY <1>3, <1>5, <1>6

LEMMA WriteBeginOrder ==
    ASSUME Types, OrderInv, NEW p \in Pubs, WriteBegin(p)
    PROVE  OrderInv'
<1>1. /\ Len(sent) \in Nat /\ DOMAIN sent = 1..Len(sent)
      /\ DOMAIN sent' = 1..Len(sent) + 1 /\ Len(sent') = Len(sent) + 1
      /\ \A i \in 1..Len(sent) : sent'[i] = sent[i]
  BY AppendProperties DEF WriteBegin, Types
<1>2. /\ pub'[p].n = Len(sent) + 1
      /\ \A q \in Pubs : q # p => pub'[q] = pub[q]
      /\ UNCHANGED <<got, chan>>
  BY <1>1 DEF WriteBegin, chanVars, Types, Writes
<1>3. SUFFICES ASSUME NEW s \in Subs
               PROVE  InOrder(Line(s))' /\ \A i \in DOMAIN Line(s)' : Older(Line(s)[i], s)'
  BY DEF OrderInv
<1>4. PICK l : l = Line(s)
  OBVIOUS
<1>5. Line(s)' = l
  BY <1>2, <1>4 DEF Line
<1>6. InOrder(l) /\ \A i \in DOMAIN l : Older(l[i], s)
  BY <1>4 DEF OrderInv
<1>7. \A i \in DOMAIN l : l[i].live => l[i].n \in 1..Len(sent)
  BY <1>1, <1>6 DEF Older
<1>8. InOrder(Line(s))'
  BY <1>1, <1>5, <1>6, <1>7 DEF InOrder
<1>9. ASSUME NEW i \in DOMAIN l, l[i].live
      PROVE  Older(l[i], s)'
  <2>1. Older(l[i], s) /\ l[i].n \in 1..Len(sent)
    BY <1>6, <1>7, <1>9
  <2>2. l[i].n < Len(sent) + 1 /\ l[i].n \in DOMAIN sent' /\ sent'[l[i].n] = sent[l[i].n]
    BY <1>1, <2>1
  <2>3. ASSUME NEW q \in Pubs, pub'[q].pc \in Busy, sent'[l[i].n] = q
        PROVE  l[i].n <= pub'[q].n /\ (Ahead(q, s)' => l[i].n < pub'[q].n)
    <3>1. CASE q = p
      BY <1>1, <1>2, <2>1, <3>1
    <3>2. CASE q # p
      BY <1>2, <1>9, <2>1, <2>2, <2>3, <3>2 DEF Older, Ahead
    <3> QED
      BY <3>1, <3>2
  <2> QED
    BY <2>2, <2>3 DEF Older
<1>10. \A i \in DOMAIN l : Older(l[i], s)'
  BY <1>9 DEF Older
<1> QED
  BY <1>5, <1>8, <1>10

(* What goes on with x keeps its order when x, if live, is newer than what *)
(* its publisher sent before.                                              *)
LEMMA GoesOnInOrder ==
    ASSUME NEW old, NEW new, NEW x \in Items, GoesOn(old, new, x), InOrder(old),
           DOMAIN old = 1..Len(old), DOMAIN new = 1..Len(new),
           x.live => \A k \in DOMAIN old : old[k].live /\ sent[old[k].n] = sent[x.n] => old[k].n < x.n
    PROVE  InOrder(new)
<1>1. /\ Len(new) \in Nat \ {0} /\ new[Len(new)] = x
      /\ \A i \in 1..Len(new) - 1 : \E k \in 1..Len(old) : new[i] = old[k]
      /\ \A i, j \in 1..Len(new) - 1 : i < j =>
            \E k, m \in 1..Len(old) : k < m /\ new[i] = old[k] /\ new[j] = old[m]
  BY DEF GoesOn
<1>2. SUFFICES ASSUME NEW i \in DOMAIN new, NEW j \in DOMAIN new, i < j, new[i].live, new[j].live,
                      sent[new[i].n] = sent[new[j].n]
               PROVE  new[i].n < new[j].n
  BY DEF InOrder
<1>3. i \in 1..Len(new) - 1 /\ (j = Len(new) \/ j \in 1..Len(new) - 1)
  BY <1>1, <1>2
<1>4. CASE j = Len(new)
  <2>1. PICK k \in 1..Len(old) : new[i] = old[k]
    BY <1>1, <1>3
  <2> QED
    BY <1>1, <1>2, <1>4, <2>1
<1>5. CASE j \in 1..Len(new) - 1
  <2>1. PICK k \in 1..Len(old), m \in 1..Len(old) : k < m /\ new[i] = old[k] /\ new[j] = old[m]
    BY <1>1, <1>2, <1>3, <1>5
  <2> QED
    BY <1>2, <2>1 DEF InOrder
<1> QED
  BY <1>3, <1>4, <1>5

LEMMA LineTyped ==
    ASSUME Types, NEW s \in Subs
    PROVE  Line(s) \in Seq(Items) /\ DOMAIN Line(s) = 1..Len(Line(s))
<1>1. Line(s) \in Seq(Items)
  BY ConcatProperties DEF Types, Line
<1> QED
  BY <1>1

LEMMA DeliverOrder ==
    ASSUME Types, Types', WritesInv, OrderInv, NEW p \in Pubs, Deliver(p)
    PROVE  OrderInv'
<1>1. PICK x \in Items : x = [n |-> pub[p].n, live |-> TRUE]
  BY DEF Types, Writes, Items
<1>2. PICK s \in Subs : Delivered(p, s, x)
  BY <1>1, DeliverEffect
<1>3. /\ UNCHANGED sent /\ pub[p].pc = "deliver" /\ pub'[p].pc = "deliver" /\ pub'[p].n = pub[p].n
      /\ pub'[p].list = Tail(pub[p].list) /\ pub[p].list # <<>> /\ s = Head(pub[p].list)
      /\ \A q \in Pubs : q # p => pub'[q] = pub[q]
      /\ \A u \in Subs : u # s => Line(u)' = Line(u)
  BY <1>2 DEF Delivered
<1>4. x.n \in DOMAIN sent /\ sent[x.n] = p /\ x.live
  BY <1>1, <1>3 DEF WritesInv, Busy
<1>5. \A u \in Subs : Has(pub'[p].list, u) <=> Has(pub[p].list, u) /\ u # s
  <2>1. pub[p].list \in Seq(Subs) /\ Once(pub[p].list)
    BY DEF WritesInv, Types, Writes
  <2>2. \A u \in Subs : Has(Tail(pub[p].list), u) <=> Has(pub[p].list, u) /\ u # Head(pub[p].list)
    BY <1>3, <2>1, TailEntry
  <2> QED
    BY <1>3, <2>2
<1>6. Ahead(p, s)
  <2>1. pub[p].list \in Seq(Subs)
    BY DEF Types, Writes
  <2>2. 1 \in DOMAIN pub[p].list /\ Head(pub[p].list) = pub[p].list[1]
    BY <1>3, <2>1
  <2> QED
    BY <1>3, <2>2 DEF Ahead, Has
<1>7. \A q \in Pubs : /\ pub'[q].pc = pub[q].pc /\ pub'[q].n = pub[q].n
                      /\ \A u \in Subs : Ahead(q, u)' => Ahead(q, u) /\ (q # p \/ u # s)
  BY <1>3, <1>5 DEF Ahead
<1>8. \A y \in Items, u \in Subs : Older(y, u) => Older(y, u)'
  BY <1>3, <1>7 DEF Older
<1>9. SUFFICES ASSUME NEW u \in Subs
               PROVE  InOrder(Line(u))' /\ \A i \in DOMAIN Line(u)' : Older(Line(u)[i], u)'
  BY DEF OrderInv
<1>10. PICK old \in Seq(Items) : old = Line(u)
  BY LineTyped
<1>11. PICK new \in Seq(Items) : new = Line(u)'
  <2>1. Line(u)' \in Seq(Items)
    BY ConcatProperties DEF Types, Line
  <2> QED
    BY <2>1
<1>12. InOrder(old) /\ \A i \in DOMAIN old : Older(old[i], u)
  BY <1>10 DEF OrderInv
<1>13. \A i \in DOMAIN old : old[i] \in Items
  OBVIOUS
<1>14. CASE new = old
  BY <1>3, <1>8, <1>11, <1>12, <1>13, <1>14 DEF InOrder
<1>15. CASE u = s /\ GoesOn(old, new, x)
  <2>1. \A k \in DOMAIN old : old[k].live /\ sent[old[k].n] = sent[x.n] => old[k].n < x.n
    BY <1>1, <1>3, <1>4, <1>6, <1>12, <1>15 DEF Older, Busy
  <2>2. DOMAIN old = 1..Len(old) /\ DOMAIN new = 1..Len(new)
    OBVIOUS
  <2>3. InOrder(new)
    BY <1>12, <1>15, <2>1, <2>2, GoesOnInOrder
  <2>4. InOrder(Line(u))'
    BY <1>3, <1>11, <2>3 DEF InOrder
  <2>5. Older(x, s)'
    BY <1>1, <1>3, <1>4, <1>7 DEF Older, Items
  <2>6. ASSUME NEW i \in DOMAIN new PROVE Older(new[i], s)'
    <3>1. CASE i = Len(new)
      BY <1>15, <2>5, <3>1 DEF GoesOn
    <3>2. CASE i # Len(new)
      <4>1. i \in 1..Len(new) - 1
        BY <1>15, <2>2, <3>2 DEF GoesOn
      <4>2. PICK k \in DOMAIN old : new[i] = old[k]
        BY <1>15, <2>2, <4>1 DEF GoesOn
      <4> QED
        BY <1>8, <1>12, <1>13, <1>15, <4>2
    <3> QED
      BY <3>1, <3>2
  <2> QED
    BY <1>11, <1>15, <2>4, <2>6
<1> QED
  BY <1>2, <1>3, <1>10, <1>11, <1>14, <1>15 DEF Delivered

LEMMA ReplayOrder ==
    ASSUME Types, Types', OrderInv, NEW s \in Subs, Replay(s)
    PROVE  OrderInv'
<1>1. PICK x \in Items : x = [n |-> lastRead[s], live |-> FALSE]
  BY DEF Types, Items
<1>2. /\ UNCHANGED <<sent, got, pub>>
      /\ chan' = chan \/ chan' = [chan EXCEPT ![s] = Append(chan[s], x)]
  BY <1>1 DEF Replay
<1>3. \A y \in Items, u \in Subs : Older(y, u) => Older(y, u)'
  BY <1>2 DEF Older, Ahead
<1>4. SUFFICES ASSUME NEW u \in Subs
               PROVE  InOrder(Line(u))' /\ \A i \in DOMAIN Line(u)' : Older(Line(u)[i], u)'
  BY DEF OrderInv
<1>5. PICK old \in Seq(Items) : old = Line(u)
  BY LineTyped
<1>6. PICK new \in Seq(Items) : new = Line(u)'
  <2>1. Line(u)' \in Seq(Items)
    BY ConcatProperties DEF Types, Line
  <2> QED
    BY <2>1
<1>7. InOrder(old) /\ \A i \in DOMAIN old : Older(old[i], u)
  BY <1>5 DEF OrderInv
<1>8. \A i \in DOMAIN old : old[i] \in Items
  OBVIOUS
<1>9. new = old \/ GoesOn(old, new, x)
  <2>1. GoesOn(got[u] \o chan[u], got[u] \o Append(chan[u], x), x)
    BY SendGoesOn DEF Types
  <2>2. chan'[u] = chan[u] \/ chan'[u] = Append(chan[u], x)
    BY <1>2 DEF Types
  <2> QED
    BY <1>2, <1>5, <1>6, <2>1, <2>2 DEF Line
<1>10. CASE new = old
  BY <1>2, <1>3, <1>6, <1>7, <1>8, <1>10 DEF InOrder
<1>11. CASE GoesOn(old, new, x)
  <2>1. DOMAIN old = 1..Len(old) /\ DOMAIN new = 1..Len(new)
    OBVIOUS
  <2>2. InOrder(new)
    BY <1>1, <1>7, <1>11, <2>1, GoesOnInOrder
  <2>3. InOrder(Line(u))'
    BY <1>2, <1>6, <2>2 DEF InOrder
  <2>4. ASSUME NEW i \in DOMAIN new PROVE Older(new[i], u)'
    <3>1. CASE i = Len(new)
      BY <1>1, <1>11, <3>1 DEF GoesOn, Older
    <3>2. CASE i # Len(new)
      <4>1. i \in 1..Len(new) - 1
        BY <1>11, <2>1, <3>2 DEF GoesOn
      <4>2. PICK k \in DOMAIN old : new[i] = old[k]
        BY <1>11, <2>1, <4>1 DEF GoesOn
      <4> QED
        BY <1>3, <1>7, <1>8, <4>2
    <3> QED
      BY <3>1, <3>2
  <2> QED
    BY <1>6, <2>3, <2>4
<1> QED
  BY <1>9, <1>10, <1>11

LEMMA QuietPublisher ==
    ASSUME Types, NEW p \in Pubs,
           StoreLast(p) \/ LockShared(p) \/ WriteEnd(p) \/ ClosePublisher(p)
    PROVE  Quiet
<1>1. UNCHANGED <<sent, got, chan>> /\ \A q \in Pubs : q # p => pub'[q] = pub[q]
  BY DEF StoreLast, LockShared, WriteEnd, ClosePublisher, chanVars, Types
<1>2. \A s \in Subs : Line(s)' = Line(s)
  BY <1>1 DEF Line
<1>3. /\ pub'[p].pc \in Busy => pub[p].pc \in Busy /\ pub'[p].n = pub[p].n
      /\ pub'[p].pc \in Busy => pub[p].pc \in {"store", "lock"}
  BY DEF StoreLast, LockShared, WriteEnd, ClosePublisher, Types, Writes, Busy, IdlePub
<1>4. \A s \in Subs : Ahead(p, s)' => Ahead(p, s)
  BY <1>3 DEF Ahead, Busy
<1>5. \A q \in Pubs : q # p => \A s \in Subs : Ahead(q, s)' => Ahead(q, s)
  BY <1>1 DEF Ahead
<1> QED
  BY <1>1, <1>2, <1>3, <1>4, <1>5 DEF Quiet

LEMMA RecvKeepsLines ==
    ASSUME Types, NEW s \in Subs, Recv(s)
    PROVE  \A u \in Subs : Line(u)' = Line(u)
<1>1. got[s] \in Seq(Items) /\ chan[s] \in Seq(Items) /\ chan[s] # <<>>
  BY DEF Recv, Types
<1>2. /\ got'[s] = Append(got[s], Head(chan[s])) /\ chan'[s] = Tail(chan[s])
      /\ \A u \in Subs : u # s => got'[u] = got[u] /\ chan'[u] = chan[u]
  BY DEF Recv, Types
<1>3. Append(got[s], Head(chan[s])) \o Tail(chan[s]) = got[s] \o chan[s]
  BY <1>1, ReceiveKeepsLine
<1>4. ASSUME NEW u \in Subs PROVE Line(u)' = Line(u)
  <2>1. CASE u = s
    BY <1>2, <1>3, <2>1 DEF Line
  <2>2. CASE u # s
    BY <1>2, <2>2 DEF Line
  <2> QED
    BY <2>1, <2>2
<1> QED
  BY <1>4

LEMMA SubscriberLines ==
    ASSUME Types, NEW s \in Subs,
           \/ NewSubscriber(s) \/ ReadLast(s) \/ Subscribe(s) \/ Register(s) \/ Erase(s)
           \/ CloseChannel(s) \/ Recv(s) \/ Unsubscribe(s)
    PROVE  UNCHANGED <<sent, pub>> /\ \A u \in Subs : Line(u)' = Line(u)
<1>1. CASE Recv(s)
  BY <1>1, RecvKeepsLines DEF Recv
<1>2. CASE ~Recv(s)
  <2>1. UNCHANGED <<sent, pub, got, chan>>
    BY <1>2 DEF NewSubscriber, ReadLast, Subscribe, Register, Erase, CloseChannel, Unsubscribe,
                chanVars
  <2> QED
    BY <2>1 DEF Line
<1> QED
  BY <1>1, <1>2

LEMMA OrderStep ==
    Types /\ Types' /\ WritesInv /\ OrderInv /\ [Next]_vars => OrderInv'
<1>1. SUFFICES ASSUME Types, Types', WritesInv, OrderInv, [Next]_vars PROVE OrderInv'
  OBVIOUS
<1>2. ASSUME UNCHANGED <<sent, pub>>, \A u \in Subs : Line(u)' = Line(u) PROVE OrderInv'
  <2>1. Quiet
    BY <1>2 DEF Quiet, Ahead
  <2> QED
    BY <1>1, <2>1, QuietOrder
<1>3. UNCHANGED vars \/ Close \/ CloserStep => UNCHANGED <<sent, pub>> /\ \A u \in Subs : Line(u)' = Line(u)
  BY CloserTypes DEF vars, Line
<1>4. ASSUME NEW p \in Pubs, WriteBegin(p) \/ PubStep(p) \/ ClosePublisher(p) PROVE OrderInv'
  BY <1>1, <1>4, WriteBeginOrder, DeliverOrder, QuietPublisher, QuietOrder DEF PubStep
<1>5. ASSUME NEW s \in Subs, NewSubscriber(s) \/ SubStep(s) \/ Recv(s) \/ Unsubscribe(s) PROVE OrderInv'
  BY <1>1, <1>2, <1>5, ReplayOrder, SubscriberLines DEF SubStep
<1> QED
  BY <1>1, <1>2, <1>3, <1>4, <1>5 DEF Next

LEMMA OrderIInvStep == OrderIInv /\ [Next]_vars => OrderIInv'
BY TypesStep, EntriesStep, WritesStep, OrderStep DEF OrderIInv

-----------------------------------------------------------------------------
(* No loss.                                                                *)

(* A subscriber for which nothing changes but what is added to its line. *)
Steady(s) ==
    /\ sub'[s] = "live" => sub[s] = "live" /\ joined'[s] = joined[s] /\ policy'[s] = policy[s]
    /\ s \notin chanClosed' => s \notin chanClosed

LEMMA BlockSteady ==
    ASSUME NEW s \in Subs, BlockAt(s), Steady(s), UNCHANGED sent,
           Line(s)' = Line(s),
           sub[s] = "live" => \A p \in Pubs : Ahead(p, s) => Ahead(p, s)' /\ pub'[p].n = pub[p].n
    PROVE  BlockAt(s)'
BY DEF BlockAt, Steady

LEMMA BlockSubscriber ==
    ASSUME Types, Types', BlockInv, NEW s \in Subs,
           NewSubscriber(s) \/ SubStep(s) \/ Recv(s) \/ Unsubscribe(s)
    PROVE  BlockInv'
<1>1. SUFFICES ASSUME NEW u \in Subs PROVE BlockAt(u)'
  BY DEF BlockInv
<1>2. BlockAt(u)
  BY DEF BlockInv
<1>3. UNCHANGED <<sent, pub>>
  BY SubscriberWrites
<1>4. u # s => Line(u)' = Line(u)
  BY SubscriberLines DEF SubStep, Replay, Line, Types
<1>5. u # s => Steady(u)
  BY DEF Steady, NewSubscriber, SubStep, ReadLast, Subscribe, Replay, Register, Erase, CloseChannel, Recv,
         Unsubscribe, SubGoes, Types, chanVars
<1>6. CASE u # s
  BY <1>2, <1>3, <1>4, <1>5, <1>6, BlockSteady DEF Ahead
<1>7. CASE u = s /\ Recv(s)
  <2>1. Line(u)' = Line(u) /\ Steady(u)
    BY <1>7, RecvKeepsLines DEF Recv, Steady
  <2> QED
    BY <1>2, <1>3, <2>1, BlockSteady DEF Ahead
<1>8. CASE u = s /\ Register(s)
  <2>1. joined'[s] = Len(sent) /\ Len(sent) \in Nat
    BY <1>8 DEF Register, Types
  <2> QED
    BY <1>3, <1>8, <2>1 DEF BlockAt
<1>9. CASE u = s /\ ~Recv(s) /\ ~Register(s)
  <2>1. sub'[s] # "live"
    BY <1>9, SubGoesTyped DEF NewSubscriber, SubStep, ReadLast, Subscribe, Subscribed, Replay, Erase,
           CloseChannel, Unsubscribe, SubStates, Types
  <2> QED
    BY <1>9, <2>1 DEF BlockAt
<1> QED
  BY <1>6, <1>7, <1>8, <1>9

LEMMA BlockPublisher ==
    ASSUME Types, Types', EntriesInv, BlockInv, NEW p \in Pubs,
           WriteBegin(p) \/ PubStep(p) \/ ClosePublisher(p)
    PROVE  BlockInv'
<1>1. SUFFICES ASSUME NEW s \in Subs PROVE BlockAt(s)'
  BY DEF BlockInv
<1>2. BlockAt(s)
  BY DEF BlockInv
<1>3. Steady(s)
  BY PublisherSubs DEF Steady
<1>4. /\ pub[p] \in Writes /\ pub[p].list \in Seq(Subs)
      /\ sub[s] = "live" => Has(subs, s)
  BY DEF Types, Writes, EntriesInv, Subscribing
<1>5. CASE StoreLast(p) \/ LockShared(p) \/ WriteEnd(p) \/ ClosePublisher(p)
  <2>1. Line(s)' = Line(s) /\ UNCHANGED sent /\ \A q \in Pubs : q # p => pub'[q] = pub[q]
    BY <1>5 DEF StoreLast, LockShared, WriteEnd, ClosePublisher, Types, chanVars, Line
  <2>2. ASSUME sub[s] = "live", Ahead(p, s) PROVE Ahead(p, s)' /\ pub'[p].n = pub[p].n
    <3>1. CASE StoreLast(p)
      BY <3>1 DEF StoreLast, Ahead, Types, Writes
    <3>2. CASE LockShared(p)
      BY <1>4, <2>2, <3>2 DEF LockShared, Ahead, Types, Writes
    <3>3. CASE WriteEnd(p)
      BY <2>2, <3>3 DEF WriteEnd, Ahead, Has
    <3>4. CASE ClosePublisher(p)
      BY <2>2, <3>4 DEF ClosePublisher, Ahead
    <3> QED
      BY <1>5, <3>1, <3>2, <3>3, <3>4
  <2>3. \A q \in Pubs : q # p /\ Ahead(q, s) => Ahead(q, s)' /\ pub'[q].n = pub[q].n
    BY <2>1 DEF Ahead
  <2> QED
    BY <1>2, <1>3, <2>1, <2>2, <2>3, BlockSteady
<1>6. CASE WriteBegin(p)
  <2>1. Line(s)' = Line(s) /\ \A q \in Pubs : q # p => pub'[q] = pub[q]
    BY <1>6 DEF WriteBegin, Types, chanVars, Line
  <2>2. Len(sent) \in Nat /\ Len(sent') = Len(sent) + 1
    BY <1>6, AppendProperties DEF WriteBegin, Types
  <2>3. pub'[p].n = Len(sent) + 1 /\ Ahead(p, s)' /\ ~Ahead(p, s)
    BY <1>4, <1>6, <2>2 DEF WriteBegin, Types, Writes, Ahead
  <2>4. \A q \in Pubs : Ahead(q, s) => Ahead(q, s)' /\ pub'[q].n = pub[q].n
    BY <2>1, <2>3 DEF Ahead
  <2>5. SUFFICES ASSUME sub'[s] = "live", s \notin chanClosed', policy'[s] = "Block",
                        NEW n \in joined'[s] + 1..Len(sent'), n \in Accepts[s]
                 PROVE  \/ \E i \in DOMAIN Line(s)' : Line(s)'[i] = [n |-> n, live |-> TRUE]
                        \/ \E q \in Pubs : pub'[q].n = n /\ Ahead(q, s)'
    BY DEF BlockAt
  <2>6. joined[s] \in Nat /\ joined'[s] = joined[s]
    BY PublisherSubs DEF Types
  <2>7. CASE n = Len(sent) + 1
    BY <2>3, <2>7
  <2>8. CASE n \in joined[s] + 1..Len(sent)
    BY <1>2, <1>3, <2>1, <2>4, <2>5, <2>8 DEF BlockAt, Steady
  <2> QED
    BY <2>2, <2>5, <2>6, <2>7, <2>8
<1>7. CASE Deliver(p)
  <2>1. PICK x \in Items : x = [n |-> pub[p].n, live |-> TRUE]
    BY DEF Types, Writes, Items
  <2>2. PICK u \in Subs : Delivered(p, u, x)
    BY <1>7, <2>1, DeliverEffect
  <2>3. /\ UNCHANGED sent /\ pub[p].pc = "deliver" /\ pub'[p].pc = "deliver" /\ pub'[p].n = pub[p].n
        /\ pub'[p].list = Tail(pub[p].list) /\ pub[p].list # <<>> /\ u = Head(pub[p].list)
        /\ \A q \in Pubs : q # p => pub'[q] = pub[q]
        /\ \A v \in Subs : v # u => Line(v)' = Line(v)
    BY <2>2 DEF Delivered
  <2>4. \A q \in Pubs : /\ pub'[q].n = pub[q].n
                        /\ Ahead(q, s) => Ahead(q, s)' \/ (q = p /\ s = u)
    <3>1. \A i \in DOMAIN pub[p].list : i = 1 \/ (i - 1 \in DOMAIN Tail(pub[p].list) /\ Tail(pub[p].list)[i - 1] = pub[p].list[i])
      BY <1>4, <2>3, HeadTailProperties
    <3>2. Head(pub[p].list) = pub[p].list[1]
      BY <1>4, <2>3
    <3>3. Has(pub[p].list, s) => Has(pub'[p].list, s) \/ s = u
      BY <2>3, <3>1, <3>2 DEF Has
    <3> QED
      BY <2>3, <3>3 DEF Ahead
  <2>5. CASE s # u
    BY <1>2, <1>3, <2>3, <2>4, <2>5, BlockSteady
  <2>6. CASE s = u
    <3>1. SUFFICES ASSUME sub'[s] = "live", s \notin chanClosed', policy'[s] = "Block",
                          NEW n \in joined'[s] + 1..Len(sent'), n \in Accepts[s]
                   PROVE  \/ \E i \in DOMAIN Line(s)' : Line(s)'[i] = [n |-> n, live |-> TRUE]
                          \/ \E q \in Pubs : pub'[q].n = n /\ Ahead(q, s)'
      BY DEF BlockAt
    <3>2. \/ \E i \in DOMAIN Line(s) : Line(s)[i] = [n |-> n, live |-> TRUE]
          \/ \E q \in Pubs : pub[q].n = n /\ Ahead(q, s)
      BY <1>2, <1>3, <2>3, <3>1 DEF BlockAt, Steady
    <3>3. policy[s] = "Block" /\ s \notin chanClosed
      BY <3>1, PublisherSubs
    <3>4. /\ DOMAIN Line(s) = 1..Len(Line(s))
          /\ DOMAIN Line(s)' = 1..Len(Line(s)')
      <4>1. Line(s)' \in Seq(Items)
        BY ConcatProperties DEF Types, Line
      <4> QED
        BY <4>1, LineTyped
    <3>5. CASE \E i \in DOMAIN Line(s) : Line(s)[i] = [n |-> n, live |-> TRUE]
      <4>1. Kept(Line(s), Line(s)')
        BY <2>2, <2>6, <3>3 DEF Delivered
      <4> QED
        BY <3>4, <3>5, <4>1 DEF Kept
    <3>6. CASE pub[p].n = n
      <4>1. GoesOn(Line(s), Line(s)', x)
        BY <2>1, <2>2, <2>6, <3>1, <3>3, <3>6 DEF Delivered
      <4> QED
        BY <2>1, <3>4, <3>6, <4>1 DEF GoesOn
    <3>7. CASE \E q \in Pubs : q # p /\ pub[q].n = n /\ Ahead(q, s)
      BY <2>4, <3>7
    <3> QED
      BY <3>2, <3>5, <3>6, <3>7
  <2> QED
    BY <2>5, <2>6
<1> QED
  BY <1>5, <1>6, <1>7 DEF PubStep

LEMMA BlockCloser ==
    ASSUME BlockInv, UNCHANGED vars \/ Close \/ CloserStep
    PROVE  BlockInv'
<1>1. SUFFICES ASSUME NEW s \in Subs PROVE BlockAt(s)'
  BY DEF BlockInv
<1>2. UNCHANGED <<sent, policy, chan, got, pub, sub, joined>>
  BY CloserTypes DEF vars
<1>3. chanClosed \subseteq chanClosed'
  BY DEF vars, Close, CloserStep, LockSubs, CloseNext, CloseDone, chanVars
<1>4. BlockAt(s) /\ Steady(s) /\ Line(s)' = Line(s) /\ \A p \in Pubs : Ahead(p, s)' <=> Ahead(p, s)
  BY <1>2, <1>3 DEF BlockInv, Steady, Line, Ahead
<1> QED
  BY <1>2, <1>4, BlockSteady

LEMMA BlockStep ==
    Types /\ Types' /\ EntriesInv /\ BlockInv /\ [Next]_vars => BlockInv'
BY BlockCloser, BlockPublisher, BlockSubscriber DEF Next

(* A subscriber that asked to block the publisher misses no sample written *)
(* after new_subscriber() returned and accepted by its filter, while it is *)
(* subscribed and its channel is open, for any numbers, depth and filters: *)
(* a write that has its sequence number finds the entry when it takes mu_  *)
(* (mock/participant.cpp, MockPublisher::write, Broker::publish).          *)
THEOREM BlockMissesNothing == Spec => []BlockLosesNothing
<1>1. BlockInv => BlockLosesNothing
  <2>1. SUFFICES ASSUME BlockInv, NEW s \in Subs,
                        sub[s] = "live", s \notin chanClosed, policy[s] = "Block",
                        NEW n \in joined[s] + 1..Len(sent), Finished(n), n \in Accepts[s]
                 PROVE  [n |-> n, live |-> TRUE] \in ToSet(Line(s))
    BY DEF BlockLosesNothing
  <2>2. \E i \in DOMAIN Line(s) : Line(s)[i] = [n |-> n, live |-> TRUE]
    BY <2>1 DEF BlockInv, BlockAt, Finished
  <2> QED
    BY <2>2 DEF ToSet
<1>2. Types /\ EntriesInv /\ BlockInv /\ [Next]_vars => (Types /\ EntriesInv /\ BlockInv)'
  BY TypesStep, EntriesStep, BlockStep
<1>3. Init => Types /\ EntriesInv /\ BlockInv
  BY DeliveryInit DEF OrderIInv
<1> QED
  BY <1>1, <1>2, <1>3, PTL DEF Spec, Safety

-----------------------------------------------------------------------------
(* Who holds mu_.                                                          *)

(* mu_ is held shared by those that deliver; what they have yet to serve   *)
(* is subscribed as long as they hold it.                                  *)
HeldInv ==
    /\ readers \subseteq Pubs
    /\ \A p \in Pubs :
          /\ pub[p].pc = "deliver" <=> p \in readers
          /\ p \notin readers => pub[p].list = <<>>
          /\ \A i \in DOMAIN pub[p].list : Has(subs, pub[p].list[i])

(* The next iteration of p's delivery loop, or its end, waits for nobody. *)
DeliveryGoesOn(p) ==
    \/ pub[p].list = <<>>
    \/ pub[p].n \notin Accepts[Head(pub[p].list)]
    \/ Outcomes(Head(pub[p].list), [n |-> pub[p].n, live |-> TRUE]) # {}

(* It waits for room in the open, full channel of a subscriber that asked  *)
(* for Block and has not been unsubscribed.                                *)
AwaitsRoom(p) ==
    \E s \in Subs : /\ pub[p].list # <<>> /\ s = Head(pub[p].list)
                    /\ policy[s] = "Block" /\ s \notin chanClosed /\ Full(s)
                    /\ sub[s] \in Subscribing

LEMMA HeldPublisher ==
    ASSUME Types, Types', HeldInv, NEW p \in Pubs,
           WriteBegin(p) \/ PubStep(p) \/ ClosePublisher(p)
    PROVE  HeldInv'
<1>. DEFINE Good(q, w, r, u) == /\ w.pc = "deliver" <=> q \in r
                                /\ q \notin r => w.list = <<>>
                                /\ \A i \in DOMAIN w.list : Has(u, w.list[i])
<1>0. UNCHANGED subs
  BY PublisherSubs
<1>1. ASSUME readers' \subseteq Pubs, Good(p, pub'[p], readers', subs),
             \A q \in Pubs \ {p} : pub'[q] = pub[q] /\ (q \in readers' <=> q \in readers)
      PROVE  HeldInv'
  <2>1. SUFFICES ASSUME NEW q \in Pubs PROVE Good(q, pub'[q], readers', subs)
    BY <1>0, <1>1 DEF HeldInv
  <2>2. CASE q = p
    BY <1>1, <2>2
  <2>3. CASE q # p
    <3>1. Good(q, pub[q], readers, subs)
      BY DEF HeldInv
    <3> QED
      BY <1>1, <2>3, <3>1
  <2> QED
    BY <2>2, <2>3
<1>2. pub[p] \in Writes /\ pub \in [Pubs -> Writes] /\ Good(p, pub[p], readers, subs) /\ readers \subseteq Pubs
  BY DEF Types, HeldInv
<1>3. CASE WriteBegin(p) \/ StoreLast(p) \/ ClosePublisher(p)
  <2>1. /\ pub[p].pc # "deliver" /\ pub'[p].pc # "deliver" /\ pub'[p].list = pub[p].list
        /\ \A q \in Pubs \ {p} : pub'[q] = pub[q]
    BY <1>2, <1>3 DEF WriteBegin, StoreLast, ClosePublisher, Writes
  <2>2. UNCHANGED readers
    BY <1>3 DEF WriteBegin, StoreLast, ClosePublisher, brokerVars
  <2> QED
    BY <1>1, <1>2, <2>1, <2>2
<1>4. CASE LockShared(p)
  <2>1. /\ readers' = readers \cup {p} /\ pub'[p].pc = "deliver" /\ pub'[p].list = subs
        /\ \A q \in Pubs \ {p} : pub'[q] = pub[q]
    BY <1>2, <1>4 DEF LockShared, Writes
  <2>2. \A i \in DOMAIN subs : Has(subs, subs[i])
    BY DEF Has
  <2> QED
    BY <1>1, <1>2, <2>1, <2>2
<1>5. CASE Deliver(p)
  <2>1. PICK s \in Subs : Delivered(p, s, [n |-> pub[p].n, live |-> TRUE])
    BY <1>5, DeliverEffect
  <2>2. UNCHANGED readers
    BY <1>5 DEF Deliver, brokerVars
  <2>3. /\ pub[p].list # <<>> /\ pub'[p].list = Tail(pub[p].list) /\ pub[p].pc = "deliver"
        /\ pub'[p].pc = "deliver" /\ \A q \in Pubs \ {p} : pub'[q] = pub[q]
    BY <2>1 DEF Delivered
  <2>4. ASSUME NEW i \in DOMAIN pub'[p].list PROVE Has(subs, pub'[p].list[i])
    <3>1. pub[p].list \in Seq(Subs)
      BY <1>2 DEF Writes
    <3>2. i + 1 \in DOMAIN pub[p].list /\ pub'[p].list[i] = pub[p].list[i + 1]
      BY <2>3, <2>4, <3>1, HeadTailProperties
    <3> QED
      BY <1>2, <3>2
  <2> QED
    BY <1>1, <1>2, <2>2, <2>3, <2>4
<1>6. CASE WriteEnd(p)
  <2>1. /\ readers' = readers \ {p} /\ pub'[p].pc = "idle" /\ pub'[p].list = <<>>
        /\ \A q \in Pubs \ {p} : pub'[q] = pub[q]
    BY <1>2, <1>6 DEF WriteEnd, IdlePub
  <2> QED
    BY <1>1, <1>2, <2>1
<1> QED
  BY <1>3, <1>4, <1>5, <1>6 DEF PubStep

(* subscribe() and unsubscribe() change the entries while nobody delivers. *)
LEMMA HeldStep == Types /\ Types' /\ HeldInv /\ [Next]_vars => HeldInv'
<1> SUFFICES ASSUME Types, Types', HeldInv, [Next]_vars PROVE HeldInv'
  OBVIOUS
<1>1. CASE UNCHANGED <<pub, readers, subs>>
  BY <1>1 DEF HeldInv
<1>2. ASSUME NEW s \in Subs, NewSubscriber(s) \/ SubStep(s) \/ Recv(s) \/ Unsubscribe(s)
      PROVE  HeldInv'
  <2>1. UNCHANGED <<pub, readers>> /\ (subs' = subs \/ readers = {})
    BY <1>2, SubscriberWrites DEF NewSubscriber, SubStep, ReadLast, Subscribe, Replay, Register,
                Erase, CloseChannel, Recv, Unsubscribe, brokerVars
  <2>2. CASE readers = {}
    <3>1. \A p \in Pubs : pub[p].list = <<>>
      BY <2>2 DEF HeldInv
    <3> QED
      BY <2>1, <2>2, <3>1 DEF HeldInv
  <2> QED
    BY <1>1, <2>1, <2>2
<1>3. CASE Close \/ CloserStep
  BY <1>1, <1>3, CloserTypes DEF brokerVars
<1>4. CASE UNCHANGED vars
  BY <1>1, <1>4 DEF vars
<1> QED
  BY <1>2, <1>3, <1>4, HeldPublisher DEF Next

(* unsubscribe() waits for mu_ only, and every publisher that holds mu_    *)
(* goes on, or waits for room in the full channel of a Block subscriber    *)
(* that is still subscribed: nothing else can keep unsubscribe(), or       *)
(* new_subscriber(), from its lock (mock/participant.cpp, Broker::publish, *)
(* Broker::unsubscribe).                                                   *)
THEOREM LockAwaitsOnlyRoom ==
    Spec => [](/\ \A s \in Subs : sub[s] = "unsubscribing" => \E i \in DOMAIN subs : subs[i] = s
               /\ \A p \in readers : pub[p].pc = "deliver" /\ (DeliveryGoesOn(p) \/ AwaitsRoom(p)))
<1>1. Init => HeldInv
  BY DEF Init, HeldInv, IdlePub
<1>2. Types /\ EntriesInv /\ HeldInv =>
        /\ \A s \in Subs : sub[s] = "unsubscribing" => \E i \in DOMAIN subs : subs[i] = s
        /\ \A p \in readers : pub[p].pc = "deliver" /\ (DeliveryGoesOn(p) \/ AwaitsRoom(p))
  <2> SUFFICES ASSUME Types, EntriesInv, HeldInv
               PROVE  /\ \A s \in Subs : sub[s] = "unsubscribing" => \E i \in DOMAIN subs : subs[i] = s
                      /\ \A p \in readers : pub[p].pc = "deliver" /\ (DeliveryGoesOn(p) \/ AwaitsRoom(p))
    OBVIOUS
  <2>1. \A s \in Subs : sub[s] = "unsubscribing" => \E i \in DOMAIN subs : subs[i] = s
    BY DEF EntriesInv, Subscribing, Has
  <2>2. ASSUME NEW p \in readers, ~DeliveryGoesOn(p) PROVE AwaitsRoom(p)
    <3>1. p \in Pubs /\ pub[p].list \in Seq(Subs) /\ pub[p].list # <<>>
      BY <2>2 DEF HeldInv, Types, Writes, DeliveryGoesOn
    <3>2. PICK s \in Subs : s = Head(pub[p].list) /\ s = pub[p].list[1] /\ 1 \in DOMAIN pub[p].list
      BY <3>1, HeadTailProperties
    <3>3. Outcomes(s, [n |-> pub[p].n, live |-> TRUE]) = {}
      BY <2>2, <3>2 DEF DeliveryGoesOn
    <3>4. s \notin chanClosed /\ Full(s) /\ policy[s] \notin {"DropNewest", "DropOldest"}
      BY <3>3 DEF Outcomes
    <3>5. policy[s] = "Block"
      BY <3>4 DEF Types, Policies
    <3>6. sub[s] \in Subscribing
      BY <3>1, <3>2 DEF HeldInv, EntriesInv
    <3> QED
      BY <3>1, <3>2, <3>4, <3>5, <3>6 DEF AwaitsRoom
  <2>3. \A p \in readers : pub[p].pc = "deliver"
    BY DEF HeldInv
  <2> QED
    BY <2>1, <2>2, <2>3
<1>3. Init => Types /\ EntriesInv
  BY DeliveryInit DEF OrderIInv
<1> QED
  BY <1>1, <1>2, <1>3, TypesStep, EntriesStep, HeldStep, PTL DEF Spec, Safety

-----------------------------------------------------------------------------
(* The hand-over of the last sample.                                       *)

(* Sample n has been written, and a write in progress of its publisher is  *)
(* of n or of a newer one.                                                 *)
Current(n) ==
    /\ n \in DOMAIN sent
    /\ \A p \in Pubs : pub[p].pc \in Busy /\ sent[n] = p => n <= pub[p].n

(* What line has live of the publisher of n is not older than n. *)
Behind(n, line) ==
    \A i \in DOMAIN line : line[i].live /\ sent[line[i].n] = sent[n] => n <= line[i].n

Early == {"none", "checked", "read"}

(* A subscriber at st with n read and line delivered has nothing before it *)
(* subscribes, has been offered nothing older than n between its reading n *)
(* and its being handed n, and is handed one sample at most.               *)
HandedOver(line, st, n) ==
    /\ st \in Early => line = <<>>
    /\ st = "read" /\ n # 0 => Current(n)
    /\ st = "replay" => Current(n) /\ Behind(n, line)
    /\ \A i \in DOMAIN line :
          ~line[i].live => /\ st # "replay"
                           /\ Current(line[i].n) /\ Behind(line[i].n, line)
                           /\ \A j \in DOMAIN line : ~line[j].live => i = j

HandOverInv ==
    /\ last # 0 => Current(last)
    /\ \A s \in Subs : HandedOver(Line(s), sub[s], lastRead[s])

(* What holds of written samples goes on to hold of them. *)
Onward ==
    /\ \A i \in DOMAIN sent : i \in DOMAIN sent' /\ sent'[i] = sent[i]
    /\ \A n \in DOMAIN sent : Current(n) => Current(n)'

LEMMA GoesOnward ==
    ASSUME Types, Types', [Next]_vars
    PROVE  Onward
<1>1. ASSUME UNCHANGED <<sent, pub>> PROVE Onward
  BY <1>1 DEF Onward, Current
<1>2. ASSUME NEW p \in Pubs, WriteBegin(p) PROVE Onward
  <2>1. /\ DOMAIN sent = 1..Len(sent) /\ DOMAIN sent' = 1..Len(sent) + 1 /\ Len(sent) \in Nat
        /\ Len(sent') = Len(sent) + 1
        /\ \A i \in 1..Len(sent) : sent'[i] = sent[i]
    BY <1>2, AppendProperties DEF WriteBegin, Types
  <2>2. pub'[p].n = Len(sent) + 1 /\ \A q \in Pubs : q # p => pub'[q] = pub[q]
    BY <1>2, <2>1 DEF WriteBegin, Types, Writes
  <2>3. ASSUME NEW n \in DOMAIN sent, Current(n) PROVE Current(n)'
    <3>1. ASSUME NEW q \in Pubs, pub'[q].pc \in Busy, sent'[n] = q PROVE n <= pub'[q].n
      <4>1. CASE q = p
        BY <2>1, <2>2, <2>3, <4>1
      <4>2. CASE q # p
        BY <2>1, <2>2, <2>3, <3>1, <4>2 DEF Current
      <4> QED
        BY <4>1, <4>2
    <3> QED
      BY <2>1, <2>3, <3>1 DEF Current
  <2> QED
    BY <2>1, <2>3 DEF Onward
<1>3. ASSUME NEW p \in Pubs, PubStep(p) \/ ClosePublisher(p) PROVE Onward
  <2>1. UNCHANGED sent /\ \A q \in Pubs : pub'[q].pc \in Busy => pub[q].pc \in Busy /\ pub'[q].n = pub[q].n
    <3>1. CASE Deliver(p)
      <4>1. PICK s \in Subs : Delivered(p, s, [n |-> pub[p].n, live |-> TRUE])
        BY <3>1, DeliverEffect
      <4> QED
        BY <4>1 DEF Delivered, Busy
    <3>2. CASE ~Deliver(p)
      BY <1>3, <3>2, QuietPublisher DEF PubStep, Quiet
    <3> QED
      BY <3>1, <3>2
  <2> QED
    BY <2>1 DEF Onward, Current
<1>4. ASSUME NEW s \in Subs, NewSubscriber(s) \/ SubStep(s) \/ Recv(s) \/ Unsubscribe(s) PROVE Onward
  BY <1>1, <1>4, SubscriberWrites
<1>5. Close \/ CloserStep \/ UNCHANGED vars => Onward
  BY <1>1, CloserTypes DEF vars
<1> QED
  BY <1>2, <1>3, <1>4, <1>5 DEF Next

LEMMA HandedOverOnward ==
    ASSUME NEW line \in Seq(Items), NEW st, NEW n, HandedOver(line, st, n), Onward,
           \A i \in DOMAIN line : line[i].live => line[i].n \in DOMAIN sent
    PROVE  HandedOver(line, st, n)'
<1>1. \A m : Current(m) => m \in DOMAIN sent /\ Current(m)'
  BY DEF Onward, Current
<1>2. ASSUME NEW m, Current(m), Behind(m, line) PROVE Behind(m, line)'
  <2>1. m \in DOMAIN sent /\ sent'[m] = sent[m]
    BY <1>1, <1>2 DEF Onward
  <2>2. \A i \in DOMAIN line : line[i].live => sent'[line[i].n] = sent[line[i].n]
    BY DEF Onward
  <2> QED
    BY <1>2, <2>1, <2>2 DEF Behind
<1> QED
  BY <1>1, <1>2 DEF HandedOver

(* A subscriber's own step, when nothing is delivered. *)
LEMMA HandedOverMoves ==
    ASSUME NEW line, NEW st, NEW n, NEW to, NEW m, HandedOver(line, st, n),
           to \in Early => st \in Early,
           to = "read" /\ m # 0 => Current(m),
           to = "replay" => m = n /\ (st = "replay" \/ (st = "read" /\ n # 0))
    PROVE  HandedOver(line, to, m)
BY DEF HandedOver, Early, Behind

(* What goes on with x: live and not older than what was handed over, or   *)
(* the sample that is handed over now.                                     *)
LEMMA HandedOverGoesOn ==
    ASSUME NEW old \in Seq(Items), NEW new \in Seq(Items), NEW x \in Items, GoesOn(old, new, x),
           NEW st, NEW to, NEW n, NEW m, HandedOver(old, st, n), to \notin Early,
           \/ /\ x.live /\ to = st /\ m = n
              /\ \A k : Current(k) /\ sent[k] = sent[x.n] => k <= x.n
           \/ ~x.live /\ st = "replay" /\ to # "replay" /\ x.n = n
    PROVE  HandedOver(new, to, m)
<1>1. /\ DOMAIN old = 1..Len(old) /\ DOMAIN new = 1..Len(new) /\ Len(new) \in Nat \ {0}
      /\ new[Len(new)] = x
      /\ \A i \in 1..Len(new) - 1 : \E k \in 1..Len(old) : new[i] = old[k]
      /\ \A i, j \in 1..Len(new) - 1 : i < j =>
            \E k, l \in 1..Len(old) : k < l /\ new[i] = old[k] /\ new[j] = old[l]
  <2>1. DOMAIN old = 1..Len(old) /\ DOMAIN new = 1..Len(new)
    OBVIOUS
  <2> QED
    BY <2>1 DEF GoesOn
<1>2. \A i \in DOMAIN new : i = Len(new) \/ i \in 1..Len(new) - 1
  BY <1>1
<1>3. ASSUME NEW k, Behind(k, old), x.live /\ sent[x.n] = sent[k] => k <= x.n
      PROVE  Behind(k, new)
  <2>1. SUFFICES ASSUME NEW i \in DOMAIN new, new[i].live, sent[new[i].n] = sent[k]
                 PROVE  k <= new[i].n
    BY DEF Behind
  <2>2. CASE i = Len(new)
    BY <1>1, <1>3, <2>1, <2>2
  <2>3. CASE i \in 1..Len(new) - 1
    <3>1. PICK j \in DOMAIN old : new[i] = old[j]
      BY <1>1, <2>3
    <3>2. old[j].live /\ sent[old[j].n] = sent[k]
      BY <2>1, <3>1
    <3> QED
      BY <1>3, <3>1, <3>2 DEF Behind
  <2> QED
    BY <1>2, <2>2, <2>3
<1>4. ASSUME NEW k, Current(k), Behind(k, old), x.live PROVE Behind(k, new)
  BY <1>3, <1>4
<1>5. CASE x.live /\ to = st /\ m = n
  <2>1. to = "replay" => Current(m) /\ Behind(m, new)
    BY <1>4, <1>5 DEF HandedOver
  <2>2. ASSUME NEW i \in DOMAIN new, ~new[i].live
        PROVE  /\ to # "replay" /\ Current(new[i].n) /\ Behind(new[i].n, new)
               /\ \A j \in DOMAIN new : ~new[j].live => i = j
    <3>1. i \in 1..Len(new) - 1
      BY <1>1, <1>2, <1>5, <2>2
    <3>2. PICK k \in DOMAIN old : new[i] = old[k]
      BY <1>1, <3>1
    <3>3. to # "replay" /\ Current(new[i].n) /\ Behind(new[i].n, new)
      BY <1>4, <1>5, <2>2, <3>2 DEF HandedOver
    <3>4. ASSUME NEW j \in DOMAIN new, ~new[j].live, i # j PROVE FALSE
      <4>1. j \in 1..Len(new) - 1 /\ (i < j \/ j < i)
        BY <1>1, <1>2, <1>5, <3>1, <3>4
      <4>2. PICK a \in 1..Len(old), b \in 1..Len(old) :
                a < b /\ ~old[a].live /\ ~old[b].live
        <5>1. CASE i < j
          <6>1. PICK a \in 1..Len(old), b \in 1..Len(old) : a < b /\ new[i] = old[a] /\ new[j] = old[b]
            BY <1>1, <3>1, <4>1, <5>1
          <6> QED
            BY <2>2, <3>4, <6>1
        <5>2. CASE j < i
          <6>1. PICK a \in 1..Len(old), b \in 1..Len(old) : a < b /\ new[j] = old[a] /\ new[i] = old[b]
            BY <1>1, <3>1, <4>1, <5>2
          <6> QED
            BY <2>2, <3>4, <6>1
        <5> QED
          BY <4>1, <5>1, <5>2
      <4> QED
        BY <1>1, <4>2 DEF HandedOver
    <3> QED
      BY <3>3, <3>4
  <2> QED
    BY <1>5, <2>1, <2>2 DEF HandedOver, Early
<1>6. CASE ~x.live /\ st = "replay" /\ to # "replay" /\ x.n = n
  <2>1. \A k \in DOMAIN old : old[k].live
    BY <1>6 DEF HandedOver
  <2>2. \A i \in DOMAIN new : ~new[i].live => i = Len(new)
    BY <1>1, <1>2, <2>1
  <2>3. Current(x.n) /\ Behind(x.n, new)
    BY <1>3, <1>6 DEF HandedOver
  <2> QED
    BY <1>1, <1>6, <2>2, <2>3 DEF HandedOver, Early
<1> QED
  BY <1>5, <1>6

(* A subscriber's steps but the hand-over deliver nothing. *)
LEMMA SubscriberMoves ==
    ASSUME Types, Types', OrderInv, HandOverInv, Onward, NEW s \in Subs,
           \/ NewSubscriber(s) \/ ReadLast(s) \/ Subscribe(s) \/ Register(s) \/ Erase(s)
           \/ CloseChannel(s) \/ Recv(s) \/ Unsubscribe(s),
           NEW u \in Subs
    PROVE  HandedOver(Line(u), sub[u], lastRead[u])'
<1>1. PICK l \in Seq(Items) : l = Line(u)
  BY LineTyped
<1>2. Line(u)' = l
  BY <1>1, SubscriberLines
<1>3. PICK st, n : st = sub[u] /\ n = lastRead[u] /\ HandedOver(l, st, n)
  BY <1>1 DEF HandOverInv
<1>4. PICK to, m : to = sub'[u] /\ m = lastRead'[u]
  OBVIOUS
<1>5. \A i \in DOMAIN l : l[i].live => l[i].n \in DOMAIN sent
  BY <1>1 DEF OrderInv, Older
<1>6. /\ to \in Early => st \in Early
      /\ to = "read" /\ m # 0 => Current(m)
      /\ to = "replay" => m = n /\ (st = "replay" \/ (st = "read" /\ n # 0))
  <2>1. CASE u # s \/ Recv(s)
    <3>1. to = st /\ m = n
      BY <1>3, <1>4, <2>1 DEF NewSubscriber, ReadLast, Subscribe, Register, Erase,
             CloseChannel, Recv, Unsubscribe, SubGoes, Types
    <3>2. st = "replay" => n # 0 \/ st = "replay"
      OBVIOUS
    <3> QED
      BY <1>3, <3>1 DEF HandedOver
  <2>2. CASE u = s /\ ReadLast(s)
    <3>1. st = "checked" /\ to = "read" /\ m \in {0, last}
      BY <1>3, <1>4, <2>2, SubGoesTyped DEF ReadLast, SubStates, Types
    <3> QED
      BY <3>1 DEF HandOverInv, Early
  <2>3. CASE u = s /\ Subscribe(s)
    <3>1. st = "read" /\ to = Subscribed(s) /\ m = n
      BY <1>3, <1>4, <2>3, SubGoesTyped DEF Subscribe, Subscribed, SubStates, Types
    <3> QED
      BY <1>3, <2>3, <3>1 DEF Subscribed, Wanted, Early
  <2>4. CASE u = s /\ (NewSubscriber(s) \/ Register(s) \/ Erase(s) \/ CloseChannel(s) \/ Unsubscribe(s))
    <3>1. to \notin {"read", "replay"} /\ (to \in Early => st \in Early)
      BY <1>3, <1>4, <2>4, SubGoesTyped DEF NewSubscriber, Register, Erase, CloseChannel,
             Unsubscribe, SubStates, Early, Types
    <3> QED
      BY <3>1
  <2> QED
    BY <2>1, <2>2, <2>3, <2>4
<1>7. HandedOver(l, to, m)
  BY <1>3, <1>6, HandedOverMoves
<1>8. HandedOver(l, to, m)'
  BY <1>5, <1>7, HandedOverOnward
<1> QED
  BY <1>2, <1>4, <1>8

(* The hand-over itself. *)
LEMMA ReplayMoves ==
    ASSUME Types, Types', OrderInv, HandOverInv, Onward, NEW s \in Subs, Replay(s), NEW u \in Subs
    PROVE  HandedOver(Line(u), sub[u], lastRead[u])'
<1>1. PICK x \in Items : x = [n |-> lastRead[s], live |-> FALSE]
  BY DEF Types, Items
<1>2. PICK old \in Seq(Items) : old = Line(u)
  BY LineTyped
<1>3. PICK new \in Seq(Items) : new = Line(u)'
  <2>1. Line(u)' \in Seq(Items)
    BY ConcatProperties DEF Types, Line
  <2> QED
    BY <2>1
<1>4. PICK st, n : st = sub[u] /\ n = lastRead[u] /\ HandedOver(old, st, n)
  BY <1>2 DEF HandOverInv
<1>5. PICK to, m : to = sub'[u] /\ m = lastRead'[u]
  OBVIOUS
<1>6. /\ UNCHANGED <<sent, pub, lastRead, got>>
      /\ u # s => to = st
      /\ u = s => st = "replay" /\ to = "register"
      /\ chan' = chan \/ chan' = [chan EXCEPT ![s] = Append(chan[s], x)]
  BY <1>1, <1>4, <1>5, SubGoesTyped DEF Replay, SubStates, Types
<1>7. m = n
  BY <1>4, <1>5, <1>6
<1>8. new = old \/ (u = s /\ GoesOn(old, new, x))
  <2>1. GoesOn(got[u] \o chan[u], got[u] \o Append(chan[u], x), x)
    BY SendGoesOn DEF Types
  <2>2. chan'[u] = chan[u] \/ (u = s /\ chan'[u] = Append(chan[u], x))
    BY <1>6 DEF Types
  <2> QED
    BY <1>2, <1>3, <1>6, <2>1, <2>2 DEF Line
<1>9. HandedOver(new, to, m)
  <2>1. CASE new = old
    <3>1. /\ to \in Early => st \in Early
          /\ to = "read" /\ m # 0 => Current(m)
          /\ to = "replay" => m = n /\ (st = "replay" \/ (st = "read" /\ n # 0))
      BY <1>4, <1>6, <1>7 DEF Early, HandedOver
    <3> QED
      BY <1>4, <2>1, <3>1, HandedOverMoves
  <2>2. CASE u = s /\ GoesOn(old, new, x)
    <3>1. to \notin Early /\ ~x.live /\ st = "replay" /\ to # "replay" /\ x.n = n
      BY <1>1, <1>4, <1>6, <2>2 DEF Early
    <3> QED
      BY <1>4, <2>2, <3>1, HandedOverGoesOn
  <2> QED
    BY <1>8, <2>1, <2>2
<1>10. \A i \in DOMAIN new : new[i].live => new[i].n \in DOMAIN sent
  <2>1. \A i \in DOMAIN old : old[i].live => old[i].n \in DOMAIN sent
    BY <1>2 DEF OrderInv, Older
  <2>2. CASE new = old
    BY <2>1, <2>2
  <2>3. CASE GoesOn(old, new, x)
    <3>1. DOMAIN old = 1..Len(old) /\ DOMAIN new = 1..Len(new)
      OBVIOUS
    <3>2. /\ new[Len(new)] = x /\ ~x.live /\ Len(new) \in Nat
          /\ \A i \in 1..Len(new) - 1 : \E k \in 1..Len(old) : new[i] = old[k]
      BY <1>1, <2>3 DEF GoesOn
    <3>3. ASSUME NEW i \in DOMAIN new, new[i].live PROVE new[i].n \in DOMAIN sent
      <4>1. i \in 1..Len(new) - 1
        BY <3>1, <3>2, <3>3
      <4>2. PICK k \in DOMAIN old : new[i] = old[k]
        BY <3>1, <3>2, <4>1
      <4> QED
        BY <2>1, <3>3, <4>2
    <3> QED
      BY <3>3
  <2> QED
    BY <1>8, <2>2, <2>3
<1>11. HandedOver(new, to, m)'
  BY <1>9, <1>10, HandedOverOnward
<1> QED
  BY <1>3, <1>5, <1>11

(* Deliveries. *)
LEMMA DeliverMoves ==
    ASSUME Types, Types', EntriesInv, WritesInv, OrderInv, OrderInv', HeldInv, HandOverInv, Onward,
           NEW p \in Pubs, Deliver(p), NEW u \in Subs
    PROVE  HandedOver(Line(u), sub[u], lastRead[u])'
<1>1. PICK x \in Items : x = [n |-> pub[p].n, live |-> TRUE]
  BY DEF Types, Writes, Items
<1>2. PICK s \in Subs : Delivered(p, s, x)
  BY <1>1, DeliverEffect
<1>3. /\ UNCHANGED <<sub, lastRead>> /\ pub[p].pc = "deliver"
      /\ pub[p].list # <<>> /\ s = Head(pub[p].list)
      /\ \A v \in Subs : v # s => Line(v)' = Line(v)
      /\ Line(s)' = Line(s) \/ GoesOn(Line(s), Line(s)', x)
  BY <1>2 DEF Delivered
<1>4. sub[s] \in Subscribing
  <2>1. pub[p].list \in Seq(Subs)
    BY DEF Types, Writes
  <2>2. 1 \in DOMAIN pub[p].list /\ s = pub[p].list[1]
    BY <1>3, <2>1
  <2> QED
    BY <2>2 DEF HeldInv, EntriesInv
<1>5. \A k : Current(k) /\ sent[k] = sent[x.n] => k <= x.n
  BY <1>1, <1>3 DEF Current, WritesInv, Busy
<1>6. PICK old \in Seq(Items) : old = Line(u)
  BY LineTyped
<1>7. PICK new \in Seq(Items) : new = Line(u)'
  <2>1. Line(u)' \in Seq(Items)
    BY ConcatProperties DEF Types, Line
  <2> QED
    BY <2>1
<1>8. PICK st, n : st = sub[u] /\ n = lastRead[u] /\ HandedOver(old, st, n)
  BY <1>6 DEF HandOverInv
<1>9. HandedOver(new, st, n)
  <2>1. CASE new = old
    BY <1>8, <2>1
  <2>2. CASE u = s /\ GoesOn(old, new, x)
    <3>1. st \notin Early /\ x.live
      BY <1>1, <1>4, <1>8, <2>2 DEF Early, Subscribing
    <3> QED
      BY <1>5, <1>8, <2>2, <3>1, HandedOverGoesOn
  <2> QED
    BY <1>3, <1>6, <1>7, <2>1, <2>2
<1>10. \A i \in DOMAIN new : new[i].live => new[i].n \in DOMAIN sent
  <2>1. \A i \in DOMAIN new : new[i].live => new[i].n \in DOMAIN sent'
    BY <1>7 DEF OrderInv, Older
  <2> QED
    BY <1>2, <2>1 DEF Delivered
<1>11. HandedOver(new, st, n)'
  BY <1>9, <1>10, HandedOverOnward
<1> QED
  BY <1>3, <1>7, <1>8, <1>11

LEMMA HandOverStep ==
    OrderIInv /\ OrderIInv' /\ HeldInv /\ HandOverInv /\ [Next]_vars => HandOverInv'
<1> SUFFICES ASSUME OrderIInv, OrderIInv', HeldInv, HandOverInv, [Next]_vars PROVE HandOverInv'
  OBVIOUS
<1>. USE DEF OrderIInv
<1>1. Onward
  BY GoesOnward
<1>2. ASSUME UNCHANGED <<sub, lastRead>>, \A u \in Subs : Line(u)' = Line(u), NEW u \in Subs
      PROVE  HandedOver(Line(u), sub[u], lastRead[u])'
  <2>1. PICK l \in Seq(Items) : l = Line(u)
    BY LineTyped
  <2>2. PICK st, n : st = sub[u] /\ n = lastRead[u] /\ HandedOver(l, st, n)
    BY <2>1 DEF HandOverInv
  <2>3. \A i \in DOMAIN l : l[i].live => l[i].n \in DOMAIN sent
    BY <2>1 DEF OrderInv, Older
  <2>4. HandedOver(l, st, n)'
    BY <1>1, <2>2, <2>3, HandedOverOnward
  <2> QED
    BY <1>2, <2>1, <2>2, <2>4
<1>3. UNCHANGED last => (last' # 0 => Current(last)')
  BY <1>1 DEF HandOverInv, Onward, Current
<1>4. ASSUME NEW p \in Pubs, WriteBegin(p) \/ PubStep(p) \/ ClosePublisher(p) PROVE HandOverInv'
  <2>1. CASE Deliver(p)
    <3>1. UNCHANGED last
      BY <2>1 DEF Deliver, brokerVars
    <3> QED
      BY <1>1, <1>3, <2>1, <3>1, DeliverMoves DEF HandOverInv
  <2>2. CASE StoreLast(p)
    <3>1. UNCHANGED <<sub, lastRead, sent, got, chan>> /\ last' = pub[p].n /\ pub[p].pc = "store"
      BY <2>2 DEF StoreLast, chanVars
    <3>2. Current(pub[p].n) /\ pub[p].n \in DOMAIN sent
      BY <3>1 DEF Current, WritesInv, Busy, Types, Writes
    <3>3. Current(last)'
      BY <1>1, <3>1, <3>2 DEF Onward, Current
    <3>4. \A u \in Subs : Line(u)' = Line(u)
      BY <3>1 DEF Line
    <3> QED
      BY <1>2, <3>1, <3>3, <3>4 DEF HandOverInv
  <2>3. CASE WriteBegin(p) \/ LockShared(p) \/ WriteEnd(p) \/ ClosePublisher(p)
    <3>1. UNCHANGED <<sub, lastRead, last, got, chan>>
      BY <2>3 DEF WriteBegin, LockShared, WriteEnd, ClosePublisher, brokerVars, chanVars
    <3>2. \A u \in Subs : Line(u)' = Line(u)
      BY <3>1 DEF Line
    <3> QED
      BY <1>2, <1>3, <3>1, <3>2 DEF HandOverInv
  <2> QED
    BY <1>4, <2>1, <2>2, <2>3 DEF PubStep
<1>5. ASSUME NEW s \in Subs, NewSubscriber(s) \/ SubStep(s) \/ Recv(s) \/ Unsubscribe(s)
      PROVE  HandOverInv'
  <2>1. UNCHANGED last
    BY <1>5 DEF NewSubscriber, SubStep, ReadLast, Subscribe, Replay, Register, Erase, CloseChannel,
           Recv, Unsubscribe, brokerVars
  <2> QED
    BY <1>1, <1>3, <1>5, <2>1, SubscriberMoves, ReplayMoves DEF HandOverInv, SubStep
<1>6. CASE Close \/ CloserStep \/ UNCHANGED vars
  <2>1. UNCHANGED <<sub, lastRead, last, got, chan>>
    BY <1>6, CloserTypes DEF vars, brokerVars
  <2>2. \A u \in Subs : Line(u)' = Line(u)
    BY <2>1 DEF Line
  <2> QED
    BY <1>2, <1>3, <2>1, <2>2 DEF HandOverInv
<1> QED
  BY <1>4, <1>5, <1>6 DEF Next

(* What publish() delivers of one publisher reaches a subscriber in the    *)
(* order written and none twice, for any number of publishers and          *)
(* subscribers, any depths, policies and filters: publish() sends under    *)
(* mu_ held shared, to a list that names each channel once.  The last      *)
(* sample, handed over after subscribe() has released mu_, can come twice  *)
(* or late, but is one sample, and none older than it follows or precedes  *)
(* it: it was read before the entry existed (mock/participant.cpp,         *)
(* Broker::publish, Broker::subscribe, MockParticipant::new_subscriber).   *)
THEOREM DeliversInOrder == Spec => []PerPublisherOrder
<1>1. Init => HandOverInv /\ HeldInv
  <2> SUFFICES ASSUME Init PROVE HandOverInv /\ HeldInv
    OBVIOUS
  <2>1. \A s \in Subs : Line(s) = <<>> /\ sub[s] = "none"
    BY DEF Init, Line
  <2>2. HandOverInv
    BY <2>1 DEF Init, HandOverInv, HandedOver
  <2> QED
    BY <2>2 DEF Init, HeldInv, IdlePub
<1>2. OrderIInv /\ HandOverInv => PerPublisherOrder
  BY DEF OrderIInv, OrderInv, InOrder, HandOverInv, HandedOver, Behind, PerPublisherOrder
<1>3. OrderIInv /\ HeldInv /\ HandOverInv /\ [Next]_vars => (OrderIInv /\ HeldInv /\ HandOverInv)'
  BY OrderIInvStep, HeldStep, HandOverStep DEF OrderIInv
<1> QED
  BY <1>1, <1>2, <1>3, DeliveryInit, PTL DEF Spec, Safety

-----------------------------------------------------------------------------
(* The types.                                                              *)

PartTypes ==
    /\ closed \in BOOLEAN /\ closer \in {"open", "raised", "closing", "closed"}
    /\ chanClosed \subseteq Subs /\ registered \subseteq Subs
    /\ todo \subseteq registered

(* No channel holds more than its depth, nor anything but samples written. *)
Bounds ==
    /\ Len(sent) <= MaxWrites /\ last \in 0..MaxWrites
    /\ lastRead \in [Subs -> 0..MaxWrites]
    /\ \A s \in Subs : sub[s] = "replay" => lastRead[s] # 0
    /\ \A p \in Pubs : pub[p].n \in 0..Len(sent)
    /\ \A s \in Subs : /\ chan[s] \in Seq(Samples) /\ got[s] \in Seq(Samples)
                       /\ Len(chan[s]) <= Depth[s]

LEMMA PartStep == PartTypes /\ [Next]_vars => PartTypes'
<1> SUFFICES ASSUME PartTypes, [Next]_vars PROVE PartTypes'
  OBVIOUS
<1>1. ASSUME NEW p \in Pubs, WriteBegin(p) \/ PubStep(p) \/ ClosePublisher(p)
      PROVE  PartTypes'
  BY <1>1 DEF WriteBegin, PubStep, StoreLast, LockShared, Deliver, WriteEnd, ClosePublisher,
              chanVars, partVars, PartTypes
<1>2. ASSUME NEW s \in Subs, NewSubscriber(s) \/ SubStep(s) \/ Recv(s) \/ Unsubscribe(s)
      PROVE  PartTypes'
  BY <1>2 DEF NewSubscriber, SubStep, ReadLast, Subscribe, Replay, Register, Erase,
              CloseChannel, Recv, Unsubscribe, chanVars, partVars, PartTypes
<1>3. CASE Close \/ CloserStep
  BY <1>3 DEF Close, CloserStep, LockSubs, CloseNext, CloseDone, chanVars, PartTypes
<1>4. CASE UNCHANGED vars
  BY <1>4 DEF vars, PartTypes
<1> QED
  BY <1>1, <1>2, <1>3, <1>4 DEF Next

LEMMA OutcomesTyped ==
    ASSUME NEW s \in Subs, chan[s] \in Seq(Samples), Len(chan[s]) <= Depth[s],
           NEW x \in Samples, NEW o \in Outcomes(s, x)
    PROVE  o.chan \in Seq(Samples) /\ Len(o.chan) <= Depth[s]
<1>1. PICK c \in Seq(Samples) : c = chan[s]
  OBVIOUS
<1>6. PICK z : z = o.chan
  OBVIOUS
<1>2. PICK room \in Nat \ {0} : room = Depth[s]
  BY MockAssumption
<1>7. Len(c) \in Nat
  OBVIOUS
<1>3. ASSUME NEW d \in Seq(Samples)
      PROVE  \E e \in Seq(Samples) : e = Append(d, x) /\ Len(e) = Len(d) + 1
  <2>1. Append(d, x) \in Seq(Samples) /\ Len(Append(d, x)) = Len(d) + 1
    BY <1>3, AppendProperties
  <2> QED
    BY <2>1
<1>4. CASE Len(c) < room
  <2>1. z = c \/ z = Append(c, x)
    BY <1>1, <1>2, <1>4, <1>6 DEF Outcomes, Full
  <2>2. PICK d \in Seq(Samples) : d = Append(c, x) /\ Len(d) = Len(c) + 1
    BY <1>3
  <2> QED
    <3>1. z = c \/ z = d
      BY <2>1, <2>2
    <3>2. Len(c) <= room /\ Len(c) + 1 <= room
      BY <1>4, <1>7
    <3>3. d \in Seq(Samples) /\ Len(d) <= room
      BY <2>2, <3>2
    <3>4. z \in Seq(Samples) /\ Len(z) <= room
      BY <3>1, <3>2, <3>3
    <3> QED
      BY <1>2, <1>6, <3>4
<1>5. CASE ~(Len(c) < room)
  <2>1. c # <<>>
    BY <1>2, <1>5
  <2>2. PICK d \in Seq(Samples) : d = Tail(c) /\ Len(d) = Len(c) - 1
    BY <1>1, <2>1, HeadTailProperties
  <2>4. z = c \/ z = Append(d, x)
    BY <1>1, <1>2, <1>5, <1>6, <2>2 DEF Outcomes, Full
  <2>5. Len(c) <= room
    BY <1>1, <1>2
  <2>6. PICK e \in Seq(Samples) : e = Append(d, x) /\ Len(e) = Len(d) + 1
    BY <1>3
  <2> QED
    <3>1. e \in Seq(Samples) /\ Len(e) <= room
      BY <1>7, <2>2, <2>5, <2>6
    <3>2. z = c \/ z = e
      BY <2>4, <2>6
    <3>3. z \in Seq(Samples) /\ Len(z) <= room
      BY <2>5, <3>1, <3>2
    <3> QED
      BY <1>2, <1>6, <3>3
<1> QED
  BY <1>4, <1>5

LEMMA BoundsPublisher ==
    ASSUME Types, WritesInv, Bounds, NEW p \in Pubs,
           WriteBegin(p) \/ PubStep(p) \/ ClosePublisher(p)
    PROVE  Bounds'
<1>0. /\ pub \in [Pubs -> Writes] /\ pub[p] \in Writes /\ sent \in Seq(Pubs) /\ Len(sent) \in Nat
      /\ MaxWrites \in Nat /\ UNCHANGED <<got, sub>>
  BY MockAssumption, PublisherSubs DEF Types
<1>1. CASE WriteBegin(p)
  <2>1. /\ sent' = Append(sent, p) /\ Len(sent) < MaxWrites
        /\ UNCHANGED <<last, lastRead, chan, got>>
    BY <1>1 DEF WriteBegin, brokerVars, chanVars
  <2>2. Len(sent') = Len(sent) + 1 /\ Len(sent') <= MaxWrites
    BY <1>0, <2>1, AppendProperties
  <2>3. /\ pub'[p].n = Len(sent') /\ \A q \in Pubs \ {p} : pub'[q] = pub[q]
    BY <1>0, <1>1 DEF WriteBegin, Writes
  <2>4. \A q \in Pubs : pub'[q].n \in 0..Len(sent')
    BY <1>0, <2>2, <2>3 DEF Bounds
  <2> QED
    BY <1>0, <2>1, <2>2, <2>4 DEF Bounds
<1>2. CASE StoreLast(p)
  <2>1. pub[p].n \in 1..Len(sent)
    BY <1>0, <1>2 DEF StoreLast, WritesInv, Busy
  <2>2. /\ last' = pub[p].n /\ UNCHANGED <<sent, lastRead, chan, got>>
        /\ \A q \in Pubs : pub'[q].n = pub[q].n
    BY <1>0, <1>2 DEF StoreLast, chanVars, Writes
  <2>3. last' \in 0..MaxWrites
    BY <1>0, <2>1, <2>2 DEF Bounds
  <2> QED
    BY <1>0, <2>2, <2>3 DEF Bounds
<1>3. CASE LockShared(p) \/ ClosePublisher(p)
  <2>1. UNCHANGED <<sent, last, lastRead, chan, got>>
    BY <1>3 DEF LockShared, ClosePublisher, brokerVars, chanVars
  <2>2. pub'[p].n = pub[p].n /\ \A q \in Pubs \ {p} : pub'[q] = pub[q]
    BY <1>0, <1>3 DEF LockShared, ClosePublisher, Writes
  <2>3. \A q \in Pubs : pub'[q].n = pub[q].n
    BY <2>2
  <2> QED
    BY <1>0, <2>1, <2>3 DEF Bounds
<1>4. CASE Deliver(p)
  <2>1. PICK s \in Subs : Delivered(p, s, [n |-> pub[p].n, live |-> TRUE])
    BY <1>4, DeliverEffect
  <2>2. /\ UNCHANGED <<sent, last, lastRead, got>>
        /\ pub'[p].n = pub[p].n /\ \A q \in Pubs \ {p} : pub'[q] = pub[q]
        /\ s = Head(pub[p].list)
    BY <2>1 DEF Delivered
  <2>3. pub[p].n \in 1..Len(sent)
    BY <1>0, <1>4 DEF Deliver, WritesInv, Busy
  <2>4. PICK x \in Samples : x = [n |-> pub[p].n, live |-> TRUE]
    <3>1. pub[p].n \in 1..MaxWrites
      BY <1>0, <2>3 DEF Bounds
    <3> QED
      BY <3>1 DEF Samples
  <2>5. \/ chan' = chan
        \/ \E o \in Outcomes(s, x) : chan' = [chan EXCEPT ![s] = o.chan]
    BY <1>4, <2>2, <2>4 DEF Deliver
  <2>6. ASSUME NEW u \in Subs PROVE chan'[u] \in Seq(Samples) /\ Len(chan'[u]) <= Depth[u]
    <3>1. \A o \in Outcomes(s, x) : o.chan \in Seq(Samples) /\ Len(o.chan) <= Depth[s]
      BY OutcomesTyped DEF Bounds
    <3>2. chan \in [Subs -> Seq(Items)]
      BY DEF Types
    <3> QED
      BY <2>5, <3>1, <3>2 DEF Bounds
  <2>7. \A q \in Pubs : pub'[q].n \in 0..Len(sent)
    BY <2>2 DEF Bounds
  <2> QED
    BY <1>0, <2>2, <2>6, <2>7 DEF Bounds
<1>5. CASE WriteEnd(p)
  <2>1. /\ UNCHANGED <<sent, last, lastRead, chan, got>>
        /\ pub'[p].n = 0 /\ \A q \in Pubs \ {p} : pub'[q] = pub[q]
    BY <1>0, <1>5 DEF WriteEnd, chanVars, IdlePub
  <2>2. \A q \in Pubs : pub'[q].n \in 0..Len(sent)
    BY <1>0, <2>1 DEF Bounds
  <2> QED
    BY <1>0, <2>1, <2>2 DEF Bounds
<1> QED
  BY <1>1, <1>2, <1>3, <1>4, <1>5 DEF PubStep

LEMMA BoundsSubscriber ==
    ASSUME Types, Bounds, NEW s \in Subs,
           NewSubscriber(s) \/ SubStep(s) \/ Recv(s) \/ Unsubscribe(s)
    PROVE  Bounds'
<1>0. UNCHANGED <<sent, pub>> /\ UNCHANGED last /\ MaxWrites \in Nat
  BY SubscriberWrites, MockAssumption DEF NewSubscriber, SubStep, ReadLast, Subscribe, Replay,
     Register, Erase, CloseChannel, Recv, Unsubscribe, brokerVars
<1>9. ASSUME NEW to \in SubStates, sub' = [sub EXCEPT ![s] = to],
             \A u \in Subs \ {s} : lastRead'[u] = lastRead[u],
             to = "replay" => lastRead'[s] # 0
      PROVE  \A u \in Subs : sub'[u] = "replay" => lastRead'[u] # 0
  BY <1>9 DEF Types, Bounds
<1>1. CASE ReadLast(s) \/ Register(s)
  <2>3. PICK n \in 0..MaxWrites : lastRead' = [lastRead EXCEPT ![s] = n]
    <3>1. last \in 0..MaxWrites /\ 0 \in 0..MaxWrites
      BY <1>0 DEF Bounds
    <3> QED
      BY <1>1, <3>1 DEF ReadLast, Register
  <2>4. UNCHANGED <<chan, got>>
    BY <1>1 DEF ReadLast, Register, chanVars
  <2>1. /\ lastRead' \in [Subs -> 0..MaxWrites] /\ UNCHANGED <<chan, got>>
        /\ \A u \in Subs \ {s} : lastRead'[u] = lastRead[u]
    BY <2>3, <2>4 DEF Bounds
  <2>2. \A u \in Subs : sub'[u] = "replay" => lastRead'[u] # 0
    BY <1>1, <1>9, <2>1 DEF ReadLast, Register, SubGoes, SubStates
  <2> QED
    BY <1>0, <2>1, <2>2 DEF Bounds
<1>2. CASE Replay(s)
  <2>1. UNCHANGED <<lastRead, got>> /\ chan \in [Subs -> Seq(Items)]
    BY <1>2 DEF Replay, Types
  <2>4. \A u \in Subs : sub'[u] = "replay" => lastRead'[u] # 0
    BY <1>2, <1>9, <2>1 DEF Replay, SubGoes, SubStates
  <2>2. CASE chan' = chan
    BY <1>0, <2>1, <2>2, <2>4 DEF Bounds
  <2>3. CASE chan' # chan
    <3>1. PICK x : x = [n |-> lastRead[s], live |-> FALSE]
      OBVIOUS
    <3>2. chan' = [chan EXCEPT ![s] = Append(chan[s], x)] /\ ~Full(s) /\ sub[s] = "replay"
      BY <1>2, <2>3, <3>1 DEF Replay, SubGoes
    <3>3. x \in Samples
      BY <1>0, <3>1, <3>2 DEF Bounds, Samples
    <3>4. Append(chan[s], x) \in Seq(Samples) /\ Len(Append(chan[s], x)) = Len(chan[s]) + 1
      BY <3>3, AppendProperties DEF Bounds
    <3>5. Len(Append(chan[s], x)) <= Depth[s]
      BY <3>2, <3>4, MockAssumption DEF Full, Bounds
    <3> QED
      BY <1>0, <2>1, <2>4, <3>2, <3>4, <3>5 DEF Bounds
  <2> QED
    BY <2>2, <2>3
<1>3. CASE Recv(s)
  <2>1. /\ UNCHANGED lastRead /\ chan[s] # <<>> /\ chan \in [Subs -> Seq(Items)]
        /\ got \in [Subs -> Seq(Items)]
        /\ chan' = [chan EXCEPT ![s] = Tail(chan[s])]
        /\ got' = [got EXCEPT ![s] = Append(got[s], Head(chan[s]))]
    BY <1>3 DEF Recv, Types
  <2>2. /\ Tail(chan[s]) \in Seq(Samples) /\ Len(Tail(chan[s])) = Len(chan[s]) - 1
        /\ Head(chan[s]) \in Samples
    BY <2>1, HeadTailProperties DEF Bounds
  <2>3. Append(got[s], Head(chan[s])) \in Seq(Samples)
    BY <2>2, AppendProperties DEF Bounds
  <2>4. Len(chan[s]) \in Nat /\ Depth[s] \in Nat
    BY MockAssumption DEF Bounds
  <2>5. Len(Tail(chan[s])) <= Depth[s]
    BY <2>2, <2>4 DEF Bounds
  <2>6. UNCHANGED sub
    BY <1>3 DEF Recv
  <2> QED
    BY <1>0, <2>1, <2>2, <2>3, <2>5, <2>6 DEF Bounds
<1>4. CASE NewSubscriber(s) \/ Subscribe(s) \/ Erase(s) \/ CloseChannel(s) \/ Unsubscribe(s)
  <2>1. UNCHANGED <<lastRead, chan, got>>
    BY <1>4 DEF NewSubscriber, Subscribe, Erase, CloseChannel, Unsubscribe, chanVars
  <2>2. \A u \in Subs : sub'[u] = "replay" => lastRead'[u] # 0
    BY <1>4, <1>9, <2>1 DEF NewSubscriber, Subscribe, Erase, CloseChannel, Unsubscribe, SubGoes,
       SubStates, Subscribed, Wanted
  <2> QED
    BY <1>0, <2>1, <2>2 DEF Bounds
<1> QED
  BY <1>1, <1>2, <1>3, <1>4 DEF SubStep

LEMMA BoundsStep == Types /\ WritesInv /\ Bounds /\ [Next]_vars => Bounds'
<1>1. ASSUME Bounds, UNCHANGED <<sent, last, lastRead, pub, chan, got, sub>> PROVE Bounds'
  BY <1>1 DEF Bounds
<1>2. UNCHANGED vars => UNCHANGED <<sent, last, lastRead, pub, chan, got, sub>>
  BY DEF vars
<1>3. Close \/ CloserStep => UNCHANGED <<sent, last, lastRead, pub, chan, got, sub>>
  BY CloserTypes DEF brokerVars
<1> QED
  BY <1>1, <1>2, <1>3, BoundsPublisher, BoundsSubscriber DEF Next

(* A sequence that names each subscriber at most once is no longer than    *)
(* they are many.                                                          *)
LEMMA EachOnce ==
    ASSUME NEW q \in Seq(Subs), Once(q)
    PROVE  q \in BoundedSeq(Subs, Cardinality(Subs)) /\ IsInjective(q)
<1>1. q \in [1..Len(q) -> Subs] /\ Len(q) \in Nat
  OBVIOUS
<1>2. q \in Injection(1..Len(q), Subs)
  BY <1>1 DEF Once, Injection, IsInjective
<1>3. Cardinality(1..Len(q)) <= Cardinality(Subs) /\ Cardinality(Subs) \in Nat
  BY <1>2, FS_Injection, FS_CardinalityType, MockAssumption
<1>4. Len(q) \in 0..Cardinality(Subs)
  BY <1>1, <1>3, FS_Interval
<1> QED
  BY <1>1, <1>4 DEF Once, IsInjective, BoundedSeq, SeqOf

(* Everything has its type: above all no channel holds more than its       *)
(* depth, subs_ names each subscriber once, a publisher holds mu_ shared   *)
(* exactly while it delivers, and a delivery loop never meets a channel    *)
(* that is not subscribed (mock/participant.cpp, Broker).                  *)
THEOREM TypeCorrect == Spec => []TypeOK
<1>1. Init => PartTypes /\ Bounds /\ HeldInv
  <2> SUFFICES ASSUME Init PROVE PartTypes /\ Bounds /\ HeldInv
    OBVIOUS
  <2>1. PartTypes
    BY DEF Init, PartTypes
  <2>2. HeldInv
    BY DEF Init, HeldInv, IdlePub
  <2>3. sent = <<>> /\ Len(<<>>) = 0 /\ 0 \in 0..MaxWrites /\ (\A s \in Subs : 0 <= Depth[s]) /\ <<>> \in Seq(Samples)
    BY MockAssumption DEF Init
  <2>4. \A s \in Subs : chan[s] = <<>> /\ got[s] = <<>> /\ sub[s] # "replay"
    BY DEF Init
  <2>5. last = 0 /\ lastRead \in [Subs -> 0..MaxWrites] /\ \A p \in Pubs : pub[p].n = 0
    BY <2>3 DEF Init, IdlePub
  <2>6. Len(sent) <= MaxWrites /\ last \in 0..MaxWrites /\ \A p \in Pubs : pub[p].n \in 0..Len(sent)
    BY <2>3, <2>5, MockAssumption
  <2>7. \A s \in Subs : /\ chan[s] \in Seq(Samples) /\ got[s] \in Seq(Samples)
                       /\ Len(chan[s]) <= Depth[s]
    BY <2>3, <2>4
  <2>8. Bounds
    BY <2>4, <2>5, <2>6, <2>7 DEF Bounds
  <2> QED
    BY <2>1, <2>2, <2>8
<1>2. Init => Types /\ EntriesInv /\ WritesInv
  BY DeliveryInit DEF OrderIInv
<1>3. Types /\ EntriesInv /\ WritesInv /\ PartTypes /\ Bounds /\ HeldInv => TypeOK
  <2> SUFFICES ASSUME Types, EntriesInv, WritesInv, PartTypes, Bounds, HeldInv PROVE TypeOK
    OBVIOUS
  <2>1. sent \in BoundedSeq(Pubs, MaxWrites)
    <3>1. sent \in [1..Len(sent) -> Pubs] /\ Len(sent) \in 0..MaxWrites
      BY MockAssumption DEF Types, Bounds
    <3> QED
      BY <3>1 DEF BoundedSeq, SeqOf
  <2>2. subs \in BoundedSeq(Subs, Cardinality(Subs)) /\ IsInjective(subs)
    BY EachOnce DEF Types, EntriesInv
  <2>3. ASSUME NEW s \in Subs
        PROVE  Len(chan[s]) <= Depth[s] /\ ToSet(chan[s]) \cup ToSet(got[s]) \subseteq Samples
    <3>1. PICK c \in Seq(Samples), g \in Seq(Samples) : c = chan[s] /\ g = got[s]
      BY DEF Bounds
    <3>2. ToSet(c) \subseteq Samples /\ ToSet(g) \subseteq Samples
      BY DEF ToSet
    <3> QED
      BY <3>1, <3>2 DEF Bounds
  <2>4. ASSUME NEW p \in Pubs
        PROVE  /\ pub[p].pc \in {"idle", "store", "lock", "deliver", "closed"}
               /\ pub[p].pc = "deliver" <=> p \in readers
               /\ pub[p].n \in 0..Len(sent)
               /\ ToSet(pub[p].list) \subseteq ToSet(subs)
    <3>1. pub[p].pc \in {"idle", "store", "lock", "deliver", "closed"}
      BY DEF Types, Writes, Busy
    <3>2. ToSet(pub[p].list) \subseteq ToSet(subs)
      BY DEF HeldInv, Has, ToSet
    <3> QED
      BY <3>1, <3>2 DEF HeldInv, Bounds
  <2> QED
    BY <2>1, <2>2, <2>3, <2>4 DEF Types, PartTypes, Bounds, HeldInv, SubStates, TypeOK
<1>4. Types /\ EntriesInv /\ WritesInv /\ PartTypes /\ Bounds /\ HeldInv /\ [Next]_vars
        => (Types /\ EntriesInv /\ WritesInv /\ PartTypes /\ Bounds /\ HeldInv)'
  BY TypesStep, EntriesStep, WritesStep, PartStep, BoundsStep, HeldStep
<1> QED
  BY <1>1, <1>2, <1>3, <1>4, PTL DEF Spec, Safety
=============================================================================
