----------------------------- MODULE MockBroker -----------------------------
(***************************************************************************)
(* The in-process participant (src/mock/participant.cpp): the Broker, its  *)
(* publishers and subscribers, and the participant's close() and           *)
(* close_with_drain(), on one topic of one isolated broker.                *)
(*                                                                         *)
(* Publishers exist from the start: new_publisher() shares nothing that a  *)
(* property here reads, and one made while the participant closes is one   *)
(* whose writes are all refused. Refused writes, which only count an       *)
(* error, are not steps.                                                   *)
(*                                                                         *)
(* A publisher is driven by one thread, a subscriber by its owner (which   *)
(* creates and unsubscribes it) and by a consumer that receives, and the   *)
(* participant by the thread that closes it.  Channel operations are       *)
(* atomic here, as ChannelSpec entitles callers to assume.  Critical       *)
(* sections of mu_ (exclusive), last_mu_ and sub_mu_ are single actions;   *)
(* mu_ is held shared by a publisher for the whole delivery loop, across   *)
(* any blocking send in it.                                                *)
(***************************************************************************)
EXTENDS Naturals, Sequences, SequencesExt, FiniteSets, FiniteSetsExt

CONSTANTS
    Pubs, Subs,   \* publishers and subscribers
    Durable,      \* those of them with TransientLocal durability
    Accepts,      \* Accepts[s]: the samples, by number, that s's filter passes
    Asked,        \* Asked[s]: the back-pressure policies s may ask for
    Depth,        \* Depth[s]: the depth of s's channel
    MaxWrites     \* bound: samples written in all

Policies == {"DropNewest", "DropOldest", "Block"}

ASSUME MockAssumption ==
    /\ Depth \in [Subs -> Nat \ {0}] /\ MaxWrites \in Nat
    /\ Durable \subseteq Pubs \cup Subs
    /\ Accepts \in [Subs -> SUBSET (1..MaxWrites)]
    /\ Asked \in [Subs -> SUBSET Policies]
    /\ IsFiniteSet(Subs)

VARIABLES
    closed,      \* the participant's closed_
    sent,        \* who wrote sample 1, 2, ...: seq_ is Len(sent), and sample n
                 \* carries the sequence number n - 1
    last,        \* last_samples_[topic]: a sample number, 0 when absent
    subs,        \* subs_[topic]: the subscribers in order of registration
    readers,     \* the publishers that hold mu_ shared
    policy,      \* the back-pressure policy each subscriber asked for
    chan,        \* the samples in each channel
    chanClosed,  \* the subscribers whose channel is closed
    registered,  \* the subscribers whose channel is in sub_channels_
    pub,         \* the write in progress of each publisher
    sub,         \* how far each subscriber is in its life
    lastRead,    \* the last sample new_subscriber() read before subscribing
    closer,      \* how far close() is
    todo,        \* the channels it has yet to close
    metrics,     \* the participant's counters
    got,         \* history: what each consumer received
    joined,      \* history: Len(sent) when new_subscriber() returned
    owned        \* history: the live subscribers when close() was called

brokerVars == <<last, subs, readers>>
chanVars == <<chan, chanClosed, got>>
partVars == <<closed, registered, closer, todo, owned>>
vars == <<closed, sent, last, subs, readers, policy, chan,
          chanClosed, registered, pub, sub, lastRead, closer, todo, metrics,
          got, joined, owned>>

(* A channel holds samples by number; those delivered by a publish are     *)
(* live, the one handed to a late joiner is not.                           *)
Samples == [n : 1..MaxWrites, live : BOOLEAN]

IdlePub == [pc |-> "idle", n |-> 0, list |-> <<>>, delivered |-> 0, dropped |-> 0]

TypeOK ==
    /\ closed \in BOOLEAN
    /\ sent \in BoundedSeq(Pubs, MaxWrites)
    /\ last \in 0..MaxWrites
    /\ subs \in BoundedSeq(Subs, Cardinality(Subs)) /\ IsInjective(subs)
    /\ policy \in [Subs -> Policies]
    /\ \A s \in Subs : /\ Len(chan[s]) <= Depth[s]
                       /\ ToSet(chan[s]) \cup ToSet(got[s]) \subseteq Samples
    /\ chanClosed \in SUBSET Subs
    /\ registered \in SUBSET Subs
    /\ \A p \in Pubs : /\ pub[p].pc \in {"idle", "store", "lock", "deliver", "closed"}
                       /\ pub[p].pc = "deliver" <=> p \in readers
                       /\ pub[p].n \in 0..Len(sent)
                       /\ ToSet(pub[p].list) \subseteq ToSet(subs)
    /\ readers \in SUBSET Pubs
    /\ sub \in [Subs -> {"none", "checked", "read", "replay", "register",
                         "live", "unsubscribing", "erased", "gone"}]
    /\ closer \in {"open", "raised", "closing", "closed"}
    /\ todo \subseteq registered

Init ==
    /\ closed = FALSE /\ sent = <<>> /\ last = 0
    /\ subs = <<>> /\ readers = {}
    /\ policy = [s \in Subs |-> "DropNewest"]
    /\ chan = [s \in Subs |-> <<>>] /\ chanClosed = {} /\ registered = {}
    /\ pub = [p \in Pubs |-> IdlePub]
    /\ sub = [s \in Subs |-> "none"]
    /\ lastRead = [s \in Subs |-> 0]
    /\ closer = "open" /\ todo = {}
    /\ metrics = [write |-> 0, deliver |-> 0, drop |-> 0]
    /\ got = [s \in Subs |-> <<>>]
    /\ joined = [s \in Subs |-> 0] /\ owned = {}

-----------------------------------------------------------------------------
(* Publishers.                                                             *)

(* write(): a closed publisher or participant, an expired context and an   *)
(* oversized payload are refused before anything changes; else the sample  *)
(* gets the next sequence number.                                          *)
WriteBegin(p) ==
    /\ pub[p].pc = "idle" /\ ~closed
    /\ Len(sent) < MaxWrites
    /\ sent' = Append(sent, p)
    /\ pub' = [pub EXCEPT ![p].pc = IF p \in Durable THEN "store" ELSE "lock",
                          ![p].n = Len(sent')]
    /\ UNCHANGED <<brokerVars, policy, chanVars, partVars, sub,
                   lastRead, metrics, joined>>

(* update_last_sample() *)
StoreLast(p) ==
    /\ pub[p].pc = "store"
    /\ last' = pub[p].n
    /\ pub' = [pub EXCEPT ![p].pc = "lock"]
    /\ UNCHANGED <<sent, subs, readers, policy, chanVars, partVars,
                   sub, lastRead, metrics, joined>>

(* Broker::publish() takes mu_ shared.  Exclusive holders are momentary. *)
LockShared(p) ==
    /\ pub[p].pc = "lock"
    /\ readers' = readers \cup {p}
    /\ pub' = [pub EXCEPT ![p].pc = "deliver", ![p].list = subs]
    /\ UNCHANGED <<sent, last, subs, policy, chanVars, partVars, sub,
                   lastRead, metrics, joined>>

Full(s) == Len(chan[s]) >= Depth[s]

Outcomes_BlockDrops(s, x) ==
    IF s \in chanClosed THEN {[chan |-> chan[s], ok |-> FALSE]}
    ELSE IF ~Full(s) THEN {[chan |-> Append(chan[s], x), ok |-> TRUE]}
    ELSE IF policy[s] = "DropOldest"
    THEN {[chan |-> Append(Tail(chan[s]), x), ok |-> TRUE]}
    ELSE {[chan |-> chan[s], ok |-> FALSE]}

(* What the channel of s does with sample x under the policy of s: the new *)
(* contents and whether it counts as delivered.  A blocking send on a full *)
(* open channel has no outcome yet.                                        *)
Outcomes(s, x) ==
    IF s \in chanClosed THEN {[chan |-> chan[s], ok |-> FALSE]}
    ELSE IF ~Full(s) THEN {[chan |-> Append(chan[s], x), ok |-> TRUE]}
    ELSE IF policy[s] = "DropNewest" THEN {[chan |-> chan[s], ok |-> FALSE]}
    ELSE IF policy[s] = "DropOldest"
    THEN {[chan |-> Append(Tail(chan[s]), x), ok |-> TRUE]}
    ELSE {}

(* One iteration of the delivery loop. *)
Deliver(p) ==
    /\ pub[p].pc = "deliver" /\ pub[p].list # <<>>
    /\ LET s == Head(pub[p].list)
           x == [n |-> pub[p].n, live |-> TRUE]
           next == [pub[p] EXCEPT !.list = Tail(@)]
       IN  \/ /\ pub[p].n \notin Accepts[s]
              /\ pub' = [pub EXCEPT ![p] = next]
              /\ UNCHANGED chan
           \/ /\ pub[p].n \in Accepts[s]
              /\ \E o \in Outcomes(s, x) :
                    /\ chan' = [chan EXCEPT ![s] = o.chan]
                    /\ pub' = [pub EXCEPT ![p] =
                          IF o.ok THEN [next EXCEPT !.delivered = @ + 1]
                                  ELSE [next EXCEPT !.dropped = @ + 1]]
    /\ UNCHANGED <<sent, brokerVars, policy, chanClosed, got,
                   partVars, sub, lastRead, metrics, joined>>

WriteEnd_LeaksLock(p) ==
    /\ pub[p].pc = "deliver" /\ pub[p].list = <<>>
    /\ readers' = IF pub[p].dropped > 0 THEN readers ELSE readers \ {p}
    /\ metrics' = [write |-> metrics.write + 1,
                   deliver |-> metrics.deliver + pub[p].delivered,
                   drop |-> metrics.drop + pub[p].dropped]
    /\ pub' = [pub EXCEPT ![p] = IdlePub]
    /\ UNCHANGED <<sent, last, subs, policy, chanVars, partVars, sub,
                   lastRead, joined>>

(* The loop ends, mu_ is released and the counters are brought up to date. *)
WriteEnd(p) ==
    /\ pub[p].pc = "deliver" /\ pub[p].list = <<>>
    /\ readers' = readers \ {p}
    /\ metrics' = [write |-> metrics.write + 1,
                   deliver |-> metrics.deliver + pub[p].delivered,
                   drop |-> metrics.drop + pub[p].dropped]
    /\ pub' = [pub EXCEPT ![p] = IdlePub]
    /\ UNCHANGED <<sent, last, subs, policy, chanVars, partVars, sub,
                   lastRead, joined>>

(* Publisher close(): closed_ is read only at the start of a write, so one *)
(* that comes during a write takes effect after it.                        *)
ClosePublisher(p) ==
    /\ pub[p].pc = "idle"
    /\ pub' = [pub EXCEPT ![p].pc = "closed"]
    /\ UNCHANGED <<sent, brokerVars, policy, chanVars, partVars, sub, lastRead,
                   metrics, joined>>

-----------------------------------------------------------------------------
(* Subscribers.                                                            *)

SubGoes(s, from, to) == sub[s] = from /\ sub' = [sub EXCEPT ![s] = to]

(* new_subscriber(): the closed check, with the options the caller gives. *)
NewSubscriber(s) ==
    /\ SubGoes(s, "none", "checked") /\ ~closed
    /\ \E b \in Asked[s] : policy' = [policy EXCEPT ![s] = b]
    /\ UNCHANGED <<sent, brokerVars, chanVars, partVars, pub,
                   lastRead, metrics, joined>>

(* last_sample(): read before the subscription exists. *)
ReadLast(s) ==
    /\ SubGoes(s, "checked", "read")
    /\ lastRead' = [lastRead EXCEPT ![s] = IF s \in Durable THEN last ELSE 0]
    /\ UNCHANGED <<sent, brokerVars, policy, chanVars, partVars, pub,
                   metrics, joined>>

(* The sample handed to a late joiner: both ends durable, and the filter.  *)
Wanted(s) == /\ s \in Durable /\ lastRead[s] # 0
             /\ lastRead[s] \in Accepts[s]

Subscribed(s) == IF Wanted(s) THEN "replay" ELSE "register"

Subscribe_Twice(s) ==
    /\ SubGoes(s, "read", Subscribed(s))
    /\ readers = {}
    /\ subs' = subs \o <<s, s>>
    /\ UNCHANGED <<sent, last, readers, policy, chanVars, partVars, pub,
                   lastRead, metrics, joined>>

(* Broker::subscribe() appends the entry under mu_ held exclusively ... *)
Subscribe(s) ==
    /\ SubGoes(s, "read", Subscribed(s))
    /\ readers = {}
    /\ subs' = Append(subs, s)
    /\ UNCHANGED <<sent, last, readers, policy, chanVars, partVars, pub,
                   lastRead, metrics, joined>>

Replay_ReadsLate(s) ==
    /\ SubGoes(s, "replay", "register")
    /\ LET x == [n |-> last, live |-> FALSE]
       IN  chan' = IF Full(s) \/ s \in chanClosed
                   THEN chan ELSE [chan EXCEPT ![s] = Append(@, x)]
    /\ UNCHANGED <<sent, brokerVars, policy, chanClosed, got, partVars, pub,
                   lastRead, metrics, joined>>

(* ... and, mu_ released, tries to send the last sample to a late joiner. *)
Replay(s) ==
    /\ SubGoes(s, "replay", "register")
    /\ LET x == [n |-> lastRead[s], live |-> FALSE]
       IN  chan' = IF Full(s) \/ s \in chanClosed
                   THEN chan ELSE [chan EXCEPT ![s] = Append(@, x)]
    /\ UNCHANGED <<sent, brokerVars, policy, chanClosed, got, partVars, pub,
                   lastRead, metrics, joined>>

SubMuFree == closer # "closing"

(* The channel joins sub_channels_ under sub_mu_ and the call returns. *)
Register(s) ==
    /\ SubGoes(s, "register", "live")
    /\ SubMuFree
    /\ registered' = registered \cup {s}
    /\ joined' = [joined EXCEPT ![s] = Len(sent)]
    /\ lastRead' = [lastRead EXCEPT ![s] = 0]
    /\ UNCHANGED <<sent, brokerVars, policy, chanVars, closed, closer,
                   todo, owned, pub, metrics>>

Returned(s) == sub[s] \in {"live", "unsubscribing", "erased", "gone"}

(* The consumer receives; a closed channel still yields what it holds. *)
Recv(s) ==
    /\ Returned(s) /\ chan[s] # <<>>
    /\ got' = [got EXCEPT ![s] = Append(@, Head(chan[s]))]
    /\ chan' = [chan EXCEPT ![s] = Tail(@)]
    /\ UNCHANGED <<sent, brokerVars, policy, chanClosed, partVars,
                   pub, sub, lastRead, metrics, joined>>

(* unsubscribe(), close() or the destructor, whichever is first. *)
Unsubscribe(s) ==
    /\ SubGoes(s, "live", "unsubscribing")
    /\ UNCHANGED <<sent, brokerVars, policy, chanVars, partVars, pub,
                   lastRead, metrics, joined>>

(* Broker::unsubscribe() erases the entries with this channel under mu_    *)
(* held exclusively; subscribe() made one.                                 *)
Erase(s) ==
    /\ SubGoes(s, "unsubscribing", "erased")
    /\ readers = {}
    /\ \E i \in DOMAIN subs : subs[i] = s /\ subs' = RemoveAt(subs, i)
    /\ UNCHANGED <<sent, last, readers, policy, chanVars, partVars,
                   pub, lastRead, metrics, joined>>

CloseChannel(s) ==
    /\ SubGoes(s, "erased", "gone")
    /\ chanClosed' = chanClosed \cup {s}
    /\ UNCHANGED <<sent, brokerVars, policy, chan, got, partVars,
                   pub, lastRead, metrics, joined>>

-----------------------------------------------------------------------------
(* The participant.                                                        *)

notPart == <<sent, brokerVars, policy, pub, sub, lastRead, metrics,
             joined>>

(* close(): the flag is raised; then sub_mu_ is held over the loop.        *)
(* close_with_drain() first looks, for a bounded time, whether the channels *)
(* are empty, which changes nothing, and then calls close().               *)
Close ==
    /\ closer = "open"
    /\ closed' = TRUE
    /\ closer' = "raised"
    /\ owned' = {s \in Subs : sub[s] = "live"}
    /\ UNCHANGED <<registered, todo, chanVars, notPart>>

LockSubs ==
    /\ closer = "raised"
    /\ closer' = "closing" /\ todo' = registered
    /\ UNCHANGED <<closed, registered, owned, chanVars, notPart>>

CloseNext_SkipsFull ==
    /\ closer = "closing" /\ todo # {}
    /\ \E s \in todo :
          /\ chanClosed' = IF Full(s) THEN chanClosed ELSE chanClosed \cup {s}
          /\ todo' = todo \ {s}
    /\ UNCHANGED <<closed, registered, closer, owned, chan, got, notPart>>

CloseNext ==
    /\ closer = "closing" /\ todo # {}
    /\ \E s \in todo : /\ chanClosed' = chanClosed \cup {s}
                       /\ todo' = todo \ {s}
    /\ UNCHANGED <<closed, registered, closer, owned, chan, got, notPart>>

CloseDone ==
    /\ closer = "closing" /\ todo = {}
    /\ closer' = "closed"
    /\ UNCHANGED <<closed, registered, todo, owned, chanVars, notPart>>

-----------------------------------------------------------------------------
PubStep(p) == StoreLast(p) \/ LockShared(p) \/ Deliver(p) \/ WriteEnd(p)
SubStep(s) == ReadLast(s) \/ Subscribe(s) \/ Replay(s) \/ Register(s)
              \/ Erase(s) \/ CloseChannel(s)
CloserStep == LockSubs \/ CloseNext \/ CloseDone

Next ==
    \/ \E p \in Pubs : WriteBegin(p) \/ PubStep(p)
                       \/ ClosePublisher(p)
    \/ \E s \in Subs : NewSubscriber(s) \/ SubStep(s) \/ Recv(s) \/ Unsubscribe(s)
    \/ Close \/ CloserStep

(* Threads inside a call keep running and mutexes are granted in the end.  *)
(* Nobody is obliged to write, to receive, to unsubscribe or to close.     *)
Fairness ==
    /\ \A p \in Pubs : WF_vars(PubStep(p))
    /\ \A s \in Subs : WF_vars(SubStep(s))
    /\ WF_vars(CloserStep)

Safety == Init /\ [][Next]_vars
Spec == Safety /\ Fairness

-----------------------------------------------------------------------------
(* Properties.                                                             *)

(* What s has received, and what waits in its channel after it. *)
Line(s) == got[s] \o chan[s]

(* What publish() delivers of one publisher's samples reaches a subscriber *)
(* in the order written and none twice, whatever the policy evicts or      *)
(* refuses and however writes of other publishers, subscriptions and the   *)
(* close interleave.  The last sample, which subscribe() hands to a late   *)
(* joiner after it has released mu_, is outside that order: the same       *)
(* sample may arrive live as well, and newer ones before it.  That is the  *)
(* whole exception: it is one sample in a subscriber's life, and nothing   *)
(* older of its publisher ever arrives.                                    *)
PerPublisherOrder ==
    \A s \in Subs : \A i, j \in DOMAIN Line(s) :
        LET x == Line(s)[i]
            y == Line(s)[j]
            same == sent[x.n] = sent[y.n]
        IN  /\ i < j /\ x.live /\ y.live /\ same => x.n < y.n
            /\ ~x.live /\ ~y.live => i = j
            /\ ~x.live /\ y.live /\ same => x.n <= y.n

Finished(n) == \A p \in Pubs : pub[p].n # n

(* A subscriber that asked to block the publisher misses nothing that was  *)
(* written after new_subscriber() returned and passes its filter, until    *)
(* its channel closes or it starts to unsubscribe.                         *)
BlockLosesNothing ==
    \A s \in Subs :
        sub[s] = "live" /\ s \notin chanClosed /\ policy[s] = "Block" =>
            \A n \in joined[s] + 1..Len(sent) :
                Finished(n) /\ n \in Accepts[s] =>
                    [n |-> n, live |-> TRUE] \in ToSet(Line(s))

(* close() returns with the channel of every subscriber that               *)
(* new_subscriber() had returned before it closed, so that no recv() stays *)
(* blocked, also when unsubscribe() and publish() run meanwhile.           *)
CloseClosesOwned ==
    closer = "closed" =>
        \A s \in owned : s \in chanClosed

(* If every delivery loop ends, as it does when no Block subscriber on the *)
(* topic stops reading, then every unsubscribe() returns.                  *)
UnsubscribeCompletes ==
    (\A p \in Pubs : []<>(pub[p].pc # "deliver")) =>
        \A s \in Subs : sub[s] = "unsubscribing" ~> sub[s] = "gone"
=============================================================================
