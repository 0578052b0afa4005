# A TLA+ model of cpp-DDS

cpp-DDS is a C++17 implementation of DDS publish/subscribe: an in-process
("mock") participant, an RTPS participant over UDP multicast, bridges to other
transports, and the support code around them (security, end-to-end protection,
XTypes, TSN, tools). This directory holds TLA+ modules that model
its concurrent and distributed core and the algorithms on its data, the TLC
configurations that check them on small instances, and proofs of the main
invariants for every instance.

Paths below are relative to the root of the repository. Every definition that models code is listed
in `PROJECT.json` under `map` with the lines it stands for.

## How to run

    tlc -workers 2 -config Channel.cfg Channel     # any .cfg with its module
    tlapm ChannelProofs.tla                        # any *Proofs.tla

| run | module | time | distinct states |
|---|---|---|---|
| `Channel.cfg` | Channel | 30 s | 26 891 |
| `MockBroker.cfg` | MCMockBroker | 2 min | 675 000 |
| `RtpsReliable.cfg` | RtpsReliable | 90 s | 26 036 |
| `RtpsParticipant.cfg` | MCRtpsParticipant | 2 min | 301 000 |
| `Discovery.cfg` | MCDiscovery | 2 to 3 min | 261 671 |
| `DataPath.cfg` | MCDataPath | 100 s | 282 286 |
| `Bridges.cfg` | MCBridges | 70 s | 276 127 |
| `BridgeCalls.cfg` | MCBridgeCalls | 40 s | 1 031 358 |

The remaining four configurations each end with a counterexample, on purpose:
see *Disagreements*.

---

## 1. Inventory

### The parts and what they say to each other

```
 application threads: write(), recv(), new_*(), unsubscribe(), close()
        |                     |
  Publisher             Subscriber --------- relay::Channel<Sample>
        |                     ^                     ^
  +-----+---- mock ----+      |  deliver            | forwarders
  | Broker (shared_mutex)-----+                WaitSet, NodeAdapter
  +--------------------+      |
  +-----+---- RTPS ----+      |
  | Writer: HistoryCache, heartbeat thread --- UDP --- data loop
  |                                                      |
  |  SPDP (send, receive) -> bridge thread -> SEDP    Reader: RecvTracker
  +------------------------------------------------------+
        ^                        loans, fragments, E2E on the way
  bridges: WAN, REST, gRPC: accept loop, a worker per connection
```

Everything meets in `relay::Channel`: a write on either participant ends in a
send on the channel of each subscriber, in the thread that dispatches, under the
subscriber's back-pressure policy. *Which* thread that is decides what a full
channel under `Block` can hold up, and most of the hard behaviour of the
participants comes from that.

### relay::Channel (`include/dds/channel.hpp`)

State: a deque, a closed flag, one mutex, a condition variable for each
direction. Operations: `push`/`send`, `try_send`, `send_drop_oldest`, `recv`,
`try_recv`, `recv_until`/`recv_for`, `close`. Hard: several sleepers and one
`notify_one` per value, threads that overtake the notified one, spurious
wakeups, deadlines, close under waiters. Correct means: never more than the
capacity, FIFO, no lost wakeup, close releases all and loses nothing buffered.

### Mock participant (`src/mock/participant.cpp`)

State: `Broker` (subscriber lists per topic under a `shared_mutex`, last samples
under another mutex), per participant the closed flag, the list of its
subscribers' channels and atomic counters. Operations: `publish`, `subscribe`,
`unsubscribe`, last-sample store and hand-over, `write`, `new_subscriber`,
`close`, `close_with_drain`. Hard: `publish()` holds the broker's lock shared
across blocking sends; subscribe, unsubscribe and close run between any two
deliveries. Correct means: stable iteration, per-publisher order, no loss under
`Block`, honest counters, calls that return.

### RTPS reliability (`include/dds/rtps/history_cache.hpp`, `reliable.hpp`, `src/rtps/participant.cpp`)

State: the writer's sequence counter and `HistoryCache` (a bounded deque), the
reader's `RecvTracker` for each remote writer (a watermark and a bounded set of
numbers ahead of it). Messages: DATA, HEARTBEAT, ACKNACK, GAP. Hard: loss,
duplication, delay, reordering, eviction of what may still be asked for, first
contact in the middle of a stream, several threads writing on one writer.
Correct means: an acknowledgement never runs ahead of delivery, memory is
bounded, what is retained arrives.

### RTPS participant (`src/rtps/participant.cpp`)

State: `readers_`, `writers_`, `last_samples_`, `closed_`, the sockets, and the
threads: the data loop, one heartbeat thread per reliable writer, the bridge
thread, SPDP's and SEDP's. Operations: `new_publisher`, `new_subscriber`,
`write`, `dispatch`, `unsubscribe`, the writer's `close`, the participant's
`close`. Hard: everything above runs at once; a delivery may wait in the data
loop, in `write()` or in `new_subscriber()`; `close()` joins threads and closes
channels in a fixed order. Correct means: nothing leaks past `close()`, nothing
is delivered after `unsubscribe()`, the calls that should return do.

### Discovery (`src/rtps/spdp.cpp`, `src/rtps/sedp.cpp`, the bridge loop)

State: SPDP's peers with leases, the bridge thread's copy of the table, SEDP's
local and remote endpoints, its peers and the matches. Operations: announce,
receive, evict, `sync_peers`, `register_writer/reader`, `on_new_peer`,
`on_peer_evicted`, `handle_endpoint_announce`. Hard: an endpoint registered
while a peer appears, one-shot announcements over UDP, leases that expire early
or on one side only, late announcements. Correct means: two live participants
come to know each other's endpoints, a dead one is forgotten, matches follow
topics.

### The data path (`include/dds/pool/`, `include/dds/rtps/fragment.hpp`, `src/rtps/participant.cpp`)

State: a pool's free list and the buffers lent out, the writer's history, the
`FragmentAssembler`'s partial samples by writer and number, the staging ring
(`SampleBuffer`). Operations: `loan`, `write_loaned`, put back, split, send,
retransmit, add a fragment, sweep the stale ones, stage. Hard: fragments lost,
repeated and reordered, a request that overtakes what it asks for, two
transmissions of one sample cut to different sizes, a loaned vector whose
capacity the application changed. Correct means: a sample comes out whole, as it
was committed, once per partial; a buffer has one owner; it does arrive.

### End-to-end protection (`src/safety/e2e.cpp`)

State: the publisher's counter, the subscriber's last counter, its two output
channels, the pump thread. Operations: `write`, `process`, `close`. Hard: the
counter is taken under a lock and the frame written outside it; the counter
wraps; frames are lost, repeated, late, damaged or overtaken; `close()` joins a
pump whose channel nobody reads. Correct means: samples without an alarm are
those of consecutive writes, an alarm has a cause, `close()` returns.

### The bridges (`src/bridge/`)

*Servers* (`wan/wan.cpp`, `rest/transport.cpp`, `grpc/transport.cpp`). State:
the stop flag, the listening socket, the list of open connections (WAN and
REST), the worker threads. Operations: accept, a worker's life, `close()` (gRPC:
`stop()`). Hard: a connection accepted while `close()` runs; a descriptor closed
by its worker and by `close()`, and reused in between; an entry erased by
number; workers that wait for a peer. Correct means: nobody outlives `close()`,
nobody reads or writes somebody else's connection, `close()` returns.

*The WAN client* (`wan/wan.cpp`). State: a subscriber and a sender thread for
each topic, one connection with its write lock. Operations: `connect()`, the
sender's loop, `close()`. Hard: `connect()` fails halfway; a sender finds the
connection broken while others wait; two senders write one stream. Correct
means: no subscriber is orphaned, one failure ends all, frames stay whole.

*Calls* (`grpc/grpc.cpp`, `rest/rest.cpp`). State: a map from topics to cached
publishers and subscribers. Operations: publish, publish a stream, subscribe
(stream), list, close. Hard: two requests make one topic's endpoint at once, or
while `close()` empties the map; a stream that fails in the middle; two clients
that share a subscriber. Correct means: one endpoint for a topic, closed once;
acknowledgements that are true; each sample to one client.

### Algorithms on data

| part | what it does | hard | correct means |
|---|---|---|---|
| CDR and RTPS formats (`src/cdr/`, `src/rtps/cdr.cpp`, `types.cpp`) | encode, decode, walk a datagram | padding depends on what came before, texts cut short | decode inverts encode and takes nothing for whole that is not |
| XTypes (`src/xtypes/xtypes.cpp`) | type identity, dynamic data and its JSON, compatibility | recursion over types, skipping unknown values | identity is structure; compatible types can read each other |
| Access rules (`src/security/access.cpp`) | `glob_match`, `allows` | it goes back to the latest star only | the meaning of the pattern |
| TSN, TAPRIO (`src/tsn/`) | stream configurations, gate schedules | casts to narrower fields, units | what is written is read; a stream's gate opens |
| Bridge formats (`src/bridge/`) | frames, JSON, base64, HTTP, event streams | a stream ends anywhere | frames and requests arrive as sent or not at all |
| IDL compiler (`src/idl/`) | parser and generator of codecs | two recursions that must agree | the codecs mirror each other |

### The parts that are not modelled

| part | why |
|---|---|
| Persistence (`src/rtps/persist.cpp`) | two functions of file I/O without a lock; what a crash leaves is the file system's |
| Replay guard, payload encryption (`src/security/`) | a window under one mutex, and cryptography |
| Cryptographic primitives | arithmetic that test vectors pin |
| `WaitSet`, `NodeAdapter` (`src/dds.cpp`) | detached forwarders between two channels, each of which is `ChannelSpec`'s |
| RELAY types | no behaviour |
| Transport (`src/rtps/transport.cpp`), traffic control | system calls; what the model uses of them is said below |
| Tools (`cli/`, `ddstool/`) | batch programs |

The hazards of each part, at their lines, with the properties that cover them
or the reason why none does, are listed in `PROJECT.json`.

---

## 2. The modules

| module | models | built on |
|---|---|---|
| `ChannelSpec` | what a channel promises: a closable bounded FIFO whose blocked calls take effect in one step | |
| `Channel` | `relay::Channel`: the mutex, both condition variables, deadlines | implements `ChannelSpec` |
| `MockBroker` | the mock participant on one topic | channels as `ChannelSpec` has them |
| `RtpsReliable` | one writer, its remote readers and the network between them | |
| `RtpsParticipant` | the threads and the lifecycle of one RTPS participant on one topic | channels as `ChannelSpec` has them; samples as `RtpsReliable` brings them |
| `Discovery` | SPDP, the bridge thread and SEDP of several participants | tells `RtpsReliable` who is `matched` and `accepting` |
| `BridgeServer` | the WAN, REST or gRPC server: accept loop, workers, `close()` | |
| `LossyFifo` | what the WAN bridge promises about a topic: a queue that loses samples only on their way in | |
| `WanLink` | the WAN bridge's client, its sender threads, and the connection up to the server's writes | implements `LossyFifo`; frames as `BridgeCodec` encodes them |
| `BridgeCalls` | the calls of gRPC and REST clients on the bridge's shared endpoints | served by the workers of `BridgeServer` |
| `DataPath` | a sample from a loaned buffer through fragments to the staging ring | retransmits as `RtpsReliable` asks |
| `E2ELink` | end-to-end protected writers and reader | |
| `Cdr`, `RtpsWire` | the CDR codecs; RTPS submessages, datagrams, announcements | `RtpsWire` extends `Cdr` |
| `XTypes` | type identity, dynamic data, compatibility | |
| `AccessPolicy`, `GlobSyntax` | topic rules and their glob matcher; how a pattern is read as chunks | |
| `TsnConfig` | TSN stream configurations and the TAPRIO schedule made from them | |
| `BridgeCodec`, `RestHttp` | frames and JSON of WAN and gRPC; HTTP requests, routes and event streams of REST | |
| `Idl` | the IDL parser and the codecs it generates | |

`MC*` modules give constants that are functions their values, and put modules
that share no state side by side in one run: `MCDataPath` has `DataPath` and
`E2ELink`, `MCBridges` has `BridgeServer` and `WanLink`, `MCBridgeCalls` has
`BridgeCalls` and `MCCodecs`, and a behaviour moves one of them, which its initial
state picks. In the same way the
initial state of `MCMockBroker` and `MCRtpsParticipant` picks a *shape*, that is,
which threads there are, since no property needs the product of all. `MCCodecs`
holds the inputs of the algorithms on data and what is said of them: a state is
an input, and the step `Truncate` takes the last element from its text.

`*Proofs` modules hold the proofs. A definition `Op_Fault`, next to `Op`, is
`Op` with a mistake somebody could make in that code; no action uses it, and
with it in the place of `Op` one property fails (`PROJECT.json`, `mutants`).

**Channel.** A thread in a blocking method is `ready` (about to take the mutex
and evaluate the predicate) or `waiting`. Each method holds the mutex from end
to end apart from its waits, so an action is a method, or the part of one
between two waits. `notify_one` makes any one waiter ready; a notify without
waiters is lost, as in C++. `Expire` is a deadline, `SpuriousWakeup` what the
standard allows. `recv_for` is `recv_until`; `send` is `push`.

**ChannelSpec** has no mutex and no waiting: a call is pending until it takes
effect. `Channel` maps to it with `queue <- buf`, `pending <- call`.

**MockBroker.** Three kinds of threads: one per publisher, the owner of each
subscriber beside its consumer, and the closer. `mu_` is the set of publishers
that hold it shared (`readers`), held from `LockShared` to `WriteEnd` across any
number of blocking deliveries; `Subscribe` and `Erase` need it exclusive, so
`readers = {}`. Critical sections under the other mutexes are one action each.
`metrics` is written at `WriteEnd`. `Durable` are the `TransientLocal`
endpoints, `Accepts` the content filters, `Depth` the capacity of each
subscriber's channel. `new_subscriber()` is three steps, as no lock spans them:
`ReadLast` reads the last sample, `Subscribe` enters the channel in the list, and
`Replay` hands the sample over after the lock was released (lines 136 to 143).
What a subscriber receives is marked `live` or not, so that the two ways are told
apart.

**RtpsReliable.** A sample is its sequence number. A `write()` takes its number
(`TakeNumber`), stores it (`Store`), sends DATA (`SendData`) and a HEARTBEAT
(`Announce`), as four steps, because no lock spans them. `HeartbeatTick` is the
periodic thread. `tracker` is `RecvTracker`: `InitExpected`, `Record` and
`Missing` are its operations, `Missing` within one window of the bitmap. The
network is a set of messages: `Lose` removes one, a receipt may leave it there,
and any message may be received before any other. `MatchReader` and
`AcceptWriter` are the two sides' discovery, in either order. GAP is sent by the
code and parsed by nobody, so it has no action. A sample in fragments is one
message.

**RtpsParticipant.** `route[d]` is the copy of `readers_` that a dispatching
thread `d` (the data loop or a writer's thread) has still to serve. `Serve`
delivers to the next one, or cannot happen yet when that one blocks. Channels
are lengths, since no property here tells samples apart. `Unsubscribe` is three
steps as in the code: out of the local SEDP table and `readers_`, then the
channel closed. `Close` is the exchange on `closed_` and then one action per
phase: `TakeWriters`, `StopWriter`/`JoinWriter` for each, `StopLoops`,
`JoinDataLoop`, `TakeReaders`, `CloseReader` for each, `CloseDone`.

**Discovery.** Per participant: SPDP's table (`heard`), the bridge's
(`bridged`), what the bridge has yet to tell SEDP (`news`, `gone`), SEDP's
(`known`, `reg`, `remote`, `matched`). `Insert` and `Broadcast` are the two
halves of `register_writer`/`register_reader`, between which the lock is
released. `OnNewPeer` sends everything local to the new peer. A message stays in
`old` once received, so that it can arrive again at any later time.

**BridgeServer.** One module for three servers of the same structure; `kind`
says which. They differ in that gRPC keeps no list of connections, that only
WAN's workers own publishers, and that only REST's and gRPC's stream. `table` is
the kernel's descriptor table: `Accept` takes the lowest free number, `CloseFd`
and `CloseNext` give a number back whoever has it. An entry of `conns` carries
the peer it was added for, which the code does not know, so that the properties
can; `RemoveConn` erases by number as the code does. `closer` is the program
counter of `close()`, with `conns_mu` held from `conns` through `fd`. A worker
waits for its peer in `io` (a conversation), `send` (a streamed sample) and `last`
(an answer, or the terminator that a REST stream still sends when it ends because
the server stops); in `stream` for at most a polling interval; and in `publish`
inside `pub->write()`, which a local `Block` subscriber with a full channel holds
up. `IOFails`, the end of a connection, gets a worker out of the first three and not
out of `publish`; only `Written` does, which depends on the local subscribers.
Authentication and parsing are one `io`, whose content is `WanLink`'s or
`BridgeCalls`'s.

**WanLink.** `cpc` is the thread that runs `connect()` and later `close()`, `spc[t]` the
sender of topic `t`. `connect()` is `Subscribe` for each topic, `Address`, `Dial` and
`Start`; it fails in `SubscribeFails`, `AddressFails`, `DialFails` or `AuthFails`, each
of which has a loop of its own that closes the subscribers made so far, one by one
(`UndoNext`), while others publish to those still open, and returns then (`Undone`). A frame leaves in two parts, its length and its text, with
`write_mu` (`lock`) held over both; `taken` and `published` remember what
entered at one end and came out at the other. `Break` cuts the connection and
keeps any prefix of what was under way; `StopReading` is a host that stays
connected and reads no more, at which a sender waits with the lock in its hand.
`LossyFifo` has neither threads nor frames: `written`, `arrived` and `fault` are
`given`, `published` and `bad`, its `queue` is `Waiting`.

**BridgeCalls.** Every client has one call and one worker. `Lookup`, `Create` and
`CreateFails` are `get_or_create_sub()` (REST: `get_subscriber()`) and its like
for publishers, under `mu_`; `CloseTakes` and
`CloseEnds` are the bridge's `close()`, which empties the maps under `mu_` and
closes what it took there (gRPC) or after it (REST). What a client receives is a
sequence of parts, `got`, and `wrote` is what really was written for it.

**DataPath.** A byte is a pair of sample and position, so that a payload with a
hole or with another sample's bytes shows. `Loan`, `WriteLoaned` and `Return` are the
application's thread; `MovedSizes` are the capacities a vector may have after
the application moved another one into the loan. `Send` puts all messages of a
transmission in the network, which loses, repeats and reorders them. `Tick` ages the
reassemblies, and `Fresh` is what the sweep leaves of them: as in the code the
sweep is part of receiving a fragment.

**E2ELink.** `TakeCounter` and `WriteFrame` are the two halves of `write()`, of which
only the first holds the lock. The link between is one sequence of frames and
the faults that may befall them; `Process` is the check with its verdicts in the
code's order, `Forward` the `try_send` whose result nobody looks at.

**The algorithms.** Texts are sequences of tokens or characters, buffers of
bytes with a smaller radix. What the code does in a loop with a cursor is a
recursive operator that returns the cursor. Each module ends with the reference
its algorithm is compared with, where that is not simply its inverse: the JSON
grammar (`IsValue`), the meaning of a pattern (`Fits`), structural equality
(`SameType`), the text of a module (`ModuleText`).

## 3. What is checked

| run | property | says |
|---|---|---|
| `Channel` | `NoLostWakeup` | whoever sleeps has nothing to do that somebody awake is not already on the way to |
| | `CloseReleases` | after `close()` every blocked call returns |
| | `ImplementsChannelSpec` | every behaviour, with its fairness, is one of `ChannelSpec` |
| `MockBroker` | `PerPublisherOrder` | what is delivered live of one publisher comes in order and once; at most one sample is handed over as the last, and no live one of its publisher is older. The handed-over one may come twice, or late |
| | `BlockLosesNothing` | a `Block` subscriber gets every later sample it accepts |
| | `CloseClosesOwned` | after `close()` each subscriber live at the call has a closed channel |
| | `UnsubscribeCompletes` | `unsubscribe()` returns if no publisher stays blocked |
| `RtpsReliable` | `WatermarkSound` | all up to the watermark, and all buffered above it, was dispatched |
| | `HeartbeatHidesNothing` | no HEARTBEAT in flight starts above a retained sample (one writing thread) |
| | `RetainedArrives` | a retained sample arrives, unless one the reader lacks was evicted or the writer closes |
| `RtpsParticipant` | `CloseClosesOwned` | as above, for readers |
| | `HeartbeatsStopped` | no heartbeat thread of a writer open at the call outlives `close()` |
| | `GoneIsQuiet` | nothing enters a channel after its `unsubscribe()` returned |
| | `UnsubscribeReleases` | `unsubscribe()` returns and frees a delivery that waits there |
| | `CloseReturns` | `close()` returns unless the data loop is stuck in a delivery |
| `Discovery` | `KnownPeersAreTold` | each known peer was sent each registered endpoint |
| | `DiscoveryCompletes` | a writer and a reader of one topic meet, unless a loss, an early expiry or an end intervenes |
| | `EndedIsForgotten` | a peer that ended is forgotten for good |
| `DataPath` | `ArrivesAsCommitted` | what is staged is byte for byte what was committed |
| | `OneOwner` | a pool buffer is free once, or lent to one thread, and large enough when free |
| | `CommittedArrives` | a committed sample arrives, whatever reassembly a lost transmission left |
| | `SilenceMeansIntact` | without an E2E alarm the samples are those of consecutive writes |
| | `AlarmsHaveCause` | an E2E alarm follows a fault or overlapping writes; the wrap of the counter is none |
| | `CloseReturns` | the E2E subscriber's `close()` returns though nobody reads its channel |
| `BridgeCalls`, data | `TypesAreStructural` | types are identical when their structure is, and compatible ones can be read |
| | `JsonIsTheGrammar` | `from_json` accepts the JSON objects up to its depth and nothing else, and sets the last scalar each declared field has, in a refused text of the members before the wrong place |
| | `GlobMeansPattern` | `glob_match` decides what the pattern means, and reports a malformed one; a list of rules allows what its first fitting rule grants |
| | `WireIsRead` | CDR values, datagrams and announcements arrive as sent, or are not taken |
| | `BridgesUnderstand` | so do frames, requests and event streams |
| | `ConfigArrives` | so does a TSN configuration, and its schedule opens the gate its streams use |
| | `IdlCompiles` | the parser reads a module's text as the module, and the generated codecs mirror each other |
| `Bridges` | `NobodyOutlivesClose` | after `close()` the accept loop and all workers have ended, with their publishers closed |
| | `OnlyRacesSlip` | `close()` shuts down every connection still served, but for two named races |
| | `CloseReturns` | `close()` returns unless a connection not shut down has a peer that holds on, or a local `Block` subscriber holds up a worker's `write()` |
| | `ImplementsFifo` | from local publishers to remote ones each topic is a queue that loses what finds its channel full, and nothing else is left out, repeated or overtaken; the server stops for no frame of the senders |
| | `NothingLeft` | a `connect()` that fails, at any of its four places, and a `close()` leave no subscriber open, no connection and no sender |
| | `SendersEnd` | one sender that fails, or `close()`, ends every sender |
| `BridgeCalls`, calls | `OneEndpointPerTopic` | an open endpoint is the cached one of its topic, or about to be closed |
| | `AcksAreTrue` | an acknowledgement counts what was written |
| | `EachSampleOnce` | the clients of a topic share its samples out, with ids of their own |

Some invariants are proved and in no run of their own: the `TypeOK` of five
modules, `BoundedBuffer` and `NoWaiterAfterClose` of `Channel`, `ReorderBounded`,
`SpanCoversHistory` for one writing thread, `MatchedByTopic`, and of `Discovery`'s
bridge loop `BridgeInv` and that what is forgotten stays so. `TypeOK` of `BridgeServer` also says that the descriptor of a serving
worker denotes its own connection until `close()` shuts that down; that of
`RtpsParticipant` relates the states of the two sides of a writer's close.

### Bounds and why they are enough

- *Channel*: two senders, two receivers, two slots, two values. A second thread
  on each side is what can be forgotten by a notify or overtake the notified
  one. Nothing else is bounded.
- *MockBroker*: depth 1 and two writes, so that the second sample finds the
  channel full; two subscribers for iteration and close, two publishers for
  order and for two threads blocked at one channel. The shape "fan out" has the
  one publisher and a first subscriber that blocks, "writers" the two publishers
  and one subscriber of any policy. In "late" one durable subscriber of any policy,
  with room for two, joins a publisher of three samples: one that is replayed,
  the same one delivered, and a newer one. Repetition and delay of the handed-over sample
  both occur there.
- *RtpsReliable*: three samples with a history of two (one eviction), a window
  and a reorder bound of one (both are exceeded). The constants of the code are
  256, 32 and 8192; the proofs hold for all of them.
- *RtpsParticipant*: depth 1, one durable and reliable writer. With "three
  samples" there is one reader, so that one sample is full, one waits and one is
  behind it; with "two from the net" or "two written" a second reader that never
  blocks comes after the first in the dispatch.
- *Discovery*: two participants, two topics, one lease that expires early. With
  an early expiry a peer is forgotten and met again, on one side only.
- *DataPath*: a pool of size three and requests of three and four, so that one
  is refused; a vector of capacity two moved in, which is too small to be kept.
  One thread whose samples of three bytes go in two fragments, the last one
  short, or two threads whose samples fit one DATA each. A ring of two for two
  samples; two faults, so that a fragment and its repetition are lost.
- *E2ELink*: a counter modulo 4, begun at 2 and written 3 times, wraps; it does
  not go all the way round, which is what `Modulus > MaxWrites` is for (a whole
  period missed looks like nothing missed, here as in the code). Both output
  channels have one place.
- *Bridges*: two peers and two descriptors, so that two connections are
  open at once, or one gets the number of the other; each peer connects once.
  All three kinds of server are initial states. Two senders, three samples
  and channels of one for the WAN client, with or without a token on either side.
- *BridgeCalls*: two clients, two topics, two samples, streams of two, one
  `close()`. The algorithms get types of two fields and one level of nesting, also
  under another name or version; as JSON all texts of up to four tokens, and objects of
  one or two members with values nested up to the depth limit (set to one here) and past it,
  lists and members in them, each also with one token lost, replaced or inserted; patterns of up to five characters and names of up
  to three; up to three CDR values, two submessages, two frames; a byte of 16
  values, so that a length needs two. Every encoded text is also cut short at
  each place.

### Fairness and why the code justifies it

A thread that can take a step of its program takes it (weak fairness per
thread): the operating system schedules it. Where a thread waits for a lock
that others take in turn, weak fairness is enough in these instances because
the writes are bounded; a `shared_mutex` that starves its exclusive side under
endless readers is outside the model. Spurious wakeups, the application's choice
to call anything, and a consumer's choice to receive are not fair: a
subscriber nobody reads is the interesting case. `HeartbeatTick`, SPDP's `Hear`
and the bridge's steps are periodic loops, hence fair. UDP is fair-lossy for the
reliability protocol (strong fairness per kind of message and receiver: what is
sent again and again arrives; in `DataPath` that is the bound on faults); SEDP's
announcements are sent once, so losing one is an explicit exception of
`DiscoveryCompletes`. In `DataPath` a datagram not lost is read, and a reader
that lacks a sample asks for it again once nothing of it is under way. In `E2ELink`
the pump and `close()` are fair, in `WanLink` the senders and `close()`, in
`BridgeServer` the accept loop, the workers and `close()`; no peer is, no
application, no host at the other end, and not `Written`, which waits for local
subscribers. `IOFails` is strongly fair: on a connection that has ended only so much is
left to read, so that a worker cannot for ever find another frame there. Four properties have a premise that is
the code's, not the scheduler's: `UnsubscribeCompletes` and `CloseReturns` of the
participants hold if deliveries do not stay blocked for ever, `CloseReturns` of
`BridgeServer` if no worker is for ever held up by its peer on a connection `close()` missed,
or by a local subscriber, `RetainedArrives` if nothing
the reader lacks is evicted. `BridgeCalls`, of which only safety is asked, states
no fairness.

`CHECK_DEADLOCK FALSE` is set where every call may have returned and nothing
more is asked for. `Channel` has no such state, and there deadlock is checked.

---

## 4. What is proved

`tlapm` checks every proof to its leaves; nothing is assumed but the constants'
assumptions, which TLC evaluates in every run, and the hypotheses of thirteen theorems.
The assumptions ask for finite sets where something is counted, for natural
numbers, for disjoint sets of threads, and for no particular size of anything.
The hypotheses:

- `Serial` (of `SerialHeartbeatsHideNothing`): one thread at a time calls `write()`.
  Without it the statement is false of the code, as run `rtps_concurrent_writes` shows.
- `RangeSuffices` (of `SilenceProves`): fewer writes than the counter has values. A
  whole period missed looks like nothing missed, in the code as here.
- `Modulus \in Nat \ {0}`, `Earlier \in Nat` (of `AlarmsAreCaused`) and `MaxEndpoints
  \in Nat` (of `SamplesGoOnce`) say that counters and a bound of the model are
  numbers; `Link!None \notin Topics` (of `FramesStayWhole` and `LinkIsLossyFifo`) that
  the name for a lock nobody holds is no topic's; `NoClient \notin Clients` (of
  `EndpointsUnique`) the same of `mu_` and a client; `ChanCap \in Nat` (of
  `LinkIsLossyFifo`) again a number; `Order \in Seq(Topics)` (of `NothingIsLeft`) that
  `opts.topics` lists topics. TLC's instances meet all of them.
- `IsPattern` (of the three theorems on topic rules): a pattern has a star before every
  chunk but the first, as `scan_chunk` cuts it. `SlashesPlain` (of two of them): no class
  between two stars takes a slash among other characters; without it the code
  misses a match (section 5). Its chunks are well-formed where a match is asserted.
- `ByteRadix` (of the two on CDR): a byte has at least two values. `IsValue` and `IsParam`
  say what a caller may write: a number that its type holds, a text, bytes or a
  parameter whose length the length field holds, and no parameter id that means
  padding or the end.

| theorem | of | says, for all constants |
|---|---|---|
| `TypeCorrect` | Channel, MockBroker, RtpsReliable, RtpsParticipant, Discovery, BridgeServer | `TypeOK` |
| `BufferBounded`, `WakeupsSuffice`, `CloseWakesAll` | Channel | `BoundedBuffer`, `NoLostWakeup`, `NoWaiterAfterClose` |
| `ChannelRefinesSpec` | Channel | every step is a step or a stutter of `ChannelSpec` |
| `ClosesWhatItOwns` | MockBroker | `CloseClosesOwned` |
| `DeliversInOrder`, `BlockMissesNothing` | MockBroker | `PerPublisherOrder`, `BlockLosesNothing` |
| `LockAwaitsOnlyRoom` | MockBroker | the safety half of `UnsubscribeCompletes` |
| `AcknowledgedWasDelivered`, `AheadIsBounded` | RtpsReliable | `WatermarkSound`, `ReorderBounded` |
| `SerialHeartbeatsHideNothing` | RtpsReliable | `HeartbeatHidesNothing` and `SpanCoversHistory`, if `Serial` |
| `CloseClosesEveryOwned`, `NoHeartbeatOutlives` | RtpsParticipant | `CloseClosesOwned`, `HeartbeatsStopped` |
| `UnsubscribedIsQuiet` | RtpsParticipant | `GoneIsQuiet` |
| `CloseHangsOnlyOnFull` | RtpsParticipant | the safety half of `CloseReturns` |
| `EveryPeerIsTold`, `ReadersAreMatched` | Discovery | `KnownPeersAreTold`, `MatchedByTopic` |
| `BridgeKeepsStep`, `ForgottenForGood` | Discovery | `BridgeInv`; the safety half of `EndedIsForgotten` |
| `PoolIsSound`, `DeliversWhatWasCommitted` | DataPath | `OneOwner`, `ArrivesAsCommitted` |
| `SilenceProves`, `AlarmsAreCaused` | E2ELink (in `DataPathProofs`) | `SilenceMeansIntact`, if `RangeSuffices`; `AlarmsHaveCause` |
| `CloseJoinsEverybody`, `CloseShutsAllButRaces` | BridgeServer | `NobodyOutlivesClose`, `OnlyRacesSlip` |
| `CloseHangsOnlyOnOthers` | BridgeServer | the safety half of `CloseReturns` |
| `LinkIsLossyFifo` | WanLink (in `BridgeServerProofs`) | `ImplementsFifo`: every step is a step or a stutter of `LossyFifo` |
| `FramesStayWhole`, `NothingIsLeft` | WanLink | `FramesIntact` (published is a prefix of taken, which `ImplementsFifo` implies), `NothingLeft` |
| `SendersNeverStick` | WanLink | the safety half of `SendersEnd` |
| `EndpointsUnique`, `AcksTrue`, `SamplesGoOnce` | BridgeCalls | `OneEndpointPerTopic`, `AcksAreTrue`, `EachSampleOnce` |
| `AcceptsWhatIsMeant`, `MeantIsAccepted` | AccessPolicy (in `BridgeCallsProofs`) | what `glob_match` accepts the pattern means, and conversely if `SlashesPlain` |
| `FirstMeantDecides` | AccessPolicy | `allows()` grants what the first rule grants whose pattern means the topic, if `SlashesPlain` |
| `ValuesArrive`, `ParametersArrive` | Cdr (in `BridgeCallsProofs`) | values and parameter lists of any length are read back; of a text cut short anywhere, a beginning of them, and the cut is noticed for values |

How the arguments go:

- **Channel.** `NoLostWakeup` counts: if receivers sleep, there are at least as
  many awake ones on their way as values in the buffer, and likewise for senders
  and free slots. Alone it is not inductive: that a thread which finds nothing
  and goes to sleep was not counted on needs the bound on the buffer, and a
  close needs to have emptied the set of sleepers. `Counted` is the conjunction,
  and is inductive. The lemmas `NotifyOneEffect`, `NotifiedCounts` and
  `ReturnCounts` say how many threads each notification moves. Refinement then
  needs only `TypeOK`: a wait, a wakeup and a deadline are stutters, everything
  else is the action of the same name.
- **MockBroker.** `CloseInv` follows a subscriber's channel from the participant's list
  into the one `close()` takes, and from there to being closed
  (`OwnedAccounted`). It needs that `new_subscriber()` returns only after it has
  registered the channel (`LiveRegistered`); a channel once closed stays closed
  whatever a delivery, an unsubscription or a late registration does.
  For order and loss, `Line(s)` is what s got, then what is in its channel, and
  `Ahead(p, s)` says that p's write has yet to reach s. An item of a line is no
  newer than its publisher's write in progress, and older while that write is
  ahead (`OrderInv`); a sample that a live `Block` subscriber lacks is ahead
  (`BlockInv`). Both need that a subscriber has one entry in the list (`EntriesInv`)
  and that a write visits nobody twice (`WritesInv`). Neither needs `mu_`: that a
  write works on the list as it was when it began is enough. The last sample is not
  that simple (`HandOverInv`): it was read before the subscriber was in the list, so that a
  write that reaches the subscriber is of that sample or a newer one (`Current`), and what it
  was delivered meanwhile is no older (`Behind`). Here `mu_` counts: a delivery meets only
  channels that are in the list (`HeldInv`).
- **RtpsReliable.** The invariant is a statement about each tracker
  (`ReaderInv`): all numbers from its anchor to its watermark and all it
  remembers ahead were dispatched, and those ahead are strictly above the
  watermark and within the reorder bound. `RecordSound` shows that `record()`
  keeps it although it skips along a run of remembered numbers; nothing is needed
  of the network, which is why loss, duplication and order play no part in the
  proof.
  A HEARTBEAT's `first` is the front of the history when it was made. With one
  writing thread the history is in order and below the number yet to be stored
  (`HistoryOrder`), so its front only grows, and every HEARTBEAT in flight starts at
  or below what is retained (`HeartbeatOrder`).
- **RtpsParticipant.** What the owner of a subscriber is doing, what `close()`
  has taken and what it has yet to close are three lists that change at different
  times. `ReadersInv` says of each subscriber open at the call in which of them it
  is; from `CloseDone` on only "closed" and "its own unsubscribe is about to
  close it" remain. It also says that the channel of a subscriber that is gone is
  closed, so that a dispatch that still has it in its copy delivers nothing
  (`UnsubscribedIsQuiet`). `WritersInv` does the same for heartbeat threads, where the
  exchange on the writer's `closed_` decides which of two closers joins the thread.
- **Discovery.** `KnownPeersAreTold` and `MatchedByTopic` are inductive with
  `TypeOK`; that is itself the point: each handler re-establishes them under the
  lock it holds, and no order of handlers matters. `BridgeInv` relates the tables
  of three classes in the middle of a round of the loop: SEDP knows whom the
  loop took over, without those it has yet to announce and with those it has yet
  to evict. A peer that ended and is in no table is therefore in none of SEDP's.
- **BridgeServer.** `FdInv`: a number in use denotes its connection, or `close()`
  shut that connection down and gave the number back. It is inductive because
  numbers are handed out only while the server listens, and `close()` closes
  other threads' numbers only once it does not; the proof fails without
  `shut # {} => ~listening`. `JoinInv` says every running worker is in `workers`
  and the accept loop has ended before they are joined. `SlipInv` follows an
  entry from `conns` to `close()`'s list to a connection shut down, and names the
  two exits on the way.
- **WanLink.** A frame is two sends, and what the server reads is one stream. Its
  parts form a chain of whole frames that goes on from what the server has read
  (`Chain`); it ends inside a frame exactly while a sender holds the write lock
  between its two sends (`AtEnd`, which is where the lock is needed); the texts of
  a topic in it are the samples its sender sent and the server has not
  published, in order, and while the connection is up all of them (`Ordered`,
  `AllIn`). `NothingLeft` needs of a failing `connect()` how far its loop is in what it has
  made (`UndoInv`), and of `close()` that the senders were told to end (`EndInv`, below).
  The queue of `LossyFifo` stands for what the sender took and the server has not
  published, followed by the channel (`Waiting`): it grows when a sample is given, is
  not moved when the sender takes one (`WaitingMoves`), and shrinks when a text is
  published, which is the front one because what is published stays a prefix of what
  was taken. All other steps of the client, the connection and the server are stutters.
- **DataPath.** `OneOwner` is inductive once the types are known (`PoolInv`), because it
  says three things together: a free buffer is on the list once, a lent one is
  not on it and lent once, and both are allocated. So the buffer taken from the
  end of the list is on no other place of it, one newly allocated is nobody's, and
  one put back was its thread's alone. That an undersized vector is deleted and
  not kept is what the bound on free buffers rests on.
  `PathInv` follows the bytes: a DATA or fragment under way is a piece of what was
  committed (`Carried`), where a mark says so its bytes are in place in the
  reassembly and the count is that of the marks (`Reassembled`), and the ring's
  `len` slots from `head` hold whole samples (`Staged`). That a count equal to
  the total leaves no gap is a matter of cardinalities. A repetition may be split
  at another size: its fragments are refused while a reassembly is under way and
  begin a new one otherwise, so that one reassembly only mixes pieces of one size.
- **E2ELink.** Without an alarm what was delivered is consecutive and ends with the
  counter last accepted (`Checked`). The next sample accepted has the next
  remainder, hence is the next number, as fewer than `Modulus` were written
  (`SameRemainder`). For the other direction `Orderly` says that without a
  disturbance the link holds the frames that follow the one last checked, and
  nothing else, up to the one last sent: each then passes the check, also where
  the counter wraps.
- **BridgeCalls.** That two clients never create one topic's endpoint rests on
  `mu_`: a worker between its look-up and its entry holds it (`CreatorLocks`), so that
  the key is still absent when it is entered, and `close()` cannot come between.
  For the acknowledgements `AckInv` ties `wrote` to the count that a worker carries
  through a stream's loop, and says that nobody is acknowledged before the end.
  For the samples, a client's line is what it got and what it is about to send:
  no sample of it is in its endpoint's channel any more (`LinesTaken`), and two
  places of lines are apart in sample or channel, and in id (`LinesApart`).

- **Who waits for whom.** Four theorems say in which states a call that must return
  can still wait, and for whom, so that a state in which everybody waits for
  everybody is excluded and only the scheduler is left to liveness. Each
  rests on an invariant of what has been told to whom. `ToldInv` (RtpsParticipant): past
  the step that stops a thread, its flag or its socket says so, and a thread told
  so leaves each of its waits, but for the data loop in an open `Block` channel:
  `close()` closes the channels after it joins that loop, which is the disagreement of
  run `rtps_close_hangs`, and the theorem says there is no other. `StopInv` (BridgeServer):
  the descriptor of a connection shut down holds no worker up, a listening socket closed holds no
  accept loop up; what remains are peers on connections nobody shut down and local
  subscribers (`AwaitsOthers`). `EndInv` (WanLink): once one sender was told to end, the subscribers are
  closed or `close()` is about to close them, and whoever holds `write_mu` is at one of
  its two sends on a connection that is down. `HeldInv` (MockBroker): a publisher
  holds `mu_` exactly while it delivers, and the subscriber at whose full channel it
  waits is in `subs_` with its channel open, for `unsubscribe()` needs the lock first.
- **MockBroker, types.** `Bounds`: what a channel holds, and what a subscriber has got
  without repetition, are bounded by the depth and by the samples sent; a list that
  names nobody twice is no longer than there are subscribers, which is an injection
  into a finite set.
- **AccessPolicy.** A loop of n rounds is a recursive function on `0 .. n`; `RunExists`
  shows once that it has a run, and induction goes by the least number at which a
  statement fails (`LeastOf`, from the well-foundedness of `<`). `glob_match` puts each chunk
  in the first place that suits it; `StaysAhead` says that it is never behind another
  placement of the same chunks, because what lies between the two has no slash, so
  that the next chunk may begin wherever the other one begins.
- **Cdr.** A number written at its alignment is read back from any text that has its
  bytes at that place, be it cut later or continued (`NumberBack`, `BytesBack`,
  `CountedBack`, `ValueBack`). `Reaches` says where the reader stands when it has read k of n
  values of a text cut at any place: at the end of the k-th one, with all of them, or
  stopped before with a beginning of them; each read keeps it (`NextReach`).
  A parameter list is read from its end backwards (`NextsAre`, `FromIs`), as the recursion
  goes; `WholeIsRead` and `PartIsNotRead` are its two cases.

Left to TLC, because the prover has no means for it: liveness itself (fairness and
ENABLED), of which the safety halves above are proved, hence the fair part of the
refinement; and what a RECURSIVE operator computes for every input. Recursive functions
of numbers can be reasoned about, which is how glob matching and the values and
parameter lists in `WireIsRead` are proved in general; `TypesAreStructural`,
`JsonIsTheGrammar`, `BridgesUnderstand`, `ConfigArrives`, `IdlCompiles`, how a pattern's text is
cut into chunks (`GlobMeansPattern`) and the datagrams and announcements of `WireIsRead`
are checked on small inputs. Every other invariant of the passing runs is proved.

---

## 5. Disagreements between the code and what is said of it

Each of the first four is a run that ends with the counterexample; the findings
in `PROJECT.json` quote the statements.

| run | what happens |
|---|---|
| `RtpsCloseHangs.cfg` | `close()` joins the data loop, which waits in a full `Block` channel that `close()` would close next: it never returns |
| `RtpsWatermarkStuck.cfg` | when a whole ACKNACK window was evicted, a retained sample behind it is never requested; the GAP that would help is not parsed |
| `RtpsConcurrentWrites.cfg` | two threads in one writer's `write()` store out of order, and `span()` misses a retained sample |
| `TsnRetransmit.cfg` | a retransmission is cut to the default fragment size, a TSN stream's live write to its own: while a reader holds part of the one, it discards all of the other |

Others were met while modelling. The properties are worded so that they hold
despite them, and say so.

In the participants:

- the mock `unsubscribe()` waits for the broker's lock while a publisher that is
  blocked at a full channel, perhaps this very one, holds it
  (`src/mock/participant.cpp:95`, `111`, `152`); `include/dds/dds.hpp:190` has it release
  the channel;
- a `new_subscriber()` or `new_publisher()` past its `closed_` check registers
  after `close()` took its snapshot, and is never closed (both participants);
- the mock participant reads the last sample before it subscribes, so a late
  joiner may miss a sample altogether; and it hands that sample over after the
  broker's lock was released (`src/mock/participant.cpp:136` to 143), so that the joiner may
  get it twice, or after newer ones. `PerPublisherOrder` makes that exception;
- the RTPS `new_subscriber()` registers first, so a late joiner may see the last
  sample after newer ones, or twice, or wait at a full channel it does not hold;
- a first contact by DATA anchors the watermark there, above retained samples;
- `record()` reports duplicates and its callers ignore it;
- a lease that expires on one side only is not followed by a new announcement
  from the other; SEDP's announcements are never repeated;
- nothing removes a local endpoint from SEDP, or a match of an evicted peer.

In end-to-end protection (`src/safety/e2e.cpp`):

- two threads writing through one publisher may send out of the order of their
  counters, which the reader reports as a `SequenceGap` (lines 139 to 146);
- a sample the reader has checked is dropped without a word when its channel is
  full (line 219);
- the channel of errors is never closed.

In the bridges:

- a connection that `close()` misses by a race (`late`, `erased`) is
  never shut down, so `close()` waits for as long as its peer stays, although
  `transport.hpp:59` (REST) speaks of every open connection; gRPC's `stop()`
  waits for all of them;
- `close()` may also wait for a worker in `pub->write()` (`src/bridge/wan/wan.cpp:709`,
  `src/bridge/rest/rest.cpp:246`, `src/bridge/grpc/grpc.cpp:502`, `520`) that a local `Block`
  subscriber with a full channel holds up (`src/mock/participant.cpp:110`), which shutting the
  connection down does not end. That subscriber may be the bridge's own cached one, which
  nobody reads once its streams have ended;
- gRPC's Subscribe sends its OK status before it asks for the subscriber
  (`src/bridge/grpc/transport.cpp:377`), so that a client whose topic is refused
  sees an empty stream that ended well; `include/dds/bridge/grpc/transport.hpp:83`
  promises an error;
- the HTTP reader leaves header lines past the 64th in the body.

In the algorithms:

- `glob_match` puts a chunk behind a star in the first place that suits it and never
  goes back, so `*[^a]*` does not match `b/`: the class takes the `b`, and no star takes the
  slash. With `b` for the first star and the slash for the class it would match as
  `include/dds/security/access.hpp:16` to 20 describe a pattern (Go's `path.Match`, whose
  port this is, decides as the code does);
- TSN's `pcp` and `dscp` are cast to a byte before they are validated, so 256 passes as 0;
- XTypes' `from_json` has set the fields before the one at which it fails, although
  `include/dds/xtypes/xtypes.hpp:76` says that it parses and validates the whole document
  before it applies a field;
- generated headers declare typedefs before structs, so an alias of a struct
  does not compile, nor does `sequence<boolean>`; a stray `}` ends the parse of a file without an error.

---

## 6. What is not modelled

- *Persistence, the replay guard, cryptography, `WaitSet` and `NodeAdapter`, the
  RELAY types, the tools*: see the inventory.
- *Texts*: white space, escapes character by character, decimal digits, error
  messages. Where a format's property needs them they are tokens.
- *gRPC's configuration file, the bodies of unknown IDL annotations*: read and
  skipped.
- *Sockets*: a send never waits and a receive times out, in the participants; a
  TCP send that waits is in `WanLink`; a descriptor closed under a thread that
  uses it appears only in `BridgeServer`.
- *Several topics* in the participants: topics share only the locks, and the
  broker's lock is the one that matters; `Discovery` has two topics.
- *Metrics, health, logging, IPv6*: they change no state the properties see.
- *Memory order*: every access is sequentially consistent. The code's shared
  state is under mutexes or in `std::atomic`s with the default order, but for a
  few descriptors (`PROJECT.json`, `hazards`).

---

## 7. Plan

Written, in this order: `ChannelSpec`, `Channel`, `MockBroker`, `RtpsReliable`,
`RtpsParticipant`, `Discovery`, `BridgeServer`; then the algorithms on data
(`XTypes`, `GlobSyntax`, `AccessPolicy`, `Cdr`, `RtpsWire`, `BridgeCodec`, `RestHttp`, `TsnConfig`, `Idl`),
`DataPath`, `E2ELink`, `WanLink` with `LossyFifo`, and `BridgeCalls`.

What could come next:

1. `Persist`: `persist_flush()` in its system calls with a crash between any two,
   two writing participants on one directory, and `persist_load()` racing
   `update_last_sample()`; it needs a model of a file system to start from.
2. `ReplayGuard`: the window's edges, against the set of all numbers seen.
3. `WaitSet` and `NodeAdapter`: forwarder threads between channels, as instances
   of `ChannelSpec`; every forwarder ends when its source closes, unless its sink
   is full.

Theorems next: `DataPath` as a bag of committed samples; the schedule made from a TSN
configuration, once it is apart from its parser.
