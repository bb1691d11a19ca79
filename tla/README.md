# tinygo-mqtt in TLA+

This directory models the MQTT 5 client of this repository (`mqtt/client.go`),
the storage it persists packets in (`mqtt/storage`), its topic matching and the
codecs of its packets (`mqtt/packets`); checks them with TLC on small
instances; and proves their invariants with TLAPS for every instance. Paths are relative to the repository
(`src/` in `PROJECT.json`), line numbers without a file are those of
`mqtt/client.go`.

## The system

| Part | State | Operations | Interacts through |
|---|---|---|---|
| Client, publishing (`Publish`) | `sendQuota`, `serverReceiveMaximum`, `pendingSendSemaphore`, storage | `Publish` | `connMutex`, then `mutex`; the semaphore that `Poll` receives from; the connection |
| Client, polling (`Poll`) | `receiveQuota`, `clientReceiveMaximum`, storage, `pingRespDeadline`, `isConnected` | `Poll` and one handler per packet type, `sendPuback`, `sendPubrec`, `disconnectWithReason` | `connMutex` for the whole call, `mutex` inside; event channels |
| Client, session | `conn`, `isConnected`, `pingRespDeadline`, the quotas | `Connect`, `Disconnect`, `DisconnectWithSessionExpiry`, `KeepAlive` | `mutex`, then `connMutex` |
| Client, events | `eventChans`, `topicChans` | `CreateEventChannel`, `CloseEventChannel`, `signal` | `eventMutex`; buffered channels the application reads |
| Client, subscriptions | `responseChan`, `topicChans` | `Subscribe`, `Unsubscribe`, the SUBACK and UNSUBACK handlers | `connMutex`, `mutex`, a response channel per call |
| Topic matching | none | `matchTopic` | called by `Poll` |
| Storage | a map from identifiers to packets | `Store`, `Get`, `Drop` | called by `Publish` and `Poll` |
| Memory storage | a slice of entries, a mutex | the same | |
| Primitive encodings | none | `ReadFrom`, `WriteTo`, `Length` of integers, variable byte integers, strings, pairs | called by the codecs |
| Packet codecs | the fields of a packet; while reading, counters | `WriteTo`, `ReadFrom` of each packet type, `FixedHeader` | the connection: what one announces the peer relies on |
| Reason codes, backoff | none | a table; a helper nothing calls | |

What makes the client hard to get right:

* two mutexes that different methods take in different orders, and early
  returns that skip an unlock;
* quotas that are tested under one lock (or none) and changed under another,
  by `Publish` and by `Poll`, in any order with the broker's answers;
* a wait (`pendingSendSemaphore`) that only a `Poll` at the right moment ends;
* the QoS 1 and QoS 2 flows over losses of the connection and reconnects with
  a storage that outlives the client;
* `isConnected`, tested before a lock and used after it;
* maps that `Poll` reads while `Subscribe`, `Unsubscribe` and
  `CloseEventChannel` write them, each under a lock of its own choice, and
  channels that are closed while `Poll` is on its way to signal them;
* a byte stream in which nothing marks the start of a packet: lengths that are
  announced before the fields are written, and readers that find the end of a
  packet by counting.

What makes each part correct: the mutexes are held by one goroutine at a time,
are given back, and never wait for each other; the server's Receive Maximum is
respected and the client's own is neither leaked nor overdrawn; a message that
was sent and not acknowledged is in the storage; every `Publish` returns and
every message is acknowledged; every `Subscribe` and `Unsubscribe` gets its
answer; a channel that is bound to a topic is open or about to be removed, and
gets the messages of that topic and nothing else; nothing sends on, or closes, a
closed channel (the code does both, but in two ways only); the storage behaves
as an atomic map;
`matchTopic` decides what MQTT 4.7 says; a packet announces the length it is
written with, and is read to its end and no further.

## The modules

| Module | Models |
|---|---|
| `StorageMap` | what the interface `storage.Storage` promises: an atomic partial map (abstract specification) |
| `MemoryStorage` | `memory.Storage`: lock, scan entry by entry, act, unlock; `ImplementsMap` is its refinement to `StorageMap` |
| `MemoryStorage_proofs` | its proofs |
| `ClientState` | the fields of `Client`, the connection, the locks, uint16 arithmetic, `send`, `signal`, the maps of event channels, the deletes of `closeEventChannelInternal`, panics |
| `Publishing` | `Publish`, 8 steps |
| `Polling` | `Poll`: the call, the read, and one action per handler stage |
| `Session` | `Connect`, `DisconnectWithSessionExpiry`, `KeepAlive`, `CreateEventChannel`, `CloseEventChannel` |
| `Subscriptions` | `Subscribe` and `Unsubscribe`, a step for each stretch between two locks or waits |
| `Broker` | external: an MQTT 5 broker that keeps the session over reconnects, the network, time |
| `Client` | all of them interleaved, `Restart`, fairness, and the properties |
| `Client_proofs` | proofs about `Client`: types, owners of the mutexes, `Poll` |
| `Outgoing_proofs` | the messages the client publishes: storage, send quota |
| `Incoming_proofs` | the messages it receives: receive quota, storage |
| `Locks_proofs` | who waits for whom, and who gives `c.mutex` back |
| `Events_proofs` | event channels, responses, panics |
| `TopicMatch` | the loop of `matchTopic`, one action per branch, and the definition of MQTT 4.7 to compare it with |
| `TopicMatch_proofs` | its proofs |
| `Encoding` | the primitives, `VariableByteInt`, and `WriteTo` of every packet the client sends |
| `Decoding` | the packets of a broker, `FixedHeader.ReadFrom`, and the `ReadFrom` of every packet the client reads, one action per read |
| `Decoding_proofs` | proofs about `Encoding` and `Decoding` |
| `MC*` | instances |

`Client` extends `Publishing`, `Polling`, `Session`, `Subscriptions` and
`Broker`, which all extend `ClientState`. `Decoding` extends `Encoding`; in `Client` a packet is
written and read as a whole, which is what `Decoding` is about.
`Outgoing_proofs` extends `Client_proofs`, `Incoming_proofs` extends
`Outgoing_proofs`, and `Locks_proofs` and `Events_proofs` extend
`Incoming_proofs`: each needs invariants of the ones before it. Definitions
whose comment starts with "Faulty variant" are not part of any specification: each is a plausible bug, used to see that a
property notices it (the list is in `PROJECT.json`, "mutants").

### How the state corresponds to the code

* `pc[g]` is where goroutine g is in its call; a step runs from one point where
  others can interfere to the next: a lock, an unlock, a channel, a read of a
  field that another goroutine writes under another lock. A critical section
  of `c.mutex` that neither blocks nor returns early is one step, taken when
  the mutex is free. `arg[g]` is the packet the call is about.
* `connMutex`, `mutex`, `readers`: who holds the two mutexes. A handler that
  returns without unlocking leaves `mutex = g` with g idle.
* `conn` is "open", "lost" (the peer is gone: reads and writes fail,
  `SetDeadline` does not) or "closed" (after `conn.Close()`).
* `toServer`, `toClient`: what is on the wire. A loss of the connection drops
  both; a packet the broker got before the loss is one it took before.
* `pingOverdue` stands for `time.Now().After(c.pingRespDeadline)`.
* `storage` is a `StorageMap` with `Store` and `Drop` as single steps, which
  `MemoryStorage` is proved to implement.
* `owed` is a history variable: identifiers of messages written with QoS > 0
  whose PUBACK, PUBCOMP or refusing PUBREC was not handled yet.
* A packet keeps its type, identifier, QoS and reason code. Reason codes are
  0, 128 (the boundary) and 146 (above it).
  `filters` stands for topics: the filters that the topic of a PUBLISH matches
  (`TopicMatch` is about that), and those a SUBACK grants.
* `Restart` is the restart loop of `examples/minimal/main.go`: a new client on
  a new connection with the storage of the old one.
* `eventChans` is the map of the general channels, `topicChans[f]` the channel
  bound to filter f (`Unbound`, or `NoChannel` for the zero `EventChannel`, whose
  `channel` is nil), `chanState[c]` whether c was created or closed, `inbox[c]`
  how many events are in its buffer.
* `closeEventChannelInternal` is two steps, the close (153) and the deletes
  (160-165), in `CloseEventChannel` under `eventMutex` and in `Unsubscribe` under
  `c.mutex` only; in between the bindings are there and the channel is closed.
  The close of a channel that is closed already panics. `closing[c]` says where
  `CloseEventChannel` is with c ("never", "closing", "done"), and that it came
  second ("twice").
* `eventMutex` is not a variable: while `closing[c]` is "closing" its owner is
  `CloseEventChannel`, and `Signal` waits. The fan-out over `eventChans`, under
  `eventMutex`, is one step, taken after everything that the same lock keeps
  out. The one write of `eventChans` that it does not keep out is that of
  `Subscribe` (523), which may come between the fetch of a channel and the send
  to it (192-194): `SubscribeUnregister` may leave the channel in `fetched`, and
  the fan-out then sends to it, though it is bound to a filter by now, or
  panics if it has been closed since. (`Unsubscribe` deletes under `c.mutex` too,
  but only channels that are bound, which are no general ones.)
* `responseChan[id]` is the call that registered a response channel under the
  identifier, as goroutine and number of its call; `answers` holds what `Poll`
  has put into those channels. `topics[g]` is the part of its list that a
  `Subscribe` or `Unsubscribe` has yet to go through.
* `routed` and `target` are the loop of `Poll` over `topicChans`: the filters it
  has been through and the channel it took from the map and is about to signal.
  An entry that is added during the loop may be visited or not, as Go defines.
* `crashed`: a panic has ended the program (a send on a closed channel, the
  close of a closed or nil channel, a response of the wrong type). With
  `DetectsMapRaces` an unsynchronised map access may end it too, which Go's
  runtime reports as a fatal error where it notices; TinyGo's does not notice,
  and the reader sees the map before or after the write.
* `Careful` is a discipline of the application that the code relies on and does
  not state: a channel is given to one topic only (in no other call, and once
  in its own, `Apart`), `CloseEventChannel` is called once for it and not while a
  `Subscribe` has it in its list, and `Unsubscribe` is called on a connected
  client. It does not keep `CloseEventChannel` and `Unsubscribe` from closing the
  same channel, in any order or at once.
* `RefusesTopics`: the broker may refuse what `Subscribe` asks for.
* A frame of `Encoding` is the announced remaining length and a sequence of
  items (fields, lengths of properties, properties, payload) with the sizes
  that are written. A string is its length, a property its MQTT identifier;
  all strings of a packet have the same length, topics have their own.
  `stage`, `at`, `n` and `left` are the position of a `ReadFrom` and the
  counters it goes by; a read that takes anything other than the next item
  leaves the stream "lost", since nothing in it tells where the next packet
  starts.
* `Cuts` says how the network may cut reads short: "timeout", a deadline in the
  middle of a header, and "short_read", a `Read` that returns less than it was
  asked for. What the codecs do not cope with in whole packets is not switched
  off: `Miscounted` and `Unreadable` name those packets, and the properties say
  "but for these".

Go's `RWMutex` holds new readers back while a writer waits; the model lets them
in (`ReadFree`), which adds behaviours. `NoLockCycle`, where a reader that is held
back matters, counts it among those that wait.

`Connect` sets the quotas and `isConnected` in one step although it unlocks
`connMutex` first: until `isConnected` is true no other method gets past its
own test of it, and a broker answers a second CONNECT with DISCONNECT.

## What the runs check

Runs that pass:

| Run | Instance | Shows |
|---|---|---|
| `storage` | 2 goroutines, 3 identifiers, 2 packets | `UniqueIds`, `ScanInv`, `OrderPreserved`, and the refinement `ImplementsMap`; no deadlock, so no return path keeps the mutex |
| `send_flow` | 1 publisher with 4 messages, maximum 1 or 2, 2 messages of the broker | `SendQuotaSound`, `ReceiveMaximumRespected`: with one publisher the late decrement is harmless; `NoLockCycle` and `MutexReleased` without `KeepAlive` and without losses |
| `receive_flow` | 3 broker identifiers, maximum 2, 4 messages, 2 losses or restarts | `ReceiveQuotaExact`, `ConformingBrokerNotRejected` |
| `locks` | every method in 3 goroutines, 2 of which poll, quotas modulo 4, a careless application, fatal map races, a loss or restart | `LockOwners`, `PollingConnected`, `NoSelfDeadlock` |
| `recovery` | a goroutine that publishes, subscribes and unsubscribes, 2 calls, one that connects twice and polls, QoS 2 in both directions, a channel, refused topics, a loss or restart at any point and another during the recovery | `StoredUntilAcked`, `KeptPubrecPending`; `NoStaleBinding` and `OwnTopicOnly` through binding, closing step by step, routing and binding again; `NoOtherPanic`: the race of `signal_after_close` and a second close are the only ways to a panic |
| `liveness` | 2 calls of `Publish`, `Subscribe` or `Unsubscribe`, quota 3, a channel, a message to route | `PublishReturns`, `SubscribeReturns`, `Delivered` |
| `topic_match` | all strings up to length 5 over two letters, `/`, `+`, `#` | `SafeWithoutPlus`, `PrefixAgrees`, `PlainFilterExact`, `HashFilterCorrect`, `NoMissedMatch`; `Returns` for every filter |
| `codec` | every packet with up to 2 optional properties (and 2 of the will), strings at the boundary lengths, whole reads | `FrameExact` but for a CONNECT with a will or 128 bytes of properties; `LengthDecoded`; `InSync` but for PUBLISH with property 0x01 and DISCONNECT or AUTH without a body |

Runs that TLC refutes, each a disagreement between the code and its own
comments (quoted in `PROJECT.json`, "findings"):

| Run | The code |
|---|---|
| `keepalive_deadlock` | `KeepAlive` and `Publish` (or `Poll`, or `Subscribe`) wait for each other's mutex |
| `lost_wakeup` | the acknowledgement comes before the wait (or before the decrement): `Publish` never returns |
| `signal_after_close` | `Poll` signals a topic channel that was closed after `Poll` took it from the map: the program panics |
| `header_timeout` | the deadline of `Poll` passes inside a header: the next `Poll` reads from the middle of the packet |

Several properties pass in one run and are refuted in another, whose instance
adds the one thing that breaks them. The passing run shows the extent to which
the code is right.

### Disagreements

The model holds further behaviours that differ from what MQTT, or a comment,
says. Each of the following is reached by changing a passing run's instance as
given; the property named is then violated.

| The code | Lines | Instance |
|---|---|---|
| two publishers both pass the test of the send quota, which is decremented after `connMutex` is released | 658, 674 | `send_flow` with a third goroutine and maximum 1: `ReceiveMaximumRespected` |
| a refused QoS 2 message is credited at its PUBREC and again at the PUBCOMP that the needless PUBREL provokes | 973, 998 | `send_flow` with reason code 146: `ReceiveMaximumRespected` |
| a PUBREC with reason code 0x80 gives no quota back (`> 0x80`; the comment says "0x80 or greater") | 971, 973 | `send_flow` has code 128; the quota stays short, which `SendQuotaSound` allows |
| a CONNACK without Receive Maximum sets the send quota to 0, and the first QoS 1 `Publish` waits for ever | 283 | `liveness` with maximum 0: `PublishReturns` |
| QoS 0 messages use up the receive quota and give nothing back | 896 | `receive_flow` with QoS 0: `ConformingBrokerNotRejected` |
| without a Receive Maximum in CONNECT the client enforces the server's | 287 | `receive_flow` with `PacketReceiveMaximum` 0 and maximum 1: `ConformingBrokerNotRejected` |
| a repeated PUBREL finds nothing to drop, and `Poll` returns with `c.mutex` locked (so do 956, 981, 986, 998 and 1062) | 1016 | `send_flow` with a loss and a second `Connect`: `MutexReleased` (and `NoLockCycle`: like `KeepAlive`, `Connect` takes `c.mutex` first) |
| `Unsubscribe` returns with `c.mutex` locked when the client is not connected or the write fails | 552, 563, 586 | `recovery` with `MutexReleased` |
| a lost SUBACK blocks `Subscribe` for ever, whatever its context says | 505 | `liveness` with a loss: `SubscribeReturns` |
| a channel that is given to two topics, or was closed before the SUBACK, is bound as the zero `EventChannel`: its messages go to the general channels, and `Unsubscribe` closes a nil channel, which panics | 520, 598 | `recovery` with `Careful = FALSE`: `NoStaleBinding`, `NoOtherPanic` |
| `CloseEventChannel` and `Unsubscribe` close the same channel, one after the other or one between the look-up and the close of the other: the second close panics | 153, 598 | in `recovery`; `NoOtherPanic` allows it as `ClosedTwice` |
| a fan-out has fetched a channel when `Subscribe` takes it out of the general map, and an `Unsubscribe` of a third goroutine closes it before the send: the fan-out panics | 194, 523, 598 | `recovery` with a third goroutine that subscribes and two identifiers: `NoOtherPanic` |
| two calls may draw the same identifier; the first answer goes to the second call, and an UNSUBACK panics in `Subscribe` | 483, 507, 573 | `recovery` with a third goroutine that subscribes: `NoOtherPanic` |
| accesses to `topicChans`, `eventChans` and `responseChan` race | 520, 597, 912, 1077 | `recovery` with `DetectsMapRaces = TRUE`: `NoOtherPanic` |
| a PUBLISH that the broker repeats after a reconnect is signalled again, with QoS 2 too | 876, 933 | in `receive_flow` and `recovery`, no property |
| a message that is routed before the channel is bound and fanned out after that reaches neither; the broker has its acknowledgement | 912, 933 | in `recovery`, no property |
| `Unsubscribe` ignores the reason codes of UNSUBACK; `Subscribe` of a filter that is bound drops the old channel from the map without closing it | 593, 520 | in `recovery`, no property |
| the PUBREC stored for a QoS 1 message is never removed | 923 | `recovery` with QoS 1: `KeptPubrecPending` |
| the broker's PUBREL removes the client's own entry under the same identifier | 1016 | `recovery` with shared identifiers: `StoredUntilAcked` |
| nothing reads the storage back: a message that was cut off by a loss is not sent again | 98 | `liveness` with a loss and a second `Connect`: `Delivered` |
| the DISCONNECT of the server closes the connection and leaves `isConnected` true | 1100 | in `locks`, no property |
| `Disconnect` refuses a client that is connected | 341 | in `locks`, no property |
| CONNECT with a will writes two bytes more than it announces: the one byte that is counted ("Includes byte for payload property indicator") goes to the length of the will properties, and the payload format, which is written for every will, is counted neither there nor in the remaining length | `connect.go:148`, 301, 315 | `codec` with the invariant `WillCounted` |
| CONNECT counts one byte for the length of its properties, which takes two from 128 on | `connect.go:76` | `codec` with the invariant `ConnectCounted` |
| AUTH and DISCONNECT with the remaining length 0 (which a comment on AUTH allows, `auth.go:118`): the reader takes the first byte of the next packet for the reason code, or blocks | `auth.go:47`, `disconnect.go:47` | `codec` with the invariant `EmptyBodyRead` |
| PUBLISH with property 0x01, which the switch does not know: nothing is read, the counters move by the count of an earlier field, and the payload is cut at a wrong place | `publish.go:140`, 181 | `codec` with the invariant `PayloadFormatRead` |
| a string or a payload that comes in two segments is read in part, its rest as what follows | `string.go:77`, `publish.go:190` | `codec` with `Cuts = {"short_read"}`: `InSync` |
| after `+`, `matchTopic` tests `filterPos` and reads at `topicPos`, past the end of the topic; `+` matches topics with fewer levels than the filter | 1169 | in `topic_match`: the properties leave those filters out |

### Bounds

`MaxCalls` (calls per goroutine, `Poll` not counted), `MaxMessages` (packets
the broker sends of its own accord), `MaxLosses` (losses and restarts
together), `EventCapacity`, `QuotaModulus` (2^16 in the code). A maximum of 1 or 2 with 3 or 4
messages reaches an empty quota, a full one, and a message on each side of the
boundary; modulus 4 makes the wrap-around of a quota at zero reachable;
2 losses are enough for a loss during the recovery from a loss. `recovery` has
one identifier of the client's, `send_flow` has three. One channel,
one filter and one list of topics reach every state of a binding (not bound,
bound, closed before and after, bound again after a restart); the steps on
different channels or filters do not depend on each other, but for a channel
given twice, which `locks` has. Capacity 1 makes a channel full. The instances
stop when the calls are used up or a `Connect` failed, which is why deadlock
checking is off for `Client`; blocked goroutines are what `NoLockCycle`,
`MutexReleased`, `PublishReturns` and `SubscribeReturns` are about. `TopicMatch` stops when it
returns; length 5 has filters of three levels.

`Lengths` has the string lengths at which the length of the properties, or the
remaining length, needs another byte (one property takes 3 bytes besides its
string, so 124 and 125 give 127 and 128), and the longest string; `Payloads`
shifts the remaining length against them. `MaxOptional`: with 2 properties the
counters are carried from one turn of a reader's loop to the next, and every
pair of identifiers occurs; the loops keep nothing else. `Cuts` is empty in
`codec`, and has "timeout" in `header_timeout`.

### Fairness

A goroutine inside a call goes on (Go schedules it), and it gets a mutex that
is free again and again: `sync.Mutex` and `sync.RWMutex` do not starve a
waiter. Hence strong fairness on the steps of each goroutine. The application
calls `Poll` again and again (its comment asks for that, the example does it)
and gives it a deadline, so `Poll` does not keep `connMutex` for ever. A
`CloseEventChannel` that has begun ends, and lets go of `eventMutex`. The
broker answers what it reads. A program that has panicked takes no step, so the
liveness properties end with "or crashed": the panic is what
`signal_after_close` and `NoOtherPanic` are about. No fairness is assumed of calls other than
`Poll`, of losses or of the broker's own messages.

## What is proved

Every invariant and action property that a passing run checks is a theorem,
for every set of goroutines, every assignment of methods to them, every number
of identifiers, channels and filters, every length, and every value of the
bounds. A property that the code has only
under a condition (see Disagreements) is stated as
`Spec => [](Condition => Property)`; the conditions are given below with the
line of the code that makes each part necessary. All of them hold in the run
that checks the property.

### Storage (`MemoryStorage_proofs`)

Types, `ScanInv`, `UniqueIds`, `OrderPreserved`, and `Refinement`: that
`MemoryStorage` implements `StorageMap`. `ScanInv` (the holder of the mutex
alone scans and has missed nothing) makes `UniqueIds` inductive, since `Store`
appends only behind a complete scan. The scan is invisible in the map; its last
step is the effect of the call, and the two invariants say that it acts on the
one entry there is, or that there is none. Order is kept because what is
appended is new and `Drop` moves the rest down by one.

### Topic matching (`TopicMatch_proofs`)

* `SafeWithoutPlus`, `PrefixAgrees`, `PlainFilterExact`: without `+` the two
  positions are equal, and what lies before them agrees.
* `HashFilterCorrect`: the loop decides a filter without `+` as MQTT 4.7 does.
  The definition of MQTT counts levels, the loop positions. The lemmas say
  that a level is an interval of positions (`LevelInterval`), that two strings
  have different levels where they first differ (`LevelsDiffer`) and the same
  ones before that (`LevelsAgree`). No induction over strings is needed: the
  loop itself finds the first difference, and the invariant `Outcome` records
  for each way to return what was found there.
* `NoMissedMatch`: with `+`, on a topic that it should match, the loop stays
  `Aligned`: in the same level of both strings, as far from its start in both
  unless that level of the filter is `+`, and never further in the filter than
  in the topic. The last part is why the test of `filterPos` instead of
  `topicPos` (1169) does no harm there, and it needs that no level of the
  topic is empty.

### The client

* `Client_proofs`: `TypeOK`, `LockOwners`, `PollingConnected` and
  `NoSelfDeadlock`, without conditions. `NoSelfDeadlock` is not inductive: the
  test of `isConnected` in `disconnectWithReason` comes long after the one in
  `Poll`. The invariant adds that `isConnected` holds while `Poll` has
  `connMutex` and that whoever waits for `connMutex` in `Poll` with
  `isConnected` already false will find the connection closed
  (`PollingConnected`); to keep that, only the owner of `connMutex` may clear
  `isConnected` (`LockOwners`).
* `Outgoing_proofs`. `StoredUntilAcked` if the identifiers of the two sides are
  apart (`SeparateIds`: they share a storage, 1016). The invariant
  `OutgoingInv` says of every identifier at which single place its handshake
  is (a publisher, the wire in either direction, a handler of `Poll`, the
  broker) and what the storage holds for it there; a loss or a restart at any
  step keeps it. `SendQuotaSound` and `ReceiveMaximumRespected` under
  `OnePublisher`: one goroutine publishes (two both pass the test, 658), the
  connection is not lost (a reconnect sets the quota anew, 283), no PUBREC has
  a code above 0x80 (it is credited twice, 973 and 998), and the broker sends
  no acknowledgement it was not asked for. The invariant counts: quota plus
  messages on their way, less the one that was written and not yet
  subtracted, and less what is about to be credited, stays within the maximum.
* `Incoming_proofs`. `ReceiveQuotaExact` if the broker conforms and sends no
  QoS 0 (which is counted and never credited, 896); `ConformingBrokerNotRejected`
  if in addition CONNECT had a Receive Maximum (287); `KeptPubrecPending` for
  QoS 2 (the PUBREC that is stored for QoS 1 stays for ever, 923) and
  identifiers apart. Losses and restarts are included. As for outgoing
  messages, the invariant places each handshake, and the messages that are in
  delivery and counted are a set whose size is what the quota lacks.
* `Locks_proofs`. `CyclesAreReconnects`, without conditions: two goroutines
  that wait for each other's mutex are always one in `KeepAlive`, or in
  `Connect` on a connected client, and one in `Publish`, `Poll` or
  `Subscribe`; so `keepalive_deadlock` shows all there is but for `Connect`.
  `DisconnectWithSessionExpiry`, with the same order of locks, is not in a
  cycle, because who holds `connMutex` and waits has found the client
  connected, and it goes on only if it is not. `NoLockCycle` follows when one
  goroutine connects, once, and nobody calls `KeepAlive`. `MutexReleased`
  under `Unbroken`: no loss, a conforming broker, a storage, identifiers apart,
  nobody calls `Unsubscribe`; this takes both handshake invariants, because a
  handler returns with `c.mutex` locked exactly when the storage does not hold
  what the handshake says.
* `Events_proofs`. `OwnTopicOnly` without conditions. `NoStaleBinding` for a
  `Careful` application: the invariant says that a channel is at any time in one
  of the general map, one binding or one call's list, and open while it is, or
  in the hands of the one that closed it, between the close and the deletes.
  `NoOtherPanic` under `OneSubscriber`: careful, without fatal map races,
  one goroutine that subscribes and unsubscribes (two may draw the same
  identifier, 483 and 573, and close a channel that a fan-out has fetched, 194),
  no SUBACK or UNSUBACK unasked. The invariant has one exchange at a time on the
  way, and says which response channel each answer belongs to and that its call
  has not closed it; and that what a fan-out has fetched is open, because the
  one goroutine that could close it behind `eventMutex` waits for an answer of
  the `Poll` that is in the fan-out. The second close is a panic of the code and
  is not excluded.

### The codecs (`Decoding_proofs`)

The theorems `FramesExact` (`FrameExact`), `LengthsDecoded` (`LengthDecoded`)
and `ReadersInSync` (`InSync`) hold for every `Lengths`, `Payloads` and
`MaxOptional` that satisfies `SizesFit`: strings have at most 65535 bytes (their
length is a uint16), a packet has at most 17 properties (no type has more
identifiers), and a payload leaves 4 MiB of the largest remaining length to
the fields and properties, which is more than 18 of the longest need. Nothing
in the code refuses a larger payload; its length would take a fifth byte. No
packet is left out of the model: the properties themselves except the CONNECTs
that are `Miscounted` and the packets that are `Unreadable`, and `WillCounted`,
`ConnectCounted`, `PayloadFormatRead` and `EmptyBodyRead`, which TLC refutes
(Disagreements), say that the exceptions are needed. `InSync` needs `WholeReads`
too: no deadline in the middle of a header (`header_timeout`) and no `Read` that
returns less than it was asked for. `MCCodec.cfg` satisfies both.

* Sums. `SubsetInduction` is induction over the subsets of a finite set for a
  set in place of a predicate (the library's form takes an operator, which the
  provers cannot instantiate), from the library's theorem that the proper
  subsets of a finite set are well-founded. With it the fold of the library
  has a value (`SumChoice`, `SumStep`), is the same over renamed indices
  (`SumRenamed`) and adds up over disjoint sets (`SumUnion`): the sizes of a
  concatenation are the sum of the sizes (`SizeSumConcat`), and what comes
  before an item grows with every item (`BeforeStep`, `BeforeBetween`).
* Variable byte integers. `WriteVarInt` is unfolded at most four times
  (`Written`); it has `Length` bytes (`VarIntLength`), and `ReadVarInt` of it is
  the value (`ReadBack`).
* Packets. `PropertySize`: a property is written with the size that is counted
  and read with that size. `AssemblyIs` says of fields, a section of
  properties and a tail what is where and how long it is. With one lemma per
  `WriteTo` and per kind of broker packet, `WriteToGood` and `BrokerFramesGood`
  say that every packet is `Good`: it announces what it has or is `Miscounted`,
  and if there is a reader for its type, it is `Unreadable`, or its fields are
  those the reader asks for, in that order, its properties are known to the
  reader, and it ends where the reader may end. An acknowledgement with reason code 0 is the one odd case: the
  client writes the length of its properties, 0, and a reader takes that
  byte for the reason code; both have one byte.
* Readers. The invariant `ReaderInv`: n is the size of all items before the one
  that is read next, `left` that of the properties still to come. Since every
  item has a positive size, `n >= remaining` means that the packet is over and
  `left <= 0` that the properties are; each test in a `ReadFrom` comes out as
  the items say. `HeaderInv`, for the first two theorems, holds even when reads
  are cut short.

The proofs rest on the assumptions named in the modules (`ConstantsAssumption`,
`BrokerAssumption`, `NoOneAssumption`, `NoPacketIsNoPacket`,
`TopicAssumption`, `EncodingAssumption`), which only say what the constants are and that values which
stand for "none" (`NoOne`, `NoChannel`, `Unbound`) are apart from real ones.

### Only model-checked

* Liveness: `PublishReturns`, `SubscribeReturns`, `Delivered`, `Returns`. The
  prover has no fairness.

## What is not modelled

* In `Client`, the byte stream: a packet is read and written as a whole.
  `Decoding` has the stream, for one reader.
* The values of fields, byte order, the option bits of `Topic` (setters that
  clear and set bits; `SetNoLocal` slices `filter[:6]` whatever its length); `Publish.Read`,
  `Write` and `Reset`, an application's view of a payload; `Auth.WriteTo`,
  which nothing calls and which announces a reason code that it does not write.
* `Unsubscribe` takes its answer and locks `c.mutex` in one step. The two events of
  `CloseEventChannel` that follow its close, on the channel `Done`, which nothing
  in the client reads.
* Time, beyond the event that the ping deadline passes.
* Blocking writes; `Poll` without a deadline; several processes on one storage.
* Reason code texts and `backoff`, which have no state and no caller.

## Plan

1. Done: storage, client core, topic matching, codecs, their runs and the first
   proofs.
2. Done: `Subscriptions`, `responseChan`, `topicChans` and the routing of
   `Poll`, composed with `Client`, their properties, and the proofs extended to
   them.
3. Done: the invariants and action properties of client, storage, topic
   matching and codecs proved.
4. `FlowControl`: an abstract window of at most Receive Maximum messages, and
   `Client` with one publisher shown to implement it, with the invariant of
   `ServerNotFlooded`.
