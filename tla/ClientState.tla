---------------------------- MODULE ClientState ----------------------------
(***************************************************************************)
(* The state of mqtt.Client (mqtt/client.go) and of the network connection *)
(* it owns, and the building blocks of its methods: the two mutexes, the   *)
(* quotas, the persistent storage, the write to the connection, the event  *)
(* channels and the fan-out of events.                                     *)
(*                                                                         *)
(* Application goroutines call the methods; pc[g] says where goroutine g   *)
(* is in its call.  A step runs from one point where another goroutine can *)
(* interfere to the next: a lock, an unlock, a wait on a channel, or a     *)
(* read of a field another goroutine writes without the same lock.         *)
(***************************************************************************)
EXTENDS Naturals, Sequences, FiniteSets

CONSTANTS
  Goroutines,           \* application goroutines
  NoOne,                \* owner of a free mutex
  May,                  \* May[g]: the methods goroutine g calls
  MaxCalls,             \* bound: MaxCalls[g] calls of g, Poll not counted
  QuotaModulus,         \* the quotas are uint16: 2^16 in the code
  PubIds,               \* packet identifiers the client uses (rngFn)
  BrokerIds,            \* packet identifiers the broker uses
  HasStorage,           \* SetStorage was called with a storage
  QoSLevels,            \* QoS of the application's publishes
  PacketReceiveMaximum, \* ReceiveMaximum of the CONNECT packet, 0 if unset
  ReceiveMaxima,        \* what a CONNACK may announce, 0 if absent
  Channels,             \* event channels
  NoChannel,            \* the zero EventChannel, whose channel is nil
  EventCapacity,        \* capacity of every event channel
  Filters,              \* topic filters
  TopicLists,           \* what Subscribe is called with: <<filter, channel>>s
  Careful,              \* the application gives a channel to one topic
                        \* only, closes it once and not during Subscribe,
                        \* and unsubscribes only when connected
  DetectsMapRaces       \* the build stops at an unsynchronised map access

Unbound == "unbound"    \* what topicChans has for a filter without a channel

ASSUME ConstantsAssumption ==
  /\ NoOne \notin Goroutines
  /\ MaxCalls \in [Goroutines -> Nat]
  /\ QuotaModulus \in Nat \ {0, 1}
  /\ PubIds \subseteq Nat
  /\ BrokerIds \subseteq Nat
  /\ HasStorage \in BOOLEAN
  /\ QoSLevels \subseteq 0..2
  /\ PacketReceiveMaximum \in 0..(QuotaModulus - 1)
  /\ ReceiveMaxima \subseteq 0..(QuotaModulus - 1)
  /\ EventCapacity \in Nat \ {0}
  /\ NoChannel \notin Channels
  /\ Unbound \notin Channels \cup {NoChannel}
  /\ TopicLists \subseteq Seq(Filters \X (Channels \cup {NoChannel}))
  /\ Careful \in BOOLEAN
  /\ DetectsMapRaces \in BOOLEAN

VARIABLES
  pc,                   \* pc[g]: where g is in its call, "idle" outside
  arg,                  \* arg[g]: the packet g's call is about
  calls,                \* calls[g]: how many more calls g may start
  connMutex,            \* holder of c.connMutex, or NoOne
  mutex,                \* writer that holds c.mutex, or NoOne
  readers,              \* readers that hold c.mutex
  conn,                 \* "open", "lost" (the peer is gone) or "closed"
  isConnected,          \* c.isConnected
  pingOverdue,          \* time.Now() is after c.pingRespDeadline
  toServer, toClient,   \* packets written and not yet read, oldest first
  sendQuota, receiveQuota,
  serverReceiveMaximum, clientReceiveMaximum,
  storage,              \* storage[id]: the packet kept under id (StorageMap)
  owed,                 \* history: sent with QoS > 0, not acknowledged yet
  eventChans,           \* the channels registered for general events
  inbox,                \* inbox[c]: how many events are pending in channel c
  chanState,            \* chanState[c]: "new", "open" or "closed"
  closing,              \* closing[c]: the call of CloseEventChannel for c
  topicChans,           \* topicChans[f]: the channel bound to filter f
  fetched,              \* what a fan-out has taken from eventChans before
                        \* it was removed there, and has yet to signal
  responseChan,         \* responseChan[id]: the call that waits for id
  answers,              \* responses in the channels that calls wait on
  topics,               \* topics[g]: what g's call has yet to go through
  routed,               \* filters that the loop of Poll has been through
  target,               \* the channel that Poll is about to signal
  crashed               \* a panic or a fatal error has ended the program

callVars  == <<pc, arg, calls>>
lockVars  == <<connMutex, mutex, readers>>
wireVars  == <<conn, toServer, toClient>>
linkVars  == <<isConnected, pingOverdue>>
sendVars  == <<sendQuota, serverReceiveMaximum>>
recvVars  == <<receiveQuota, clientReceiveMaximum>>
storeVars == <<storage, owed>>
chanVars  == <<eventChans, chanState, closing, topicChans, fetched>>
respVars  == <<responseChan, answers>>
loopVars  == <<topics, routed, target>>
eventVars == <<inbox, chanVars, respVars, loopVars, crashed>>

clientVars == <<callVars, lockVars, wireVars, linkVars, sendVars, recvVars,
                storeVars, eventVars>>

-----------------------------------------------------------------------------
(* Control packets.  Only the fields a handler looks at are kept. *)

PacketTypes ==
  {"CONNECT", "CONNACK", "PUBLISH", "PUBACK", "PUBREC", "PUBREL", "PUBCOMP",
   "PINGREQ", "PINGRESP", "DISCONNECT", "AUTH", "SUBSCRIBE", "SUBACK",
   "UNSUBSCRIBE", "UNSUBACK"}

Ids == PubIds \cup BrokerIds \cup {0}

(* Reason codes: success, the least failure, a failure above it. *)
Codes == {0, 128, 146}

(* `filters`: of a PUBLISH, the filters that its topic matches; of a       *)
(* SUBACK, those with a reason code below 0x80; else those it names.       *)
Packets == [type : PacketTypes, id : Ids, qos : 0..2, code : Codes,
            filters : SUBSET Filters]

Packet(t, id) ==
  [type |-> t, id |-> id, qos |-> 0, code |-> 0, filters |-> {}]
Publish(id, q) == [Packet("PUBLISH", id) EXCEPT !.qos = q]
Reply(t, id, c) == [Packet(t, id) EXCEPT !.code = c]
About(p, fs) == [p EXCEPT !.filters = fs]

NoPacket == Packet("AUTH", 0)  \* arg of a call that is about no packet

-----------------------------------------------------------------------------
(* Calls and steps of goroutine g. *)

At(g, p) == pc[g] = p
Goto(g, p) == pc' = [pc EXCEPT ![g] = p]

(* The call that g is in: calls[g] tells g's calls apart. *)
CallOf(g) == <<g, calls[g]>>

(* g starts a call of method m, about packet p. *)
Begin(g, m, first, p) ==
  /\ At(g, "idle")
  /\ m \in May[g]
  /\ calls[g] > 0
  /\ calls' = [calls EXCEPT ![g] = @ - 1]
  /\ arg' = [arg EXCEPT ![g] = p]
  /\ Goto(g, first)

(* g's call returns. *)
Done(g) ==
  /\ Goto(g, "idle")
  /\ arg' = [arg EXCEPT ![g] = NoPacket]
  /\ UNCHANGED calls

-----------------------------------------------------------------------------
(* sync.Mutex and sync.RWMutex.  A section of c.mutex in which the code    *)
(* neither blocks nor returns early is one step, taken when it is free.    *)

ConnFree == connMutex = NoOne
MutexFree == mutex = NoOne /\ readers = {}

(* A reader gets in unless a writer holds the mutex.  In Go a writer that  *)
(* waits holds back new readers as well, which only delays their steps;    *)
(* NoLockCycle (Client) counts such a reader among those that wait.        *)
ReadFree == mutex = NoOne

(* Faulty variant: a counter wider than 16 bits does not wrap. *)
DecWide(q) == q + QuotaModulus - 1

(* uint16 arithmetic *)
Dec(q) == (q + QuotaModulus - 1) % QuotaModulus
Inc(q) == (q + 1) % QuotaModulus

-----------------------------------------------------------------------------
(* The network connection.  When the peer is gone reads and writes fail;   *)
(* after conn.Close() SetDeadline fails too.                               *)

ConnStates == {"open", "lost", "closed"}

(* send: one write of the whole packet, on a connection that is open *)

Write(p) == toServer' = Append(toServer, p)

-----------------------------------------------------------------------------
(* Event channels and the maps they are kept in.  topicChans and           *)
(* responseChan are read by Poll without a lock that the writers hold: a   *)
(* build that detects it may stop the program, others see the map before   *)
(* or after the write.                                                     *)

ChanStates == {"new", "open", "closed"}
EventChannels == Channels \cup {NoChannel}

(* CloseEventChannel is not called yet, between its close and its deletes, *)
(* with eventMutex held, or done; or it found the channel closed.          *)
ClosingStates == {"never", "closing", "done", "twice"}

Bound == {f \in Filters : topicChans[f] # Unbound}

(* A call of Subscribe has yet to go through channel c. *)
InSubscribe == {"sub_lock", "sub_send", "sub_wait", "sub_bind", "sub_unreg"}
SubscribeHas(c) ==
  \E g \in Goroutines :
    pc[g] \in InSubscribe /\ \E k \in DOMAIN topics[g] : topics[g][k][2] = c

(* Poll goes over topicChans; Poll goes over eventChans, under eventMutex. *)
Routes == {"poll_route", "poll_signal"}
Among(points) == {g \in Goroutines : pc[g] \in points}
FanningOut ==
  {g \in Goroutines : \/ At(g, "poll_fanout")
                      \/ At(g, "poll_signal") /\ target = NoChannel}

(* eventMutex is free of CloseEventChannel; it is free altogether.         *)
NobodyCloses == \A c \in Channels : closing[c] # "closing"
EventMutexFree == NobodyCloses /\ fetched = {}

(* A write of a map that one of the goroutines may access meanwhile *)
MapWrite(others) ==
  crashed' \in IF DetectsMapRaces /\ others # {} THEN BOOLEAN ELSE {FALSE}

(* A panic ends the program: nothing else happens. *)
Panic ==
  /\ crashed' = TRUE
  /\ UNCHANGED <<callVars, lockVars, wireVars, linkVars, sendVars, recvVars,
                 storeVars, inbox, chanVars, respVars, loopVars>>

(* signal(packetType, data, nil), under eventMutex: a non-blocking send to *)
(* every channel of eventChans, and to those the loop had fetched before   *)
(* Subscribe removed them; a channel that is full misses the event, and a  *)
(* send on a closed one panics.                                            *)
Signal ==
  /\ inbox' = [c \in Channels |->
                 IF c \in eventChans \cup fetched /\ inbox[c] < EventCapacity
                 THEN inbox[c] + 1
                 ELSE inbox[c]]
  /\ fetched' = {}
  /\ crashed' = (\E c \in eventChans \cup fetched : chanState[c] = "closed")
  /\ UNCHANGED <<eventChans, chanState, closing, topicChans, respVars, loopVars>>

(* The close of a nil or of a closed channel panics. *)
CanClose(c) == c # NoChannel /\ chanState[c] = "open"

(* Faulty variant: the bindings of the channel stay. *)
RemoveKeepingBindings(c, missed) ==
  /\ eventChans' = eventChans \ {c}
  /\ UNCHANGED topicChans

(* The deletes of closeEventChannelInternal, after the close: c leaves both *)
(* maps, by its id.  The loop over topicChans may miss the entries that    *)
(* Subscribe is writing.                                                   *)
RemoveFromMaps(c, missed) ==
  /\ eventChans' = eventChans \ {c}
  /\ topicChans' = [f \in Filters |->
                      IF topicChans[f] = c /\ f \notin missed THEN Unbound
                      ELSE topicChans[f]]

-----------------------------------------------------------------------------
(* Storage (the interface of StorageMap): what is kept under an identifier. *)

Kept == {"none", "PUBLISH", "PUBREC"}
Stored(id) == storage[id] # "none"
=============================================================================
