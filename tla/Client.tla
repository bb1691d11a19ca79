------------------------------- MODULE Client -------------------------------
(***************************************************************************)
(* An application that uses one mqtt.Client from several goroutines,       *)
(* against a broker: the methods of mqtt/client.go interleaved with each   *)
(* other, with the broker, with losses of the connection and with restarts *)
(* of the application, which keep the storage.                             *)
(***************************************************************************)
EXTENDS Publishing, Polling, Session, Subscriptions, Broker

vars == <<clientVars, brokerVars>>

-----------------------------------------------------------------------------
(* NewClient: everything but the storage starts afresh. *)
Init ==
  /\ pc = [g \in Goroutines |-> "idle"]
  /\ arg = [g \in Goroutines |-> NoPacket]
  /\ calls = MaxCalls
  /\ connMutex = NoOne /\ mutex = NoOne /\ readers = {}
  /\ conn = "open"
  /\ isConnected = FALSE /\ pingOverdue = FALSE
  /\ toServer = <<>> /\ toClient = <<>>
  /\ sendQuota = 0 /\ receiveQuota = 0
  /\ serverReceiveMaximum = 0 /\ clientReceiveMaximum = 0
  /\ storage = [id \in Ids |-> "none"]
  /\ owed = {}
  /\ eventChans = {}
  /\ inbox = [c \in Channels |-> 0]
  /\ chanState = [c \in Channels |-> "new"]
  /\ closing = [c \in Channels |-> "never"]
  /\ fetched = {}
  /\ topicChans = [f \in Filters |-> Unbound]
  /\ responseChan = [id \in Ids |-> NoOne]
  /\ answers = {}
  /\ topics = [g \in Goroutines |-> <<>>]
  /\ routed = {} /\ target = NoChannel
  /\ crashed = FALSE
  /\ session = FALSE
  /\ brokerIn = {}
  /\ brokerOut = [id \in BrokerIds |-> "free"]
  /\ redo = {}
  /\ messages = MaxMessages
  /\ losses = MaxLosses

(* The application restarts and makes a new client on a new connection,    *)
(* with the storage it had.                                                *)
Restart ==
  /\ losses > 0
  /\ losses' = losses - 1
  /\ pc' = [g \in Goroutines |-> "idle"]
  /\ arg' = [g \in Goroutines |-> NoPacket]
  /\ connMutex' = NoOne /\ mutex' = NoOne /\ readers' = {}
  /\ conn' = "open"
  /\ isConnected' = FALSE /\ pingOverdue' = FALSE
  /\ toServer' = <<>> /\ toClient' = <<>>
  /\ sendQuota' = 0 /\ receiveQuota' = 0
  /\ serverReceiveMaximum' = 0 /\ clientReceiveMaximum' = 0
  /\ eventChans' = {}
  /\ inbox' = [c \in Channels |-> 0]
  /\ chanState' = [c \in Channels |-> "new"]
  /\ closing' = [c \in Channels |-> "never"]
  /\ fetched' = {}
  /\ topicChans' = [f \in Filters |-> Unbound]
  /\ responseChan' = [id \in Ids |-> NoOne]
  /\ answers' = {}
  /\ topics' = [g \in Goroutines |-> <<>>]
  /\ routed' = {} /\ target' = NoChannel
  /\ crashed' = FALSE
  /\ session' = FALSE
  /\ redo' = {}
  /\ UNCHANGED <<calls, storeVars, brokerIn, brokerOut, messages>>

-----------------------------------------------------------------------------
Call(g) ==
  \/ ConnectCall(g) \/ DisconnectCall(g) \/ KeepAliveCall(g)
  \/ PublishCall(g) \/ PollCall(g) \/ SubscribeCall(g) \/ UnsubscribeCall(g)

Step(g) ==
  \/ ConnectStep(g) \/ DisconnectStep(g) \/ KeepAliveStep(g)
  \/ PublishStep(g) \/ PollStep(g) \/ SubscribeStep(g) \/ UnsubscribeStep(g)

Application(c) ==
  \/ CreateEventChannel(c) \/ ReceiveEvent(c)
  \/ CloseEventChannel(c) \/ CloseEventChannelEnd(c)

BrokerStep == BrokerTakes \/ BrokerPublish \/ BrokerResend \/ BrokerUnprompted

(* A program that has crashed does nothing until it is restarted. *)
Next ==
  \/ /\ ~ crashed
     /\ \/ \E g \in Goroutines : Call(g) \/ Step(g)
        \/ \E c \in Channels : Application(c)
     /\ UNCHANGED brokerVars
  \/ BrokerStep
  \/ ConnLost
  \/ PingDeadlinePasses
  \/ Restart

Spec == Init /\ [][Next]_vars

(* A goroutine in a call goes on, one in CloseEventChannel too: Go         *)
(* schedules it, and its mutexes do not starve a waiter.  The application  *)
(* calls Poll again and again.  The broker answers what it reads.          *)
Fairness ==
  /\ \A g \in Goroutines :
       /\ SF_vars(~ crashed /\ Step(g) /\ UNCHANGED brokerVars)
       /\ WF_vars(~ crashed /\ PollCall(g) /\ UNCHANGED brokerVars)
  /\ \A c \in Channels :
       WF_vars(~ crashed /\ CloseEventChannelEnd(c) /\ UNCHANGED brokerVars)
  /\ WF_vars(BrokerTakes)
  /\ WF_vars(BrokerResend)

FairSpec == Spec /\ Fairness

-----------------------------------------------------------------------------
(* Where a goroutine is in its call, by what it holds there *)

PollHolds ==
  {"poll_read", "poll_publish", "poll_ack", "poll_credit", "poll_route",
   "poll_signal", "poll_store", "poll_response", "poll_puback",
   "poll_pubrec", "poll_pubrel", "poll_release", "poll_pubcomp",
   "poll_pingresp", "poll_disconnect", "poll_fanout"}
HoldsBoth == {"con_read", "poll_stuck"}
HoldsConn == HoldsBoth \cup PollHolds \cup
             {"pub_store", "pub_quota", "pub_send", "sub_send"}
HoldsMutex == HoldsBoth \cup
              {"con_conn", "dis_conn", "sub_unreg", "unsub_find",
               "unsub_close", "unsub_remove"}
HoldsRead == {"ka_conn"}
HoldsNothing ==
  {"idle", "con_lock", "dis_lock", "ka_lock", "pub_lock", "pub_gate",
   "pub_parked", "pub_relock", "pub_count", "poll_lock",
   "sub_lock", "sub_wait", "sub_bind", "sub_delete",
   "unsub_lock", "unsub_wait", "unsub_delete"}
Points == HoldsConn \cup HoldsMutex \cup HoldsRead \cup HoldsNothing

Quotas == 0..(QuotaModulus - 1)

CallType ==
  /\ pc \in [Goroutines -> Points]
  /\ arg \in [Goroutines -> Packets]
  /\ calls \in [Goroutines -> Nat]
LockType ==
  /\ connMutex \in Goroutines \cup {NoOne}
  /\ mutex \in Goroutines \cup {NoOne}
  /\ readers \subseteq Goroutines
WireType ==
  /\ conn \in ConnStates
  /\ toServer \in Seq(Packets)
  /\ toClient \in Seq(Packets)
LinkType ==
  /\ isConnected \in BOOLEAN
  /\ pingOverdue \in BOOLEAN
QuotaType ==
  /\ sendQuota \in Quotas
  /\ serverReceiveMaximum \in Quotas
  /\ receiveQuota \in Quotas
  /\ clientReceiveMaximum \in Quotas
StoreType ==
  /\ storage \in [Ids -> Kept]
  /\ owed \subseteq Ids
InboxType == inbox \in [Channels -> 0..EventCapacity]
ChanType ==
  /\ eventChans \subseteq Channels
  /\ chanState \in [Channels -> ChanStates]
  /\ closing \in [Channels -> ClosingStates]
  /\ fetched \subseteq Channels
  /\ topicChans \in [Filters -> EventChannels \cup {Unbound}]
ResponseType ==
  /\ responseChan \in [Ids -> (Goroutines \X Nat) \cup {NoOne}]
  /\ answers \subseteq [to : Goroutines \X Nat, packet : Packets]
LoopType ==
  /\ topics \in [Goroutines -> Seq(Filters \X EventChannels)]
  /\ routed \subseteq Filters
  /\ target \in EventChannels
EventType ==
  InboxType /\ ChanType /\ ResponseType /\ LoopType /\ crashed \in BOOLEAN
BrokerType ==
  /\ session \in BOOLEAN
  /\ brokerIn \subseteq Ids
  /\ brokerOut \in [BrokerIds -> Deliveries]
  /\ redo \subseteq BrokerIds
  /\ messages \in Nat
  /\ losses \in Nat

ClientType ==
  /\ CallType /\ LockType /\ WireType /\ LinkType
  /\ QuotaType /\ StoreType /\ EventType

(* Every variable of the client, the connection and the broker stays in    *)
(* its range: in particular the quotas, uint16 counters that Publish and   *)
(* Poll change in different critical sections.                             *)
TypeOK == ClientType /\ BrokerType

-----------------------------------------------------------------------------
(* The locks *)

WaitsForConn == {"con_conn", "dis_conn", "ka_conn"}
WaitsForMutex ==
  {"pub_store", "poll_publish", "poll_credit", "poll_store", "poll_puback",
   "poll_pubrec", "poll_pubrel", "poll_pubcomp", "sub_send"}

(* Each goroutine holds the mutexes its place in the call implies: what    *)
(* Publish, Poll, Connect, Disconnect and KeepAlive lock they hold alone,  *)
(* and a reader of c.mutex never meets a writer.                           *)
LockOwners ==
  /\ \A g \in Goroutines :
       /\ connMutex = g <=> pc[g] \in HoldsConn
       /\ pc[g] \in HoldsMutex => mutex = g
       /\ g \in readers <=> pc[g] \in HoldsRead
  /\ mutex # NoOne => readers = {}

(* No goroutine is left in the lock of connMutex that disconnectWithReason *)
(* would take under Poll, which holds it already: whenever Poll handles a  *)
(* packet, the client is still connected.                                  *)
NoSelfDeadlock == \A g \in Goroutines : ~ At(g, "poll_stuck")

(* Poll handles packets only while the client is connected, although it    *)
(* reads isConnected before it locks connMutex: nobody clears isConnected  *)
(* without closing the connection, and not while Poll holds connMutex.     *)
PollingConnected ==
  \A g \in Goroutines :
    /\ pc[g] \in PollHolds => isConnected
    /\ At(g, "poll_lock") /\ ~ isConnected => conn = "closed"

(* No two goroutines wait for each other's mutex: none holds c.mutex and   *)
(* waits for connMutex (Connect, Disconnect, KeepAlive) while another      *)
(* holds connMutex and waits for c.mutex (Publish, Poll; in poll_store for *)
(* reading, which a writer that waits for the reader g holds up as well).  *)
NoLockCycle ==
  ~ \E g, h \in Goroutines :
      /\ pc[g] \in WaitsForConn /\ connMutex = h
      /\ pc[h] \in WaitsForMutex /\ (mutex = g \/ g \in readers)

(* c.mutex is held only by a goroutine that is in the middle of a call     *)
(* that takes it: no return of Poll leaves it locked.                      *)
MutexReleased == \A g \in Goroutines : mutex = g => pc[g] \in HoldsMutex

-----------------------------------------------------------------------------
(* Flow control *)

AtPoint(p) == {g \in Goroutines : At(g, p)}

(* A CONNACK without Receive Maximum announces 65535. *)
AnnouncedMaximum == IF serverReceiveMaximum = 0 THEN QuotaModulus - 1
                    ELSE serverReceiveMaximum

(* Publish never has more QoS 1 and QoS 2 messages on their way than the   *)
(* Receive Maximum of the server allows [MQTT-4.9.0-2].                    *)
ReceiveMaximumRespected == Cardinality(owed) <= AnnouncedMaximum

(* The send quota never promises what is in use: with the messages on      *)
(* their way, less those Publish has yet to count, it is within the        *)
(* server's Receive Maximum.                                               *)
SendQuotaSound ==
  sendQuota + Cardinality(owed)
    <= serverReceiveMaximum + Cardinality(AtPoint("pub_count"))

(* The receive quota leaks nothing: with the messages the broker has in    *)
(* delivery, and those Poll is about to credit, it covers the client's     *)
(* Receive Maximum; and it never exceeds that maximum.                     *)
ReceiveQuotaExact ==
  isConnected =>
    /\ receiveQuota <= clientReceiveMaximum
    /\ clientReceiveMaximum <= receiveQuota + Cardinality(InDelivery)
                                + Cardinality(AtPoint("poll_credit"))

(* Poll turns away no message of a broker that keeps to the client's       *)
(* Receive Maximum.                                                        *)
ConformingBrokerNotRejected ==
  \A g \in Goroutines :
    At(g, "poll_publish") /\ arg[g].qos > 0 => receiveQuota > 0

-----------------------------------------------------------------------------
(* Persistence *)

(* A message sent with QoS 1 or 2 stays in the storage until its           *)
(* acknowledgement is handled, over losses of the connection and restarts. *)
StoredUntilAcked == HasStorage => \A id \in owed : Stored(id)

(* A PUBREC that Poll keeps for an incoming message is removed by the time *)
(* the broker considers the message delivered.                             *)
KeptPubrecPending ==
  \A id \in BrokerIds : storage[id] = "PUBREC" => brokerOut[id] # "free"

-----------------------------------------------------------------------------
(* Events *)

(* The call that closed c is between the close and its deletes. *)
BeingRemoved(c) ==
  \/ closing[c] = "closing"
  \/ \E g \in Goroutines :
       At(g, "unsub_remove") /\ ChannelOf(Head(topics[g])) = c

(* No binding outlives its channel, and none is left in both maps: a       *)
(* filter is bound to a real channel, which is open, or which whoever      *)
(* closed it, CloseEventChannel or Unsubscribe, is about to remove; and    *)
(* which is no longer a general one once Subscribe is done with it.        *)
NoStaleBinding ==
  \A f \in Bound :
    /\ topicChans[f] \in Channels
    /\ chanState[topicChans[f]] = "open" \/ BeingRemoved(topicChans[f])
    /\ topicChans[f] \in eventChans =>
         \E g \in Goroutines :
           At(g, "sub_unreg") /\ Head(topics[g]) = <<f, topicChans[f]>>

(* Once Subscribe is done with a channel, Poll passes to it only messages  *)
(* on the topics of its filter, no acknowledgement and no other message,   *)
(* but for an event whose fan-out had come to the channel before.          *)
OwnTopicOnly ==
  [][\A f \in Filters, c \in Channels \ fetched :
       /\ topicChans[f] = c /\ inbox'[c] > inbox[c]
       /\ \A g \in Goroutines : ~ At(g, "sub_unreg")
       => \E g \in Goroutines : At(g, "poll_signal") /\ f \in arg[g].filters
    ]_vars

(* No signal goes to a channel that has been closed.                       *)
NoSignalAfterClose ==
  \A g \in Goroutines :
    At(g, "poll_signal") /\ target \in Channels => chanState[target] # "closed"

(* CloseEventChannel or Unsubscribe has come to a channel that the other,  *)
(* or another call, has closed.                                            *)
ClosedTwice ==
  \/ \E c \in Channels : closing[c] = "twice"
  \/ \E g \in Goroutines :
       /\ At(g, "unsub_close")
       /\ ChannelOf(Head(topics[g])) \in Channels
       /\ chanState[ChannelOf(Head(topics[g]))] = "closed"

(* The program panics in two ways only: Poll signals a topic channel that  *)
(* was closed after Poll looked it up, or one channel is closed twice.     *)
(* The fan-out meets no closed channel, Unsubscribe closes no nil channel, *)
(* and the responses that Subscribe and Unsubscribe wait for are of the    *)
(* right type and find their channel open.                                 *)
NoOtherPanic == crashed => ~ NoSignalAfterClose \/ ClosedTwice

-----------------------------------------------------------------------------
(* Liveness *)

Publishing(g) ==
  pc[g] \in {"pub_lock", "pub_store", "pub_quota", "pub_gate", "pub_parked",
             "pub_relock", "pub_send", "pub_count"}
Subscribing(g) ==
  pc[g] \in {"sub_lock", "sub_send", "sub_wait", "sub_bind", "sub_unreg",
             "sub_delete", "unsub_lock", "unsub_wait", "unsub_find",
             "unsub_close", "unsub_remove", "unsub_delete"}

(* Every call of Publish returns, unless the program ends in a panic.      *)
PublishReturns ==
  \A g \in Goroutines : Publishing(g) ~> (At(g, "idle") \/ crashed)

(* Every call of Subscribe and Unsubscribe returns, although both wait for *)
(* a response without a deadline: Poll passes the response on.             *)
SubscribeReturns ==
  \A g \in Goroutines : Subscribing(g) ~> (At(g, "idle") \/ crashed)

(* A message sent with QoS 1 or 2 is acknowledged in the end, as long as   *)
(* the client stays connected and the program does not panic.              *)
Delivered ==
  \A id \in PubIds :
    (id \in owed /\ isConnected) ~> (id \notin owed \/ ~ isConnected \/ crashed)
=============================================================================
