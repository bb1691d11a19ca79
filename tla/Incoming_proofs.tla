-------------------------- MODULE Incoming_proofs --------------------------
(***************************************************************************)
(* Proofs about the messages that Client receives with QoS 1 and 2: the    *)
(* receive quota, and what is in the storage for them.                     *)
(***************************************************************************)
EXTENDS Outgoing_proofs

-----------------------------------------------------------------------------
(* The inductive invariant *)

(* The broker sends no packet that it has no reason to send, and nothing   *)
(* with QoS 0, which the client counts and never credits.                  *)
ConformingBroker ==
  /\ IsFiniteSet(BrokerIds) /\ 0 \notin BrokerQoS
  /\ Unprompted \cap {"CONNACK", "PUBLISH", "PUBREL"} = {}

ReadPoints == {"poll_publish", "poll_ack", "poll_pubrel", "poll_release"}
After == {"poll_route", "poll_signal", "poll_store"}

(* The handshake of a message of the broker is at one place at a time: a   *)
(* PUBLISH or PUBREL on its way to the client, a handler of Poll, an       *)
(* acknowledgement on its way back, or to be resumed after a reconnect.    *)
NoneSent(id) == NoneOf(toClient, Requests(id))
NoneReplied(id) == NoneOf(toServer, Acks(id))
Serving(g, id) == pc[g] \in ReadPoints /\ arg[g].id = id
Unserved(id) == \A g \in Goroutines : ~ Serving(g, id)

OneWay(id) ==
  /\ OneOf(toClient, Requests(id)) /\ OneOf(toServer, Acks(id))
  /\ NoneSent(id) \/ NoneReplied(id)
  /\ ~ Unserved(id) => NoneSent(id) /\ NoneReplied(id)
  /\ id \in redo => NoneSent(id) /\ NoneReplied(id) /\ Unserved(id)

(* An identifier that is free is nowhere; nothing is anywhere before the   *)
(* broker has accepted a CONNECT.                                          *)
Way(id) ==
  /\ OneWay(id)
  /\ brokerOut[id] = "free" \/ Starting =>
       NoneSent(id) /\ NoneReplied(id) /\ Unserved(id)
  /\ brokerOut[id] = "free" => id \notin redo

(* What the handlers of Poll are about *)
Odd == {p \in Packets : \/ p.type = "PUBLISH" /\ p.qos = 0
                        \/ p.type \in {"PUBLISH", "PUBREL"} /\ p.id \notin BrokerIds}
IncomingArgs ==
  /\ NoneOf(toClient, Odd)
  /\ \A g \in Goroutines :
       /\ pc[g] \in ReadPoints \cup After \cup {"poll_credit"} =>
            arg[g].id \in BrokerIds
       /\ pc[g] \in After \cup {"poll_publish", "poll_ack", "poll_credit"} =>
            arg[g].qos # 0
       /\ pc[g] \in PublishPoints => arg[g].type = "PUBLISH"

(* A message is counted from the time Poll has read it until its last      *)
(* acknowledgement is written.                                             *)
Publishes(id) == {p \in Packets : p.id = id /\ p.type = "PUBLISH"}
Ends(id) == {p \in Packets : p.id = id /\ p.type \in {"PUBACK", "PUBCOMP"}}
Reading(g, id) == pc[g] = "poll_publish" /\ arg[g].id = id
Counted ==
  {id \in BrokerIds :
     /\ brokerOut[id] # "free" /\ id \notin redo
     /\ NoneOf(toClient, Publishes(id)) /\ NoneOf(toServer, Ends(id))
     /\ \A g \in Goroutines : ~ Reading(g, id)}

RecvInv ==
  /\ receiveQuota <= clientReceiveMaximum
  /\ \A g \in Goroutines :
       pc[g] \in {"poll_ack", "poll_credit"} =>
         receiveQuota < clientReceiveMaximum
  /\ clientReceiveMaximum <= receiveQuota + Cardinality(Counted)
                               + Cardinality(AtPoint("poll_credit"))
  /\ isConnected /\ PacketReceiveMaximum # 0 =>
       clientReceiveMaximum = PacketReceiveMaximum
  /\ Cardinality(InDelivery) <= BrokerLimit

IncomingInv ==
  /\ StartInv /\ IncomingArgs /\ RecvInv
  /\ \A id \in BrokerIds : Way(id)

-----------------------------------------------------------------------------
(* Steps that bring nothing new for the messages with identifiers in S *)

NothingNew(S) ==
  \A id \in S :
    /\ FewerOf(toClient, toClient', Requests(id))
    /\ FewerOf(toClient, toClient', Publishes(id))
    /\ FewerOf(toServer, toServer', Acks(id))
    /\ FewerOf(toServer, toServer', Ends(id))
    /\ \A g \in Goroutines : /\ Serving(g, id)' => Serving(g, id)
                             /\ Reading(g, id)' => Reading(g, id)
    /\ id \in redo' => id \in redo
    /\ brokerOut'[id] = "free" => brokerOut[id] = "free"

LEMMA NothingNewWay ==
  ASSUME NEW S, NothingNew(S), NEW id \in S, Way(id), Starting' => Starting
  PROVE  Way(id)' /\ (id \in Counted => id \in Counted')
<1>1. /\ FewerOf(toClient, toClient', Requests(id))
      /\ FewerOf(toServer, toServer', Acks(id))
      /\ id \in redo' => id \in redo
      /\ brokerOut'[id] = "free" => brokerOut[id] = "free"
  BY DEF NothingNew
<1>2. Unserved(id) => Unserved(id)'
  BY DEF NothingNew, Unserved
<1>3. OneWay(id)'
  BY <1>1, <1>2 DEF Way, OneWay, NoneSent, NoneReplied, FewerOf
<1>4. Way(id)'
  BY <1>1, <1>2, <1>3 DEF Way, NoneSent, NoneReplied, FewerOf
<1>5. id \in Counted => id \in Counted'
  BY DEF NothingNew, Counted, FewerOf
<1>6. QED
  BY <1>4, <1>5

(* What goroutines do that are not at the steps of such a handshake *)
QuietCalls ==
  \A h \in Goroutines :
    /\ pc'[h] \in ReadPoints \cup {"poll_credit"} =>
         /\ arg'[h] = arg[h]
         /\ pc'[h] = pc[h] \/ (pc[h] = "poll_pubrel" /\ pc'[h] = "poll_release")
    /\ pc'[h] \in After => pc[h] \in After /\ arg'[h] = arg[h]
    /\ pc[h] = "poll_credit" => pc'[h] = "poll_credit"
    /\ pc'[h] \in PublishPoints =>
         \/ arg'[h].type = "PUBLISH"
         \/ pc[h] \in PublishPoints /\ arg'[h].type = arg[h].type

Handles(g) ==
  PollRead(g) \/ PollPublish(g) \/ PollAck(g) \/ PollCredit(g) \/ PollRelease(g)

LEMMA GoroutineQuiet ==
  ASSUME TypeOK, NEW g \in Goroutines, Call(g) \/ Step(g), ~ Handles(g)
  PROVE  QuietCalls /\ (ConnectAck(g) \/ UNCHANGED recvVars)
<1>1. CASE PollPuback(g) \/ PollPubcomp(g)
  <2>1. /\ pc[g] \in {"poll_puback", "poll_pubcomp"}
        /\ UNCHANGED recvVars
        /\ \E p \in {"idle", "poll_fanout"} :
             /\ GotoReleasing(g, p)
             /\ arg' \in {arg, [arg EXCEPT ![g] = NoPacket]}
             /\ p # "idle" => arg' = arg
    BY <1>1 DEF PollPuback, PollPubcomp, Completed, At
  <2>2. PICK p \in {"idle", "poll_fanout"}, w \in Parked \cup {NoOne} :
          /\ pc' = [q \in Goroutines |-> IF q = g THEN p
                                         ELSE IF q = w THEN "pub_relock"
                                         ELSE pc[q]]
          /\ arg' \in {arg, [arg EXCEPT ![g] = NoPacket]}
          /\ p # "idle" => arg' = arg
    BY <2>1 DEF GotoReleasing, Released
  <2>3. \A h \in Goroutines :
          /\ \/ pc'[h] \in {pc[h], "idle", "poll_fanout"}
             \/ pc[h] = "pub_parked" /\ pc'[h] = "pub_relock"
          /\ pc'[h] # "idle" => arg'[h] = arg[h]
          /\ pc[h] = "poll_credit" => pc'[h] = "poll_credit"
    BY <2>1, <2>2, ConstantsAssumption, CallTyped DEF Parked, At
  <2>4. QED
    BY <2>1, <2>3 DEF QuietCalls, ReadPoints, After, PublishPoints,
       Preparations
<1>2. CASE Call(g)
  BY <1>2, CallTyped DEF Call, ConnectCall, DisconnectCall, KeepAliveCall,
     PublishCall, PollCall, SubscribeCall, UnsubscribeCall, Begin, Goto, At,
     Publish, Packet, QuietCalls, ReadPoints, After, PublishPoints,
     Preparations
<1>3. CASE ConnectStep(g) \/ DisconnectStep(g) \/ KeepAliveStep(g)
  BY <1>3, CallTyped DEF ConnectStep, DisconnectStep, KeepAliveStep,
     ConnectLock, ConnectSend, ConnectFail, ConnectAck, ConnectReturn,
     DisconnectLock, DisconnectSend, KeepAliveLock, KeepAliveSend, Done, Goto,
     At, QuietCalls, ReadPoints, After, PublishPoints, Preparations
<1>4. CASE PublishStep(g)
  <2>1. CASE PublishStore(g)
    <3>1. /\ \A h \in Goroutines : h # g => pc'[h] = pc[h] /\ arg'[h] = arg[h]
          /\ pc[g] = "pub_store" /\ UNCHANGED recvVars
      BY <2>1, CallTyped DEF PublishStore, Done, Goto, At
    <3>2. \/ pc'[g] = "idle"
          \/ pc'[g] = "pub_quota" /\ arg'[g].type = arg[g].type
      <4>1. \A id : [arg EXCEPT ![g].id = id][g].type = arg[g].type
        BY CallTyped DEF Packets
      <4>2. QED
        BY <2>1, <4>1, CallTyped DEF PublishStore, Done, Goto
    <3>3. QED
      BY <3>1, <3>2 DEF QuietCalls, ReadPoints, After, PublishPoints,
         Preparations
  <2>2. QED
    BY <1>4, <2>1, CallTyped DEF PublishStep, PublishLock, PublishQuota,
       PublishPark, PublishRelock, PublishSend, PublishCount, Done, Goto, At,
       QuietCalls, ReadPoints, After, PublishPoints, Preparations
<1>5. CASE PollStep(g)
  <2>1. CASE \/ PollLock(g) \/ PollNothing(g) \/ PollRoute(g) \/ PollSignal(g)
             \/ PollStore(g)
    BY <2>1, CallTyped DEF PollLock, PollNothing, PollRoute, PollSignal,
       PollStore, Panic, PollReturn, Done, Goto, At, callVars, QuietCalls,
       ReadPoints, After, PublishPoints, Preparations
  <2>2. CASE \/ PollPubrec(g) \/ PollPubrel(g)
             \/ PollResponse(g) \/ PollFanout(g) \/ PollPingresp(g)
             \/ PollDisconnect(g)
    BY <2>2, CallTyped DEF PollPubrec, PollPubrel, PollResponse,
       PollFanout, PollPingresp, PollDisconnect, Panic,
       PollReturn, Done, Goto, At, callVars, QuietCalls, ReadPoints, After,
       PublishPoints, Preparations
  <2>3. QED
    BY <1>1, <1>5, <2>1, <2>2 DEF PollStep, Handles
<1>6. CASE SubscribeStep(g) \/ UnsubscribeStep(g)
  BY <1>6, CallTyped DEF SubscribeStep, UnsubscribeStep, SubscribeLock,
     SubscribeSend, SubscribeAnswer, SubscribeBind, SubscribeUnregister,
     SubscribeClose, ResponseDelete, UnsubscribeSend, UnsubscribeAnswer,
     UnsubscribeFind, UnsubscribeClose, UnsubscribeRemove,
     UnsubscribeUnlock, ReturnSubscribe, Panic, Done, Goto, At, callVars, QuietCalls, ReadPoints, After,
     PublishPoints, Preparations
<1>7. QED
  BY <1>2, <1>3, <1>4, <1>5, <1>6 DEF Step

LEMMA QuietArgs ==
  ASSUME TypeOK, IncomingArgs, QuietCalls,
         \/ toClient' = toClient \/ toClient' = <<>>
         \/ toClient # <<>> /\ toClient' = Tail(toClient)
  PROVE  IncomingArgs'
<1>1. NoneOf(toClient', Odd)
  BY WireTyped, QueueTail, QueueEmpty DEF IncomingArgs
<1>2. ASSUME NEW h \in Goroutines
      PROVE  /\ pc'[h] \in ReadPoints \cup After \cup {"poll_credit"} =>
                  arg'[h].id \in BrokerIds
             /\ pc'[h] \in After \cup {"poll_publish", "poll_ack", "poll_credit"}
                  => arg'[h].qos # 0
             /\ pc'[h] \in PublishPoints => arg'[h].type = "PUBLISH"
  BY DEF QuietCalls, IncomingArgs, ReadPoints, After
<1>3. QED
  BY <1>1, <1>2 DEF IncomingArgs

(* Who has an acknowledgement to write, or a PUBREL to handle, does so. *)
LEMMA AtHandler ==
  ASSUME NEW g \in Goroutines, Call(g) \/ Step(g),
         pc[g] \in {"poll_ack", "poll_release", "poll_pubrel"}
  PROVE  PollAck(g) \/ PollRelease(g) \/ PollPubrel(g)
BY DEF Call, ConnectCall, DisconnectCall, KeepAliveCall, PublishCall,
   PollCall, SubscribeCall, UnsubscribeCall, Begin, At, Step, ConnectStep,
   DisconnectStep, KeepAliveStep, PublishStep, PollStep, SubscribeStep,
   UnsubscribeStep, ConnectLock, ConnectSend, ConnectFail, ConnectAck,
   DisconnectLock, DisconnectSend, KeepAliveLock, KeepAliveSend, PublishLock,
   PublishStore, PublishQuota, PublishPark, PublishRelock, PublishSend,
   PublishCount, PollLock, PollNothing, PollRead, PollPublish, PollCredit,
   PollRoute, PollSignal, PollStore, PollPuback, PollPubcomp, PollPubrec,
   PollResponse, PollFanout, PollPingresp, PollDisconnect,
   SubscribeLock, SubscribeSend, SubscribeAnswer, SubscribeBind,
   SubscribeUnregister, SubscribeClose, ResponseDelete, UnsubscribeSend,
   UnsubscribeAnswer, UnsubscribeFind, UnsubscribeClose, UnsubscribeRemove, UnsubscribeUnlock

LEMMA QuietNew ==
  ASSUME TypeOK, IncomingArgs, NEW g \in Goroutines, Call(g) \/ Step(g),
         ~ Handles(g), UNCHANGED brokerVars
  PROVE  NothingNew(BrokerIds)
<1> SUFFICES ASSUME NEW id \in BrokerIds
             PROVE  /\ FewerOf(toClient, toClient', Requests(id))
                    /\ FewerOf(toClient, toClient', Publishes(id))
                    /\ FewerOf(toServer, toServer', Acks(id))
                    /\ FewerOf(toServer, toServer', Ends(id))
                    /\ \A h \in Goroutines : /\ Serving(h, id)' => Serving(h, id)
                                             /\ Reading(h, id)' => Reading(h, id)
                    /\ id \in redo' => id \in redo
                    /\ brokerOut'[id] = "free" => brokerOut[id] = "free"
  BY DEF NothingNew
<1>1. /\ FewerOf(toClient, toClient', Requests(id))
      /\ FewerOf(toClient, toClient', Publishes(id))
  BY GoroutineReads, WireTyped, QueueFewer
<1>2. /\ FewerOf(toServer, toServer', Acks(id))
      /\ FewerOf(toServer, toServer', Ends(id))
  <2>1. CASE pc[g] \notin {"poll_ack", "poll_release"}
    <3>1. \A p \in Packets : Writes(g, p) => p \notin Acks(id) /\ p \notin Ends(id)
      <4>1. pc[g] = "pub_send" => arg[g].type = "PUBLISH"
        BY DEF IncomingArgs, PublishPoints, Preparations
      <4>2. QED
        BY <2>1, <4>1 DEF Writes, Acks, Ends, Packet
    <3>2. QED
      BY <3>1, GoroutineWrites, WireTyped, QueueFewer
  <2>2. CASE pc[g] \in {"poll_ack", "poll_release"}
    <3>1. FALSE
      BY <2>2, AtHandler DEF Handles, PollPubrel, At
    <3>2. QED
      BY <3>1
  <2>3. QED
    BY <2>1, <2>2
<1>3. \A h \in Goroutines : /\ Serving(h, id)' => Serving(h, id)
                            /\ Reading(h, id)' => Reading(h, id)
  <2>1. QuietCalls
    BY GoroutineQuiet
  <2>2. QED
    BY <2>1 DEF QuietCalls, Serving, Reading, ReadPoints
<1>4. QED
  BY <1>1, <1>2, <1>3 DEF brokerVars

-----------------------------------------------------------------------------
(* The receive quota *)

LEMMA ReceiveTyped ==
  ASSUME TypeOK
  PROVE  /\ receiveQuota \in Nat /\ clientReceiveMaximum \in Nat
         /\ receiveQuota < QuotaModulus /\ clientReceiveMaximum < QuotaModulus
BY ConstantsAssumption DEF TypeOK, ClientType, QuotaType, Quotas

LEMMA IdsFinite ==
  ASSUME ConformingBroker, NEW T \in SUBSET BrokerIds
  PROVE  IsFiniteSet(T) /\ Cardinality(T) \in Nat
BY FS_Subset, FS_CardinalityType DEF ConformingBroker

(* connMutex is held at poll_credit. *)
LEMMA CreditsFew ==
  ASSUME LockInv
  PROVE  /\ IsFiniteSet(AtPoint("poll_credit"))
         /\ Cardinality(AtPoint("poll_credit")) \in Nat
         /\ \A g \in Goroutines :
              connMutex = g => AtPoint("poll_credit") \subseteq {g}
<1>1. \A g \in AtPoint("poll_credit") : connMutex = g
  BY DEF AtPoint, At, LockInv, LockOwners, HoldsConn, PollHolds
<1>2. QED
  BY <1>1, FewElements

(* Steps that leave the quota alone *)
RecvCalm ==
  /\ UNCHANGED recvVars
  /\ Counted \subseteq Counted'
  /\ \A h \in Goroutines :
       /\ (pc'[h] = "poll_credit") = (pc[h] = "poll_credit")
       /\ pc'[h] = "poll_ack" => pc[h] = "poll_ack"
  /\ isConnected' => isConnected
  /\ Cardinality(InDelivery') <= BrokerLimit

LEMMA CountedFinite ==
  ASSUME ConformingBroker, Counted \subseteq Counted'
  PROVE  /\ Cardinality(Counted) \in Nat /\ Cardinality(Counted') \in Nat
         /\ Cardinality(Counted) <= Cardinality(Counted')
<1>1. Counted \subseteq BrokerIds /\ Counted' \subseteq BrokerIds
  BY DEF Counted
<1>2. /\ IsFiniteSet(Counted') /\ Cardinality(Counted) \in Nat
      /\ Cardinality(Counted') \in Nat
  BY <1>1, IdsFinite
<1>3. QED
  BY <1>2, FS_Subset

LEMMA RecvCalmInv ==
  ASSUME TypeOK, LockInv, ConformingBroker, RecvInv, RecvCalm
  PROVE  RecvInv'
<1>1. AtPoint("poll_credit")' = AtPoint("poll_credit")
  BY DEF AtPoint, At, RecvCalm
<1>2. UNCHANGED <<receiveQuota, clientReceiveMaximum>>
  BY DEF RecvCalm, recvVars
<1>3. clientReceiveMaximum' <= receiveQuota' + Cardinality(Counted')
                                 + Cardinality(AtPoint("poll_credit")')
  BY <1>1, <1>2, CountedFinite, CreditsFew, ReceiveTyped DEF RecvInv, RecvCalm
<1>4. QED
  BY <1>2, <1>3 DEF RecvInv, RecvCalm

LEMMA DeliverySame ==
  ASSUME UNCHANGED brokerOut
  PROVE  InDelivery' = InDelivery
BY DEF InDelivery

(* A step of a goroutine that has nothing to do with incoming messages *)
LEMMA QuietIncoming ==
  ASSUME TypeOK, LockInv, ConformingBroker, IncomingInv, NEW g \in Goroutines,
         Call(g) \/ Step(g), ~ Handles(g), UNCHANGED brokerVars
  PROVE  IncomingInv'
<1>1. IncomingArgs'
  BY GoroutineQuiet, GoroutineReads, QuietArgs DEF IncomingInv
<1>2. /\ StartInv'
      /\ ConnectAck(g) \/ StartCalm
      /\ Starting' => Starting
  <2>1. pc[g] = "pub_send" => arg[g].type = "PUBLISH"
    BY DEF IncomingInv, IncomingArgs, PublishPoints, Preparations
  <2>2. ConnectAck(g) => (Starting' => Starting)
    BY DEF ConnectAck, Starting, brokerVars
  <2>3. QED
    BY <2>1, <2>2, GoroutineStart, ConnectAckStart, StartCalmInv
       DEF IncomingInv, StartCalm
<1>3. \A id \in BrokerIds : Way(id)' /\ (id \in Counted => id \in Counted')
  BY <1>2, QuietNew, NothingNewWay DEF IncomingInv
<1>4. Counted \subseteq Counted'
  BY <1>3 DEF Counted
<1>5. /\ \A h \in Goroutines :
           /\ (pc'[h] = "poll_credit") = (pc[h] = "poll_credit")
           /\ pc'[h] = "poll_ack" => pc[h] = "poll_ack"
      /\ Cardinality(InDelivery') <= BrokerLimit
  BY GoroutineQuiet, DeliverySame
     DEF QuietCalls, ReadPoints, brokerVars, IncomingInv, RecvInv
<1>6. CASE ~ ConnectAck(g)
  <2>1. RecvCalm
    BY <1>2, <1>4, <1>5, <1>6, GoroutineQuiet DEF RecvCalm, StartCalm
  <2>2. QED
    BY <1>1, <1>2, <1>3, <2>1, RecvCalmInv DEF IncomingInv
<1>7. CASE ConnectAck(g)
  <2>1. CASE UNCHANGED <<isConnected, recvVars>>
    <3>1. RecvCalm
      BY <1>4, <1>5, <2>1 DEF RecvCalm
    <3>2. QED
      BY <1>1, <1>2, <1>3, <3>1, RecvCalmInv DEF IncomingInv
  <2>2. CASE ~ UNCHANGED <<isConnected, recvVars>>
    <3>1. /\ receiveQuota' = clientReceiveMaximum'
          /\ serverReceiveMaximum' \in ReceiveMaxima
          /\ clientReceiveMaximum' = IF PacketReceiveMaximum = 0
                                     THEN serverReceiveMaximum'
                                     ELSE PacketReceiveMaximum
      <4>1. ~ (UNCHANGED linkVars /\ UNCHANGED recvVars)
        BY <2>2 DEF linkVars
      <4>2. QED
        BY <1>7, <4>1 DEF ConnectAck
    <3>2. clientReceiveMaximum' \in Nat
      BY <3>1, ConstantsAssumption
    <3>3. \A h \in Goroutines : pc'[h] \notin {"poll_ack", "poll_credit"}
      <4>1. connMutex = g /\ pc'[g] = "idle"
            /\ \A h \in Goroutines : h # g => pc'[h] = pc[h]
        BY <1>7, CallTyped DEF ConnectAck, ConnectReturn, Done, Goto, At,
           LockInv, LockOwners, HoldsConn, HoldsBoth
      <4>2. QED
        BY <4>1 DEF LockInv, LockOwners, HoldsConn, PollHolds
    <3>4. Cardinality(AtPoint("poll_credit")') \in Nat
      <4>1. AtPoint("poll_credit")' = {}
        BY <3>3 DEF AtPoint, At
      <4>2. QED
        BY <4>1, FS_EmptySet
    <3>5. RecvInv'
      BY <1>4, <1>5, <3>1, <3>2, <3>3, <3>4, CountedFinite DEF RecvInv
    <3>6. QED
      BY <1>1, <1>2, <1>3, <3>5 DEF IncomingInv
  <2>3. QED
    BY <2>1, <2>2
<1>8. QED
  BY <1>6, <1>7

-----------------------------------------------------------------------------
(* The steps of Poll that carry on the handshake of one message *)

(* All but one message are left alone, and that one is accounted for. *)
LEMMA OneIncoming ==
  ASSUME NEW j, NothingNew(BrokerIds \ {j}), Starting' => Starting,
         \A id \in BrokerIds : Way(id),
         j \in BrokerIds => Way(j)'
  PROVE  /\ \A id \in BrokerIds : Way(id)'
         /\ \A id \in BrokerIds \ {j} : id \in Counted => id \in Counted'
<1>1. \A id \in BrokerIds \ {j} : Way(id)' /\ (id \in Counted => id \in Counted')
  BY NothingNewWay
<1>2. QED
  BY <1>1

(* g holds connMutex in a handler: no other goroutine is in one. *)
LEMMA HandlerAlone ==
  ASSUME LockInv, NEW g \in Goroutines, pc[g] \in PollHolds,
         NEW h \in Goroutines, h # g
  PROVE  pc[h] \notin PollHolds
BY DEF LockInv, LockOwners, HoldsConn

LEMMA HandlesStart ==
  ASSUME TypeOK, LockInv, IncomingInv, NEW g \in Goroutines, Handles(g),
         UNCHANGED brokerVars
  PROVE  StartInv' /\ StartCalm /\ (Starting' => Starting)
<1>1. ~ ConnectAck(g) /\ Step(g) /\ pc[g] # "pub_send"
  BY DEF Handles, PollRead, PollPublish, PollAck, PollCredit, PollRelease,
     ConnectAck, At, Step, PollStep
<1>2. StartCalm
  BY <1>1, GoroutineStart DEF IncomingInv
<1>3. QED
  BY <1>2, StartCalmInv DEF StartCalm, IncomingInv

LEMMA PollReadIncoming ==
  ASSUME TypeOK, LockInv, ConformingBroker, IncomingInv, NEW g \in Goroutines,
         PollRead(g), UNCHANGED brokerVars
  PROVE  IncomingInv'
<1>1. /\ pc[g] = "poll_read" /\ conn = "open" /\ toClient # <<>>
      /\ toClient' = Tail(toClient)
      /\ UNCHANGED <<conn, toServer, recvVars, redo, brokerOut>>
  BY DEF PollRead, At, brokerVars
<1>2. PICK p : p = Head(toClient)
  OBVIOUS
<1>3. p \in Packets /\ p.type \in PacketTypes
  <2>1. p \in Packets
    BY <1>1, <1>2, WireTyped
  <2>2. QED
    BY <2>1 DEF Packets
<1>4. p \notin Odd /\ NoneOf(toClient', Odd)
  BY <1>1, <1>2, WireTyped, QueueTail DEF IncomingInv, IncomingArgs
<1>5. /\ \A h \in Goroutines \ {g} : arg'[h] = arg[h] /\ pc'[h] = pc[h]
      /\ \/ pc'[g] = "idle"
         \/ /\ p.type \in DOMAIN Handler
            /\ arg'[g] = p /\ pc'[g] = Handler[p.type]
  BY <1>2, CallTyped DEF PollRead, PollReturn, Done, Goto
<1>6. /\ pc'[g] \notin After \cup PublishPoints \cup {"poll_credit", "poll_ack"}
      /\ pc'[g] \in ReadPoints =>
           /\ arg'[g] = p /\ p.type \in {"PUBLISH", "PUBREL"}
           /\ pc'[g] = "poll_publish" => p.type = "PUBLISH"
  <2>1. CASE pc'[g] = "idle"
    BY <2>1 DEF After, PublishPoints, Preparations, ReadPoints
  <2>2. CASE /\ p.type \in DOMAIN Handler
             /\ arg'[g] = p /\ pc'[g] = Handler[p.type]
    BY <2>2 DEF Handler, After, PublishPoints, Preparations, ReadPoints
  <2>3. QED
    BY <1>5, <2>1, <2>2
<1>7. IncomingArgs'
  <2>1. ASSUME NEW h \in Goroutines
        PROVE  /\ pc'[h] \in ReadPoints \cup After \cup {"poll_credit"} =>
                    arg'[h].id \in BrokerIds
               /\ pc'[h] \in After \cup {"poll_publish", "poll_ack", "poll_credit"}
                    => arg'[h].qos # 0
               /\ pc'[h] \in PublishPoints => arg'[h].type = "PUBLISH"
    <3>1. CASE h = g
      BY <1>3, <1>4, <1>6, <3>1 DEF Odd, ReadPoints
    <3>2. CASE h # g
      BY <1>5, <3>2 DEF IncomingInv, IncomingArgs
    <3>3. QED
      BY <3>1, <3>2
  <2>2. QED
    BY <1>4, <2>1 DEF IncomingArgs
<1>8. StartInv' /\ StartCalm /\ (Starting' => Starting)
  BY HandlesStart DEF Handles
<1>9. PICK j : j = p.id
  OBVIOUS
<1>10. NothingNew(BrokerIds \ {j})
  <2>1. \A id \in BrokerIds \ {j} :
          /\ FewerOf(toClient, toClient', Requests(id))
          /\ FewerOf(toClient, toClient', Publishes(id))
          /\ FewerOf(toServer, toServer', Acks(id))
          /\ FewerOf(toServer, toServer', Ends(id))
    BY <1>1, WireTyped, QueueFewer
  <2>2. \A id \in BrokerIds \ {j}, h \in Goroutines :
          /\ Serving(h, id)' => Serving(h, id)
          /\ Reading(h, id)' => Reading(h, id)
    <3>1. \A id \in BrokerIds \ {j} : ~ Serving(g, id)' /\ ~ Reading(g, id)'
      BY <1>6, <1>9 DEF Serving, Reading, ReadPoints
    <3>2. QED
      BY <1>5, <3>1 DEF Serving, Reading
  <2>3. QED
    BY <1>1, <2>1, <2>2 DEF NothingNew
<1>11. ASSUME j \in BrokerIds
       PROVE  Way(j)' /\ (j \in Counted => j \in Counted')
  <2>1. Way(j)
    BY <1>11 DEF IncomingInv
  <2>2. CASE p.type \notin {"PUBLISH", "PUBREL"}
    <3>1. \A h \in Goroutines : /\ Serving(h, j)' => Serving(h, j)
                                /\ Reading(h, j)' => Reading(h, j)
      BY <1>5, <1>6, <2>2 DEF Serving, Reading, ReadPoints
    <3>2. NothingNew({j})
      BY <1>1, <3>1, WireTyped, QueueFewer DEF NothingNew
    <3>3. QED
      BY <1>8, <2>1, <3>2, NothingNewWay
  <2>3. CASE p.type \in {"PUBLISH", "PUBREL"}
    <3>1. p \in Requests(j) /\ ~ NoneSent(j)
      BY <1>1, <1>2, <1>3, <1>9, <2>3, WireTyped, QueueTail
         DEF Requests, NoneSent
    <3>2. /\ NoneReplied(j) /\ Unserved(j) /\ j \notin redo
          /\ brokerOut[j] # "free" /\ ~ Starting
      BY <2>1, <3>1 DEF Way, OneWay
    <3>3. NoneSent(j)' /\ OneOf(toClient', Requests(j))
      BY <1>1, <1>2, <2>1, <3>1, WireTyped, QueueTail
         DEF Way, OneWay, NoneSent
    <3>4. Way(j)'
      BY <1>1, <1>8, <2>1, <3>2, <3>3 DEF Way, OneWay, NoneReplied
    <3>5. ASSUME j \in Counted
          PROVE  j \in Counted'
      <4>1. NoneOf(toClient, Publishes(j)) /\ NoneOf(toServer, Ends(j))
            /\ \A h \in Goroutines : ~ Reading(h, j)
        BY <3>5 DEF Counted
      <4>2. p \notin Publishes(j) /\ NoneOf(toClient', Publishes(j))
        BY <1>1, <1>2, <4>1, WireTyped, QueueTail
      <4>3. \A h \in Goroutines : ~ Reading(h, j)'
        BY <1>3, <1>5, <1>6, <1>9, <4>1, <4>2
           DEF Reading, Publishes, ReadPoints
      <4>4. QED
        BY <1>1, <1>11, <3>2, <4>1, <4>2, <4>3 DEF Counted
    <3>6. QED
      BY <3>4, <3>5
  <2>4. QED
    BY <2>2, <2>3
<1>12. (\A id \in BrokerIds : Way(id)') /\ Counted \subseteq Counted'
  BY <1>8, <1>10, <1>11, OneIncoming DEF IncomingInv, Counted
<1>13. RecvCalm
  <2>1. \A h \in Goroutines :
          /\ (pc'[h] = "poll_credit") = (pc[h] = "poll_credit")
          /\ pc'[h] = "poll_ack" => pc[h] = "poll_ack"
    BY <1>1, <1>5, <1>6
  <2>2. QED
    BY <1>1, <1>8, <1>12, <2>1, DeliverySame
       DEF RecvCalm, StartCalm, IncomingInv, RecvInv
<1>14. QED
  BY <1>7, <1>8, <1>12, <1>13, RecvCalmInv DEF IncomingInv

(* Only g moves, from one handler to the next or out of Poll. *)
LEMMA MovesArgs ==
  ASSUME IncomingArgs, UNCHANGED toClient, NEW g \in Goroutines,
         \A h \in Goroutines \ {g} : arg'[h] = arg[h] /\ pc'[h] = pc[h],
         \/ pc'[g] \in {"idle", "poll_stuck", "poll_fanout"}
         \/ /\ pc[g] \in {"poll_publish", "poll_ack", "poll_credit"}
            /\ pc'[g] \in {"poll_ack", "poll_credit", "poll_route"}
            /\ arg'[g] = arg[g]
  PROVE  IncomingArgs'
<1>1. ASSUME NEW h \in Goroutines
      PROVE  /\ pc'[h] \in ReadPoints \cup After \cup {"poll_credit"} =>
                  arg'[h].id \in BrokerIds
             /\ pc'[h] \in After \cup {"poll_publish", "poll_ack", "poll_credit"}
                  => arg'[h].qos # 0
             /\ pc'[h] \in PublishPoints => arg'[h].type = "PUBLISH"
  <2>1. CASE h = g
    BY <2>1 DEF IncomingArgs, ReadPoints, After, PublishPoints, Preparations
  <2>2. CASE h # g
    BY <2>2 DEF IncomingArgs
  <2>3. QED
    BY <2>1, <2>2
<1>2. QED
  BY <1>1 DEF IncomingArgs

(* Poll counts the message that it has read. *)
LEMMA PollPublishIncoming ==
  ASSUME TypeOK, LockInv, ConformingBroker, IncomingInv, NEW g \in Goroutines,
         PollPublish(g), UNCHANGED brokerVars
  PROVE  IncomingInv'
<1>1. PICK j : j = arg[g].id
  OBVIOUS
<1>2. /\ pc[g] = "poll_publish" /\ j \in BrokerIds /\ arg[g].qos # 0
      /\ isConnected
  <2>1. pc[g] = "poll_publish"
    BY DEF PollPublish, At
  <2>2. QED
    BY <1>1, <2>1 DEF IncomingInv, IncomingArgs, ReadPoints, LockInv,
       PollingConnected, PollHolds
<1>3. /\ UNCHANGED <<wireVars, isConnected, clientReceiveMaximum>>
      /\ UNCHANGED <<redo, brokerOut>>
      /\ \A h \in Goroutines \ {g} : arg'[h] = arg[h] /\ pc'[h] = pc[h]
      /\ \/ /\ receiveQuota' = receiveQuota /\ pc'[g] = "idle"
         \/ /\ receiveQuota > 0 /\ receiveQuota' = Dec(receiveQuota)
            /\ pc'[g] = "poll_ack" /\ arg'[g] = arg[g]
  BY <1>2, CallTyped, ReceiveTyped DEF PollPublish, DisconnectWithReason,
     PollReturn, Done, Goto, linkVars, brokerVars
<1>4. StartInv' /\ IncomingArgs' /\ (Starting' => Starting)
  BY <1>2, <1>3, HandlesStart, MovesArgs DEF Handles, IncomingInv, wireVars
<1>5. NothingNew(BrokerIds)
  <2>1. \A h \in Goroutines, id \in BrokerIds :
          /\ Serving(h, id)' => Serving(h, id)
          /\ Reading(h, id)' => Reading(h, id)
    BY <1>2, <1>3 DEF Serving, Reading, ReadPoints
  <2>2. QED
    BY <1>3, <2>1 DEF NothingNew, FewerOf, wireVars
<1>6. \A id \in BrokerIds : Way(id)' /\ (id \in Counted => id \in Counted')
  BY <1>4, <1>5, NothingNewWay DEF IncomingInv
<1>7. j \notin Counted /\ j \in Counted' /\ Counted \subseteq Counted'
  <2>1. Serving(g, j) /\ Reading(g, j) /\ Way(j)
    BY <1>1, <1>2 DEF Serving, Reading, ReadPoints, IncomingInv
  <2>2. /\ NoneSent(j) /\ NoneReplied(j) /\ j \notin redo
        /\ brokerOut[j] # "free"
    BY <2>1 DEF Way, OneWay, Unserved
  <2>3. NoneOf(toClient, Publishes(j)) /\ NoneOf(toServer, Ends(j))
    BY <2>2 DEF NoneSent, NoneReplied, NoneOf, Publishes, Ends, Requests, Acks
  <2>4. \A h \in Goroutines : ~ Reading(h, j)'
    BY <1>2, <1>3, HandlerAlone DEF Reading, PollHolds
  <2>5. QED
    BY <1>2, <1>3, <1>6, <2>1, <2>2, <2>3, <2>4 DEF Counted, wireVars
<1>8. /\ Cardinality(Counted) \in Nat /\ Cardinality(Counted') \in Nat
      /\ Cardinality(Counted) + 1 <= Cardinality(Counted')
  <2>1. /\ IsFiniteSet(Counted) /\ Cardinality(Counted) \in Nat
        /\ IsFiniteSet(Counted') /\ Cardinality(Counted') \in Nat
    BY IdsFinite DEF Counted
  <2>2. Cardinality(Counted \cup {j}) = Cardinality(Counted) + 1
    BY <1>7, <2>1, FS_AddElement
  <2>3. Counted \cup {j} \subseteq Counted'
    BY <1>7
  <2>4. QED
    BY <2>1, <2>2, <2>3, FS_Subset
<1>9. \A h \in Goroutines : pc'[h] \in {"poll_ack", "poll_credit"} =>
        h = g /\ pc'[g] = "poll_ack"
  BY <1>2, <1>3, HandlerAlone DEF PollHolds
<1>10. AtPoint("poll_credit")' = {} /\ AtPoint("poll_credit") = {}
  BY <1>2, <1>9, HandlerAlone DEF AtPoint, At, PollHolds
<1>11. RecvInv'
  <2>1. /\ Cardinality(AtPoint("poll_credit")) = 0
        /\ Cardinality(AtPoint("poll_credit")') = 0
    BY <1>10, FS_EmptySet
  <2>2. /\ receiveQuota' \in Nat /\ receiveQuota' <= receiveQuota
        /\ pc'[g] = "poll_ack" => receiveQuota' < receiveQuota
        /\ receiveQuota <= receiveQuota' + 1
    BY <1>3, ReceiveTyped, QuotaExact
  <2>3. /\ clientReceiveMaximum <= receiveQuota + Cardinality(Counted) + 0
        /\ receiveQuota <= clientReceiveMaximum
        /\ clientReceiveMaximum' = clientReceiveMaximum
    BY <1>3, <2>1 DEF IncomingInv, RecvInv
  <2>4. clientReceiveMaximum' <= receiveQuota' + Cardinality(Counted') + 0
    BY <1>8, <2>2, <2>3, ReceiveTyped
  <2>5. /\ receiveQuota' <= clientReceiveMaximum'
        /\ pc'[g] = "poll_ack" => receiveQuota' < clientReceiveMaximum'
    BY <2>2, <2>3, ReceiveTyped
  <2>6. QED
    BY <1>3, <1>9, <2>1, <2>4, <2>5, DeliverySame DEF IncomingInv, RecvInv
<1>12. QED
  BY <1>4, <1>6, <1>11 DEF IncomingInv

(* Poll writes an acknowledgement and leaves the handshake to the broker. *)
LEMMA AckWritten ==
  ASSUME TypeOK, LockInv, IncomingInv, NEW g \in Goroutines,
         pc[g] \in ReadPoints, pc'[g] \notin ReadPoints,
         \A h \in Goroutines \ {g} : arg'[h] = arg[h] /\ pc'[h] = pc[h],
         NEW a \in Packets, NEW j \in BrokerIds, j = arg[g].id, a \in Acks(j),
         toServer' = Append(toServer, a),
         UNCHANGED <<toClient, redo, brokerOut>>, Starting' => Starting
  PROVE  /\ \A id \in BrokerIds : Way(id)'
         /\ Counted \ {j} \subseteq Counted'
         /\ a \notin Ends(j) => Counted \subseteq Counted'
<1>1. \A h \in Goroutines : pc'[h] \notin ReadPoints
  BY HandlerAlone DEF ReadPoints, PollHolds
<1>2. \A id \in BrokerIds \ {j} : a \notin Acks(id) /\ a \notin Ends(id)
  BY DEF Acks, Ends
<1>3. NothingNew(BrokerIds \ {j})
  <2>1. \A id \in BrokerIds \ {j} :
          /\ FewerOf(toServer, toServer', Acks(id))
          /\ FewerOf(toServer, toServer', Ends(id))
    BY <1>2, WireTyped, QueueFewer
  <2>2. \A h \in Goroutines, id \in BrokerIds : ~ Serving(h, id)' /\ ~ Reading(h, id)'
    BY <1>1 DEF Serving, Reading, ReadPoints
  <2>3. QED
    BY <2>1, <2>2 DEF NothingNew, FewerOf
<1>4. Way(j) /\ ~ Unserved(j)
  BY DEF IncomingInv, Unserved, Serving
<1>5. /\ NoneSent(j) /\ NoneReplied(j) /\ j \notin redo
      /\ brokerOut[j] # "free" /\ ~ Starting
  BY <1>4 DEF Way, OneWay
<1>6. Way(j)'
  <2>1. OneOf(toServer', Acks(j))
    BY <1>5, WireTyped, QueueAppend DEF NoneReplied
  <2>2. Unserved(j)' /\ NoneSent(j)'
    BY <1>1, <1>5 DEF Unserved, Serving, NoneSent
  <2>3. QED
    BY <1>4, <1>5, <2>1, <2>2 DEF Way, OneWay, NoneSent
<1>7. /\ \A id \in BrokerIds : Way(id)'
      /\ \A id \in BrokerIds \ {j} : id \in Counted => id \in Counted'
  BY <1>3, <1>6, OneIncoming DEF IncomingInv
<1>8. a \notin Ends(j) /\ j \in Counted => j \in Counted'
  <2>1. \A h \in Goroutines : ~ Reading(h, j)'
    BY <1>1 DEF Reading, ReadPoints
  <2>2. QED
    BY <2>1, WireTyped, QueueAppend DEF Counted
<1>9. \A id \in Counted : id \in BrokerIds
  BY DEF Counted
<1>10. \A id \in Counted : id # j => id \in Counted'
  BY <1>7, <1>9
<1>11. Counted \ {j} \subseteq Counted'
  BY <1>10, Zenon
<1>12. a \notin Ends(j) => Counted \subseteq Counted'
  <2>1. SUFFICES ASSUME a \notin Ends(j), NEW id \in Counted
                 PROVE  id \in Counted'
    BY Zenon
  <2>2. QED
    BY <1>8, <1>10, <2>1
<1>13. QED
  BY <1>7, <1>11, <1>12

LEMMA CountedLess ==
  ASSUME ConformingBroker, NEW j, Counted \ {j} \subseteq Counted'
  PROVE  /\ Cardinality(Counted) \in Nat /\ Cardinality(Counted') \in Nat
         /\ Cardinality(Counted) <= Cardinality(Counted') + 1
<1>1. /\ IsFiniteSet(Counted) /\ Cardinality(Counted) \in Nat
      /\ IsFiniteSet(Counted') /\ Cardinality(Counted') \in Nat
  BY IdsFinite DEF Counted
<1>2. /\ Cardinality(Counted) <= Cardinality(Counted \ {j}) + 1
      /\ Cardinality(Counted \ {j}) \in Nat
  <2>1. Counted \ {j} \subseteq BrokerIds
    BY DEF Counted
  <2>2. Cardinality(Counted \ {j}) \in Nat
    BY <2>1, IdsFinite
  <2>3. CASE j \in Counted
    <3>1. Cardinality(Counted \ {j}) = Cardinality(Counted) - 1
      BY <1>1, <2>3, FS_RemoveElement
    <3>2. QED
      BY <1>1, <2>2, <3>1
  <2>4. CASE j \notin Counted
    <3>1. Counted \ {j} = Counted
      BY <2>4
    <3>2. QED
      BY <1>1, <3>1
  <2>5. QED
    BY <2>3, <2>4
<1>3. Cardinality(Counted \ {j}) <= Cardinality(Counted')
  BY <1>1, FS_Subset
<1>4. QED
  BY <1>1, <1>2, <1>3

LEMMA PollAckIncoming ==
  ASSUME TypeOK, LockInv, ConformingBroker, IncomingInv, NEW g \in Goroutines,
         PollAck(g), UNCHANGED brokerVars
  PROVE  IncomingInv'
<1>1. PICK j : j = arg[g].id
  OBVIOUS
<1>2. /\ pc[g] = "poll_ack" /\ j \in BrokerIds
      /\ receiveQuota < clientReceiveMaximum
  <2>1. pc[g] = "poll_ack"
    BY DEF PollAck, At
  <2>2. QED
    BY <1>1, <2>1 DEF IncomingInv, IncomingArgs, ReadPoints, RecvInv
<1>3. /\ UNCHANGED <<toClient, isConnected, recvVars, redo, brokerOut>>
      /\ \A h \in Goroutines \ {g} : arg'[h] = arg[h] /\ pc'[h] = pc[h]
      /\ \/ toServer' = toServer /\ pc'[g] = "idle"
         \/ /\ toServer' = Append(toServer, Packet("PUBACK", j))
            /\ pc'[g] = "poll_credit" /\ arg'[g] = arg[g]
         \/ /\ toServer' = Append(toServer, Packet("PUBREC", j))
            /\ pc'[g] = "poll_route" /\ arg'[g] = arg[g]
  BY <1>1, <1>2, CallTyped DEF PollAck, PollReturn, Done, Goto, Write, linkVars,
     brokerVars
<1>4. StartInv' /\ IncomingArgs' /\ (Starting' => Starting)
  BY <1>2, <1>3, HandlesStart, MovesArgs DEF Handles, IncomingInv
<1>5. \A h \in Goroutines \ {g} : pc'[h] \notin {"poll_ack", "poll_credit"}
  BY <1>2, <1>3, HandlerAlone DEF PollHolds
<1>6. AtPoint("poll_credit") = {}
  BY <1>2, HandlerAlone DEF AtPoint, At, PollHolds
<1>7. \A t \in {"PUBACK", "PUBREC"} :
        /\ Packet(t, j) \in Packets /\ Packet(t, j) \in Acks(j)
        /\ Packet("PUBREC", j) \notin Ends(j)
  <2>1. \A t \in {"PUBACK", "PUBREC"} : Packet(t, j) \in Packets
    BY <1>2, PacketTyped DEF PacketTypes, Ids
  <2>2. QED
    BY <2>1 DEF Acks, Ends, Packet
<1>8. CASE toServer' = toServer /\ pc'[g] = "idle"
  <2>1. \A h \in Goroutines, id \in BrokerIds :
          /\ Serving(h, id)' => Serving(h, id)
          /\ Reading(h, id)' => Reading(h, id)
    BY <1>3, <1>8 DEF Serving, Reading, ReadPoints
  <2>2. NothingNew(BrokerIds)
    BY <1>3, <1>8, <2>1 DEF NothingNew, FewerOf
  <2>3. \A id \in BrokerIds : Way(id)' /\ (id \in Counted => id \in Counted')
    BY <1>4, <2>2, NothingNewWay DEF IncomingInv
  <2>4. RecvCalm
    BY <1>2, <1>3, <1>8, <2>3, DeliverySame
       DEF RecvCalm, Counted, IncomingInv, RecvInv
  <2>5. QED
    BY <1>4, <2>3, <2>4, RecvCalmInv DEF IncomingInv
<1>9. CASE /\ toServer' = Append(toServer, Packet("PUBREC", j))
           /\ pc'[g] = "poll_route"
  <2>1. (\A id \in BrokerIds : Way(id)') /\ Counted \subseteq Counted'
    BY <1>1, <1>2, <1>3, <1>4, <1>7, <1>9, AckWritten DEF ReadPoints
  <2>2. RecvCalm
    BY <1>2, <1>3, <1>9, <2>1, DeliverySame
       DEF RecvCalm, IncomingInv, RecvInv
  <2>3. QED
    BY <1>4, <2>1, <2>2, RecvCalmInv DEF IncomingInv
<1>10. CASE /\ toServer' = Append(toServer, Packet("PUBACK", j))
            /\ pc'[g] = "poll_credit"
  <2>1. (\A id \in BrokerIds : Way(id)') /\ Counted \ {j} \subseteq Counted'
    BY <1>1, <1>2, <1>3, <1>4, <1>7, <1>10, AckWritten DEF ReadPoints
  <2>2. AtPoint("poll_credit")' = {g}
    BY <1>5, <1>10 DEF AtPoint, At
  <2>3. /\ Cardinality(AtPoint("poll_credit")) = 0
        /\ Cardinality(AtPoint("poll_credit")') = 1
    <3>1. Cardinality({}) = 0 /\ Cardinality({g}) = 1
      BY FS_EmptySet, FS_Singleton, Zenon
    <3>2. QED
      BY <1>6, <2>2, <3>1
  <2>4. /\ UNCHANGED <<receiveQuota, clientReceiveMaximum>>
        /\ clientReceiveMaximum <= receiveQuota + Cardinality(Counted) + 0
    BY <1>3, <2>3 DEF IncomingInv, RecvInv, recvVars
  <2>5. clientReceiveMaximum' <= receiveQuota' + Cardinality(Counted') + 1
    BY <2>1, <2>4, CountedLess, ReceiveTyped
  <2>6. RecvInv'
    BY <1>2, <1>3, <2>3, <2>4, <2>5, DeliverySame DEF IncomingInv, RecvInv
  <2>7. QED
    BY <1>4, <2>1, <2>6 DEF IncomingInv
<1>11. QED
  BY <1>3, <1>8, <1>9, <1>10

(* c.receiveQuota++ does not wrap and does not pass the maximum. *)
LEMMA PollCreditIncoming ==
  ASSUME TypeOK, LockInv, ConformingBroker, IncomingInv, NEW g \in Goroutines,
         PollCredit(g), UNCHANGED brokerVars
  PROVE  IncomingInv'
<1>1. /\ pc[g] = "poll_credit" /\ pc' = [pc EXCEPT ![g] = "poll_route"]
      /\ receiveQuota' = Inc(receiveQuota)
      /\ UNCHANGED <<arg, wireVars, isConnected, clientReceiveMaximum>>
      /\ UNCHANGED <<redo, brokerOut>>
  BY DEF PollCredit, At, Goto, linkVars, brokerVars
<1>2. pc'[g] = "poll_route" /\ \A h \in Goroutines \ {g} : pc'[h] = pc[h]
  BY <1>1, CallTyped
<1>3. StartInv' /\ IncomingArgs' /\ (Starting' => Starting)
  BY <1>1, <1>2, HandlesStart, MovesArgs DEF Handles, IncomingInv, wireVars
<1>4. NothingNew(BrokerIds)
  <2>1. \A h \in Goroutines, id \in BrokerIds :
          /\ Serving(h, id)' => Serving(h, id)
          /\ Reading(h, id)' => Reading(h, id)
    BY <1>1, <1>2 DEF Serving, Reading, ReadPoints
  <2>2. QED
    BY <1>1, <2>1 DEF NothingNew, FewerOf, wireVars
<1>5. \A id \in BrokerIds : Way(id)' /\ (id \in Counted => id \in Counted')
  BY <1>3, <1>4, NothingNewWay DEF IncomingInv
<1>6. Counted \subseteq Counted'
  BY <1>5 DEF Counted
<1>7. \A h \in Goroutines : pc'[h] \notin {"poll_ack", "poll_credit"}
  BY <1>1, <1>2, HandlerAlone DEF PollHolds
<1>8. AtPoint("poll_credit") = {g} /\ AtPoint("poll_credit")' = {}
  <2>1. AtPoint("poll_credit") = {g}
    BY <1>1, HandlerAlone DEF AtPoint, At, PollHolds
  <2>2. QED
    BY <1>7, <2>1 DEF AtPoint, At
<1>9. /\ Cardinality(AtPoint("poll_credit")) = 1
      /\ Cardinality(AtPoint("poll_credit")') = 0
  <2>1. Cardinality({}) = 0 /\ Cardinality({g}) = 1
    BY FS_EmptySet, FS_Singleton, Zenon
  <2>2. QED
    BY <1>8, <2>1
<1>10. receiveQuota' = receiveQuota + 1 /\ receiveQuota' <= clientReceiveMaximum'
  <2>1. receiveQuota < clientReceiveMaximum
    BY <1>1 DEF IncomingInv, RecvInv
  <2>2. receiveQuota + 1 < QuotaModulus
    BY <2>1, ReceiveTyped, ConstantsAssumption
  <2>3. QED
    BY <1>1, <2>1, <2>2, ReceiveTyped, QuotaExact
<1>11. clientReceiveMaximum' <= receiveQuota' + Cardinality(Counted') + 0
  <2>1. clientReceiveMaximum <= receiveQuota + Cardinality(Counted) + 1
    BY <1>9 DEF IncomingInv, RecvInv
  <2>2. QED
    BY <1>1, <1>6, <1>10, <2>1, CountedFinite, ReceiveTyped
<1>12. RecvInv'
  BY <1>1, <1>7, <1>9, <1>10, <1>11, DeliverySame DEF IncomingInv, RecvInv
<1>13. QED
  BY <1>3, <1>5, <1>12 DEF IncomingInv

LEMMA PollReleaseIncoming ==
  ASSUME TypeOK, LockInv, ConformingBroker, IncomingInv, NEW g \in Goroutines,
         PollRelease(g), UNCHANGED brokerVars
  PROVE  IncomingInv'
<1>1. PICK j : j = arg[g].id
  OBVIOUS
<1>2. pc[g] = "poll_release" /\ j \in BrokerIds
  <2>1. pc[g] = "poll_release"
    BY DEF PollRelease, At
  <2>2. QED
    BY <1>1, <2>1 DEF IncomingInv, IncomingArgs, ReadPoints
<1>3. /\ UNCHANGED <<toClient, isConnected, clientReceiveMaximum, redo>>
      /\ UNCHANGED brokerOut
      /\ pc'[g] \in {"idle", "poll_fanout"}
      /\ \A h \in Goroutines \ {g} : arg'[h] = arg[h] /\ pc'[h] = pc[h]
      /\ \/ UNCHANGED <<toServer, receiveQuota>>
         \/ /\ toServer' = Append(toServer, Packet("PUBCOMP", j))
            /\ receiveQuota' = IF receiveQuota < clientReceiveMaximum
                               THEN receiveQuota + 1 ELSE receiveQuota
  BY <1>1, <1>2, CallTyped DEF PollRelease, PollReturn, Done, Goto, Write,
     linkVars, brokerVars
<1>4. StartInv' /\ IncomingArgs' /\ (Starting' => Starting)
  BY <1>2, <1>3, HandlesStart, MovesArgs DEF Handles, IncomingInv
<1>5. \A h \in Goroutines : pc'[h] \notin {"poll_ack", "poll_credit"}
  BY <1>2, <1>3, HandlerAlone DEF PollHolds
<1>6. AtPoint("poll_credit") = {} /\ AtPoint("poll_credit")' = {}
  BY <1>2, <1>5, HandlerAlone DEF AtPoint, At, PollHolds
<1>7. CASE UNCHANGED <<toServer, receiveQuota>>
  <2>1. \A h \in Goroutines, id \in BrokerIds :
          /\ Serving(h, id)' => Serving(h, id)
          /\ Reading(h, id)' => Reading(h, id)
    BY <1>3 DEF Serving, Reading, ReadPoints
  <2>2. NothingNew(BrokerIds)
    BY <1>3, <1>7, <2>1 DEF NothingNew, FewerOf
  <2>3. \A id \in BrokerIds : Way(id)' /\ (id \in Counted => id \in Counted')
    BY <1>4, <2>2, NothingNewWay DEF IncomingInv
  <2>4. RecvCalm
    BY <1>2, <1>3, <1>7, <2>3, DeliverySame
       DEF RecvCalm, Counted, IncomingInv, RecvInv, recvVars
  <2>5. QED
    BY <1>4, <2>3, <2>4, RecvCalmInv DEF IncomingInv
<1>8. CASE /\ toServer' = Append(toServer, Packet("PUBCOMP", j))
           /\ receiveQuota' = IF receiveQuota < clientReceiveMaximum
                              THEN receiveQuota + 1 ELSE receiveQuota
  <2>1. Packet("PUBCOMP", j) \in Packets /\ Packet("PUBCOMP", j) \in Acks(j)
    <3>1. Packet("PUBCOMP", j) \in Packets
      BY <1>2, PacketTyped DEF PacketTypes, Ids
    <3>2. QED
      BY <3>1 DEF Acks, Packet
  <2>2. (\A id \in BrokerIds : Way(id)') /\ Counted \ {j} \subseteq Counted'
    BY <1>1, <1>2, <1>3, <1>4, <1>8, <2>1, AckWritten DEF ReadPoints
  <2>3. /\ Cardinality(AtPoint("poll_credit")) = 0
        /\ Cardinality(AtPoint("poll_credit")') = 0
    BY <1>6, FS_EmptySet
  <2>4. /\ clientReceiveMaximum <= receiveQuota + Cardinality(Counted) + 0
        /\ receiveQuota <= clientReceiveMaximum
    BY <2>3 DEF IncomingInv, RecvInv
  <2>5. /\ clientReceiveMaximum' <= receiveQuota' + Cardinality(Counted') + 0
        /\ receiveQuota' <= clientReceiveMaximum'
    <3>1. /\ Cardinality(Counted) \in Nat /\ Cardinality(Counted') \in Nat
          /\ Cardinality(Counted) <= Cardinality(Counted') + 1
      BY <2>2, CountedLess
    <3>2. /\ receiveQuota \in Nat /\ clientReceiveMaximum \in Nat
          /\ clientReceiveMaximum' = clientReceiveMaximum
      BY <1>3, ReceiveTyped
    <3>3. CASE receiveQuota < clientReceiveMaximum
      BY <1>8, <2>4, <3>1, <3>2, <3>3
    <3>4. CASE ~ (receiveQuota < clientReceiveMaximum)
      BY <1>8, <2>4, <3>1, <3>2, <3>4
    <3>5. QED
      BY <3>3, <3>4
  <2>6. RecvInv'
    BY <1>3, <1>5, <2>3, <2>5, DeliverySame DEF IncomingInv, RecvInv
  <2>7. QED
    BY <1>4, <2>2, <2>6 DEF IncomingInv
<1>9. QED
  BY <1>3, <1>7, <1>8

-----------------------------------------------------------------------------
(* The broker *)

(* Acknowledgements of messages the broker has not sent *)
Strays == {p \in Packets : /\ p.type \in {"PUBACK", "PUBREC", "PUBCOMP"}
                           /\ p.id \notin BrokerIds}

LEMMA BrokerArgs ==
  ASSUME TypeOK, ConformingBroker, IncomingArgs, NoneOf(toServer, Strays),
         BrokerStep
  PROVE  IncomingArgs'
<1>1. redo \subseteq BrokerIds
  BY DEF TypeOK, BrokerType
<1>2. TakePubrec => Head(toServer).id \in BrokerIds
  <2>1. SUFFICES ASSUME TakePubrec PROVE Head(toServer).id \in BrokerIds
    OBVIOUS
  <2>2. toServer # <<>> /\ Head(toServer).type = "PUBREC"
    BY <2>1 DEF TakePubrec, Takes
  <2>3. Head(toServer) \in Packets /\ Head(toServer) \notin Strays
    BY <2>2, WireTyped, QueueTail
  <2>4. QED
    BY <2>2, <2>3 DEF Strays
<1>3. ASSUME NEW p \in Packets, Says(p)
      PROVE  p \notin Odd
  <2>1. CASE p.type = "PUBLISH"
    BY <1>1, <1>3, <2>1 DEF Says, Odd, ConformingBroker, Packet
  <2>2. CASE p.type = "PUBREL"
    BY <1>1, <1>2, <1>3, <2>2 DEF Says, Odd, ConformingBroker, Packet
  <2>3. QED
    BY <2>1, <2>2 DEF Odd
<1>4. NoneOf(toClient', Odd)
  BY <1>3, BrokerSays, WireTyped, QueueAppend DEF IncomingArgs
<1>5. QED
  BY <1>4, BrokerTakesOne DEF IncomingArgs, callVars

(* What the broker takes or sends apart from its own messages *)
LEMMA BrokerQuiet ==
  ASSUME TypeOK, ConformingBroker, BrokerStep,
         ~ (TakeConnect /\ ~ session), ~ TakePuback, ~ TakePubrec,
         ~ TakePubcomp, ~ BrokerPublish, ~ BrokerResend
  PROVE  NothingNew(BrokerIds) /\ UNCHANGED brokerOut
<1>1. UNCHANGED <<redo, brokerOut>>
  BY DEF BrokerStep, BrokerTakes, TakeConnect, TakePublish, TakePubrel,
     TakePingreq, TakeDisconnect, TakeSubscribe, TakeUnsubscribe,
     BrokerUnprompted
<1>2. ASSUME NEW p \in Packets, Says(p)
      PROVE  p.type \notin {"PUBLISH", "PUBREL"}
  BY <1>2 DEF Says, ConformingBroker, Packet
<1>3. \A id \in BrokerIds : /\ FewerOf(toClient, toClient', Requests(id))
                            /\ FewerOf(toClient, toClient', Publishes(id))
  <2>1. \A id \in BrokerIds, p \in Packets :
          Says(p) => p \notin Requests(id) /\ p \notin Publishes(id)
    BY <1>2 DEF Requests, Publishes
  <2>2. QED
    BY <2>1, BrokerSays, WireTyped, QueueFewer
<1>4. \A id \in BrokerIds : /\ FewerOf(toServer, toServer', Acks(id))
                            /\ FewerOf(toServer, toServer', Ends(id))
  BY BrokerTakesOne, WireTyped, QueueFewer
<1>5. UNCHANGED <<pc, arg>>
  BY BrokerTakesOne DEF callVars
<1>6. QED
  BY <1>1, <1>3, <1>4, <1>5 DEF NothingNew, Serving, Reading

LEMMA LimitTyped == BrokerLimit \in Nat
BY ConstantsAssumption DEF BrokerLimit

Accounted ==
  /\ \A id \in BrokerIds : Way(id)'
  /\ Counted \subseteq Counted'
  /\ Cardinality(InDelivery') <= BrokerLimit

(* PUBACK and PUBCOMP end the handshake. *)
LEMMA BrokerEnds ==
  ASSUME TypeOK, ConformingBroker, IncomingInv, NoneOf(toServer, Strays),
         BrokerStep, Starting' => Starting, TakePuback \/ TakePubcomp
  PROVE  Accounted
<1>1. PICK p : p = Head(toServer)
  OBVIOUS
<1>2. PICK j : j = p.id
  OBVIOUS
<1>3. /\ toServer # <<>> /\ p.type \in {"PUBACK", "PUBCOMP"}
      /\ toServer' = Tail(toServer) /\ toClient' = toClient
      /\ brokerOut' = [brokerOut EXCEPT ![j] = "free"]
      /\ redo' = redo \ {j} /\ UNCHANGED <<pc, arg>>
  BY <1>1, <1>2 DEF TakePuback, TakePubcomp, Takes, clientOnly, callVars
<1>4. p \in Packets /\ p \in Acks(j) /\ p \in Ends(j) /\ j \in BrokerIds
  <2>1. p \in Packets /\ p \notin Strays
    BY <1>1, <1>3, WireTyped, QueueTail
  <2>2. QED
    BY <1>2, <1>3, <2>1 DEF Acks, Ends, Strays
<1>5. /\ \A id \in BrokerIds \ {j} : brokerOut'[id] = brokerOut[id]
      /\ brokerOut'[j] = "free"
  BY <1>3, <1>4 DEF TypeOK, BrokerType
<1>6. NothingNew(BrokerIds \ {j})
  <2>1. \A id \in BrokerIds :
          /\ FewerOf(toClient, toClient', Requests(id))
          /\ FewerOf(toClient, toClient', Publishes(id))
          /\ FewerOf(toServer, toServer', Acks(id))
          /\ FewerOf(toServer, toServer', Ends(id))
    BY <1>3, WireTyped, QueueFewer
  <2>2. QED
    BY <1>3, <1>5, <2>1 DEF NothingNew, Serving, Reading
<1>7. Way(j) /\ ~ NoneReplied(j)
  BY <1>1, <1>3, <1>4, WireTyped, QueueTail DEF IncomingInv, NoneReplied
<1>8. NoneSent(j) /\ Unserved(j) /\ OneOf(toServer, Acks(j)) /\ j \notin redo
  BY <1>7 DEF Way, OneWay
<1>9. NoneReplied(j)' /\ OneOf(toServer', Acks(j))
  BY <1>1, <1>3, <1>4, <1>8, WireTyped, QueueTail DEF NoneReplied
<1>10. NoneSent(j)' /\ Unserved(j)' /\ OneOf(toClient', Requests(j))
  BY <1>3, <1>7, <1>8 DEF NoneSent, Unserved, Serving, Way, OneWay
<1>11. Way(j)'
  BY <1>3, <1>8, <1>9, <1>10 DEF Way, OneWay
<1>12. /\ \A id \in BrokerIds : Way(id)'
       /\ \A id \in BrokerIds \ {j} : id \in Counted => id \in Counted'
  BY <1>6, <1>11, OneIncoming DEF IncomingInv
<1>13. j \notin Counted
  BY <1>1, <1>3, <1>4, WireTyped, QueueTail DEF Counted
<1>14. Counted \subseteq Counted'
  <2>1. \A id \in Counted : id \in BrokerIds
    BY DEF Counted
  <2>2. \A id \in Counted : id \in Counted'
    BY <1>12, <1>13, <2>1
  <2>3. QED
    BY <2>2, Zenon
<1>15. Cardinality(InDelivery') <= BrokerLimit
  <2>1. InDelivery' \subseteq InDelivery /\ InDelivery \subseteq BrokerIds
    BY <1>5 DEF InDelivery
  <2>2. /\ Cardinality(InDelivery') <= Cardinality(InDelivery)
        /\ Cardinality(InDelivery') \in Nat /\ Cardinality(InDelivery) \in Nat
    BY <2>1, IdsFinite, FS_Subset
  <2>3. Cardinality(InDelivery) <= BrokerLimit
    BY DEF IncomingInv, RecvInv
  <2>4. QED
    BY <2>2, <2>3, LimitTyped
<1>16. QED
  BY <1>12, <1>14, <1>15 DEF Accounted

(* A PUBREC is answered with PUBREL. *)
LEMMA BrokerReleases ==
  ASSUME TypeOK, ConformingBroker, IncomingInv, NoneOf(toServer, Strays),
         BrokerStep, Starting' => Starting, TakePubrec
  PROVE  Accounted
<1>1. PICK p : p = Head(toServer)
  OBVIOUS
<1>2. PICK j : j = p.id
  OBVIOUS
<1>3. PICK r : r = Packet("PUBREL", j)
  OBVIOUS
<1>4. /\ toServer # <<>> /\ p.type = "PUBREC"
      /\ toServer' = Tail(toServer)
      /\ toClient' = toClient \/ toClient' = Append(toClient, r)
      /\ brokerOut' = [brokerOut EXCEPT ![j] = "rel"]
      /\ redo' = redo \ {j} /\ UNCHANGED <<pc, arg>>
  BY <1>1, <1>2, <1>3 DEF TakePubrec, Takes, Answer, clientOnly, callVars
<1>5. p \in Packets /\ p \in Acks(j) /\ j \in BrokerIds
  <2>1. p \in Packets /\ p \notin Strays
    BY <1>1, <1>4, WireTyped, QueueTail
  <2>2. QED
    BY <1>2, <1>4, <2>1 DEF Acks, Strays
<1>6. /\ r \in Packets /\ r \notin Publishes(j)
      /\ \A id \in BrokerIds \ {j} : r \notin Requests(id) /\ r \notin Publishes(id)
  <2>1. r \in Packets
    BY <1>3, <1>5, PacketTyped DEF PacketTypes, Ids
  <2>2. r.type = "PUBREL" /\ r.id = j
    BY <1>3 DEF Packet
  <2>3. QED
    BY <2>1, <2>2 DEF Requests, Publishes
<1>7. /\ \A id \in BrokerIds \ {j} : brokerOut'[id] = brokerOut[id]
      /\ brokerOut'[j] = "rel"
  BY <1>4, <1>5 DEF TypeOK, BrokerType
<1>8. NothingNew(BrokerIds \ {j})
  <2>1. \A id \in BrokerIds \ {j} :
          /\ FewerOf(toClient, toClient', Requests(id))
          /\ FewerOf(toClient, toClient', Publishes(id))
    BY <1>4, <1>6, WireTyped, QueueFewer
  <2>2. \A id \in BrokerIds :
          /\ FewerOf(toServer, toServer', Acks(id))
          /\ FewerOf(toServer, toServer', Ends(id))
    BY <1>4, WireTyped, QueueFewer
  <2>3. QED
    BY <1>4, <1>7, <2>1, <2>2 DEF NothingNew, Serving, Reading
<1>9. Way(j) /\ ~ NoneReplied(j)
  BY <1>1, <1>4, <1>5, WireTyped, QueueTail DEF IncomingInv, NoneReplied
<1>10. /\ NoneSent(j) /\ Unserved(j) /\ OneOf(toServer, Acks(j))
       /\ j \notin redo /\ ~ Starting /\ brokerOut[j] # "free"
       /\ OneOf(toClient, Requests(j))
  BY <1>9 DEF Way, OneWay
<1>11. NoneReplied(j)' /\ OneOf(toServer', Acks(j))
  BY <1>1, <1>4, <1>5, <1>10, WireTyped, QueueTail DEF NoneReplied
<1>12. Unserved(j)' /\ OneOf(toClient', Requests(j))
  BY <1>4, <1>6, <1>10, WireTyped, QueueAppend DEF NoneSent, Unserved, Serving
<1>13. Way(j)'
  BY <1>4, <1>7, <1>10, <1>11, <1>12 DEF Way, OneWay
<1>14. /\ \A id \in BrokerIds : Way(id)'
       /\ \A id \in BrokerIds \ {j} : id \in Counted => id \in Counted'
  BY <1>8, <1>13, OneIncoming DEF IncomingInv
<1>15. j \in Counted => j \in Counted'
  <2>1. SUFFICES ASSUME j \in Counted PROVE j \in Counted'
    OBVIOUS
  <2>2. /\ NoneOf(toClient, Publishes(j)) /\ NoneOf(toServer, Ends(j))
        /\ \A g \in Goroutines : ~ Reading(g, j)
    BY <2>1 DEF Counted
  <2>3. NoneOf(toClient', Publishes(j)) /\ NoneOf(toServer', Ends(j))
    BY <1>4, <1>6, <2>2, WireTyped, QueueTail, QueueAppend
  <2>4. QED
    BY <1>4, <1>5, <1>7, <2>2, <2>3 DEF Counted, Reading
<1>16. Counted \subseteq Counted'
  <2>1. \A id \in Counted : id \in BrokerIds
    BY DEF Counted
  <2>2. \A id \in Counted : id \in Counted'
    BY <1>14, <1>15, <2>1
  <2>3. QED
    BY <2>2, Zenon
<1>17. InDelivery' = InDelivery
  BY <1>5, <1>7, <1>10 DEF InDelivery
<1>18. QED
  BY <1>14, <1>16, <1>17 DEF Accounted, IncomingInv, RecvInv

(* A new message, or one that is sent again after a reconnect *)
LEMMA BrokerDelivers ==
  ASSUME TypeOK, ConformingBroker, IncomingInv, Starting' => Starting,
         NEW j \in BrokerIds, NEW p \in Packets, p.id = j, session',
         toClient' = Append(toClient, p), UNCHANGED <<toServer, pc, arg>>,
         \A id \in BrokerIds \ {j} : brokerOut'[id] = brokerOut[id],
         brokerOut'[j] # "free", redo' \subseteq redo, j \notin redo',
         brokerOut[j] = "free" \/ j \in redo
  PROVE  (\A id \in BrokerIds : Way(id)') /\ Counted \subseteq Counted'
<1>1. Way(j) /\ NoneSent(j) /\ NoneReplied(j) /\ Unserved(j)
  BY DEF IncomingInv, Way, OneWay
<1>2. OneOf(toClient', Requests(j))
  BY <1>1, WireTyped, QueueAppend DEF NoneSent
<1>3. /\ NoneReplied(j)' /\ Unserved(j)' /\ OneOf(toServer', Acks(j))
      /\ ~ Starting'
  BY <1>1 DEF NoneReplied, Unserved, Serving, Starting, Way, OneWay
<1>4. Way(j)'
  BY <1>2, <1>3 DEF Way, OneWay
<1>5. NothingNew(BrokerIds \ {j})
  <2>1. \A id \in BrokerIds \ {j} : p \notin Requests(id) /\ p \notin Publishes(id)
    BY DEF Requests, Publishes
  <2>2. \A id \in BrokerIds \ {j} :
          /\ FewerOf(toClient, toClient', Requests(id))
          /\ FewerOf(toClient, toClient', Publishes(id))
          /\ FewerOf(toServer, toServer', Acks(id))
          /\ FewerOf(toServer, toServer', Ends(id))
    BY <2>1, WireTyped, QueueFewer
  <2>3. QED
    BY <2>2 DEF NothingNew, Serving, Reading
<1>6. /\ \A id \in BrokerIds : Way(id)'
      /\ \A id \in BrokerIds \ {j} : id \in Counted => id \in Counted'
  BY <1>4, <1>5, OneIncoming DEF IncomingInv
<1>7. j \notin Counted /\ \A id \in Counted : id \in BrokerIds
  BY DEF Counted
<1>8. \A id \in Counted : id \in Counted'
  BY <1>6, <1>7
<1>9. Counted \subseteq Counted'
  BY <1>8, Zenon
<1>10. QED
  BY <1>6, <1>9

LEMMA BrokerPublishIncoming ==
  ASSUME TypeOK, ConformingBroker, IncomingInv, Starting' => Starting,
         BrokerPublish
  PROVE  Accounted
<1>1. PICK q \in BrokerQoS, fs \in SUBSET Filters :
        \/ q = 0 /\ Sends(About(Publish(0, 0), fs))
        \/ /\ q > 0 /\ Cardinality(InDelivery) < BrokerLimit /\ redo = {}
           /\ \E id \in BrokerIds :
                /\ brokerOut[id] = "free" /\ Sends(About(Publish(id, q), fs))
                /\ brokerOut' = [brokerOut EXCEPT
                                   ![id] = IF q = 1 THEN "pub1" ELSE "pub2"]
  BY DEF BrokerPublish
<1>2. q \in 0..2 /\ q # 0
  BY BrokerAssumption DEF ConformingBroker
<1>3. PICK j \in BrokerIds :
        /\ brokerOut[j] = "free" /\ Sends(About(Publish(j, q), fs))
        /\ brokerOut' = [brokerOut EXCEPT
                           ![j] = IF q = 1 THEN "pub1" ELSE "pub2"]
  BY <1>1, <1>2
<1>4. PICK p : p = About(Publish(j, q), fs)
  OBVIOUS
<1>5. p \in Packets /\ p.id = j
  <2>1. p \in Packets
    BY <1>2, <1>4, PacketTyped, AboutTyped DEF Ids
  <2>2. QED
    BY <1>4, <2>1 DEF About, Publish, Packet
<1>6. /\ \A id \in BrokerIds \ {j} : brokerOut'[id] = brokerOut[id]
      /\ brokerOut'[j] # "free"
  BY <1>3 DEF TypeOK, BrokerType
<1>7. /\ toClient' = Append(toClient, p) /\ UNCHANGED <<toServer, pc, arg>>
      /\ session' /\ redo' = redo /\ redo = {}
      /\ Cardinality(InDelivery) < BrokerLimit
  BY <1>1, <1>2, <1>3, <1>4 DEF BrokerPublish, Sends, clientOnly, callVars
<1>8. (\A id \in BrokerIds : Way(id)') /\ Counted \subseteq Counted'
  BY <1>3, <1>5, <1>6, <1>7, BrokerDelivers
<1>9. Cardinality(InDelivery') <= BrokerLimit
  <2>1. InDelivery' = InDelivery \cup {j} /\ InDelivery \subseteq BrokerIds
        /\ j \notin InDelivery
    BY <1>3, <1>6 DEF InDelivery
  <2>2. IsFiniteSet(InDelivery) /\ Cardinality(InDelivery) \in Nat
    BY <2>1, IdsFinite
  <2>3. Cardinality(InDelivery') = Cardinality(InDelivery) + 1
    BY <2>1, <2>2, FS_AddElement
  <2>4. QED
    BY <1>7, <2>2, <2>3, LimitTyped
<1>10. QED
  BY <1>8, <1>9 DEF Accounted

LEMMA BrokerResendIncoming ==
  ASSUME TypeOK, ConformingBroker, IncomingInv, Starting' => Starting,
         BrokerResend
  PROVE  Accounted
<1>1. PICK j \in redo, fs \in SUBSET Filters :
        /\ redo' = redo \ {j}
        /\ Sends(CASE brokerOut[j] = "pub1" -> About(Publish(j, 1), fs)
                   [] brokerOut[j] = "pub2" -> About(Publish(j, 2), fs)
                   [] OTHER -> Packet("PUBREL", j))
  BY DEF BrokerResend
<1>2. j \in BrokerIds
  BY DEF TypeOK, BrokerType
<1>3. PICK p : /\ p \in {About(Publish(j, 1), fs), About(Publish(j, 2), fs),
                         Packet("PUBREL", j)}
               /\ Sends(p)
  BY <1>1
<1>4. p \in Packets /\ p.id = j
  <2>1. p \in Packets
    <3>1. j \in Ids /\ 1 \in 0..2 /\ 2 \in 0..2 /\ "PUBREL" \in PacketTypes
      BY <1>2 DEF Ids, PacketTypes
    <3>2. Packet("PUBREL", j) \in Packets
      BY <3>1, PacketTyped
    <3>3. Publish(j, 1) \in Packets /\ Publish(j, 2) \in Packets
      BY <3>1, PacketTyped
    <3>4. QED
      BY <1>3, <3>2, <3>3, AboutTyped
  <2>2. /\ \A q \in 1..2 : About(Publish(j, q), fs).id = j
        /\ Packet("PUBREL", j).id = j
    BY DEF About, Publish, Packet
  <2>3. QED
    BY <1>3, <2>1, <2>2
<1>5. /\ UNCHANGED <<toServer, pc, arg, brokerOut, session>>
  BY DEF BrokerResend, clientOnly, callVars
<1>6. toClient' = Append(toClient, p) /\ session'
  BY <1>3, <1>5 DEF Sends
<1>7. brokerOut[j] # "free"
  BY <1>2 DEF IncomingInv, Way
<1>8. (\A id \in BrokerIds : Way(id)') /\ Counted \subseteq Counted'
  BY <1>1, <1>2, <1>4, <1>5, <1>6, <1>7, BrokerDelivers
<1>9. QED
  BY <1>5, <1>8, DeliverySame DEF Accounted, IncomingInv, RecvInv

(* A CONNECT is accepted or refused: nothing is on its way yet, and what   *)
(* was in delivery on an earlier connection is to be sent again.           *)
LEMMA BrokerAccepts ==
  ASSUME TypeOK, LockInv, ConformingBroker, IncomingInv, TakeConnect,
         ~ session, IncomingArgs', StartInv'
  PROVE  IncomingInv'
<1>1. /\ toServer # <<>> /\ toServer' = Tail(toServer)
      /\ UNCHANGED <<pc, arg, isConnected, brokerOut>>
      /\ UNCHANGED <<receiveQuota, clientReceiveMaximum>>
  BY DEF TakeConnect, Takes, clientOnly, callVars, linkVars, recvVars
<1>2. Starting
  BY <1>1 DEF Starting
<1>3. /\ toClient' = toClient
         \/ \E p \in Packets : p.type = "CONNACK" /\ toClient' = Append(toClient, p)
      /\ \A id \in BrokerIds : id \in redo' => brokerOut[id] # "free"
  <2>1. \A c \in Codes : LET p == Reply("CONNACK", 0, c)
                         IN p \in Packets /\ p.type = "CONNACK"
    BY PacketTyped DEF Reply, Packet, PacketTypes
  <2>2. QED
    BY <2>1, BrokerAssumption DEF TakeConnect, Answer
<1>4. ASSUME NEW id \in BrokerIds
      PROVE  Way(id)'
  <2>1. Way(id) /\ NoneSent(id) /\ NoneReplied(id) /\ Unserved(id)
    BY <1>2 DEF IncomingInv, Way
  <2>2. FewerOf(toClient, toClient', Requests(id))
    BY <1>3, WireTyped, QueueFewer DEF Requests
  <2>3. FewerOf(toServer, toServer', Acks(id))
    BY <1>1, WireTyped, QueueFewer
  <2>4. NoneSent(id)' /\ NoneReplied(id)' /\ Unserved(id)'
    BY <1>1, <2>1, <2>2, <2>3 DEF NoneSent, NoneReplied, Unserved, Serving,
       FewerOf
  <2>5. OneOf(toClient', Requests(id)) /\ OneOf(toServer', Acks(id))
    BY <2>1, <2>2, <2>3 DEF Way, OneWay, FewerOf
  <2>6. QED
    BY <1>1, <1>3, <2>4, <2>5 DEF Way, OneWay
<1>5. receiveQuota = 0 /\ clientReceiveMaximum = 0
  BY <1>2 DEF IncomingInv, StartInv, Beginning
<1>6. RecvInv'
  <2>1. AtPoint("poll_credit")' = AtPoint("poll_credit")
    BY <1>1 DEF AtPoint, At
  <2>2. Cardinality(AtPoint("poll_credit")') \in Nat
    BY <2>1, CreditsFew
  <2>3. Cardinality(Counted') \in Nat
    BY IdsFinite DEF Counted
  <2>4. clientReceiveMaximum' <= receiveQuota' + Cardinality(Counted')
                                   + Cardinality(AtPoint("poll_credit")')
    BY <1>1, <1>5, <2>2, <2>3
  <2>5. QED
    BY <1>1, <2>4, DeliverySame DEF IncomingInv, RecvInv
<1>7. QED
  BY <1>4, <1>6 DEF IncomingInv

LEMMA BrokerIncoming ==
  ASSUME TypeOK, LockInv, ConformingBroker, IncomingInv,
         NoneOf(toServer, Strays), BrokerStep
  PROVE  IncomingInv'
<1>1. StartInv' /\ IncomingArgs' /\ (Starting' => Starting)
  BY BrokerStart, BrokerArgs DEF IncomingInv, ConformingBroker
<1>2. CASE TakeConnect /\ ~ session
  BY <1>1, <1>2, BrokerAccepts
<1>3. CASE ~ (TakeConnect /\ ~ session)
  <2>1. Accounted
    <3>1. CASE \/ TakePuback \/ TakePubrec \/ TakePubcomp
               \/ BrokerPublish \/ BrokerResend
      BY <1>1, <3>1, BrokerEnds, BrokerReleases, BrokerPublishIncoming,
         BrokerResendIncoming
    <3>2. CASE ~ (\/ TakePuback \/ TakePubrec \/ TakePubcomp
                  \/ BrokerPublish \/ BrokerResend)
      <4>1. NothingNew(BrokerIds) /\ UNCHANGED brokerOut
        BY <1>3, <3>2, BrokerQuiet
      <4>2. \A id \in BrokerIds : Way(id)' /\ (id \in Counted => id \in Counted')
        BY <1>1, <4>1, NothingNewWay DEF IncomingInv
      <4>3. Counted \subseteq Counted'
        BY <4>2 DEF Counted
      <4>4. QED
        BY <4>1, <4>2, <4>3, DeliverySame DEF Accounted, IncomingInv, RecvInv
    <3>3. QED
      BY <3>1, <3>2
  <2>2. RecvCalm
    BY <2>1, BrokerTakesOne DEF Accounted, RecvCalm, callVars, linkVars
  <2>3. QED
    BY <1>1, <2>1, <2>2, RecvCalmInv DEF Accounted, IncomingInv
<1>4. QED
  BY <1>2, <1>3

-----------------------------------------------------------------------------
(* The invariant is inductive. *)

LEMMA GoroutineIncoming ==
  ASSUME TypeOK, LockInv, ConformingBroker, IncomingInv, NEW g \in Goroutines,
         Call(g) \/ Step(g), UNCHANGED brokerVars
  PROVE  IncomingInv'
BY QuietIncoming, PollReadIncoming, PollPublishIncoming, PollAckIncoming,
   PollCreditIncoming, PollReleaseIncoming DEF Handles

LEMMA WorldIncoming ==
  ASSUME TypeOK, LockInv, ConformingBroker, IncomingInv,
         \/ ConnLost \/ PingDeadlinePasses \/ Restart \/ UNCHANGED vars
         \/ (\E c \in Channels : Application(c)) /\ UNCHANGED brokerVars
  PROVE  IncomingInv'
<1>1. StartInv'
  BY WorldStart DEF IncomingInv
<1>2. CASE Restart
  <2>1. IncomingArgs'
    BY <1>2, QueueEmpty DEF Restart, IncomingArgs, ReadPoints, After,
       PublishPoints, Preparations
  <2>2. \A id \in BrokerIds : Way(id)'
    BY <1>2, QueueEmpty DEF Restart, Way, OneWay, NoneSent, NoneReplied,
       Unserved, Serving, ReadPoints
  <2>3. RecvInv'
    <3>1. AtPoint("poll_credit")' = {}
      BY <1>2 DEF Restart, AtPoint, At
    <3>2. Cardinality(AtPoint("poll_credit")') = 0
      BY <3>1, FS_EmptySet
    <3>3. Cardinality(Counted') \in Nat
      BY IdsFinite DEF Counted
    <3>4. /\ receiveQuota' = 0 /\ clientReceiveMaximum' = 0
          /\ ~ isConnected' /\ UNCHANGED brokerOut
          /\ \A g \in Goroutines : pc'[g] = "idle"
      BY <1>2 DEF Restart
    <3>5. QED
      BY <3>2, <3>3, <3>4, DeliverySame DEF RecvInv, IncomingInv
  <2>4. QED
    BY <1>1, <2>1, <2>2, <2>3 DEF IncomingInv
<1>3. CASE ~ Restart
  <2>1. /\ UNCHANGED <<pc, arg, isConnected, recvVars, redo, brokerOut>>
        /\ \/ UNCHANGED <<toClient, toServer, conn, session>>
           \/ toClient' = <<>> /\ toServer' = <<>> /\ conn' = "lost"
    BY <1>3 DEF ConnLost, PingDeadlinePasses, vars, clientVars, clientOnly,
       callVars, linkVars, wireVars, brokerVars, Application,
       CreateEventChannel, CloseEventChannel, CloseEventChannelEnd, ReceiveEvent
  <2>2. IncomingArgs' /\ (Starting' => Starting)
    BY <2>1, QueueEmpty DEF IncomingArgs, IncomingInv, Starting
  <2>3. NothingNew(BrokerIds)
    BY <2>1, QueueEmpty DEF NothingNew, FewerOf, Serving, Reading
  <2>4. \A id \in BrokerIds : Way(id)' /\ (id \in Counted => id \in Counted')
    BY <2>2, <2>3, NothingNewWay DEF IncomingInv
  <2>5. Counted \subseteq Counted'
    BY <2>4 DEF Counted
  <2>6. RecvCalm
    BY <2>1, <2>5, DeliverySame DEF RecvCalm, IncomingInv, RecvInv
  <2>7. QED
    BY <1>1, <2>2, <2>4, <2>6, RecvCalmInv DEF IncomingInv
<1>4. QED
  BY <1>2, <1>3

(* Poll acknowledges what it has received. *)
LEMMA AcksKnown ==
  ASSUME TypeOK, IncomingInv, NoneOf(toServer, Strays), [Next]_vars
  PROVE  NoneOf(toServer', Strays)
<1>1. ASSUME NEW g \in Goroutines, Call(g) \/ Step(g)
      PROVE  NoneOf(toServer', Strays)
  <2>1. /\ pc[g] \in {"poll_ack", "poll_release"} => arg[g].id \in BrokerIds
        /\ pc[g] = "pub_send" => arg[g].type = "PUBLISH"
    BY DEF IncomingInv, IncomingArgs, ReadPoints, PublishPoints, Preparations
  <2>2. \A p \in Packets : Writes(g, p) => p \notin Strays
    BY <2>1 DEF Writes, Strays, Packet
  <2>3. QED
    BY <1>1, <2>2, GoroutineWrites, WireTyped, QueueAppend
<1>2. CASE BrokerStep
  BY <1>2, BrokerTakesOne, WireTyped, QueueTail
<1>3. CASE \/ ConnLost \/ PingDeadlinePasses \/ Restart \/ UNCHANGED vars
           \/ (\E c \in Channels : Application(c)) /\ UNCHANGED brokerVars
  <2>1. toServer' = toServer \/ toServer' = <<>>
    BY <1>3 DEF ConnLost, PingDeadlinePasses, Restart, vars, clientVars,
       wireVars, Application, CreateEventChannel, CloseEventChannel, CloseEventChannelEnd,
       ReceiveEvent
  <2>2. QED
    BY <2>1, QueueEmpty
<1>4. QED
  BY <1>1, <1>2, <1>3 DEF Next

ReceiveInv == IncomingInv /\ NoneOf(toServer, Strays)

LEMMA InitReceive == Init /\ ConformingBroker => ReceiveInv
<1> SUFFICES ASSUME Init, ConformingBroker
             PROVE  ReceiveInv
  OBVIOUS
<1>1. StartInv /\ NoneOf(toServer, Strays)
  BY InitStart, QueueEmpty DEF Init
<1>2. IncomingArgs
  BY QueueEmpty DEF Init, IncomingArgs, ReadPoints, After, PublishPoints,
     Preparations
<1>3. \A id \in BrokerIds : Way(id)
  BY QueueEmpty DEF Init, Way, OneWay, NoneSent, NoneReplied, Unserved,
     Serving, ReadPoints
<1>4. RecvInv
  <2>1. AtPoint("poll_credit") = {} /\ Counted = {} /\ InDelivery = {}
    BY DEF Init, AtPoint, At, Counted, InDelivery
  <2>2. /\ Cardinality(AtPoint("poll_credit")) = 0
        /\ Cardinality(Counted) = 0 /\ Cardinality(InDelivery) = 0
    BY <2>1, FS_EmptySet
  <2>3. /\ receiveQuota = 0 /\ clientReceiveMaximum = 0 /\ ~ isConnected
        /\ \A g \in Goroutines : pc[g] = "idle"
    BY DEF Init
  <2>4. QED
    BY <2>2, <2>3, LimitTyped DEF RecvInv
<1>5. QED
  BY <1>1, <1>2, <1>3, <1>4 DEF ReceiveInv, IncomingInv

LEMMA ReceiveInductive ==
  Spec => []((ConformingBroker => ReceiveInv) /\ TypeOK /\ LockInv)
<1>1. Init => (ConformingBroker => ReceiveInv)
  BY InitReceive
<1>2. ASSUME TypeOK, LockInv, ConformingBroker, ReceiveInv, [Next]_vars
      PROVE  ReceiveInv'
  <2>1. IncomingInv'
    BY <1>2, GoroutineIncoming, BrokerIncoming, WorldIncoming
       DEF ReceiveInv, Next
  <2>2. QED
    BY <1>2, <2>1, AcksKnown DEF ReceiveInv
<1>3. TypeOK /\ LockInv /\ (ConformingBroker => ReceiveInv) /\ [Next]_vars
      => (ConformingBroker => ReceiveInv)'
  BY <1>2 DEF ConformingBroker
<1>4. QED
  BY <1>1, <1>3, Inductive, PTL DEF Spec

-----------------------------------------------------------------------------
(* The theorems on what is received *)

(* The receive quota leaks nothing: Poll reads a message, writes the       *)
(* acknowledgement and credits the quota in sections of its own, one of    *)
(* them with no lock of the quota at all, and the connection may be lost   *)
(* between any two of them; still the quota, with what the broker has in   *)
(* delivery and what is about to be credited, covers the client's Receive  *)
(* Maximum, and never passes it.                                           *)
THEOREM ReceiveQuotaCovered == Spec => [](ConformingBroker => ReceiveQuotaExact)
<1>1. TypeOK /\ LockInv /\ ConformingBroker /\ ReceiveInv => ReceiveQuotaExact
  <2> SUFFICES ASSUME TypeOK, LockInv, ConformingBroker, ReceiveInv
               PROVE  ReceiveQuotaExact
    OBVIOUS
  <2>1. Counted \subseteq InDelivery /\ InDelivery \subseteq BrokerIds
    BY DEF Counted, InDelivery
  <2>2. /\ Cardinality(Counted) <= Cardinality(InDelivery)
        /\ Cardinality(Counted) \in Nat /\ Cardinality(InDelivery) \in Nat
    BY <2>1, IdsFinite, FS_Subset
  <2>3. QED
    BY <2>2, ReceiveTyped, CreditsFew
       DEF ReceiveInv, IncomingInv, RecvInv, ReceiveQuotaExact
<1>2. QED
  BY <1>1, ReceiveInductive, PTL

(* Poll never turns away a message of a broker that keeps to the Receive   *)
(* Maximum that the client announced: when it looks at the quota, the      *)
(* message it has read is one of those in delivery and not counted yet.    *)
THEOREM BrokerNotRejected ==
  Spec => [](ConformingBroker /\ PacketReceiveMaximum # 0
             => ConformingBrokerNotRejected)
<1>1. TypeOK /\ LockInv /\ (ConformingBroker => ReceiveInv)
      => (ConformingBroker /\ PacketReceiveMaximum # 0
          => ConformingBrokerNotRejected)
  <2> SUFFICES ASSUME TypeOK, LockInv, ConformingBroker, ReceiveInv,
                      PacketReceiveMaximum # 0, NEW g \in Goroutines,
                      At(g, "poll_publish")
               PROVE  receiveQuota > 0
    BY DEF ConformingBrokerNotRejected
  <2>1. PICK j : j = arg[g].id
    OBVIOUS
  <2>2. pc[g] = "poll_publish"
    BY DEF At
  <2>3. isConnected /\ j \in BrokerIds
    BY <2>1, <2>2 DEF ReceiveInv, IncomingInv, IncomingArgs, ReadPoints,
       LockInv, PollingConnected, PollHolds
  <2>4. j \notin Counted /\ j \in InDelivery
    <3>1. Serving(g, j) /\ Reading(g, j) /\ Way(j)
      BY <2>1, <2>2, <2>3
         DEF Serving, Reading, ReadPoints, ReceiveInv, IncomingInv
    <3>2. QED
      BY <2>3, <3>1 DEF Way, Unserved, Counted, InDelivery
  <2>5. /\ Counted \cup {j} \subseteq InDelivery
        /\ InDelivery \subseteq BrokerIds
    BY <2>4 DEF Counted, InDelivery
  <2>6. /\ IsFiniteSet(Counted) /\ Cardinality(Counted) \in Nat
        /\ IsFiniteSet(InDelivery) /\ Cardinality(InDelivery) \in Nat
    BY <2>5, IdsFinite
  <2>7. Cardinality(Counted \cup {j}) = Cardinality(Counted) + 1
    BY <2>4, <2>6, FS_AddElement
  <2>8. Cardinality(Counted \cup {j}) <= Cardinality(InDelivery)
    BY <2>5, <2>6, FS_Subset
  <2>9. Cardinality(AtPoint("poll_credit")) = 0
    <3>1. AtPoint("poll_credit") = {}
      BY <2>2, HandlerAlone DEF AtPoint, At, PollHolds
    <3>2. QED
      BY <3>1, FS_EmptySet
  <2>10. /\ clientReceiveMaximum <= receiveQuota + Cardinality(Counted) + 0
         /\ clientReceiveMaximum = PacketReceiveMaximum
         /\ Cardinality(InDelivery) <= BrokerLimit
    BY <2>3, <2>9 DEF ReceiveInv, IncomingInv, RecvInv
  <2>11. BrokerLimit = clientReceiveMaximum
    BY <2>10 DEF BrokerLimit
  <2>12. QED
    BY <2>6, <2>7, <2>8, <2>10, <2>11, ReceiveTyped
<1>2. QED
  BY <1>1, ReceiveInductive, PTL

-----------------------------------------------------------------------------
(* The PUBREC that Poll keeps for an incoming message with QoS 2           *)

(* Poll keeps a PUBREC for a message with QoS 1 too, and nothing removes   *)
(* it: the broker sends with QoS 2 only.                                   *)
ExactlyOnce == SeparateIds /\ ConformingBroker /\ BrokerQoS = {2}

LowQoS == {p \in Packets : p.type = "PUBLISH" /\ p.qos # 2}
TwoOnly ==
  /\ NoneOf(toClient, LowQoS)
  /\ \A g \in Goroutines :
       /\ pc[g] \in {"poll_publish", "poll_ack"} => arg[g].qos = 2
       /\ pc[g] # "poll_credit"
  /\ \A id \in BrokerIds : brokerOut[id] # "pub1"

(* A PUBREC is kept, or about to be, only while the broker waits for the   *)
(* PUBCOMP and nobody has sent or is about to send it.                     *)
Keeping(g, id) == pc[g] \in After /\ arg[g].id = id
Releasing(g, id) == pc[g] = "poll_release" /\ arg[g].id = id
Retained(id) == storage[id] = "PUBREC" \/ \E g \in Goroutines : Keeping(g, id)
Pending(id) ==
  /\ brokerOut[id] # "free" /\ NoneOf(toServer, Ends(id))
  /\ \A g \in Goroutines : ~ Releasing(g, id)
KeptInv ==
  \A id \in BrokerIds : storage[id] # "PUBLISH" /\ (Retained(id) => Pending(id))

(* What Call and Step do to the storage of the broker's identifiers *)
LEMMA StorageSteps ==
  ASSUME TypeOK, SeparateIds, NEW g \in Goroutines, Call(g) \/ Step(g),
         NEW id \in BrokerIds
  PROVE  \/ storage'[id] = storage[id]
         \/ /\ storage'[id] = "none" /\ arg[g].id = id
            /\ pc[g] \in {"poll_puback", "poll_pubcomp", "poll_pubrel"}
         \/ /\ storage'[id] = "PUBREC"
            /\ Stored(id) \/ (pc[g] = "poll_store" /\ arg[g].id = id)
<1>1. storage \in [Ids -> Kept] /\ id \in Ids /\ id \notin PubIds
  BY DEF TypeOK, ClientType, StoreType, Ids, SeparateIds
<1>2. CASE \/ Call(g) \/ ConnectStep(g) \/ DisconnectStep(g)
           \/ KeepAliveStep(g) \/ SubscribeStep(g) \/ UnsubscribeStep(g)
  BY <1>2 DEF Call, ConnectCall, DisconnectCall, KeepAliveCall, PublishCall,
     PollCall, SubscribeCall, UnsubscribeCall, ConnectStep, DisconnectStep,
     KeepAliveStep, ConnectLock, ConnectSend, ConnectFail, ConnectAck,
     DisconnectLock, DisconnectSend, KeepAliveLock, KeepAliveSend,
     SubscribeStep, UnsubscribeStep, SubscribeLock, SubscribeSend,
     SubscribeAnswer, SubscribeBind, SubscribeUnregister, SubscribeClose,
     ResponseDelete, UnsubscribeSend, UnsubscribeAnswer, UnsubscribeFind,
     UnsubscribeClose, UnsubscribeRemove, UnsubscribeUnlock, Panic, storeVars
<1>3. CASE PublishStep(g)
  <2>1. CASE PublishStore(g)
    BY <1>1, <2>1 DEF PublishStore
  <2>2. QED
    BY <1>3, <2>1 DEF PublishStep, PublishLock, PublishQuota, PublishPark,
       PublishRelock, PublishSend, PublishCount, storeVars
<1>4. CASE PollStep(g)
  <2>1. CASE PollStore(g)
    BY <1>1, <2>1 DEF PollStore, At
  <2>2. CASE PollPuback(g) \/ PollPubcomp(g)
    BY <1>1, <2>2 DEF PollPuback, PollPubcomp, Completed, At
  <2>3. CASE PollPubrec(g)
    BY <1>1, <2>3 DEF PollPubrec
  <2>4. CASE PollPubrel(g)
    BY <1>1, <2>4 DEF PollPubrel, At
  <2>5. QED
    BY <1>4, <2>1, <2>2, <2>3, <2>4 DEF PollStep, PollLock, PollNothing,
       PollRead, PollPublish, PollAck, PollCredit, PollRoute, PollSignal,
       PollRelease, PollResponse, PollFanout, PollPingresp, PollDisconnect, Panic, storeVars
<1>5. QED
  BY <1>2, <1>3, <1>4 DEF Step

LEMMA ReleaseSteps ==
  ASSUME TypeOK, NEW g \in Goroutines, Call(g) \/ Step(g), ~ PollPubrel(g),
         NEW h \in Goroutines, pc'[h] = "poll_release"
  PROVE  pc[h] = "poll_release" /\ arg'[h] = arg[h]
<1>1. CASE PollPuback(g) \/ PollPubcomp(g)
  <2>1. PICK p \in {"idle", "poll_fanout"}, w \in Parked \cup {NoOne} :
          pc' = [q \in Goroutines |-> IF q = g THEN p
                                      ELSE IF q = w THEN "pub_relock" ELSE pc[q]]
    BY <1>1 DEF PollPuback, PollPubcomp, Completed, GotoReleasing, Released
  <2>2. \A q \in Goroutines : q # g => arg'[q] = arg[q]
    BY <1>1, CallTyped DEF PollPuback, PollPubcomp, Completed
  <2>3. QED
    BY <2>1, <2>2, CallTyped
<1>2. CASE \/ Call(g) \/ ConnectStep(g) \/ DisconnectStep(g)
           \/ KeepAliveStep(g) \/ PublishStep(g)
  BY <1>2, CallTyped DEF Call, ConnectCall, DisconnectCall, KeepAliveCall,
     PublishCall, PollCall, SubscribeCall, UnsubscribeCall, Begin,
     ConnectStep, DisconnectStep, KeepAliveStep, ConnectLock, ConnectSend,
     ConnectFail, ConnectAck, ConnectReturn, DisconnectLock, DisconnectSend,
     KeepAliveLock, KeepAliveSend, PublishStep, PublishLock, PublishStore,
     PublishQuota, PublishPark, PublishRelock, PublishSend, PublishCount,
     Done, Goto
<1>3. CASE PollRead(g)
  <2>1. pc'[g] # "poll_release"
    <3>1. \/ pc'[g] = "idle"
          \/ \E t \in DOMAIN Handler : pc'[g] = Handler[t]
      BY <1>3, CallTyped DEF PollRead, PollReturn, Done, Goto
    <3>2. QED
      BY <3>1 DEF Handler
  <2>2. QED
    BY <1>3, <2>1, CallTyped DEF PollRead, PollReturn, Done, Goto
<1>4. CASE PollStep(g)
  BY <1>1, <1>3, <1>4, CallTyped DEF PollStep, PollLock, PollNothing,
     PollPublish, DisconnectWithReason, PollAck, PollCredit, PollRoute,
     PollSignal, PollStore, PollPubrec, PollRelease, PollResponse,
     PollFanout, PollPingresp, PollDisconnect, Panic, PollReturn,
     Done, Goto, callVars
<1>5. CASE SubscribeStep(g) \/ UnsubscribeStep(g)
  BY <1>5, CallTyped DEF SubscribeStep, UnsubscribeStep, SubscribeLock,
     SubscribeSend, SubscribeAnswer, SubscribeBind, SubscribeUnregister,
     SubscribeClose, ResponseDelete, UnsubscribeSend, UnsubscribeAnswer,
     UnsubscribeFind, UnsubscribeClose, UnsubscribeRemove,
     UnsubscribeUnlock, ReturnSubscribe, Panic, Done, Goto, callVars
<1>6. QED
  BY <1>2, <1>4, <1>5 DEF Step

(* Where the steps that carry on a handshake take Poll, when every message *)
(* has QoS 2                                                               *)
LEMMA HandlesTwo ==
  ASSUME TypeOK, TwoOnly, IncomingArgs, NEW g \in Goroutines, Handles(g)
  PROVE  /\ ~ PollCredit(g)
         /\ \A h \in Goroutines \ {g} : pc'[h] = pc[h] /\ arg'[h] = arg[h]
         /\ pc'[g] \notin {"poll_credit", "poll_release", "poll_signal",
                           "poll_store"}
         /\ pc'[g] = "poll_route" => PollAck(g) /\ arg'[g] = arg[g]
         /\ pc'[g] \in {"poll_publish", "poll_ack"} => arg'[g].qos = 2
<1>1. ~ PollCredit(g)
  BY DEF PollCredit, At, TwoOnly
<1>2. CASE PollRead(g)
  <2>1. PICK p : p = Head(toClient)
    OBVIOUS
  <2>2. p \in Packets /\ p \notin LowQoS
    BY <1>2, <2>1, WireTyped, QueueTail DEF PollRead, TwoOnly
  <2>3. /\ \A h \in Goroutines \ {g} : arg'[h] = arg[h] /\ pc'[h] = pc[h]
        /\ \/ pc'[g] = "idle"
           \/ /\ p.type \in DOMAIN Handler
              /\ arg'[g] = p /\ pc'[g] = Handler[p.type]
    BY <1>2, <2>1, CallTyped DEF PollRead, PollReturn, Done, Goto
  <2>4. CASE pc'[g] = "idle"
    BY <1>1, <2>3, <2>4
  <2>5. CASE /\ p.type \in DOMAIN Handler
             /\ arg'[g] = p /\ pc'[g] = Handler[p.type]
    <3>1. /\ pc'[g] \notin {"poll_credit", "poll_release", "poll_signal",
                            "poll_store", "poll_route", "poll_ack"}
          /\ pc'[g] = "poll_publish" => p.type = "PUBLISH"
      BY <2>5 DEF Handler
    <3>2. QED
      BY <1>1, <2>2, <2>3, <2>5, <3>1 DEF LowQoS
  <2>6. QED
    BY <2>3, <2>4, <2>5
<1>3. CASE PollPublish(g)
  <2>1. pc[g] = "poll_publish" /\ arg[g].qos = 2
    BY <1>3 DEF PollPublish, At, TwoOnly
  <2>2. /\ \A h \in Goroutines \ {g} : arg'[h] = arg[h] /\ pc'[h] = pc[h]
        /\ \/ pc'[g] \in {"idle", "poll_stuck"}
           \/ pc'[g] = "poll_ack" /\ arg'[g] = arg[g]
    BY <1>3, <2>1, CallTyped DEF PollPublish, DisconnectWithReason,
       PollReturn, Done, Goto
  <2>3. QED
    BY <1>1, <2>1, <2>2
<1>4. CASE PollAck(g)
  <2>1. pc[g] = "poll_ack" /\ arg[g].qos = 2
    BY <1>4 DEF PollAck, At, TwoOnly
  <2>2. /\ \A h \in Goroutines \ {g} : arg'[h] = arg[h] /\ pc'[h] = pc[h]
        /\ \/ pc'[g] = "idle"
           \/ pc'[g] = "poll_route" /\ arg'[g] = arg[g]
    BY <1>4, <2>1, CallTyped DEF PollAck, PollReturn, Done, Goto
  <2>3. QED
    BY <1>1, <1>4, <2>2
<1>5. CASE PollRelease(g)
  <2>1. /\ \A h \in Goroutines \ {g} : arg'[h] = arg[h] /\ pc'[h] = pc[h]
        /\ pc'[g] \in {"idle", "poll_fanout"}
    BY <1>5, CallTyped DEF PollRelease, PollReturn, Done, Goto
  <2>2. QED
    BY <1>1, <2>1
<1>6. QED
  BY <1>1, <1>2, <1>3, <1>4, <1>5 DEF Handles

LEMMA GoroutineTwo ==
  ASSUME TypeOK, TwoOnly, IncomingArgs, NEW g \in Goroutines,
         Call(g) \/ Step(g), UNCHANGED brokerVars
  PROVE  TwoOnly'
<1>1. NoneOf(toClient', LowQoS)
  BY GoroutineReads, WireTyped, QueueTail, QueueEmpty DEF TwoOnly
<1>2. ASSUME NEW h \in Goroutines
      PROVE  /\ pc'[h] \in {"poll_publish", "poll_ack"} => arg'[h].qos = 2
             /\ pc'[h] # "poll_credit"
  <2>1. CASE Handles(g)
    <3>1. CASE h = g
      BY <2>1, <3>1, HandlesTwo
    <3>2. CASE h # g
      BY <2>1, <3>2, HandlesTwo DEF TwoOnly
    <3>3. QED
      BY <3>1, <3>2
  <2>2. CASE ~ Handles(g)
    BY <2>2, GoroutineQuiet DEF QuietCalls, ReadPoints, TwoOnly
  <2>3. QED
    BY <2>1, <2>2
<1>3. QED
  BY <1>1, <1>2 DEF TwoOnly, brokerVars

LEMMA PollAckKept ==
  ASSUME TypeOK, LockInv, IncomingInv, TwoOnly, NEW g \in Goroutines,
         PollAck(g), UNCHANGED brokerVars, pc'[g] = "poll_route",
         NEW id \in BrokerIds, id = arg[g].id
  PROVE  Pending(id)'
<1>1. pc[g] = "poll_ack" /\ arg[g].qos = 2
  BY DEF PollAck, At, TwoOnly
<1>2. Way(id) /\ ~ Unserved(id)
  BY <1>1 DEF IncomingInv, Unserved, Serving, ReadPoints
<1>3. NoneReplied(id) /\ brokerOut'[id] # "free"
  BY <1>2 DEF Way, OneWay, brokerVars
<1>4. toServer' = Append(toServer, Packet("PUBREC", id))
  BY <1>1, CallTyped DEF PollAck, Write, PollReturn, Done, Goto
<1>5. Packet("PUBREC", id) \in Packets /\ Packet("PUBREC", id) \notin Ends(id)
  <2>1. Packet("PUBREC", id) \in Packets
    BY PacketTyped DEF PacketTypes, Ids
  <2>2. QED
    BY <2>1 DEF Ends, Packet
<1>6. NoneOf(toServer, Ends(id))
  BY <1>3 DEF NoneReplied, NoneOf, Ends, Acks
<1>7. NoneOf(toServer', Ends(id))
  BY <1>4, <1>5, <1>6, WireTyped, QueueAppend
<1>8. \A h \in Goroutines : ~ Releasing(h, id)'
  <2>1. \A h \in Goroutines \ {g} : pc'[h] = pc[h]
    BY HandlesTwo DEF Handles, IncomingInv
  <2>2. QED
    BY <1>1, <2>1, HandlerAlone DEF Releasing, PollHolds
<1>9. QED
  BY <1>3, <1>7, <1>8 DEF Pending

LEMMA GoroutineKept ==
  ASSUME TypeOK, LockInv, SeparateIds, IncomingInv, TwoOnly, KeptInv,
         NEW g \in Goroutines, Call(g) \/ Step(g), UNCHANGED brokerVars
  PROVE  KeptInv'
<1> SUFFICES ASSUME NEW id \in BrokerIds
             PROVE  storage'[id] # "PUBLISH" /\ (Retained(id)' => Pending(id)')
  BY DEF KeptInv
<1>1. storage[id] # "PUBLISH" /\ (Retained(id) => Pending(id))
  BY DEF KeptInv
<1>2. storage[id] \in Kept
  BY DEF TypeOK, ClientType, StoreType, Ids
<1>3. /\ storage'[id] # "PUBLISH"
      /\ storage'[id] = "PUBREC" => Retained(id)
  BY <1>1, <1>2, StorageSteps
     DEF Stored, Kept, Retained, Keeping, After
<1>4. ASSUME NEW h \in Goroutines, Keeping(h, id)', ~ Keeping(h, id)
      PROVE  PollAck(g) /\ pc'[g] = "poll_route" /\ arg[g].id = id
  <2>1. CASE Handles(g)
    BY <1>4, <2>1, HandlesTwo DEF Keeping, After, IncomingInv
  <2>2. CASE ~ Handles(g)
    BY <1>4, <2>2, GoroutineQuiet DEF QuietCalls, Keeping
  <2>3. QED
    BY <2>1, <2>2
<1>5. CASE PollAck(g) /\ pc'[g] = "poll_route" /\ arg[g].id = id
  BY <1>3, <1>5, PollAckKept
<1>6. CASE ~ (PollAck(g) /\ pc'[g] = "poll_route" /\ arg[g].id = id)
  <2>1. Retained(id)' => Retained(id)
    BY <1>3, <1>4, <1>6 DEF Retained
  <2>2. ASSUME Retained(id)
        PROVE  NoneOf(toServer', Ends(id))
    <3>1. Pending(id)
      BY <1>1, <2>2
    <3>2. /\ pc[g] = "pub_send" => arg[g].type = "PUBLISH"
          /\ pc[g] = "poll_ack" => arg[g].qos = 2
          /\ pc[g] = "poll_release" => arg[g].id # id
      BY <3>1 DEF IncomingInv, IncomingArgs, PublishPoints, Preparations,
         TwoOnly, Pending, Releasing
    <3>3. \A p \in Packets : Writes(g, p) => p \notin Ends(id)
      BY <3>2 DEF Writes, Ends, Packet
    <3>4. QED
      BY <3>1, <3>3, GoroutineWrites, WireTyped, QueueAppend DEF Pending
  <2>3. ASSUME Retained(id)', NEW h \in Goroutines, Releasing(h, id)'
        PROVE  FALSE
    <3>1. Pending(id)
      BY <1>1, <2>1, <2>3
    <3>2. CASE PollPubrel(g)
      <4>1. pc[g] = "poll_pubrel"
        BY <3>2 DEF PollPubrel, At
      <4>2. /\ \A k \in Goroutines \ {g} : pc'[k] = pc[k] /\ arg'[k] = arg[k]
            /\ \/ pc'[g] = "idle"
               \/ /\ pc'[g] = "poll_release" /\ arg'[g] = arg[g]
                  /\ storage' = [storage EXCEPT ![arg[g].id] = "none"]
        BY <3>2, CallTyped DEF PollPubrel, PollReturn, Done, Goto
      <4>3. h = g /\ arg[g].id = id /\ pc'[g] = "poll_release"
        BY <2>3, <3>1, <4>2 DEF Releasing, Pending
      <4>4. storage'[id] = "none"
        BY <4>2, <4>3 DEF TypeOK, ClientType, StoreType, Ids
      <4>5. \A k \in Goroutines : ~ Keeping(k, id)'
        BY <4>1, <4>2, <4>3, HandlerAlone DEF Keeping, After, PollHolds
      <4>6. QED
        BY <2>3, <4>4, <4>5 DEF Retained
    <3>3. CASE ~ PollPubrel(g)
      BY <2>3, <3>1, <3>3, ReleaseSteps DEF Releasing, Pending
    <3>4. QED
      BY <3>2, <3>3
  <2>4. QED
    BY <1>1, <1>3, <2>1, <2>2, <2>3 DEF Pending, brokerVars
<1>7. QED
  BY <1>5, <1>6

LEMMA BrokerTwo ==
  ASSUME TypeOK, ExactlyOnce, TwoOnly, BrokerStep
  PROVE  TwoOnly'
<1>1. ASSUME NEW p \in Packets, Says(p)
      PROVE  p \notin LowQoS
  <2>1. redo \subseteq BrokerIds
    BY DEF TypeOK, BrokerType
  <2>2. CASE p.type = "PUBLISH"
    BY <1>1, <2>1, <2>2 DEF Says, LowQoS, ExactlyOnce, ConformingBroker,
       TwoOnly, Packet
  <2>3. QED
    BY <2>2 DEF LowQoS
<1>2. NoneOf(toClient', LowQoS)
  BY <1>1, BrokerSays, WireTyped, QueueAppend DEF TwoOnly
<1>3. \A id \in BrokerIds : brokerOut'[id] # "pub1"
  <2>1. brokerOut \in [BrokerIds -> Deliveries]
    BY DEF TypeOK, BrokerType
  <2>2. CASE BrokerPublish
    <3>1. \A q \in BrokerQoS : q = 2
      BY DEF ExactlyOnce
    <3>2. \/ UNCHANGED brokerOut
          \/ \E j \in BrokerIds : brokerOut' = [brokerOut EXCEPT ![j] = "pub2"]
      BY <2>2, <3>1 DEF BrokerPublish
    <3>3. QED
      BY <2>1, <3>2 DEF TwoOnly
  <2>3. CASE TakePuback \/ TakePubcomp \/ TakePubrec
    <3>1. PICK j : \/ brokerOut' = [brokerOut EXCEPT ![j] = "free"]
                   \/ brokerOut' = [brokerOut EXCEPT ![j] = "rel"]
      BY <2>3 DEF TakePuback, TakePubcomp, TakePubrec
    <3>2. QED
      BY <2>1, <3>1 DEF TwoOnly
  <2>4. QED
    BY <2>2, <2>3 DEF BrokerStep, BrokerTakes, TakeConnect, TakePublish,
       TakePubrel, TakePingreq, TakeDisconnect, TakeSubscribe,
       TakeUnsubscribe, BrokerResend, BrokerUnprompted, TwoOnly
<1>4. QED
  BY <1>2, <1>3, BrokerTakesOne DEF TwoOnly, callVars

LEMMA BrokerKept ==
  ASSUME TypeOK, KeptInv, BrokerStep
  PROVE  KeptInv'
<1>1. UNCHANGED <<pc, arg, storage>>
  BY BrokerTakesOne DEF callVars, storeVars
<1>2. ASSUME NEW id \in BrokerIds, Pending(id)
      PROVE  Pending(id)'
  <2>1. NoneOf(toServer', Ends(id))
    BY <1>2, BrokerTakesOne, WireTyped, QueueTail DEF Pending
  <2>2. brokerOut'[id] # "free"
    <3>1. brokerOut \in [BrokerIds -> Deliveries] /\ brokerOut[id] # "free"
      BY <1>2 DEF TypeOK, BrokerType, Pending
    <3>2. CASE TakePuback \/ TakePubcomp
      <4>1. PICK p : p = Head(toServer)
        OBVIOUS
      <4>2. /\ toServer # <<>> /\ p.type \in {"PUBACK", "PUBCOMP"}
            /\ brokerOut' = [brokerOut EXCEPT ![p.id] = "free"]
        BY <3>2, <4>1 DEF TakePuback, TakePubcomp, Takes
      <4>3. p \in Packets /\ p \notin Ends(id)
        BY <1>2, <4>1, <4>2, WireTyped, QueueTail DEF Pending
      <4>4. p.id # id
        BY <4>2, <4>3 DEF Ends
      <4>5. QED
        BY <3>1, <4>2, <4>4
    <3>3. CASE TakePubrec
      <4>1. PICK j : brokerOut' = [brokerOut EXCEPT ![j] = "rel"]
        BY <3>3 DEF TakePubrec
      <4>2. QED
        BY <3>1, <4>1
    <3>4. CASE BrokerPublish
      <4>1. \/ UNCHANGED brokerOut
            \/ \E j \in BrokerIds, d \in {"pub1", "pub2"} :
                 brokerOut' = [brokerOut EXCEPT ![j] = d]
        BY <3>4 DEF BrokerPublish
      <4>2. QED
        BY <3>1, <4>1
    <3>5. QED
      BY <3>1, <3>2, <3>3, <3>4 DEF BrokerStep, BrokerTakes, TakeConnect,
         TakePublish, TakePubrel, TakePingreq, TakeDisconnect, TakeSubscribe,
         TakeUnsubscribe, BrokerResend, BrokerUnprompted
  <2>3. QED
    BY <1>1, <1>2, <2>1, <2>2 DEF Pending, Releasing
<1>3. \A id \in BrokerIds : Retained(id)' => Retained(id)
  BY <1>1 DEF Retained, Keeping
<1>4. QED
  BY <1>1, <1>2, <1>3 DEF KeptInv

LEMMA WorldKept ==
  ASSUME TypeOK, TwoOnly, KeptInv,
         \/ ConnLost \/ PingDeadlinePasses \/ Restart \/ UNCHANGED vars
         \/ (\E c \in Channels : Application(c)) /\ UNCHANGED brokerVars
  PROVE  TwoOnly' /\ KeptInv'
<1>1. CASE Restart
  <2>1. TwoOnly'
    BY <1>1, QueueEmpty DEF Restart, TwoOnly
  <2>2. /\ UNCHANGED <<storage, brokerOut>> /\ toServer' = <<>>
        /\ \A g \in Goroutines : pc'[g] = "idle"
    BY <1>1 DEF Restart, storeVars
  <2>3. QED
    BY <2>1, <2>2, QueueEmpty DEF KeptInv, Retained, Keeping, Pending,
       Releasing, After
<1>2. CASE ~ Restart
  <2>1. /\ UNCHANGED <<pc, arg, storage, brokerOut>>
        /\ \/ UNCHANGED <<toClient, toServer>>
           \/ toClient' = <<>> /\ toServer' = <<>>
    BY <1>2 DEF ConnLost, PingDeadlinePasses, vars, clientVars, clientOnly,
       callVars, storeVars, wireVars, brokerVars, Application,
       CreateEventChannel, CloseEventChannel, CloseEventChannelEnd, ReceiveEvent
  <2>2. TwoOnly'
    BY <2>1, QueueEmpty DEF TwoOnly
  <2>3. QED
    BY <2>1, <2>2, QueueEmpty DEF KeptInv, Retained, Keeping, Pending,
       Releasing
<1>3. QED
  BY <1>1, <1>2

LEMMA KeptInductive ==
  Spec => [](ExactlyOnce => ReceiveInv /\ TwoOnly /\ KeptInv)
<1>1. Init => TwoOnly /\ KeptInv
  BY QueueEmpty DEF Init, TwoOnly, KeptInv, Retained, Keeping, After, Ids
<1>2. ASSUME TypeOK, LockInv, ExactlyOnce, ReceiveInv, TwoOnly, KeptInv,
             [Next]_vars
      PROVE  TwoOnly' /\ KeptInv'
  <2>1. IncomingInv /\ IncomingArgs /\ SeparateIds
    BY <1>2 DEF ReceiveInv, IncomingInv, ExactlyOnce
  <2>2. ASSUME NEW g \in Goroutines, Call(g) \/ Step(g), UNCHANGED brokerVars
        PROVE  TwoOnly' /\ KeptInv'
    BY <1>2, <2>1, <2>2, GoroutineTwo, GoroutineKept
  <2>3. CASE BrokerStep
    BY <1>2, <2>3, BrokerTwo, BrokerKept
  <2>4. CASE \/ ConnLost \/ PingDeadlinePasses \/ Restart \/ UNCHANGED vars
             \/ (\E c \in Channels : Application(c)) /\ UNCHANGED brokerVars
    BY <1>2, <2>4, WorldKept
  <2>5. QED
    BY <1>2, <2>2, <2>3, <2>4 DEF Next
<1>3. /\ (ConformingBroker => ReceiveInv) /\ TypeOK /\ LockInv
      /\ (ExactlyOnce => TwoOnly /\ KeptInv) /\ [Next]_vars
      => (ExactlyOnce => TwoOnly /\ KeptInv)'
  BY <1>2 DEF ExactlyOnce, ConformingBroker, SeparateIds
<1>4. ExactlyOnce => ConformingBroker
  BY DEF ExactlyOnce
<1>5. QED
  BY <1>1, <1>3, <1>4, ReceiveInductive, PTL DEF Spec

(* Exactly-once delivery, the client's half: by the time the broker is     *)
(* through with a message, Poll has removed the PUBREC that it kept, over  *)
(* losses of the connection, reconnects and restarts at any step between   *)
(* the PUBREC and the PUBCOMP.  Nothing stays behind under an identifier   *)
(* that the broker may use again.                                          *)
THEOREM KeptUntilComplete == Spec => [](ExactlyOnce => KeptPubrecPending)
<1>1. KeptInv => KeptPubrecPending
  BY DEF KeptInv, KeptPubrecPending, Retained, Pending
<1>2. QED
  BY <1>1, KeptInductive, PTL
=============================================================================
