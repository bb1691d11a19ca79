-------------------------- MODULE Outgoing_proofs --------------------------
(***************************************************************************)
(* Proofs about the messages that Client publishes with QoS 1 and 2: what  *)
(* is in the storage for them while they are on their way, and how many    *)
(* are.                                                                    *)
(***************************************************************************)
EXTENDS Client_proofs, FiniteSetTheorems

-----------------------------------------------------------------------------
(* Queues of packets *)

NoneOf(s, P) == \A k \in DOMAIN s : s[k] \notin P
OneOf(s, P) == \A j, k \in DOMAIN s : s[j] \in P /\ s[k] \in P => j = k
LastOf(s, P) == \A k \in DOMAIN s : s[k] \in P => k = Len(s)

-----------------------------------------------------------------------------
(* The inductive invariant *)

(* The identifiers that the two sides use are apart: they are kept in one  *)
(* storage.  0 is no identifier.                                           *)
SeparateIds == PubIds \cap BrokerIds = {} /\ 0 \notin PubIds

Preparations == {"pub_quota", "pub_gate", "pub_parked", "pub_relock", "pub_send"}
PublishPoints == {"pub_lock", "pub_store"} \cup Preparations
AckPoints == {"poll_puback", "poll_pubrec", "poll_pubcomp"}
IncomingPoints ==
  {"poll_publish", "poll_ack", "poll_credit", "poll_route", "poll_signal",
   "poll_store", "poll_pubrel", "poll_release"}

(* The handshake of an outgoing message is at one place at a time: a       *)
(* request on its way to the broker, an acknowledgement on its way back,   *)
(* a handler of Poll.                                                      *)
Requests(id) == {p \in Packets : p.id = id /\ p.type \in {"PUBLISH", "PUBREL"}}
Acks(id) ==
  {p \in Packets : p.id = id /\ p.type \in {"PUBACK", "PUBREC", "PUBCOMP"}}

NoRequest(id) == NoneOf(toServer, Requests(id))
NoAck(id) == NoneOf(toClient, Acks(id))
OneRequest(id) == OneOf(toServer, Requests(id))
OneAck(id) == OneOf(toClient, Acks(id))
Handling(g, id) == pc[g] \in AckPoints /\ arg[g].id = id
Unhandled(id) == \A g \in Goroutines : ~ Handling(g, id)

(* g has stored the message with identifier id and has yet to send it. *)
Preparing(g, id) ==
  pc[g] \in Preparations /\ arg[g].qos # 0 /\ arg[g].id = id

OnePlace(id) ==
  /\ OneRequest(id) /\ OneAck(id)
  /\ NoRequest(id) \/ NoAck(id)
  /\ ~ Unhandled(id) => NoRequest(id) /\ NoAck(id)

Resting(id) == NoRequest(id) /\ NoAck(id) /\ Unhandled(id) /\ id \notin owed

(* What is not stored is not on its way; neither is what is being sent,    *)
(* and one goroutine sends it.                                             *)
AckInv(id) ==
  /\ OnePlace(id)
  /\ ~ Stored(id) => Resting(id)
  /\ \A g \in Goroutines : Preparing(g, id) =>
       /\ Stored(id) /\ Resting(id)
       /\ \A h \in Goroutines : Preparing(h, id) => g = h

(* The packet that Publish is about *)
PublishArgs ==
  \A g \in Goroutines : pc[g] \in PublishPoints =>
    /\ arg[g].type = "PUBLISH"
    /\ arg[g].qos = 0 => arg[g].id = 0 /\ pc[g] # "pub_store"
    /\ pc[g] \in Preparations /\ arg[g].qos # 0 => arg[g].id \in PubIds

(* Messages of the broker have identifiers of the broker. *)
ForeignIn == {p \in Packets : p.type \in {"PUBLISH", "PUBREL"} /\ p.id \in PubIds}
ForeignOut == {p \in Packets : p.type = "PUBREC" /\ p.id \in PubIds}
IncomingIds ==
  /\ NoneOf(toClient, ForeignIn) /\ NoneOf(toServer, ForeignOut)
  /\ \A g \in Goroutines : pc[g] \in IncomingPoints => arg[g].id \notin PubIds

OutgoingInv ==
  /\ PublishArgs /\ IncomingIds /\ owed \subseteq PubIds
  /\ \A id \in PubIds : AckInv(id)

-----------------------------------------------------------------------------
(* Queues: what is left when the first packet is taken, and what is there  *)
(* when one is added                                                       *)

LEMMA QueueTail ==
  ASSUME NEW s \in Seq(Packets), s # <<>>, NEW P
  PROVE  /\ NoneOf(s, P) => NoneOf(Tail(s), P)
         /\ OneOf(s, P) => OneOf(Tail(s), P)
         /\ OneOf(s, P) /\ Head(s) \in P => NoneOf(Tail(s), P)
         /\ NoneOf(s, P) => Head(s) \notin P
         /\ NoneOf(Tail(s), P) /\ Head(s) \notin P => NoneOf(s, P)
<1>1. /\ 1 \in DOMAIN s /\ Head(s) = s[1]
      /\ \A k \in DOMAIN Tail(s) :
           k \in Nat /\ k + 1 \in DOMAIN s /\ k + 1 # 1 /\ Tail(s)[k] = s[k + 1]
      /\ \A k \in DOMAIN s : k # 1 =>
           k - 1 \in DOMAIN Tail(s) /\ s[k] = Tail(s)[k - 1]
  OBVIOUS
<1>2. NoneOf(s, P) => NoneOf(Tail(s), P) /\ Head(s) \notin P
  BY <1>1 DEF NoneOf
<1>3. OneOf(s, P) => OneOf(Tail(s), P)
  BY <1>1 DEF OneOf
<1>4. OneOf(s, P) /\ Head(s) \in P => NoneOf(Tail(s), P)
  BY <1>1 DEF OneOf, NoneOf
<1>5. NoneOf(Tail(s), P) /\ Head(s) \notin P => NoneOf(s, P)
  BY <1>1 DEF NoneOf
<1>6. QED
  BY <1>2, <1>3, <1>4, <1>5

LEMMA QueueAppend ==
  ASSUME NEW s \in Seq(Packets), NEW p \in Packets, NEW P
  PROVE  /\ NoneOf(s, P) /\ p \notin P => NoneOf(Append(s, p), P)
         /\ OneOf(s, P) /\ p \notin P => OneOf(Append(s, p), P)
         /\ NoneOf(s, P) => OneOf(Append(s, p), P)
<1>1. /\ DOMAIN Append(s, p) = DOMAIN s \cup {Len(s) + 1}
      /\ Append(s, p)[Len(s) + 1] = p
      /\ \A k \in DOMAIN s : Append(s, p)[k] = s[k] /\ k # Len(s) + 1
  OBVIOUS
<1>2. QED
  BY <1>1 DEF NoneOf, OneOf

LEMMA QueueEmpty ==
  \A P : NoneOf(<<>>, P) /\ OneOf(<<>>, P) /\ LastOf(<<>>, P)
BY DEF NoneOf, OneOf, LastOf

LEMMA QueueLast ==
  ASSUME NEW s \in Seq(Packets), NEW P
  PROVE  /\ NoneOf(s, P) => LastOf(s, P)
         /\ \A p \in Packets : NoneOf(s, P) => LastOf(Append(s, p), P)
         /\ s # <<>> /\ LastOf(s, P) =>
              /\ LastOf(Tail(s), P)
              /\ Head(s) \in P => Tail(s) = <<>>
BY DEF NoneOf, LastOf

-----------------------------------------------------------------------------
(* Steps that have nothing to do with outgoing messages *)

(* Packets that have nothing to do with them *)
Dull(p) ==
  \/ p.id \notin PubIds
  \/ p.type \notin {"PUBLISH", "PUBACK", "PUBREC", "PUBREL", "PUBCOMP"}

DullQueue(s, t) ==
  \/ t = s \/ t = <<>>
  \/ s # <<>> /\ t = Tail(s)
  \/ \E p \in Packets : Dull(p) /\ t = Append(s, p)
DullStore == owed' = owed /\ \A id \in PubIds : Stored(id)' = Stored(id)
DullCalls ==
  \A h \in Goroutines :
    /\ pc'[h] \in PublishPoints =>
         /\ pc[h] \in PublishPoints /\ arg'[h] = arg[h]
         /\ pc'[h] \in Preparations => pc[h] \in Preparations \/ arg[h].qos = 0
         /\ pc'[h] = "pub_store" => pc[h] = "pub_store" \/ arg[h].qos # 0
    /\ pc'[h] \in AckPoints => pc'[h] = pc[h] /\ arg'[h] = arg[h]
    /\ pc'[h] \in IncomingPoints =>
         pc[h] \in IncomingPoints /\ arg'[h] = arg[h]

Calm ==
  /\ DullStore /\ DullCalls
  /\ DullQueue(toServer, toServer') /\ DullQueue(toClient, toClient')

(* The step brings nothing new for the messages with identifiers in S:     *)
(* what was at rest stays at rest, what was stored is kept.                *)
Fewer(S) ==
  \A id \in S :
    /\ OneRequest(id) => OneRequest(id)'
    /\ OneAck(id) => OneAck(id)'
    /\ NoRequest(id) => NoRequest(id)'
    /\ NoAck(id) => NoAck(id)'
    /\ id \in owed' => id \in owed
    /\ Stored(id) => Stored(id)'
    /\ \A g \in Goroutines : /\ Handling(g, id)' => Handling(g, id)
                             /\ Preparing(g, id)' => Preparing(g, id)

(* Nothing begins for them. *)
RestKept(S) == \A id \in S : Resting(id) => Resting(id)'

LEMMA FewerRest ==
  ASSUME NEW S, Fewer(S)
  PROVE  RestKept(S)
BY DEF Fewer, RestKept, Resting, Unhandled

LEMMA FewerInv ==
  ASSUME NEW S, Fewer(S), NEW id \in S, AckInv(id)
  PROVE  AckInv(id)'
<1>1. /\ OneRequest(id) => OneRequest(id)'
      /\ OneAck(id) => OneAck(id)'
      /\ NoRequest(id) => NoRequest(id)'
      /\ NoAck(id) => NoAck(id)'
      /\ id \in owed' => id \in owed
      /\ Stored(id) => Stored(id)'
  BY DEF Fewer
<1>2. \A g \in Goroutines : /\ Handling(g, id)' => Handling(g, id)
                            /\ Preparing(g, id)' => Preparing(g, id)
  BY DEF Fewer
<1>3. (Unhandled(id) => Unhandled(id)') /\ (Resting(id) => Resting(id)')
  BY <1>1, <1>2 DEF Unhandled, Resting
<1>4. OnePlace(id)'
  BY <1>1, <1>3 DEF AckInv, OnePlace
<1>5. ~ Stored(id)' => Resting(id)'
  BY <1>1, <1>3 DEF AckInv
<1>6. ASSUME NEW g \in Goroutines, Preparing(g, id)'
      PROVE  /\ Stored(id)' /\ Resting(id)'
             /\ \A h \in Goroutines : Preparing(h, id)' => g = h
  BY <1>1, <1>2, <1>3, <1>6 DEF AckInv
<1>7. QED
  BY <1>4, <1>5, <1>6 DEF AckInv

(* A queue that has no more packets of P than before *)
FewerOf(s, t, P) == (NoneOf(s, P) => NoneOf(t, P)) /\ (OneOf(s, P) => OneOf(t, P))

LEMMA QueueFewer ==
  ASSUME NEW s \in Seq(Packets), NEW t, NEW P,
         \/ t = s \/ t = <<>>
         \/ s # <<>> /\ t = Tail(s)
         \/ \E p \in Packets : p \notin P /\ t = Append(s, p)
  PROVE  FewerOf(s, t, P)
<1>1. CASE t = s \/ t = <<>>
  BY <1>1, QueueEmpty DEF FewerOf
<1>2. CASE s # <<>> /\ t = Tail(s)
  BY <1>2, QueueTail DEF FewerOf
<1>3. CASE \E p \in Packets : p \notin P /\ t = Append(s, p)
  BY <1>3, QueueAppend DEF FewerOf
<1>4. QED
  BY <1>1, <1>2, <1>3

LEMMA QueueDull ==
  ASSUME NEW s \in Seq(Packets), NEW t, DullQueue(s, t), NEW P,
         \A p \in Packets : Dull(p) => p \notin P
  PROVE  FewerOf(s, t, P)
BY QueueFewer DEF DullQueue

LEMMA WireTyped ==
  ASSUME TypeOK
  PROVE  /\ toServer \in Seq(Packets) /\ toClient \in Seq(Packets)
         /\ conn \in ConnStates
BY DEF TypeOK, ClientType, WireType

LEMMA CalmInv ==
  ASSUME TypeOK, OutgoingInv, Calm
  PROVE  OutgoingInv' /\ RestKept(PubIds)
<1>1. Fewer(PubIds)
  <2> SUFFICES ASSUME NEW id \in PubIds
               PROVE  /\ OneRequest(id) => OneRequest(id)'
                      /\ OneAck(id) => OneAck(id)'
                      /\ NoRequest(id) => NoRequest(id)'
                      /\ NoAck(id) => NoAck(id)'
                      /\ id \in owed' => id \in owed
                      /\ Stored(id) => Stored(id)'
                      /\ \A g \in Goroutines :
                           /\ Handling(g, id)' => Handling(g, id)
                           /\ Preparing(g, id)' => Preparing(g, id)
    BY DEF Fewer
  <2>1. \A p \in Packets : Dull(p) => p \notin Requests(id) /\ p \notin Acks(id)
    BY DEF Dull, Requests, Acks
  <2>2. (NoRequest(id) => NoRequest(id)') /\ (OneRequest(id) => OneRequest(id)')
    BY <2>1, WireTyped, QueueDull DEF NoRequest, OneRequest, Calm, FewerOf
  <2>3. (NoAck(id) => NoAck(id)') /\ (OneAck(id) => OneAck(id)')
    BY <2>1, WireTyped, QueueDull DEF NoAck, OneAck, Calm, FewerOf
  <2>4. (id \in owed' => id \in owed) /\ (Stored(id) => Stored(id)')
    BY DEF Calm, DullStore
  <2>5. ASSUME NEW g \in Goroutines
        PROVE  /\ Handling(g, id)' => Handling(g, id)
               /\ Preparing(g, id)' => Preparing(g, id)
    <3>1. Handling(g, id)' => Handling(g, id)
      BY DEF Handling, Calm, DullCalls
    <3>2. ASSUME Preparing(g, id)'
          PROVE  Preparing(g, id)
      <4>1. pc'[g] \in Preparations /\ pc'[g] \in PublishPoints
        BY <3>2 DEF Preparing, PublishPoints
      <4>2. arg'[g] = arg[g] /\ (pc[g] \in Preparations \/ arg[g].qos = 0)
        BY <4>1 DEF Calm, DullCalls
      <4>3. QED
        BY <3>2, <4>2 DEF Preparing
    <3>3. QED
      BY <3>1, <3>2
  <2>6. QED
    BY <2>2, <2>3, <2>4, <2>5
<1>2. PublishArgs'
  BY DEF OutgoingInv, PublishArgs, Calm, DullCalls
<1>3. IncomingIds'
  <2>1. \A p \in Packets : Dull(p) => p \notin ForeignOut /\ p \notin ForeignIn
    BY DEF Dull, ForeignOut, ForeignIn
  <2>2. NoneOf(toClient', ForeignIn) /\ NoneOf(toServer', ForeignOut)
    BY <2>1, WireTyped, QueueDull DEF OutgoingInv, IncomingIds, Calm, FewerOf
  <2>3. QED
    BY <2>2 DEF OutgoingInv, IncomingIds, Calm, DullCalls
<1>4. \A id \in PubIds : AckInv(id)'
  BY <1>1, FewerInv DEF OutgoingInv
<1>5. QED
  BY <1>1, <1>2, <1>3, <1>4, FewerRest DEF OutgoingInv, Calm, DullStore

LEMMA CallTyped ==
  ASSUME TypeOK
  PROVE  /\ pc \in [Goroutines -> Points] /\ arg \in [Goroutines -> Packets]
         /\ \A g \in Goroutines :
              /\ arg[g].id \in Ids /\ arg[g].qos \in 0..2
              /\ arg[g].type \in PacketTypes
BY DEF TypeOK, ClientType, CallType, Packets

(* Packets of the other types *)
LEMMA OtherDull ==
  ASSUME NEW t \in PacketTypes, NEW id \in Ids, NEW fs \in SUBSET Filters,
         \/ t \notin {"PUBLISH", "PUBACK", "PUBREC", "PUBREL", "PUBCOMP"}
         \/ id \notin PubIds
  PROVE  /\ Packet(t, id) \in Packets /\ Dull(Packet(t, id))
         /\ About(Packet(t, id), fs) \in Packets
         /\ Dull(About(Packet(t, id), fs))
BY PacketTyped, AboutTyped DEF Packet, About, Dull

LEMMA PublishCalm ==
  ASSUME TypeOK, OutgoingInv, SeparateIds, NEW g \in Goroutines,
         \/ PublishLock(g) \/ PublishQuota(g) \/ PublishPark(g)
         \/ PublishRelock(g) \/ PublishCount(g)
         \/ PublishSend(g) /\ (conn # "open" \/ arg[g].qos = 0)
  PROVE  Calm

<1>1. DullCalls
  BY CallTyped DEF PublishLock, PublishQuota, PublishPark, PublishRelock,
     PublishSend, PublishCount, Done, Goto, At, DullCalls, PublishPoints,
     Preparations, AckPoints, IncomingPoints
<1>2. DullStore /\ DullQueue(toClient, toClient')
  BY CallTyped DEF PublishLock, PublishQuota, PublishPark, PublishRelock,
     PublishSend, PublishCount, storeVars, wireVars, DullStore, Stored, DullQueue
<1>3. DullQueue(toServer, toServer')
  <2>1. arg[g].qos = 0 /\ At(g, "pub_send") => arg[g] \in Packets /\ Dull(arg[g])
    BY CallTyped DEF OutgoingInv, PublishArgs, PublishPoints, Preparations,
       Dull, SeparateIds, At
  <2>2. QED
    BY <2>1, CallTyped DEF PublishLock, PublishQuota, PublishPark,
       PublishRelock, PublishSend, PublishCount, Write, wireVars, DullQueue
<1>4. QED
  BY <1>1, <1>2, <1>3 DEF Calm

LEMMA SessionCalm ==
  ASSUME TypeOK, SeparateIds, NEW g \in Goroutines,
         \/ ConnectCall(g) \/ DisconnectCall(g) \/ KeepAliveCall(g)
         \/ ConnectStep(g) \/ DisconnectStep(g) \/ KeepAliveStep(g)
  PROVE  Calm
<1>1. DullCalls
  BY CallTyped DEF ConnectCall, DisconnectCall, KeepAliveCall, ConnectStep,
     DisconnectStep, KeepAliveStep, ConnectLock, ConnectSend, ConnectFail,
     ConnectAck, ConnectReturn, DisconnectLock, DisconnectSend, KeepAliveLock,
     KeepAliveSend, Begin, Done, Goto, At, DullCalls, PublishPoints,
     Preparations, AckPoints, IncomingPoints
<1>2. DullStore /\ DullQueue(toClient, toClient')
  BY DEF ConnectCall, DisconnectCall, KeepAliveCall, ConnectStep,
     DisconnectStep, KeepAliveStep, ConnectLock, ConnectSend, ConnectFail,
     ConnectAck, DisconnectLock, DisconnectSend, KeepAliveLock, KeepAliveSend,
     storeVars, wireVars, DullStore, Stored, DullQueue
<1>3. DullQueue(toServer, toServer')
  <2>1. \A t \in {"CONNECT", "DISCONNECT", "PINGREQ"} :
          Packet(t, 0) \in Packets /\ Dull(Packet(t, 0))
    BY OtherDull DEF PacketTypes, Ids
  <2>2. QED
    BY <2>1 DEF ConnectCall, DisconnectCall, KeepAliveCall, ConnectStep,
       DisconnectStep, KeepAliveStep, ConnectLock, ConnectSend, ConnectFail,
       ConnectAck, DisconnectLock, DisconnectSend, KeepAliveLock,
       KeepAliveSend, Write, wireVars, DullQueue
<1>4. QED
  BY <1>1, <1>2, <1>3 DEF Calm

LEMMA SubscribeCalm ==
  ASSUME TypeOK, SeparateIds, NEW g \in Goroutines,
         \/ SubscribeCall(g) \/ SubscribeStep(g)
         \/ UnsubscribeCall(g) \/ UnsubscribeStep(g)
  PROVE  Calm
<1>1. DullCalls
  <2>1. CASE SubscribeCall(g) \/ SubscribeStep(g)
    BY <2>1, CallTyped DEF SubscribeCall, SubscribeStep, SubscribeLock,
       SubscribeSend, SubscribeAnswer, SubscribeBind, SubscribeUnregister,
       SubscribeClose, ResponseDelete, ReturnSubscribe, Begin, Panic, Done,
       Goto, At, callVars, DullCalls, PublishPoints, Preparations, AckPoints,
       IncomingPoints
  <2>2. CASE UnsubscribeCall(g) \/ UnsubscribeStep(g)
    BY <2>2, CallTyped DEF UnsubscribeCall, UnsubscribeStep, UnsubscribeSend,
       UnsubscribeAnswer, UnsubscribeFind, UnsubscribeClose, UnsubscribeRemove,
       UnsubscribeUnlock, ReturnSubscribe, Begin, Panic, Done, Goto, At,
       callVars, DullCalls, PublishPoints, Preparations, AckPoints,
       IncomingPoints
  <2>3. QED
    BY <2>1, <2>2
<1>2. DullStore /\ DullQueue(toClient, toClient')
  BY DEF SubscribeCall, SubscribeStep, SubscribeLock, SubscribeSend,
     SubscribeAnswer, SubscribeBind, SubscribeUnregister, SubscribeClose,
     ResponseDelete, UnsubscribeCall, UnsubscribeStep, UnsubscribeSend,
     UnsubscribeAnswer, UnsubscribeFind, UnsubscribeClose, UnsubscribeRemove,
     UnsubscribeUnlock,
     Panic, storeVars, wireVars, DullStore, Stored, DullQueue
<1>3. DullQueue(toServer, toServer')
  <2>1. \A id \in PubIds, t \in {"SUBSCRIBE", "UNSUBSCRIBE"} :
          LET p == About(Packet(t, id), FiltersOf(topics[g]))
          IN  p \in Packets /\ Dull(p)
    BY RequestTyped DEF TypeOK, ClientType, EventType, About, Packet, Dull
  <2>2. QED
    BY <2>1 DEF SubscribeCall, SubscribeStep, SubscribeLock, SubscribeSend,
       SubscribeAnswer, SubscribeBind, SubscribeUnregister, SubscribeClose,
       ResponseDelete, UnsubscribeCall, UnsubscribeStep, UnsubscribeSend,
       UnsubscribeAnswer, UnsubscribeFind, UnsubscribeClose, UnsubscribeRemove,
       UnsubscribeUnlock, Panic, Write, wireVars, DullQueue
<1>4. QED
  BY <1>1, <1>2, <1>3 DEF Calm

(* Poll, but for the packets that it reads and the acknowledgements *)
LEMMA PollCalm ==
  ASSUME TypeOK, OutgoingInv, SeparateIds, NEW g \in Goroutines,
         \/ PollCall(g) \/ PollLock(g) \/ PollNothing(g) \/ PollPublish(g)
         \/ PollAck(g) \/ PollCredit(g) \/ PollRoute(g) \/ PollSignal(g)
         \/ PollStore(g) \/ PollPubrel(g) \/ PollRelease(g)
         \/ PollResponse(g) \/ PollFanout(g) \/ PollPingresp(g)
         \/ PollDisconnect(g)
  PROVE  Calm
<1>1. DullCalls
  <2>1. CASE \/ PollCall(g) \/ PollLock(g) \/ PollNothing(g) \/ PollPublish(g)
             \/ PollAck(g) \/ PollCredit(g) \/ PollRoute(g) \/ PollPubrel(g)
    BY <2>1, CallTyped DEF PollCall, PollLock, PollNothing, PollPublish,
       PollAck, PollCredit, PollRoute, PollPubrel, DisconnectWithReason,
       PollReturn, Done, Goto, At, DullCalls, PublishPoints, Preparations,
       AckPoints, IncomingPoints
  <2>2. CASE \/ PollSignal(g) \/ PollStore(g) \/ PollRelease(g)
             \/ PollResponse(g) \/ PollFanout(g) \/ PollPingresp(g)
             \/ PollDisconnect(g)
    BY <2>2, CallTyped DEF PollSignal, PollStore, PollRelease, PollResponse,
       PollFanout, PollPingresp, PollDisconnect, Panic,
       PollReturn, Done, Goto, At, callVars, DullCalls, PublishPoints,
       Preparations, AckPoints, IncomingPoints
  <2>3. QED
    BY <2>1, <2>2
<1>2. pc[g] \in IncomingPoints => arg[g].id \notin PubIds
  BY DEF OutgoingInv, IncomingIds
<1>3. DullStore
  <2>1. CASE PollStore(g) \/ PollPubrel(g)
    <3>1. arg[g].id \notin PubIds /\ UNCHANGED owed
      BY <1>2, <2>1 DEF PollStore, PollPubrel, At, IncomingPoints
    <3>2. /\ storage \in [Ids -> Kept]
          /\ \/ storage' = storage
             \/ \E k \in Kept : storage' = [storage EXCEPT ![arg[g].id] = k]
      BY <2>1 DEF PollStore, PollPubrel, TypeOK, ClientType, StoreType, Kept
    <3>3. QED
      BY <3>1, <3>2 DEF DullStore, Stored, Ids
  <2>2. QED
    BY <2>1 DEF PollCall, PollLock, PollNothing, PollPublish, PollAck,
       PollCredit, PollRoute, PollSignal, PollRelease, PollResponse,
       PollFanout, PollPingresp, PollDisconnect, Panic, storeVars,
       DullStore, Stored
<1>4. DullQueue(toClient, toClient')
  BY DEF PollCall, PollLock, PollNothing, PollPublish, PollAck, PollCredit,
     PollRoute, PollSignal, PollStore, PollPubrel, PollRelease, PollResponse,
     PollFanout, PollPingresp, PollDisconnect, Panic, wireVars,
     DullQueue
<1>5. DullQueue(toServer, toServer')
  <2>1. CASE PollAck(g) \/ PollRelease(g)
    <3>1. arg[g].id \notin PubIds
      BY <1>2, <2>1 DEF IncomingPoints, PollAck, PollRelease, At
    <3>2. \A t \in {"PUBACK", "PUBREC", "PUBCOMP"} :
            Packet(t, arg[g].id) \in Packets /\ Dull(Packet(t, arg[g].id))
      BY <3>1, CallTyped, OtherDull DEF PacketTypes
    <3>3. QED
      BY <2>1, <3>2 DEF PollAck, PollRelease, Write, DullQueue
  <2>2. QED
    BY <2>1 DEF PollCall, PollLock, PollNothing, PollPublish, PollCredit,
       PollRoute, PollSignal, PollStore, PollPubrel, PollResponse,
       PollFanout, PollPingresp, PollDisconnect, Panic, wireVars,
       DullQueue
<1>6. QED
  BY <1>1, <1>3, <1>4, <1>5 DEF Calm

(* What the broker sends of its own accord, or in answer to anything but a *)
(* message of the client                                                   *)
LEMMA BrokerDull ==
  ASSUME SeparateIds, NEW id \in BrokerIds \cup {0}, NEW fs \in SUBSET Filters
  PROVE  /\ \A q \in 0..2 :
              /\ About(Publish(id, q), fs) \in Packets
              /\ Dull(About(Publish(id, q), fs))
         /\ \A t \in PacketTypes : /\ Packet(t, id) \in Packets
                                   /\ Dull(Packet(t, id))
<1>1. id \in Ids /\ id \notin PubIds
  BY DEF SeparateIds, Ids
<1>2. QED
  BY <1>1, PacketTyped, AboutTyped DEF Publish, Packet, About, Dull

LEMMA BrokerCalm ==
  ASSUME TypeOK, OutgoingInv, SeparateIds,
         \/ TakeConnect \/ TakePuback \/ TakePubrec \/ TakePubcomp
         \/ TakePingreq \/ TakeDisconnect \/ TakeSubscribe \/ TakeUnsubscribe
         \/ BrokerPublish \/ BrokerResend \/ BrokerUnprompted
  PROVE  Calm
<1>1. UNCHANGED <<pc, arg, storeVars>> /\ DullQueue(toServer, toServer')
  BY DEF TakeConnect, TakePuback, TakePubrec, TakePubcomp, TakePingreq,
     TakeDisconnect, TakeSubscribe, TakeUnsubscribe, Takes, BrokerPublish,
     BrokerResend, BrokerUnprompted, clientOnly, callVars, DullQueue
<1>2. DullStore /\ DullCalls
  BY <1>1 DEF DullStore, Stored, storeVars, DullCalls
<1>3. DullQueue(toClient, toClient')
  <2>1. CASE TakeConnect
    <3>1. \A c \in Codes : /\ Reply("CONNACK", 0, c) \in Packets
                           /\ Dull(Reply("CONNACK", 0, c))
      BY PacketTyped DEF Reply, Packet, Dull, PacketTypes
    <3>2. Packet("DISCONNECT", 0) \in Packets /\ Dull(Packet("DISCONNECT", 0))
      BY BrokerDull DEF PacketTypes
    <3>3. QED
      BY <2>1, <3>1, <3>2, BrokerAssumption DEF TakeConnect, Answer, DullQueue
  <2>2. CASE TakePuback \/ TakePubcomp \/ TakeDisconnect
    BY <2>2 DEF TakePuback, TakePubcomp, TakeDisconnect, DullQueue
  <2>3. CASE TakePubrec
    <3>1. Head(toServer) \in Packets /\ Head(toServer) \notin ForeignOut
      BY <2>3, WireTyped, QueueTail
         DEF TakePubrec, Takes, OutgoingInv, IncomingIds
    <3>2. Head(toServer).id \in Ids /\ Head(toServer).id \notin PubIds
      BY <2>3, <3>1 DEF TakePubrec, Takes, ForeignOut, Packets
    <3>3. QED
      BY <2>3, <3>2, PacketTyped
         DEF TakePubrec, Answer, DullQueue, Packet, Dull, PacketTypes
  <2>4. CASE TakePingreq
    BY <2>4, BrokerDull DEF TakePingreq, Answer, DullQueue, PacketTypes
  <2>5. CASE TakeSubscribe \/ TakeUnsubscribe
    <3>1. Head(toServer).id \in Ids /\ Head(toServer).filters \in SUBSET Filters
      <4>1. toServer # <<>>
        BY <2>5 DEF TakeSubscribe, TakeUnsubscribe, Takes
      <4>2. Head(toServer) \in Packets
        BY <4>1, WireTyped
      <4>3. QED
        BY <4>2 DEF Packets
    <3>2. \A fs \in Grants(Head(toServer).filters) : fs \in SUBSET Filters
      BY <3>1 DEF Grants
    <3>3. QED
      BY <2>5, <3>1, <3>2, OtherDull
         DEF TakeSubscribe, TakeUnsubscribe, Answer, DullQueue, PacketTypes
  <2>6. CASE BrokerPublish
    BY <2>6, BrokerDull, BrokerAssumption DEF BrokerPublish, Sends, DullQueue
  <2>7. CASE BrokerResend
    <3>1. redo \subseteq BrokerIds
      BY DEF TypeOK, BrokerType
    <3>2. PICK id \in BrokerIds, fs \in SUBSET Filters :
            \/ Sends(About(Publish(id, 1), fs))
            \/ Sends(About(Publish(id, 2), fs))
            \/ Sends(Packet("PUBREL", id))
      BY <2>7, <3>1 DEF BrokerResend
    <3>3. /\ About(Publish(id, 1), fs) \in Packets /\ Dull(About(Publish(id, 1), fs))
          /\ About(Publish(id, 2), fs) \in Packets /\ Dull(About(Publish(id, 2), fs))
          /\ Packet("PUBREL", id) \in Packets /\ Dull(Packet("PUBREL", id))
      BY BrokerDull DEF PacketTypes
    <3>4. PICK p \in Packets : Sends(p) /\ Dull(p)
      BY <3>2, <3>3
    <3>5. QED
      BY <3>4 DEF Sends, DullQueue
  <2>8. CASE BrokerUnprompted
    BY <2>8, BrokerDull, BrokerAssumption DEF BrokerUnprompted, Sends, DullQueue
  <2>9. QED
    BY <2>1, <2>2, <2>3, <2>4, <2>5, <2>6, <2>7, <2>8
<1>4. QED
  BY <1>1, <1>2, <1>3 DEF Calm

LEMMA WorldCalm ==
  ASSUME \/ ConnLost \/ PingDeadlinePasses \/ Restart \/ UNCHANGED vars
         \/ \E c \in Channels : Application(c)
  PROVE  Calm
BY DEF ConnLost, PingDeadlinePasses, Restart, vars, clientVars, Application,
   CreateEventChannel, CloseEventChannel, CloseEventChannelEnd,
   ReceiveEvent, clientOnly, callVars,
   wireVars, storeVars, Calm, DullStore, Stored, DullCalls, DullQueue,
   PublishPoints, Preparations, AckPoints, IncomingPoints

-----------------------------------------------------------------------------
(* The steps that begin, carry on or end the handshake of one message *)

LEMMA FewerByParts ==
  ASSUME NEW S,
         \A id \in S :
           /\ FewerOf(toServer, toServer', Requests(id))
           /\ FewerOf(toClient, toClient', Acks(id))
           /\ id \in owed' => id \in owed
           /\ Stored(id) => Stored(id)'
           /\ \A h \in Goroutines : /\ Handling(h, id)' => Handling(h, id)
                                    /\ Preparing(h, id)' => Preparing(h, id)
  PROVE  Fewer(S)
BY DEF Fewer, FewerOf, NoRequest, OneRequest, NoAck, OneAck

(* One message is dealt with by itself, nothing is new for the others. *)
LEMMA OneMessage ==
  ASSUME OutgoingInv, NEW i, Fewer(PubIds \ {i}),
         i \in PubIds => AckInv(i)' /\ (Resting(i) => Resting(i)'),
         PublishArgs', IncomingIds', owed' \subseteq PubIds
  PROVE  OutgoingInv' /\ RestKept(PubIds)
<1>1. \A id \in PubIds \ {i} : AckInv(id)'
  BY FewerInv DEF OutgoingInv
<1>2. QED
  BY <1>1, FewerRest DEF OutgoingInv, RestKept

LEMMA PublishCallOutgoing ==
  ASSUME TypeOK, OutgoingInv, SeparateIds, NEW g \in Goroutines, PublishCall(g)
  PROVE  OutgoingInv' /\ RestKept(PubIds)
<1>1. /\ pc[g] = "idle" /\ pc' = [pc EXCEPT ![g] = "pub_lock"]
      /\ \E q \in QoSLevels : arg' = [arg EXCEPT ![g] = Publish(0, q)]
      /\ UNCHANGED <<toServer, toClient, owed, storage>>
  BY DEF PublishCall, Begin, Goto, At, wireVars, storeVars
<1>2. PublishArgs' /\ IncomingIds'
  BY <1>1, CallTyped DEF OutgoingInv, PublishArgs, IncomingIds, Publish, Packet,
     PublishPoints, Preparations, IncomingPoints
<1>3. Fewer(PubIds)
  <2>1. \A id \in PubIds : /\ FewerOf(toServer, toServer', Requests(id))
                           /\ FewerOf(toClient, toClient', Acks(id))
    BY <1>1 DEF FewerOf
  <2>2. \A id \in PubIds : /\ id \in owed' => id \in owed
                           /\ Stored(id) => Stored(id)'
    BY <1>1 DEF Stored
  <2>3. \A id \in PubIds, h \in Goroutines :
          /\ Handling(h, id)' => Handling(h, id)
          /\ Preparing(h, id)' => Preparing(h, id)
    BY <1>1, CallTyped DEF Handling, Preparing, AckPoints, Preparations
  <2>4. QED
    BY <2>1, <2>2, <2>3, FewerByParts
<1>4. QED
  BY <1>1, <1>2, <1>3, FewerInv, FewerRest DEF OutgoingInv

LEMMA PublishStoreOutgoing ==
  ASSUME TypeOK, OutgoingInv, SeparateIds, HasStorage,
         NEW g \in Goroutines, PublishStore(g)
  PROVE  OutgoingInv' /\ RestKept(PubIds)
<1>1. pc[g] = "pub_store" /\ UNCHANGED <<toServer, toClient, owed>>
  BY DEF PublishStore, At, wireVars
<1>2. CASE storage' = storage /\ Done(g)
  <2>1. DullStore /\ DullQueue(toServer, toServer') /\ DullQueue(toClient, toClient')
    BY <1>1, <1>2 DEF DullStore, Stored, DullQueue
  <2>2. DullCalls
    BY <1>2, CallTyped DEF Done, Goto, DullCalls, PublishPoints, Preparations,
       AckPoints, IncomingPoints
  <2>3. QED
    BY <2>1, <2>2, CalmInv DEF Calm
<1>3. ASSUME NEW i \in PubIds, ~ Stored(i),
             storage' = [storage EXCEPT ![i] = "PUBLISH"],
             arg' = [arg EXCEPT ![g].id = i],
             pc' = [pc EXCEPT ![g] = "pub_quota"]
      PROVE  OutgoingInv' /\ RestKept(PubIds)
  <2>1. i \in Ids /\ storage \in [Ids -> Kept]
    BY DEF Ids, TypeOK, ClientType, StoreType
  <2>2. Stored(i)' /\ \A id \in PubIds \ {i} : Stored(id)' = Stored(id)
    BY <1>3, <2>1 DEF Stored, Ids
  <2>3. /\ arg'[g].id = i /\ arg'[g].qos = arg[g].qos
        /\ arg'[g].type = arg[g].type
        /\ \A h \in Goroutines \ {g} : arg'[h] = arg[h] /\ pc'[h] = pc[h]
        /\ pc'[g] = "pub_quota"
    BY <1>3, CallTyped DEF Packets
  <2>4. PublishArgs'
    BY <1>1, <2>3 DEF OutgoingInv, PublishArgs, PublishPoints, Preparations
  <2>5. IncomingIds'
    BY <1>1, <2>3 DEF OutgoingInv, IncomingIds, IncomingPoints
  <2>6. \A h \in Goroutines, id \in PubIds :
          /\ Handling(h, id)' => Handling(h, id)
          /\ Preparing(h, id)' => Preparing(h, id) \/ (h = g /\ id = i)
    BY <2>3 DEF Handling, Preparing, AckPoints
  <2>7. Fewer(PubIds \ {i})
    <3>1. \A id \in PubIds \ {i} : /\ FewerOf(toServer, toServer', Requests(id))
                                   /\ FewerOf(toClient, toClient', Acks(id))
      BY <1>1 DEF FewerOf
    <3>2. QED
      BY <1>1, <2>2, <2>6, <3>1, FewerByParts
  <2>8. AckInv(i)' /\ Resting(i)'
    <3>1. AckInv(i) /\ Resting(i) /\ \A h \in Goroutines : ~ Preparing(h, i)
      BY <1>3 DEF OutgoingInv, AckInv
    <3>2. Resting(i)'
      BY <1>1, <2>6, <3>1 DEF Resting, NoRequest, NoAck, Unhandled
    <3>3. OnePlace(i)'
      BY <1>1, <3>1, <3>2 DEF AckInv, OnePlace, OneRequest, OneAck, Resting
    <3>4. QED
      BY <2>2, <2>6, <3>1, <3>2, <3>3 DEF AckInv
  <2>9. QED
    BY <1>1, <2>4, <2>5, <2>7, <2>8, OneMessage DEF OutgoingInv
<1>4. QED
  BY <1>2, <1>3 DEF PublishStore, Goto

Sending(g) == PublishSend(g) /\ conn = "open" /\ arg[g].qos # 0

LEMMA PublishSendOutgoing ==
  ASSUME TypeOK, OutgoingInv, SeparateIds, NEW g \in Goroutines,
         Sending(g)
  PROVE  OutgoingInv' /\ RestKept(PubIds \ {arg[g].id})
<1> DEFINE i == arg[g].id
<1>1. /\ pc[g] = "pub_send" /\ pc' = [pc EXCEPT ![g] = "pub_count"]
      /\ toServer' = Append(toServer, arg[g]) /\ owed' = owed \cup {arg[g].id}
      /\ UNCHANGED <<arg, toClient, storage>>
  BY CallTyped DEF Sending, PublishSend, Done, Goto, Write, At
<1>2. /\ arg[g] \in Packets /\ arg[g].type = "PUBLISH"
      /\ i \in PubIds /\ Preparing(g, i)
  BY <1>1, CallTyped DEF Sending, OutgoingInv, PublishArgs, PublishPoints,
     Preparations, Preparing
<1>3. \A h \in Goroutines, id \in PubIds :
        /\ Handling(h, id)' => Handling(h, id)
        /\ Preparing(h, id)' => Preparing(h, id) /\ h # g
  BY <1>1, CallTyped DEF Handling, Preparing, AckPoints, Preparations
<1>4. PublishArgs'
  BY <1>1, CallTyped DEF OutgoingInv, PublishArgs, PublishPoints, Preparations
<1>5. IncomingIds'
  <2>1. arg[g] \notin ForeignOut
    BY <1>2 DEF ForeignOut
  <2>2. NoneOf(toServer', ForeignOut)
    BY <1>1, <1>2, <2>1, WireTyped, QueueAppend DEF OutgoingInv, IncomingIds
  <2>3. QED
    BY <1>1, <2>2, CallTyped DEF OutgoingInv, IncomingIds, IncomingPoints
<1>6. \A id \in PubIds : Stored(id)' = Stored(id)
  BY <1>1 DEF Stored
<1>7. ASSUME NEW j \in PubIds, j = i
      PROVE  AckInv(j)' /\ Fewer(PubIds \ {j})
  <2>1. Fewer(PubIds \ {j})
    <3>1. \A id \in PubIds \ {j} : arg[g] \notin Requests(id)
      BY <1>7 DEF Requests
    <3>2. \A id \in PubIds \ {j} : /\ FewerOf(toServer, toServer', Requests(id))
                                   /\ FewerOf(toClient, toClient', Acks(id))
      BY <1>1, <1>2, <3>1, WireTyped, QueueFewer
    <3>3. QED
      BY <1>1, <1>3, <1>6, <1>7, <3>2, FewerByParts
  <2>2. /\ AckInv(j) /\ Stored(j) /\ Resting(j)
        /\ \A h \in Goroutines : Preparing(h, j) => h = g
    BY <1>2, <1>7 DEF OutgoingInv, AckInv
  <2>3. OneRequest(j)' /\ OneAck(j)' /\ NoAck(j)' /\ Unhandled(j)'
    <3>1. OneRequest(j)'
      BY <1>1, <1>2, <2>2, WireTyped, QueueAppend
         DEF Resting, NoRequest, OneRequest
    <3>2. OneAck(j)' /\ NoAck(j)' /\ Unhandled(j)'
      BY <1>1, <1>3, <2>2
         DEF AckInv, OnePlace, Resting, NoAck, OneAck, Unhandled
    <3>3. QED
      BY <3>1, <3>2
  <2>4. Stored(j)' /\ \A h \in Goroutines : ~ Preparing(h, j)'
    BY <1>3, <1>6, <2>2
  <2>5. QED
    BY <2>1, <2>3, <2>4 DEF AckInv, OnePlace
<1>8. PICK j \in PubIds : j = i
  BY <1>2
<1>9. \A id \in PubIds \ {j} : AckInv(id)'
  BY <1>7, <1>8, FewerInv DEF OutgoingInv
<1>10. QED
  BY <1>1, <1>2, <1>4, <1>5, <1>7, <1>8, <1>9, FewerRest DEF OutgoingInv

LEMMA PollReadOutgoing ==
  ASSUME TypeOK, LockInv, OutgoingInv, SeparateIds, NEW g \in Goroutines,
         PollRead(g)
  PROVE  OutgoingInv' /\ RestKept(PubIds)
<1>1. /\ pc[g] = "poll_read" /\ toClient # <<>> /\ toClient' = Tail(toClient)
      /\ UNCHANGED <<toServer, owed, storage>>
  BY DEF PollRead, At, storeVars
<1>2. CASE PollReturn(g)
  <2>1. DullStore /\ DullQueue(toServer, toServer') /\ DullQueue(toClient, toClient')
    BY <1>1 DEF DullStore, Stored, DullQueue
  <2>2. DullCalls
    BY <1>1, <1>2, CallTyped DEF PollReturn, Done, Goto, DullCalls,
       PublishPoints, Preparations, AckPoints, IncomingPoints
  <2>3. QED
    BY <2>1, <2>2, CalmInv DEF Calm
<1>3. ASSUME NEW p, p = Head(toClient), p.type \in DOMAIN Handler,
             arg' = [arg EXCEPT ![g] = p],
             pc' = [pc EXCEPT ![g] = Handler[p.type]]
      PROVE  OutgoingInv' /\ RestKept(PubIds)
  <2>1. p \in Packets /\ p \notin ForeignIn
    BY <1>1, <1>3, WireTyped, QueueTail DEF OutgoingInv, IncomingIds
  <2>2. /\ arg'[g] = p /\ pc'[g] = Handler[p.type]
        /\ \A h \in Goroutines \ {g} : arg'[h] = arg[h] /\ pc'[h] = pc[h]
    BY <1>3, CallTyped
  <2>3. /\ pc'[g] \notin PublishPoints
        /\ pc'[g] \in AckPoints => p.type \in {"PUBACK", "PUBREC", "PUBCOMP"}
        /\ pc'[g] \in IncomingPoints => p.type \in {"PUBLISH", "PUBREL"}
    BY <1>3, <2>2 DEF Handler, PublishPoints, Preparations, AckPoints,
       IncomingPoints
  <2>4. PublishArgs'
    BY <2>2, <2>3 DEF OutgoingInv, PublishArgs
  <2>5. IncomingIds'
    <3>1. NoneOf(toClient', ForeignIn) /\ NoneOf(toServer', ForeignOut)
      BY <1>1, WireTyped, QueueTail DEF OutgoingInv, IncomingIds
    <3>2. QED
      BY <2>1, <2>2, <2>3, <3>1 DEF OutgoingInv, IncomingIds, ForeignIn
  <2>6. \A h \in Goroutines, id \in PubIds :
          /\ Handling(h, id)' => Handling(h, id) \/ p \in Acks(id)
          /\ Preparing(h, id)' => Preparing(h, id)
    BY <2>1, <2>2, <2>3 DEF Handling, Preparing, PublishPoints, Acks
  <2>7. \A id \in PubIds : Stored(id)' = Stored(id)
    BY <1>1 DEF Stored
  <2>8. \A id \in PubIds : FewerOf(toServer, toServer', Requests(id))
                        /\ FewerOf(toClient, toClient', Acks(id))
    BY <1>1, WireTyped, QueueFewer
  <2>9. ASSUME NEW j \in PubIds, p \in Acks(j)
        PROVE  AckInv(j)' /\ ~ Resting(j)
    <3>1. ~ NoAck(j) /\ AckInv(j)
      BY <1>1, <1>3, <2>9, WireTyped, QueueTail DEF NoAck, OutgoingInv
    <3>2. NoRequest(j) /\ Stored(j) /\ \A h \in Goroutines : ~ Preparing(h, j)
      BY <3>1 DEF AckInv, OnePlace, Resting
    <3>3. NoAck(j)'
      BY <1>1, <1>3, <2>9, <3>1, WireTyped, QueueTail
         DEF AckInv, OnePlace, OneAck, NoAck
    <3>4. NoRequest(j)' /\ OneRequest(j)' /\ OneAck(j)'
      BY <2>8, <3>1, <3>2
         DEF FewerOf, AckInv, OnePlace, NoRequest, OneRequest, OneAck
    <3>5. QED
      BY <2>6, <2>7, <3>1, <3>2, <3>3, <3>4 DEF AckInv, OnePlace, Resting
  <2>10. Fewer({id \in PubIds : p \notin Acks(id)})
    BY <1>1, <2>6, <2>7, <2>8, FewerByParts
  <2>11. \A id \in PubIds : p \notin Acks(id) => AckInv(id)'
    BY <2>10, FewerInv DEF OutgoingInv
  <2>12. QED
    BY <1>1, <2>4, <2>5, <2>9, <2>10, <2>11, FewerRest
       DEF OutgoingInv, RestKept
<1>4. QED
  BY <1>2, <1>3 DEF PollRead, Goto

(* A handler of an acknowledgement: the one place where its message is *)
LEMMA HandlingAlone ==
  ASSUME LockInv, OutgoingInv, NEW g \in Goroutines, pc[g] \in AckPoints,
         NEW j \in PubIds, j = arg[g].id
  PROVE  /\ \A h \in Goroutines : Handling(h, j) => h = g
         /\ AckInv(j) /\ NoRequest(j) /\ NoAck(j) /\ Stored(j) /\ ~ Resting(j)
         /\ \A h \in Goroutines : ~ Preparing(h, j)
<1>1. Handling(g, j) /\ AckInv(j)
  BY DEF Handling, OutgoingInv
<1>2. \A h \in Goroutines : Handling(h, j) => h = g
  BY DEF Handling, AckPoints, LockInv, LockOwners, HoldsConn, PollHolds
<1>3. NoRequest(j) /\ NoAck(j) /\ Stored(j)
  BY <1>1 DEF AckInv, OnePlace, Resting, Unhandled
<1>4. \A h \in Goroutines : ~ Preparing(h, j)
  BY <1>1 DEF AckInv, Resting, Unhandled
<1>5. QED
  BY <1>1, <1>2, <1>3, <1>4 DEF Resting, Unhandled

LEMMA CompletedOutgoing ==
  ASSUME TypeOK, LockInv, OutgoingInv, SeparateIds, NEW g \in Goroutines,
         PollPuback(g) \/ PollPubcomp(g)
  PROVE  /\ OutgoingInv' /\ RestKept(PubIds)
         /\ arg[g].id \in PubIds => ~ Resting(arg[g].id)
         /\ \A id \in PubIds : id = arg[g].id => Resting(id)'
<1>1. /\ pc[g] \in AckPoints /\ UNCHANGED <<toServer, toClient>>
      /\ owed' = owed \ {arg[g].id}
      /\ \/ storage' = storage
         \/ storage' = [storage EXCEPT ![arg[g].id] = "none"]
  BY DEF PollPuback, PollPubcomp, Completed, At, wireVars, AckPoints
<1>2. /\ \A h \in Goroutines \ {g} :
           /\ arg'[h] = arg[h]
           /\ pc'[h] = pc[h] \/ (pc[h] = "pub_parked" /\ pc'[h] = "pub_relock")
      /\ pc'[g] \in {"idle", "poll_fanout"}
  <2>1. \A h \in Goroutines \ {g} :
          pc'[h] = pc[h] \/ (pc[h] = "pub_parked" /\ pc'[h] = "pub_relock")
    BY ConstantsAssumption DEF PollPuback, PollPubcomp, Completed,
       GotoReleasing, Released, Parked, At
  <2>2. /\ \A h \in Goroutines \ {g} : arg'[h] = arg[h]
        /\ pc'[g] \in {"idle", "poll_fanout"}
    BY CallTyped DEF PollPuback, PollPubcomp, Completed, GotoReleasing
  <2>3. QED
    BY <2>1, <2>2
<1>3. PublishArgs' /\ IncomingIds'
  <2>1. PublishArgs'
    BY <1>2 DEF OutgoingInv, PublishArgs, PublishPoints, Preparations
  <2>2. IncomingIds'
    BY <1>1, <1>2 DEF OutgoingInv, IncomingIds, IncomingPoints
  <2>3. QED
    BY <2>1, <2>2
<1>4. \A h \in Goroutines, id \in PubIds :
        /\ Handling(h, id)' => Handling(h, id) /\ h # g
        /\ Preparing(h, id)' => Preparing(h, id)
  BY <1>2 DEF Handling, Preparing, AckPoints, Preparations
<1>5. \A id \in PubIds : id # arg[g].id => Stored(id)' = Stored(id)
  BY <1>1 DEF Stored, TypeOK, ClientType, StoreType, Ids
<1>6. ASSUME NEW j, j = arg[g].id
      PROVE  Fewer(PubIds \ {j})
  <2>1. \A id \in PubIds \ {j} : /\ FewerOf(toServer, toServer', Requests(id))
                                 /\ FewerOf(toClient, toClient', Acks(id))
    BY <1>1 DEF FewerOf
  <2>2. QED
    BY <1>1, <1>4, <1>5, <1>6, <2>1, FewerByParts
<1>7. ASSUME NEW j \in PubIds, j = arg[g].id
      PROVE  AckInv(j)' /\ Resting(j)' /\ ~ Resting(j)
  <2>1. /\ \A h \in Goroutines : Handling(h, j) => h = g
        /\ AckInv(j) /\ NoRequest(j) /\ NoAck(j) /\ Stored(j) /\ ~ Resting(j)
        /\ \A h \in Goroutines : ~ Preparing(h, j)
    BY <1>1, <1>7, HandlingAlone
  <2>2. NoRequest(j)' /\ NoAck(j)' /\ OneRequest(j)' /\ OneAck(j)'
    BY <1>1, <2>1
       DEF NoRequest, NoAck, OneRequest, OneAck, AckInv, OnePlace
  <2>3. Unhandled(j)' /\ \A h \in Goroutines : ~ Preparing(h, j)'
    BY <1>4, <2>1 DEF Unhandled
  <2>4. Resting(j)'
    BY <1>1, <1>7, <2>2, <2>3 DEF Resting
  <2>5. QED
    BY <2>1, <2>2, <2>3, <2>4 DEF AckInv, OnePlace
<1>8. owed' \subseteq PubIds
  BY <1>1 DEF OutgoingInv
<1>9. QED
  BY <1>3, <1>6, <1>7, <1>8, OneMessage

LEMMA PollPubrecOutgoing ==
  ASSUME TypeOK, LockInv, OutgoingInv, SeparateIds, NEW g \in Goroutines,
         PollPubrec(g)
  PROVE  OutgoingInv' /\ RestKept(PubIds)
<1> DEFINE rel == Packet("PUBREL", arg[g].id)
<1>1. /\ pc[g] \in AckPoints /\ UNCHANGED toClient
      /\ toServer' = toServer \/ toServer' = Append(toServer, rel)
      /\ \/ /\ pc' = [pc EXCEPT ![g] = "idle"]
            /\ arg' = [arg EXCEPT ![g] = NoPacket]
         \/ pc' = [pc EXCEPT ![g] = "poll_fanout"] /\ arg' = arg
  BY DEF PollPubrec, PollReturn, Done, Goto, Write, At, AckPoints
<1>2. /\ owed' = owed \/ owed' = owed \ {arg[g].id}
      /\ storage' = storage \/ storage' = [storage EXCEPT ![arg[g].id] = "PUBREC"]
  BY DEF PollPubrec
<1>3. rel \in Packets /\ rel.type = "PUBREL" /\ rel.id = arg[g].id
  BY CallTyped, PacketTyped DEF Packet, PacketTypes
<1>4. \A h \in Goroutines, id \in PubIds :
        /\ Handling(h, id)' => Handling(h, id) /\ h # g
        /\ Preparing(h, id)' => Preparing(h, id)
  BY <1>1, CallTyped DEF Handling, Preparing, AckPoints, Preparations
<1>5. PublishArgs'
  BY <1>1, CallTyped DEF OutgoingInv, PublishArgs, PublishPoints, Preparations
<1>6. IncomingIds'
  <2>1. rel \notin ForeignOut
    BY <1>3 DEF ForeignOut
  <2>2. NoneOf(toServer', ForeignOut)
    BY <1>1, <1>3, <2>1, WireTyped, QueueAppend DEF OutgoingInv, IncomingIds
  <2>3. QED
    BY <1>1, <2>2, CallTyped DEF OutgoingInv, IncomingIds, IncomingPoints
<1>7. \A id \in PubIds : Stored(id) => Stored(id)'
  BY <1>2 DEF Stored, TypeOK, ClientType, StoreType, Ids
<1>8. ASSUME NEW j, j = arg[g].id
      PROVE  Fewer(PubIds \ {j})
  <2>1. \A id \in PubIds \ {j} : rel \notin Requests(id)
    BY <1>3, <1>8 DEF Requests
  <2>2. \A id \in PubIds \ {j} : /\ FewerOf(toServer, toServer', Requests(id))
                                 /\ FewerOf(toClient, toClient', Acks(id))
    BY <1>1, <1>3, <2>1, WireTyped, QueueFewer
  <2>3. QED
    BY <1>2, <1>4, <1>7, <2>2, FewerByParts
<1>9. ASSUME NEW j \in PubIds, j = arg[g].id
      PROVE  AckInv(j)' /\ ~ Resting(j)
  <2>1. /\ \A h \in Goroutines : Handling(h, j) => h = g
        /\ AckInv(j) /\ NoRequest(j) /\ NoAck(j) /\ Stored(j) /\ ~ Resting(j)
        /\ \A h \in Goroutines : ~ Preparing(h, j)
    BY <1>1, <1>9, HandlingAlone
  <2>2. NoAck(j)' /\ OneAck(j)'
    BY <1>1, <2>1 DEF NoAck, OneAck, AckInv, OnePlace
  <2>3. OneRequest(j)'
    BY <1>1, <1>3, <2>1, WireTyped, QueueAppend
       DEF NoRequest, OneRequest, AckInv, OnePlace
  <2>4. /\ Unhandled(j)' /\ Stored(j)'
        /\ \A h \in Goroutines : ~ Preparing(h, j)'
    BY <1>4, <1>7, <2>1 DEF Unhandled
  <2>5. QED
    BY <2>1, <2>2, <2>3, <2>4 DEF AckInv, OnePlace
<1>10. owed' \subseteq PubIds
  BY <1>2 DEF OutgoingInv
<1>11. QED
  BY <1>5, <1>6, <1>8, <1>9, <1>10, OneMessage

(* The broker takes a request and answers it, unless the connection is     *)
(* gone.                                                                   *)
LEMMA TakeRequestOutgoing ==
  ASSUME TypeOK, OutgoingInv, SeparateIds, TakePublish \/ TakePubrel
  PROVE  OutgoingInv' /\ RestKept(PubIds)
<1>1. /\ toServer # <<>> /\ toServer' = Tail(toServer)
      /\ Head(toServer).type \in {"PUBLISH", "PUBREL"}
      /\ UNCHANGED <<pc, arg, storage, owed>>
  BY DEF TakePublish, TakePubrel, Takes, clientOnly, callVars, storeVars
<1>2. PICK p : p = Head(toServer)
  OBVIOUS
<1>3. p \in Packets /\ p.id \in Ids
  <2>1. p \in Packets
    BY <1>1, <1>2, WireTyped
  <2>2. QED
    BY <2>1 DEF Packets
<1>4. \/ toClient' = toClient
      \/ \E a \in Packets :
           /\ a.type \in {"PUBACK", "PUBREC", "PUBCOMP"} /\ a.id = p.id
           /\ toClient' = Append(toClient, a)
  <2>1. \A t \in {"PUBACK", "PUBREC", "PUBCOMP"}, c \in Codes :
          /\ Reply(t, p.id, c) \in Packets
          /\ Reply(t, p.id, c).type = t /\ Reply(t, p.id, c).id = p.id
    BY <1>3, PacketTyped DEF Reply, Packet, PacketTypes
  <2>2. CASE TakePublish
    BY <1>2, <2>1, <2>2, BrokerAssumption DEF TakePublish, Answer
  <2>3. CASE TakePubrel
    <3>1. PICK c \in {0, 146} : Answer(Reply("PUBCOMP", p.id, c))
      BY <1>2, <2>3 DEF TakePubrel
    <3>2. QED
      BY <2>1, <3>1 DEF Answer, Codes
  <2>4. QED
    BY <2>2, <2>3
<1>5. PublishArgs' /\ IncomingIds'
  <2>1. NoneOf(toServer', ForeignOut)
    BY <1>1, WireTyped, QueueTail DEF OutgoingInv, IncomingIds
  <2>2. \A a \in Packets :
          a.type \in {"PUBACK", "PUBREC", "PUBCOMP"} => a \notin ForeignIn
    BY DEF ForeignIn
  <2>3. NoneOf(toClient', ForeignIn)
    BY <1>4, <2>2, WireTyped, QueueAppend DEF OutgoingInv, IncomingIds
  <2>4. QED
    BY <1>1, <2>1, <2>3 DEF OutgoingInv, PublishArgs, IncomingIds
<1>6. \A h \in Goroutines, id \in PubIds :
        /\ Handling(h, id)' = Handling(h, id)
        /\ Preparing(h, id)' = Preparing(h, id)
        /\ Stored(id)' = Stored(id)
  BY <1>1 DEF Handling, Preparing, Stored
<1>7. \A id \in PubIds : Stored(id)' = Stored(id)
  BY <1>1 DEF Stored
<1>8. ASSUME NEW j, j = p.id
      PROVE  Fewer(PubIds \ {j})
  <2>1. \A id \in PubIds \ {j} :
          \A a \in Packets : a.id = p.id => a \notin Acks(id)
    BY <1>8 DEF Acks
  <2>2. \A id \in PubIds \ {j} : /\ FewerOf(toServer, toServer', Requests(id))
                                 /\ FewerOf(toClient, toClient', Acks(id))
    BY <1>1, <1>4, <2>1, WireTyped, QueueFewer
  <2>3. QED
    BY <1>1, <1>6, <1>7, <2>2, FewerByParts
<1>9. ASSUME NEW j \in PubIds, j = p.id
      PROVE  AckInv(j)' /\ ~ Resting(j)
  <2>1. p \in Requests(j)
    BY <1>1, <1>2, <1>3, <1>9 DEF Requests
  <2>2. ~ NoRequest(j) /\ AckInv(j)
    BY <1>1, <1>2, <2>1, WireTyped, QueueTail DEF NoRequest, OutgoingInv
  <2>3. /\ NoAck(j) /\ Unhandled(j) /\ Stored(j)
        /\ \A h \in Goroutines : ~ Preparing(h, j)
    BY <2>2 DEF AckInv, OnePlace, Resting
  <2>4. NoRequest(j)' /\ OneRequest(j)'
    BY <1>1, <1>2, <2>1, <2>2, WireTyped, QueueTail
       DEF AckInv, OnePlace, NoRequest, OneRequest
  <2>5. OneAck(j)'
    BY <1>4, <2>2, <2>3, WireTyped, QueueAppend
       DEF NoAck, OneAck, AckInv, OnePlace
  <2>6. Unhandled(j)' /\ Stored(j)' /\ \A h \in Goroutines : ~ Preparing(h, j)'
    BY <1>6, <1>7, <2>3 DEF Unhandled
  <2>7. QED
    BY <2>2, <2>4, <2>5, <2>6 DEF AckInv, OnePlace, Resting
<1>10. QED
  BY <1>1, <1>5, <1>8, <1>9, OneMessage DEF OutgoingInv

LEMMA InitOutgoing == Init => OutgoingInv
BY QueueEmpty DEF Init, OutgoingInv, PublishArgs, IncomingIds, AckInv, OnePlace,
   Resting, NoRequest, NoAck, OneRequest, OneAck, Unhandled, Handling,
   Preparing, Preparations, PublishPoints, AckPoints, IncomingPoints

LEMMA GoroutineOutgoing ==
  ASSUME TypeOK, LockInv, OutgoingInv, SeparateIds, HasStorage,
         NEW g \in Goroutines, Call(g) \/ Step(g)
  PROVE  OutgoingInv' /\ (RestKept(PubIds) \/ Sending(g))
<1>1. Calm => OutgoingInv' /\ RestKept(PubIds)
  BY CalmInv
<1>2. CASE PublishCall(g) \/ PublishStore(g)
  BY <1>2, PublishCallOutgoing, PublishStoreOutgoing
<1>3. CASE PublishSend(g)
  BY <1>1, <1>3, PublishSendOutgoing, PublishCalm DEF Sending
<1>4. CASE PollRead(g) \/ PollPuback(g) \/ PollPubcomp(g) \/ PollPubrec(g)
  BY <1>4, PollReadOutgoing, CompletedOutgoing, PollPubrecOutgoing
<1>5. QED
  BY <1>1, <1>2, <1>3, <1>4, PublishCalm, SessionCalm, SubscribeCalm,
     PollCalm DEF Call, Step, PublishStep, PollStep

LEMMA WorldOutgoing ==
  ASSUME TypeOK, OutgoingInv, SeparateIds,
         \/ BrokerStep
         \/ ConnLost \/ PingDeadlinePasses \/ Restart \/ UNCHANGED vars
         \/ \E c \in Channels : Application(c)
  PROVE  OutgoingInv' /\ RestKept(PubIds)
<1>1. Calm => OutgoingInv' /\ RestKept(PubIds)
  BY CalmInv
<1>2. CASE BrokerStep
  BY <1>1, <1>2, BrokerCalm, TakeRequestOutgoing DEF BrokerStep, BrokerTakes
<1>3. CASE ~ BrokerStep
  BY <1>1, <1>3, WorldCalm
<1>4. QED
  BY <1>2, <1>3

LEMMA NextOutgoing ==
  ASSUME TypeOK, LockInv, OutgoingInv, SeparateIds, HasStorage, [Next]_vars
  PROVE  OutgoingInv'
BY GoroutineOutgoing, WorldOutgoing DEF Next

LEMMA OutgoingInductive ==
  Spec => []((SeparateIds /\ HasStorage => OutgoingInv) /\ TypeOK /\ LockInv)
<1>1. Init => (SeparateIds /\ HasStorage => OutgoingInv)
  BY InitOutgoing
<1>2. /\ TypeOK /\ LockInv /\ (SeparateIds /\ HasStorage => OutgoingInv)
      /\ [Next]_vars
      => (SeparateIds /\ HasStorage => OutgoingInv)'
  BY NextOutgoing DEF SeparateIds
<1>3. QED
  BY <1>1, <1>2, Inductive, PTL DEF Spec

-----------------------------------------------------------------------------
(* The theorems *)

(* A message that Publish sent with QoS 1 or 2 stays in the storage until  *)
(* its acknowledgement is handled: however many goroutines publish, and    *)
(* wherever the connection is lost or the application restarted between    *)
(* Store, send, PUBREC, PUBREL and Drop, as long as the broker's           *)
(* identifiers, kept in the same storage, are not the client's.            *)
THEOREM MessagesStayStored == Spec => [](SeparateIds => StoredUntilAcked)
<1>1. (SeparateIds /\ HasStorage => OutgoingInv) => (SeparateIds => StoredUntilAcked)
  BY DEF OutgoingInv, AckInv, Resting, StoredUntilAcked
<1>2. QED
  BY <1>1, OutgoingInductive, PTL

-----------------------------------------------------------------------------
(* What a goroutine writes to the connection, and what it takes from it *)

Writes(g, p) ==
  \/ p.type \in {"CONNECT", "PINGREQ"}
  \/ pc[g] = "sub_send" /\ p.type = "SUBSCRIBE"
  \/ pc[g] = "unsub_lock" /\ p.type = "UNSUBSCRIBE"
  \/ p.type = "DISCONNECT" /\ conn' = "closed"
  \/ pc[g] = "pub_send" /\ p = arg[g]
  \/ pc[g] = "poll_ack" /\ arg[g].qos = 1 /\ p = Packet("PUBACK", arg[g].id)
  \/ pc[g] = "poll_ack" /\ arg[g].qos = 2 /\ p = Packet("PUBREC", arg[g].id)
  \/ pc[g] = "poll_pubrec" /\ p = Packet("PUBREL", arg[g].id)
  \/ pc[g] = "poll_release" /\ p = Packet("PUBCOMP", arg[g].id)

LEMMA GoroutineWrites ==
  ASSUME TypeOK, NEW g \in Goroutines, Call(g) \/ Step(g)
  PROVE  \/ toServer' = toServer
         \/ /\ conn = "open"
            /\ \E p \in Packets : Writes(g, p) /\ toServer' = Append(toServer, p)
<1>1. \A t \in PacketTypes, id \in Ids : Packet(t, id) \in Packets
                                      /\ Packet(t, id).type = t
  BY PacketTyped DEF Packet
<1>2. CASE \/ ConnectStep(g) \/ DisconnectStep(g) \/ KeepAliveStep(g)
  BY <1>1, <1>2 DEF ConnectStep, DisconnectStep, KeepAliveStep, ConnectLock,
     ConnectSend, ConnectFail, ConnectAck, DisconnectLock, DisconnectSend,
     KeepAliveLock, KeepAliveSend, Write, wireVars, Writes, PacketTypes, Ids
<1>3. CASE PublishStep(g)
  BY <1>3, CallTyped DEF PublishStep, PublishLock, PublishStore, PublishQuota,
     PublishPark, PublishRelock, PublishSend, PublishCount, Write, wireVars,
     Writes, At
<1>4. CASE PollStep(g)
  <2>1. CASE PollAck(g) \/ PollRelease(g) \/ PollPubrec(g)
    BY <1>1, <2>1, CallTyped DEF PollAck, PollRelease, PollPubrec, Write, At,
       Writes, PacketTypes
  <2>2. QED
    BY <1>4, <2>1 DEF PollStep, PollLock, PollNothing, PollRead, PollPublish,
       PollCredit, PollRoute, PollSignal, PollStore, PollPuback, PollPubcomp,
       Completed, PollPubrel, PollResponse, PollFanout, PollPingresp,
       PollDisconnect, Panic, wireVars
<1>5. CASE SubscribeStep(g) \/ UnsubscribeStep(g)
  <2>1. \A id \in PubIds, t \in {"SUBSCRIBE", "UNSUBSCRIBE"} :
          LET p == About(Packet(t, id), FiltersOf(topics[g]))
          IN  p \in Packets /\ p.type = t
    BY RequestTyped DEF TypeOK, ClientType, EventType, About, Packet
  <2>2. QED
    BY <1>5, <2>1 DEF SubscribeStep, UnsubscribeStep, SubscribeLock,
       SubscribeSend, SubscribeAnswer, SubscribeBind, SubscribeUnregister,
       SubscribeClose, ResponseDelete, UnsubscribeSend, UnsubscribeAnswer,
       UnsubscribeFind, UnsubscribeClose, UnsubscribeRemove,
     UnsubscribeUnlock, Panic, Write,
       wireVars, Writes, At
<1>6. CASE Call(g)
  BY <1>6 DEF Call, ConnectCall, DisconnectCall, KeepAliveCall, PublishCall,
     PollCall, SubscribeCall, UnsubscribeCall, wireVars
<1>7. QED
  BY <1>2, <1>3, <1>4, <1>5, <1>6 DEF Step

LEMMA GoroutineReads ==
  ASSUME NEW g \in Goroutines, Call(g) \/ Step(g)
  PROVE  \/ UNCHANGED <<toClient, conn>>
         \/ toClient' = <<>> /\ conn' = "closed"
         \/ /\ pc[g] \in {"con_read", "poll_read"} /\ UNCHANGED conn
            /\ toClient # <<>> /\ toClient' = Tail(toClient)
<1>1. CASE Call(g)
  BY <1>1 DEF Call, ConnectCall, DisconnectCall, KeepAliveCall, PublishCall,
     PollCall, SubscribeCall, UnsubscribeCall, wireVars
<1>2. CASE \/ ConnectStep(g) \/ DisconnectStep(g) \/ KeepAliveStep(g)
  BY <1>2 DEF ConnectStep, DisconnectStep, KeepAliveStep, ConnectLock,
     ConnectSend, ConnectFail, ConnectAck, DisconnectLock, DisconnectSend,
     KeepAliveLock, KeepAliveSend, At, wireVars
<1>3. CASE PublishStep(g)
  BY <1>3 DEF PublishStep, PublishLock, PublishStore, PublishQuota,
     PublishPark, PublishRelock, PublishSend, PublishCount, wireVars
<1>4. CASE PollStep(g)
  BY <1>4 DEF PollStep, PollLock, PollNothing, PollRead, PollPublish, PollAck,
     PollCredit, PollRoute, PollSignal, PollStore, PollPuback, PollPubcomp,
     Completed, PollPubrec, PollPubrel, PollRelease, PollResponse,
     PollFanout, PollPingresp, PollDisconnect, Panic, At, wireVars
<1>5. CASE SubscribeStep(g) \/ UnsubscribeStep(g)
  BY <1>5 DEF SubscribeStep, UnsubscribeStep, SubscribeLock, SubscribeSend,
     SubscribeAnswer, SubscribeBind, SubscribeUnregister, SubscribeClose,
     ResponseDelete, UnsubscribeSend, UnsubscribeAnswer, UnsubscribeFind,
     UnsubscribeClose, UnsubscribeRemove, UnsubscribeUnlock, Panic, wireVars
<1>6. QED
  BY <1>1, <1>2, <1>3, <1>4, <1>5 DEF Step

-----------------------------------------------------------------------------
(* What the broker takes and what it sends *)

Says(p) ==
  \/ p.type = "PINGRESP"
  \/ TakeSubscribe /\ p.type = "SUBACK"
  \/ TakeUnsubscribe /\ p.type = "UNSUBACK"
  \/ TakeConnect /\ session /\ p.type = "DISCONNECT"
  \/ TakeConnect /\ ~ session /\ p.type = "CONNACK" /\ (p.code < 128 => session')
  \/ /\ TakePublish /\ Head(toServer).qos = 1
     /\ p.type = "PUBACK" /\ p.id = Head(toServer).id
  \/ /\ TakePublish /\ Head(toServer).qos = 2
     /\ p.type = "PUBREC" /\ p.id = Head(toServer).id /\ p.code \in BrokerCodes
  \/ TakePubrel /\ p.type = "PUBCOMP" /\ p.id = Head(toServer).id
  \/ TakePubrec /\ p = Packet("PUBREL", Head(toServer).id)
  \/ /\ BrokerPublish /\ 0 \in BrokerQoS
     /\ p.type = "PUBLISH" /\ p.qos = 0 /\ p.id = 0
  \/ /\ BrokerPublish /\ p.type = "PUBLISH" /\ p.qos # 0 /\ p.id \in BrokerIds
     /\ p.qos \in BrokerQoS /\ redo = {} /\ brokerOut[p.id] = "free"
     /\ Cardinality(InDelivery) < BrokerLimit
     /\ brokerOut' = [brokerOut EXCEPT
                        ![p.id] = IF p.qos = 1 THEN "pub1" ELSE "pub2"]
  \/ /\ BrokerResend /\ p.id \in redo /\ redo' = redo \ {p.id}
     /\ \/ p.type = "PUBLISH" /\ p.qos = 1 /\ brokerOut[p.id] = "pub1"
        \/ p.type = "PUBLISH" /\ p.qos = 2 /\ brokerOut[p.id] = "pub2"
        \/ p.type = "PUBREL" /\ brokerOut[p.id] \notin {"pub1", "pub2"}
  \/ BrokerUnprompted /\ \E t \in Unprompted : p = Packet(t, 0)

LEMMA HeadTyped ==
  ASSUME TypeOK, toServer # <<>>
  PROVE  /\ Head(toServer) \in Packets /\ Head(toServer).id \in Ids
         /\ Head(toServer).qos \in 0..2 /\ Head(toServer).filters \in SUBSET Filters
<1>1. Head(toServer) \in Packets
  BY WireTyped
<1>2. QED
  BY <1>1 DEF Packets

LEMMA BrokerTakesOne ==
  ASSUME BrokerStep
  PROVE  /\ UNCHANGED <<callVars, linkVars, storeVars, sendVars, recvVars>>
         /\ UNCHANGED <<conn, losses, lockVars>>
         /\ \/ UNCHANGED <<toServer, session>>
            \/ /\ toServer # <<>> /\ toServer' = Tail(toServer)
               /\ session' = session \/ Head(toServer).type = "CONNECT"
                  \/ Head(toServer).type = "DISCONNECT"
BY DEF BrokerStep, BrokerTakes, TakeConnect, TakePublish, TakePubrel,
   TakePuback, TakePubrec, TakePubcomp, TakePingreq, TakeDisconnect,
   TakeSubscribe, TakeUnsubscribe, Takes, BrokerPublish, BrokerResend,
   BrokerUnprompted, clientOnly

LEMMA BrokerSays ==
  ASSUME TypeOK, BrokerStep
  PROVE  \/ toClient' = toClient
         \/ /\ conn = "open"
            /\ \E p \in Packets : Says(p) /\ toClient' = Append(toClient, p)
<1>1. CASE TakeConnect
  <2>1. \A c \in Codes : LET p == Reply("CONNACK", 0, c)
                         IN p \in Packets /\ p.type = "CONNACK" /\ p.code = c
    BY PacketTyped DEF Reply, Packet, PacketTypes
  <2>2. LET p == Packet("DISCONNECT", 0)
        IN p \in Packets /\ p.type = "DISCONNECT"
    BY PacketTyped DEF Packet, PacketTypes
  <2>3. QED
    BY <1>1, <2>1, <2>2, BrokerAssumption DEF TakeConnect, Answer, Says
<1>2. CASE TakePublish
  <2>1. toServer # <<>>
    BY <1>2 DEF TakePublish, Takes
  <2>2. PICK id : id = Head(toServer).id
    OBVIOUS
  <2>3. \A c \in Codes, t \in {"PUBACK", "PUBREC"} :
          LET p == Reply(t, id, c)
          IN p \in Packets /\ p.type = t /\ p.code = c /\ p.id = id
    BY <2>1, <2>2, HeadTyped, PacketTyped DEF Reply, Packet, PacketTypes
  <2>4. QED
    BY <1>2, <2>2, <2>3, BrokerAssumption DEF TakePublish, Answer, Says
<1>3. CASE TakePubrel
  <2>1. toServer # <<>>
    BY <1>3 DEF TakePubrel, Takes
  <2>2. PICK id : id = Head(toServer).id
    OBVIOUS
  <2>3. \A c \in Codes : LET p == Reply("PUBCOMP", id, c)
                         IN p \in Packets /\ p.type = "PUBCOMP" /\ p.id = id
    BY <2>1, <2>2, HeadTyped, PacketTyped DEF Reply, Packet, PacketTypes
  <2>4. PICK c \in {0, 146} : Answer(Reply("PUBCOMP", id, c))
    BY <1>3, <2>2 DEF TakePubrel
  <2>5. QED
    BY <1>3, <2>2, <2>3, <2>4 DEF Answer, Says, Codes
<1>4. CASE TakePubrec
  <2>1. toServer # <<>>
    BY <1>4 DEF TakePubrec, Takes
  <2>2. Packet("PUBREL", Head(toServer).id) \in Packets
    BY <2>1, HeadTyped, PacketTyped DEF PacketTypes
  <2>3. QED
    BY <1>4, <2>2 DEF TakePubrec, Answer, Says
<1>5. CASE TakePuback \/ TakePubcomp \/ TakeDisconnect
  BY <1>5 DEF TakePuback, TakePubcomp, TakeDisconnect
<1>6. CASE TakePingreq
  <2>1. LET p == Packet("PINGRESP", 0) IN p \in Packets /\ p.type = "PINGRESP"
    BY PacketTyped DEF Packet, PacketTypes
  <2>2. QED
    BY <1>6, <2>1 DEF TakePingreq, Answer, Says
<1>7. CASE TakeSubscribe \/ TakeUnsubscribe
  <2>1. toServer # <<>>
    BY <1>7 DEF TakeSubscribe, TakeUnsubscribe, Takes
  <2>2. \A fs \in Grants(Head(toServer).filters) : fs \in SUBSET Filters
    BY <2>1, HeadTyped DEF Grants
  <2>3. \A fs \in SUBSET Filters :
          LET p == About(Packet("SUBACK", Head(toServer).id), fs)
          IN p \in Packets /\ p.type = "SUBACK"
    BY <2>1, HeadTyped, PacketTyped, AboutTyped DEF About, Packet, PacketTypes
  <2>4. LET p == Packet("UNSUBACK", Head(toServer).id)
        IN p \in Packets /\ p.type = "UNSUBACK"
    BY <2>1, HeadTyped, PacketTyped DEF Packet, PacketTypes
  <2>5. QED
    BY <1>7, <2>2, <2>3, <2>4 DEF TakeSubscribe, TakeUnsubscribe, Answer, Says
<1>8. CASE BrokerPublish \/ BrokerResend
  <2>1. \A id \in Ids, q \in 0..2, fs \in SUBSET Filters :
          LET p == About(Publish(id, q), fs)
          IN p \in Packets /\ p.type = "PUBLISH" /\ p.qos = q /\ p.id = id
    BY PacketTyped, AboutTyped DEF About, Publish, Packet
  <2>2. BrokerIds \cup {0} \subseteq Ids /\ redo \subseteq BrokerIds
    BY DEF Ids, TypeOK, BrokerType
  <2>3. CASE BrokerPublish
    <3>1. PICK q \in BrokerQoS, fs \in SUBSET Filters :
            \/ q = 0 /\ Sends(About(Publish(0, 0), fs))
            \/ /\ q > 0 /\ Cardinality(InDelivery) < BrokerLimit /\ redo = {}
               /\ \E id \in BrokerIds :
                    /\ brokerOut[id] = "free" /\ Sends(About(Publish(id, q), fs))
                    /\ brokerOut' = [brokerOut EXCEPT
                                       ![id] = IF q = 1 THEN "pub1" ELSE "pub2"]
      BY <2>3 DEF BrokerPublish
    <3>2. q \in 0..2
      BY BrokerAssumption
    <3>3. CASE q = 0 /\ Sends(About(Publish(0, 0), fs))
      BY <2>1, <2>2, <2>3, <3>3 DEF Sends, Says
    <3>4. ASSUME NEW id \in BrokerIds, brokerOut[id] = "free", q > 0,
                 redo = {}, Sends(About(Publish(id, q), fs)),
                 Cardinality(InDelivery) < BrokerLimit,
                 brokerOut' = [brokerOut EXCEPT
                                 ![id] = IF q = 1 THEN "pub1" ELSE "pub2"]
          PROVE  /\ conn = "open"
                 /\ \E p \in Packets : Says(p) /\ toClient' = Append(toClient, p)
      <4>1. PICK p : p = About(Publish(id, q), fs)
        OBVIOUS
      <4>2. p \in Packets /\ p.type = "PUBLISH" /\ p.qos = q /\ p.id = id
        BY <2>1, <2>2, <3>2, <4>1
      <4>3. Says(p)
        BY <2>3, <3>2, <3>4, <4>2 DEF Says
      <4>4. QED
        BY <3>4, <4>1, <4>2, <4>3 DEF Sends
    <3>5. QED
      BY <3>1, <3>3, <3>4
  <2>4. CASE BrokerResend
    <3>1. PICK id \in redo, fs \in SUBSET Filters :
            /\ redo' = redo \ {id}
            /\ \/ brokerOut[id] = "pub1" /\ Sends(About(Publish(id, 1), fs))
               \/ brokerOut[id] = "pub2" /\ Sends(About(Publish(id, 2), fs))
               \/ /\ brokerOut[id] \notin {"pub1", "pub2"}
                  /\ Sends(Packet("PUBREL", id))
      BY <2>4 DEF BrokerResend
    <3>2. LET p == Packet("PUBREL", id)
          IN p \in Packets /\ p.type = "PUBREL" /\ p.id = id
      BY <2>2, <3>1, PacketTyped DEF Packet, PacketTypes
    <3>3. QED
      BY <2>1, <2>2, <2>4, <3>1, <3>2 DEF Sends, Says
  <2>5. QED
    BY <1>8, <2>3, <2>4
<1>9. CASE BrokerUnprompted
  BY <1>9, PacketTyped, BrokerAssumption DEF BrokerUnprompted, Sends, Says
<1>10. QED
  BY <1>1, <1>2, <1>3, <1>4, <1>5, <1>6, <1>7, <1>8, <1>9
     DEF BrokerStep, BrokerTakes

-----------------------------------------------------------------------------
(* How many messages are on their way: the use that the proofs are about   *)

(* The broker acknowledges nothing that it was not sent. *)
NoStrayAcks == Unprompted \cap {"PUBACK", "PUBREC", "PUBCOMP"} = {}

(* One goroutine publishes, over one connection; the broker answers what   *)
(* it is asked, once, with no code that makes Poll credit a message twice. *)
OnePublisher ==
  /\ SeparateIds /\ HasStorage /\ IsFiniteSet(PubIds)
  /\ \A g, h \in Goroutines :
       "Publish" \in May[g] /\ "Publish" \in May[h] => g = h
  /\ MaxLosses = 0
  /\ BrokerCodes \subseteq {0, 128}
  /\ "CONNACK" \notin Unprompted /\ NoStrayAcks

(* The quotas are set once on a connection, before anything is published:  *)
(* the broker accepts one CONNECT, and nothing follows a DISCONNECT.       *)
Connacks == {p \in Packets : p.type = "CONNACK" /\ p.code < 128}
Disconnects == {p \in Packets : p.type = "DISCONNECT"}

(* The broker has yet to accept a CONNECT; Connect has yet to see it did.  *)
Starting == ~ session /\ (conn = "open" \/ toServer # <<>>)
Beginning == Starting \/ ~ NoneOf(toClient, Connacks)
InPublish == PublishPoints \cup {"pub_count"}

StartInv ==
  /\ LastOf(toServer, Disconnects)
  /\ conn # "closed" => NoneOf(toServer, Disconnects)
  /\ conn # "open" => toClient = <<>>
  /\ OneOf(toClient, Connacks)
  /\ Starting => NoneOf(toClient, Connacks)
  /\ Beginning =>
       /\ ~ isConnected
       /\ sendQuota = 0 /\ serverReceiveMaximum = 0
       /\ receiveQuota = 0 /\ clientReceiveMaximum = 0
       /\ \A g \in Goroutines : pc[g] \notin InPublish

(* Steps that neither connect nor answer a CONNECT *)
StartCalm ==
  /\ LastOf(toServer', Disconnects)
  /\ conn' # "closed" => NoneOf(toServer', Disconnects)
  /\ conn' # "open" => toClient' = <<>>
  /\ FewerOf(toClient, toClient', Connacks)
  /\ Starting' => Starting
  /\ isConnected' => isConnected
  /\ Beginning => UNCHANGED <<sendVars, recvVars>>
  /\ \A h \in Goroutines :
       pc'[h] \in InPublish => pc[h] \in InPublish \/ isConnected

LEMMA StartCalmInv ==
  ASSUME StartInv, StartCalm
  PROVE  StartInv' /\ (Beginning' => Beginning)
<1>1. Beginning' => Beginning
  BY DEF StartCalm, Beginning, FewerOf
<1>2. QED
  BY <1>1 DEF StartInv, StartCalm, FewerOf, sendVars, recvVars

LEMMA GoroutineLinks ==
  ASSUME TypeOK, LockInv, StartInv, NEW g \in Goroutines, Call(g) \/ Step(g),
         ~ ConnectAck(g)
  PROVE  /\ isConnected' => isConnected
         /\ Beginning => UNCHANGED <<sendVars, recvVars>>
         /\ \A h \in Goroutines :
              pc'[h] \in InPublish => pc[h] \in InPublish \/ isConnected
<1>1. Beginning => pc[g] \notin InPublish \cup PollHolds
  BY DEF StartInv, LockInv, PollingConnected
<1>2. CASE PollPuback(g) \/ PollPubcomp(g)
  <2>1. ~ Beginning /\ UNCHANGED isConnected
    BY <1>1, <1>2 DEF PollPuback, PollPubcomp, Completed, At, PollHolds, linkVars
  <2>2. \A h \in Goroutines :
          pc'[h] \in {pc[h], "idle", "poll_fanout"} \/ pc[h] = "pub_parked"
    BY <1>2, ConstantsAssumption DEF PollPuback, PollPubcomp, Completed,
       GotoReleasing, Released, Parked, At
  <2>3. QED
    BY <2>1, <2>2 DEF InPublish, PublishPoints, Preparations
<1>3. CASE Call(g)
  BY <1>3, CallTyped DEF Call, ConnectCall, DisconnectCall, KeepAliveCall,
     PublishCall, PollCall, SubscribeCall, UnsubscribeCall, Begin, Goto,
     linkVars, InPublish, PublishPoints, Preparations
<1>4. CASE \/ ConnectStep(g) \/ DisconnectStep(g) \/ KeepAliveStep(g)
  BY <1>4, CallTyped DEF ConnectStep, DisconnectStep, KeepAliveStep,
     ConnectLock, ConnectSend, ConnectFail, ConnectReturn, DisconnectLock,
     DisconnectSend, KeepAliveLock, KeepAliveSend, Done, Goto, linkVars,
     InPublish, PublishPoints, Preparations
<1>5. CASE PublishStep(g)
  BY <1>1, <1>5, CallTyped DEF PublishStep, PublishLock, PublishStore,
     PublishQuota, PublishPark, PublishRelock, PublishSend, PublishCount,
     Done, Goto, At, linkVars, InPublish, PublishPoints, Preparations
<1>6. CASE PollStep(g)
  <2>1. CASE \/ PollLock(g) \/ PollNothing(g) \/ PollPublish(g) \/ PollAck(g)
             \/ PollCredit(g) \/ PollRoute(g) \/ PollSignal(g) \/ PollStore(g)
    BY <1>1, <2>1, CallTyped DEF PollLock, PollNothing, PollPublish, PollAck,
       PollCredit, PollRoute, PollSignal, PollStore, DisconnectWithReason,
       Panic, PollReturn, Done, Goto, At, callVars, linkVars, InPublish,
       PublishPoints, Preparations, PollHolds
  <2>2. CASE PollRead(g)
    BY <2>2, CallTyped DEF PollRead, Handler, PollReturn, Done, Goto, linkVars,
       InPublish, PublishPoints, Preparations
  <2>3. CASE \/ PollPubrec(g) \/ PollPubrel(g) \/ PollRelease(g)
             \/ PollResponse(g) \/ PollFanout(g) \/ PollPingresp(g)
             \/ PollDisconnect(g)
    BY <1>1, <2>3, CallTyped DEF PollPubrec, PollPubrel, PollRelease,
       PollResponse, PollFanout, PollPingresp, PollDisconnect,
       Panic, PollReturn, Done, Goto, At, callVars, linkVars, InPublish,
       PublishPoints, Preparations, PollHolds
  <2>4. QED
    BY <1>2, <1>6, <2>1, <2>2, <2>3 DEF PollStep
<1>7. CASE SubscribeStep(g) \/ UnsubscribeStep(g)
  BY <1>7, CallTyped DEF SubscribeStep, UnsubscribeStep, SubscribeLock,
     SubscribeSend, SubscribeAnswer, SubscribeBind, SubscribeUnregister,
     SubscribeClose, ResponseDelete, UnsubscribeSend, UnsubscribeAnswer,
     UnsubscribeFind, UnsubscribeClose, UnsubscribeRemove,
     UnsubscribeUnlock, ReturnSubscribe,
     Panic, Done, Goto, callVars, linkVars, InPublish, PublishPoints,
     Preparations
<1>8. QED
  BY <1>3, <1>4, <1>5, <1>6, <1>7 DEF Step

(* Publish writes PUBLISH packets. *)
LEMMA SendsPublish ==
  ASSUME OutgoingInv, NEW g \in Goroutines, pc[g] = "pub_send"
  PROVE  arg[g].type = "PUBLISH"
BY DEF OutgoingInv, PublishArgs, PublishPoints, Preparations

LEMMA GoroutineStart ==
  ASSUME TypeOK, LockInv, StartInv, NEW g \in Goroutines,
         pc[g] = "pub_send" => arg[g].type = "PUBLISH",
         Call(g) \/ Step(g), UNCHANGED brokerVars, ~ ConnectAck(g)
  PROVE  StartCalm
<1>1. FewerOf(toClient, toClient', Connacks)
  BY GoroutineReads, WireTyped, QueueFewer
<1>2. /\ conn' # "open" => toClient' = <<>>
      /\ conn' = "open" => conn = "open"
      /\ conn' = conn \/ conn' = "closed"
  BY GoroutineReads DEF StartInv
<1>3. Starting' => Starting
  BY <1>2, GoroutineWrites DEF Starting, brokerVars
<1>4. /\ LastOf(toServer', Disconnects)
      /\ conn' # "closed" => NoneOf(toServer', Disconnects)
  <2>1. CASE toServer' = toServer
    BY <1>2, <2>1 DEF StartInv
  <2>2. CASE /\ conn = "open"
             /\ \E p \in Packets : Writes(g, p) /\ toServer' = Append(toServer, p)
    <3>1. PICK p \in Packets : Writes(g, p) /\ toServer' = Append(toServer, p)
      BY <2>2
    <3>2. NoneOf(toServer, Disconnects)
      BY <2>2 DEF StartInv
    <3>3. conn' # "closed" => p \notin Disconnects
      BY <3>1 DEF Writes, Disconnects, Packet
    <3>4. QED
      BY <3>1, <3>2, <3>3, WireTyped, QueueLast, QueueAppend
  <2>3. QED
    BY <2>1, <2>2, GoroutineWrites
<1>5. QED
  BY <1>1, <1>2, <1>3, <1>4, GoroutineLinks DEF StartCalm

LEMMA ConnectAckStart ==
  ASSUME TypeOK, StartInv, NEW g \in Goroutines, ConnectAck(g),
         UNCHANGED brokerVars
  PROVE  /\ StartInv'
         /\ Beginning' => Beginning /\ ~ (Head(toClient).code < 128)
<1>1. /\ conn = "open" /\ toClient # <<>> /\ Head(toClient).type = "CONNACK"
      /\ UNCHANGED <<session, toServer>>
      /\ \A h \in Goroutines : pc'[h] \in InPublish => pc[h] \in InPublish
      /\ \/ /\ conn' = "closed" /\ toClient' = <<>>
            /\ ~ (Head(toClient).code < 128)
            /\ UNCHANGED <<isConnected, sendVars, recvVars>>
         \/ /\ Head(toClient).code < 128 /\ UNCHANGED conn
            /\ toClient' = Tail(toClient)
  <2>1. /\ conn = "open" /\ toClient # <<>> /\ Head(toClient).type = "CONNACK"
        /\ Head(toClient).code \in Codes
    <3>1. conn = "open" /\ toClient # <<>> /\ Head(toClient).type = "CONNACK"
      BY DEF ConnectAck
    <3>2. Head(toClient) \in Packets
      BY <3>1, WireTyped
    <3>3. QED
      BY <3>1, <3>2 DEF Packets
  <2>2. \A h \in Goroutines : pc'[h] \in InPublish => pc[h] \in InPublish
    BY CallTyped DEF ConnectAck, ConnectReturn, Done, Goto, InPublish,
       PublishPoints, Preparations
  <2>3. QED
    BY <2>1, <2>2 DEF ConnectAck, brokerVars, linkVars, Codes
<1>2. CASE /\ conn' = "closed" /\ toClient' = <<>>
           /\ ~ (Head(toClient).code < 128)
           /\ UNCHANGED <<isConnected, sendVars, recvVars>>
  <2>1. StartCalm
    BY <1>1, <1>2, QueueEmpty DEF StartInv, StartCalm, Starting, FewerOf
  <2>2. QED
    BY <1>2, <2>1, StartCalmInv
<1>3. CASE /\ Head(toClient).code < 128 /\ UNCHANGED conn
           /\ toClient' = Tail(toClient)
  <2>1. Head(toClient) \in Connacks
    BY <1>1, <1>3, WireTyped DEF Connacks
  <2>2. /\ ~ Starting /\ NoneOf(toClient', Connacks)
        /\ OneOf(toClient', Connacks)
    BY <1>1, <1>3, <2>1, WireTyped, QueueTail DEF StartInv
  <2>3. ~ Beginning'
    BY <1>1, <1>3, <2>2 DEF Beginning, Starting
  <2>4. QED
    BY <1>1, <1>3, <2>2, <2>3 DEF StartInv, Beginning
<1>4. QED
  BY <1>1, <1>2, <1>3

LEMMA BrokerStart ==
  ASSUME TypeOK, "CONNACK" \notin Unprompted, StartInv, BrokerStep
  PROVE  StartInv' /\ (Beginning' => Beginning) /\ (Starting' => Starting)
<1>1. /\ UNCHANGED <<callVars, linkVars, sendVars, recvVars, conn>>
      /\ \/ UNCHANGED <<toServer, session>>
         \/ /\ toServer # <<>> /\ toServer' = Tail(toServer)
            /\ session' = session \/ Head(toServer).type = "CONNECT"
               \/ Head(toServer).type = "DISCONNECT"
  BY BrokerTakesOne
<1>2. /\ LastOf(toServer', Disconnects)
      /\ conn' # "closed" => NoneOf(toServer', Disconnects)
      /\ conn' # "open" => toClient' = <<>>
  BY <1>1, BrokerSays, WireTyped, QueueTail, QueueLast DEF StartInv
<1>3. CASE TakeConnect /\ ~ session
  <2>1. Starting
    BY <1>3 DEF TakeConnect, Takes, Starting
  <2>2. OneOf(toClient', Connacks)
    BY <2>1, BrokerSays, WireTyped, QueueAppend DEF StartInv
  <2>3. ASSUME ~ session'
        PROVE  NoneOf(toClient', Connacks)
    <3>1. \A p \in Packets : Says(p) => p \notin Connacks
      BY <2>3 DEF Says, Connacks, Packet
    <3>2. QED
      BY <2>1, <3>1, BrokerSays, WireTyped, QueueAppend DEF StartInv
  <2>4. QED
    BY <1>1, <1>2, <2>1, <2>2, <2>3
       DEF StartInv, Starting, Beginning, callVars, linkVars, sendVars, recvVars
<1>4. CASE ~ (TakeConnect /\ ~ session)
  <2>1. \A p \in Packets : Says(p) => p \notin Connacks
    BY <1>4 DEF Says, Connacks, Packet
  <2>2. FewerOf(toClient, toClient', Connacks)
    BY <2>1, BrokerSays, WireTyped, QueueFewer
  <2>3. Starting' => Starting
    <3>1. CASE TakeDisconnect
      <4>1. /\ Head(toServer) \in Disconnects /\ toServer # <<>>
            /\ toServer' = Tail(toServer)
        BY <3>1, HeadTyped DEF TakeDisconnect, Takes, Disconnects
      <4>2. toServer' = <<>> /\ conn = "closed"
        BY <4>1, WireTyped, QueueTail, QueueLast DEF StartInv
      <4>3. QED
        BY <1>1, <4>2 DEF Starting
    <3>2. CASE session' = session
      BY <1>1, <3>2, QueueEmpty DEF Starting
    <3>3. QED
      BY <1>4, <3>1, <3>2 DEF BrokerStep, BrokerTakes, TakeConnect,
         TakePublish, TakePubrel, TakePuback, TakePubrec, TakePubcomp,
         TakePingreq, TakeSubscribe, TakeUnsubscribe, BrokerPublish,
         BrokerResend, BrokerUnprompted
  <2>4. StartCalm
    BY <1>1, <1>2, <2>2, <2>3 DEF StartCalm, callVars, linkVars
  <2>5. QED
    BY <2>3, <2>4, StartCalmInv
<1>5. QED
  BY <1>3, <1>4

LEMMA WorldStart ==
  ASSUME TypeOK, StartInv,
         \/ ConnLost \/ PingDeadlinePasses \/ Restart \/ UNCHANGED vars
         \/ (\E c \in Channels : Application(c)) /\ UNCHANGED brokerVars
  PROVE  StartInv' /\ (Beginning' => Beginning \/ Restart)
<1>1. CASE ConnLost
  BY <1>1, QueueEmpty DEF ConnLost, StartInv, Starting, Beginning
<1>2. CASE Restart
  BY <1>2, QueueEmpty DEF Restart, StartInv, Starting, Beginning, InPublish,
     PublishPoints, Preparations
<1>3. CASE ~ ConnLost /\ ~ Restart
  <2>1. UNCHANGED <<pc, isConnected, sendVars, recvVars, wireVars, session>>
    BY <1>3 DEF PingDeadlinePasses, vars, clientVars, callVars, linkVars,
       brokerVars, Application, CreateEventChannel, CloseEventChannel,
       CloseEventChannelEnd, ReceiveEvent
  <2>2. StartCalm
    BY <2>1 DEF StartInv, StartCalm, Starting, FewerOf, wireVars
  <2>3. QED
    BY <2>2, StartCalmInv
<1>4. QED
  BY <1>1, <1>2, <1>3

LEMMA InitStart == Init => StartInv
BY QueueEmpty DEF Init, StartInv, Starting, Beginning, InPublish,
   PublishPoints, Preparations

-----------------------------------------------------------------------------
(* Every acknowledgement is of a message of the client, and a PUBREC has a *)
(* reason code of BrokerCodes.                                             *)

StrayAcks ==
  {p \in Packets : \/ /\ p.type \in {"PUBACK", "PUBREC", "PUBCOMP"}
                      /\ p.id \notin PubIds
                   \/ p.type = "PUBREC" /\ p.code \notin BrokerCodes}
StrayRequests ==
  {p \in Packets : /\ p.id \notin PubIds
                   /\ p.type = "PUBREL" \/ (p.type = "PUBLISH" /\ p.qos # 0)}

OwnAcks ==
  /\ NoneOf(toClient, StrayAcks) /\ NoneOf(toServer, StrayRequests)
  /\ \A g \in Goroutines : pc[g] \in AckPoints =>
       /\ arg[g].id \in PubIds
       /\ pc[g] = "poll_pubrec" => arg[g].code \in BrokerCodes

LEMMA GoroutineOwn ==
  ASSUME TypeOK, OutgoingInv, OwnAcks, NEW g \in Goroutines,
         Call(g) \/ Step(g)
  PROVE  NoneOf(toClient', StrayAcks) /\ NoneOf(toServer', StrayRequests)
<1>1. NoneOf(toClient', StrayAcks)
  BY GoroutineReads, WireTyped, QueueTail, QueueEmpty DEF OwnAcks
<1>2. \A p \in Packets : Writes(g, p) => p \notin StrayRequests
  <2>1. pc[g] = "pub_send" => arg[g].type = "PUBLISH"
                           /\ (arg[g].qos # 0 => arg[g].id \in PubIds)
    BY DEF OutgoingInv, PublishArgs, PublishPoints, Preparations
  <2>2. pc[g] = "poll_pubrec" => arg[g].id \in PubIds
    BY DEF OwnAcks, AckPoints
  <2>3. QED
    BY <2>1, <2>2 DEF Writes, StrayRequests, Packet
<1>3. QED
  BY <1>1, <1>2, GoroutineWrites, WireTyped, QueueAppend DEF OwnAcks

LEMMA GoroutineAcks ==
  ASSUME TypeOK, OutgoingInv, SeparateIds, NEW g \in Goroutines,
         Call(g) \/ Step(g), ~ PollRead(g)
  PROVE  \A h \in Goroutines : pc'[h] \in AckPoints =>
           pc'[h] = pc[h] /\ arg'[h] = arg[h]
<1>1. CASE PollPuback(g) \/ PollPubcomp(g)
  <2>1. \A h \in Goroutines :
          pc'[h] \in {pc[h], "idle", "poll_fanout", "pub_relock"}
    BY <1>1 DEF PollPuback, PollPubcomp, Completed, GotoReleasing
  <2>2. /\ \A h \in Goroutines \ {g} : arg'[h] = arg[h]
        /\ pc'[g] \in {"idle", "poll_fanout"}
    BY <1>1, CallTyped DEF PollPuback, PollPubcomp, Completed, GotoReleasing
  <2>3. QED
    BY <2>1, <2>2 DEF AckPoints
<1>2. CASE \/ PublishCall(g) \/ PublishStore(g) \/ PublishSend(g)
           \/ PollPubrec(g)
  BY <1>2, CallTyped DEF PublishCall, PublishStore, PublishSend, PollPubrec,
     PollReturn, Begin, Done, Goto, AckPoints
<1>3. CASE Calm
  BY <1>3 DEF Calm, DullCalls
<1>4. QED
  BY <1>1, <1>2, <1>3, PublishCalm, SessionCalm, SubscribeCalm, PollCalm
     DEF Call, Step, PublishStep, PollStep

LEMMA PollReadOwn ==
  ASSUME TypeOK, OwnAcks, NEW g \in Goroutines, PollRead(g)
  PROVE  \A h \in Goroutines : pc'[h] \in AckPoints =>
           /\ arg'[h].id \in PubIds
           /\ pc'[h] = "poll_pubrec" => arg'[h].code \in BrokerCodes
<1>1. toClient # <<>>
  BY DEF PollRead
<1>2. PICK p : p = Head(toClient)
  OBVIOUS
<1>3. p \in Packets /\ p \notin StrayAcks
  BY <1>1, <1>2, WireTyped, QueueTail DEF OwnAcks
<1>4. /\ \A h \in Goroutines \ {g} : arg'[h] = arg[h] /\ pc'[h] = pc[h]
      /\ \/ pc'[g] = "idle"
         \/ /\ p.type \in DOMAIN Handler
            /\ arg'[g] = p /\ pc'[g] = Handler[p.type]
  BY <1>2, CallTyped DEF PollRead, PollReturn, Done, Goto
<1>5. pc'[g] \in AckPoints =>
        /\ arg'[g].id \in PubIds
        /\ pc'[g] = "poll_pubrec" => arg'[g].code \in BrokerCodes
  <2>1. CASE pc'[g] = "idle"
    BY <2>1 DEF AckPoints
  <2>2. CASE /\ p.type \in DOMAIN Handler
             /\ arg'[g] = p /\ pc'[g] = Handler[p.type]
    <3>1. /\ pc'[g] \in AckPoints => p.type \in {"PUBACK", "PUBREC", "PUBCOMP"}
          /\ pc'[g] = "poll_pubrec" => p.type = "PUBREC"
      BY <2>2 DEF Handler, AckPoints
    <3>2. QED
      BY <1>3, <2>2, <3>1 DEF StrayAcks
  <2>3. QED
    BY <1>4, <2>1, <2>2
<1>6. QED
  BY <1>4, <1>5 DEF OwnAcks

LEMMA BrokerOwn ==
  ASSUME TypeOK, NoStrayAcks, OwnAcks, BrokerStep
  PROVE  OwnAcks'
<1>1. /\ UNCHANGED <<pc, arg>>
      /\ \/ UNCHANGED toServer
         \/ toServer # <<>> /\ toServer' = Tail(toServer)
  BY BrokerTakesOne DEF callVars
<1>2. NoneOf(toServer', StrayRequests)
  BY <1>1, WireTyped, QueueTail DEF OwnAcks
<1>3. \A p \in Packets : Says(p) => p \notin StrayAcks
  <2>1. ASSUME TakePublish \/ TakePubrel,
               TakePubrel \/ Head(toServer).qos # 0
        PROVE  Head(toServer).id \in PubIds
    <3>1. /\ toServer # <<>> /\ Head(toServer).type \in {"PUBLISH", "PUBREL"}
          /\ Head(toServer).type = "PUBREL" \/ Head(toServer).qos # 0
      BY <2>1 DEF TakePublish, TakePubrel, Takes
    <3>2. Head(toServer) \in Packets /\ Head(toServer) \notin StrayRequests
      BY <3>1, WireTyped, QueueTail DEF OwnAcks
    <3>3. QED
      BY <3>1, <3>2 DEF StrayRequests
  <2>3. ASSUME NEW p \in Packets, Says(p)
        PROVE  p \notin StrayAcks
    <3>1. CASE p.type \notin {"PUBACK", "PUBREC", "PUBCOMP"}
      BY <3>1 DEF StrayAcks
    <3>2. CASE p.type \in {"PUBACK", "PUBREC", "PUBCOMP"}
      <4>1. \A t \in Unprompted : p # Packet(t, 0)
        BY <3>2 DEF NoStrayAcks, Packet
      <4>2. /\ p.id = Head(toServer).id
            /\ \/ TakePublish /\ Head(toServer).qos \in {1, 2}
               \/ TakePubrel
            /\ p.type = "PUBREC" => p.code \in BrokerCodes
        BY <2>3, <3>2, <4>1 DEF Says, Packet
      <4>3. p.id \in PubIds
        BY <2>1, <4>2
      <4>4. QED
        BY <4>2, <4>3 DEF StrayAcks
    <3>3. QED
      BY <3>1, <3>2
  <2>4. QED
    BY <2>3
<1>4. NoneOf(toClient', StrayAcks)
  BY <1>3, BrokerSays, WireTyped, QueueAppend DEF OwnAcks
<1>5. QED
  BY <1>1, <1>2, <1>4 DEF OwnAcks

LEMMA GoroutineOwnAcks ==
  ASSUME TypeOK, OutgoingInv, SeparateIds, OwnAcks, NEW g \in Goroutines,
         Call(g) \/ Step(g)
  PROVE  OwnAcks'
<1>1. CASE PollRead(g)
  BY <1>1, GoroutineOwn, PollReadOwn DEF OwnAcks
<1>2. CASE ~ PollRead(g)
  BY <1>2, GoroutineOwn, GoroutineAcks DEF OwnAcks
<1>3. QED
  BY <1>1, <1>2

LEMMA WorldOwn ==
  ASSUME TypeOK, losses = 0, OwnAcks,
         \/ ConnLost \/ PingDeadlinePasses \/ Restart \/ UNCHANGED vars
         \/ \E c \in Channels : Application(c)
  PROVE  OwnAcks'
<1>1. ~ ConnLost /\ ~ Restart
  BY DEF ConnLost, Restart
<1>2. UNCHANGED <<pc, arg, toServer, toClient>>
  BY <1>1 DEF PingDeadlinePasses, vars, clientVars, callVars, wireVars,
     Application, CreateEventChannel, CloseEventChannel, CloseEventChannelEnd, ReceiveEvent
<1>3. QED
  BY <1>2 DEF OwnAcks

LEMMA InitOwn == Init => OwnAcks
BY QueueEmpty DEF Init, OwnAcks, AckPoints

-----------------------------------------------------------------------------
(* The send quota *)

(* The messages whose handshake is not over *)
Busy == {id \in PubIds : ~ Resting(id)}

(* g has seen quota for the message that it is about to count. *)
Counts(g) ==
  \/ pc[g] \in {"pub_relock", "pub_count"}
  \/ pc[g] = "pub_send" /\ arg[g].qos # 0

(* What is counted for a message is credited once, when its handshake is   *)
(* over; and the quota that Publish found is still there when Publish      *)
(* counts the message, though it holds no lock from the one to the other.  *)
QuotaInv ==
  /\ Beginning => Busy = {}
  /\ sendQuota + Cardinality(Busy)
       <= serverReceiveMaximum + Cardinality(AtPoint("pub_count"))
  /\ \A g \in Goroutines : Counts(g) => sendQuota > 0
  /\ \A g \in Goroutines : pc[g] \in InPublish => "Publish" \in May[g]

(* Steps that count nothing and credit nothing *)
QuotaCalm ==
  /\ UNCHANGED sendVars
  /\ RestKept(PubIds)
  /\ \A h \in Goroutines :
       /\ Counts(h)' => Counts(h) \/ sendQuota > 0
       /\ (pc'[h] = "pub_count") = (pc[h] = "pub_count")
       /\ pc'[h] \in InPublish => pc[h] \in InPublish \/ "Publish" \in May[h]

LEMMA FewElements ==
  ASSUME NEW S, \A x, y \in S : x = y
  PROVE  /\ IsFiniteSet(S) /\ Cardinality(S) \in Nat
         /\ \A x \in S : Cardinality(S) = 1
<1>1. CASE S = {}
  BY <1>1, FS_EmptySet
<1>2. CASE S # {}
  <2>1. PICK x \in S : S = {x}
    BY <1>2
  <2>2. IsFiniteSet({x}) /\ Cardinality({x}) = 1
    BY FS_Singleton, Zenon
  <2>3. IsFiniteSet(S) /\ Cardinality(S) = 1
    BY <2>1, <2>2, Zenon
  <2>4. QED
    BY <2>3
<1>3. QED
  BY <1>1, <1>2

LEMMA BusyCounted ==
  ASSUME OnePublisher
  PROVE  /\ IsFiniteSet(Busy) /\ Cardinality(Busy) \in Nat
         /\ \A T \in SUBSET Busy : /\ Cardinality(T) \in Nat
                                   /\ Cardinality(T) <= Cardinality(Busy)
<1>1. IsFiniteSet(Busy)
  BY FS_Subset DEF OnePublisher, Busy
<1>2. \A T \in SUBSET Busy : /\ Cardinality(T) \in Nat
                             /\ Cardinality(T) <= Cardinality(Busy)
  BY <1>1, FS_Subset, FS_CardinalityType
<1>3. QED
  BY <1>1, <1>2, FS_CardinalityType

LEMMA CountersFew ==
  ASSUME OnePublisher, QuotaInv
  PROVE  /\ IsFiniteSet(AtPoint("pub_count"))
         /\ Cardinality(AtPoint("pub_count")) \in Nat
         /\ \A g \in AtPoint("pub_count") : /\ AtPoint("pub_count") = {g}
                                            /\ Cardinality(AtPoint("pub_count")) = 1
<1>1. \A g, h \in AtPoint("pub_count") : g = h
  BY DEF AtPoint, At, QuotaInv, InPublish, OnePublisher
<1>2. QED
  BY <1>1, FewElements

LEMMA QuotaTyped ==
  ASSUME TypeOK
  PROVE  /\ sendQuota \in Nat /\ serverReceiveMaximum \in Nat
         /\ sendQuota < QuotaModulus /\ serverReceiveMaximum < QuotaModulus
BY ConstantsAssumption DEF TypeOK, ClientType, QuotaType, Quotas

LEMMA QuotaCalmInv ==
  ASSUME TypeOK, OnePublisher, QuotaInv, QuotaCalm, Beginning' => Beginning
  PROVE  QuotaInv'
<1>1. Busy' \subseteq Busy
  BY DEF Busy, QuotaCalm, RestKept
<1>2. AtPoint("pub_count")' = AtPoint("pub_count")
  BY DEF AtPoint, At, QuotaCalm
<1>3. sendQuota' = sendQuota /\ serverReceiveMaximum' = serverReceiveMaximum
  BY DEF QuotaCalm, sendVars
<1>4. Cardinality(Busy') \in Nat /\ Cardinality(Busy') <= Cardinality(Busy)
  BY <1>1, BusyCounted
<1>5. sendQuota' + Cardinality(Busy')
        <= serverReceiveMaximum' + Cardinality(AtPoint("pub_count")')
  BY <1>2, <1>3, <1>4, BusyCounted, CountersFew, QuotaTyped DEF QuotaInv
<1>6. \A h \in Goroutines :
        /\ Counts(h)' => sendQuota' > 0
        /\ pc'[h] \in InPublish => "Publish" \in May[h]
  BY <1>3 DEF QuotaCalm, QuotaInv
<1>7. QED
  BY <1>1, <1>5, <1>6 DEF QuotaInv

(* Publish sends a message that the quota it saw covers. *)
LEMMA SendingQuota ==
  ASSUME TypeOK, OnePublisher, OutgoingInv, StartInv, QuotaInv,
         NEW g \in Goroutines, Sending(g), Beginning' => Beginning
  PROVE  QuotaInv'
<1> DEFINE i == arg[g].id
<1>1. /\ pc[g] = "pub_send" /\ arg[g].qos # 0
      /\ pc' = [pc EXCEPT ![g] = "pub_count"] /\ arg' = arg
      /\ UNCHANGED <<sendQuota, serverReceiveMaximum>>
  BY CallTyped DEF Sending, PublishSend, At, Goto, sendVars
<1>2. Busy' \subseteq Busy \cup {i}
  BY PublishSendOutgoing DEF Busy, RestKept, OnePublisher
<1>3. ~ Beginning
  BY <1>1 DEF StartInv, InPublish, PublishPoints, Preparations
<1>4. AtPoint("pub_count") = {} /\ AtPoint("pub_count")' = {g}
  <2>1. \A h \in Goroutines : pc[h] \in InPublish => h = g
    BY <1>1 DEF QuotaInv, OnePublisher, InPublish, PublishPoints, Preparations
  <2>2. QED
    BY <1>1, <2>1, CallTyped DEF AtPoint, At, InPublish
<1>5. /\ Cardinality(AtPoint("pub_count")) = 0
      /\ Cardinality(AtPoint("pub_count")') = 1
  <2>1. Cardinality({}) = 0 /\ Cardinality({g}) = 1
    BY FS_EmptySet, FS_Singleton, Zenon
  <2>2. QED
    BY <1>4, <2>1
<1>6. Cardinality(Busy') \in Nat /\ Cardinality(Busy') <= Cardinality(Busy) + 1
  <2>1. /\ IsFiniteSet(Busy \cup {i})
        /\ Cardinality(Busy \cup {i}) <= Cardinality(Busy) + 1
        /\ Cardinality(Busy \cup {i}) \in Nat
    BY BusyCounted, FS_AddElement
  <2>2. QED
    BY <1>2, <2>1, BusyCounted, FS_Subset, FS_CardinalityType
<1>7. sendQuota' + Cardinality(Busy')
        <= serverReceiveMaximum' + Cardinality(AtPoint("pub_count")')
  BY <1>1, <1>5, <1>6, BusyCounted, QuotaTyped DEF QuotaInv
<1>8. \A h \in Goroutines :
        /\ Counts(h)' => sendQuota' > 0
        /\ pc'[h] \in InPublish => "Publish" \in May[h]
  BY <1>1, CallTyped DEF Counts, QuotaInv, InPublish, PublishPoints,
     Preparations
<1>9. ~ Beginning'
  BY <1>3
<1>10. QED
  BY <1>7, <1>8, <1>9 DEF QuotaInv

(* The uint16 counters count exactly away from the ends of their range. *)
LEMMA QuotaExact ==
  ASSUME NEW q \in Nat
  PROVE  /\ 0 < q /\ q < QuotaModulus => Dec(q) = q - 1
         /\ q + 1 < QuotaModulus => Inc(q) = q + 1
<1>1. QuotaModulus \in Nat \ {0}
  BY ConstantsAssumption
<1>2. ASSUME 0 < q, q < QuotaModulus
      PROVE  Dec(q) = q - 1
  <2>1. q + QuotaModulus - 1 = (q - 1) + QuotaModulus
    BY <1>1
  <2>2. q - 1 \in 0..(QuotaModulus - 1)
    BY <1>1, <1>2
  <2>3. QED
    BY <1>1, <2>1, <2>2, SMTT(30) DEF Dec
<1>3. q + 1 < QuotaModulus => Inc(q) = q + 1
  BY <1>1 DEF Inc
<1>4. QED
  BY <1>2, <1>3

(* c.sendQuota-- does not wrap. *)
LEMMA PublishCountQuota ==
  ASSUME TypeOK, OnePublisher, OutgoingInv, QuotaInv, RestKept(PubIds),
         NEW g \in Goroutines, PublishCount(g), Beginning' => Beginning
  PROVE  QuotaInv'
<1>1. /\ pc[g] = "pub_count" /\ pc' = [pc EXCEPT ![g] = "idle"]
      /\ UNCHANGED serverReceiveMaximum /\ sendQuota' = Dec(sendQuota)
  BY DEF PublishCount, Done, Goto, At
<1>2. sendQuota' = sendQuota - 1
  <2>1. sendQuota > 0
    BY <1>1 DEF QuotaInv, Counts
  <2>2. QED
    BY <1>1, <2>1, QuotaTyped, QuotaExact
<1>3. AtPoint("pub_count") = {g} /\ AtPoint("pub_count")' = {}
  <2>1. AtPoint("pub_count") = {g}
    BY <1>1, CountersFew DEF AtPoint, At
  <2>2. QED
    BY <1>1, <2>1, CallTyped DEF AtPoint, At
<1>4. /\ Cardinality(AtPoint("pub_count")) = 1
      /\ Cardinality(AtPoint("pub_count")') = 0
  <2>1. Cardinality({}) = 0 /\ Cardinality({g}) = 1
    BY FS_EmptySet, FS_Singleton, Zenon
  <2>2. QED
    BY <1>3, <2>1
<1>5. Busy' \subseteq Busy
  BY DEF Busy, RestKept
<1>6. Cardinality(Busy') \in Nat /\ Cardinality(Busy') <= Cardinality(Busy)
  BY <1>5, BusyCounted
<1>7. sendQuota' + Cardinality(Busy')
        <= serverReceiveMaximum' + Cardinality(AtPoint("pub_count")')
  BY <1>1, <1>2, <1>4, <1>6, BusyCounted, QuotaTyped DEF QuotaInv
<1>8. \A h \in Goroutines :
        ~ Counts(h)' /\ (pc'[h] \in InPublish => "Publish" \in May[h])
  <2>1. \A h \in Goroutines : pc[h] \in InPublish => h = g
    BY <1>1 DEF QuotaInv, OnePublisher, InPublish
  <2>2. \A h \in Goroutines : pc'[h] \notin InPublish
    BY <1>1, <2>1, CallTyped DEF InPublish, PublishPoints, Preparations
  <2>3. QED
    BY <2>2 DEF Counts, InPublish, PublishPoints, Preparations
<1>9. QED
  BY <1>5, <1>7, <1>8 DEF QuotaInv

(* Poll credits a message that was on its way, once; what it releases a    *)
(* publisher with is there.                                                *)
LEMMA CompletedQuota ==
  ASSUME TypeOK, LockInv, OnePublisher, OutgoingInv, OwnAcks, QuotaInv,
         NEW g \in Goroutines, PollPuback(g) \/ PollPubcomp(g),
         Beginning' => Beginning
  PROVE  QuotaInv'
<1> DEFINE i == arg[g].id
<1>1. /\ pc[g] \in AckPoints
      /\ sendQuota' = IF sendQuota < serverReceiveMaximum
                      THEN sendQuota + 1 ELSE sendQuota
      /\ UNCHANGED serverReceiveMaximum
      /\ \E p \in {"idle", "poll_fanout"} : GotoReleasing(g, p)
      /\ \A h \in Goroutines : h # g => arg'[h] = arg[h]
  BY CallTyped DEF PollPuback, PollPubcomp, Completed, At, AckPoints
<1>2. i \in Busy /\ Busy' \subseteq Busy \ {i}
  BY <1>1, CompletedOutgoing DEF OwnAcks, Busy, RestKept, OnePublisher
<1>3. /\ Cardinality(Busy') \in Nat
      /\ Cardinality(Busy') <= Cardinality(Busy) - 1
  <2>1. /\ IsFiniteSet(Busy \ {i})
        /\ Cardinality(Busy \ {i}) = Cardinality(Busy) - 1
    BY <1>2, BusyCounted, FS_RemoveElement
  <2>2. QED
    BY <1>2, <2>1, FS_Subset, FS_CardinalityType
<1>4. \A h \in Goroutines :
        \/ pc'[h] = pc[h] /\ h # g
        \/ pc'[h] \in {"idle", "poll_fanout"} /\ h = g
        \/ /\ pc'[h] = "pub_relock" /\ pc[h] = "pub_parked"
           /\ sendQuota < serverReceiveMaximum
  BY <1>1, ConstantsAssumption DEF GotoReleasing, Released, Parked, At
<1>5. AtPoint("pub_count")' = AtPoint("pub_count")
  BY <1>1, <1>4 DEF AtPoint, At, AckPoints
<1>6. sendQuota' + Cardinality(Busy')
        <= serverReceiveMaximum' + Cardinality(AtPoint("pub_count")')
  BY <1>1, <1>3, <1>5, BusyCounted, CountersFew, QuotaTyped DEF QuotaInv
<1>7. ASSUME NEW h \in Goroutines
      PROVE  /\ Counts(h)' => sendQuota' > 0
             /\ pc'[h] \in InPublish => "Publish" \in May[h]
  <2>1. arg'[h] = arg[h] \/ h = g
    BY <1>1
  <2>2. CASE pc'[h] \in {"idle", "poll_fanout"}
    BY <2>2 DEF Counts, InPublish, PublishPoints, Preparations
  <2>3. CASE pc'[h] = pc[h] /\ arg'[h] = arg[h]
    BY <1>1, <2>3, QuotaTyped DEF Counts, QuotaInv
  <2>4. CASE /\ pc'[h] = "pub_relock" /\ pc[h] = "pub_parked"
             /\ sendQuota < serverReceiveMaximum
    BY <1>1, <2>4, QuotaTyped DEF QuotaInv, InPublish, PublishPoints,
       Preparations
  <2>5. QED
    BY <1>4, <2>1, <2>2, <2>3, <2>4
<1>8. QED
  BY <1>2, <1>6, <1>7 DEF QuotaInv

(* Connect sets the quota while nothing is on its way. *)
LEMMA ConnectAckQuota ==
  ASSUME TypeOK, OnePublisher, StartInv, QuotaInv, RestKept(PubIds),
         NEW g \in Goroutines, ConnectAck(g),
         Beginning' => Beginning /\ ~ (Head(toClient).code < 128)
  PROVE  QuotaInv'
<1>1. /\ pc[g] = "con_read" /\ pc' = [pc EXCEPT ![g] = "idle"]
      /\ arg' = [arg EXCEPT ![g] = NoPacket]
      /\ toClient # <<>> /\ conn = "open" /\ Head(toClient).type = "CONNACK"
      /\ \/ UNCHANGED sendVars
         \/ /\ Head(toClient).code < 128 /\ sendQuota' = serverReceiveMaximum'
            /\ serverReceiveMaximum' \in ReceiveMaxima
  BY DEF ConnectAck, ConnectReturn, Done, Goto, At
<1>2. CASE UNCHANGED sendVars
  <2>1. QuotaCalm
    BY <1>1, <1>2, CallTyped DEF QuotaCalm, Counts, InPublish, PublishPoints,
       Preparations
  <2>2. QED
    BY <2>1, QuotaCalmInv
<1>3. CASE /\ Head(toClient).code < 128 /\ sendQuota' = serverReceiveMaximum'
           /\ serverReceiveMaximum' \in ReceiveMaxima
  <2>1. Head(toClient) \in Connacks
    BY <1>1, <1>3, WireTyped DEF Connacks
  <2>2. Beginning
    BY <1>1, <2>1, WireTyped, QueueTail DEF Beginning
  <2>3. Busy' = {}
    BY <2>2 DEF QuotaInv, Busy, RestKept
  <2>4. \A h \in Goroutines : pc'[h] \notin InPublish
    BY <1>1, <2>2, CallTyped DEF StartInv, InPublish, PublishPoints,
       Preparations
  <2>5. AtPoint("pub_count")' = {}
    BY <2>4 DEF AtPoint, At, InPublish
  <2>6. sendQuota' + Cardinality(Busy')
          <= serverReceiveMaximum' + Cardinality(AtPoint("pub_count")')
    <3>1. serverReceiveMaximum' \in Nat
      BY <1>3, ConstantsAssumption
    <3>2. QED
      BY <1>3, <2>3, <2>5, <3>1, FS_EmptySet
  <2>7. QED
    BY <2>3, <2>4, <2>6 DEF QuotaInv, Counts, InPublish, PublishPoints,
       Preparations
<1>4. QED
  BY <1>1, <1>2, <1>3

LEMMA GoroutineQuotaCalm ==
  ASSUME TypeOK, LockInv, OnePublisher, OutgoingInv, OwnAcks, RestKept(PubIds),
         NEW g \in Goroutines, Call(g) \/ Step(g),
         ~ Sending(g), ~ PublishCount(g), ~ PollPuback(g), ~ PollPubcomp(g),
         ~ ConnectAck(g)
  PROVE  QuotaCalm
<1> DEFINE Same(h) ==
      /\ Counts(h)' => Counts(h) \/ sendQuota > 0
      /\ (pc'[h] = "pub_count") = (pc[h] = "pub_count")
      /\ pc'[h] \in InPublish => pc[h] \in InPublish \/ "Publish" \in May[h]
<1> SUFFICES ASSUME NEW h \in Goroutines
             PROVE  UNCHANGED sendVars /\ Same(h)
  BY DEF QuotaCalm
<1>1. CASE Call(g)
  BY <1>1, CallTyped DEF Call, ConnectCall, DisconnectCall, KeepAliveCall,
     PublishCall, PollCall, SubscribeCall, UnsubscribeCall, Begin, Goto, At,
     Counts, InPublish, PublishPoints, Preparations
<1>2. CASE ConnectStep(g) \/ DisconnectStep(g) \/ KeepAliveStep(g)
  BY <1>2, CallTyped DEF ConnectStep, DisconnectStep, KeepAliveStep,
     ConnectLock, ConnectSend, ConnectFail, ConnectReturn, DisconnectLock,
     DisconnectSend, KeepAliveLock, KeepAliveSend, Done, Goto, At, Counts,
     InPublish, PublishPoints, Preparations
<1>3. CASE PublishStep(g)
  <2>1. sendQuota \in Nat
    BY QuotaTyped
  <2>2. CASE PublishSend(g)
    <3>1. conn # "open" \/ arg[g].qos = 0
      BY <2>2 DEF Sending
    <3>2. QED
      BY <2>2, <3>1, CallTyped DEF PublishSend, Done, Goto, At, Counts,
         InPublish, PublishPoints, Preparations
  <2>3. QED
    BY <1>3, <2>1, <2>2, CallTyped DEF PublishStep, PublishLock, PublishStore,
       PublishQuota, PublishPark, PublishRelock, Done, Goto, At, Counts,
       InPublish, PublishPoints, Preparations
<1>4. CASE PollStep(g)
  <2>1. CASE \/ PollLock(g) \/ PollNothing(g) \/ PollPublish(g) \/ PollAck(g)
             \/ PollCredit(g) \/ PollRoute(g) \/ PollSignal(g) \/ PollStore(g)
    BY <2>1, CallTyped DEF PollLock, PollNothing, PollPublish, PollAck,
       PollCredit, PollRoute, PollSignal, PollStore, DisconnectWithReason,
       Panic, PollReturn, Done, Goto, At, callVars, Counts, InPublish,
       PublishPoints, Preparations
  <2>2. CASE PollRead(g)
    BY <2>2, CallTyped DEF PollRead, Handler, PollReturn, Done, Goto, At,
       Counts, InPublish, PublishPoints, Preparations
  <2>3. CASE PollPubrec(g)
    <3>1. ~ Refused(arg[g])
      <4>1. arg[g].code \in {0, 128}
        BY <2>3 DEF PollPubrec, At, OwnAcks, AckPoints, OnePublisher
      <4>2. QED
        BY <4>1 DEF Refused
    <3>2. QED
      BY <2>3, <3>1, CallTyped DEF PollPubrec, PollReturn, Done, Goto, At,
         sendVars, Counts, InPublish, PublishPoints, Preparations
  <2>4. CASE \/ PollPubrel(g) \/ PollRelease(g) \/ PollResponse(g)
             \/ PollFanout(g) \/ PollPingresp(g) \/ PollDisconnect(g)
    BY <2>4, CallTyped DEF PollPubrel, PollRelease, PollResponse,
       PollFanout, PollPingresp, PollDisconnect, Panic,
       PollReturn, Done, Goto, At, callVars, Counts, InPublish,
       PublishPoints, Preparations
  <2>5. QED
    BY <1>4, <2>1, <2>2, <2>3, <2>4 DEF PollStep
<1>5. CASE SubscribeStep(g) \/ UnsubscribeStep(g)
  BY <1>5, CallTyped DEF SubscribeStep, UnsubscribeStep, SubscribeLock,
     SubscribeSend, SubscribeAnswer, SubscribeBind, SubscribeUnregister,
     SubscribeClose, ResponseDelete, UnsubscribeSend, UnsubscribeAnswer,
     UnsubscribeFind, UnsubscribeClose, UnsubscribeRemove,
     UnsubscribeUnlock, ReturnSubscribe,
     Panic, Done, Goto, At, callVars, Counts, InPublish, PublishPoints,
     Preparations
<1>6. QED
  BY <1>1, <1>2, <1>3, <1>4, <1>5 DEF Step

FlowInv == losses = 0 /\ OutgoingInv /\ StartInv /\ OwnAcks /\ QuotaInv

LEMMA InitFlow == Init /\ OnePublisher => FlowInv
<1> SUFFICES ASSUME Init, OnePublisher
             PROVE  FlowInv
  OBVIOUS
<1>1. losses = 0 /\ OutgoingInv /\ StartInv /\ OwnAcks
  BY InitOutgoing, InitStart, InitOwn DEF Init, OnePublisher
<1>2. Busy = {} /\ AtPoint("pub_count") = {}
  <2>1. \A id \in PubIds : Resting(id)
    BY QueueEmpty DEF Init, Resting, NoRequest, NoAck, Unhandled, Handling,
       AckPoints
  <2>2. QED
    BY <2>1 DEF Init, Busy, AtPoint, At
<1>3. Cardinality(Busy) = 0 /\ Cardinality(AtPoint("pub_count")) = 0
  BY <1>2, FS_EmptySet
<1>4. QuotaInv
  BY <1>2, <1>3 DEF Init, QuotaInv, Counts, InPublish, PublishPoints,
     Preparations
<1>5. QED
  BY <1>1, <1>4 DEF FlowInv

LEMMA NextFlow ==
  ASSUME TypeOK, LockInv, OnePublisher, FlowInv, [Next]_vars
  PROVE  FlowInv'
<1>1. losses = 0 /\ OutgoingInv /\ StartInv /\ OwnAcks /\ QuotaInv
  BY DEF FlowInv
<1>2. SeparateIds /\ HasStorage /\ "CONNACK" \notin Unprompted
  BY DEF OnePublisher
<1>3. ASSUME NEW g \in Goroutines, Call(g) \/ Step(g), UNCHANGED brokerVars
      PROVE  FlowInv'
  <2>1. OutgoingInv' /\ OwnAcks' /\ (RestKept(PubIds) \/ Sending(g))
    BY <1>1, <1>2, <1>3, GoroutineOutgoing, GoroutineOwnAcks
  <2>2. StartInv' /\ (Beginning' => Beginning)
    BY <1>1, <1>3, SendsPublish, GoroutineStart, StartCalmInv, ConnectAckStart
  <2>3. /\ losses' = 0
        /\ ConnectAck(g) /\ Beginning' => ~ (Head(toClient).code < 128)
    BY <1>1, <1>3, ConnectAckStart DEF brokerVars
  <2>4. CASE Sending(g)
    BY <1>1, <2>1, <2>2, <2>3, <2>4, SendingQuota DEF FlowInv
  <2>5. CASE ~ Sending(g)
    BY <1>1, <1>3, <2>1, <2>2, <2>3, <2>5, PublishCountQuota, CompletedQuota,
       ConnectAckQuota, GoroutineQuotaCalm, QuotaCalmInv DEF FlowInv
  <2>6. QED
    BY <2>4, <2>5
<1>4. CASE \/ BrokerStep
           \/ ConnLost \/ PingDeadlinePasses \/ Restart \/ UNCHANGED vars
           \/ (\E c \in Channels : Application(c)) /\ UNCHANGED brokerVars
  <2>1. OutgoingInv' /\ RestKept(PubIds)
    BY <1>1, <1>2, <1>4, WorldOutgoing
  <2>2. ~ ConnLost /\ ~ Restart
    BY <1>1 DEF ConnLost, Restart
  <2>3. UNCHANGED <<pc, arg, sendVars, losses>>
    BY <1>4, <2>2, BrokerTakesOne DEF PingDeadlinePasses, vars, clientVars,
       callVars, brokerVars, Application, CreateEventChannel,
       CloseEventChannel, CloseEventChannelEnd, ReceiveEvent
  <2>4. StartInv' /\ OwnAcks' /\ (Beginning' => Beginning)
    BY <1>1, <1>2, <1>4, <2>2, BrokerStart, WorldStart, BrokerOwn, WorldOwn
       DEF OnePublisher
  <2>5. QuotaCalm
    BY <2>1, <2>3 DEF QuotaCalm, Counts
  <2>6. QED
    BY <1>1, <2>1, <2>3, <2>4, <2>5, QuotaCalmInv DEF FlowInv
<1>5. QED
  BY <1>3, <1>4 DEF Next

LEMMA FlowInductive == Spec => []((OnePublisher => FlowInv) /\ TypeOK)
<1>1. Init => (OnePublisher => FlowInv)
  BY InitFlow
<1>2. TypeOK /\ LockInv /\ (OnePublisher => FlowInv) /\ [Next]_vars
      => (OnePublisher => FlowInv)'
  BY NextFlow DEF OnePublisher, SeparateIds
<1>3. QED
  BY <1>1, <1>2, Inductive, PTL DEF Spec

-----------------------------------------------------------------------------
(* The theorems on flow control *)

(* The send quota never promises what is in use.  Publish reads it, writes *)
(* the packet and decrements it in three sections under different locks,   *)
(* while Poll credits it under c.mutex and releases a waiting publisher:   *)
(* with one goroutine that publishes, the quota and the messages on their  *)
(* way, less the one Publish has yet to count, stay within the Receive     *)
(* Maximum of the server.                                                  *)
THEOREM QuotaPromisesNothing == Spec => [](OnePublisher => SendQuotaSound)
<1>1. TypeOK /\ OnePublisher /\ FlowInv => SendQuotaSound
  <2> SUFFICES ASSUME TypeOK, OnePublisher, FlowInv
               PROVE  SendQuotaSound
    OBVIOUS
  <2>1. owed \subseteq Busy
    BY DEF FlowInv, OutgoingInv, Busy, Resting
  <2>2. /\ Cardinality(owed) \in Nat /\ Cardinality(owed) <= Cardinality(Busy)
        /\ Cardinality(Busy) \in Nat
    BY <2>1, BusyCounted
  <2>3. QED
    BY <2>2, QuotaTyped, CountersFew DEF FlowInv, QuotaInv, SendQuotaSound
<1>2. QED
  BY <1>1, FlowInductive, PTL

(* Publish has never more messages on their way than the server allows,    *)
(* although it decides on a quota that it reads without the lock that      *)
(* guards it, and does not read it again when Poll has released it.        *)
THEOREM ServerNotFlooded == Spec => [](OnePublisher => ReceiveMaximumRespected)
<1>1. TypeOK /\ OnePublisher /\ FlowInv => ReceiveMaximumRespected
  <2> SUFFICES ASSUME TypeOK, OnePublisher, FlowInv
               PROVE  ReceiveMaximumRespected
    OBVIOUS
  <2>1. owed \subseteq Busy
    BY DEF FlowInv, OutgoingInv, Busy, Resting
  <2>2. /\ Cardinality(owed) \in Nat /\ Cardinality(owed) <= Cardinality(Busy)
        /\ Cardinality(Busy) \in Nat
    BY <2>1, BusyCounted
  <2>3. Cardinality(AtPoint("pub_count")) <= sendQuota
    <3>1. CASE AtPoint("pub_count") = {}
      BY <3>1, FS_EmptySet, QuotaTyped
    <3>2. CASE AtPoint("pub_count") # {}
      <4>1. PICK g \in AtPoint("pub_count") : TRUE
        BY <3>2
      <4>2. Cardinality(AtPoint("pub_count")) = 1 /\ sendQuota > 0
        BY <4>1, CountersFew DEF FlowInv, QuotaInv, Counts, AtPoint, At
      <4>3. QED
        BY <4>2, QuotaTyped
    <3>3. QED
      BY <3>1, <3>2
  <2>4. Cardinality(owed) <= serverReceiveMaximum
    BY <2>2, <2>3, QuotaTyped, CountersFew DEF FlowInv, QuotaInv
  <2>5. QED
    BY <2>2, <2>4, QuotaTyped, ConstantsAssumption
       DEF ReceiveMaximumRespected, AnnouncedMaximum
<1>2. QED
  BY <1>1, FlowInductive, PTL
=============================================================================
