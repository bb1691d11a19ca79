--------------------------- MODULE Client_proofs ---------------------------
(***************************************************************************)
(* Proofs about Client for every number of goroutines, every assignment of *)
(* methods to them and every value of the other constants: the type        *)
(* invariant, the ownership of the two mutexes, and that Poll never blocks *)
(* on the mutex it holds.                                                  *)
(***************************************************************************)
EXTENDS Client, TLAPS

USE ConstantsAssumption, BrokerAssumption

-----------------------------------------------------------------------------
(* The building blocks of the methods *)

(* The counters of uint16 arithmetic stay in their range. *)
LEMMA QuotaArithmetic ==
  ASSUME NEW q \in Quotas
  PROVE  Dec(q) \in Quotas /\ Inc(q) \in Quotas
BY DEF Dec, Inc, Quotas

(* What the constructors of packets return are packets. *)
LEMMA PacketTyped ==
  /\ \A t \in PacketTypes, id \in Ids : Packet(t, id) \in Packets
  /\ \A id \in Ids, q \in 0..2 : Publish(id, q) \in Packets
  /\ \A t \in PacketTypes, id \in Ids, c \in Codes : Reply(t, id, c) \in Packets
  /\ NoPacket \in Packets
  /\ 0 \in Ids
<1>1. \A t \in PacketTypes, id \in Ids : Packet(t, id) \in Packets
  BY DEF Packet, Packets, Codes
<1>2. \A id \in Ids, q \in 0..2 : Publish(id, q) \in Packets
  BY <1>1 DEF Publish, Packets, PacketTypes
<1>3. \A t \in PacketTypes, id \in Ids, c \in Codes : Reply(t, id, c) \in Packets
  BY <1>1 DEF Reply, Packets
<1>4. 0 \in Ids
  BY DEF Ids
<1>5. QED
  BY <1>1, <1>2, <1>3, <1>4 DEF NoPacket, PacketTypes

LEMMA AboutTyped ==
  ASSUME NEW p \in Packets, NEW fs \in SUBSET Filters
  PROVE  About(p, fs) \in Packets
BY DEF About, Packets

LEMMA GotoTyped ==
  ASSUME CallType, NEW g \in Goroutines, NEW p \in Points, Goto(g, p),
         UNCHANGED <<arg, calls>>
  PROVE  CallType'
BY DEF CallType, Goto

LEMMA DoneTyped ==
  ASSUME CallType, NEW g \in Goroutines, Done(g)
  PROVE  CallType'
BY PacketTyped DEF CallType, Done, Goto, Points, HoldsNothing

LEMMA BeginTyped ==
  ASSUME CallType, NEW g \in Goroutines, NEW m, NEW first \in Points,
         NEW p \in Packets, Begin(g, m, first, p)
  PROVE  CallType'
BY DEF CallType, Begin, Goto

LEMMA ReleasingTyped ==
  ASSUME CallType, NEW g \in Goroutines, NEW p \in Points,
         GotoReleasing(g, p)
  PROVE  pc' \in [Goroutines -> Points]
BY DEF CallType, GotoReleasing, Points, HoldsNothing

LEMMA WriteTyped ==
  ASSUME WireType, NEW p \in Packets, Write(p)
  PROVE  toServer' \in Seq(Packets)
BY DEF WireType, Write

LEMMA ReadTyped ==
  ASSUME WireType
  PROVE  /\ <<>> \in Seq(Packets)
         /\ toClient # <<>> => /\ Head(toClient) \in Packets
                              /\ Tail(toClient) \in Seq(Packets)
         /\ toServer # <<>> => /\ Head(toServer) \in Packets
                              /\ Tail(toServer) \in Seq(Packets)
BY DEF WireType

LEMMA HandlerPoints ==
  ASSUME NEW t \in DOMAIN Handler
  PROVE  Handler[t] \in Points
BY DEF Handler, Points, HoldsConn, PollHolds

(* The parts of EventType *)
LEMMA UnchangedEvents ==
  /\ InboxType /\ UNCHANGED inbox => InboxType'
  /\ ChanType /\ UNCHANGED chanVars => ChanType'
  /\ ResponseType /\ UNCHANGED respVars => ResponseType'
  /\ LoopType /\ UNCHANGED loopVars => LoopType'
  /\ EventType /\ UNCHANGED crashed => (crashed \in BOOLEAN)'
BY DEF EventType, InboxType, ChanType, ResponseType, LoopType, chanVars,
   respVars, loopVars

LEMMA SignalTyped ==
  ASSUME EventType, Signal
  PROVE  EventType'
<1>1. InboxType'
  BY ConstantsAssumption DEF EventType, InboxType, Signal
<1>2. ChanType'
  BY DEF EventType, ChanType, Signal
<1>3. QED
  BY <1>1, <1>2, UnchangedEvents DEF EventType, Signal

(* The identifier of the packet that a call is about *)
LEMMA ArgIdTyped ==
  ASSUME CallType, NEW g \in Goroutines, NEW id \in PubIds,
         arg' = [arg EXCEPT ![g].id = id]
  PROVE  arg' \in [Goroutines -> Packets]
<1>1. arg[g] \in Packets /\ id \in Ids
  BY DEF CallType, Ids
<1>2. [arg[g] EXCEPT !.id = id] \in Packets
  BY <1>1 DEF Packets
<1>3. QED
  BY <1>2 DEF CallType

(* What is left of a list of topics, and a list with its head replaced *)
LEMMA TopicsTyped ==
  ASSUME NEW ts \in Seq(Filters \X EventChannels), ts # <<>>
  PROVE  /\ FilterOf(Head(ts)) \in Filters
         /\ ChannelOf(Head(ts)) \in EventChannels
         /\ Tail(ts) \in Seq(Filters \X EventChannels)
         /\ \A f \in Filters, c \in EventChannels :
              [ts EXCEPT ![1] = <<f, c>>] \in Seq(Filters \X EventChannels)
<1>1. Head(ts) \in Filters \X EventChannels
  OBVIOUS
<1>2. Tail(ts) \in Seq(Filters \X EventChannels)
  OBVIOUS
<1>3. ASSUME NEW f \in Filters, NEW c \in EventChannels
      PROVE  [ts EXCEPT ![1] = <<f, c>>] \in Seq(Filters \X EventChannels)
  OBVIOUS
<1>4. QED
  BY <1>1, <1>2, <1>3 DEF FilterOf, ChannelOf

LEMMA ReturnSubscribeTyped ==
  ASSUME CallType, LoopType, NEW g \in Goroutines, ReturnSubscribe(g)
  PROVE  CallType' /\ topics' \in [Goroutines -> Seq(Filters \X EventChannels)]
BY DoneTyped DEF ReturnSubscribe, LoopType

(* A group of variables that a step leaves alone keeps its type. *)
LEMMA UnchangedTyped ==
  /\ LockType /\ UNCHANGED lockVars => LockType'
  /\ WireType /\ UNCHANGED wireVars => WireType'
  /\ LinkType /\ UNCHANGED linkVars => LinkType'
  /\ QuotaType /\ UNCHANGED <<sendVars, recvVars>> => QuotaType'
  /\ StoreType /\ UNCHANGED storeVars => StoreType'
  /\ EventType /\ UNCHANGED eventVars => EventType'
  /\ BrokerType /\ UNCHANGED brokerVars => BrokerType'
  /\ CallType /\ UNCHANGED callVars => CallType'
<1>1. EventType /\ UNCHANGED eventVars => EventType'
  BY DEF EventType, InboxType, ChanType, ResponseType, LoopType, eventVars,
     chanVars, respVars, loopVars
<1>2. QED
  BY <1>1 DEF LockType, WireType, LinkType, QuotaType, StoreType, BrokerType,
     CallType, lockVars, wireVars, linkVars, sendVars, recvVars, storeVars,
     brokerVars, callVars

LEMMA MapWriteTyped ==
  ASSUME NEW points, MapWrite(points)
  PROVE  crashed' \in BOOLEAN
BY DEF MapWrite

LEMMA PanicTyped ==
  ASSUME ClientType, Panic
  PROVE  ClientType'
<1>1. EventType'
  BY UnchangedEvents DEF Panic, ClientType, EventType
<1>2. QED
  BY <1>1, UnchangedTyped DEF Panic, ClientType

-----------------------------------------------------------------------------
(* The steps of the methods keep the types of the client's variables. *)

LEMMA ConnectCallTyped ==
  ASSUME ClientType, NEW g \in Goroutines, ConnectCall(g)
  PROVE  ClientType'
<1>1. CallType'
  BY BeginTyped, PacketTyped DEF ConnectCall, ClientType, Points, HoldsNothing
<1>2. UNCHANGED <<lockVars, wireVars, linkVars, sendVars, recvVars, storeVars, eventVars>>
  BY DEF ConnectCall, lockVars, wireVars, linkVars, sendVars, recvVars,
     storeVars, eventVars
<1>3. QED
  BY <1>1, <1>2, UnchangedTyped DEF ClientType

LEMMA ConnectLockTyped ==
  ASSUME ClientType, NEW g \in Goroutines, ConnectLock(g)
  PROVE  ClientType'
<1>1. CallType'
  BY DoneTyped, GotoTyped DEF ConnectLock, ClientType, Points, HoldsNothing,
     HoldsConn, HoldsMutex, HoldsRead, HoldsBoth, PollHolds
<1>2. LockType'
  BY DEF ConnectLock, ClientType, LockType
<1>3. UNCHANGED <<wireVars, linkVars, sendVars, recvVars, storeVars, eventVars>>
  BY DEF ConnectLock, wireVars, linkVars, sendVars, recvVars, storeVars,
     eventVars
<1>4. QED
  BY <1>1, <1>2, <1>3, UnchangedTyped DEF ClientType

LEMMA ConnectSendTyped ==
  ASSUME ClientType, NEW g \in Goroutines, ConnectSend(g)
  PROVE  ClientType'
<1>1. CallType'
  BY DoneTyped, GotoTyped DEF ConnectSend, ClientType, Points, HoldsNothing,
     HoldsConn, HoldsMutex, HoldsRead, HoldsBoth, PollHolds
<1>2. LockType'
  BY DEF ConnectSend, ClientType, LockType
<1>3. WireType'
  BY WriteTyped, PacketTyped DEF ConnectSend, ClientType, WireType,
     ConnStates, PacketTypes, wireVars
<1>4. UNCHANGED <<linkVars, sendVars, recvVars, storeVars, eventVars>>
  BY DEF ConnectSend, linkVars, sendVars, recvVars, storeVars, eventVars
<1>5. QED
  BY <1>1, <1>2, <1>3, <1>4, UnchangedTyped DEF ClientType

LEMMA ConnectFailTyped ==
  ASSUME ClientType, NEW g \in Goroutines, ConnectFail(g)
  PROVE  ClientType'
<1>1. CallType'
  BY DoneTyped, GotoTyped DEF ConnectFail, ClientType, ConnectReturn,
     Points, HoldsNothing, HoldsConn, HoldsMutex, HoldsRead, HoldsBoth,
     PollHolds
<1>2. LockType'
  BY DEF ConnectFail, ClientType, LockType, ConnectReturn
<1>3. WireType'
  BY WriteTyped, PacketTyped, ReadTyped DEF ConnectFail, ClientType,
     WireType, ConnStates, PacketTypes, wireVars
<1>4. UNCHANGED <<linkVars, sendVars, recvVars, storeVars, eventVars>>
  BY DEF ConnectFail, linkVars, sendVars, recvVars, storeVars, eventVars
<1>5. QED
  BY <1>1, <1>2, <1>3, <1>4, UnchangedTyped DEF ClientType

LEMMA ConnectAckTyped ==
  ASSUME ClientType, NEW g \in Goroutines, ConnectAck(g)
  PROVE  ClientType'
<1>1. CallType'
  BY DoneTyped, GotoTyped DEF ConnectAck, ClientType, ConnectReturn, Points,
     HoldsNothing, HoldsConn, HoldsMutex, HoldsRead, HoldsBoth, PollHolds
<1>2. LockType'
  BY DEF ConnectAck, ClientType, LockType, ConnectReturn
<1>3. WireType'
  BY WriteTyped, PacketTyped, ReadTyped DEF ConnectAck, ClientType,
     WireType, ConnStates, PacketTypes, wireVars
<1>4. LinkType'
  BY DEF ConnectAck, ClientType, LinkType, linkVars
<1>5. QuotaType'
  BY QuotaArithmetic DEF ConnectAck, ClientType, QuotaType, Quotas,
     sendVars, recvVars
<1>6. EventType'
  BY SignalTyped, UnchangedTyped DEF ConnectAck, ClientType, PacketTypes
<1>7. UNCHANGED <<storeVars>>
  BY DEF ConnectAck, storeVars
<1>8. QED
  BY <1>1, <1>2, <1>3, <1>4, <1>5, <1>6, <1>7, UnchangedTyped DEF ClientType

LEMMA DisconnectCallTyped ==
  ASSUME ClientType, NEW g \in Goroutines, DisconnectCall(g)
  PROVE  ClientType'
<1>1. CallType'
  BY BeginTyped, PacketTyped DEF DisconnectCall, ClientType, Points, HoldsNothing
<1>2. UNCHANGED <<lockVars, wireVars, linkVars, sendVars, recvVars, storeVars, eventVars>>
  BY DEF DisconnectCall, lockVars, wireVars, linkVars, sendVars, recvVars,
     storeVars, eventVars
<1>3. QED
  BY <1>1, <1>2, UnchangedTyped DEF ClientType

LEMMA DisconnectLockTyped ==
  ASSUME ClientType, NEW g \in Goroutines, DisconnectLock(g)
  PROVE  ClientType'
<1>1. CallType'
  BY DoneTyped, GotoTyped DEF DisconnectLock, ClientType, Points,
     HoldsNothing, HoldsConn, HoldsMutex, HoldsRead, HoldsBoth, PollHolds
<1>2. LockType'
  BY DEF DisconnectLock, ClientType, LockType
<1>3. UNCHANGED <<wireVars, linkVars, sendVars, recvVars, storeVars, eventVars>>
  BY DEF DisconnectLock, wireVars, linkVars, sendVars, recvVars, storeVars,
     eventVars
<1>4. QED
  BY <1>1, <1>2, <1>3, UnchangedTyped DEF ClientType

LEMMA DisconnectSendTyped ==
  ASSUME ClientType, NEW g \in Goroutines, DisconnectSend(g)
  PROVE  ClientType'
<1>1. CallType'
  BY DoneTyped, GotoTyped DEF DisconnectSend, ClientType, Points,
     HoldsNothing, HoldsConn, HoldsMutex, HoldsRead, HoldsBoth, PollHolds
<1>2. LockType'
  BY DEF DisconnectSend, ClientType, LockType
<1>3. WireType'
  BY WriteTyped, PacketTyped, ReadTyped DEF DisconnectSend, ClientType,
     WireType, ConnStates, PacketTypes, wireVars
<1>4. LinkType'
  BY DEF DisconnectSend, ClientType, LinkType, linkVars
<1>5. EventType'
  BY SignalTyped, UnchangedTyped DEF DisconnectSend, ClientType, PacketTypes
<1>6. UNCHANGED <<sendVars, recvVars, storeVars>>
  BY DEF DisconnectSend, sendVars, recvVars, storeVars
<1>7. QED
  BY <1>1, <1>2, <1>3, <1>4, <1>5, <1>6, UnchangedTyped DEF ClientType

LEMMA KeepAliveCallTyped ==
  ASSUME ClientType, NEW g \in Goroutines, KeepAliveCall(g)
  PROVE  ClientType'
<1>1. CallType'
  BY BeginTyped, PacketTyped DEF KeepAliveCall, ClientType, Points, HoldsNothing
<1>2. UNCHANGED <<lockVars, wireVars, linkVars, sendVars, recvVars, storeVars, eventVars>>
  BY DEF KeepAliveCall, lockVars, wireVars, linkVars, sendVars, recvVars,
     storeVars, eventVars
<1>3. QED
  BY <1>1, <1>2, UnchangedTyped DEF ClientType

LEMMA KeepAliveLockTyped ==
  ASSUME ClientType, NEW g \in Goroutines, KeepAliveLock(g)
  PROVE  ClientType'
<1>1. CallType'
  BY DoneTyped, GotoTyped DEF KeepAliveLock, ClientType, Points,
     HoldsNothing, HoldsConn, HoldsMutex, HoldsRead, HoldsBoth, PollHolds
<1>2. LockType'
  BY DEF KeepAliveLock, ClientType, LockType
<1>3. UNCHANGED <<wireVars, linkVars, sendVars, recvVars, storeVars, eventVars>>
  BY DEF KeepAliveLock, wireVars, linkVars, sendVars, recvVars, storeVars,
     eventVars
<1>4. QED
  BY <1>1, <1>2, <1>3, UnchangedTyped DEF ClientType

LEMMA KeepAliveSendTyped ==
  ASSUME ClientType, NEW g \in Goroutines, KeepAliveSend(g)
  PROVE  ClientType'
<1>1. CallType'
  BY DoneTyped, GotoTyped DEF KeepAliveSend, ClientType, Points,
     HoldsNothing, HoldsConn, HoldsMutex, HoldsRead, HoldsBoth, PollHolds
<1>2. LockType'
  BY DEF KeepAliveSend, ClientType, LockType
<1>3. WireType'
  BY WriteTyped, PacketTyped DEF KeepAliveSend, ClientType, WireType,
     ConnStates, PacketTypes, wireVars
<1>4. UNCHANGED <<linkVars, sendVars, recvVars, storeVars, eventVars>>
  BY DEF KeepAliveSend, linkVars, sendVars, recvVars, storeVars, eventVars
<1>5. QED
  BY <1>1, <1>2, <1>3, <1>4, UnchangedTyped DEF ClientType

LEMMA PublishCallTyped ==
  ASSUME ClientType, NEW g \in Goroutines, PublishCall(g)
  PROVE  ClientType'
<1>1. CallType'
  BY BeginTyped, PacketTyped DEF PublishCall, ClientType, Points, HoldsNothing
<1>2. UNCHANGED <<lockVars, wireVars, linkVars, sendVars, recvVars, storeVars, eventVars>>
  BY DEF PublishCall, lockVars, wireVars, linkVars, sendVars, recvVars,
     storeVars, eventVars
<1>3. QED
  BY <1>1, <1>2, UnchangedTyped DEF ClientType

LEMMA PublishLockTyped ==
  ASSUME ClientType, NEW g \in Goroutines, PublishLock(g)
  PROVE  ClientType'
<1>1. CallType'
  BY DoneTyped, GotoTyped DEF PublishLock, ClientType, Points, HoldsNothing,
     HoldsConn, HoldsMutex, HoldsRead, HoldsBoth, PollHolds
<1>2. LockType'
  BY DEF PublishLock, ClientType, LockType
<1>3. UNCHANGED <<wireVars, linkVars, sendVars, recvVars, storeVars, eventVars>>
  BY DEF PublishLock, wireVars, linkVars, sendVars, recvVars, storeVars,
     eventVars
<1>4. QED
  BY <1>1, <1>2, <1>3, UnchangedTyped DEF ClientType

LEMMA PublishStoreTyped ==
  ASSUME ClientType, NEW g \in Goroutines, PublishStore(g)
  PROVE  ClientType'
<1>1. CallType'
  BY DoneTyped, GotoTyped, ArgIdTyped DEF PublishStore, ClientType, CallType,
     Goto, Points, HoldsNothing, HoldsConn, HoldsMutex, HoldsRead,
     HoldsBoth, PollHolds
<1>2. LockType'
  BY DEF PublishStore, ClientType, LockType
<1>3. StoreType'
  BY DEF PublishStore, ClientType, StoreType, Kept, CallType, Packets
<1>4. UNCHANGED <<wireVars, linkVars, sendVars, recvVars, eventVars>>
  BY DEF PublishStore, wireVars, linkVars, sendVars, recvVars, eventVars
<1>5. QED
  BY <1>1, <1>2, <1>3, <1>4, UnchangedTyped DEF ClientType

LEMMA PublishQuotaTyped ==
  ASSUME ClientType, NEW g \in Goroutines, PublishQuota(g)
  PROVE  ClientType'
<1>1. CallType'
  BY DoneTyped, GotoTyped DEF PublishQuota, ClientType, Points,
     HoldsNothing, HoldsConn, HoldsMutex, HoldsRead, HoldsBoth, PollHolds
<1>2. LockType'
  BY DEF PublishQuota, ClientType, LockType
<1>3. UNCHANGED <<wireVars, linkVars, sendVars, recvVars, storeVars, eventVars>>
  BY DEF PublishQuota, wireVars, linkVars, sendVars, recvVars, storeVars,
     eventVars
<1>4. QED
  BY <1>1, <1>2, <1>3, UnchangedTyped DEF ClientType

LEMMA PublishParkTyped ==
  ASSUME ClientType, NEW g \in Goroutines, PublishPark(g)
  PROVE  ClientType'
<1>1. CallType'
  BY DoneTyped, GotoTyped DEF PublishPark, ClientType, Points, HoldsNothing,
     HoldsConn, HoldsMutex, HoldsRead, HoldsBoth, PollHolds
<1>2. UNCHANGED <<lockVars, wireVars, linkVars, sendVars, recvVars, storeVars, eventVars>>
  BY DEF PublishPark, lockVars, wireVars, linkVars, sendVars, recvVars,
     storeVars, eventVars
<1>3. QED
  BY <1>1, <1>2, UnchangedTyped DEF ClientType

LEMMA PublishRelockTyped ==
  ASSUME ClientType, NEW g \in Goroutines, PublishRelock(g)
  PROVE  ClientType'
<1>1. CallType'
  BY DoneTyped, GotoTyped DEF PublishRelock, ClientType, Points,
     HoldsNothing, HoldsConn, HoldsMutex, HoldsRead, HoldsBoth, PollHolds
<1>2. LockType'
  BY DEF PublishRelock, ClientType, LockType
<1>3. UNCHANGED <<wireVars, linkVars, sendVars, recvVars, storeVars, eventVars>>
  BY DEF PublishRelock, wireVars, linkVars, sendVars, recvVars, storeVars,
     eventVars
<1>4. QED
  BY <1>1, <1>2, <1>3, UnchangedTyped DEF ClientType

LEMMA PublishSendTyped ==
  ASSUME ClientType, NEW g \in Goroutines, PublishSend(g)
  PROVE  ClientType'
<1>1. CallType'
  BY DoneTyped, GotoTyped DEF PublishSend, ClientType, Points, HoldsNothing,
     HoldsConn, HoldsMutex, HoldsRead, HoldsBoth, PollHolds
<1>2. LockType'
  BY DEF PublishSend, ClientType, LockType
<1>3. WireType'
  BY WriteTyped, PacketTyped DEF PublishSend, ClientType, WireType,
     ConnStates, PacketTypes, wireVars, CallType
<1>4. StoreType'
  BY DEF PublishSend, ClientType, StoreType, Kept, CallType, Packets
<1>5. UNCHANGED <<linkVars, sendVars, recvVars, eventVars>>
  BY DEF PublishSend, linkVars, sendVars, recvVars, eventVars
<1>6. QED
  BY <1>1, <1>2, <1>3, <1>4, <1>5, UnchangedTyped DEF ClientType

LEMMA PublishCountTyped ==
  ASSUME ClientType, NEW g \in Goroutines, PublishCount(g)
  PROVE  ClientType'
<1>1. CallType'
  BY DoneTyped, GotoTyped DEF PublishCount, ClientType, Points,
     HoldsNothing, HoldsConn, HoldsMutex, HoldsRead, HoldsBoth, PollHolds
<1>2. QuotaType'
  BY QuotaArithmetic DEF PublishCount, ClientType, QuotaType, Quotas,
     sendVars, recvVars
<1>3. UNCHANGED <<lockVars, wireVars, linkVars, storeVars, eventVars>>
  BY DEF PublishCount, lockVars, wireVars, linkVars, storeVars, eventVars
<1>4. QED
  BY <1>1, <1>2, <1>3, UnchangedTyped DEF ClientType

LEMMA PollCallTyped ==
  ASSUME ClientType, NEW g \in Goroutines, PollCall(g)
  PROVE  ClientType'
<1>1. CallType'
  BY DoneTyped, GotoTyped DEF PollCall, ClientType, PollReturn, Points,
     HoldsNothing, HoldsConn, HoldsMutex, HoldsRead, HoldsBoth, PollHolds
<1>2. UNCHANGED <<lockVars, wireVars, linkVars, sendVars, recvVars, storeVars, eventVars>>
  BY DEF PollCall, lockVars, wireVars, linkVars, sendVars, recvVars,
     storeVars, eventVars
<1>3. QED
  BY <1>1, <1>2, UnchangedTyped DEF ClientType

LEMMA PollLockTyped ==
  ASSUME ClientType, NEW g \in Goroutines, PollLock(g)
  PROVE  ClientType'
<1>1. CallType'
  BY DoneTyped, GotoTyped DEF PollLock, ClientType, PollReturn, Points,
     HoldsNothing, HoldsConn, HoldsMutex, HoldsRead, HoldsBoth, PollHolds
<1>2. LockType'
  BY DEF PollLock, ClientType, LockType, PollReturn
<1>3. WireType'
  <2>1. WireType /\ <<>> \in Seq(Packets)
    BY ReadTyped DEF ClientType
  <2>2. conn' \in ConnStates
    BY <2>1 DEF PollLock, WireType, ConnStates
  <2>3. toClient' \in Seq(Packets)
    BY <2>1 DEF PollLock, WireType
  <2>4. QED
    BY <2>1, <2>2, <2>3 DEF PollLock, WireType
<1>4. LinkType'
  BY DEF PollLock, ClientType, LinkType, linkVars
<1>5. UNCHANGED <<sendVars, recvVars, storeVars, eventVars>>
  BY DEF PollLock, sendVars, recvVars, storeVars, eventVars
<1>6. QED
  BY <1>1, <1>2, <1>3, <1>4, <1>5, UnchangedTyped DEF ClientType

LEMMA PollNothingTyped ==
  ASSUME ClientType, NEW g \in Goroutines, PollNothing(g)
  PROVE  ClientType'
<1>1. CallType'
  BY DoneTyped, GotoTyped DEF PollNothing, ClientType, PollReturn, Points,
     HoldsNothing, HoldsConn, HoldsMutex, HoldsRead, HoldsBoth, PollHolds
<1>2. LockType'
  BY DEF PollNothing, ClientType, LockType, PollReturn
<1>3. UNCHANGED <<wireVars, linkVars, sendVars, recvVars, storeVars, eventVars>>
  BY DEF PollNothing, wireVars, linkVars, sendVars, recvVars, storeVars,
     eventVars
<1>4. QED
  BY <1>1, <1>2, <1>3, UnchangedTyped DEF ClientType

LEMMA PollReadTyped ==
  ASSUME ClientType, NEW g \in Goroutines, PollRead(g)
  PROVE  ClientType'
<1>1. CallType'
  <2>1. CallType /\ Head(toClient) \in Packets
    BY ReadTyped DEF PollRead, ClientType
  <2>2. CASE Head(toClient).type \in DOMAIN Handler
    BY <2>1, <2>2, HandlerPoints DEF PollRead, CallType, Goto
  <2>3. CASE Head(toClient).type \notin DOMAIN Handler
    BY <2>1, <2>3, DoneTyped DEF PollRead, PollReturn
  <2>4. QED
    BY <2>2, <2>3
<1>2. LockType'
  BY DEF PollRead, ClientType, LockType, PollReturn
<1>3. WireType'
  BY ReadTyped DEF PollRead, ClientType, WireType
<1>4. UNCHANGED <<linkVars, sendVars, recvVars, storeVars, eventVars>>
  BY DEF PollRead, linkVars, sendVars, recvVars, storeVars, eventVars
<1>5. QED
  BY <1>1, <1>2, <1>3, <1>4, UnchangedTyped DEF ClientType

LEMMA PollPublishTyped ==
  ASSUME ClientType, NEW g \in Goroutines, PollPublish(g)
  PROVE  ClientType'
<1>1. CallType'
  BY DoneTyped, GotoTyped DEF PollPublish, DisconnectWithReason, ClientType,
     PollReturn, Points, HoldsNothing, HoldsConn, HoldsMutex, HoldsRead,
     HoldsBoth, PollHolds
<1>2. LockType'
  BY DEF PollPublish, DisconnectWithReason, ClientType, LockType, PollReturn
<1>3. QuotaType'
  BY QuotaArithmetic DEF PollPublish, DisconnectWithReason, ClientType,
     QuotaType, Quotas, sendVars, recvVars
<1>4. UNCHANGED <<wireVars, linkVars, storeVars, eventVars>>
  BY DEF PollPublish, DisconnectWithReason, wireVars, linkVars, storeVars,
     eventVars
<1>5. QED
  BY <1>1, <1>2, <1>3, <1>4, UnchangedTyped DEF ClientType

LEMMA PollAckTyped ==
  ASSUME ClientType, NEW g \in Goroutines, PollAck(g)
  PROVE  ClientType'
<1>1. CallType'
  BY DoneTyped, GotoTyped DEF PollAck, ClientType, PollReturn, Points,
     HoldsNothing, HoldsConn, HoldsMutex, HoldsRead, HoldsBoth, PollHolds
<1>2. LockType'
  BY DEF PollAck, ClientType, LockType, PollReturn
<1>3. WireType'
  BY WriteTyped, PacketTyped DEF PollAck, ClientType, WireType, ConnStates,
     PacketTypes, wireVars, CallType, Packets
<1>4. UNCHANGED <<linkVars, sendVars, recvVars, storeVars, eventVars>>
  BY DEF PollAck, linkVars, sendVars, recvVars, storeVars, eventVars
<1>5. QED
  BY <1>1, <1>2, <1>3, <1>4, UnchangedTyped DEF ClientType

LEMMA PollCreditTyped ==
  ASSUME ClientType, NEW g \in Goroutines, PollCredit(g)
  PROVE  ClientType'
<1>1. CallType'
  BY DoneTyped, GotoTyped DEF PollCredit, ClientType, PollReturn, Points,
     HoldsNothing, HoldsConn, HoldsMutex, HoldsRead, HoldsBoth, PollHolds
<1>2. QuotaType'
  BY QuotaArithmetic DEF PollCredit, ClientType, QuotaType, Quotas,
     sendVars, recvVars
<1>3. UNCHANGED <<lockVars, wireVars, linkVars, storeVars, eventVars>>
  BY DEF PollCredit, lockVars, wireVars, linkVars, storeVars, eventVars
<1>4. QED
  BY <1>1, <1>2, <1>3, UnchangedTyped DEF ClientType

LEMMA PollStoreTyped ==
  ASSUME ClientType, NEW g \in Goroutines, PollStore(g)
  PROVE  ClientType'
<1>1. CallType'
  BY DoneTyped, GotoTyped DEF PollStore, ClientType, PollReturn, Points,
     HoldsNothing, HoldsConn, HoldsMutex, HoldsRead, HoldsBoth, PollHolds
<1>2. LockType'
  BY UnchangedTyped DEF PollStore, ClientType
<1>3. StoreType'
  BY DEF PollStore, ClientType, StoreType, Kept, CallType, Packets
<1>4. EventType'
  BY SignalTyped, UnchangedTyped DEF PollStore, ClientType, PacketTypes
<1>5. UNCHANGED <<wireVars, linkVars, sendVars, recvVars>>
  BY DEF PollStore, wireVars, linkVars, sendVars, recvVars
<1>6. QED
  BY <1>1, <1>2, <1>3, <1>4, <1>5, UnchangedTyped DEF ClientType

LEMMA CompletedTyped ==
  ASSUME ClientType, NEW g \in Goroutines, Completed(g)
  PROVE  ClientType'
<1>1. CallType'
  <2>1. "idle" \in Points /\ "poll_fanout" \in Points
    BY DEF Points, HoldsNothing, HoldsConn, PollHolds
  <2>2. CallType /\ pc' \in [Goroutines -> Points]
    BY <2>1, ReleasingTyped DEF Completed, ClientType
  <2>3. QED
    BY <2>2, PacketTyped DEF Completed, CallType
<1>2. LockType'
  BY DEF Completed, ClientType, LockType
<1>3. QuotaType'
  BY QuotaArithmetic DEF Completed, ClientType, QuotaType, Quotas, sendVars,
     recvVars
<1>4. StoreType'
  BY DEF Completed, ClientType, StoreType, Kept, CallType, Packets
<1>5. UNCHANGED <<wireVars, linkVars, eventVars>>
  BY DEF Completed
<1>6. QED
  BY <1>1, <1>2, <1>3, <1>4, <1>5, UnchangedTyped DEF ClientType

LEMMA PollPubackTyped ==
  ASSUME ClientType, NEW g \in Goroutines, PollPuback(g)
  PROVE  ClientType'
BY CompletedTyped DEF PollPuback

LEMMA PollPubcompTyped ==
  ASSUME ClientType, NEW g \in Goroutines, PollPubcomp(g)
  PROVE  ClientType'
BY CompletedTyped DEF PollPubcomp

LEMMA PollPubrecTyped ==
  ASSUME ClientType, NEW g \in Goroutines, PollPubrec(g)
  PROVE  ClientType'
<1>1. CallType'
  BY DoneTyped, GotoTyped DEF PollPubrec, ClientType, PollReturn, Points,
     HoldsNothing, HoldsConn, HoldsMutex, HoldsRead, HoldsBoth, PollHolds
<1>2. LockType'
  BY DEF PollPubrec, ClientType, LockType, PollReturn
<1>3. WireType'
  BY WriteTyped, PacketTyped DEF PollPubrec, ClientType, WireType,
     ConnStates, PacketTypes, wireVars, CallType, Packets
<1>4. QuotaType'
  <2>1. QuotaType
    BY DEF ClientType
  <2>2. \/ sendQuota' = sendQuota
        \/ sendQuota < serverReceiveMaximum /\ sendQuota' = sendQuota + 1
    BY DEF PollPubrec
  <2>3. UNCHANGED <<serverReceiveMaximum, receiveQuota, clientReceiveMaximum>>
    BY DEF PollPubrec, recvVars
  <2>4. QED
    BY <2>1, <2>2, <2>3 DEF QuotaType, Quotas
<1>5. StoreType'
  BY DEF PollPubrec, ClientType, StoreType, Kept, CallType, Packets
<1>6. EventType'
  BY SignalTyped, UnchangedTyped DEF PollPubrec, ClientType, PacketTypes
<1>7. UNCHANGED <<linkVars>>
  BY DEF PollPubrec, linkVars
<1>8. QED
  BY <1>1, <1>2, <1>3, <1>4, <1>5, <1>6, <1>7, UnchangedTyped DEF ClientType

LEMMA PollPubrelTyped ==
  ASSUME ClientType, NEW g \in Goroutines, PollPubrel(g)
  PROVE  ClientType'
<1>1. CallType'
  BY DoneTyped, GotoTyped DEF PollPubrel, ClientType, PollReturn, Points,
     HoldsNothing, HoldsConn, HoldsMutex, HoldsRead, HoldsBoth, PollHolds
<1>2. LockType'
  BY DEF PollPubrel, ClientType, LockType, PollReturn
<1>3. StoreType'
  BY DEF PollPubrel, ClientType, StoreType, Kept, CallType, Packets
<1>4. UNCHANGED <<wireVars, linkVars, sendVars, recvVars, eventVars>>
  BY DEF PollPubrel, wireVars, linkVars, sendVars, recvVars, eventVars
<1>5. QED
  BY <1>1, <1>2, <1>3, <1>4, UnchangedTyped DEF ClientType

LEMMA PollReleaseTyped ==
  ASSUME ClientType, NEW g \in Goroutines, PollRelease(g)
  PROVE  ClientType'
<1>1. CallType'
  BY DoneTyped, GotoTyped DEF PollRelease, ClientType, PollReturn, Points,
     HoldsNothing, HoldsConn, HoldsMutex, HoldsRead, HoldsBoth, PollHolds
<1>2. LockType'
  BY DEF PollRelease, ClientType, LockType, PollReturn
<1>3. WireType'
  BY WriteTyped, PacketTyped DEF PollRelease, ClientType, WireType,
     ConnStates, PacketTypes, wireVars, CallType, Packets
<1>4. QuotaType'
  <2>1. QuotaType
    BY DEF ClientType
  <2>2. QED
    <3>1. \/ receiveQuota' = receiveQuota
          \/ /\ receiveQuota < clientReceiveMaximum
             /\ receiveQuota' = receiveQuota + 1
      <4>1. CASE conn = "open"
        BY <4>1 DEF PollRelease
      <4>2. CASE conn # "open"
        BY <4>2 DEF PollRelease
      <4>3. QED
        BY <4>1, <4>2
    <3>2. receiveQuota' \in Quotas
      BY <2>1, <3>1 DEF QuotaType, Quotas
    <3>3. QED
      BY <2>1, <3>2 DEF PollRelease, QuotaType, sendVars
<1>5. EventType'
  BY SignalTyped, UnchangedTyped DEF PollRelease, ClientType, PacketTypes
<1>6. UNCHANGED <<linkVars, storeVars>>
  BY DEF PollRelease, linkVars, storeVars
<1>7. QED
  BY <1>1, <1>2, <1>3, <1>4, <1>5, <1>6, UnchangedTyped DEF ClientType

LEMMA PollPingrespTyped ==
  ASSUME ClientType, NEW g \in Goroutines, PollPingresp(g)
  PROVE  ClientType'
<1>1. CallType'
  BY DoneTyped, GotoTyped DEF PollPingresp, ClientType, PollReturn, Points,
     HoldsNothing, HoldsConn, HoldsMutex, HoldsRead, HoldsBoth, PollHolds
<1>2. LockType'
  BY DEF PollPingresp, ClientType, LockType, PollReturn
<1>3. LinkType'
  BY DEF PollPingresp, ClientType, LinkType, linkVars
<1>4. UNCHANGED <<wireVars, sendVars, recvVars, storeVars, eventVars>>
  BY DEF PollPingresp, wireVars, sendVars, recvVars, storeVars, eventVars
<1>5. QED
  BY <1>1, <1>2, <1>3, <1>4, UnchangedTyped DEF ClientType

LEMMA PollDisconnectTyped ==
  ASSUME ClientType, NEW g \in Goroutines, PollDisconnect(g)
  PROVE  ClientType'
<1>1. CallType'
  BY DoneTyped, GotoTyped DEF PollDisconnect, ClientType, PollReturn,
     Points, HoldsNothing, HoldsConn, HoldsMutex, HoldsRead, HoldsBoth,
     PollHolds
<1>2. LockType'
  BY UnchangedTyped DEF PollDisconnect, ClientType
<1>3. WireType'
  BY WriteTyped, PacketTyped, ReadTyped DEF PollDisconnect, ClientType,
     WireType, ConnStates, PacketTypes, wireVars, CallType, Packets
<1>4. EventType'
  BY SignalTyped, UnchangedTyped DEF PollDisconnect, ClientType, PacketTypes
<1>5. UNCHANGED <<linkVars, sendVars, recvVars, storeVars>>
  BY DEF PollDisconnect, linkVars, sendVars, recvVars, storeVars
<1>6. QED
  BY <1>1, <1>2, <1>3, <1>4, <1>5, UnchangedTyped DEF ClientType

(* Subscribe, Unsubscribe and the routing of Poll *)

LEMMA RequestTyped ==
  ASSUME LoopType, NEW g \in Goroutines, NEW id \in PubIds
  PROVE  /\ About(Packet("SUBSCRIBE", id), FiltersOf(topics[g])) \in Packets
         /\ About(Packet("UNSUBSCRIBE", id), FiltersOf(topics[g])) \in Packets
<1>1. topics[g] \in Seq(Filters \X EventChannels)
  BY DEF LoopType
<1>2. \A k \in DOMAIN topics[g] : topics[g][k] \in Filters \X EventChannels
  BY <1>1
<1>3. FiltersOf(topics[g]) \in SUBSET Filters
  BY <1>2 DEF FiltersOf, FilterOf
<1>4. QED
  BY <1>3, AboutTyped, PacketTyped DEF PacketTypes, Ids

LEMMA UnboundTopics ==
  ASSUME NEW ts \in TopicLists
  PROVE  [k \in DOMAIN ts |-> <<FilterOf(ts[k]), NoChannel>>]
           \in Seq(Filters \X EventChannels)
<1>1. ts \in Seq(Filters \X EventChannels)
  BY DEF EventChannels
<1>2. DOMAIN ts = 1..Len(ts) /\ Len(ts) \in Nat
  BY <1>1
<1>3. \A k \in 1..Len(ts) :
        <<FilterOf(ts[k]), NoChannel>> \in Filters \X EventChannels
  BY <1>1 DEF FilterOf, EventChannels
<1>4. QED
  BY <1>2, <1>3

LEMMA SubscribeCallTyped ==
  ASSUME ClientType, NEW g \in Goroutines, SubscribeCall(g)
  PROVE  ClientType'
<1>1. CallType /\ WireType /\ EventType
  BY DEF ClientType
<1>2. CallType'
  BY <1>1, BeginTyped, PacketTyped DEF SubscribeCall, PacketTypes, Points,
     HoldsNothing
<1>3. LoopType'
  BY <1>1 DEF SubscribeCall, EventType, LoopType, EventChannels
<1>4. (crashed \in BOOLEAN)'
  BY <1>1 DEF SubscribeCall, EventType
<1>5. UNCHANGED <<lockVars, wireVars, linkVars, sendVars, recvVars,
   storeVars, inbox, chanVars, respVars>>
  BY DEF SubscribeCall, lockVars, wireVars, linkVars, sendVars, recvVars,
     storeVars, chanVars, respVars, chanVars, respVars, loopVars
<1>6. EventType'
  BY <1>1, <1>2, <1>3, <1>4, <1>5, UnchangedEvents DEF EventType
<1>7. QED
  BY <1>2, <1>3, <1>4, <1>5, <1>6, UnchangedTyped DEF ClientType

LEMMA UnsubscribeCallTyped ==
  ASSUME ClientType, NEW g \in Goroutines, UnsubscribeCall(g)
  PROVE  ClientType'
<1>1. CallType /\ WireType /\ EventType
  BY DEF ClientType
<1>2. CallType'
  BY <1>1, BeginTyped, PacketTyped DEF UnsubscribeCall, PacketTypes, Points,
     HoldsNothing
<1>3. LoopType'
  BY <1>1, UnboundTopics DEF UnsubscribeCall, EventType, LoopType
<1>4. (crashed \in BOOLEAN)'
  BY <1>1 DEF UnsubscribeCall, EventType
<1>5. UNCHANGED <<lockVars, wireVars, linkVars, sendVars, recvVars,
   storeVars, inbox, chanVars, respVars>>
  BY DEF UnsubscribeCall, lockVars, wireVars, linkVars, sendVars, recvVars,
     storeVars, chanVars, respVars, chanVars, respVars, loopVars
<1>6. EventType'
  BY <1>1, <1>2, <1>3, <1>4, <1>5, UnchangedEvents DEF EventType
<1>7. QED
  BY <1>2, <1>3, <1>4, <1>5, <1>6, UnchangedTyped DEF ClientType

LEMMA SubscribeLockTyped ==
  ASSUME ClientType, NEW g \in Goroutines, SubscribeLock(g)
  PROVE  ClientType'
<1>1. CallType /\ WireType /\ EventType
  BY DEF ClientType
<1>2. CallType'
  BY <1>1, DoneTyped, GotoTyped DEF SubscribeLock, ReturnSubscribe, Points,
     HoldsNothing, HoldsConn, HoldsMutex, HoldsRead, HoldsBoth, PollHolds
<1>3. LockType'
  BY DEF SubscribeLock, ClientType, LockType
<1>4. LoopType'
  BY <1>1, ReturnSubscribeTyped DEF SubscribeLock, EventType, LoopType
<1>5. (crashed \in BOOLEAN)'
  BY <1>1 DEF SubscribeLock, EventType
<1>6. UNCHANGED <<wireVars, linkVars, sendVars, recvVars, storeVars, inbox,
   chanVars, respVars>>
  BY DEF SubscribeLock, wireVars, linkVars, sendVars, recvVars, storeVars,
     chanVars, respVars, chanVars, respVars, loopVars
<1>7. EventType'
  BY <1>1, <1>2, <1>3, <1>4, <1>5, <1>6, UnchangedEvents DEF EventType
<1>8. QED
  BY <1>2, <1>3, <1>4, <1>5, <1>6, <1>7, UnchangedTyped DEF ClientType

LEMMA SubscribeSendTyped ==
  ASSUME ClientType, NEW g \in Goroutines, SubscribeSend(g)
  PROVE  ClientType'
<1>1. CallType /\ WireType /\ EventType
  BY DEF ClientType
<1>2. CallType'
  BY <1>1, DoneTyped, ArgIdTyped DEF SubscribeSend, ReturnSubscribe, CallType,
     Goto, Points, HoldsNothing, HoldsConn, HoldsMutex, HoldsRead,
     HoldsBoth, PollHolds
<1>3. LockType'
  BY DEF SubscribeSend, ClientType, LockType
<1>4. WireType'
  BY <1>1, WriteTyped, RequestTyped DEF SubscribeSend, WireType, EventType
<1>5. ResponseType'
  BY <1>1 DEF SubscribeSend, EventType, ResponseType, CallOf, CallType, Ids
<1>6. LoopType'
  BY <1>1, ReturnSubscribeTyped DEF SubscribeSend, EventType, LoopType
<1>7. (crashed \in BOOLEAN)'
  BY <1>1 DEF SubscribeSend, EventType
<1>8. UNCHANGED <<linkVars, sendVars, recvVars, storeVars, inbox, chanVars>>
  BY DEF SubscribeSend, linkVars, sendVars, recvVars, storeVars, chanVars,
     chanVars, respVars, loopVars
<1>9. EventType'
  BY <1>1, <1>2, <1>3, <1>4, <1>5, <1>6, <1>7, <1>8, UnchangedEvents DEF
     EventType
<1>10. QED
  BY <1>2, <1>3, <1>4, <1>5, <1>6, <1>7, <1>8, <1>9, UnchangedTyped DEF
     ClientType

LEMMA SubscribeAnswerTyped ==
  ASSUME ClientType, NEW g \in Goroutines, SubscribeAnswer(g)
  PROVE  ClientType'
<1>1. CASE Panic
  BY <1>1, PanicTyped
<1>2. CASE ~ Panic
  <2>1. PICK a \in answers :
          /\ answers' = answers \ {a}
          /\ arg' = [arg EXCEPT ![g] = a.packet]
          /\ Goto(g, "sub_bind")
          /\ UNCHANGED <<calls, lockVars, wireVars, linkVars, sendVars,
                         recvVars, storeVars, inbox, chanVars, responseChan,
                         loopVars, crashed>>
    BY <1>2 DEF SubscribeAnswer
  <2>2. a.packet \in Packets
    BY DEF ClientType, EventType, ResponseType
  <2>3. CallType'
    BY <2>1, <2>2 DEF ClientType, CallType, Goto, Points, HoldsNothing
  <2>4. ResponseType'
    BY <2>1 DEF ClientType, EventType, ResponseType
  <2>5. EventType'
    BY <2>1, <2>4, UnchangedEvents DEF ClientType, EventType
  <2>6. QED
    BY <2>1, <2>3, <2>5, UnchangedTyped DEF ClientType
<1>3. QED
  BY <1>1, <1>2

LEMMA SubscribeBindTyped ==
  ASSUME ClientType, NEW g \in Goroutines, SubscribeBind(g)
  PROVE  ClientType'
<1>1. CallType /\ ChanType /\ LoopType /\ EventType
  BY DEF ClientType, EventType
<1>2. /\ FilterOf(Head(topics[g])) \in Filters
      /\ Tail(topics[g]) \in Seq(Filters \X EventChannels)
  BY <1>1, TopicsTyped DEF SubscribeBind, LoopType
<1>3. CallType'
  BY <1>1, DoneTyped, GotoTyped, UnchangedTyped
     DEF SubscribeBind, ReturnSubscribe, Points, HoldsMutex
<1>4. LockType'
  BY DEF SubscribeBind, ClientType, LockType
<1>5. ChanType'
  BY <1>1, <1>2 DEF SubscribeBind, ChanType, EventChannels
<1>6. LoopType'
  <2>1. topics' \in [Goroutines -> Seq(Filters \X EventChannels)]
    BY <1>1, <1>2, ReturnSubscribeTyped DEF SubscribeBind, NextTopic, LoopType
  <2>2. routed' \subseteq Filters
    BY <1>1, <1>2 DEF SubscribeBind, MayRoute, LoopType
  <2>3. QED
    BY <1>1, <2>1, <2>2 DEF SubscribeBind, LoopType
<1>7. (crashed \in BOOLEAN)'
  BY <1>1, MapWriteTyped DEF SubscribeBind, EventType
<1>8. UNCHANGED <<wireVars, linkVars, sendVars, recvVars, storeVars, inbox,
                 respVars>>
  BY DEF SubscribeBind
<1>9. EventType'
  BY <1>1, <1>5, <1>6, <1>7, <1>8, UnchangedEvents DEF EventType
<1>10. QED
  BY <1>3, <1>4, <1>8, <1>9, UnchangedTyped DEF ClientType

LEMMA SubscribeUnregisterTyped ==
  ASSUME ClientType, NEW g \in Goroutines, SubscribeUnregister(g)
  PROVE  ClientType'
<1>1. CallType /\ ChanType /\ LoopType /\ EventType
  BY DEF ClientType, EventType
<1>2. CallType'
  BY <1>1, GotoTyped DEF SubscribeUnregister, Points, HoldsNothing
<1>3. LockType'
  BY DEF SubscribeUnregister, ClientType, LockType
<1>4. ChanType'
  BY <1>1 DEF SubscribeUnregister, ChanType
<1>5. LoopType'
  BY <1>1, TopicsTyped DEF SubscribeUnregister, NextTopic, LoopType
<1>6. (crashed \in BOOLEAN)'
  BY MapWriteTyped DEF SubscribeUnregister
<1>7. UNCHANGED <<wireVars, linkVars, sendVars, recvVars, storeVars, inbox,
                 respVars>>
  BY DEF SubscribeUnregister
<1>8. EventType'
  BY <1>1, <1>4, <1>5, <1>6, <1>7, UnchangedEvents DEF EventType
<1>9. QED
  BY <1>2, <1>3, <1>7, <1>8, UnchangedTyped DEF ClientType

LEMMA SubscribeCloseTyped ==
  ASSUME ClientType, NEW g \in Goroutines, SubscribeClose(g)
  PROVE  ClientType'
<1>1. CallType'
  BY GotoTyped DEF SubscribeClose, ClientType, Points, HoldsNothing
<1>2. QED
  BY <1>1, UnchangedTyped DEF SubscribeClose, ClientType

LEMMA ResponseDeleteTyped ==
  ASSUME ClientType, NEW g \in Goroutines, ResponseDelete(g)
  PROVE  ClientType'
<1>1. CallType /\ WireType /\ EventType
  BY DEF ClientType
<1>2. CallType'
  BY <1>1, DoneTyped DEF ResponseDelete, ReturnSubscribe
<1>3. ResponseType'
  BY <1>1 DEF ResponseDelete, EventType, ResponseType
<1>4. LoopType'
  BY <1>1, ReturnSubscribeTyped DEF ResponseDelete, EventType, LoopType
<1>5. (crashed \in BOOLEAN)'
  BY MapWriteTyped DEF ResponseDelete
<1>6. UNCHANGED <<lockVars, wireVars, linkVars, sendVars, recvVars,
   storeVars, inbox, chanVars>>
  BY DEF ResponseDelete, lockVars, wireVars, linkVars, sendVars, recvVars,
     storeVars, chanVars, chanVars, respVars, loopVars
<1>7. EventType'
  BY <1>1, <1>2, <1>3, <1>4, <1>5, <1>6, UnchangedEvents DEF EventType
<1>8. QED
  BY <1>2, <1>3, <1>4, <1>5, <1>6, <1>7, UnchangedTyped DEF ClientType

LEMMA UnsubscribeSendTyped ==
  ASSUME ClientType, NEW g \in Goroutines, UnsubscribeSend(g)
  PROVE  ClientType'
<1>1. CallType /\ WireType /\ EventType
  BY DEF ClientType
<1>2. CallType'
  BY <1>1, DoneTyped, ArgIdTyped DEF UnsubscribeSend, ReturnSubscribe, CallType,
     Goto, Points, HoldsNothing, HoldsConn, HoldsMutex, HoldsRead,
     HoldsBoth, PollHolds
<1>3. LockType'
  BY DEF UnsubscribeSend, ClientType, LockType
<1>4. WireType'
  BY <1>1, WriteTyped, RequestTyped DEF UnsubscribeSend, WireType, EventType
<1>5. ResponseType'
  <2>1. CallOf(g) \in Goroutines \X Nat /\ ResponseType
    BY <1>1 DEF CallOf, CallType, EventType
  <2>2. responseChan' \in [Ids -> (Goroutines \X Nat) \cup {NoOne}]
    BY <2>1 DEF UnsubscribeSend, ResponseType, Ids
  <2>3. QED
    BY <2>1, <2>2 DEF UnsubscribeSend, ResponseType
<1>6. LoopType'
  BY <1>1, ReturnSubscribeTyped DEF UnsubscribeSend, EventType, LoopType
<1>7. (crashed \in BOOLEAN)'
  BY <1>1, MapWriteTyped DEF UnsubscribeSend, EventType
<1>8. UNCHANGED <<linkVars, sendVars, recvVars, storeVars, inbox, chanVars>>
  BY DEF UnsubscribeSend, linkVars, sendVars, recvVars, storeVars, chanVars,
     chanVars, respVars, loopVars
<1>9. EventType'
  BY <1>1, <1>2, <1>3, <1>4, <1>5, <1>6, <1>7, <1>8, UnchangedEvents DEF
     EventType
<1>10. QED
  BY <1>2, <1>3, <1>4, <1>5, <1>6, <1>7, <1>8, <1>9, UnchangedTyped DEF
     ClientType

LEMMA UnsubscribeAnswerTyped ==
  ASSUME ClientType, NEW g \in Goroutines, UnsubscribeAnswer(g)
  PROVE  ClientType'
<1>1. CallType /\ WireType /\ EventType
  BY DEF ClientType
<1>2. CallType'
  BY <1>1, GotoTyped DEF UnsubscribeAnswer, Points, HoldsNothing, HoldsConn,
     HoldsMutex, HoldsRead, HoldsBoth, PollHolds
<1>3. LockType'
  BY DEF UnsubscribeAnswer, ClientType, LockType
<1>4. ResponseType'
  BY <1>1 DEF UnsubscribeAnswer, EventType, ResponseType
<1>5. (crashed \in BOOLEAN)'
  BY <1>1 DEF UnsubscribeAnswer, EventType
<1>6. UNCHANGED <<wireVars, linkVars, sendVars, recvVars, storeVars, inbox,
   chanVars, loopVars>>
  BY DEF UnsubscribeAnswer, wireVars, linkVars, sendVars, recvVars,
     storeVars, chanVars, loopVars, chanVars, respVars, loopVars
<1>7. EventType'
  BY <1>1, <1>2, <1>3, <1>4, <1>5, <1>6, UnchangedEvents DEF EventType
<1>8. QED
  BY <1>2, <1>3, <1>4, <1>5, <1>6, <1>7, UnchangedTyped DEF ClientType

LEMMA UnsubscribeFindTyped ==
  ASSUME ClientType, NEW g \in Goroutines, UnsubscribeFind(g)
  PROVE  ClientType'
<1>1. CallType /\ WireType /\ EventType
  BY DEF ClientType
<1>2. CallType'
  BY <1>1 DEF UnsubscribeFind, CallType, Goto, Points, HoldsNothing,
     HoldsConn, HoldsMutex, HoldsRead, HoldsBoth, PollHolds
<1>3. LoopType'
  <2>1. /\ LoopType /\ ChanType
        /\ topics[g] \in Seq(Filters \X EventChannels)
    BY <1>1 DEF EventType, LoopType
  <2>2. /\ FilterOf(Head(topics[g])) \in Filters
        /\ Tail(topics[g]) \in Seq(Filters \X EventChannels)
        /\ \A f \in Filters, c \in EventChannels :
             [topics[g] EXCEPT ![1] = <<f, c>>]
               \in Seq(Filters \X EventChannels)
    BY <2>1, TopicsTyped DEF UnsubscribeFind
  <2>3. \A f \in Bound : f \in Filters /\ topicChans[f] \in EventChannels
    BY <2>1 DEF Bound, ChanType
  <2>4. topics' \in [Goroutines -> Seq(Filters \X EventChannels)]
    <3>1. CASE NextTopic(g)
      BY <2>1, <2>2, <3>1 DEF NextTopic, LoopType
    <3>2. CASE ~ NextTopic(g)
      <4>1. PICK f \in Bound :
              topics' = [topics EXCEPT ![g] =
                           [topics[g] EXCEPT ![1] = <<f, topicChans[f]>>]]
        BY <3>2 DEF UnsubscribeFind
      <4>2. [topics[g] EXCEPT ![1] = <<f, topicChans[f]>>]
              \in Seq(Filters \X EventChannels)
        BY <2>2, <2>3
      <4>3. QED
        BY <2>1, <4>1, <4>2 DEF LoopType
    <3>3. QED
      BY <3>1, <3>2
  <2>5. QED
    BY <2>1, <2>4 DEF UnsubscribeFind, LoopType
<1>4. (crashed \in BOOLEAN)'
  BY <1>1 DEF UnsubscribeFind, EventType
<1>5. UNCHANGED <<lockVars, wireVars, linkVars, sendVars, recvVars,
   storeVars, inbox, chanVars, respVars>>
  BY DEF UnsubscribeFind, lockVars, wireVars, linkVars, sendVars, recvVars,
     storeVars, chanVars, respVars, chanVars, respVars, loopVars
<1>6. EventType'
  BY <1>1, <1>2, <1>3, <1>4, <1>5, UnchangedEvents DEF EventType
<1>7. QED
  BY <1>2, <1>3, <1>4, <1>5, <1>6, UnchangedTyped DEF ClientType

LEMMA RemoveTyped ==
  ASSUME ChanType, NEW c, NEW missed, RemoveFromMaps(c, missed),
         UNCHANGED <<chanState, closing, fetched>>
  PROVE  ChanType'
BY DEF ChanType, RemoveFromMaps

LEMMA UnsubscribeCloseTyped ==
  ASSUME ClientType, NEW g \in Goroutines, UnsubscribeClose(g)
  PROVE  ClientType'
<1>1. CASE Panic
  BY <1>1, PanicTyped
<1>2. CASE ~ Panic
  <2>1. CallType /\ EventType /\ ChanType
    BY DEF ClientType, EventType
  <2>2. /\ Goto(g, "unsub_remove")
        /\ \E c : chanState' = [chanState EXCEPT ![c] = "closed"]
        /\ UNCHANGED <<arg, calls, lockVars, wireVars, linkVars, sendVars,
                       recvVars, storeVars, inbox, eventChans, closing,
                       topicChans, fetched, respVars, loopVars, crashed>>
    BY <1>2 DEF UnsubscribeClose
  <2>3. ChanType'
    BY <2>1, <2>2 DEF ChanType, ChanStates
  <2>4. EventType'
    BY <2>1, <2>2, <2>3, UnchangedEvents DEF EventType
  <2>5. CallType'
    BY <2>1, <2>2, GotoTyped DEF Points, HoldsMutex
  <2>6. QED
    BY <2>2, <2>4, <2>5, UnchangedTyped DEF ClientType
<1>3. QED
  BY <1>1, <1>2

LEMMA UnsubscribeRemoveTyped ==
  ASSUME ClientType, NEW g \in Goroutines, UnsubscribeRemove(g)
  PROVE  ClientType'
<1>1. /\ topics[g] \in Seq(Filters \X EventChannels)
      /\ CallType /\ EventType /\ ChanType /\ LoopType
  BY DEF ClientType, EventType, LoopType
<1>2. ChanType'
  BY <1>1, RemoveTyped DEF UnsubscribeRemove
<1>3. LoopType'
  BY <1>1, TopicsTyped DEF UnsubscribeRemove, LoopType, NextTopic
<1>4. EventType'
  BY <1>1, <1>2, <1>3, MapWriteTyped, UnchangedEvents
     DEF UnsubscribeRemove, EventType
<1>5. CallType'
  BY <1>1, GotoTyped DEF UnsubscribeRemove, Points, HoldsMutex
<1>6. QED
  BY <1>4, <1>5, UnchangedTyped DEF UnsubscribeRemove, ClientType

LEMMA UnsubscribeUnlockTyped ==
  ASSUME ClientType, NEW g \in Goroutines, UnsubscribeUnlock(g)
  PROVE  ClientType'
<1>1. CallType' /\ LockType'
  BY GotoTyped DEF UnsubscribeUnlock, ClientType, LockType, Points,
     HoldsNothing
<1>2. QED
  BY <1>1, UnchangedTyped DEF UnsubscribeUnlock, ClientType

LEMMA PollRouteTyped ==
  ASSUME ClientType, NEW g \in Goroutines, PollRoute(g)
  PROVE  ClientType'
<1>1. CallType /\ WireType /\ EventType
  BY DEF ClientType
<1>2. CallType'
  BY <1>1, GotoTyped DEF PollRoute, Points, HoldsNothing, HoldsConn,
     HoldsMutex, HoldsRead, HoldsBoth, PollHolds
<1>3. LoopType'
  BY <1>1 DEF PollRoute, Unrouted, Bound, EventType, LoopType, ChanType,
     EventChannels
<1>4. (crashed \in BOOLEAN)'
  BY <1>1 DEF PollRoute, EventType
<1>5. UNCHANGED <<lockVars, wireVars, linkVars, sendVars, recvVars,
   storeVars, inbox, chanVars, respVars>>
  BY DEF PollRoute, lockVars, wireVars, linkVars, sendVars, recvVars,
     storeVars, chanVars, respVars, chanVars, respVars, loopVars
<1>6. EventType'
  BY <1>1, <1>2, <1>3, <1>4, <1>5, UnchangedEvents DEF EventType
<1>7. QED
  BY <1>2, <1>3, <1>4, <1>5, <1>6, UnchangedTyped DEF ClientType

LEMMA PollSignalTyped ==
  ASSUME ClientType, NEW g \in Goroutines, PollSignal(g)
  PROVE  ClientType'
<1>1. CASE Panic
  BY <1>1, PanicTyped
<1>2. CASE ~ Panic
  <2>1. /\ Goto(g, "poll_route")
        /\ UNCHANGED <<arg, calls, lockVars, wireVars, linkVars, sendVars,
                       recvVars, storeVars>>
        /\ CallType /\ EventType
    BY <1>2 DEF PollSignal, ClientType
  <2>2. ASSUME Signal PROVE EventType'
    BY <2>1, <2>2, SignalTyped
  <2>3. ASSUME ~ Signal PROVE EventType'
    <3>1. /\ target # NoChannel
          /\ inbox' = IF inbox[target] < EventCapacity
                      THEN [inbox EXCEPT ![target] = @ + 1]
                      ELSE inbox
          /\ UNCHANGED <<chanVars, respVars, loopVars, crashed>>
      BY <1>2, <2>3 DEF PollSignal
    <3>2. target \in Channels /\ inbox \in [Channels -> 0..EventCapacity]
      BY <2>1, <3>1 DEF EventType, LoopType, EventChannels, InboxType
    <3>3. InboxType'
      BY <3>1, <3>2, ConstantsAssumption DEF InboxType
    <3>4. QED
      BY <2>1, <3>1, <3>3, UnchangedEvents DEF EventType
  <2>4. EventType'
    BY <2>2, <2>3
  <2>5. CallType'
    BY <2>1, GotoTyped DEF Points, HoldsConn, PollHolds
  <2>6. QED
    BY <2>1, <2>4, <2>5, UnchangedTyped DEF ClientType
<1>3. QED
  BY <1>1, <1>2

LEMMA PollResponseTyped ==
  ASSUME ClientType, NEW g \in Goroutines, PollResponse(g)
  PROVE  ClientType'
<1>1. CASE Panic
  BY <1>1, PanicTyped
<1>2. CASE ~ Panic
  <2>1. /\ Goto(g, "poll_fanout")
        /\ UNCHANGED <<arg, calls, lockVars, wireVars, linkVars, sendVars,
                       recvVars, storeVars, inbox, chanVars, responseChan,
                       loopVars, crashed>>
        /\ CallType /\ EventType /\ ResponseType /\ arg[g] \in Packets
    BY <1>2 DEF PollResponse, ClientType, CallType, EventType
  <2>2. arg[g].id \in Ids
    BY <2>1 DEF Packets
  <2>3. \/ UNCHANGED answers
        \/ /\ responseChan[arg[g].id] # NoOne
           /\ answers' = answers \cup
                {[to |-> responseChan[arg[g].id], packet |-> arg[g]]}
    BY <1>2 DEF PollResponse
  <2>4. ResponseType'
    BY <2>1, <2>2, <2>3 DEF ResponseType
  <2>5. EventType'
    BY <2>1, <2>4, UnchangedEvents DEF EventType
  <2>6. CallType'
    BY <2>1, GotoTyped DEF Points, HoldsConn, PollHolds
  <2>7. QED
    BY <2>1, <2>5, <2>6, UnchangedTyped DEF ClientType
<1>3. QED
  BY <1>1, <1>2

LEMMA PollFanoutTyped ==
  ASSUME ClientType, NEW g \in Goroutines, PollFanout(g)
  PROVE  ClientType'
<1>1. CallType /\ EventType
  BY DEF ClientType
<1>2. EventType'
  BY <1>1, SignalTyped DEF PollFanout
<1>3. CallType' /\ LockType'
  BY <1>1, DoneTyped DEF PollFanout, PollReturn, ClientType, LockType
<1>4. QED
  BY <1>2, <1>3, UnchangedTyped DEF PollFanout, ClientType
-----------------------------------------------------------------------------
(* The inductive invariant of the mutexes, and the steps that keep it *)

LockInv == LockOwners /\ PollingConnected /\ NoSelfDeadlock

LEMMA HandlerHolds ==
  ASSUME NEW t \in DOMAIN Handler
  PROVE  Handler[t] \in PollHolds
BY DEF Handler, PollHolds

LEMMA ConnectCallLocks ==
  ASSUME ClientType, LockInv, NEW g \in Goroutines, ConnectCall(g)
  PROVE  LockInv'
BY DEF ConnectCall, At, Begin, Goto, lockVars, wireVars, linkVars,
   ClientType, CallType, LockType, LockInv, LockOwners, PollingConnected,
   NoSelfDeadlock, HoldsConn, HoldsBoth, PollHolds, HoldsMutex, HoldsRead

LEMMA ConnectLockLocks ==
  ASSUME ClientType, LockInv, NEW g \in Goroutines, ConnectLock(g)
  PROVE  LockInv'
BY DEF ConnectLock, At, Goto, MutexFree, wireVars, linkVars, ClientType,
   CallType, LockType, LockInv, LockOwners, PollingConnected,
   NoSelfDeadlock, HoldsConn, HoldsBoth, PollHolds, HoldsMutex, HoldsRead

LEMMA ConnectSendLocks ==
  ASSUME ClientType, LockInv, NEW g \in Goroutines, ConnectSend(g)
  PROVE  LockInv'
BY DEF ConnectSend, At, Goto, Done, ConnFree, linkVars, ClientType,
   CallType, LockType, LockInv, LockOwners, PollingConnected,
   NoSelfDeadlock, HoldsConn, HoldsBoth, PollHolds, HoldsMutex, HoldsRead

LEMMA ConnectFailLocks ==
  ASSUME ClientType, LockInv, NEW g \in Goroutines, ConnectFail(g)
  PROVE  LockInv'
BY DEF ConnectFail, At, Goto, Done, ConnectReturn, linkVars, ClientType,
   CallType, LockType, LockInv, LockOwners, PollingConnected,
   NoSelfDeadlock, HoldsConn, HoldsBoth, PollHolds, HoldsMutex, HoldsRead

LEMMA ConnectAckLocks ==
  ASSUME ClientType, LockInv, NEW g \in Goroutines, ConnectAck(g)
  PROVE  LockInv'
BY DEF ConnectAck, At, Goto, Done, ConnectReturn, lockVars, wireVars,
   linkVars, ClientType, CallType, LockType, LockInv, LockOwners,
   PollingConnected, NoSelfDeadlock, HoldsConn, HoldsBoth, PollHolds,
   HoldsMutex, HoldsRead

LEMMA DisconnectCallLocks ==
  ASSUME ClientType, LockInv, NEW g \in Goroutines, DisconnectCall(g)
  PROVE  LockInv'
BY DEF DisconnectCall, At, Begin, Goto, lockVars, wireVars, linkVars,
   ClientType, CallType, LockType, LockInv, LockOwners, PollingConnected,
   NoSelfDeadlock, HoldsConn, HoldsBoth, PollHolds, HoldsMutex, HoldsRead

LEMMA DisconnectLockLocks ==
  ASSUME ClientType, LockInv, NEW g \in Goroutines, DisconnectLock(g)
  PROVE  LockInv'
BY DEF DisconnectLock, At, Goto, Done, MutexFree, wireVars, linkVars,
   ClientType, CallType, LockType, LockInv, LockOwners, PollingConnected,
   NoSelfDeadlock, HoldsConn, HoldsBoth, PollHolds, HoldsMutex, HoldsRead

LEMMA DisconnectSendLocks ==
  ASSUME ClientType, LockInv, NEW g \in Goroutines, DisconnectSend(g)
  PROVE  LockInv'
BY DEF DisconnectSend, At, Goto, Done, ConnFree, lockVars, wireVars,
   linkVars, ClientType, CallType, LockType, LockInv, LockOwners,
   PollingConnected, NoSelfDeadlock, HoldsConn, HoldsBoth, PollHolds,
   HoldsMutex, HoldsRead

LEMMA KeepAliveCallLocks ==
  ASSUME ClientType, LockInv, NEW g \in Goroutines, KeepAliveCall(g)
  PROVE  LockInv'
BY DEF KeepAliveCall, At, Begin, Goto, lockVars, wireVars, linkVars,
   ClientType, CallType, LockType, LockInv, LockOwners, PollingConnected,
   NoSelfDeadlock, HoldsConn, HoldsBoth, PollHolds, HoldsMutex, HoldsRead

LEMMA KeepAliveLockLocks ==
  ASSUME ClientType, LockInv, NEW g \in Goroutines, KeepAliveLock(g)
  PROVE  LockInv'
BY DEF KeepAliveLock, At, Goto, Done, ReadFree, wireVars, linkVars,
   ClientType, CallType, LockType, LockInv, LockOwners, PollingConnected,
   NoSelfDeadlock, HoldsConn, HoldsBoth, PollHolds, HoldsMutex, HoldsRead

LEMMA KeepAliveSendLocks ==
  ASSUME ClientType, LockInv, NEW g \in Goroutines, KeepAliveSend(g)
  PROVE  LockInv'
BY DEF KeepAliveSend, At, Goto, Done, ConnFree, linkVars, ClientType,
   CallType, LockType, LockInv, LockOwners, PollingConnected,
   NoSelfDeadlock, HoldsConn, HoldsBoth, PollHolds, HoldsMutex, HoldsRead

LEMMA PublishCallLocks ==
  ASSUME ClientType, LockInv, NEW g \in Goroutines, PublishCall(g)
  PROVE  LockInv'
BY DEF PublishCall, At, Begin, Goto, lockVars, wireVars, linkVars,
   ClientType, CallType, LockType, LockInv, LockOwners, PollingConnected,
   NoSelfDeadlock, HoldsConn, HoldsBoth, PollHolds, HoldsMutex, HoldsRead

LEMMA PublishLockLocks ==
  ASSUME ClientType, LockInv, NEW g \in Goroutines, PublishLock(g)
  PROVE  LockInv'
BY DEF PublishLock, At, Goto, Done, ConnFree, wireVars, linkVars,
   ClientType, CallType, LockType, LockInv, LockOwners, PollingConnected,
   NoSelfDeadlock, HoldsConn, HoldsBoth, PollHolds, HoldsMutex, HoldsRead

LEMMA PublishStoreLocks ==
  ASSUME ClientType, LockInv, NEW g \in Goroutines, PublishStore(g)
  PROVE  LockInv'
BY DEF PublishStore, At, Goto, Done, wireVars, linkVars, ClientType,
   CallType, LockType, LockInv, LockOwners, PollingConnected,
   NoSelfDeadlock, HoldsConn, HoldsBoth, PollHolds, HoldsMutex, HoldsRead

LEMMA PublishQuotaLocks ==
  ASSUME ClientType, LockInv, NEW g \in Goroutines, PublishQuota(g)
  PROVE  LockInv'
<1>1. /\ pc[g] = "pub_quota"
      /\ \/ connMutex' = NoOne /\ pc' = [pc EXCEPT ![g] = "pub_gate"]
         \/ connMutex' = connMutex /\ pc' = [pc EXCEPT ![g] = "pub_send"]
      /\ UNCHANGED <<mutex, readers, conn, isConnected>>
  BY DEF PublishQuota, At, Goto, wireVars, linkVars
<1>2. QED
  BY <1>1 DEF ClientType, CallType,
     LockType, LockInv, LockOwners, PollingConnected, NoSelfDeadlock, At,
     HoldsConn, HoldsBoth, PollHolds, HoldsMutex, HoldsRead

LEMMA PublishParkLocks ==
  ASSUME ClientType, LockInv, NEW g \in Goroutines, PublishPark(g)
  PROVE  LockInv'
BY DEF PublishPark, At, Goto, lockVars, wireVars, linkVars, ClientType,
   CallType, LockType, LockInv, LockOwners, PollingConnected,
   NoSelfDeadlock, HoldsConn, HoldsBoth, PollHolds, HoldsMutex, HoldsRead

LEMMA PublishRelockLocks ==
  ASSUME ClientType, LockInv, NEW g \in Goroutines, PublishRelock(g)
  PROVE  LockInv'
BY DEF PublishRelock, At, Goto, ConnFree, wireVars, linkVars, ClientType,
   CallType, LockType, LockInv, LockOwners, PollingConnected,
   NoSelfDeadlock, HoldsConn, HoldsBoth, PollHolds, HoldsMutex, HoldsRead

LEMMA PublishSendLocks ==
  ASSUME ClientType, LockInv, NEW g \in Goroutines, PublishSend(g)
  PROVE  LockInv'
BY DEF PublishSend, At, Goto, Done, linkVars, ClientType, CallType,
   LockType, LockInv, LockOwners, PollingConnected, NoSelfDeadlock,
   HoldsConn, HoldsBoth, PollHolds, HoldsMutex, HoldsRead

LEMMA PublishCountLocks ==
  ASSUME ClientType, LockInv, NEW g \in Goroutines, PublishCount(g)
  PROVE  LockInv'
BY DEF PublishCount, At, Goto, Done, lockVars, wireVars, linkVars,
   ClientType, CallType, LockType, LockInv, LockOwners, PollingConnected,
   NoSelfDeadlock, HoldsConn, HoldsBoth, PollHolds, HoldsMutex, HoldsRead

LEMMA PollCallLocks ==
  ASSUME ClientType, LockInv, NEW g \in Goroutines, PollCall(g)
  PROVE  LockInv'
BY DEF PollCall, At, Goto, lockVars, wireVars, linkVars, ClientType,
   CallType, LockType, LockInv, LockOwners, PollingConnected,
   NoSelfDeadlock, HoldsConn, HoldsBoth, PollHolds, HoldsMutex, HoldsRead

LEMMA PollLockLocks ==
  ASSUME ClientType, LockInv, NEW g \in Goroutines, PollLock(g)
  PROVE  LockInv'
<1>1. /\ pc \in [Goroutines -> Points] /\ pc[g] = "poll_lock"
      /\ connMutex = NoOne
      /\ UNCHANGED <<mutex, readers>>
      /\ \/ /\ pc' = [pc EXCEPT ![g] = "idle"]
            /\ connMutex' = NoOne
            /\ \/ isConnected' = FALSE /\ conn' = "closed"
               \/ UNCHANGED <<isConnected, conn>>
         \/ /\ pc' = [pc EXCEPT ![g] = "poll_read"]
            /\ conn # "closed"
            /\ connMutex' = g
            /\ UNCHANGED <<isConnected, conn>>
  BY DEF PollLock, At, Goto, Done, ConnFree, ClientType, CallType
<1>2. LockOwners'
  BY <1>1, ConstantsAssumption DEF LockInv, LockOwners, HoldsConn, HoldsBoth,
     PollHolds, HoldsMutex, HoldsRead
<1>3. \A h \in Goroutines : pc[h] \notin PollHolds
  BY <1>1, ConstantsAssumption DEF LockInv, LockOwners, HoldsConn
<1>4. PollingConnected' /\ NoSelfDeadlock'
  BY <1>1, <1>3 DEF LockInv, PollingConnected, NoSelfDeadlock, At, PollHolds
<1>5. QED
  BY <1>2, <1>4 DEF LockInv

LEMMA PollNothingLocks ==
  ASSUME ClientType, LockInv, NEW g \in Goroutines, PollNothing(g)
  PROVE  LockInv'
BY DEF PollNothing, At, Goto, Done, PollReturn, wireVars, linkVars,
   ClientType, CallType, LockType, LockInv, LockOwners, PollingConnected,
   NoSelfDeadlock, HoldsConn, HoldsBoth, PollHolds, HoldsMutex, HoldsRead

LEMMA PollReadLocks ==
  ASSUME ClientType, LockInv, NEW g \in Goroutines, PollRead(g)
  PROVE  LockInv'
<1>1. /\ pc[g] \in PollHolds /\ UNCHANGED <<mutex, readers, conn, isConnected>>
      /\ pc[g] \notin HoldsMutex \cup HoldsRead
  BY DEF PollRead, At, PollHolds, HoldsMutex, HoldsBoth, HoldsRead, linkVars
<1>2. CASE /\ \E h \in PollHolds : Goto(g, h)
           /\ UNCHANGED connMutex
  <2>1. PICK h \in PollHolds : Goto(g, h)
    BY <1>2
  <2>2. h \in HoldsConn /\ h \notin HoldsMutex \cup HoldsRead \cup {"poll_lock"}
    BY DEF PollHolds, HoldsConn, HoldsMutex, HoldsBoth, HoldsRead
  <2>3. pc[g] \in HoldsConn
    BY <1>1 DEF HoldsConn
  <2>4. LockOwners'
    BY <1>1, <1>2, <2>1, <2>2, <2>3
       DEF LockInv, LockOwners, Goto, ClientType, CallType
  <2>5. PollingConnected' /\ NoSelfDeadlock'
    BY <1>1, <2>1, <2>2
       DEF LockInv, PollingConnected, NoSelfDeadlock, At, Goto, ClientType,
           CallType, HoldsMutex, HoldsBoth
  <2>6. QED
    BY <2>4, <2>5 DEF LockInv
<1>3. CASE PollReturn(g)
  BY <1>1, <1>3 DEF PollReturn, Done, Goto, ClientType, CallType, LockType,
     LockInv, LockOwners, PollingConnected, NoSelfDeadlock, At, HoldsConn,
     HoldsBoth, PollHolds, HoldsMutex, HoldsRead
<1>4. QED
  BY <1>2, <1>3, HandlerHolds DEF PollRead

LEMMA PollPublishLocks ==
  ASSUME ClientType, LockInv, NEW g \in Goroutines, PollPublish(g)
  PROVE  LockInv'
BY DEF PollPublish, At, Goto, Done, PollReturn, DisconnectWithReason,
   MutexFree, wireVars, linkVars, ClientType, CallType, LockType, LockInv,
   LockOwners, PollingConnected, NoSelfDeadlock, HoldsConn, HoldsBoth,
   PollHolds, HoldsMutex, HoldsRead

LEMMA PollAckLocks ==
  ASSUME ClientType, LockInv, NEW g \in Goroutines, PollAck(g)
  PROVE  LockInv'
BY DEF PollAck, At, Goto, Done, PollReturn, linkVars, ClientType, CallType,
   LockType, LockInv, LockOwners, PollingConnected, NoSelfDeadlock,
   HoldsConn, HoldsBoth, PollHolds, HoldsMutex, HoldsRead

LEMMA PollCreditLocks ==
  ASSUME ClientType, LockInv, NEW g \in Goroutines, PollCredit(g)
  PROVE  LockInv'
BY DEF PollCredit, At, Goto, lockVars, wireVars, linkVars, ClientType,
   CallType, LockType, LockInv, LockOwners, PollingConnected,
   NoSelfDeadlock, HoldsConn, HoldsBoth, PollHolds, HoldsMutex, HoldsRead

LEMMA PollStoreLocks ==
  ASSUME ClientType, LockInv, NEW g \in Goroutines, PollStore(g)
  PROVE  LockInv'
BY DEF PollStore, At, Goto, lockVars, wireVars, linkVars, ClientType, CallType, LockType, LockInv, LockOwners, PollingConnected,
   NoSelfDeadlock, HoldsConn, HoldsBoth, PollHolds, HoldsMutex, HoldsRead

LEMMA CompletedLocks ==
  ASSUME ClientType, LockInv, NEW g \in Goroutines, pc[g] \in PollHolds,
         Completed(g)
  PROVE  LockInv'
<1>1. PICK w \in Released :
        \/ /\ pc' = [q \in Goroutines |-> IF q = g THEN "idle"
                                         ELSE IF q = w THEN "pub_relock"
                                         ELSE pc[q]]
           /\ mutex' = g /\ connMutex' = NoOne
        \/ /\ pc' = [q \in Goroutines |-> IF q = g THEN "poll_fanout"
                                         ELSE IF q = w THEN "pub_relock"
                                         ELSE pc[q]]
           /\ UNCHANGED <<mutex, connMutex>>
  BY DEF Completed, GotoReleasing
<1>2. w \in Goroutines => pc[w] = "pub_parked"
  BY ConstantsAssumption DEF Released, Parked, At
<1>3. /\ mutex = NoOne /\ readers = {}
      /\ UNCHANGED <<readers, conn, isConnected>>
  BY DEF Completed, MutexFree, wireVars, linkVars
<1>4. LockOwners'
  BY <1>1, <1>2, <1>3, ConstantsAssumption DEF LockInv, LockOwners, HoldsConn,
     HoldsBoth, PollHolds, HoldsMutex, HoldsRead
<1>5. PollingConnected' /\ NoSelfDeadlock'
  BY <1>1, <1>2, <1>3 DEF LockInv, PollingConnected, NoSelfDeadlock, At,
     PollHolds
<1>6. QED
  BY <1>4, <1>5 DEF LockInv

LEMMA PollPubackLocks ==
  ASSUME ClientType, LockInv, NEW g \in Goroutines, PollPuback(g)
  PROVE  LockInv'
BY CompletedLocks DEF PollPuback, At, PollHolds

LEMMA PollPubcompLocks ==
  ASSUME ClientType, LockInv, NEW g \in Goroutines, PollPubcomp(g)
  PROVE  LockInv'
BY CompletedLocks DEF PollPubcomp, At, PollHolds

LEMMA PollPubrecLocks ==
  ASSUME ClientType, LockInv, NEW g \in Goroutines, PollPubrec(g)
  PROVE  LockInv'
BY DEF PollPubrec, At, Goto, Done, PollReturn, MutexFree, linkVars,
   ClientType, CallType, LockType, LockInv, LockOwners, PollingConnected,
   NoSelfDeadlock, HoldsConn, HoldsBoth, PollHolds, HoldsMutex, HoldsRead

LEMMA PollPubrelLocks ==
  ASSUME ClientType, LockInv, NEW g \in Goroutines, PollPubrel(g)
  PROVE  LockInv'
BY DEF PollPubrel, At, Goto, Done, PollReturn, MutexFree, wireVars,
   linkVars, ClientType, CallType, LockType, LockInv, LockOwners,
   PollingConnected, NoSelfDeadlock, HoldsConn, HoldsBoth, PollHolds,
   HoldsMutex, HoldsRead

LEMMA PollReleaseLocks ==
  ASSUME ClientType, LockInv, NEW g \in Goroutines, PollRelease(g)
  PROVE  LockInv'
BY DEF PollRelease, At, Goto, Done, PollReturn, linkVars, ClientType,
   CallType, LockType, LockInv, LockOwners, PollingConnected,
   NoSelfDeadlock, HoldsConn, HoldsBoth, PollHolds, HoldsMutex, HoldsRead

LEMMA PollPingrespLocks ==
  ASSUME ClientType, LockInv, NEW g \in Goroutines, PollPingresp(g)
  PROVE  LockInv'
BY DEF PollPingresp, At, Goto, Done, PollReturn, wireVars, ClientType,
   CallType, LockType, LockInv, LockOwners, PollingConnected,
   NoSelfDeadlock, HoldsConn, HoldsBoth, PollHolds, HoldsMutex, HoldsRead

LEMMA PollDisconnectLocks ==
  ASSUME ClientType, LockInv, NEW g \in Goroutines, PollDisconnect(g)
  PROVE  LockInv'
BY DEF PollDisconnect, At, Goto, Done, PollReturn, lockVars, wireVars,
   linkVars, ClientType, CallType, LockType, LockInv, LockOwners,
   PollingConnected, NoSelfDeadlock, HoldsConn, HoldsBoth, PollHolds,
   HoldsMutex, HoldsRead

LEMMA PanicLocks ==
  ASSUME LockInv, Panic
  PROVE  LockInv'
BY DEF Panic, LockInv, LockOwners, PollingConnected, NoSelfDeadlock, At,
   callVars, lockVars, wireVars, linkVars

LEMMA SubscribeCallLocks ==
  ASSUME ClientType, LockInv, NEW g \in Goroutines, SubscribeCall(g)
  PROVE  LockInv'
<1>1. /\ pc[g] = "idle" /\ pc' = [pc EXCEPT ![g] = "sub_lock"]
      /\ UNCHANGED <<connMutex, mutex, readers, conn, isConnected>>
  BY DEF SubscribeCall, Begin, At, Goto, lockVars, wireVars, linkVars
<1>2. QED
  BY <1>1 DEF ClientType, CallType,
     LockType, LockInv, LockOwners, PollingConnected, NoSelfDeadlock, At,
     HoldsConn, HoldsBoth, PollHolds, HoldsMutex, HoldsRead

LEMMA UnsubscribeCallLocks ==
  ASSUME ClientType, LockInv, NEW g \in Goroutines, UnsubscribeCall(g)
  PROVE  LockInv'
<1>1. /\ pc[g] = "idle" /\ pc' = [pc EXCEPT ![g] = "unsub_lock"]
      /\ UNCHANGED <<connMutex, mutex, readers, conn, isConnected>>
  BY DEF UnsubscribeCall, Begin, At, Goto, lockVars, wireVars, linkVars
<1>2. QED
  BY <1>1 DEF ClientType, CallType,
     LockType, LockInv, LockOwners, PollingConnected, NoSelfDeadlock, At,
     HoldsConn, HoldsBoth, PollHolds, HoldsMutex, HoldsRead

LEMMA SubscribeLockLocks ==
  ASSUME ClientType, LockInv, NEW g \in Goroutines, SubscribeLock(g)
  PROVE  LockInv'
BY DEF SubscribeLock, At, ReturnSubscribe, Done, Goto, ConnFree, lockVars,
   wireVars, linkVars, ClientType, CallType, LockType, LockInv, LockOwners,
   PollingConnected, NoSelfDeadlock, HoldsConn, HoldsBoth, PollHolds,
   HoldsMutex, HoldsRead

LEMMA SubscribeSendLocks ==
  ASSUME ClientType, LockInv, NEW g \in Goroutines, SubscribeSend(g)
  PROVE  LockInv'
<1>1. /\ pc[g] = "sub_send" /\ connMutex' = NoOne
      /\ \E p \in {"idle", "sub_wait"} : pc' = [pc EXCEPT ![g] = p]
      /\ UNCHANGED <<mutex, readers, conn, isConnected>>
  BY DEF SubscribeSend, ReturnSubscribe, Done, At, Goto, linkVars
<1>2. QED
  BY <1>1 DEF ClientType, CallType,
     LockType, LockInv, LockOwners, PollingConnected, NoSelfDeadlock, At,
     HoldsConn, HoldsBoth, PollHolds, HoldsMutex, HoldsRead

LEMMA SubscribeAnswerLocks ==
  ASSUME ClientType, LockInv, NEW g \in Goroutines, SubscribeAnswer(g)
  PROVE  LockInv'
BY DEF SubscribeAnswer, At, Panic, callVars, Goto, lockVars, wireVars,
   linkVars, ClientType, CallType, LockType, LockInv, LockOwners,
   PollingConnected, NoSelfDeadlock, HoldsConn, HoldsBoth, PollHolds,
   HoldsMutex, HoldsRead

LEMMA SubscribeBindLocks ==
  ASSUME ClientType, LockInv, NEW g \in Goroutines, SubscribeBind(g)
  PROVE  LockInv'
BY DEF SubscribeBind, At, ReturnSubscribe, Done, Goto, MutexFree, callVars,
   lockVars, wireVars, linkVars, ClientType, CallType, LockType, LockInv,
   LockOwners, PollingConnected, NoSelfDeadlock, HoldsConn, HoldsBoth,
   PollHolds, HoldsMutex, HoldsRead

LEMMA SubscribeUnregisterLocks ==
  ASSUME ClientType, LockInv, NEW g \in Goroutines, SubscribeUnregister(g)
  PROVE  LockInv'
BY DEF SubscribeUnregister, At, Goto,
   lockVars, wireVars, linkVars, ClientType, CallType, LockType, LockInv,
   LockOwners, PollingConnected, NoSelfDeadlock, HoldsConn, HoldsBoth,
   PollHolds, HoldsMutex, HoldsRead

LEMMA SubscribeCloseLocks ==
  ASSUME ClientType, LockInv, NEW g \in Goroutines, SubscribeClose(g)
  PROVE  LockInv'
BY DEF SubscribeClose, At, Goto, lockVars, wireVars, linkVars, ClientType,
   CallType, LockType, LockInv, LockOwners, PollingConnected, NoSelfDeadlock,
   HoldsConn, HoldsBoth, PollHolds, HoldsMutex, HoldsRead

LEMMA ResponseDeleteLocks ==
  ASSUME ClientType, LockInv, NEW g \in Goroutines, ResponseDelete(g)
  PROVE  LockInv'
BY DEF ResponseDelete, At, ReturnSubscribe, Done, Goto, lockVars, wireVars,
   linkVars, ClientType, CallType, LockType, LockInv, LockOwners,
   PollingConnected, NoSelfDeadlock, HoldsConn, HoldsBoth, PollHolds,
   HoldsMutex, HoldsRead

LEMMA UnsubscribeSendLocks ==
  ASSUME ClientType, LockInv, NEW g \in Goroutines, UnsubscribeSend(g)
  PROVE  LockInv'
<1>1. /\ pc[g] = "unsub_lock" /\ mutex = NoOne /\ readers = {}
      /\ \/ mutex' = g /\ pc' = [pc EXCEPT ![g] = "idle"]
         \/ mutex' = NoOne /\ pc' = [pc EXCEPT ![g] = "unsub_wait"]
      /\ UNCHANGED <<connMutex, readers, conn, isConnected>>
  BY DEF UnsubscribeSend, ReturnSubscribe, Done, MutexFree, At, Goto, linkVars
<1>2. QED
  BY <1>1 DEF ClientType, CallType, LockType, LockInv, LockOwners,
     PollingConnected, NoSelfDeadlock, At, HoldsConn, HoldsBoth, PollHolds,
     HoldsMutex, HoldsRead

LEMMA UnsubscribeAnswerLocks ==
  ASSUME ClientType, LockInv, NEW g \in Goroutines, UnsubscribeAnswer(g)
  PROVE  LockInv'
BY DEF UnsubscribeAnswer, At, Goto, MutexFree, lockVars, wireVars, linkVars,
   ClientType, CallType, LockType, LockInv, LockOwners, PollingConnected,
   NoSelfDeadlock, HoldsConn, HoldsBoth, PollHolds, HoldsMutex, HoldsRead

LEMMA UnsubscribeFindLocks ==
  ASSUME ClientType, LockInv, NEW g \in Goroutines, UnsubscribeFind(g)
  PROVE  LockInv'
BY DEF UnsubscribeFind, At, Goto, lockVars, wireVars, linkVars, ClientType,
   CallType, LockType, LockInv, LockOwners, PollingConnected, NoSelfDeadlock,
   HoldsConn, HoldsBoth, PollHolds, HoldsMutex, HoldsRead

LEMMA UnsubscribeCloseLocks ==
  ASSUME ClientType, LockInv, NEW g \in Goroutines, UnsubscribeClose(g)
  PROVE  LockInv'
BY DEF UnsubscribeClose, At, Panic, callVars, Goto, lockVars, wireVars,
   linkVars, ClientType, CallType, LockType, LockInv, LockOwners,
   PollingConnected, NoSelfDeadlock, HoldsConn, HoldsBoth, PollHolds,
   HoldsMutex, HoldsRead

LEMMA UnsubscribeRemoveLocks ==
  ASSUME ClientType, LockInv, NEW g \in Goroutines, UnsubscribeRemove(g)
  PROVE  LockInv'
BY DEF UnsubscribeRemove, At, Goto, lockVars, wireVars, linkVars, ClientType,
   CallType, LockType, LockInv, LockOwners, PollingConnected, NoSelfDeadlock,
   HoldsConn, HoldsBoth, PollHolds, HoldsMutex, HoldsRead

LEMMA UnsubscribeUnlockLocks ==
  ASSUME ClientType, LockInv, NEW g \in Goroutines, UnsubscribeUnlock(g)
  PROVE  LockInv'
BY DEF UnsubscribeUnlock, At, Goto, lockVars, wireVars, linkVars, ClientType,
   CallType, LockType, LockInv, LockOwners, PollingConnected, NoSelfDeadlock,
   HoldsConn, HoldsBoth, PollHolds, HoldsMutex, HoldsRead

LEMMA PollRouteLocks ==
  ASSUME ClientType, LockInv, NEW g \in Goroutines, PollRoute(g)
  PROVE  LockInv'
BY DEF PollRoute, At, Goto, lockVars, wireVars, linkVars, ClientType,
   CallType, LockType, LockInv, LockOwners, PollingConnected, NoSelfDeadlock,
   HoldsConn, HoldsBoth, PollHolds, HoldsMutex, HoldsRead

LEMMA PollSignalLocks ==
  ASSUME ClientType, LockInv, NEW g \in Goroutines, PollSignal(g)
  PROVE  LockInv'
BY DEF PollSignal, At, Panic, callVars, Goto, lockVars, wireVars, linkVars,
   ClientType, CallType, LockType, LockInv, LockOwners, PollingConnected,
   NoSelfDeadlock, HoldsConn, HoldsBoth, PollHolds, HoldsMutex, HoldsRead

LEMMA PollResponseLocks ==
  ASSUME ClientType, LockInv, NEW g \in Goroutines, PollResponse(g)
  PROVE  LockInv'
BY DEF PollResponse, At, Panic, callVars, Goto,
   lockVars, wireVars, linkVars, ClientType, CallType, LockType, LockInv,
   LockOwners, PollingConnected, NoSelfDeadlock, HoldsConn, HoldsBoth,
   PollHolds, HoldsMutex, HoldsRead

LEMMA PollFanoutLocks ==
  ASSUME ClientType, LockInv, NEW g \in Goroutines, PollFanout(g)
  PROVE  LockInv'
BY DEF PollFanout, At, PollReturn, Done, Goto,
   lockVars, wireVars, linkVars, ClientType, CallType, LockType, LockInv,
   LockOwners, PollingConnected, NoSelfDeadlock, HoldsConn, HoldsBoth,
   PollHolds, HoldsMutex, HoldsRead

-----------------------------------------------------------------------------
(* The next-state relation *)

(* Every step of a goroutine keeps the types and the lock invariant. *)
LEMMA GoroutineInv ==
  ASSUME ClientType, LockInv, NEW g \in Goroutines, Call(g) \/ Step(g)
  PROVE  ClientType' /\ LockInv'
<1>1. CASE Call(g)
  BY <1>1, ConnectCallTyped, ConnectCallLocks, DisconnectCallTyped,
     DisconnectCallLocks, KeepAliveCallTyped, KeepAliveCallLocks,
     PublishCallTyped, PublishCallLocks, PollCallTyped, PollCallLocks,
     SubscribeCallTyped, SubscribeCallLocks, UnsubscribeCallTyped,
     UnsubscribeCallLocks DEF Call
<1>2. CASE ConnectStep(g)
  BY <1>2, ConnectLockTyped, ConnectLockLocks, ConnectSendTyped,
     ConnectSendLocks, ConnectFailTyped, ConnectFailLocks, ConnectAckTyped,
     ConnectAckLocks DEF ConnectStep
<1>3. CASE DisconnectStep(g)
  BY <1>3, DisconnectLockTyped, DisconnectLockLocks, DisconnectSendTyped,
     DisconnectSendLocks DEF DisconnectStep
<1>4. CASE KeepAliveStep(g)
  BY <1>4, KeepAliveLockTyped, KeepAliveLockLocks, KeepAliveSendTyped,
     KeepAliveSendLocks DEF KeepAliveStep
<1>5. CASE PublishStep(g)
  BY <1>5, PublishLockTyped, PublishLockLocks, PublishStoreTyped,
     PublishStoreLocks, PublishQuotaTyped, PublishQuotaLocks,
     PublishParkTyped, PublishParkLocks, PublishRelockTyped,
     PublishRelockLocks, PublishSendTyped, PublishSendLocks,
     PublishCountTyped, PublishCountLocks DEF PublishStep
<1>6. CASE PollStep(g)
  BY <1>6, PollLockTyped, PollLockLocks, PollNothingTyped, PollNothingLocks,
     PollReadTyped, PollReadLocks, PollPublishTyped, PollPublishLocks,
     PollAckTyped, PollAckLocks, PollCreditTyped, PollCreditLocks,
     PollStoreTyped, PollStoreLocks, PollPubackTyped, PollPubackLocks,
     PollPubcompTyped, PollPubcompLocks, PollPubrecTyped, PollPubrecLocks,
     PollPubrelTyped, PollPubrelLocks, PollReleaseTyped, PollReleaseLocks,
     PollPingrespTyped, PollPingrespLocks, PollDisconnectTyped,
     PollDisconnectLocks, PollRouteTyped,
     PollRouteLocks, PollSignalTyped, PollSignalLocks, PollResponseTyped,
     PollResponseLocks, PollFanoutTyped, PollFanoutLocks DEF PollStep
<1>7. CASE SubscribeStep(g)
  BY <1>7, SubscribeLockTyped, SubscribeLockLocks, SubscribeSendTyped,
     SubscribeSendLocks, SubscribeAnswerTyped, SubscribeAnswerLocks,
     SubscribeBindTyped, SubscribeBindLocks, SubscribeUnregisterTyped,
     SubscribeUnregisterLocks, SubscribeCloseTyped,
     SubscribeCloseLocks, ResponseDeleteTyped, ResponseDeleteLocks
     DEF SubscribeStep
<1>8. CASE UnsubscribeStep(g)
  BY <1>8, UnsubscribeSendTyped, UnsubscribeSendLocks, UnsubscribeAnswerTyped,
     UnsubscribeAnswerLocks, UnsubscribeFindTyped, UnsubscribeFindLocks,
     UnsubscribeCloseTyped, UnsubscribeCloseLocks, UnsubscribeRemoveTyped,
     UnsubscribeRemoveLocks, UnsubscribeUnlockTyped, UnsubscribeUnlockLocks
     DEF UnsubscribeStep
<1>9. QED
  BY <1>1, <1>2, <1>3, <1>4, <1>5, <1>6, <1>7, <1>8 DEF Step

(* What the broker and the network do to the wire leaves the rest of the    *)
(* client as it is.                                                        *)
LEMMA WireInv ==
  ASSUME ClientType, LockInv, UNCHANGED clientOnly,
         conn' \in ConnStates, conn = "closed" => conn' = "closed",
         toServer' \in Seq(Packets), toClient' \in Seq(Packets)
  PROVE  ClientType' /\ LockInv'
<1>1. UNCHANGED <<callVars, lockVars, linkVars, sendVars, recvVars, storeVars,
                  eventVars>>
  BY DEF clientOnly
<1>2. WireType'
  BY DEF WireType
<1>3. ClientType'
  BY <1>1, <1>2, UnchangedTyped DEF ClientType
<1>4. LockInv'
  BY <1>1 DEF LockInv, LockOwners, PollingConnected, NoSelfDeadlock, At,
     callVars, lockVars, linkVars
<1>5. QED
  BY <1>3, <1>4

(* An answer of the broker is a packet on the wire. *)
LEMMA AnswerTyped ==
  ASSUME WireType, NEW p \in Packets, Answer(p)
  PROVE  toClient' \in Seq(Packets)
BY DEF WireType, Answer

LEMMA TakesTyped ==
  ASSUME ClientType, NEW t, Takes(t)
  PROVE  /\ UNCHANGED <<conn, clientOnly, messages, losses>>
         /\ conn \in ConnStates
         /\ toServer' \in Seq(Packets)
         /\ toClient \in Seq(Packets)
         /\ Head(toServer).id \in Ids
         /\ Head(toServer) \in Packets
BY ReadTyped DEF Takes, ClientType, WireType, Packets

LEMMA TakeConnectInv ==
  ASSUME TypeOK, LockInv, TakeConnect
  PROVE  TypeOK' /\ LockInv'
<1>1. Takes("CONNECT") /\ ClientType /\ WireType
  BY DEF TakeConnect, TypeOK, ClientType
<1>2. toClient' \in Seq(Packets)
  BY <1>1, AnswerTyped, PacketTyped DEF TakeConnect, PacketTypes
<1>3. BrokerType'
  <2>1. session' \in BOOLEAN
    <3>1. CASE session /\ UNCHANGED session
      BY <3>1
    <3>2. CASE \E code \in ConnackCodes : session' = (code < 128)
      BY <3>2
    <3>3. QED
      BY <3>1, <3>2, Zenon DEF TakeConnect
  <2>2. redo' \subseteq BrokerIds
    BY DEF TakeConnect, TypeOK, BrokerType
  <2>3. QED
    BY <1>1, <2>1, <2>2, TakesTyped DEF TakeConnect, TypeOK, BrokerType
<1>4. QED
  BY <1>1, <1>2, <1>3, TakesTyped, WireInv DEF TypeOK

LEMMA TakePublishInv ==
  ASSUME TypeOK, LockInv, TakePublish
  PROVE  TypeOK' /\ LockInv'
<1>1. Takes("PUBLISH") /\ ClientType /\ WireType
  BY DEF TakePublish, TypeOK, ClientType
<1>2. toClient' \in Seq(Packets)
  BY <1>1, TakesTyped, AnswerTyped, PacketTyped DEF TakePublish, PacketTypes
<1>3. BrokerType'
  BY <1>1, TakesTyped DEF TakePublish, TypeOK, BrokerType, Deliveries
<1>4. QED
  BY <1>1, <1>2, <1>3, TakesTyped, WireInv DEF TypeOK

LEMMA TakePubrelInv ==
  ASSUME TypeOK, LockInv, TakePubrel
  PROVE  TypeOK' /\ LockInv'
<1>1. Takes("PUBREL") /\ ClientType /\ WireType
  BY DEF TakePubrel, TypeOK, ClientType
<1>2. toClient' \in Seq(Packets)
  BY <1>1, TakesTyped, AnswerTyped, PacketTyped DEF TakePubrel, PacketTypes,
     Codes
<1>3. BrokerType'
  BY <1>1, TakesTyped DEF TakePubrel, TypeOK, BrokerType, Deliveries
<1>4. QED
  BY <1>1, <1>2, <1>3, TakesTyped, WireInv DEF TypeOK

LEMMA TakePubackInv ==
  ASSUME TypeOK, LockInv, TakePuback
  PROVE  TypeOK' /\ LockInv'
<1>1. Takes("PUBACK") /\ ClientType /\ WireType
  BY DEF TakePuback, TypeOK, ClientType
<1>2. toClient' \in Seq(Packets)
  BY <1>1, TakesTyped DEF TakePuback
<1>3. BrokerType'
  BY <1>1, TakesTyped DEF TakePuback, TypeOK, BrokerType, Deliveries
<1>4. QED
  BY <1>1, <1>2, <1>3, TakesTyped, WireInv DEF TypeOK

LEMMA TakePubrecInv ==
  ASSUME TypeOK, LockInv, TakePubrec
  PROVE  TypeOK' /\ LockInv'
<1>1. Takes("PUBREC") /\ ClientType /\ WireType
  BY DEF TakePubrec, TypeOK, ClientType
<1>2. toClient' \in Seq(Packets)
  BY <1>1, TakesTyped, AnswerTyped, PacketTyped DEF TakePubrec, PacketTypes
<1>3. BrokerType'
  BY <1>1, TakesTyped DEF TakePubrec, TypeOK, BrokerType, Deliveries
<1>4. QED
  BY <1>1, <1>2, <1>3, TakesTyped, WireInv DEF TypeOK

LEMMA TakePubcompInv ==
  ASSUME TypeOK, LockInv, TakePubcomp
  PROVE  TypeOK' /\ LockInv'
<1>1. Takes("PUBCOMP") /\ ClientType /\ WireType
  BY DEF TakePubcomp, TypeOK, ClientType
<1>2. toClient' \in Seq(Packets)
  BY <1>1, TakesTyped DEF TakePubcomp
<1>3. BrokerType'
  BY <1>1, TakesTyped DEF TakePubcomp, TypeOK, BrokerType, Deliveries
<1>4. QED
  BY <1>1, <1>2, <1>3, TakesTyped, WireInv DEF TypeOK

LEMMA TakePingreqInv ==
  ASSUME TypeOK, LockInv, TakePingreq
  PROVE  TypeOK' /\ LockInv'
<1>1. Takes("PINGREQ") /\ ClientType /\ WireType
  BY DEF TakePingreq, TypeOK, ClientType
<1>2. toClient' \in Seq(Packets)
  BY <1>1, AnswerTyped, PacketTyped DEF TakePingreq, PacketTypes
<1>3. BrokerType'
  BY <1>1, TakesTyped DEF TakePingreq, TypeOK, BrokerType
<1>4. QED
  BY <1>1, <1>2, <1>3, TakesTyped, WireInv DEF TypeOK

LEMMA TakeDisconnectInv ==
  ASSUME TypeOK, LockInv, TakeDisconnect
  PROVE  TypeOK' /\ LockInv'
<1>1. Takes("DISCONNECT") /\ ClientType /\ WireType
  BY DEF TakeDisconnect, TypeOK, ClientType
<1>2. toClient' \in Seq(Packets)
  BY <1>1, TakesTyped DEF TakeDisconnect
<1>3. BrokerType'
  BY <1>1, TakesTyped DEF TakeDisconnect, TypeOK, BrokerType
<1>4. QED
  BY <1>1, <1>2, <1>3, TakesTyped, WireInv DEF TypeOK

LEMMA TakeSubscribeInv ==
  ASSUME TypeOK, LockInv, TakeSubscribe
  PROVE  TypeOK' /\ LockInv'
<1>1. Takes("SUBSCRIBE") /\ ClientType /\ WireType
  BY DEF TakeSubscribe, TypeOK, ClientType
<1>2. \A fs \in Grants(Head(toServer).filters) : fs \in SUBSET Filters
  BY <1>1, TakesTyped DEF Grants, Packets
<1>3. toClient' \in Seq(Packets)
  BY <1>1, <1>2, TakesTyped, AnswerTyped, PacketTyped, AboutTyped
     DEF TakeSubscribe, PacketTypes
<1>4. BrokerType'
  BY <1>1, TakesTyped DEF TakeSubscribe, TypeOK, BrokerType
<1>5. QED
  BY <1>1, <1>3, <1>4, TakesTyped, WireInv DEF TypeOK

LEMMA TakeUnsubscribeInv ==
  ASSUME TypeOK, LockInv, TakeUnsubscribe
  PROVE  TypeOK' /\ LockInv'
<1>1. Takes("UNSUBSCRIBE") /\ ClientType /\ WireType
  BY DEF TakeUnsubscribe, TypeOK, ClientType
<1>2. toClient' \in Seq(Packets)
  BY <1>1, TakesTyped, AnswerTyped, PacketTyped
     DEF TakeUnsubscribe, PacketTypes
<1>3. BrokerType'
  BY <1>1, TakesTyped DEF TakeUnsubscribe, TypeOK, BrokerType
<1>4. QED
  BY <1>1, <1>2, <1>3, TakesTyped, WireInv DEF TypeOK

LEMMA SendsTyped ==
  ASSUME WireType, NEW p \in Packets, Sends(p)
  PROVE  toClient' \in Seq(Packets)
BY DEF WireType, Sends

LEMMA BrokerPublishInv ==
  ASSUME TypeOK, LockInv, BrokerPublish
  PROVE  TypeOK' /\ LockInv'
<1>1. ClientType /\ WireType /\ UNCHANGED <<conn, toServer, clientOnly>>
  BY DEF BrokerPublish, TypeOK, ClientType
<1>2. toClient' \in Seq(Packets)
  BY <1>1, SendsTyped, PacketTyped, AboutTyped DEF BrokerPublish, Ids
<1>3. BrokerType'
  BY DEF BrokerPublish, TypeOK, BrokerType, Deliveries
<1>4. QED
  BY <1>1, <1>2, <1>3, WireInv DEF TypeOK, WireType

LEMMA BrokerResendInv ==
  ASSUME TypeOK, LockInv, BrokerResend
  PROVE  TypeOK' /\ LockInv'
<1>1. ClientType /\ WireType /\ UNCHANGED <<conn, toServer, clientOnly>>
  BY DEF BrokerResend, TypeOK, ClientType
<1>2. toClient' \in Seq(Packets)
  BY <1>1, SendsTyped, PacketTyped, AboutTyped
     DEF BrokerResend, TypeOK, BrokerType, PacketTypes, Ids
<1>3. BrokerType'
  BY DEF BrokerResend, TypeOK, BrokerType
<1>4. QED
  BY <1>1, <1>2, <1>3, WireInv DEF TypeOK, WireType

LEMMA BrokerUnpromptedInv ==
  ASSUME TypeOK, LockInv, BrokerUnprompted
  PROVE  TypeOK' /\ LockInv'
<1>1. ClientType /\ WireType /\ UNCHANGED <<conn, toServer, clientOnly>>
  BY DEF BrokerUnprompted, TypeOK, ClientType
<1>2. toClient' \in Seq(Packets)
  BY <1>1, SendsTyped, PacketTyped DEF BrokerUnprompted
<1>3. BrokerType'
  BY DEF BrokerUnprompted, TypeOK, BrokerType
<1>4. QED
  BY <1>1, <1>2, <1>3, WireInv DEF TypeOK, WireType

LEMMA ConnLostInv ==
  ASSUME TypeOK, LockInv, ConnLost
  PROVE  TypeOK' /\ LockInv'
<1>1. ClientType /\ WireType
  BY DEF TypeOK, ClientType
<1>2. ClientType' /\ LockInv'
  BY <1>1, WireInv, ReadTyped DEF ConnLost, ConnStates
<1>3. BrokerType'
  <2>1. losses' \in Nat
    BY DEF ConnLost, TypeOK, BrokerType
  <2>2. session' \in BOOLEAN
    BY DEF ConnLost
  <2>3. QED
    BY <2>1, <2>2 DEF ConnLost, TypeOK, BrokerType
<1>4. QED
  BY <1>2, <1>3 DEF TypeOK

LEMMA PingDeadlineInv ==
  ASSUME TypeOK, LockInv, PingDeadlinePasses
  PROVE  TypeOK' /\ LockInv'
<1>1. UNCHANGED <<callVars, lockVars, wireVars, sendVars, recvVars, storeVars,
                  eventVars, brokerVars, isConnected>>
  BY DEF PingDeadlinePasses
<1>2. LinkType'
  BY DEF PingDeadlinePasses, TypeOK, ClientType, LinkType
<1>3. TypeOK'
  BY <1>1, <1>2, UnchangedTyped DEF TypeOK, ClientType
<1>4. LockInv'
  BY <1>1 DEF LockInv, LockOwners, PollingConnected, NoSelfDeadlock, At,
     callVars, lockVars, wireVars
<1>5. QED
  BY <1>3, <1>4

(* The event channels are guarded by a mutex of their own. *)
LEMMA ApplicationInv ==
  ASSUME TypeOK, LockInv, NEW c \in Channels, Application(c),
         UNCHANGED brokerVars
  PROVE  TypeOK' /\ LockInv'
<1>1. UNCHANGED <<callVars, lockVars, wireVars, linkVars, sendVars, recvVars,
                  storeVars>>
  BY DEF Application, CreateEventChannel, CloseEventChannel,
     CloseEventChannelEnd, ReceiveEvent
<1>2. EventType'
  <2>1. EventType /\ InboxType /\ ChanType /\ ResponseType /\ LoopType
    BY DEF TypeOK, ClientType, EventType
  <2>2. CASE CreateEventChannel(c)
    <3>1. ChanType'
      BY <2>1, <2>2 DEF CreateEventChannel, ChanType, ChanStates
    <3>2. QED
      BY <2>1, <2>2, <3>1, MapWriteTyped, UnchangedEvents
         DEF CreateEventChannel, EventType
  <2>3. CASE CloseEventChannel(c)
    <3>1. ChanType'
      BY <2>1, <2>3 DEF CloseEventChannel, ChanType, ChanStates, ClosingStates
    <3>2. QED
      BY <2>1, <2>3, <3>1, UnchangedEvents DEF CloseEventChannel, EventType
  <2>4. CASE CloseEventChannelEnd(c)
    <3>1. ChanType'
      <4>1. /\ \E missed : RemoveFromMaps(c, missed)
            /\ closing' = [closing EXCEPT ![c] = "done"]
            /\ UNCHANGED <<chanState, fetched>>
        BY <2>4 DEF CloseEventChannelEnd
      <4>2. QED
        BY <2>1, <4>1 DEF ChanType, RemoveFromMaps, ClosingStates
    <3>2. QED
      BY <2>1, <2>4, <3>1, MapWriteTyped, UnchangedEvents
         DEF CloseEventChannelEnd, EventType
  <2>5. CASE ReceiveEvent(c)
    <3>1. InboxType'
      BY <2>1, <2>5 DEF ReceiveEvent, InboxType
    <3>2. QED
      BY <2>1, <2>5, <3>1, UnchangedEvents DEF ReceiveEvent, EventType
  <2>6. QED
    BY <2>2, <2>3, <2>4, <2>5 DEF Application
<1>3. TypeOK'
  BY <1>1, <1>2, UnchangedTyped DEF TypeOK, ClientType
<1>4. LockInv'
  BY <1>1 DEF LockInv, LockOwners, PollingConnected, NoSelfDeadlock, At,
     callVars, lockVars, wireVars, linkVars
<1>5. QED
  BY <1>3, <1>4

LEMMA RestartInv ==
  ASSUME TypeOK, LockInv, Restart
  PROVE  TypeOK' /\ LockInv'
<1>1. CallType'
  BY PacketTyped
     DEF Restart, TypeOK, ClientType, CallType, Points, HoldsNothing
<1>2. LockType' /\ LinkType'
  BY DEF Restart, LockType, LinkType
<1>3. WireType' /\ EventType'
  <2>1. WireType' /\ InboxType'
    BY ConstantsAssumption DEF Restart, WireType, InboxType, ConnStates
  <2>2. ChanType'
    BY DEF Restart, ChanType, ChanStates, ClosingStates
  <2>3. ResponseType'
    BY DEF Restart, ResponseType
  <2>4. LoopType'
    BY DEF Restart, LoopType, EventChannels
  <2>5. QED
    BY <2>1, <2>2, <2>3, <2>4 DEF Restart, EventType
<1>4. QuotaType'
  BY DEF Restart, QuotaType, Quotas
<1>5. StoreType' /\ BrokerType'
  <2>1. losses' \in Nat
    BY DEF Restart, TypeOK, BrokerType
  <2>2. session' \in BOOLEAN
    BY DEF Restart
  <2>3. QED
    BY <2>1, <2>2
       DEF Restart, TypeOK, ClientType, StoreType, BrokerType, storeVars
<1>6. LockInv'
  BY DEF Restart, LockInv, LockOwners, PollingConnected, NoSelfDeadlock, At,
     HoldsConn, HoldsBoth, PollHolds, HoldsMutex, HoldsRead
<1>7. QED
  BY <1>1, <1>2, <1>3, <1>4, <1>5, <1>6 DEF TypeOK, ClientType

LEMMA InitInv == Init => TypeOK /\ LockInv
<1> SUFFICES ASSUME Init PROVE TypeOK /\ LockInv
  OBVIOUS
<1>1. CallType
  BY PacketTyped DEF Init, CallType, Points, HoldsNothing
<1>2. LockType /\ LinkType
  BY DEF Init, LockType, LinkType
<1>3. WireType /\ EventType
  <2>1. WireType /\ InboxType
    BY ConstantsAssumption DEF Init, WireType, InboxType, ConnStates
  <2>2. ChanType
    BY DEF Init, ChanType, ChanStates, ClosingStates
  <2>3. ResponseType
    BY DEF Init, ResponseType
  <2>4. LoopType
    BY DEF Init, LoopType, EventChannels
  <2>5. QED
    BY <2>1, <2>2, <2>3, <2>4 DEF Init, EventType
<1>4. QuotaType
  BY DEF Init, QuotaType, Quotas
<1>5. StoreType /\ BrokerType
  BY DEF Init, StoreType, BrokerType, Kept, Deliveries
<1>6. LockInv
  BY DEF Init, LockInv, LockOwners, PollingConnected, NoSelfDeadlock, At,
     HoldsConn, HoldsBoth, PollHolds, HoldsMutex, HoldsRead
<1>7. QED
  BY <1>1, <1>2, <1>3, <1>4, <1>5, <1>6 DEF TypeOK, ClientType

LEMMA NextInv ==
  ASSUME TypeOK, LockInv, [Next]_vars
  PROVE  TypeOK' /\ LockInv'
<1>1. CASE /\ \E g \in Goroutines : Call(g) \/ Step(g)
           /\ UNCHANGED brokerVars
  BY <1>1, GoroutineInv, UnchangedTyped DEF TypeOK
<1>2. CASE /\ \E c \in Channels : Application(c)
           /\ UNCHANGED brokerVars
  BY <1>2, ApplicationInv
<1>3. CASE BrokerStep
  BY <1>3, TakeConnectInv, TakePublishInv, TakePubrelInv, TakePubackInv,
     TakePubrecInv, TakePubcompInv, TakePingreqInv, TakeDisconnectInv,
     TakeSubscribeInv, TakeUnsubscribeInv, BrokerPublishInv, BrokerResendInv, BrokerUnpromptedInv
     DEF BrokerStep, BrokerTakes
<1>4. CASE ConnLost
  BY <1>4, ConnLostInv
<1>5. CASE PingDeadlinePasses
  BY <1>5, PingDeadlineInv
<1>6. CASE Restart
  BY <1>6, RestartInv
<1>7. CASE UNCHANGED vars
  <2>1. UNCHANGED <<callVars, lockVars, wireVars, linkVars, sendVars, recvVars,
                    storeVars, eventVars, brokerVars>>
    BY <1>7 DEF vars, clientVars
  <2>2. TypeOK'
    BY <2>1, UnchangedTyped DEF TypeOK, ClientType
  <2>3. LockInv'
    BY <2>1 DEF LockInv, LockOwners, PollingConnected, NoSelfDeadlock, At,
       callVars, lockVars, wireVars, linkVars
  <2>4. QED
    BY <2>2, <2>3
<1>8. QED
  BY <1>1, <1>2, <1>3, <1>4, <1>5, <1>6, <1>7 DEF Next

LEMMA Inductive == Spec => [](TypeOK /\ LockInv)
<1>1. Init => TypeOK /\ LockInv
  BY InitInv
<1>2. (TypeOK /\ LockInv) /\ [Next]_vars => (TypeOK /\ LockInv)'
  BY NextInv
<1>3. QED
  BY <1>1, <1>2, PTL DEF Spec

-----------------------------------------------------------------------------
(* The theorems *)

(* Type correctness: whatever the goroutines, the broker and the network   *)
(* do, every variable keeps its range; the quotas are uint16.              *)
THEOREM TypeCorrect == Spec => []TypeOK
BY Inductive, PTL

(* The mutexes of the client do what they are for: connMutex has exactly   *)
(* the owner that is between its Lock and its Unlock, and c.mutex excludes *)
(* writers from readers and from each other.                               *)
THEOREM LocksOwned == Spec => []LockOwners
BY Inductive, PTL DEF LockInv

(* Poll handles packets only while the client is connected, although it    *)
(* tests isConnected before it waits for connMutex.                        *)
THEOREM PollConnected == Spec => []PollingConnected
BY Inductive, PTL DEF LockInv

(* Poll never waits for the connMutex it holds: its call of                *)
(* disconnectWithReason always returns before the Lock, because the client *)
(* is connected there.                                                     *)
THEOREM NeverStuck == Spec => []NoSelfDeadlock
BY Inductive, PTL DEF LockInv
=============================================================================
