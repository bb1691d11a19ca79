---------------------------- MODULE Locks_proofs ----------------------------
(***************************************************************************)
(* Proofs about how the goroutines of Client wait for each other's mutex.  *)
(***************************************************************************)
EXTENDS Incoming_proofs

-----------------------------------------------------------------------------
(* The use that the proofs are about *)

(* One goroutine calls Connect, once, and nobody calls KeepAlive. *)
ConnectsOnce ==
  \A g, h \in Goroutines : "Connect" \in May[g] =>
    MaxCalls[g] <= 1 /\ ("Connect" \in May[h] => g = h)
NeverKeptAlive == \A g \in Goroutines : "KeepAlive" \notin May[g]

-----------------------------------------------------------------------------
(* The inductive invariant *)

Connecting == {"con_lock", "con_conn", "con_read"}

(* Who waits for c.mutex with connMutex held is in a call on a client that *)
(* is connected; Publish and Subscribe check isConnected before they wait  *)
(* for connMutex, and give up if the connection was closed meanwhile.      *)
HoldersConnected ==
  \A g \in Goroutines :
    /\ pc[g] \in WaitsForMutex => isConnected
    /\ pc[g] \in {"pub_lock", "sub_lock"} /\ ~ isConnected => conn = "closed"

(* Disconnect goes on only while the client is not connected. *)
DisconnectsUnconnected ==
  \A g \in Goroutines : pc[g] = "dis_conn" => ~ isConnected

(* The one call of Connect is made on a client that is not connected. *)
ConnectsUnconnected ==
  ConnectsOnce =>
    \A g \in Goroutines :
      /\ calls[g] <= MaxCalls[g]
      /\ pc[g] \in Connecting =>
           "Connect" \in May[g] /\ calls[g] = 0 /\ ~ isConnected
      /\ isConnected /\ "Connect" \in May[g] => calls[g] = 0

NobodyPings ==
  NeverKeptAlive => \A g \in Goroutines : pc[g] \notin {"ka_lock", "ka_conn"}

CycleInv ==
  /\ HoldersConnected /\ DisconnectsUnconnected
  /\ ConnectsUnconnected /\ NobodyPings

-----------------------------------------------------------------------------
(* Steps that neither connect nor disconnect, nor begin a call of Connect  *)
(* or KeepAlive                                                            *)

Neutral ==
  /\ UNCHANGED isConnected
  /\ conn = "closed" => conn' = "closed"
  /\ \A h \in Goroutines :
       /\ pc'[h] \in WaitsForMutex => isConnected
       /\ pc'[h] \in {"pub_lock", "sub_lock"} =>
            pc[h] \in {"pub_lock", "sub_lock"} \/ isConnected
       /\ pc'[h] = "dis_conn" => pc[h] = "dis_conn" \/ ~ isConnected
       /\ pc'[h] \in Connecting => pc[h] \in Connecting /\ calls'[h] = calls[h]
       /\ pc'[h] \in {"ka_lock", "ka_conn"} => pc[h] \in {"ka_lock", "ka_conn"}
       /\ calls'[h] = calls[h] \/ (calls[h] > 0 /\ calls'[h] = calls[h] - 1)

LEMMA CallsTyped ==
  ASSUME TypeOK
  PROVE  /\ pc \in [Goroutines -> Points]
         /\ calls \in [Goroutines -> Nat]
         /\ MaxCalls \in [Goroutines -> Nat]
BY ConstantsAssumption DEF TypeOK, ClientType, CallType

LEMMA NeutralInv ==
  ASSUME TypeOK, CycleInv, Neutral
  PROVE  CycleInv'
<1>1. HoldersConnected' /\ DisconnectsUnconnected'
  BY DEF CycleInv, HoldersConnected, DisconnectsUnconnected, Neutral
<1>2. ConnectsUnconnected'
  BY CallsTyped DEF CycleInv, ConnectsUnconnected, Neutral
<1>3. NobodyPings'
  BY DEF CycleInv, NobodyPings, Neutral
<1>4. QED
  BY <1>1, <1>2, <1>3 DEF CycleInv

LEMMA PublishNeutral ==
  ASSUME TypeOK, CycleInv, NEW g \in Goroutines, PublishCall(g) \/ PublishStep(g)
  PROVE  Neutral
<1>1. HoldersConnected
  BY DEF CycleInv
<1>2. QED
  BY <1>1, CallsTyped DEF PublishCall, PublishStep, PublishLock, PublishStore,
     PublishQuota, PublishPark, PublishRelock, PublishSend, PublishCount,
     Begin, Done, Goto, At, wireVars, linkVars, Neutral, Connecting,
     WaitsForMutex, HoldersConnected

LEMMA SessionNeutral ==
  ASSUME TypeOK, CycleInv, NEW g \in Goroutines,
         \/ ConnectLock(g) \/ ConnectSend(g) \/ ConnectFail(g)
         \/ DisconnectCall(g) \/ DisconnectLock(g) \/ KeepAliveStep(g)
  PROVE  Neutral
<1>1. HoldersConnected
  BY DEF CycleInv
<1>2. QED
  BY <1>1, CallsTyped DEF ConnectLock, ConnectSend, ConnectFail, ConnectReturn,
     DisconnectCall, DisconnectLock, DisconnectRefused, KeepAliveStep,
     KeepAliveLock, KeepAliveSend, Begin, Done, Goto, At, wireVars, linkVars,
     Neutral, Connecting, WaitsForMutex, HoldersConnected

LEMMA PollNeutral ==
  ASSUME TypeOK, LockInv, CycleInv, NEW g \in Goroutines,
         PollCall(g) \/ PollStep(g), ~ PollLock(g)
  PROVE  Neutral
<1>1. HoldersConnected /\ (pc[g] \in PollHolds => isConnected)
  BY DEF CycleInv, LockInv, PollingConnected
<1>2. CASE PollCall(g) \/ PollNothing(g) \/ PollRead(g)
  BY <1>1, <1>2, CallsTyped DEF PollCall, PollNothing, PollRead, PollReturn,
     Done, Goto, At, wireVars, linkVars, Neutral, Connecting, WaitsForMutex, HoldersConnected, Handler, PollHolds
<1>3. CASE \/ PollPublish(g) \/ PollAck(g) \/ PollCredit(g) \/ PollRoute(g)
           \/ PollSignal(g) \/ PollStore(g)
  BY <1>1, <1>3, CallsTyped DEF PollPublish, PollAck, PollCredit, PollRoute,
     PollSignal, PollStore, DisconnectWithReason, Panic, PollReturn, Done,
     Goto, At, callVars, wireVars, linkVars, Neutral, Connecting,
     WaitsForMutex, HoldersConnected, PollHolds
<1>4. CASE PollPuback(g) \/ PollPubcomp(g)
  <2>1. \A h \in Goroutines :
          pc'[h] \in {pc[h], "idle", "poll_fanout", "pub_relock"}
    BY <1>4 DEF PollPuback, PollPubcomp, Completed, GotoReleasing
  <2>2. UNCHANGED <<conn, isConnected, calls>>
    BY <1>4 DEF PollPuback, PollPubcomp, Completed, GotoReleasing, wireVars,
       linkVars
  <2>3. QED
    BY <1>1, <2>1, <2>2 DEF Neutral, Connecting, WaitsForMutex,
       HoldersConnected
<1>5. CASE PollPubrec(g) \/ PollPubrel(g) \/ PollRelease(g)
  BY <1>1, <1>5, CallsTyped DEF PollPubrec, PollPubrel, PollRelease,
     PollReturn, Done, Goto, At, wireVars, linkVars, Neutral, Connecting,
     WaitsForMutex, HoldersConnected
<1>6. CASE \/ PollResponse(g) \/ PollFanout(g) \/ PollPingresp(g)
           \/ PollDisconnect(g)
  BY <1>1, <1>6, CallsTyped DEF PollResponse, PollFanout, PollPingresp,
     PollDisconnect, Panic, PollReturn, Done, Goto, At, callVars,
     wireVars, linkVars, Neutral, Connecting, WaitsForMutex,
     HoldersConnected
<1>7. QED
  BY <1>2, <1>3, <1>4, <1>5, <1>6 DEF PollStep

LEMMA SubscribeNeutral ==
  ASSUME TypeOK, CycleInv, NEW g \in Goroutines,
         \/ SubscribeCall(g) \/ SubscribeStep(g)
         \/ UnsubscribeCall(g) \/ UnsubscribeStep(g)
  PROVE  Neutral
<1>1. HoldersConnected
  BY DEF CycleInv
<1>2. CASE SubscribeCall(g) \/ SubscribeStep(g)
  BY <1>1, <1>2, CallsTyped DEF SubscribeCall, SubscribeStep, SubscribeLock,
     SubscribeSend, SubscribeAnswer, SubscribeBind, SubscribeUnregister,
     SubscribeClose, ResponseDelete, ReturnSubscribe, Begin, Panic, Done, Goto,
     At, callVars, wireVars, linkVars, Neutral, Connecting, WaitsForMutex, HoldersConnected
<1>3. CASE UnsubscribeCall(g) \/ UnsubscribeStep(g)
  BY <1>1, <1>3, CallsTyped DEF UnsubscribeCall, UnsubscribeStep,
     UnsubscribeSend, UnsubscribeAnswer, UnsubscribeFind, UnsubscribeClose, UnsubscribeRemove,
     UnsubscribeUnlock, ReturnSubscribe, Begin, Panic, Done, Goto, At,
     callVars, wireVars, linkVars, Neutral, Connecting, WaitsForMutex, HoldersConnected
<1>4. QED
  BY <1>2, <1>3

LEMMA WorldNeutral ==
  ASSUME CycleInv,
         \/ BrokerStep \/ ConnLost \/ PingDeadlinePasses \/ UNCHANGED vars
         \/ \E c \in Channels : Application(c)
  PROVE  Neutral
<1>1. /\ UNCHANGED <<callVars, isConnected>>
      /\ conn = "closed" => conn' = "closed"
  BY DEF BrokerStep, BrokerTakes, TakeConnect, TakePublish, TakePubrel,
     TakePuback, TakePubrec, TakePubcomp, TakePingreq, TakeDisconnect,
     TakeSubscribe, TakeUnsubscribe, Takes, BrokerPublish, BrokerResend,
     BrokerUnprompted, ConnLost, PingDeadlinePasses, clientOnly, linkVars,
     wireVars, vars, clientVars, Application, CreateEventChannel,
     CloseEventChannel, CloseEventChannelEnd, ReceiveEvent
<1>2. QED
  BY <1>1 DEF callVars, Neutral, CycleInv, HoldersConnected

-----------------------------------------------------------------------------
(* The other steps *)

LEMMA ConnectCallCycle ==
  ASSUME TypeOK, CycleInv, NEW g \in Goroutines, ConnectCall(g)
  PROVE  CycleInv'
<1>1. /\ "Connect" \in May[g] /\ calls[g] > 0
      /\ calls' = [calls EXCEPT ![g] = calls[g] - 1]
      /\ pc' = [pc EXCEPT ![g] = "con_lock"]
      /\ UNCHANGED <<isConnected, conn>>
  BY DEF ConnectCall, Begin, Goto, linkVars, wireVars
<1>2. HoldersConnected' /\ DisconnectsUnconnected' /\ NobodyPings'
  BY <1>1, CallsTyped DEF CycleInv, HoldersConnected, DisconnectsUnconnected,
     NobodyPings, WaitsForMutex
<1>3. ConnectsUnconnected'
  BY <1>1, CallsTyped
     DEF CycleInv, ConnectsUnconnected, ConnectsOnce, Connecting
<1>4. QED
  BY <1>2, <1>3 DEF CycleInv

LEMMA KeepAliveCallCycle ==
  ASSUME TypeOK, CycleInv, NEW g \in Goroutines, KeepAliveCall(g)
  PROVE  CycleInv'
<1>1. /\ "KeepAlive" \in May[g] /\ calls[g] > 0
      /\ calls' = [calls EXCEPT ![g] = calls[g] - 1]
      /\ pc' = [pc EXCEPT ![g] = "ka_lock"]
      /\ UNCHANGED <<isConnected, conn>>
  BY DEF KeepAliveCall, Begin, Goto, linkVars, wireVars
<1>2. HoldersConnected' /\ DisconnectsUnconnected' /\ NobodyPings'
  BY <1>1, CallsTyped DEF CycleInv, HoldersConnected, DisconnectsUnconnected,
     NobodyPings, NeverKeptAlive, WaitsForMutex
<1>3. ConnectsUnconnected'
  BY <1>1, CallsTyped DEF CycleInv, ConnectsUnconnected, Connecting
<1>4. QED
  BY <1>2, <1>3 DEF CycleInv

(* Connect alone sets isConnected, with both mutexes held. *)
LEMMA ConnectAckCycle ==
  ASSUME TypeOK, LockInv, CycleInv, NEW g \in Goroutines, ConnectAck(g)
  PROVE  CycleInv'
<1>1. /\ pc[g] = "con_read" /\ pc' = [pc EXCEPT ![g] = "idle"]
      /\ UNCHANGED calls
      /\ \/ isConnected' = isConnected /\ conn' = "closed"
         \/ isConnected' = TRUE /\ conn' = conn
  BY DEF ConnectAck, ConnectReturn, Done, Goto, At, linkVars
<1>2. \A h \in Goroutines : h # g => pc[h] \notin HoldsConn \cup {"dis_conn"}
  BY <1>1 DEF LockInv, LockOwners, HoldsConn, HoldsBoth, HoldsMutex
<1>3. HoldersConnected' /\ DisconnectsUnconnected' /\ NobodyPings'
  BY <1>1, <1>2, CallsTyped DEF CycleInv, HoldersConnected,
     DisconnectsUnconnected, NobodyPings, WaitsForMutex,
     HoldsConn, PollHolds
<1>4. ConnectsUnconnected'
  BY <1>1, CallsTyped
     DEF CycleInv, ConnectsUnconnected, ConnectsOnce, Connecting
<1>5. QED
  BY <1>3, <1>4 DEF CycleInv

(* Whoever clears isConnected closes the connection, while nobody holds    *)
(* connMutex.                                                              *)
LEMMA DisconnectingCycle ==
  ASSUME TypeOK, LockInv, CycleInv, NEW g \in Goroutines,
         PollLock(g) \/ DisconnectSend(g)
  PROVE  CycleInv'
<1>1. /\ connMutex = NoOne /\ UNCHANGED calls
      /\ pc[g] \in {"poll_lock", "dis_conn"}
      /\ \E p \in {"idle", "poll_read"} : pc' = [pc EXCEPT ![g] = p]
      /\ \/ UNCHANGED <<isConnected, conn>>
         \/ isConnected' = FALSE /\ conn' = "closed"
  BY DEF PollLock, DisconnectSend, ConnFree, Done, Goto, At, wireVars
<1>2. \A h \in Goroutines : pc[h] \notin HoldsConn
  BY <1>1, ConstantsAssumption DEF LockInv, LockOwners
<1>3. HoldersConnected'
  BY <1>1, <1>2, CallsTyped DEF CycleInv, HoldersConnected, WaitsForMutex, HoldsConn, PollHolds
<1>4. DisconnectsUnconnected' /\ NobodyPings'
  BY <1>1, CallsTyped DEF CycleInv, DisconnectsUnconnected, NobodyPings
<1>5. ConnectsUnconnected'
  BY <1>1, CallsTyped DEF CycleInv, ConnectsUnconnected, Connecting
<1>6. QED
  BY <1>3, <1>4, <1>5 DEF CycleInv

LEMMA RestartCycle ==
  ASSUME TypeOK, CycleInv, Restart
  PROVE  CycleInv'
BY DEF Restart, CycleInv, HoldersConnected, DisconnectsUnconnected,
   ConnectsUnconnected, NobodyPings, WaitsForMutex, Connecting

LEMMA InitCycle == Init => CycleInv
BY ConstantsAssumption DEF Init, CycleInv, HoldersConnected,
   DisconnectsUnconnected, ConnectsUnconnected, NobodyPings, WaitsForMutex, Connecting

LEMMA NextCycle ==
  ASSUME TypeOK, LockInv, CycleInv, [Next]_vars
  PROVE  CycleInv'
<1>1. ASSUME NEW g \in Goroutines, Call(g) \/ Step(g)
      PROVE  CycleInv'
  <2>1. CASE Neutral
    BY <2>1, NeutralInv
  <2>2. CASE ConnectCall(g) \/ KeepAliveCall(g)
    BY <2>2, ConnectCallCycle, KeepAliveCallCycle
  <2>3. CASE ConnectAck(g) \/ PollLock(g) \/ DisconnectSend(g)
    BY <2>3, ConnectAckCycle, DisconnectingCycle
  <2>4. QED
    BY <1>1, <2>1, <2>2, <2>3, PublishNeutral, SessionNeutral, PollNeutral,
       SubscribeNeutral DEF Call, Step, ConnectStep, DisconnectStep
<1>2. CASE \/ BrokerStep \/ ConnLost \/ PingDeadlinePasses \/ UNCHANGED vars
           \/ \E c \in Channels : Application(c)
  BY <1>2, WorldNeutral, NeutralInv
<1>3. QED
  BY <1>1, <1>2, RestartCycle DEF Next

LEMMA CycleInductive == Spec => [](TypeOK /\ LockInv /\ CycleInv)
<1>1. Init => CycleInv
  BY InitCycle
<1>2. (TypeOK /\ LockInv) /\ CycleInv /\ [Next]_vars => CycleInv'
  BY NextCycle
<1>3. QED
  BY <1>1, <1>2, Inductive, PTL DEF Spec

-----------------------------------------------------------------------------
(* The theorems *)

(* Goroutine g waits for h, and h for g. *)
WaitForEachOther(g, h) ==
  /\ pc[g] \in WaitsForConn /\ connMutex = h
  /\ pc[h] \in WaitsForMutex /\ (mutex = g \/ g \in readers)

(* Whatever the application calls, two goroutines that wait for each other *)
(* are one in KeepAlive, or in a call of Connect on a client that is       *)
(* connected already, and one in Publish, Poll or Subscribe: Disconnect,   *)
(* which takes the mutexes in the same order, is never part of a cycle.    *)
THEOREM CyclesAreReconnects ==
  Spec => [](\A g, h \in Goroutines : WaitForEachOther(g, h) =>
               isConnected /\ pc[g] \in {"con_conn", "ka_conn"})
<1>1. TypeOK /\ LockInv /\ CycleInv
      => \A g, h \in Goroutines : WaitForEachOther(g, h) =>
           isConnected /\ pc[g] \in {"con_conn", "ka_conn"}
  BY DEF WaitForEachOther, WaitsForConn, WaitsForMutex, At, CycleInv,
     HoldersConnected, DisconnectsUnconnected
<1>2. QED
  BY <1>1, CycleInductive, PTL

(* With one goroutine that connects, once, and nobody that calls KeepAlive *)
(* no two goroutines ever wait for each other's mutex, however many        *)
(* publish, subscribe, poll and disconnect, over losses and restarts.      *)
THEOREM NoCycle ==
  Spec => [](ConnectsOnce /\ NeverKeptAlive => NoLockCycle)
<1>1. TypeOK /\ LockInv /\ CycleInv
      => (ConnectsOnce /\ NeverKeptAlive => NoLockCycle)
  BY DEF NoLockCycle, WaitsForConn, WaitsForMutex, Connecting, At, CycleInv,
     HoldersConnected, DisconnectsUnconnected, ConnectsUnconnected, NobodyPings
<1>2. QED
  BY <1>1, CycleInductive, PTL

-----------------------------------------------------------------------------
(* c.mutex is unlocked by every return of Poll: the use                    *)

(* Drop and the write of PUBREL return with c.mutex locked when they fail, *)
(* and so does Unsubscribe: the connection is not lost, nobody calls       *)
(* Unsubscribe, and the broker sends what it has a reason to send.         *)
Unbroken ==
  /\ SeparateIds /\ HasStorage /\ MaxLosses = 0
  /\ ConformingBroker /\ NoStrayAcks
  /\ \A g \in Goroutines : "Unsubscribe" \notin May[g]

(* A PUBREC is stored, or about to be, when its PUBREL is on its way. *)
Rels(id) == {p \in Packets : p.type = "PUBREL" /\ p.id = id}
Recs(id) == {p \in Packets : p.type = "PUBREC" /\ p.id = id}
ToRelease(g, id) == pc[g] = "poll_pubrel" /\ arg[g].id = id
Unreleased(id) ==
  /\ NoneOf(toClient, Rels(id)) /\ NoneOf(toServer, Recs(id))
  /\ \A g \in Goroutines : ~ ToRelease(g, id)
Prepared(id) == Stored(id) \/ \E g \in Goroutines : Keeping(g, id)
ReleaseInv == \A id \in BrokerIds : Unreleased(id) \/ Prepared(id)

(* Poll handles a packet on a connection that is open. *)
OpenPoints == PollHolds \ {"poll_read", "poll_fanout"}
HandlersOpen ==
  \A g \in Goroutines :
    /\ pc[g] \in OpenPoints => conn = "open"
    /\ pc[g] # "unsub_lock"

(* Nothing is left over from an earlier connection. *)
FreshSession ==
  /\ losses = 0 /\ redo = {}
  /\ Starting => \A id \in BrokerIds : brokerOut[id] = "free"

UnbrokenInv ==
  /\ OutgoingInv /\ OwnAcks /\ ReceiveInv
  /\ HandlersOpen /\ FreshSession /\ ReleaseInv /\ MutexReleased

-----------------------------------------------------------------------------
(* The connection is closed by who holds connMutex. *)

LEMMA OpenSteps ==
  ASSUME TypeOK, LockInv, HandlersOpen, NEW g \in Goroutines,
         Call(g) \/ Step(g)
  PROVE  \A h \in Goroutines : pc'[h] \in OpenPoints => conn = "open"
<1>1. CASE PollPuback(g) \/ PollPubcomp(g)
  <2>1. PICK p \in {"idle", "poll_fanout"}, w \in Parked \cup {NoOne} :
          pc' = [q \in Goroutines |-> IF q = g THEN p
                                      ELSE IF q = w THEN "pub_relock" ELSE pc[q]]
    BY <1>1 DEF PollPuback, PollPubcomp, Completed, GotoReleasing, Released
  <2>2. QED
    BY <2>1 DEF HandlersOpen, OpenPoints, PollHolds
<1>2. CASE Call(g)
  BY <1>2, CallTyped DEF Call, ConnectCall, DisconnectCall, KeepAliveCall,
     PublishCall, PollCall, SubscribeCall, UnsubscribeCall, Begin, Goto,
     HandlersOpen, OpenPoints, PollHolds
<1>3. CASE ConnectStep(g) \/ DisconnectStep(g) \/ KeepAliveStep(g)
  BY <1>3, CallTyped DEF ConnectStep, DisconnectStep, KeepAliveStep,
     ConnectLock, ConnectSend, ConnectFail, ConnectAck, ConnectReturn,
     DisconnectLock, DisconnectSend, KeepAliveLock, KeepAliveSend, Done, Goto,
     HandlersOpen, OpenPoints, PollHolds
<1>4. CASE PublishStep(g)
  BY <1>4, CallTyped DEF PublishStep, PublishLock, PublishStore,
     PublishQuota, PublishPark, PublishRelock, PublishSend, PublishCount,
     Done, Goto, HandlersOpen, OpenPoints, PollHolds
<1>5. CASE PollStep(g)
  <2>1. CASE PollLock(g) \/ PollNothing(g) \/ PollRead(g) \/ PollFanout(g)
    BY <2>1, CallTyped DEF PollLock, PollNothing, PollRead, PollFanout,
       PollReturn, Done, Goto, HandlersOpen, OpenPoints, PollHolds
  <2>2. CASE ~ (PollLock(g) \/ PollNothing(g) \/ PollRead(g) \/ PollFanout(g))
    <3>1. pc[g] \in OpenPoints
      BY <1>5, <2>2 DEF PollStep, PollPublish, PollAck, PollCredit,
         PollRoute, PollSignal, PollStore, PollPuback, PollPubcomp,
         PollPubrec, PollPubrel, PollRelease, PollResponse, PollPingresp,
         PollDisconnect, At, OpenPoints, PollHolds
    <3>2. QED
      BY <3>1 DEF HandlersOpen
  <2>3. QED
    BY <2>1, <2>2
<1>6. CASE SubscribeStep(g) \/ UnsubscribeStep(g)
  BY <1>6, CallTyped DEF SubscribeStep, UnsubscribeStep, SubscribeLock,
     SubscribeSend, SubscribeAnswer, SubscribeBind, SubscribeUnregister,
     SubscribeClose, ResponseDelete, UnsubscribeSend, UnsubscribeAnswer,
     UnsubscribeFind, UnsubscribeClose, UnsubscribeRemove,
     UnsubscribeUnlock, ReturnSubscribe, Panic, Done, Goto, callVars,
     HandlersOpen, OpenPoints, PollHolds
<1>7. QED
  BY <1>2, <1>3, <1>4, <1>5, <1>6 DEF Step

LEMMA ClosingSteps ==
  ASSUME TypeOK, LockInv, NEW g \in Goroutines, Call(g) \/ Step(g),
         conn' # conn
  PROVE  \A h \in Goroutines : pc'[h] \notin OpenPoints
<1>1. ConnectAck(g) \/ DisconnectSend(g) \/ PollLock(g) \/ PollDisconnect(g)
  <2>1. ~ Call(g) /\ ~ PublishStep(g) /\ ~ KeepAliveStep(g)
    BY DEF Call, ConnectCall, DisconnectCall, KeepAliveCall, PublishCall,
       PollCall, SubscribeCall, UnsubscribeCall, KeepAliveStep,
       KeepAliveLock, KeepAliveSend, PublishStep, PublishLock, PublishStore,
       PublishQuota, PublishPark, PublishRelock, PublishSend, PublishCount,
       wireVars
  <2>2. ~ SubscribeStep(g) /\ ~ UnsubscribeStep(g)
    BY DEF SubscribeStep, UnsubscribeStep, SubscribeLock, SubscribeSend,
       SubscribeAnswer, SubscribeBind, SubscribeUnregister, SubscribeClose,
       ResponseDelete, UnsubscribeSend, UnsubscribeAnswer, UnsubscribeFind,
       UnsubscribeClose, UnsubscribeRemove, UnsubscribeUnlock, Panic, wireVars
  <2>3. CASE ConnectStep(g) \/ DisconnectStep(g)
    BY <2>3 DEF ConnectStep, DisconnectStep, ConnectLock, ConnectSend,
       ConnectFail, DisconnectLock, wireVars
  <2>4. CASE PollStep(g)
    BY <2>4 DEF PollStep, PollNothing, PollRead, PollPublish, PollAck,
       PollCredit, PollRoute, PollSignal, PollStore, PollPuback, PollPubcomp,
       Completed, PollPubrec, PollPubrel, PollRelease, PollResponse,
       PollFanout, PollPingresp, Panic, wireVars
  <2>5. QED
    BY <2>1, <2>2, <2>3, <2>4 DEF Step
<1>2. /\ connMutex \in {NoOne, g}
      /\ \E p \in {"idle", "poll_fanout"} : pc' = [pc EXCEPT ![g] = p]
  BY <1>1 DEF ConnectAck, ConnectReturn, DisconnectSend, PollLock,
     PollDisconnect, PollReturn, ConnFree, Done, Goto, At, LockInv,
     LockOwners, HoldsConn, HoldsBoth, PollHolds
<1>3. QED
  BY <1>2, CallTyped, ConstantsAssumption DEF LockInv, LockOwners, HoldsConn,
     PollHolds, OpenPoints

LEMMA CallsUnsubscribe ==
  ASSUME TypeOK, NEW g \in Goroutines, Call(g) \/ Step(g),
         NEW h \in Goroutines, pc'[h] = "unsub_lock"
  PROVE  pc[h] = "unsub_lock" \/ "Unsubscribe" \in May[h]
<1>1. CASE PollPuback(g) \/ PollPubcomp(g)
  <2>1. PICK p \in {"idle", "poll_fanout"}, w \in Parked \cup {NoOne} :
          pc' = [q \in Goroutines |-> IF q = g THEN p
                                      ELSE IF q = w THEN "pub_relock" ELSE pc[q]]
    BY <1>1 DEF PollPuback, PollPubcomp, Completed, GotoReleasing, Released
  <2>2. QED
    BY <2>1
<1>2. CASE Call(g)
  BY <1>2, CallTyped DEF Call, ConnectCall, DisconnectCall, KeepAliveCall,
     PublishCall, PollCall, SubscribeCall, UnsubscribeCall, Begin, Goto
<1>3. CASE \/ ConnectStep(g) \/ DisconnectStep(g) \/ KeepAliveStep(g)
           \/ PublishStep(g)
  BY <1>3, CallTyped DEF ConnectStep, DisconnectStep, KeepAliveStep,
     ConnectLock, ConnectSend, ConnectFail, ConnectAck, ConnectReturn,
     DisconnectLock, DisconnectSend, KeepAliveLock, KeepAliveSend,
     PublishStep, PublishLock, PublishStore, PublishQuota, PublishPark,
     PublishRelock, PublishSend, PublishCount, Done, Goto
<1>4. CASE PollRead(g)
  BY <1>4, CallTyped DEF PollRead, Handler, PollReturn, Done, Goto
<1>5. CASE PollStep(g)
  BY <1>1, <1>4, <1>5, CallTyped DEF PollStep, PollLock, PollNothing,
     PollPublish, DisconnectWithReason, PollAck, PollCredit, PollRoute,
     PollSignal, PollStore, PollPubrec, PollPubrel, PollRelease,
     PollResponse, PollFanout, PollPingresp, PollDisconnect,
     Panic, PollReturn, Done, Goto, callVars
<1>6. CASE SubscribeStep(g) \/ UnsubscribeStep(g)
  BY <1>6, CallTyped DEF SubscribeStep, UnsubscribeStep, SubscribeLock,
     SubscribeSend, SubscribeAnswer, SubscribeBind, SubscribeUnregister,
     SubscribeClose, ResponseDelete, UnsubscribeSend, UnsubscribeAnswer,
     UnsubscribeFind, UnsubscribeClose, UnsubscribeRemove,
     UnsubscribeUnlock, ReturnSubscribe, Panic, Done, Goto, callVars
<1>7. QED
  BY <1>2, <1>3, <1>5, <1>6 DEF Step

-----------------------------------------------------------------------------
(* c.mutex *)

LEMMA MutexSteps ==
  ASSUME TypeOK, LockInv, HandlersOpen, MutexReleased, NEW g \in Goroutines,
         Call(g) \/ Step(g),
         pc[g] \in AckPoints \cup {"poll_pubrel"} => Stored(arg[g].id)
  PROVE  MutexReleased'
<1>1. NoOne \notin Goroutines
  BY ConstantsAssumption
<1>2. CASE PollPuback(g) \/ PollPubcomp(g)
  <2>1. PICK p \in {"idle", "poll_fanout"}, w \in Parked \cup {NoOne} :
          pc' = [q \in Goroutines |-> IF q = g THEN p
                                      ELSE IF q = w THEN "pub_relock" ELSE pc[q]]
    BY <1>2 DEF PollPuback, PollPubcomp, Completed, GotoReleasing, Released
  <2>2. mutex' = NoOne
    BY <1>2 DEF PollPuback, PollPubcomp, Completed, DropFails, MutexFree, At,
       AckPoints
  <2>3. QED
    BY <1>1, <2>2 DEF MutexReleased
<1>3. CASE Call(g)
  BY <1>3, CallTyped DEF Call, ConnectCall, DisconnectCall, KeepAliveCall,
     PublishCall, PollCall, SubscribeCall, UnsubscribeCall, Begin, Goto, At,
     lockVars, MutexReleased, HoldsMutex, HoldsBoth
<1>4. CASE ConnectStep(g) \/ DisconnectStep(g) \/ KeepAliveStep(g)
  BY <1>1, <1>4, CallTyped DEF ConnectStep, DisconnectStep, KeepAliveStep,
     ConnectLock, ConnectSend, ConnectFail, ConnectAck, ConnectReturn,
     DisconnectLock, DisconnectSend, KeepAliveLock, KeepAliveSend, Done, Goto,
     At, lockVars, MutexReleased, HoldsMutex, HoldsBoth
<1>5. CASE PublishStep(g)
  BY <1>5, CallTyped DEF PublishStep, PublishLock, PublishStore,
     PublishQuota, PublishPark, PublishRelock, PublishSend, PublishCount,
     Done, Goto, At, lockVars, MutexReleased, HoldsMutex, HoldsBoth
<1>6. CASE PollStep(g)
  <2>1. CASE PollPubrec(g) \/ PollPubrel(g)
    <3>1. mutex' = NoOne
      BY <2>1 DEF PollPubrec, PollPubrel, DropFails, MutexFree, At, AckPoints,
         HandlersOpen, OpenPoints, PollHolds
    <3>2. QED
      BY <1>1, <3>1 DEF MutexReleased
  <2>2. CASE PollPublish(g)
    BY <2>2, CallTyped DEF PollPublish, DisconnectWithReason, PollReturn,
       Done, Goto, At, MutexReleased, HoldsMutex, HoldsBoth
  <2>3. QED
    BY <1>2, <1>6, <2>1, <2>2, CallTyped DEF PollStep, PollLock, PollNothing,
       PollRead, PollAck, PollCredit, PollRoute, PollSignal, PollStore,
       PollRelease, PollResponse, PollFanout, PollPingresp, PollDisconnect, Panic, PollReturn, Done, Goto, At, callVars, lockVars,
       MutexReleased, HoldsMutex, HoldsBoth
<1>7. CASE SubscribeStep(g) \/ UnsubscribeStep(g)
  <2>1. ~ UnsubscribeSend(g)
    BY DEF UnsubscribeSend, At, HandlersOpen
  <2>2. QED
    BY <1>1, <1>7, <2>1, CallTyped DEF SubscribeStep, UnsubscribeStep,
       SubscribeLock, SubscribeSend, SubscribeAnswer, SubscribeBind,
       SubscribeUnregister, SubscribeClose, ResponseDelete,
       UnsubscribeAnswer, UnsubscribeFind, UnsubscribeClose, UnsubscribeRemove,
       UnsubscribeUnlock, ReturnSubscribe, Panic, Done, Goto, At, callVars,
       lockVars, MutexReleased, HoldsMutex, HoldsBoth
<1>8. QED
  BY <1>3, <1>4, <1>5, <1>6, <1>7 DEF Step

LEMMA OpenInv ==
  ASSUME TypeOK, LockInv, HandlersOpen, NEW g \in Goroutines,
         Call(g) \/ Step(g),
         \A h \in Goroutines : "Unsubscribe" \notin May[h]
  PROVE  HandlersOpen'
<1>1. ASSUME NEW h \in Goroutines, pc'[h] \in OpenPoints
      PROVE  conn' = "open"
  <2>1. conn = "open"
    BY <1>1, OpenSteps
  <2>2. QED
    BY <1>1, <2>1, ClosingSteps
<1>2. ASSUME NEW h \in Goroutines, pc'[h] = "unsub_lock"
      PROVE  FALSE
  BY <1>2, CallsUnsubscribe DEF HandlersOpen
<1>3. QED
  BY <1>1, <1>2 DEF HandlersOpen

-----------------------------------------------------------------------------
(* The session *)

LEMMA GoroutineFresh ==
  ASSUME TypeOK, FreshSession, NEW g \in Goroutines, Call(g) \/ Step(g),
         UNCHANGED brokerVars
  PROVE  FreshSession'
<1>1. Starting' => Starting
  BY GoroutineWrites, GoroutineReads DEF Starting, brokerVars
<1>2. QED
  BY <1>1 DEF FreshSession, brokerVars

LEMMA BrokerFresh ==
  ASSUME TypeOK, ConformingBroker, ReceiveInv, FreshSession, BrokerStep
  PROVE  FreshSession'
<1>1. StartInv /\ "CONNACK" \notin Unprompted /\ losses' = losses
  BY BrokerTakesOne DEF ReceiveInv, IncomingInv, ConformingBroker
<1>2. Starting' => Starting
  BY <1>1, BrokerStart
<1>3. redo' = {}
  <2>1. CASE TakeConnect /\ ~ session
    <3>1. Starting
      BY <2>1 DEF TakeConnect, Takes, Starting
    <3>2. QED
      BY <2>1, <3>1 DEF TakeConnect, FreshSession
  <2>2. QED
    BY <2>1 DEF BrokerStep, BrokerTakes, TakeConnect, TakePublish,
       TakePubrel, TakePuback, TakePubrec, TakePubcomp, TakePingreq,
       TakeDisconnect, TakeSubscribe, TakeUnsubscribe, BrokerPublish,
       BrokerResend, BrokerUnprompted, FreshSession
<1>4. ASSUME Starting'
      PROVE  \A id \in BrokerIds : brokerOut'[id] = "free"
  <2>1. Starting /\ brokerOut \in [BrokerIds -> Deliveries]
    BY <1>2, <1>4 DEF TypeOK, BrokerType
  <2>2. CASE TakePuback \/ TakePubcomp
    <3>1. PICK j : brokerOut' = [brokerOut EXCEPT ![j] = "free"]
      BY <2>2 DEF TakePuback, TakePubcomp
    <3>2. QED
      BY <2>1, <3>1 DEF FreshSession
  <2>3. CASE TakePubrec
    <3>1. PICK p : p = Head(toServer)
      OBVIOUS
    <3>2. toServer # <<>> /\ p.type = "PUBREC"
      BY <2>3, <3>1 DEF TakePubrec, Takes
    <3>3. p \in Packets /\ p \notin Strays
      BY <3>1, <3>2, WireTyped, QueueTail DEF ReceiveInv
    <3>4. p.id \in BrokerIds
      BY <3>2, <3>3 DEF Strays
    <3>5. NoneOf(toServer, Acks(p.id))
      BY <2>1, <3>4 DEF ReceiveInv, IncomingInv, Way, NoneReplied
    <3>6. p \notin Acks(p.id)
      BY <3>1, <3>2, <3>5, WireTyped, QueueTail
    <3>7. QED
      BY <3>2, <3>3, <3>6 DEF Acks
  <2>4. ~ BrokerPublish
    BY <1>4, <2>1 DEF Starting, BrokerPublish, Sends
  <2>5. QED
    BY <2>1, <2>2, <2>3, <2>4 DEF BrokerStep, BrokerTakes, TakeConnect,
       TakePublish, TakePubrel, TakePingreq, TakeDisconnect, TakeSubscribe,
       TakeUnsubscribe, BrokerResend, BrokerUnprompted, FreshSession
<1>5. QED
  BY <1>1, <1>3, <1>4 DEF FreshSession

-----------------------------------------------------------------------------
(* What Poll keeps until the PUBREL comes *)

LEMMA OthersStay ==
  ASSUME TypeOK, LockInv, NEW g \in Goroutines, Call(g) \/ Step(g),
         NEW h \in Goroutines, h # g, pc[h] \in PollHolds
  PROVE  pc'[h] = pc[h] /\ arg'[h] = arg[h]
<1>1. pc[g] \notin PollHolds
  BY HandlerAlone
<1>2. CASE Call(g) \/ PublishStep(g)
  BY <1>2, CallTyped DEF Call, ConnectCall, DisconnectCall, KeepAliveCall,
     PublishCall, PollCall, SubscribeCall, UnsubscribeCall, Begin,
     PublishStep, PublishLock, PublishStore, PublishQuota, PublishPark,
     PublishRelock, PublishSend, PublishCount, Done, Goto
<1>3. CASE ConnectStep(g) \/ DisconnectStep(g) \/ KeepAliveStep(g)
  BY <1>3, CallTyped DEF ConnectStep, DisconnectStep, KeepAliveStep,
     ConnectLock, ConnectSend, ConnectFail, ConnectAck, ConnectReturn,
     DisconnectLock, DisconnectSend, KeepAliveLock, KeepAliveSend, Done, Goto
<1>4. CASE PollStep(g)
  <2>1. PollLock(g)
    BY <1>1, <1>4 DEF PollStep, PollNothing, PollRead, PollPublish, PollAck,
       PollCredit, PollRoute, PollSignal, PollStore, PollPuback, PollPubcomp,
       PollPubrec, PollPubrel, PollRelease, PollResponse, PollFanout,
       PollPingresp, PollDisconnect, At, PollHolds
  <2>2. QED
    BY <2>1, CallTyped DEF PollLock, Done, Goto
<1>5. CASE SubscribeStep(g) \/ UnsubscribeStep(g)
  BY <1>5, CallTyped DEF SubscribeStep, UnsubscribeStep, SubscribeLock,
     SubscribeSend, SubscribeAnswer, SubscribeBind, SubscribeUnregister,
     SubscribeClose, ResponseDelete, UnsubscribeSend, UnsubscribeAnswer,
     UnsubscribeFind, UnsubscribeClose, UnsubscribeRemove,
     UnsubscribeUnlock, ReturnSubscribe, Panic, Done, Goto, callVars
<1>6. QED
  BY <1>2, <1>3, <1>4, <1>5 DEF Step

LEMMA KeepingSteps ==
  ASSUME NEW g \in Goroutines, Call(g) \/ Step(g), pc[g] \in After
  PROVE  PollRoute(g) \/ PollSignal(g) \/ PollStore(g)
<1>1. ~ Call(g) /\ ~ PublishStep(g)
  BY DEF Call, ConnectCall, DisconnectCall, KeepAliveCall, PublishCall,
     PollCall, SubscribeCall, UnsubscribeCall, Begin, At, PublishStep,
     PublishLock, PublishStore, PublishQuota, PublishPark, PublishRelock,
     PublishSend, PublishCount, After
<1>2. ~ ConnectStep(g) /\ ~ DisconnectStep(g) /\ ~ KeepAliveStep(g)
  BY DEF ConnectStep, DisconnectStep, KeepAliveStep, ConnectLock,
     ConnectSend, ConnectFail, ConnectAck, DisconnectLock, DisconnectSend,
     KeepAliveLock, KeepAliveSend, At, After
<1>3. ~ SubscribeStep(g) /\ ~ UnsubscribeStep(g)
  BY DEF SubscribeStep, UnsubscribeStep, SubscribeLock, SubscribeSend,
     SubscribeAnswer, SubscribeBind, SubscribeUnregister, SubscribeClose,
     ResponseDelete, UnsubscribeSend, UnsubscribeAnswer, UnsubscribeFind,
     UnsubscribeClose, UnsubscribeRemove, UnsubscribeUnlock, At, After
<1>4. QED
  BY <1>1, <1>2, <1>3 DEF Step, PollStep, PollLock, PollNothing, PollRead,
     PollPublish, PollAck, PollCredit, PollPuback, PollPubcomp, PollPubrec,
     PollPubrel, PollRelease, PollResponse, PollFanout, PollPingresp,
     PollDisconnect, At, After

LEMMA KeepingStays ==
  ASSUME TypeOK, LockInv, HasStorage, IncomingArgs, NEW g \in Goroutines,
         Call(g) \/ Step(g), NEW id \in BrokerIds,
         NEW h \in Goroutines, Keeping(h, id)
  PROVE  Keeping(h, id)' \/ Stored(id)'
<1>1. pc[h] \in After /\ arg[h].id = id /\ pc[h] \in PollHolds
  BY DEF Keeping, After, PollHolds
<1>2. CASE h # g
  BY <1>1, <1>2, OthersStay DEF Keeping
<1>3. CASE h = g
  <2>1. CASE PollRoute(g) \/ PollSignal(g)
    BY <1>1, <1>3, <2>1, CallTyped DEF PollRoute, PollSignal, Panic, Goto,
       callVars, Keeping, After
  <2>2. CASE PollStore(g)
    <3>1. arg[g].qos > 0 /\ arg[g].id = id
      <4>1. arg[g].qos # 0 /\ arg[g].qos \in 0..2
        BY <1>1, <1>3, CallTyped DEF IncomingArgs
      <4>2. QED
        BY <1>1, <1>3, <4>1
    <3>2. storage \in [Ids -> Kept] /\ id \in Ids
      BY DEF TypeOK, ClientType, StoreType, Ids
    <3>3. storage' = IF storage[id] = "none"
                     THEN [storage EXCEPT ![id] = "PUBREC"] ELSE storage
      BY <2>2, <3>1 DEF PollStore, Stored
    <3>4. QED
      BY <3>2, <3>3 DEF Stored
  <2>3. QED
    BY <1>1, <1>3, <2>1, <2>2, KeepingSteps
<1>4. QED
  BY <1>2, <1>3

(* Only the acknowledgement of a message brings its PUBREL nearer. *)
LEMMA UnreleasedSteps ==
  ASSUME TypeOK, IncomingArgs, NEW g \in Goroutines, Call(g) \/ Step(g),
         NEW id \in BrokerIds, Unreleased(id)
  PROVE  Unreleased(id)' \/ Keeping(g, id)'
<1>1. NoneOf(toClient', Rels(id))
  BY GoroutineReads, WireTyped, QueueTail, QueueEmpty DEF Unreleased
<1>2. NoneOf(toServer', Recs(id)) \/ Keeping(g, id)'
  <2>1. CASE PollAck(g) /\ arg[g].id = id /\ toServer' # toServer
    <3>1. toServer' = Append(toServer, Packet("PUBACK", id)) \/ Keeping(g, id)'
      BY <2>1, CallTyped DEF PollAck, PollReturn, Write, Goto, Keeping, After
    <3>2. Packet("PUBACK", id) \in Packets
      BY PacketTyped DEF PacketTypes, Ids
    <3>3. Packet("PUBACK", id) \notin Recs(id)
      BY DEF Recs, Packet
    <3>4. QED
      BY <3>1, <3>2, <3>3, WireTyped, QueueAppend DEF Unreleased
  <2>2. CASE ~ (PollAck(g) /\ arg[g].id = id) /\ toServer' # toServer
    <3>1. pc[g] = "poll_ack" => PollAck(g)
      BY AtHandler DEF PollRelease, PollPubrel, At
    <3>2. pc[g] = "pub_send" => arg[g].type = "PUBLISH"
      BY DEF IncomingArgs, PublishPoints, Preparations
    <3>3. \A p \in Packets : Writes(g, p) => p \notin Recs(id)
      BY <2>2, <3>1, <3>2 DEF Writes, Recs, Packet
    <3>4. QED
      BY <3>3, GoroutineWrites, WireTyped, QueueAppend DEF Unreleased
  <2>3. QED
    BY <2>1, <2>2 DEF Unreleased
<1>3. ASSUME NEW h \in Goroutines, ToRelease(h, id)'
      PROVE  FALSE
  <2>1. CASE PollRead(g)
    <3>1. PICK p : p = Head(toClient)
      OBVIOUS
    <3>2. p \in Packets /\ p \notin Rels(id)
      BY <2>1, <3>1, WireTyped, QueueTail DEF PollRead, Unreleased
    <3>3. /\ \A k \in Goroutines \ {g} : arg'[k] = arg[k] /\ pc'[k] = pc[k]
          /\ \/ pc'[g] = "idle"
             \/ /\ p.type \in DOMAIN Handler
                /\ arg'[g] = p /\ pc'[g] = Handler[p.type]
      BY <2>1, <3>1, CallTyped DEF PollRead, PollReturn, Done, Goto
    <3>4. h = g /\ p.type \in DOMAIN Handler /\ arg'[g] = p
          /\ Handler[p.type] = "poll_pubrel"
      BY <1>3, <3>3 DEF ToRelease, Unreleased
    <3>5. p.type = "PUBREL"
      BY <3>4 DEF Handler
    <3>6. QED
      BY <1>3, <3>2, <3>4, <3>5 DEF ToRelease, Rels
  <2>2. CASE PollPublish(g) \/ PollAck(g) \/ PollCredit(g) \/ PollRelease(g)
    BY <1>3, <2>2, CallTyped DEF PollPublish, PollAck, PollCredit,
       PollRelease, DisconnectWithReason, PollReturn, Done, Goto, ToRelease,
       Unreleased
  <2>3. CASE ~ Handles(g)
    BY <1>3, <2>3, GoroutineQuiet DEF QuietCalls, ReadPoints, ToRelease,
       Unreleased
  <2>4. QED
    BY <2>1, <2>2, <2>3 DEF Handles
<1>4. QED
  BY <1>1, <1>2, <1>3 DEF Unreleased

LEMMA GoroutineRelease ==
  ASSUME TypeOK, LockInv, SeparateIds, HasStorage, OwnAcks, IncomingInv,
         ReleaseInv, NEW g \in Goroutines, Call(g) \/ Step(g)
  PROVE  ReleaseInv'
<1> SUFFICES ASSUME NEW id \in BrokerIds
             PROVE  Unreleased(id)' \/ Prepared(id)'
  BY DEF ReleaseInv
<1>1. Unreleased(id) \/ Prepared(id)
  BY DEF ReleaseInv
<1>2. CASE PollPubrel(g) /\ arg[g].id = id
  <2>1. pc[g] = "poll_pubrel" /\ pc[g] \in PollHolds
    BY <1>2 DEF PollPubrel, At, PollHolds
  <2>2. NoneSent(id) /\ NoneReplied(id)
    BY <1>2, <2>1 DEF IncomingInv, Way, OneWay, Unserved, Serving, ReadPoints
  <2>3. NoneOf(toClient, Rels(id)) /\ NoneOf(toServer, Recs(id))
    BY <2>2 DEF NoneSent, NoneReplied, NoneOf, Requests, Acks, Rels, Recs
  <2>4. /\ UNCHANGED <<toClient, toServer>> /\ pc'[g] # "poll_pubrel"
        /\ \A h \in Goroutines \ {g} : pc'[h] = pc[h]
    BY <1>2, CallTyped DEF PollPubrel, PollReturn, Done, Goto, wireVars
  <2>5. \A h \in Goroutines : pc'[h] # "poll_pubrel"
    BY <2>1, <2>4, HandlerAlone DEF PollHolds
  <2>6. QED
    BY <2>3, <2>4, <2>5 DEF Unreleased, ToRelease
<1>3. CASE ~ (PollPubrel(g) /\ arg[g].id = id)
  <2>1. CASE Stored(id)
    <3>1. pc[g] \in {"poll_puback", "poll_pubcomp"} => arg[g].id # id
      BY DEF OwnAcks, AckPoints, SeparateIds
    <3>2. pc[g] = "poll_pubrel" => arg[g].id # id
      BY <1>3, AtHandler DEF PollAck, PollRelease, At
    <3>3. Stored(id)'
      BY <2>1, <3>1, <3>2, StorageSteps DEF Stored
    <3>4. QED
      BY <3>3 DEF Prepared
  <2>2. ASSUME NEW h \in Goroutines, Keeping(h, id)
        PROVE  Prepared(id)'
    BY <2>2, KeepingStays DEF IncomingInv, Prepared
  <2>3. CASE Unreleased(id)
    BY <2>3, UnreleasedSteps DEF IncomingInv, Prepared
  <2>4. QED
    BY <1>1, <2>1, <2>2, <2>3 DEF Prepared
<1>4. QED
  BY <1>2, <1>3

(* The broker answers a PUBREC with PUBREL, and nothing else. *)
LEMMA BrokerRelease ==
  ASSUME TypeOK, ConformingBroker, FreshSession, ReleaseInv, BrokerStep
  PROVE  ReleaseInv'
<1>1. UNCHANGED <<pc, arg, storage>>
  BY BrokerTakesOne DEF callVars, storeVars
<1>2. ASSUME NEW id \in BrokerIds, Unreleased(id)
      PROVE  Unreleased(id)'
  <2>1. NoneOf(toServer', Recs(id))
    BY <1>2, BrokerTakesOne, WireTyped, QueueTail DEF Unreleased
  <2>2. ASSUME NEW p \in Packets, Says(p), p \in Rels(id)
        PROVE  FALSE
    <3>1. CASE TakePubrec /\ p = Packet("PUBREL", Head(toServer).id)
      <4>1. PICK q : q = Head(toServer)
        OBVIOUS
      <4>2. toServer # <<>> /\ q.type = "PUBREC" /\ q.id = id
        BY <2>2, <3>1, <4>1 DEF TakePubrec, Takes, Rels, Packet
      <4>3. q \in Packets /\ q \notin Recs(id)
        BY <1>2, <4>1, <4>2, WireTyped, QueueTail DEF Unreleased
      <4>4. QED
        BY <4>2, <4>3 DEF Recs
    <3>2. CASE \E t \in Unprompted : p = Packet(t, 0)
      BY <2>2, <3>2 DEF ConformingBroker, Rels, Packet
    <3>3. p.id \notin redo /\ p.type = "PUBREL"
      BY <2>2 DEF FreshSession, Rels
    <3>4. QED
      BY <2>2, <3>1, <3>2, <3>3 DEF Says
  <2>3. NoneOf(toClient', Rels(id))
    BY <1>2, <2>2, BrokerSays, WireTyped, QueueAppend DEF Unreleased
  <2>4. QED
    BY <1>1, <1>2, <2>1, <2>3 DEF Unreleased, ToRelease
<1>3. \A id \in BrokerIds : Prepared(id) => Prepared(id)'
  BY <1>1 DEF Prepared, Stored, Keeping
<1>4. QED
  BY <1>2, <1>3 DEF ReleaseInv

-----------------------------------------------------------------------------
LEMMA GoroutineUnbroken ==
  ASSUME TypeOK, LockInv, Unbroken, UnbrokenInv, NEW g \in Goroutines,
         Call(g) \/ Step(g), UNCHANGED brokerVars
  PROVE  OutgoingInv' /\ OwnAcks' /\ HandlersOpen' /\ FreshSession'
         /\ ReleaseInv' /\ MutexReleased'
<1>1. /\ OutgoingInv /\ OwnAcks /\ ReceiveInv /\ HandlersOpen
      /\ FreshSession /\ ReleaseInv /\ MutexReleased /\ IncomingInv
      /\ SeparateIds /\ HasStorage
      /\ \A h \in Goroutines : "Unsubscribe" \notin May[h]
  BY DEF Unbroken, UnbrokenInv, ReceiveInv
<1>2. OutgoingInv' /\ OwnAcks'
  BY <1>1, GoroutineOutgoing, GoroutineOwnAcks
<1>3. HandlersOpen' /\ FreshSession' /\ ReleaseInv'
  BY <1>1, OpenInv, GoroutineFresh, GoroutineRelease
<1>4. pc[g] \in AckPoints => Stored(arg[g].id)
  BY <1>1, HandlingAlone DEF OwnAcks
<1>5. pc[g] = "poll_pubrel" => Stored(arg[g].id)
  <2> SUFFICES ASSUME pc[g] = "poll_pubrel"
               PROVE  Stored(arg[g].id)
    OBVIOUS
  <2>1. arg[g].id \in BrokerIds
    BY <1>1 DEF IncomingInv, IncomingArgs, ReadPoints
  <2>2. ~ Unreleased(arg[g].id)
    BY DEF Unreleased, ToRelease
  <2>3. \A h \in Goroutines : ~ Keeping(h, arg[g].id)
    BY HandlerAlone DEF Keeping, After, PollHolds
  <2>4. QED
    BY <1>1, <2>1, <2>2, <2>3 DEF ReleaseInv, Prepared
<1>6. MutexReleased'
  BY <1>1, <1>4, <1>5, MutexSteps
<1>7. QED
  BY <1>2, <1>3, <1>6

LEMMA WorldUnbroken ==
  ASSUME TypeOK, LockInv, Unbroken, UnbrokenInv,
         \/ BrokerStep
         \/ ConnLost \/ PingDeadlinePasses \/ Restart \/ UNCHANGED vars
         \/ (\E c \in Channels : Application(c)) /\ UNCHANGED brokerVars
  PROVE  OutgoingInv' /\ OwnAcks' /\ HandlersOpen' /\ FreshSession'
         /\ ReleaseInv' /\ MutexReleased'
<1>1. /\ OutgoingInv /\ OwnAcks /\ ReceiveInv /\ HandlersOpen
      /\ FreshSession /\ ReleaseInv /\ MutexReleased /\ IncomingInv
      /\ SeparateIds /\ ConformingBroker /\ NoStrayAcks /\ losses = 0
  BY DEF Unbroken, UnbrokenInv, ReceiveInv, FreshSession
<1>2. ~ ConnLost /\ ~ Restart
  BY <1>1 DEF ConnLost, Restart
<1>3. OutgoingInv' /\ OwnAcks'
  BY <1>1, <1>2, WorldOutgoing, BrokerOwn, WorldOwn
<1>4. CASE BrokerStep
  <2>1. FreshSession' /\ ReleaseInv'
    BY <1>1, <1>4, BrokerFresh, BrokerRelease
  <2>2. UNCHANGED <<pc, conn, mutex>>
    BY <1>4, BrokerTakesOne DEF callVars, lockVars
  <2>3. QED
    BY <1>1, <1>3, <2>1, <2>2 DEF HandlersOpen, MutexReleased
<1>5. CASE ~ BrokerStep
  <2>1. UNCHANGED <<pc, arg, conn, mutex, toServer, toClient, storage,
                    brokerVars>>
    BY <1>2, <1>5 DEF PingDeadlinePasses, vars, clientVars, callVars,
       lockVars, wireVars, storeVars, Application, CreateEventChannel,
       CloseEventChannel, CloseEventChannelEnd, ReceiveEvent
  <2>2. HandlersOpen' /\ MutexReleased'
    BY <1>1, <2>1 DEF HandlersOpen, MutexReleased
  <2>3. FreshSession'
    BY <1>1, <2>1 DEF FreshSession, Starting, brokerVars
  <2>4. ReleaseInv'
    BY <1>1, <2>1 DEF ReleaseInv, Unreleased, ToRelease, Prepared, Stored,
       Keeping
  <2>5. QED
    BY <1>3, <2>2, <2>3, <2>4
<1>6. QED
  BY <1>4, <1>5

LEMMA InitUnbroken == Init /\ Unbroken => UnbrokenInv
<1> SUFFICES ASSUME Init, Unbroken
             PROVE  UnbrokenInv
  OBVIOUS
<1>1. OutgoingInv /\ OwnAcks /\ ReceiveInv
  BY InitOutgoing, InitOwn, InitReceive DEF Unbroken
<1>2. HandlersOpen /\ FreshSession
  BY DEF Init, Unbroken, HandlersOpen, FreshSession
<1>3. ReleaseInv
  BY QueueEmpty DEF Init, ReleaseInv, Unreleased, ToRelease
<1>4. MutexReleased
  BY ConstantsAssumption DEF Init, MutexReleased
<1>5. QED
  BY <1>1, <1>2, <1>3, <1>4 DEF UnbrokenInv

LEMMA UnbrokenInductive == Spec => [](Unbroken => UnbrokenInv)
<1>1. Init => (Unbroken => UnbrokenInv)
  BY InitUnbroken
<1>2. ASSUME TypeOK, LockInv, Unbroken, UnbrokenInv, ReceiveInv',
             [Next]_vars
      PROVE  UnbrokenInv'
  BY <1>2, GoroutineUnbroken, WorldUnbroken DEF Next, UnbrokenInv
<1>3. /\ TypeOK /\ LockInv
      /\ (ConformingBroker => ReceiveInv) /\ (ConformingBroker => ReceiveInv)'
      /\ (Unbroken => UnbrokenInv) /\ [Next]_vars
      => (Unbroken => UnbrokenInv)'
  BY <1>2 DEF Unbroken, ConformingBroker, NoStrayAcks, SeparateIds
<1>4. QED
  BY <1>1, <1>3, ReceiveInductive, PTL DEF Spec

(* Poll returns with c.mutex unlocked.  Its handlers of PUBACK, PUBREC,    *)
(* PUBREL and PUBCOMP return without the unlock when the storage has       *)
(* nothing under the identifier, or when PUBREL cannot be written: on a    *)
(* connection that is not lost, with a broker that follows the protocol,   *)
(* neither happens, however the calls of several goroutines interleave.    *)
(* Unsubscribe, which returns its errors the same way, is not called.      *)
THEOREM MutexUnlocked == Spec => [](Unbroken => MutexReleased)
<1>1. UnbrokenInv => MutexReleased
  BY DEF UnbrokenInv
<1>2. QED
  BY <1>1, UnbrokenInductive, PTL
=============================================================================
