--------------------------- MODULE Events_proofs ---------------------------
(***************************************************************************)
(* Proofs about the event channels of Client, for every number of          *)
(* goroutines, channels and filters: a channel that Subscribe has bound    *)
(* gets the messages of its own filter only, and, for a careful            *)
(* application, no binding outlives its channel.  The last part is about   *)
(* the responses that Subscribe and Unsubscribe wait for, and the ways to  *)
(* a panic.                                                                *)
(***************************************************************************)
EXTENDS Incoming_proofs

LEMMA NobodyApart == NoOne \notin Goroutines
BY ConstantsAssumption

LEMMA ChannelsApart ==
  NoChannel \notin Channels /\ Unbound \notin EventChannels
BY ConstantsAssumption DEF EventChannels

-----------------------------------------------------------------------------
(* The inductive invariant *)

(* A channel that is general, bound to a filter or looked up by Poll was   *)
(* created.                                                                *)
Created ==
  /\ \A c \in eventChans : chanState[c] # "new"
  /\ \A f \in Filters :
       topicChans[f] \in Channels => chanState[topicChans[f]] # "new"
  /\ target \in Channels => chanState[target] # "new"

(* g has bound channel c to filter f and is about to take c from the       *)
(* general ones.                                                           *)
Binding(g, f, c) == At(g, "sub_unreg") /\ Head(topics[g]) = <<f, c>>

(* There is a topic that Subscribe has bound. *)
Unregistering ==
  \A g \in Goroutines : At(g, "sub_unreg") => topics[g] # <<>>

(* A channel is bound and general only while Subscribe, under c.mutex, is  *)
(* between its two writes.                                                 *)
BoundNotGeneral ==
  \A f \in Filters, c \in eventChans :
    topicChans[f] = c => \E g \in Goroutines : Binding(g, f, c)

(* No channel is bound to two filters, whatever the application passes to  *)
(* Subscribe: the second time it is no longer a general one.               *)
BoundOnce ==
  \A e, f \in Filters :
    topicChans[e] \in Channels /\ topicChans[e] = topicChans[f] => e = f

(* The channel that Poll is about to signal is bound, if at all, to a      *)
(* filter that the message matches; and it is general only as above.       *)
TargetMatches ==
  \A g \in Goroutines : At(g, "poll_signal") /\ target \in Channels =>
    /\ \A f \in Filters : topicChans[f] = target => f \in arg[g].filters
    /\ target \in eventChans =>
         \E h \in Goroutines, f \in Filters : Binding(h, f, target)

ChannelInv ==
  Created /\ Unregistering /\ BoundNotGeneral /\ BoundOnce /\ TargetMatches

-----------------------------------------------------------------------------
(* What a careful application adds *)

(* A general channel is open, but for one that is being closed. *)
GeneralOpen ==
  \A c \in eventChans : chanState[c] = "open" \/ closing[c] = "closing"

(* A call of Subscribe has general channels before it, that nobody has     *)
(* begun to close, ...                                                     *)
Unclosed == {c \in eventChans : closing[c] = "never"}
ListedGeneral ==
  \A g \in Goroutines : pc[g] \in InSubscribe =>
    \A k \in DOMAIN topics[g] :
      ChannelOf(topics[g][k]) \in Unclosed \cup {NoChannel}

(* ... each once, and in no other call. *)
ListedOnce ==
  \A g, h \in Goroutines :
    pc[g] \in InSubscribe /\ pc[h] \in InSubscribe =>
      \A j \in DOMAIN topics[g], k \in DOMAIN topics[h] :
        ChannelOf(topics[g][j]) = ChannelOf(topics[h][k]) =>
          ChannelOf(topics[g][j]) = NoChannel \/ (g = h /\ j = k)

(* What Unsubscribe has found is a channel, created and not general. *)
Found == {"unsub_close", "unsub_remove"}
FoundReal ==
  \A g \in Goroutines : pc[g] \in Found =>
    /\ topics[g] # <<>>
    /\ ChannelOf(Head(topics[g])) \in Channels \ eventChans
    /\ chanState[ChannelOf(Head(topics[g]))] # "new"

(* What is bound is a channel, open or about to be removed. *)
BoundReal == \A f \in Bound : topicChans[f] \in Channels
BoundOpen ==
  \A f \in Filters : topicChans[f] \in Channels =>
    chanState[topicChans[f]] = "open" \/ BeingRemoved(topicChans[f])

CarefulParts ==
  /\ GeneralOpen /\ ListedGeneral /\ ListedOnce
  /\ FoundReal /\ BoundReal /\ BoundOpen
CarefulInv == Careful => CarefulParts

-----------------------------------------------------------------------------
(* Steps that have nothing to do with channels.  What an invariant above   *)
(* says of a place in a call is left as it is: Subscribe stays between its *)
(* two writes, Unsubscribe between its close and its deletes, and nobody   *)
(* comes to poll_signal, unsub_close or Subscribe.                         *)

SameChannels ==
  /\ eventChans' = eventChans
  /\ chanState' = chanState
  /\ closing' = closing
  /\ topicChans' = topicChans

StillRouting ==
  /\ SameChannels /\ target' = target
  /\ \A h \in Goroutines :
       /\ pc[h] = "sub_unreg" \/ pc'[h] = "sub_unreg" =>
            pc'[h] = pc[h] /\ topics'[h] = topics[h]
       /\ pc'[h] = "poll_signal" =>
            pc[h] = "poll_signal" /\ arg'[h] = arg[h]

StillListed ==
  /\ SameChannels
  /\ \A h \in Goroutines :
       /\ pc'[h] \in Found => pc[h] \in Found /\ topics'[h] = topics[h]
       /\ pc[h] = "unsub_remove" =>
            pc'[h] = "unsub_remove" /\ topics'[h] = topics[h]
       /\ pc'[h] \in InSubscribe =>
            pc[h] \in InSubscribe /\ topics'[h] = topics[h]

Steady == StillRouting /\ StillListed

LEMMA StillRoutingInv ==
  ASSUME ChannelInv, StillRouting
  PROVE  ChannelInv'
<1>1. Created'
  BY DEF ChannelInv, Created, StillRouting, SameChannels
<1>2. ASSUME NEW g \in Goroutines, NEW f, NEW c, Binding(g, f, c)
      PROVE  Binding(g, f, c)'
  BY <1>2 DEF Binding, At, StillRouting
<1>3. BoundNotGeneral'
  <2>1. SUFFICES ASSUME NEW f \in Filters, NEW c \in eventChans,
                        topicChans[f] = c
                 PROVE  \E g \in Goroutines : Binding(g, f, c)'
    BY DEF BoundNotGeneral, StillRouting, SameChannels
  <2>2. PICK g \in Goroutines : Binding(g, f, c)
    BY <2>1 DEF ChannelInv, BoundNotGeneral
  <2>3. QED
    BY <1>2, <2>2
<1>4. BoundOnce'
  BY DEF ChannelInv, BoundOnce, StillRouting, SameChannels
<1>5. TargetMatches'
  <2>1. SUFFICES ASSUME NEW g \in Goroutines, At(g, "poll_signal")',
                        target \in Channels
                 PROVE  /\ \A f \in Filters :
                             topicChans[f] = target => f \in arg'[g].filters
                        /\ target \in eventChans =>
                             \E h \in Goroutines, f \in Filters :
                               Binding(h, f, target)'
    BY DEF TargetMatches, StillRouting, SameChannels
  <2>2. At(g, "poll_signal") /\ arg'[g] = arg[g]
    BY <2>1 DEF At, StillRouting
  <2>3. \A f \in Filters : topicChans[f] = target => f \in arg'[g].filters
    BY <2>1, <2>2 DEF ChannelInv, TargetMatches
  <2>4. ASSUME target \in eventChans
        PROVE  \E h \in Goroutines, f \in Filters : Binding(h, f, target)'
    <3>1. PICK h \in Goroutines, f \in Filters : Binding(h, f, target)
      BY <2>1, <2>2, <2>4 DEF ChannelInv, TargetMatches
    <3>2. QED
      BY <3>1 DEF Binding, At, StillRouting
  <2>5. QED
    BY <2>3, <2>4
<1>6. Unregistering'
  BY DEF ChannelInv, Unregistering, At, StillRouting
<1>7. QED
  BY <1>1, <1>3, <1>4, <1>5, <1>6 DEF ChannelInv

LEMMA StillListedInv ==
  ASSUME CarefulInv, StillListed
  PROVE  CarefulInv'
<1>1. ListedGeneral => ListedGeneral'
  BY DEF ListedGeneral, Unclosed, StillListed, SameChannels
<1>2. ListedOnce => ListedOnce'
  BY DEF ListedOnce, StillListed
<1>3. FoundReal => FoundReal'
  BY DEF FoundReal, StillListed, SameChannels
<1>4. GeneralOpen => GeneralOpen'
  BY DEF GeneralOpen, StillListed, SameChannels
<1>5. BoundReal => BoundReal'
  BY DEF BoundReal, Bound, StillListed, SameChannels
<1>6. BoundOpen => BoundOpen'
  BY DEF BoundOpen, BeingRemoved, At, StillListed, SameChannels
<1>7. QED
  BY <1>1, <1>2, <1>3, <1>4, <1>5, <1>6 DEF CarefulInv, CarefulParts

LEMMA PublishSteady ==
  ASSUME ClientType, NEW g \in Goroutines, PublishCall(g) \/ PublishStep(g)
  PROVE  Steady
BY DEF PublishCall, PublishStep, PublishLock, PublishStore, PublishQuota,
   PublishPark, PublishRelock, PublishSend, PublishCount, Begin, Done, Goto,
   At, eventVars, chanVars, loopVars, Steady, StillRouting, StillListed,
   SameChannels, Found, InSubscribe, ClientType, CallType

LEMMA SessionSteady ==
  ASSUME ClientType, NEW g \in Goroutines,
         \/ ConnectCall(g) \/ DisconnectCall(g) \/ KeepAliveCall(g)
         \/ ConnectStep(g) \/ DisconnectStep(g) \/ KeepAliveStep(g)
  PROVE  Steady
BY DEF ConnectCall, DisconnectCall, KeepAliveCall, ConnectStep, DisconnectStep,
   KeepAliveStep, ConnectLock, ConnectSend, ConnectFail, ConnectAck,
   ConnectReturn, DisconnectLock, DisconnectSend, KeepAliveLock, KeepAliveSend,
   Begin, Done, Goto, At, Signal, eventVars, chanVars, loopVars, Steady,
   StillRouting, StillListed, SameChannels, Found, InSubscribe, ClientType,
     CallType

(* Poll, but for the look-up of a channel *)
LEMMA PollSteady ==
  ASSUME ClientType, NEW g \in Goroutines, PollCall(g) \/ PollStep(g),
         ~ PollRoute(g)
  PROVE  Steady
<1>1. CASE \/ PollCall(g) \/ PollLock(g) \/ PollNothing(g) \/ PollPublish(g)
           \/ PollAck(g) \/ PollCredit(g)
  BY <1>1 DEF PollCall, PollLock, PollNothing, PollPublish, PollAck,
     PollCredit, DisconnectWithReason, PollReturn, Done, Goto, At, eventVars,
     chanVars, loopVars, Steady, StillRouting, StillListed, SameChannels,
     Found, InSubscribe, ClientType, CallType
<1>2. CASE PollRead(g)
  BY <1>2 DEF PollRead, PollReturn, Handler, Done, Goto, At, eventVars,
     chanVars, loopVars, Steady, StillRouting, StillListed, SameChannels,
     Found, InSubscribe, ClientType, CallType
<1>3. CASE PollSignal(g)
  <2>1. /\ SameChannels /\ UNCHANGED <<arg, target, topics>>
        /\ pc' = pc \/ pc' = [pc EXCEPT ![g] = "poll_route"]
        /\ pc[g] = "poll_signal"
    BY <1>3 DEF PollSignal, Panic, Signal, Goto, At, callVars, chanVars,
       loopVars, SameChannels
  <2>2. QED
    BY <2>1 DEF Steady, StillRouting, StillListed, Found, InSubscribe,
       ClientType, CallType
<1>8. CASE PollStore(g) \/ PollResponse(g)
  BY <1>8 DEF PollStore, PollResponse, Panic, Goto, At, callVars, eventVars,
     chanVars, loopVars, Steady, StillRouting, StillListed, SameChannels,
     Found, InSubscribe, ClientType, CallType
<1>9. CASE PollFanout(g)
  BY <1>9 DEF PollFanout, Signal, PollReturn, Done, Goto, At, loopVars,
     Steady, StillRouting, StillListed, SameChannels, Found, InSubscribe,
     ClientType, CallType
<1>4. CASE PollPuback(g) \/ PollPubcomp(g)
  <2>1. \A h \in Goroutines :
          /\ pc'[h] \in {pc[h], "idle", "poll_fanout", "pub_relock"}
          /\ pc[h] \in {"sub_unreg", "unsub_remove"} => pc'[h] = pc[h]
    BY <1>4, NobodyApart DEF PollPuback, PollPubcomp, Completed,
       GotoReleasing, Released, Parked, At
  <2>2. /\ \A h \in Goroutines : h # g => arg'[h] = arg[h]
        /\ SameChannels /\ UNCHANGED <<target, topics>>
    BY <1>4 DEF PollPuback, PollPubcomp, Completed, ClientType, CallType,
       eventVars, chanVars, loopVars, SameChannels
  <2>3. pc'[g] \in {"idle", "poll_fanout"}
        /\ pc[g] \in {"poll_puback", "poll_pubcomp"}
    BY <1>4 DEF PollPuback, PollPubcomp, Completed, GotoReleasing, At
  <2>4. QED
    BY <2>1, <2>2, <2>3 DEF Steady, StillRouting, StillListed,
       SameChannels, Found, InSubscribe
<1>5. CASE PollPubrec(g) \/ PollPubrel(g) \/ PollRelease(g)
  BY <1>5 DEF PollPubrec, PollPubrel, PollRelease, PollReturn, Signal, Done,
     Goto, At, eventVars, chanVars, loopVars, Steady, StillRouting,
     StillListed, SameChannels, Found, InSubscribe, ClientType, CallType
<1>6. CASE PollPingresp(g) \/ PollDisconnect(g)
  BY <1>6 DEF PollPingresp, PollDisconnect, PollReturn, Signal, Done,
     Goto, At, eventVars, chanVars, loopVars, Steady, StillRouting,
     StillListed, SameChannels, Found, InSubscribe, ClientType, CallType
<1>7. QED
  BY <1>1, <1>2, <1>3, <1>4, <1>5, <1>6, <1>8, <1>9 DEF PollStep

(* Subscribe and Unsubscribe, where they do not go on in their lists *)
LEMMA SubscribeSteady ==
  ASSUME ClientType, NEW g \in Goroutines,
         \/ SubscribeLock(g) \/ SubscribeSend(g) \/ SubscribeAnswer(g)
         \/ SubscribeClose(g) \/ ResponseDelete(g)
         \/ UnsubscribeCall(g) \/ UnsubscribeSend(g) \/ UnsubscribeAnswer(g)
         \/ UnsubscribeUnlock(g)
  PROVE  Steady
<1>1. CASE \/ SubscribeLock(g) \/ SubscribeSend(g) \/ SubscribeAnswer(g)
           \/ SubscribeClose(g) \/ ResponseDelete(g)
  BY <1>1 DEF SubscribeLock, SubscribeSend, SubscribeAnswer, SubscribeClose,
     ResponseDelete, ReturnSubscribe, Panic, Done, Goto, At, callVars,
     eventVars, chanVars, loopVars, Steady, StillRouting, StillListed,
     SameChannels, Found, InSubscribe, ClientType, CallType, EventType, LoopType
<1>2. CASE \/ UnsubscribeCall(g) \/ UnsubscribeSend(g) \/ UnsubscribeAnswer(g)
           \/ UnsubscribeUnlock(g)
  BY <1>2 DEF UnsubscribeCall, UnsubscribeSend, UnsubscribeAnswer,
     UnsubscribeUnlock, ReturnSubscribe, Begin, Done, Goto, At, eventVars,
     chanVars, loopVars, Steady, StillRouting, StillListed, SameChannels,
     Found, InSubscribe, ClientType, CallType, EventType, LoopType
<1>3. QED
  BY <1>1, <1>2

(* The broker, the network and time *)
LEMMA WorldSteady ==
  ASSUME BrokerStep \/ ConnLost \/ PingDeadlinePasses \/ UNCHANGED vars
  PROVE  Steady
<1>1. UNCHANGED <<callVars, eventVars>>
  BY DEF BrokerStep, BrokerTakes, TakeConnect, TakePublish, TakePubrel,
     TakePuback, TakePubrec, TakePubcomp, TakePingreq, TakeDisconnect,
     TakeSubscribe, TakeUnsubscribe, Takes, BrokerPublish, BrokerResend,
     BrokerUnprompted, ConnLost, PingDeadlinePasses, clientOnly, vars,
     clientVars
<1>2. QED
  BY <1>1 DEF callVars, eventVars, chanVars, loopVars, Steady, StillRouting,
     StillListed, SameChannels, Found, InSubscribe

-----------------------------------------------------------------------------
(* The steps that look up, bind, take away or close a channel *)

LEMMA ListTail ==
  ASSUME NEW ts \in Seq(Filters \X EventChannels), ts # <<>>
  PROVE  /\ 1 \in DOMAIN ts /\ Head(ts) = ts[1]
         /\ \A k \in DOMAIN Tail(ts) :
              k + 1 \in DOMAIN ts /\ k + 1 # 1 /\ Tail(ts)[k] = ts[k + 1]
OBVIOUS

(* Only one goroutine is in Poll's handlers, and while somebody holds      *)
(* c.mutex nobody is between the two writes of Subscribe.                  *)
LEMMA PollAlone ==
  ASSUME LockInv, NEW g \in Goroutines, NEW h \in Goroutines,
         pc[g] \in PollHolds, pc[h] \in PollHolds
  PROVE  g = h
BY DEF LockInv, LockOwners, HoldsConn

LEMMA NoBinding ==
  ASSUME LockInv, NEW g \in Goroutines, mutex = NoOne \/ pc[g] = "unsub_find"
  PROVE  \A h \in Goroutines : pc[h] # "sub_unreg"
BY NobodyApart DEF LockInv, LockOwners, HoldsMutex

LEMMA PollRouteEvents ==
  ASSUME TypeOK, LockInv, ChannelInv, CarefulInv, NEW g \in Goroutines,
         PollRoute(g)
  PROVE  ChannelInv' /\ CarefulInv'
<1>1. /\ pc \in [Goroutines -> Points]
      /\ SameChannels /\ UNCHANGED <<topics, arg>>
      /\ pc[g] = "poll_route"
      /\ \/ /\ pc' = [pc EXCEPT ![g] = "poll_signal"]
            /\ \E f \in Bound \cap arg[g].filters : target' = topicChans[f]
         \/ pc' = [pc EXCEPT ![g] = "poll_store"] /\ target' = NoChannel
  BY DEF PollRoute, Unrouted, Goto, At, chanVars, SameChannels, TypeOK,
     ClientType, CallType
<1>2. StillListed
  BY <1>1 DEF StillListed, Found, InSubscribe
<1>3. Created'
  BY <1>1, ChannelsApart DEF ChannelInv, Created, SameChannels, Bound
<1>4. BoundNotGeneral' /\ BoundOnce'
  <2>1. \A h \in Goroutines, f \in Filters, c \in eventChans :
          Binding(h, f, c) => Binding(h, f, c)'
    BY <1>1 DEF Binding, At
  <2>2. QED
    BY <1>1, <2>1 DEF ChannelInv, BoundNotGeneral, BoundOnce, SameChannels
<1>5. TargetMatches'
  <2> SUFFICES ASSUME NEW h \in Goroutines, pc'[h] = "poll_signal",
                      NEW c \in Channels, target' = c
               PROVE  /\ \A f \in Filters :
                           topicChans[f] = c => f \in arg[h].filters
                      /\ c \in eventChans =>
                           \E i \in Goroutines, f \in Filters : Binding(i, f, c)'
    BY <1>1 DEF TargetMatches, At, SameChannels
  <2>1. h = g
    BY <1>1, PollAlone DEF PollHolds
  <2>2. PICK f \in Bound \cap arg[g].filters : c = topicChans[f]
    BY <1>1, <2>1
  <2>3. \A e \in Filters : topicChans[e] = c => e = f
    BY <2>2 DEF ChannelInv, BoundOnce, Bound
  <2>4. c \in eventChans => \E i \in Goroutines : Binding(i, f, c)
    BY <2>2 DEF ChannelInv, BoundNotGeneral, Bound
  <2>5. \A i \in Goroutines : Binding(i, f, c) => Binding(i, f, c)'
    BY <1>1 DEF Binding, At
  <2>6. QED
    BY <2>1, <2>2, <2>3, <2>4, <2>5 DEF Bound
<1>6. Unregistering'
  BY <1>1 DEF ChannelInv, Unregistering, At
<1>7. QED
  BY <1>2, <1>3, <1>4, <1>5, <1>6, StillListedInv DEF ChannelInv

LEMMA SubscribeCallEvents ==
  ASSUME TypeOK, LockInv, ChannelInv, CarefulInv, NEW g \in Goroutines,
         SubscribeCall(g)
  PROVE  ChannelInv' /\ CarefulInv'
<1>1. PICK ts \in TopicLists :
        /\ \A k \in DOMAIN ts : Usable(ChannelOf(ts[k]))
        /\ Careful => Apart(ts)
        /\ pc[g] = "idle" /\ pc' = [pc EXCEPT ![g] = "sub_lock"]
        /\ topics' = [topics EXCEPT ![g] = ts]
        /\ arg' = [arg EXCEPT ![g] = Packet("SUBSCRIBE", 0)]
  BY DEF SubscribeCall, Begin, Goto, At
<1>2. /\ SameChannels /\ UNCHANGED target
      /\ pc \in [Goroutines -> Points] /\ arg \in [Goroutines -> Packets]
      /\ topics \in [Goroutines -> Seq(Filters \X EventChannels)]
  BY DEF SubscribeCall, chanVars, SameChannels, TypeOK, ClientType, CallType,
     EventType, LoopType
<1>3. StillRouting
  BY <1>1, <1>2 DEF StillRouting
<1>4. CarefulInv'
  <2> SUFFICES ASSUME Careful
               PROVE  CarefulParts'
    BY DEF CarefulInv
  <2>1. \A k \in DOMAIN ts : \/ ChannelOf(ts[k]) = NoChannel
                             \/ /\ ChannelOf(ts[k]) \in Unclosed
                                /\ ~ SubscribeHas(ChannelOf(ts[k]))
    BY <1>1 DEF Usable, Unclosed
  <2>2. ListedGeneral'
    BY <1>1, <1>2, <2>1 DEF CarefulInv, CarefulParts, ListedGeneral, Unclosed,
       SameChannels
  <2>3. ListedOnce'
    <3> SUFFICES ASSUME NEW h \in Goroutines, pc'[h] \in InSubscribe,
                        NEW i \in Goroutines, pc'[i] \in InSubscribe,
                        NEW j \in DOMAIN topics'[h],
                        NEW k \in DOMAIN topics'[i],
                        ChannelOf(topics'[h][j]) = ChannelOf(topics'[i][k]),
                        ChannelOf(topics'[h][j]) # NoChannel
                 PROVE  h = i /\ j = k
      BY DEF ListedOnce
    <3>1. CASE h = g /\ i = g
      BY <1>1, <1>2, <3>1 DEF Apart
    <3>2. CASE h = g /\ i # g
      BY <1>1, <1>2, <2>1, <3>2 DEF SubscribeHas, ChannelOf
    <3>3. CASE h # g /\ i = g
      BY <1>1, <1>2, <2>1, <3>3 DEF SubscribeHas, ChannelOf
    <3>4. CASE h # g /\ i # g
      BY <1>1, <1>2, <3>4 DEF CarefulInv, CarefulParts, ListedOnce
    <3>5. QED
      BY <3>1, <3>2, <3>3, <3>4
  <2>4. FoundReal' /\ BoundReal' /\ BoundOpen' /\ GeneralOpen'
    BY <1>1, <1>2 DEF CarefulInv, CarefulParts, FoundReal, Found, BoundReal,
       Bound, BoundOpen, BeingRemoved, GeneralOpen, SameChannels, At
  <2>5. QED
    BY <2>2, <2>3, <2>4 DEF CarefulParts
<1>5. QED
  BY <1>3, <1>4, StillRoutingInv

(* Subscribe goes on to the next topic: one without a channel, ... *)
LEMMA SubscribeSkipEvents ==
  ASSUME TypeOK, LockInv, ChannelInv, CarefulInv, NEW g \in Goroutines,
         pc[g] = "sub_bind", topics[g] # <<>>, NextTopic(g),
         SameChannels, UNCHANGED <<callVars, target>>
  PROVE  ChannelInv' /\ CarefulInv'
<1>1. /\ topics \in [Goroutines -> Seq(Filters \X EventChannels)]
      /\ topics' = [topics EXCEPT ![g] = Tail(topics[g])]
      /\ SameChannels /\ UNCHANGED <<pc, arg, target>>
  BY DEF NextTopic, callVars, TypeOK, ClientType, EventType, LoopType
<1>2. StillRouting
  BY <1>1 DEF StillRouting
<1>3. \A k \in DOMAIN Tail(topics[g]) :
        /\ k + 1 \in DOMAIN topics[g]
        /\ Tail(topics[g])[k] = topics[g][k + 1]
  BY <1>1, ListTail
<1>4. ListedGeneral => ListedGeneral'
  BY <1>1, <1>3 DEF ListedGeneral, Unclosed, SameChannels
<1>5. ListedOnce => ListedOnce'
  <2> SUFFICES ASSUME ListedOnce,
                      NEW h \in Goroutines, pc'[h] \in InSubscribe,
                      NEW i \in Goroutines, pc'[i] \in InSubscribe,
                      NEW j \in DOMAIN topics'[h], NEW k \in DOMAIN topics'[i],
                      ChannelOf(topics'[h][j]) = ChannelOf(topics'[i][k]),
                      ChannelOf(topics'[h][j]) # NoChannel
               PROVE  h = i /\ j = k
    BY DEF ListedOnce
  <2>1. j \in Nat /\ k \in Nat
    BY <1>1
  <2>2. CASE h = g /\ i = g
    BY <1>1, <1>3, <2>1, <2>2 DEF ListedOnce
  <2>3. CASE ~ (h = g /\ i = g)
    BY <1>1, <1>3, <2>3 DEF ListedOnce
  <2>4. QED
    BY <2>2, <2>3
<1>6. /\ FoundReal => FoundReal'
      /\ BoundReal => BoundReal'
      /\ GeneralOpen => GeneralOpen'
  BY <1>1 DEF FoundReal, Found, BoundReal, Bound, GeneralOpen, SameChannels
<1>7. BoundOpen => BoundOpen'
  BY <1>1 DEF BoundOpen, BeingRemoved, SameChannels, At
<1>8. QED
  BY <1>2, <1>4, <1>5, <1>6, <1>7, StillRoutingInv DEF CarefulInv,
     CarefulParts

(* ... or one whose channel it binds. *)
LEMMA SubscribeBindEvents ==
  ASSUME TypeOK, LockInv, ChannelInv, CarefulInv, NEW g \in Goroutines,
         SubscribeBind(g)
  PROVE  ChannelInv' /\ CarefulInv'
<1> DEFINE f == FilterOf(Head(topics[g]))
           c == ChannelOf(Head(topics[g]))
<1>1. /\ pc \in [Goroutines -> Points]
      /\ topics \in [Goroutines -> Seq(Filters \X EventChannels)]
      /\ topicChans \in [Filters -> EventChannels \cup {Unbound}]
      /\ eventChans \subseteq Channels
  BY DEF TypeOK, ClientType, CallType, EventType, LoopType, ChanType
<1>2. /\ pc[g] = "sub_bind" /\ topics[g] # <<>>
      /\ UNCHANGED <<eventChans, chanState, closing, target>>
  BY DEF SubscribeBind, At
<1>3. CASE f \notin arg[g].filters
  <2>1. Steady
    BY <1>1, <1>2, <1>3 DEF SubscribeBind, ReturnSubscribe, Done, Goto, Steady,
       StillRouting, StillListed, SameChannels, Found, InSubscribe, TypeOK,
       ClientType, CallType
  <2>2. QED
    BY <2>1, StillRoutingInv, StillListedInv DEF Steady
<1>4. CASE f \in arg[g].filters /\ c = NoChannel
  BY <1>2, <1>4, SubscribeSkipEvents DEF SubscribeBind, SameChannels
<1>5. CASE f \in arg[g].filters /\ c # NoChannel
  <2>1. /\ mutex = NoOne
        /\ topicChans' = [topicChans EXCEPT
             ![f] = IF c \in eventChans THEN c ELSE NoChannel]
        /\ pc' = [pc EXCEPT ![g] = "sub_unreg"]
        /\ UNCHANGED <<arg, topics>>
    BY <1>5 DEF SubscribeBind, MutexFree, Goto
  <2>2. f \in Filters /\ c \in Channels /\ Head(topics[g]) = <<f, c>>
    <3>1. Head(topics[g]) \in Filters \X EventChannels
      BY <1>1, <1>2
    <3>2. QED
      BY <1>5, <3>1 DEF FilterOf, ChannelOf, EventChannels
  <2>3. \A h \in Goroutines : pc[h] # "sub_unreg"
    BY <2>1, NoBinding
  <2>4. c \in eventChans => \A e \in Filters : topicChans[e] # c
    BY <2>3 DEF ChannelInv, BoundNotGeneral, Binding, At
  <2>5. Created'
    BY <1>1, <1>2, <2>1, <2>2, ChannelsApart DEF ChannelInv, Created
  <2>6. BoundNotGeneral'
    <3> SUFFICES ASSUME NEW e \in Filters, NEW d \in eventChans,
                        topicChans'[e] = d
                 PROVE  \E h \in Goroutines : Binding(h, e, d)'
      BY <1>2 DEF BoundNotGeneral
    <3>1. e = f /\ d = c
      BY <1>1, <2>1, <2>2, <2>3, ChannelsApart DEF ChannelInv, BoundNotGeneral,
         Binding, At
    <3>2. Binding(g, e, d)'
      BY <1>1, <2>1, <2>2, <3>1 DEF Binding, At
    <3>3. QED
      BY <3>2
  <2>7. BoundOnce'
    BY <1>1, <2>1, <2>2, <2>4, ChannelsApart DEF ChannelInv, BoundOnce
  <2>8. TargetMatches'
    <3> SUFFICES ASSUME NEW h \in Goroutines, pc'[h] = "poll_signal",
                        target \in Channels
                 PROVE  /\ \A e \in Filters :
                             topicChans'[e] = target => e \in arg[h].filters
                        /\ target \notin eventChans
      BY <1>2, <2>1 DEF TargetMatches, At
    <3>1. pc[h] = "poll_signal"
      BY <1>1, <2>1
    <3>2. target \notin eventChans
      BY <2>3, <3>1 DEF ChannelInv, TargetMatches, Binding, At
    <3>3. QED
      BY <1>1, <2>1, <2>2, <3>1, <3>2, ChannelsApart DEF ChannelInv,
         TargetMatches, At
  <2>9. CarefulInv'
    <3> SUFFICES ASSUME Careful
                 PROVE  CarefulParts'
      BY DEF CarefulInv
    <3>1. \A h \in Goroutines :
            /\ pc'[h] \in InSubscribe => pc[h] \in InSubscribe
            /\ pc'[h] \in Found => pc[h] \in Found
            /\ pc'[h] = "unsub_remove" <=> pc[h] = "unsub_remove"
      BY <1>1, <1>2, <2>1 DEF InSubscribe, Found
    <3>2. ListedGeneral' /\ ListedOnce'
      BY <1>2, <2>1, <3>1 DEF CarefulInv, CarefulParts, ListedGeneral,
         Unclosed, ListedOnce
    <3>3. FoundReal' /\ GeneralOpen'
      BY <1>2, <2>1, <3>1 DEF CarefulInv, CarefulParts, FoundReal, GeneralOpen
    <3>4. c \in eventChans /\ closing[c] = "never" /\ chanState[c] = "open"
      <4>1. c \in Unclosed
        BY <1>1, <1>2, <2>2, ListTail, ChannelsApart DEF CarefulInv,
           CarefulParts, ListedGeneral, InSubscribe
      <4>2. QED
        BY <4>1 DEF Unclosed, CarefulInv, CarefulParts, GeneralOpen
    <3>5. BoundReal'
      BY <1>1, <2>1, <2>2, <3>4 DEF CarefulInv, CarefulParts, BoundReal, Bound
    <3>6. BoundOpen'
      <4>1. \A d \in Channels : BeingRemoved(d) => BeingRemoved(d)'
        BY <1>2, <2>1, <3>1 DEF BeingRemoved, At
      <4>2. QED
        BY <1>1, <1>2, <2>1, <2>2, <3>4, <4>1 DEF CarefulInv, CarefulParts,
           BoundOpen
    <3>7. QED
      BY <3>2, <3>3, <3>5, <3>6 DEF CarefulParts
  <2>10. Unregistering'
    BY <1>1, <1>2, <2>1 DEF ChannelInv, Unregistering, At
  <2>11. QED
    BY <2>5, <2>6, <2>7, <2>8, <2>9, <2>10 DEF ChannelInv
<1>6. QED
  BY <1>3, <1>4, <1>5

(* The channel that Subscribe has bound is no longer a general one. *)
LEMMA SubscribeUnregisterEvents ==
  ASSUME TypeOK, LockInv, ChannelInv, CarefulInv, NEW g \in Goroutines,
         SubscribeUnregister(g)
  PROVE  ChannelInv' /\ CarefulInv'
<1> DEFINE c == ChannelOf(Head(topics[g]))
<1>1. /\ pc \in [Goroutines -> Points]
      /\ topics \in [Goroutines -> Seq(Filters \X EventChannels)]
      /\ eventChans \subseteq Channels
  BY DEF TypeOK, ClientType, CallType, EventType, LoopType, ChanType
<1>2. /\ pc[g] = "sub_unreg" /\ topics[g] # <<>>
      /\ eventChans' = eventChans \ {c}
      /\ topics' = [topics EXCEPT ![g] = Tail(topics[g])]
      /\ pc' = [pc EXCEPT ![g] = "sub_bind"]
      /\ UNCHANGED <<arg, chanState, closing, topicChans, target>>
  BY DEF SubscribeUnregister, NextTopic, Goto, At
<1>3. \A h \in Goroutines, e \in Filters, d \in eventChans' :
        Binding(h, e, d) => Binding(h, e, d)'
  BY <1>1, <1>2 DEF Binding, At, ChannelOf
<1>4. Created' /\ BoundOnce' /\ Unregistering'
  BY <1>1, <1>2 DEF ChannelInv, Created, BoundOnce, Unregistering, At
<1>5. BoundNotGeneral'
  BY <1>2, <1>3 DEF ChannelInv, BoundNotGeneral
<1>6. TargetMatches'
  BY <1>1, <1>2, <1>3 DEF ChannelInv, TargetMatches, At
<1>7. CarefulInv'
  <2> SUFFICES ASSUME Careful
               PROVE  CarefulParts'
    BY DEF CarefulInv
  <2>1. /\ 1 \in DOMAIN topics[g] /\ Head(topics[g]) = topics[g][1]
        /\ \A k \in DOMAIN Tail(topics[g]) :
             /\ k + 1 \in DOMAIN topics[g] /\ k + 1 # 1
             /\ Tail(topics[g])[k] = topics[g][k + 1]
    BY <1>1, <1>2, ListTail
  <2>2. \A h \in Goroutines : pc'[h] \in InSubscribe => pc[h] \in InSubscribe
    BY <1>1, <1>2 DEF InSubscribe
  <2>3. pc[g] \in InSubscribe
    BY <1>2 DEF InSubscribe
  <2>4. ListedGeneral'
    <3> SUFFICES ASSUME NEW h \in Goroutines, pc'[h] \in InSubscribe,
                        NEW k \in DOMAIN topics'[h],
                        ChannelOf(topics'[h][k]) # NoChannel
                 PROVE  ChannelOf(topics'[h][k]) \in Unclosed \ {c}
      BY <1>2 DEF ListedGeneral, Unclosed
    <3>1. CASE h = g
      BY <1>1, <1>2, <2>1, <2>3, <3>1 DEF CarefulInv, CarefulParts,
         ListedGeneral, ListedOnce
    <3>2. CASE h # g
      BY <1>1, <1>2, <2>1, <2>2, <2>3, <3>2 DEF CarefulInv,
         CarefulParts, ListedGeneral, ListedOnce
    <3>3. QED
      BY <3>1, <3>2
  <2>5. ListedOnce'
    <3> SUFFICES ASSUME NEW h \in Goroutines, pc'[h] \in InSubscribe,
                        NEW i \in Goroutines, pc'[i] \in InSubscribe,
                        NEW j \in DOMAIN topics'[h], NEW k \in DOMAIN topics'[i],
                        ChannelOf(topics'[h][j]) = ChannelOf(topics'[i][k]),
                        ChannelOf(topics'[h][j]) # NoChannel
                 PROVE  h = i /\ j = k
      BY DEF ListedOnce
    <3>1. j \in Nat /\ k \in Nat
      BY <1>1, <1>2
    <3>2. CASE h = g /\ i = g
      BY <1>1, <1>2, <2>1, <2>3, <3>1, <3>2 DEF CarefulInv, CarefulParts,
         ListedOnce
    <3>3. CASE ~ (h = g /\ i = g)
      BY <1>1, <1>2, <2>1, <2>2, <2>3, <3>3 DEF CarefulInv,
         CarefulParts, ListedOnce
    <3>4. QED
      BY <3>2, <3>3
  <2>6. FoundReal' /\ BoundReal' /\ GeneralOpen'
    BY <1>1, <1>2 DEF CarefulInv, CarefulParts, FoundReal, Found, BoundReal,
       Bound, GeneralOpen
  <2>7. BoundOpen'
    BY <1>1, <1>2 DEF CarefulInv, CarefulParts, BoundOpen, BeingRemoved, At
  <2>8. QED
    BY <2>4, <2>5, <2>6, <2>7 DEF CarefulParts
<1>8. QED
  BY <1>4, <1>5, <1>6, <1>7 DEF ChannelInv

(* Unsubscribe looks up a channel: it is bound and, since Unsubscribe holds *)
(* c.mutex, not general.                                                   *)
LEMMA UnsubscribeFindEvents ==
  ASSUME TypeOK, LockInv, ChannelInv, CarefulInv, NEW g \in Goroutines,
         UnsubscribeFind(g)
  PROVE  ChannelInv' /\ CarefulInv'
<1> DEFINE f == FilterOf(Head(topics[g]))
<1>1. /\ pc \in [Goroutines -> Points]
      /\ topics \in [Goroutines -> Seq(Filters \X EventChannels)]
      /\ topicChans \in [Filters -> EventChannels \cup {Unbound}]
  BY DEF TypeOK, ClientType, CallType, EventType, LoopType, ChanType
<1>2. /\ pc[g] = "unsub_find" /\ topics[g] # <<>>
      /\ SameChannels /\ UNCHANGED <<arg, target>>
      /\ \/ /\ topics' = [topics EXCEPT ![g] = Tail(topics[g])]
            /\ pc' = pc
         \/ /\ f \in Bound
            /\ topics' = [topics EXCEPT ![g][1] = <<f, topicChans[f]>>]
            /\ pc' = [pc EXCEPT ![g] = "unsub_close"]
  BY DEF UnsubscribeFind, NextTopic, Goto, At, chanVars, SameChannels
<1>3. StillRouting
  BY <1>1, <1>2 DEF StillRouting
<1>4. CASE pc' = pc
  <2>1. StillListed
    BY <1>1, <1>2, <1>4 DEF StillListed, Found, InSubscribe
  <2>2. QED
    BY <1>3, <2>1, StillRoutingInv, StillListedInv
<1>5. CASE pc' # pc
  <2>1. /\ f \in Bound
        /\ topics' = [topics EXCEPT ![g][1] = <<f, topicChans[f]>>]
        /\ pc' = [pc EXCEPT ![g] = "unsub_close"]
    BY <1>2, <1>5
  <2>2. \A h \in Goroutines : pc'[h] \in InSubscribe =>
          pc[h] \in InSubscribe /\ topics'[h] = topics[h]
    BY <1>1, <1>2, <2>1 DEF InSubscribe
  <2>3. ListedGeneral => ListedGeneral'
    BY <1>2, <2>2 DEF ListedGeneral, Unclosed, SameChannels
  <2>4. ListedOnce => ListedOnce'
    BY <2>2 DEF ListedOnce
  <2>5. (BoundReal => BoundReal') /\ (GeneralOpen => GeneralOpen')
    BY <1>2 DEF BoundReal, Bound, GeneralOpen, SameChannels
  <2>6. BoundOpen => BoundOpen'
    BY <1>1, <1>2, <2>1 DEF BoundOpen, BeingRemoved, SameChannels, At
  <2>7. FoundReal /\ BoundReal => FoundReal'
    <3> SUFFICES ASSUME FoundReal, BoundReal,
                        NEW h \in Goroutines, pc'[h] \in Found
                 PROVE  /\ topics'[h] # <<>>
                        /\ ChannelOf(Head(topics'[h])) \in Channels \ eventChans
                        /\ chanState[ChannelOf(Head(topics'[h]))] # "new"
      BY <1>2 DEF FoundReal, SameChannels
    <3>1. CASE h # g
      BY <1>1, <2>1, <3>1 DEF FoundReal
    <3>2. CASE h = g
      <4>1. topics'[g] # <<>> /\ Head(topics'[g]) = <<f, topicChans[f]>>
        BY <1>1, <1>2, <2>1
      <4>2. topicChans[f] \in Channels /\ f \in Filters
        BY <2>1 DEF BoundReal, Bound
      <4>3. topicChans[f] \notin eventChans
        BY <1>2, <4>2, NoBinding DEF ChannelInv, BoundNotGeneral, Binding, At
      <4>4. QED
        BY <3>2, <4>1, <4>2, <4>3 DEF ChannelInv, Created, ChannelOf
    <3>3. QED
      BY <3>1, <3>2
  <2>8. QED
    BY <1>3, <2>3, <2>4, <2>5, <2>6, <2>7, StillRoutingInv DEF CarefulInv,
       CarefulParts
<1>6. QED
  BY <1>4, <1>5

(* What a step that closes or removes a channel does to the calls: nothing *)
(* that an invariant of the routing speaks of.                             *)
RoutingCalls ==
  /\ target' = target /\ arg' = arg
  /\ \A h \in Goroutines :
       \/ pc'[h] = pc[h] /\ topics'[h] = topics[h]
       \/ pc[h] # "sub_unreg" /\ pc'[h] \notin {"sub_unreg", "poll_signal"}

(* The close of channel c *)
LEMMA CloseChannels ==
  ASSUME TypeOK, ChannelInv, NEW c \in Channels, RoutingCalls,
         chanState' = [chanState EXCEPT ![c] = "closed"],
         UNCHANGED <<eventChans, topicChans>>
  PROVE  ChannelInv'
<1>1. chanState \in [Channels -> ChanStates] /\ eventChans \subseteq Channels
  BY DEF TypeOK, ClientType, EventType, ChanType
<1>2. \A h \in Goroutines, f \in Filters, d \in Channels :
        Binding(h, f, d) => Binding(h, f, d)'
  BY DEF Binding, At, RoutingCalls
<1>3. \A h \in Goroutines : pc'[h] = "poll_signal" => pc[h] = "poll_signal"
  BY DEF RoutingCalls
<1>4. Created' /\ BoundOnce'
  BY <1>1 DEF ChannelInv, Created, BoundOnce, RoutingCalls
<1>5. BoundNotGeneral'
  BY <1>1, <1>2 DEF ChannelInv, BoundNotGeneral
<1>6. TargetMatches'
  BY <1>2, <1>3 DEF ChannelInv, TargetMatches, At, RoutingCalls
<1>7. Unregistering'
  BY DEF ChannelInv, Unregistering, RoutingCalls, At
<1>8. QED
  BY <1>4, <1>5, <1>6, <1>7 DEF ChannelInv

(* The deletes: what is left was there before. *)
LEMMA RemoveChannels ==
  ASSUME TypeOK, ChannelInv, NEW c \in Channels, NEW missed \in SUBSET Filters,
         RemoveFromMaps(c, missed), RoutingCalls, UNCHANGED chanState
  PROVE  ChannelInv'
<1>1. /\ eventChans' \subseteq eventChans /\ eventChans \subseteq Channels
      /\ \A f \in Filters : topicChans'[f] \in Channels =>
           topicChans'[f] = topicChans[f]
  BY ChannelsApart DEF RemoveFromMaps, TypeOK, ClientType, EventType, ChanType,
     EventChannels
<1>2. \A h \in Goroutines, f \in Filters, d \in Channels :
        Binding(h, f, d) => Binding(h, f, d)'
  BY DEF Binding, At, RoutingCalls
<1>3. \A h \in Goroutines : pc'[h] = "poll_signal" => pc[h] = "poll_signal"
  BY DEF RoutingCalls
<1>4. Created' /\ BoundOnce'
  BY <1>1 DEF ChannelInv, Created, BoundOnce, RoutingCalls
<1>5. BoundNotGeneral'
  BY <1>1, <1>2 DEF ChannelInv, BoundNotGeneral
<1>6. TargetMatches'
  BY <1>1, <1>2, <1>3 DEF ChannelInv, TargetMatches, At, RoutingCalls
<1>7. Unregistering'
  BY DEF ChannelInv, Unregistering, RoutingCalls, At
<1>8. QED
  BY <1>4, <1>5, <1>6, <1>7 DEF ChannelInv

(* Unsubscribe closes what it has found, unless that is closed already. *)
LEMMA UnsubscribeCloseEvents ==
  ASSUME TypeOK, LockInv, ChannelInv, CarefulInv, NEW g \in Goroutines,
         UnsubscribeClose(g)
  PROVE  ChannelInv' /\ CarefulInv'
<1> DEFINE c == ChannelOf(Head(topics[g]))
<1>1. /\ pc \in [Goroutines -> Points]
      /\ topics \in [Goroutines -> Seq(Filters \X EventChannels)]
      /\ eventChans \subseteq Channels
      /\ chanState \in [Channels -> ChanStates]
  BY DEF TypeOK, ClientType, CallType, EventType, LoopType, ChanType
<1>2. pc[g] = "unsub_close" /\ topics[g] # <<>>
  BY DEF UnsubscribeClose, At
<1>3. CASE ~ CanClose(c)
  <2>1. Steady
    BY <1>3 DEF UnsubscribeClose, Panic, callVars, chanVars, loopVars, Steady,
       StillRouting, StillListed, SameChannels
  <2>2. QED
    BY <2>1, StillRoutingInv, StillListedInv DEF Steady
<1>4. CASE CanClose(c)
  <2>1. /\ chanState' = [chanState EXCEPT ![c] = "closed"]
        /\ pc' = [pc EXCEPT ![g] = "unsub_remove"]
        /\ UNCHANGED <<arg, topics, eventChans, closing, topicChans, target>>
    BY <1>4 DEF UnsubscribeClose, Goto, loopVars
  <2>2. c \in Channels
    <3>1. c \in EventChannels
      BY <1>1, <1>2, TopicsTyped
    <3>2. QED
      BY <1>4, <3>1 DEF CanClose, EventChannels
  <2>3. RoutingCalls
    BY <1>1, <1>2, <2>1 DEF RoutingCalls
  <2>4. ChannelInv'
    BY <2>1, <2>2, <2>3, CloseChannels
  <2>5. CarefulInv'
    <3> SUFFICES ASSUME Careful
                 PROVE  CarefulParts'
      BY DEF CarefulInv
    <3>1. \A h \in Goroutines :
            /\ pc'[h] \in InSubscribe => pc[h] \in InSubscribe
            /\ pc'[h] \in Found => pc[h] \in Found
            /\ pc[h] = "unsub_remove" => pc'[h] = "unsub_remove"
      BY <1>1, <1>2, <2>1 DEF InSubscribe, Found
    <3>2. ListedGeneral' /\ ListedOnce'
      BY <2>1, <3>1 DEF CarefulInv, CarefulParts, ListedGeneral, Unclosed,
         ListedOnce
    <3>3. c \notin eventChans
      BY <1>2 DEF CarefulInv, CarefulParts, FoundReal, Found
    <3>4. GeneralOpen'
      BY <1>1, <2>1, <3>3 DEF CarefulInv, CarefulParts, GeneralOpen
    <3>5. FoundReal'
      BY <1>1, <2>1, <2>2, <3>1 DEF CarefulInv, CarefulParts, FoundReal
    <3>6. BoundReal'
      BY <2>1 DEF CarefulInv, CarefulParts, BoundReal, Bound
    <3>7. BoundOpen'
      <4>1. BeingRemoved(c)'
        BY <1>1, <2>1 DEF BeingRemoved, At
      <4>2. \A d \in Channels : BeingRemoved(d) => BeingRemoved(d)'
        BY <2>1, <3>1 DEF BeingRemoved, At
      <4>3. QED
        BY <1>1, <2>1, <4>1, <4>2 DEF CarefulInv, CarefulParts, BoundOpen
    <3>8. QED
      BY <3>2, <3>4, <3>5, <3>6, <3>7 DEF CarefulParts
  <2>6. QED
    BY <2>4, <2>5
<1>5. QED
  BY <1>3, <1>4

(* ... and takes it from both maps. *)
LEMMA UnsubscribeRemoveEvents ==
  ASSUME TypeOK, LockInv, ChannelInv, CarefulInv, NEW g \in Goroutines,
         UnsubscribeRemove(g)
  PROVE  ChannelInv' /\ CarefulInv'
<1> DEFINE c == ChannelOf(Head(topics[g]))
<1>1. /\ pc \in [Goroutines -> Points]
      /\ topics \in [Goroutines -> Seq(Filters \X EventChannels)]
      /\ topicChans \in [Filters -> EventChannels \cup {Unbound}]
      /\ eventChans \subseteq Channels
  BY DEF TypeOK, ClientType, CallType, EventType, LoopType, ChanType
<1>2. /\ pc[g] = "unsub_remove" /\ topics[g] # <<>>
      /\ RemoveFromMaps(c, {})
      /\ topics' = [topics EXCEPT ![g] = Tail(topics[g])]
      /\ pc' = [pc EXCEPT ![g] = "unsub_find"]
      /\ UNCHANGED <<arg, chanState, closing, target>>
  BY DEF UnsubscribeRemove, NextTopic, Goto, At
<1>3. RoutingCalls
  BY <1>1, <1>2 DEF RoutingCalls
<1>4. ChannelInv'
  <2>1. c \in EventChannels
    BY <1>1, <1>2, TopicsTyped
  <2>2. CASE c = NoChannel
    <3>1. /\ eventChans' = eventChans
          /\ \A f \in Filters : topicChans'[f] \in Channels =>
               topicChans'[f] = topicChans[f]
      BY <1>1, <1>2, <2>2, ChannelsApart DEF RemoveFromMaps, EventChannels
    <3>2. \A h \in Goroutines, f \in Filters, d \in Channels :
            Binding(h, f, d) => Binding(h, f, d)'
      BY <1>3 DEF Binding, At, RoutingCalls
    <3>3. \A h \in Goroutines :
            pc'[h] = "poll_signal" => pc[h] = "poll_signal"
      BY <1>3 DEF RoutingCalls
    <3>4. Created' /\ BoundOnce'
      BY <1>2, <3>1 DEF ChannelInv, Created, BoundOnce
    <3>5. BoundNotGeneral'
      BY <1>1, <3>1, <3>2 DEF ChannelInv, BoundNotGeneral
    <3>6. TargetMatches'
      BY <1>2, <3>1, <3>2, <3>3 DEF ChannelInv, TargetMatches, At
    <3>7. Unregistering'
      BY <1>3 DEF ChannelInv, Unregistering, RoutingCalls, At
    <3>8. QED
      BY <3>4, <3>5, <3>6, <3>7 DEF ChannelInv
  <2>3. CASE c \in Channels
    BY <1>2, <1>3, <2>3, RemoveChannels
  <2>4. QED
    BY <2>1, <2>2, <2>3 DEF EventChannels
<1>5. CarefulInv'
  <2> SUFFICES ASSUME Careful
               PROVE  CarefulParts'
    BY DEF CarefulInv
  <2>1. eventChans' = eventChans /\ c \in Channels
    BY <1>2 DEF RemoveFromMaps, CarefulInv, CarefulParts, FoundReal, Found
  <2>2. \A h \in Goroutines :
          /\ pc'[h] \in InSubscribe =>
               pc[h] \in InSubscribe /\ topics'[h] = topics[h]
          /\ pc'[h] \in Found =>
               pc[h] \in Found /\ topics'[h] = topics[h]
          /\ h # g => pc'[h] = pc[h] /\ topics'[h] = topics[h]
    BY <1>1, <1>2 DEF InSubscribe, Found
  <2>3. ListedGeneral' /\ ListedOnce'
    <3>1. ListedGeneral'
      BY <1>2, <2>1, <2>2 DEF CarefulInv, CarefulParts, ListedGeneral,
         Unclosed
    <3>2. ListedOnce'
      BY <2>2 DEF CarefulInv, CarefulParts, ListedOnce
    <3>3. QED
      BY <3>1, <3>2
  <2>4. GeneralOpen' /\ FoundReal'
    BY <1>2, <2>1, <2>2 DEF CarefulInv, CarefulParts, GeneralOpen, FoundReal
  <2>5. BoundReal'
    BY <1>1, <1>2, <2>1 DEF RemoveFromMaps, CarefulInv, CarefulParts,
       BoundReal, Bound
  <2>6. BoundOpen'
    <3>1. \A f \in Filters : topicChans'[f] \in Channels =>
            topicChans'[f] = topicChans[f] /\ topicChans[f] # c
      BY <1>1, <1>2, <2>1, ChannelsApart DEF RemoveFromMaps, EventChannels
    <3>2. \A d \in Channels \ {c} : BeingRemoved(d) => BeingRemoved(d)'
      BY <1>2, <2>2 DEF BeingRemoved, At
    <3>3. QED
      BY <1>2, <3>1, <3>2 DEF CarefulInv, CarefulParts, BoundOpen
  <2>7. QED
    BY <2>3, <2>4, <2>5, <2>6 DEF CarefulParts
<1>6. QED
  BY <1>4, <1>5

LEMMA CloseEventChannelEvents ==
  ASSUME TypeOK, LockInv, ChannelInv, CarefulInv, NEW c \in Channels,
         CloseEventChannel(c)
  PROVE  ChannelInv' /\ CarefulInv'
<1>1. /\ chanState' = [chanState EXCEPT ![c] = "closed"]
      /\ closing' = [closing EXCEPT ![c] = IF chanState[c] = "closed"
                                           THEN "twice" ELSE "closing"]
      /\ UNCHANGED <<pc, arg, topics, eventChans, topicChans, target>>
      /\ Careful => closing[c] = "never" /\ ~ SubscribeHas(c)
      /\ chanState[c] # "new"
  BY DEF CloseEventChannel, callVars, loopVars
<1>2. /\ eventChans \subseteq Channels
      /\ chanState \in [Channels -> ChanStates]
      /\ closing \in [Channels -> ClosingStates]
  BY DEF TypeOK, ClientType, EventType, ChanType
<1>3. ChannelInv'
  BY <1>1, CloseChannels DEF RoutingCalls
<1>4. CarefulInv'
  <2> SUFFICES ASSUME Careful
               PROVE  CarefulParts'
    BY DEF CarefulInv
  <2>1. \A g \in Goroutines : pc[g] \in InSubscribe =>
          \A k \in DOMAIN topics[g] : ChannelOf(topics[g][k]) # c
    BY <1>1 DEF SubscribeHas, ChannelOf
  <2>2. ListedGeneral' /\ ListedOnce'
    BY <1>1, <1>2, <2>1 DEF CarefulInv, CarefulParts, ListedGeneral, Unclosed,
       ListedOnce
  <2>3. GeneralOpen' /\ FoundReal' /\ BoundReal'
    BY <1>1, <1>2 DEF CarefulInv, CarefulParts, GeneralOpen, FoundReal,
       BoundReal, Bound, ChanStates
  <2>4. BoundOpen'
    <3>1. \A d \in Channels : BeingRemoved(d) => BeingRemoved(d)'
      BY <1>1, <1>2 DEF BeingRemoved, At
    <3>2. chanState[c] # "closed" => BeingRemoved(c)'
      BY <1>1, <1>2 DEF BeingRemoved
    <3>3. QED
      BY <1>1, <1>2, <3>1, <3>2 DEF CarefulInv, CarefulParts, BoundOpen
  <2>5. QED
    BY <2>2, <2>3, <2>4 DEF CarefulParts
<1>5. QED
  BY <1>3, <1>4

(* No entry is missed: no call of Subscribe has the channel. *)
LEMMA CloseEventChannelEndEvents ==
  ASSUME TypeOK, LockInv, ChannelInv, CarefulInv, NEW c \in Channels,
         CloseEventChannelEnd(c)
  PROVE  ChannelInv' /\ CarefulInv'
<1>1. PICK missed \in SUBSET BeingBound(c) : RemoveFromMaps(c, missed)
  BY DEF CloseEventChannelEnd
<1>2. /\ closing[c] = "closing"
      /\ closing' = [closing EXCEPT ![c] = "done"]
      /\ UNCHANGED <<pc, arg, topics, chanState, target>>
  BY DEF CloseEventChannelEnd, callVars, loopVars
<1>3. /\ eventChans \subseteq Channels
      /\ topicChans \in [Filters -> EventChannels \cup {Unbound}]
      /\ closing \in [Channels -> ClosingStates]
      /\ topics \in [Goroutines -> Seq(Filters \X EventChannels)]
  BY DEF TypeOK, ClientType, EventType, ChanType, LoopType
<1>4. ChannelInv'
  BY <1>1, <1>2, RemoveChannels DEF RoutingCalls, BeingBound
<1>5. CarefulInv'
  <2> SUFFICES ASSUME Careful
               PROVE  CarefulParts'
    BY DEF CarefulInv
  <2>1. \A g \in Goroutines : pc[g] \in InSubscribe =>
          \A k \in DOMAIN topics[g] : ChannelOf(topics[g][k]) # c
    BY <1>2, ChannelsApart DEF CarefulInv, CarefulParts, ListedGeneral,
       Unclosed
  <2>2. missed = {}
    <3> SUFFICES ASSUME NEW f \in missed
                 PROVE  FALSE
      OBVIOUS
    <3>1. PICK g \in Goroutines :
            pc[g] = "sub_unreg" /\ Head(topics[g]) = <<f, c>>
      BY DEF BeingBound, Among
    <3>2. topics[g] # <<>>
      BY <3>1 DEF ChannelInv, Unregistering, At
    <3>3. 1 \in DOMAIN topics[g] /\ topics[g][1] = <<f, c>>
      BY <1>3, <3>1, <3>2, ListTail
    <3>4. QED
      BY <2>1, <3>1, <3>3 DEF InSubscribe, ChannelOf
  <2>3. /\ eventChans' = eventChans \ {c}
        /\ \A f \in Filters :
             topicChans'[f] = IF topicChans[f] = c THEN Unbound
                              ELSE topicChans[f]
    BY <1>1, <2>2 DEF RemoveFromMaps
  <2>4. ListedGeneral' /\ ListedOnce'
    BY <1>2, <1>3, <2>1, <2>3 DEF CarefulInv, CarefulParts, ListedGeneral,
       Unclosed, ListedOnce
  <2>5. GeneralOpen' /\ FoundReal'
    BY <1>2, <1>3, <2>3 DEF CarefulInv, CarefulParts, GeneralOpen, FoundReal
  <2>6. BoundReal'
    BY <2>3 DEF CarefulInv, CarefulParts, BoundReal, Bound
  <2>7. BoundOpen'
    <3>1. \A f \in Filters : topicChans'[f] \in Channels =>
            topicChans'[f] = topicChans[f] /\ topicChans[f] # c
      BY <2>3, ChannelsApart DEF EventChannels
    <3>2. \A d \in Channels \ {c} : BeingRemoved(d) => BeingRemoved(d)'
      BY <1>2, <1>3 DEF BeingRemoved, At
    <3>3. QED
      BY <1>2, <3>1, <3>2 DEF CarefulInv, CarefulParts, BoundOpen
  <2>8. QED
    BY <2>4, <2>5, <2>6, <2>7 DEF CarefulParts
<1>6. QED
  BY <1>4, <1>5

LEMMA CreateEventChannelEvents ==
  ASSUME TypeOK, LockInv, ChannelInv, CarefulInv, NEW c \in Channels,
         CreateEventChannel(c)
  PROVE  ChannelInv' /\ CarefulInv'
<1>1. /\ chanState[c] = "new"
      /\ chanState' = [chanState EXCEPT ![c] = "open"]
      /\ eventChans' = eventChans \cup {c}
      /\ UNCHANGED <<pc, arg, topics, closing, topicChans, target>>
      /\ chanState \in [Channels -> ChanStates]
      /\ eventChans \subseteq Channels
  BY DEF CreateEventChannel, callVars, loopVars, TypeOK, ClientType, EventType,
     ChanType
<1>2. (\A f \in Filters : topicChans[f] # c) /\ target # c
  BY <1>1 DEF ChannelInv, Created
<1>3. Created' /\ BoundOnce' /\ Unregistering'
  BY <1>1, <1>2 DEF ChannelInv, Created, BoundOnce, Unregistering, At
<1>4. BoundNotGeneral'
  BY <1>1, <1>2 DEF ChannelInv, BoundNotGeneral, Binding, At
<1>5. TargetMatches'
  BY <1>1, <1>2 DEF ChannelInv, TargetMatches, Binding, At
<1>6. CarefulInv'
  <2> SUFFICES ASSUME Careful
               PROVE  CarefulParts'
    BY DEF CarefulInv
  <2>1. ListedGeneral' /\ ListedOnce'
    BY <1>1 DEF CarefulInv, CarefulParts, ListedGeneral, Unclosed, ListedOnce
  <2>2. FoundReal'
    BY <1>1 DEF CarefulInv, CarefulParts, FoundReal
  <2>3. BoundReal' /\ GeneralOpen'
    BY <1>1 DEF CarefulInv, CarefulParts, BoundReal, Bound, GeneralOpen
  <2>4. BoundOpen'
    BY <1>1 DEF CarefulInv, CarefulParts, BoundOpen, BeingRemoved, At
  <2>5. QED
    BY <2>1, <2>2, <2>3, <2>4 DEF CarefulParts
<1>7. QED
  BY <1>3, <1>4, <1>5, <1>6 DEF ChannelInv

-----------------------------------------------------------------------------
(* Every step *)

LEMMA FreshChannels ==
  ASSUME pc = [g \in Goroutines |-> "idle"],
         eventChans = {}, target = NoChannel,
         chanState = [c \in Channels |-> "new"],
         topicChans = [f \in Filters |-> Unbound]
  PROVE  ChannelInv /\ CarefulInv
BY ChannelsApart DEF ChannelInv, Created, Unregistering, BoundNotGeneral,
   BoundOnce, TargetMatches, At, CarefulInv, CarefulParts, GeneralOpen,
   ListedGeneral, ListedOnce, FoundReal, Found, BoundReal, BoundOpen, Bound,
   InSubscribe, EventChannels

LEMMA RestartEvents ==
  ASSUME Restart
  PROVE  ChannelInv' /\ CarefulInv'
BY ChannelsApart DEF Restart, ChannelInv, Created, Unregistering,
   BoundNotGeneral, BoundOnce, TargetMatches, At, CarefulInv, CarefulParts,
   GeneralOpen, ListedGeneral, ListedOnce, FoundReal, Found, BoundReal,
   BoundOpen, Bound, InSubscribe, EventChannels

LEMMA NextEvents ==
  ASSUME TypeOK, LockInv, ChannelInv, CarefulInv, [Next]_vars
  PROVE  ChannelInv' /\ CarefulInv'
<1>1. ClientType
  BY DEF TypeOK
<1>2. ASSUME NEW g \in Goroutines, Call(g) \/ Step(g)
      PROVE  ChannelInv' /\ CarefulInv'
  <2>1. CASE SubscribeCall(g)
    BY <2>1, SubscribeCallEvents
  <2>2. CASE SubscribeBind(g)
    BY <2>2, SubscribeBindEvents
  <2>3. CASE SubscribeUnregister(g)
    BY <2>3, SubscribeUnregisterEvents
  <2>4. CASE UnsubscribeFind(g)
    BY <2>4, UnsubscribeFindEvents
  <2>5. CASE UnsubscribeClose(g)
    BY <2>5, UnsubscribeCloseEvents
  <2>6. CASE UnsubscribeRemove(g)
    BY <2>6, UnsubscribeRemoveEvents
  <2>7. CASE PollRoute(g)
    BY <2>7, PollRouteEvents
  <2>8. CASE Steady
    BY <2>8, StillRoutingInv, StillListedInv DEF Steady
  <2>9. QED
    BY <1>1, <1>2, <2>1, <2>2, <2>3, <2>4, <2>5, <2>6, <2>7, <2>8,
       PublishSteady, SessionSteady, PollSteady, SubscribeSteady
       DEF Call, Step, SubscribeStep, UnsubscribeStep
<1>3. ASSUME NEW c \in Channels, Application(c)
      PROVE  ChannelInv' /\ CarefulInv'
  <2>1. CASE ReceiveEvent(c)
    <3>1. Steady
      BY <2>1 DEF ReceiveEvent, callVars, chanVars, loopVars, Steady,
         StillRouting, StillListed, SameChannels
    <3>2. QED
      BY <3>1, StillRoutingInv, StillListedInv DEF Steady
  <2>2. QED
    BY <1>3, <2>1, CreateEventChannelEvents, CloseEventChannelEvents,
       CloseEventChannelEndEvents DEF Application
<1>4. CASE BrokerStep \/ ConnLost \/ PingDeadlinePasses \/ UNCHANGED vars
  BY <1>4, WorldSteady, StillRoutingInv, StillListedInv DEF Steady
<1>5. QED
  BY <1>2, <1>3, <1>4, RestartEvents DEF Next

LEMMA EventsInductive ==
  Spec => [](TypeOK /\ LockInv /\ ChannelInv /\ CarefulInv)
<1>1. Init => ChannelInv /\ CarefulInv
  BY FreshChannels DEF Init
<1>2. /\ (TypeOK /\ LockInv) /\ (ChannelInv /\ CarefulInv)
      /\ [Next]_vars
      => (ChannelInv /\ CarefulInv)'
  BY NextEvents
<1>3. QED
  BY <1>1, <1>2, Inductive, PTL DEF Spec

-----------------------------------------------------------------------------
(* Where an event may go *)

(* A pending event is added to a general channel, to one that the fan-out  *)
(* had come to before, or by Poll to the channel it has looked up.         *)
Reached(c) ==
  \/ c \in eventChans \cup fetched
  \/ c = target /\ \E g \in Goroutines : At(g, "poll_signal")

LEMMA SignalReaches ==
  ASSUME Signal, NEW c \in Channels, inbox'[c] # inbox[c]
  PROVE  Reached(c)
BY DEF Signal, Reached

LEMMA PollReaches ==
  ASSUME TypeOK, NEW g \in Goroutines, PollCall(g) \/ PollStep(g),
         NEW c \in Channels, inbox'[c] # inbox[c]
  PROVE  Reached(c)
<1>1. CASE PollSignal(g)
  <2>1. At(g, "poll_signal") /\ inbox \in [Channels -> 0..EventCapacity]
    BY <1>1 DEF PollSignal, TypeOK, ClientType, EventType, InboxType
  <2>2. CASE inbox' = IF inbox[target] < EventCapacity
                      THEN [inbox EXCEPT ![target] = @ + 1]
                      ELSE inbox
    BY <2>1, <2>2 DEF Reached
  <2>3. QED
    BY <1>1, <2>2, SignalReaches DEF PollSignal, Panic
<1>2. CASE PollFanout(g)
  BY <1>2, SignalReaches DEF PollFanout
<1>3. QED
  BY <1>1, <1>2 DEF PollCall, PollStep, PollLock, PollNothing, PollRead,
     PollPublish, PollAck, PollCredit, PollRoute, PollStore, PollPuback,
     PollPubcomp, Completed, PollPubrec, PollPubrel, PollRelease,
     PollResponse, PollPingresp, PollDisconnect, Panic, eventVars

LEMMA StepReaches ==
  ASSUME TypeOK, [Next]_vars, ~ Restart, NEW c \in Channels,
         inbox'[c] > inbox[c]
  PROVE  Reached(c)
<1>1. inbox'[c] # inbox[c] /\ inbox[c] \in 0..EventCapacity
  BY DEF TypeOK, ClientType, EventType, InboxType
<1>2. ASSUME NEW g \in Goroutines, Call(g) \/ Step(g)
      PROVE  Reached(c)
  <2>1. CASE PublishCall(g) \/ PublishStep(g)
    BY <1>1, <2>1 DEF PublishCall, PublishStep, PublishLock, PublishStore,
       PublishQuota, PublishPark, PublishRelock, PublishSend, PublishCount,
       eventVars
  <2>2. CASE ConnectAck(g) \/ DisconnectSend(g)
    BY <1>1, <2>2, SignalReaches DEF ConnectAck, DisconnectSend, eventVars
  <2>3. CASE \/ ConnectCall(g) \/ DisconnectCall(g) \/ KeepAliveCall(g)
             \/ ConnectStep(g) \/ DisconnectStep(g) \/ KeepAliveStep(g)
    BY <1>1, <2>2, <2>3 DEF ConnectCall, DisconnectCall, KeepAliveCall,
       ConnectStep, DisconnectStep, KeepAliveStep, ConnectLock, ConnectSend,
       ConnectFail, DisconnectLock, KeepAliveLock, KeepAliveSend, eventVars
  <2>4. CASE SubscribeCall(g) \/ SubscribeStep(g)
    BY <1>1, <2>4 DEF SubscribeCall, SubscribeStep, SubscribeLock,
       SubscribeSend, SubscribeAnswer, SubscribeBind, SubscribeUnregister,
       SubscribeClose, ResponseDelete, Panic, eventVars
  <2>5. CASE UnsubscribeCall(g) \/ UnsubscribeStep(g)
    BY <1>1, <2>5 DEF UnsubscribeCall, UnsubscribeStep, UnsubscribeSend,
       UnsubscribeAnswer, UnsubscribeFind, UnsubscribeClose,
       UnsubscribeRemove, UnsubscribeUnlock, Panic, eventVars
  <2>6. QED
    BY <1>1, <1>2, <2>1, <2>3, <2>4, <2>5, PollReaches DEF Call, Step
<1>3. ASSUME NEW d \in Channels, Application(d)
      PROVE  Reached(c)
  <2>1. CASE ReceiveEvent(d)
    <3>1. inbox \in [Channels -> 0..EventCapacity]
      BY DEF TypeOK, ClientType, EventType, InboxType
    <3>2. d = c /\ inbox'[c] = inbox[c] - 1
      BY <1>1, <2>1, <3>1 DEF ReceiveEvent
    <3>3. QED
      BY <1>1, <3>2, ConstantsAssumption
  <2>2. QED
    BY <1>1, <1>3, <2>1 DEF Application, CreateEventChannel,
       CloseEventChannel, CloseEventChannelEnd
<1>4. CASE BrokerStep \/ ConnLost \/ PingDeadlinePasses \/ UNCHANGED vars
  BY <1>1, <1>4 DEF BrokerStep, BrokerTakes, TakeConnect, TakePublish,
     TakePubrel, TakePuback, TakePubrec, TakePubcomp, TakePingreq,
     TakeDisconnect, TakeSubscribe, TakeUnsubscribe, Takes, BrokerPublish,
     BrokerResend, BrokerUnprompted, ConnLost, PingDeadlinePasses, clientOnly,
     eventVars, vars, clientVars
<1>5. QED
  BY <1>2, <1>3, <1>4 DEF Next

LEMMA RestartEmpties ==
  ASSUME TypeOK, Restart, NEW c \in Channels
  PROVE  ~ (inbox'[c] > inbox[c])
<1>1. inbox[c] \in 0..EventCapacity /\ inbox'[c] = 0
  BY DEF Restart, TypeOK, ClientType, EventType, InboxType
<1>2. QED
  BY <1>1, ConstantsAssumption

-----------------------------------------------------------------------------
(* The theorems *)

(* Once Subscribe is done with a channel, it gets messages on the topics   *)
(* of its filter only, whatever the application passes to Subscribe and    *)
(* whenever Poll runs, but for the event of a fan-out that had come to the *)
(* channel before: a bound channel is out of the later ones, it is bound   *)
(* once, and a look-up by Poll stays good until the send.                  *)
THEOREM EventsOfOwnTopic == Spec => OwnTopicOnly
<1>1. /\ TypeOK /\ LockInv /\ ChannelInv /\ CarefulInv
      /\ [Next]_vars
      => [\A f \in Filters, c \in Channels \ fetched :
            /\ topicChans[f] = c /\ inbox'[c] > inbox[c]
            /\ \A g \in Goroutines : ~ At(g, "sub_unreg")
            => \E g \in Goroutines : At(g, "poll_signal") /\ f \in arg[g].filters
         ]_vars
  <2> SUFFICES ASSUME TypeOK, ChannelInv, [Next]_vars,
                      NEW f \in Filters, NEW c \in Channels \ fetched,
                      topicChans[f] = c,
                      inbox'[c] > inbox[c],
                      \A g \in Goroutines : ~ At(g, "sub_unreg")
               PROVE  \E g \in Goroutines :
                        At(g, "poll_signal") /\ f \in arg[g].filters
    OBVIOUS
  <2>1. Reached(c)
    BY StepReaches, RestartEmpties
  <2>2. c \notin eventChans
    BY DEF ChannelInv, BoundNotGeneral, Binding
  <2>3. QED
    BY <2>1, <2>2 DEF Reached, ChannelInv, TargetMatches
<1>2. QED
  BY <1>1, EventsInductive, PTL DEF Spec, OwnTopicOnly

(* For an application that gives each channel to one topic, closes it once *)
(* and leaves the channels of a call alone, no binding outlives its        *)
(* channel: what is bound is a channel that is open, or that the call that *)
(* closed it is about to remove, although the close and the deletes are    *)
(* steps of their own, and under a mutex in CloseEventChannel that neither *)
(* Subscribe nor Unsubscribe takes.                                        *)
THEOREM BoundUntilRemoved == Spec => [](Careful => NoStaleBinding)
<1>1. TypeOK /\ LockInv /\ ChannelInv /\ CarefulInv
      => (Careful => NoStaleBinding)
  <2> SUFFICES ASSUME ChannelInv, CarefulInv, Careful, NEW f \in Bound
               PROVE  /\ topicChans[f] \in Channels
                      /\ \/ chanState[topicChans[f]] = "open"
                         \/ BeingRemoved(topicChans[f])
                      /\ topicChans[f] \in eventChans =>
                           \E g \in Goroutines :
                             /\ At(g, "sub_unreg")
                             /\ Head(topics[g]) = <<f, topicChans[f]>>
    BY DEF NoStaleBinding
  <2>1. f \in Filters /\ topicChans[f] \in Channels
    BY DEF CarefulInv, CarefulParts, BoundReal, Bound
  <2>2. QED
    BY <2>1 DEF CarefulInv, CarefulParts, BoundOpen, ChannelInv,
       BoundNotGeneral, Binding
<1>2. QED
  BY <1>1, EventsInductive, PTL

-----------------------------------------------------------------------------
(* The responses of Subscribe and Unsubscribe: the use                     *)

(* The identifiers of requests are not checked against those in use: two   *)
(* goroutines that subscribe may get the response of each other.           *)
MaySubscribe(g) == "Subscribe" \in May[g] \/ "Unsubscribe" \in May[g]
OneSubscriber ==
  /\ Careful /\ ~ DetectsMapRaces
  /\ Unprompted \cap {"SUBSCRIBE", "SUBACK", "UNSUBSCRIBE", "UNSUBACK"} = {}
  /\ \A g, h \in Goroutines : MaySubscribe(g) /\ MaySubscribe(h) => g = h

SubscribePoints ==
  {"sub_lock", "sub_send", "sub_wait", "sub_bind", "sub_unreg", "sub_delete",
   "unsub_lock", "unsub_wait", "unsub_find", "unsub_close", "unsub_remove",
   "unsub_delete"}
Waits == {"sub_wait", "unsub_wait"}
Subscribers ==
  \A g \in Goroutines : pc[g] \in SubscribePoints => MaySubscribe(g)
Publishers ==
  \A g \in Goroutines : pc[g] \in PublishPoints => arg[g].type = "PUBLISH"

(* One exchange is under way: a request on its way to the broker, a        *)
(* response on its way back, a response that Poll passes on, or one that   *)
(* the call has yet to receive.                                            *)
Subs == {p \in Packets : p.type \in {"SUBSCRIBE", "SUBACK"}}
Unsubs == {p \in Packets : p.type \in {"UNSUBSCRIBE", "UNSUBACK"}}
Exchanges == Subs \cup Unsubs
Passing(g) == pc[g] = "poll_response"
NonePassing == \A g \in Goroutines : ~ Passing(g)
OneExchange ==
  /\ OneOf(toServer, Exchanges) /\ OneOf(toClient, Exchanges)
  /\ \A a, b \in answers : a = b
  /\ ~ NoneOf(toServer, Exchanges) => NoneOf(toClient, Exchanges)
  /\ ~ NoneOf(toServer, Exchanges) \/ ~ NoneOf(toClient, Exchanges) =>
       NonePassing /\ answers = {}
  /\ NonePassing \/ answers = {}

(* The call that it is for is waiting for it. *)
Unasked(P) ==
  /\ NoneOf(toServer, P) /\ NoneOf(toClient, P)
  /\ \A g \in Goroutines : Passing(g) => arg[g] \notin P
  /\ \A a \in answers : a.packet \notin P
Expected ==
  /\ (\A g \in Goroutines : pc[g] # "sub_wait") => Unasked(Subs)
  /\ (\A g \in Goroutines : pc[g] # "unsub_wait") => Unasked(Unsubs)
Responding ==
  /\ \A g \in Goroutines : Passing(g) => arg[g].type \in {"SUBACK", "UNSUBACK"}
  /\ \A a \in answers : a.packet.type \in {"SUBACK", "UNSUBACK"}

ExchangeInv ==
  Subscribers /\ Publishers /\ OneExchange /\ Expected /\ Responding

-----------------------------------------------------------------------------
(* Steps that bring no request and no response *)

ExchangeCalm ==
  /\ \A P \in {Subs, Unsubs, Exchanges} :
       FewerOf(toServer, toServer', P) /\ FewerOf(toClient, toClient', P)
  /\ \A h \in Goroutines : Passing(h)' => Passing(h) /\ arg'[h] = arg[h]
  /\ answers' \subseteq answers
  /\ \A h \in Goroutines : pc[h] \in Waits => pc'[h] = pc[h]

LEMMA ExchangeCalmInv ==
  ASSUME OneExchange, Expected, Responding, ExchangeCalm
  PROVE  OneExchange' /\ Expected' /\ Responding'
<1>1. \A P \in {Subs, Unsubs, Exchanges} :
        FewerOf(toServer, toServer', P) /\ FewerOf(toClient, toClient', P)
  BY DEF ExchangeCalm
<1>2. /\ \A h \in Goroutines : Passing(h)' => Passing(h) /\ arg'[h] = arg[h]
      /\ answers' \subseteq answers
      /\ \A h \in Goroutines : pc[h] \in Waits => pc'[h] = pc[h]
  BY DEF ExchangeCalm
<1>3. /\ NonePassing => NonePassing'
      /\ answers = {} => answers' = {}
  BY <1>2 DEF NonePassing
<1>4. OneExchange'
  BY <1>1, <1>2, <1>3 DEF OneExchange, FewerOf
<1>5. \A P \in {Subs, Unsubs} : Unasked(P) => Unasked(P)'
  BY <1>1, <1>2 DEF Unasked, FewerOf
<1>6. Expected'
  BY <1>2, <1>5 DEF Expected, Waits
<1>7. Responding'
  BY <1>2 DEF Responding
<1>8. QED
  BY <1>4, <1>6, <1>7

LEMMA SubscribeFrame ==
  ASSUME TypeOK, NEW g \in Goroutines, Call(g) \/ Step(g), ~ PollRead(g),
         NEW h \in Goroutines
  PROVE  /\ pc'[h] \in SubscribePoints =>
              pc[h] \in SubscribePoints \/ MaySubscribe(h)
         /\ Passing(h)' => Passing(h) /\ arg'[h] = arg[h]
         /\ \/ pc[h] \in Waits => pc'[h] = pc[h]
            \/ SubscribeAnswer(g) \/ UnsubscribeAnswer(g)
<1>1. CASE PollPuback(g) \/ PollPubcomp(g)
  <2>1. \/ pc'[h] = pc[h] /\ arg'[h] = arg[h]
        \/ h = g /\ pc'[h] \in {"idle", "poll_fanout"}
        \/ pc[h] = "pub_parked" /\ pc'[h] = "pub_relock"
    BY <1>1, NobodyApart, CallTyped DEF PollPuback, PollPubcomp, Completed,
       GotoReleasing, Released, Parked, At
  <2>2. pc[g] \in {"poll_puback", "poll_pubcomp"}
    BY <1>1 DEF PollPuback, PollPubcomp, At
  <2>3. QED
    BY <2>1, <2>2 DEF Passing, SubscribePoints, Waits
<1>2. CASE Call(g)
  BY <1>2, CallTyped DEF Call, ConnectCall, DisconnectCall, KeepAliveCall,
     PublishCall, PollCall, SubscribeCall, UnsubscribeCall, Begin, Goto, At,
     Passing, SubscribePoints, Waits, MaySubscribe
<1>3. CASE ConnectStep(g) \/ DisconnectStep(g) \/ KeepAliveStep(g)
  BY <1>3, CallTyped DEF ConnectStep, DisconnectStep, KeepAliveStep,
     ConnectLock, ConnectSend, ConnectFail, ConnectAck, ConnectReturn,
     DisconnectLock, DisconnectSend, KeepAliveLock, KeepAliveSend, Done, Goto,
     At, Passing, SubscribePoints, Waits
<1>4. CASE PublishStep(g)
  BY <1>4, CallTyped DEF PublishStep, PublishLock, PublishStore,
     PublishQuota, PublishPark, PublishRelock, PublishSend, PublishCount,
     Done, Goto, At, Passing, SubscribePoints, Waits
<1>5. CASE PollStep(g)
  BY <1>1, <1>5, CallTyped DEF PollStep, PollLock, PollNothing, PollPublish,
     DisconnectWithReason, PollAck, PollCredit, PollRoute, PollSignal,
     PollStore, PollPubrec, PollPubrel, PollRelease, PollResponse,
     PollFanout, PollPingresp, PollDisconnect, Panic, PollReturn,
     Done, Goto, At, callVars, Passing, SubscribePoints, Waits
<1>6. CASE SubscribeStep(g) \/ UnsubscribeStep(g)
  BY <1>6, CallTyped DEF SubscribeStep, UnsubscribeStep, SubscribeLock,
     SubscribeSend, SubscribeAnswer, SubscribeBind, SubscribeUnregister,
     SubscribeClose, ResponseDelete, UnsubscribeSend, UnsubscribeAnswer,
     UnsubscribeFind, UnsubscribeClose, UnsubscribeRemove,
     UnsubscribeUnlock, ReturnSubscribe, Panic, Done, Goto, At, callVars,
     Passing, SubscribePoints, Waits
<1>7. QED
  BY <1>2, <1>3, <1>4, <1>5, <1>6 DEF Step

LEMMA AnswersFrame ==
  ASSUME NEW g \in Goroutines, Call(g) \/ Step(g), ~ PollResponse(g)
  PROVE  answers' \subseteq answers
<1>1. CASE Call(g)
  BY <1>1 DEF Call, ConnectCall, DisconnectCall, KeepAliveCall, PublishCall,
     PollCall, SubscribeCall, UnsubscribeCall, eventVars, respVars
<1>2. CASE \/ ConnectStep(g) \/ DisconnectStep(g) \/ KeepAliveStep(g)
           \/ PublishStep(g)
  BY <1>2 DEF ConnectStep, DisconnectStep, KeepAliveStep, ConnectLock,
     ConnectSend, ConnectFail, ConnectAck, DisconnectLock, DisconnectSend,
     KeepAliveLock, KeepAliveSend, PublishStep, PublishLock, PublishStore,
     PublishQuota, PublishPark, PublishRelock, PublishSend, PublishCount,
     Signal, eventVars, respVars
<1>3. CASE PollStep(g)
  BY <1>3 DEF PollStep, PollLock, PollNothing, PollRead, PollPublish,
     PollAck, PollCredit, PollRoute, PollSignal, PollStore, PollPuback,
     PollPubcomp, Completed, PollPubrec, PollPubrel, PollRelease,
     PollFanout, PollPingresp, PollDisconnect, Panic, Signal,
     eventVars, respVars
<1>4. CASE SubscribeStep(g) \/ UnsubscribeStep(g)
  BY <1>4 DEF SubscribeStep, UnsubscribeStep, SubscribeLock, SubscribeSend,
     SubscribeAnswer, SubscribeBind, SubscribeUnregister, SubscribeClose,
     ResponseDelete, UnsubscribeSend, UnsubscribeAnswer, UnsubscribeFind,
     UnsubscribeClose, UnsubscribeRemove, UnsubscribeUnlock, Panic,
     eventVars, respVars
<1>5. QED
  BY <1>1, <1>2, <1>3, <1>4 DEF Step

LEMMA PublishersStay ==
  ASSUME TypeOK, Publishers, NEW g \in Goroutines, Call(g) \/ Step(g)
  PROVE  Publishers'
<1>1. CASE ~ Handles(g)
  BY <1>1, GoroutineQuiet DEF QuietCalls, Publishers
<1>2. CASE PollRead(g)
  <2>1. /\ \A h \in Goroutines \ {g} : arg'[h] = arg[h] /\ pc'[h] = pc[h]
        /\ pc'[g] = "idle" \/ \E t \in DOMAIN Handler : pc'[g] = Handler[t]
    BY <1>2, CallTyped DEF PollRead, PollReturn, Done, Goto
  <2>2. pc'[g] \notin PublishPoints
    BY <2>1 DEF Handler, PublishPoints, Preparations
  <2>3. QED
    BY <2>1, <2>2 DEF Publishers
<1>3. CASE PollPublish(g) \/ PollAck(g) \/ PollCredit(g) \/ PollRelease(g)
  BY <1>3, CallTyped DEF PollPublish, PollAck, PollCredit, PollRelease,
     DisconnectWithReason, PollReturn, Done, Goto, Publishers, PublishPoints,
     Preparations
<1>4. QED
  BY <1>1, <1>2, <1>3 DEF Handles

LEMMA QueuesFrame ==
  ASSUME TypeOK, Publishers, NEW g \in Goroutines, Call(g) \/ Step(g),
         pc[g] \notin {"sub_send", "unsub_lock"}
  PROVE  \A P \in {Subs, Unsubs, Exchanges} :
           FewerOf(toServer, toServer', P) /\ FewerOf(toClient, toClient', P)
<1> SUFFICES ASSUME NEW P \in {Subs, Unsubs, Exchanges}
             PROVE  /\ FewerOf(toServer, toServer', P)
                    /\ FewerOf(toClient, toClient', P)
  OBVIOUS
<1>1. pc[g] = "pub_send" => arg[g].type = "PUBLISH"
  BY DEF Publishers, PublishPoints, Preparations
<1>2. \A p \in Packets : Writes(g, p) => p \notin P
  BY <1>1 DEF Writes, Subs, Unsubs, Exchanges, Packet
<1>3. FewerOf(toServer, toServer', P)
  BY <1>2, GoroutineWrites, WireTyped, QueueFewer
<1>4. FewerOf(toClient, toClient', P)
  BY GoroutineReads, WireTyped, QueueFewer
<1>5. QED
  BY <1>3, <1>4

LEMMA PollReadExchange ==
  ASSUME TypeOK, ExchangeInv, NEW g \in Goroutines, PollRead(g)
  PROVE  ExchangeInv'
<1>1. Step(g) /\ pc[g] = "poll_read" /\ toClient # <<>>
      /\ toClient' = Tail(toClient) /\ UNCHANGED <<toServer, answers>>
  BY DEF Step, PollStep, PollRead, At, eventVars, respVars
<1>2. PICK p : p = Head(toClient)
  OBVIOUS
<1>3. p \in Packets
  BY <1>1, <1>2, WireTyped
<1>4. /\ \A h \in Goroutines \ {g} : arg'[h] = arg[h] /\ pc'[h] = pc[h]
      /\ \/ pc'[g] = "idle"
         \/ /\ p.type \in DOMAIN Handler
            /\ arg'[g] = p /\ pc'[g] = Handler[p.type]
  BY <1>2, CallTyped DEF PollRead, PollReturn, Done, Goto
<1>5. /\ pc'[g] \notin SubscribePoints
      /\ Passing(g)' => /\ p.type \in {"SUBACK", "UNSUBACK"} /\ arg'[g] = p
  BY <1>4 DEF Handler, Passing, SubscribePoints
<1>6. Subscribers' /\ Publishers'
  BY <1>1, <1>4, <1>5, PublishersStay DEF ExchangeInv, Subscribers
<1>7. /\ \A P \in {Subs, Unsubs, Exchanges} :
           FewerOf(toServer, toServer', P) /\ FewerOf(toClient, toClient', P)
      /\ \A h \in Goroutines : pc[h] \in Waits => pc'[h] = pc[h]
      /\ OneExchange /\ Expected /\ Responding
  BY <1>1, <1>4, QueuesFrame DEF ExchangeInv, Waits
<1>8. CASE Passing(g)'
  <2>1. p \in Exchanges
    BY <1>3, <1>5, <1>8 DEF Exchanges, Subs, Unsubs
  <2>2. ~ NoneOf(toClient, Exchanges) /\ NoneOf(toClient', Exchanges)
    BY <1>1, <1>2, <1>7, <2>1, WireTyped, QueueTail DEF OneExchange
  <2>3. NoneOf(toServer, Exchanges) /\ NonePassing /\ answers = {}
    BY <1>7, <2>2 DEF OneExchange
  <2>4. OneExchange'
    BY <1>1, <1>7, <2>2, <2>3 DEF OneExchange, FewerOf
  <2>5. \A P \in {Subs, Unsubs} : Unasked(P) => Unasked(P)'
    <3> SUFFICES ASSUME NEW P \in {Subs, Unsubs}, Unasked(P)
                 PROVE  Unasked(P)'
      OBVIOUS
    <3>1. p \notin P
      BY <1>1, <1>2, WireTyped, QueueTail DEF Unasked
    <3>2. \A h \in Goroutines : Passing(h)' => h = g
      BY <1>4, <2>3 DEF NonePassing, Passing
    <3>3. QED
      BY <1>1, <1>5, <1>7, <2>3, <3>1, <3>2 DEF Unasked, FewerOf
  <2>6. Expected'
    BY <1>7, <2>5 DEF Expected, Waits
  <2>7. Responding'
    BY <1>1, <1>4, <1>5, <2>3 DEF Responding, NonePassing, Passing
  <2>8. QED
    BY <1>6, <2>4, <2>6, <2>7 DEF ExchangeInv
<1>9. CASE ~ Passing(g)'
  <2>1. ExchangeCalm
    BY <1>1, <1>4, <1>7, <1>9 DEF ExchangeCalm, Passing
  <2>2. QED
    BY <1>6, <1>7, <2>1, ExchangeCalmInv DEF ExchangeInv
<1>10. QED
  BY <1>8, <1>9

(* With nobody at the two waits nothing is under way. *)
LEMMA NothingUnderWay ==
  ASSUME OneSubscriber, TypeOK, ExchangeInv, NEW g \in Goroutines,
         pc[g] \in SubscribePoints \ Waits
  PROVE  /\ \A h \in Goroutines : pc[h] \notin Waits
         /\ NoneOf(toServer, Exchanges) /\ NoneOf(toClient, Exchanges)
         /\ NonePassing /\ answers = {}
<1>1. \A h \in Goroutines : pc[h] \notin Waits
  BY DEF OneSubscriber, ExchangeInv, Subscribers, SubscribePoints, Waits
<1>2. Unasked(Subs) /\ Unasked(Unsubs)
  BY <1>1 DEF ExchangeInv, Expected, Waits
<1>3. NoneOf(toServer, Exchanges) /\ NoneOf(toClient, Exchanges)
  BY <1>2 DEF Unasked, NoneOf, Exchanges
<1>4. /\ \A h \in Goroutines : Passing(h) => arg[h] \in Packets
      /\ \A a \in answers : a.packet \in Packets
  BY CallTyped DEF TypeOK, ClientType, EventType, ResponseType
<1>5. NonePassing
  BY <1>2, <1>4 DEF NonePassing, Unasked, ExchangeInv, Responding, Subs,
     Unsubs
<1>6. answers = {}
  BY <1>2, <1>4 DEF Unasked, ExchangeInv, Responding, Subs, Unsubs
<1>7. QED
  BY <1>1, <1>3, <1>5, <1>6

LEMMA RequestExchange ==
  ASSUME TypeOK, OneSubscriber, ExchangeInv, NEW g \in Goroutines,
         SubscribeSend(g) \/ UnsubscribeSend(g)
  PROVE  ExchangeInv'
<1>1. Step(g) /\ pc[g] \in {"sub_send", "unsub_lock"} /\ ~ PollRead(g)
      /\ UNCHANGED <<toClient, answers>>
  BY DEF Step, SubscribeStep, UnsubscribeStep, SubscribeSend,
     UnsubscribeSend, PollRead, At
<1>2. /\ \A h \in Goroutines : pc[h] \notin Waits
      /\ NoneOf(toServer, Exchanges) /\ NoneOf(toClient, Exchanges)
      /\ NonePassing /\ answers = {}
  BY <1>1, NothingUnderWay DEF SubscribePoints, Waits
<1>3. Subscribers' /\ Publishers' /\ NonePassing'
  BY <1>1, <1>2, SubscribeFrame, PublishersStay
     DEF ExchangeInv, Subscribers, NonePassing
<1>4. /\ NoneOf(toServer, Subs) /\ NoneOf(toServer, Unsubs)
      /\ NoneOf(toClient, Subs) /\ NoneOf(toClient, Unsubs)
  BY <1>2 DEF NoneOf, Exchanges
<1>5. OneOf(toServer, Exchanges) /\ OneOf(toClient, Exchanges)
  BY <1>2 DEF NoneOf, OneOf
<1>6. CASE toServer' = toServer
  BY <1>1, <1>2, <1>3, <1>4, <1>5, <1>6
     DEF ExchangeInv, OneExchange, Expected, Unasked, Responding, NonePassing
<1>7. CASE toServer' # toServer
  <2>1. PICK p \in Packets : Writes(g, p) /\ toServer' = Append(toServer, p)
    BY <1>1, <1>7, GoroutineWrites
  <2>2. OneOf(toServer', Exchanges)
    BY <1>2, <2>1, WireTyped, QueueAppend
  <2>3. OneExchange'
    BY <1>1, <1>2, <1>3, <1>5, <2>2 DEF OneExchange
  <2>4. CASE SubscribeSend(g)
    <3>1. pc[g] = "sub_send" /\ pc'[g] = "sub_wait"
      BY <1>7, <2>4, CallTyped DEF SubscribeSend, Goto, At
    <3>2. PICK fs : toServer' = Append(toServer, fs) /\ fs.type = "SUBSCRIBE"
                    /\ fs \in Packets
      BY <2>4, <1>7, RequestTyped DEF SubscribeSend, Write, About, Packet,
         TypeOK, ClientType, EventType
    <3>3. NoneOf(toServer', Unsubs)
      BY <1>4, <3>2, WireTyped, QueueAppend DEF Unsubs
    <3>4. QED
      BY <1>1, <1>2, <1>3, <1>4, <2>3, <3>1, <3>3
         DEF ExchangeInv, Expected, Unasked, Responding, NonePassing
  <2>5. CASE UnsubscribeSend(g)
    <3>1. pc[g] = "unsub_lock" /\ pc'[g] = "unsub_wait"
      BY <1>7, <2>5, CallTyped DEF UnsubscribeSend, Goto, At
    <3>2. PICK fs : toServer' = Append(toServer, fs) /\ fs.type = "UNSUBSCRIBE"
                    /\ fs \in Packets
      BY <2>5, <1>7, RequestTyped DEF UnsubscribeSend, Write, About, Packet,
         TypeOK, ClientType, EventType
    <3>3. NoneOf(toServer', Subs)
      BY <1>4, <3>2, WireTyped, QueueAppend DEF Subs
    <3>4. QED
      BY <1>1, <1>2, <1>3, <1>4, <2>3, <3>1, <3>3
         DEF ExchangeInv, Expected, Unasked, Responding, NonePassing
  <2>6. QED
    BY <2>4, <2>5
<1>8. QED
  BY <1>6, <1>7

(* The response channel of a call that no longer waits gets no response. *)
LEMMA ResponseExpected ==
  ASSUME TypeOK, OneSubscriber, ExchangeInv, NEW g \in Goroutines,
         PollResponse(g)
  PROVE  crashed' = crashed /\ pc' = [pc EXCEPT ![g] = "poll_fanout"]
         /\ UNCHANGED <<toServer, toClient, arg>>
         /\ \/ answers' = answers
            \/ \E c : answers' = answers \cup {[to |-> c, packet |-> arg[g]]}
<1>1. PICK c : c = responseChan[arg[g].id]
  OBVIOUS
<1>2. c = NoOne \/ c \in Goroutines \X Nat
  BY <1>1, CallTyped DEF TypeOK, ClientType, EventType, ResponseType
<1>3. ~ (c # NoOne /\ ResponseClosed(c))
  <2> SUFFICES ASSUME c # NoOne, ResponseClosed(c)
               PROVE  FALSE
    OBVIOUS
  <2>1. c[1] \in Goroutines /\ pc[c[1]] = "sub_delete"
    BY <1>2 DEF ResponseClosed, At
  <2>2. NonePassing
    BY <2>1, NothingUnderWay DEF SubscribePoints, Waits
  <2>3. QED
    BY <2>2 DEF PollResponse, At, NonePassing, Passing
<1>4. QED
  BY <1>1, <1>3 DEF PollResponse, Goto, wireVars

LEMMA PollResponseExchange ==
  ASSUME TypeOK, LockInv, OneSubscriber, ExchangeInv, NEW g \in Goroutines,
         PollResponse(g)
  PROVE  ExchangeInv'
<1>1. Step(g) /\ Passing(g) /\ ~ PollRead(g) /\ ~ SubscribeAnswer(g)
      /\ ~ UnsubscribeAnswer(g)
  BY DEF Step, PollStep, PollResponse, PollRead, SubscribeAnswer,
     UnsubscribeAnswer, At, Passing
<1>2. /\ pc' = [pc EXCEPT ![g] = "poll_fanout"]
      /\ UNCHANGED <<toServer, toClient, arg>>
      /\ \/ answers' = answers
         \/ \E c : answers' = answers \cup {[to |-> c, packet |-> arg[g]]}
  BY ResponseExpected
<1>3. Subscribers' /\ Publishers'
  BY <1>1, SubscribeFrame, PublishersStay DEF ExchangeInv, Subscribers
<1>4. /\ OneExchange /\ Expected /\ Responding
      /\ NoneOf(toServer, Exchanges) /\ NoneOf(toClient, Exchanges)
      /\ answers = {} /\ arg[g].type \in {"SUBACK", "UNSUBACK"}
  BY <1>1 DEF ExchangeInv, OneExchange, NonePassing, Responding
<1>5. NonePassing'
  BY <1>1, <1>2, CallTyped, HandlerAlone DEF NonePassing, Passing, PollHolds
<1>6. \A a \in answers' : a.packet = arg[g] /\ \A b \in answers' : a = b
  BY <1>2, <1>4
<1>7. OneExchange'
  BY <1>2, <1>4, <1>5, <1>6 DEF OneExchange
<1>8. \A P \in {Subs, Unsubs} : Unasked(P) => Unasked(P)'
  BY <1>1, <1>2, <1>5, <1>6 DEF Unasked, NonePassing
<1>9. \A h \in Goroutines : pc[h] \in Waits => pc'[h] = pc[h]
  BY <1>1, SubscribeFrame
<1>10. Expected'
  BY <1>4, <1>8, <1>9 DEF Expected, Waits
<1>11. Responding'
  BY <1>4, <1>5, <1>6 DEF Responding, NonePassing
<1>12. QED
  BY <1>3, <1>7, <1>10, <1>11 DEF ExchangeInv

(* A call of Subscribe gets a SUBACK. *)
LEMMA AnswerExpected ==
  ASSUME TypeOK, OneSubscriber, ExchangeInv, NEW g \in Goroutines,
         SubscribeAnswer(g)
  PROVE  /\ crashed' = crashed /\ pc' = [pc EXCEPT ![g] = "sub_bind"]
         /\ UNCHANGED <<toServer, toClient>>
         /\ answers # {} /\ answers' = {}
<1>1. PICK a \in answers :
        /\ a.to = CallOf(g)
        /\ \/ a.packet.type # "SUBACK" /\ Panic
           \/ /\ a.packet.type = "SUBACK"
              /\ answers' = answers \ {a}
              /\ Goto(g, "sub_bind")
              /\ UNCHANGED <<toServer, toClient, crashed>>
  BY DEF SubscribeAnswer, wireVars
<1>2. a.packet.type = "SUBACK"
  <2> SUFFICES ASSUME a.packet.type # "SUBACK"
               PROVE  FALSE
    OBVIOUS
  <2>1. a.packet \in Packets /\ a.packet.type = "UNSUBACK"
    BY DEF TypeOK, ClientType, EventType, ResponseType, ExchangeInv,
       Responding
  <2>2. ~ Unasked(Unsubs)
    BY <2>1 DEF Unasked, Unsubs
  <2>3. PICK h \in Goroutines : pc[h] = "unsub_wait"
    BY <2>2 DEF ExchangeInv, Expected
  <2>4. pc[g] = "sub_wait"
    BY DEF SubscribeAnswer, At
  <2>5. g = h
    BY <2>3, <2>4 DEF OneSubscriber, ExchangeInv, Subscribers,
       SubscribePoints
  <2>6. QED
    BY <2>3, <2>4, <2>5
<1>3. \A b \in answers : b = a
  BY DEF ExchangeInv, OneExchange
<1>4. QED
  BY <1>1, <1>2, <1>3 DEF Goto

LEMMA AnswerExchange ==
  ASSUME TypeOK, OneSubscriber, ExchangeInv, NEW g \in Goroutines,
         SubscribeAnswer(g) \/ UnsubscribeAnswer(g)
  PROVE  ExchangeInv'
<1>1. Step(g) /\ ~ PollRead(g)
  BY DEF Step, SubscribeStep, UnsubscribeStep, PollRead, SubscribeAnswer,
     UnsubscribeAnswer, At
<1>2. UNCHANGED <<toServer, toClient>> /\ answers # {} /\ answers' = {}
  <2>1. CASE UnsubscribeAnswer(g)
    <3>1. \A a, b \in answers : a = b
      BY DEF ExchangeInv, OneExchange
    <3>2. QED
      BY <2>1, <3>1 DEF UnsubscribeAnswer, wireVars
  <2>2. QED
    BY <2>1, AnswerExpected
<1>3. /\ NoneOf(toServer, Exchanges) /\ NoneOf(toClient, Exchanges)
      /\ NonePassing
      /\ OneOf(toServer, Exchanges) /\ OneOf(toClient, Exchanges)
  BY <1>2 DEF ExchangeInv, OneExchange
<1>4. Subscribers' /\ Publishers' /\ NonePassing'
  BY <1>1, <1>3, SubscribeFrame, PublishersStay
     DEF ExchangeInv, Subscribers, NonePassing
<1>5. /\ NoneOf(toServer, Subs) /\ NoneOf(toServer, Unsubs)
      /\ NoneOf(toClient, Subs) /\ NoneOf(toClient, Unsubs)
  BY <1>3 DEF NoneOf, Exchanges
<1>6. QED
  BY <1>2, <1>3, <1>4, <1>5
     DEF ExchangeInv, OneExchange, Expected, Unasked, Responding, NonePassing

LEMMA AtRequest ==
  ASSUME NEW g \in Goroutines, Call(g) \/ Step(g),
         pc[g] \in {"sub_send", "unsub_lock"}
  PROVE  SubscribeSend(g) \/ UnsubscribeSend(g)
<1>1. ~ Call(g) /\ ~ PublishStep(g)
  BY DEF Call, ConnectCall, DisconnectCall, KeepAliveCall, PublishCall,
     PollCall, SubscribeCall, UnsubscribeCall, Begin, At, PublishStep,
     PublishLock, PublishStore, PublishQuota, PublishPark, PublishRelock,
     PublishSend, PublishCount
<1>2. ~ ConnectStep(g) /\ ~ DisconnectStep(g) /\ ~ KeepAliveStep(g)
  BY DEF ConnectStep, DisconnectStep, KeepAliveStep, ConnectLock,
     ConnectSend, ConnectFail, ConnectAck, DisconnectLock, DisconnectSend,
     KeepAliveLock, KeepAliveSend, At
<1>3. ~ PollStep(g)
  BY DEF PollStep, PollLock, PollNothing, PollRead, PollPublish, PollAck,
     PollCredit, PollRoute, PollSignal, PollStore, PollPuback, PollPubcomp,
     PollPubrec, PollPubrel, PollRelease, PollResponse, PollFanout,
     PollPingresp, PollDisconnect, At
<1>4. QED
  BY <1>1, <1>2, <1>3 DEF Step, SubscribeStep, UnsubscribeStep,
     SubscribeLock, SubscribeAnswer, SubscribeBind, SubscribeUnregister,
     SubscribeClose, ResponseDelete, UnsubscribeAnswer, UnsubscribeFind,
     UnsubscribeClose, UnsubscribeRemove, UnsubscribeUnlock, At

LEMMA GoroutineExchange ==
  ASSUME TypeOK, LockInv, OneSubscriber, ExchangeInv, NEW g \in Goroutines,
         Call(g) \/ Step(g)
  PROVE  ExchangeInv'
<1>1. CASE \/ PollRead(g) \/ PollResponse(g)
           \/ SubscribeAnswer(g) \/ UnsubscribeAnswer(g)
  BY <1>1, PollReadExchange, PollResponseExchange, AnswerExchange
<1>2. CASE pc[g] \in {"sub_send", "unsub_lock"}
  BY <1>2, AtRequest, RequestExchange
<1>3. CASE /\ ~ PollRead(g) /\ ~ PollResponse(g)
           /\ ~ SubscribeAnswer(g) /\ ~ UnsubscribeAnswer(g)
           /\ pc[g] \notin {"sub_send", "unsub_lock"}
  <2>1. OneExchange /\ Expected /\ Responding /\ Subscribers /\ Publishers
    BY DEF ExchangeInv
  <2>2. ExchangeCalm
    BY <1>3, <2>1, QueuesFrame, SubscribeFrame, AnswersFrame
       DEF ExchangeCalm
  <2>3. Subscribers'
    BY <1>3, <2>1, SubscribeFrame DEF Subscribers
  <2>4. Publishers'
    BY <2>1, PublishersStay
  <2>5. QED
    BY <2>1, <2>2, <2>3, <2>4, ExchangeCalmInv DEF ExchangeInv
<1>4. QED
  BY <1>1, <1>2, <1>3

LEMMA BrokerAnswers ==
  ASSUME TypeOK, ExchangeInv, TakeSubscribe \/ TakeUnsubscribe
  PROVE  OneExchange' /\ Expected' /\ Responding'
<1>1. OneExchange /\ Expected /\ Responding
  BY DEF ExchangeInv
<1>2. /\ toServer # <<>> /\ toServer' = Tail(toServer)
      /\ UNCHANGED <<pc, arg, answers>>
  BY DEF TakeSubscribe, TakeUnsubscribe, Takes, clientOnly, callVars,
     eventVars, respVars
<1>3. PICK q : q = Head(toServer)
  OBVIOUS
<1>4. /\ q \in Packets
      /\ TakeSubscribe => q.type = "SUBSCRIBE"
      /\ TakeUnsubscribe => q.type = "UNSUBSCRIBE"
  BY <1>2, <1>3, WireTyped DEF TakeSubscribe, TakeUnsubscribe, Takes
<1>5. q \in Exchanges
  BY <1>4 DEF Exchanges, Subs, Unsubs
<1>6. /\ ~ NoneOf(toServer, Exchanges) /\ NoneOf(toServer', Exchanges)
      /\ OneOf(toServer', Exchanges)
  BY <1>1, <1>2, <1>3, <1>5, WireTyped, QueueTail DEF OneExchange
<1>7. NoneOf(toClient, Exchanges) /\ NonePassing /\ answers = {}
  BY <1>1, <1>6 DEF OneExchange
<1>8. OneOf(toClient', Exchanges)
  BY <1>1, <1>7, BrokerSays, WireTyped, QueueAppend DEF OneExchange, BrokerStep,
     BrokerTakes
<1>9. OneExchange'
  BY <1>2, <1>6, <1>7, <1>8 DEF OneExchange, NonePassing, Passing
<1>10. \A P \in {Subs, Unsubs} : Unasked(P) => Unasked(P)'
  <2> SUFFICES ASSUME NEW P \in {Subs, Unsubs}, Unasked(P)
               PROVE  Unasked(P)'
    OBVIOUS
  <2>1. q \notin P /\ NoneOf(toServer', P)
    BY <1>2, <1>3, WireTyped, QueueTail DEF Unasked
  <2>2. \/ TakeSubscribe /\ P = Unsubs
        \/ TakeUnsubscribe /\ P = Subs
    BY <1>4, <2>1 DEF Subs, Unsubs
  <2>3. \/ toClient' = toClient
        \/ \E p \in Packets : p \notin P /\ toClient' = Append(toClient, p)
    <3>1. CASE TakeSubscribe /\ P = Unsubs
      <4>1. \A fs \in SUBSET Filters :
              LET p == About(Packet("SUBACK", q.id), fs)
              IN  p \in Packets /\ p.type = "SUBACK"
        BY <1>4, PacketTyped, AboutTyped DEF About, Packet, PacketTypes,
           Packets
      <4>2. PICK fs \in SUBSET Filters :
              Answer(About(Packet("SUBACK", q.id), fs))
        BY <1>3, <1>4, <3>1 DEF TakeSubscribe, Grants, Packets
      <4>3. QED
        BY <3>1, <4>1, <4>2 DEF Answer, Unsubs
    <3>2. CASE TakeUnsubscribe /\ P = Subs
      <4>1. LET p == Packet("UNSUBACK", q.id)
            IN  p \in Packets /\ p.type = "UNSUBACK"
        BY <1>4, PacketTyped DEF Packet, PacketTypes, Packets
      <4>2. Answer(Packet("UNSUBACK", q.id))
        BY <1>3, <3>2 DEF TakeUnsubscribe
      <4>3. QED
        BY <3>2, <4>1, <4>2 DEF Answer, Subs
    <3>3. QED
      BY <2>2, <3>1, <3>2
  <2>4. NoneOf(toClient', P)
    BY <2>3, WireTyped, QueueAppend DEF Unasked
  <2>5. QED
    BY <1>2, <2>1, <2>4 DEF Unasked, Passing
<1>11. Expected'
  BY <1>1, <1>2, <1>10 DEF Expected
<1>12. Responding'
  BY <1>1, <1>2 DEF Responding, Passing
<1>13. QED
  BY <1>9, <1>11, <1>12

LEMMA BrokerExchange ==
  ASSUME TypeOK, OneSubscriber, ExchangeInv, BrokerStep
  PROVE  ExchangeInv' /\ UNCHANGED <<callVars, eventVars>>
<1>1. UNCHANGED <<callVars, eventVars>>
  BY DEF BrokerStep, BrokerTakes, TakeConnect, TakePublish, TakePubrel,
     TakePuback, TakePubrec, TakePubcomp, TakePingreq, TakeDisconnect,
     TakeSubscribe, TakeUnsubscribe, Takes, BrokerPublish, BrokerResend,
     BrokerUnprompted, clientOnly
<1>2. UNCHANGED <<pc, arg, answers>>
  BY <1>1 DEF callVars, eventVars, respVars
<1>3. Subscribers' /\ Publishers'
  BY <1>2 DEF ExchangeInv, Subscribers, Publishers
<1>4. CASE TakeSubscribe \/ TakeUnsubscribe
  BY <1>1, <1>3, <1>4, BrokerAnswers DEF ExchangeInv
<1>5. CASE ~ (TakeSubscribe \/ TakeUnsubscribe)
  <2>1. \A p \in Packets : Says(p) => p \notin Exchanges
    <3> SUFFICES ASSUME NEW p \in Packets, Says(p)
                 PROVE  p.type \notin {"SUBSCRIBE", "SUBACK", "UNSUBSCRIBE",
                                       "UNSUBACK"}
      BY DEF Exchanges, Subs, Unsubs
    <3>1. CASE \E t \in Unprompted : p = Packet(t, 0)
      BY <3>1 DEF OneSubscriber, Packet
    <3>2. QED
      BY <1>5, <3>1 DEF Says, Packet
  <2>2. \A P \in {Subs, Unsubs, Exchanges} : P \subseteq Exchanges
    BY DEF Exchanges
  <2>3. ASSUME NEW P \in {Subs, Unsubs, Exchanges}
        PROVE  FewerOf(toServer, toServer', P) /\ FewerOf(toClient, toClient', P)
    BY <2>1, <2>2, BrokerSays, BrokerTakesOne, WireTyped, QueueFewer
  <2>4. ExchangeCalm
    BY <1>2, <2>3 DEF ExchangeCalm, Passing
  <2>5. QED
    BY <1>1, <1>3, <2>4, ExchangeCalmInv DEF ExchangeInv
<1>6. QED
  BY <1>4, <1>5

-----------------------------------------------------------------------------
(* The fan-out: a channel that it has fetched and that Subscribe has then  *)
(* taken from the general ones stays open until the fan-out is over.  Only *)
(* Unsubscribe, of the same goroutine, could close it, after a response;   *)
(* and Poll, which would pass that on, is in the fan-out.                  *)
Unsubscribes == {"unsub_find", "unsub_close", "unsub_remove"}
FetchedOpen ==
  fetched # {} =>
    /\ FanningOut # {} /\ answers = {}
    /\ \A g \in Goroutines : pc[g] \notin Unsubscribes
    /\ \A c \in fetched : chanState[c] = "open"

LEMMA FetchedFrame ==
  ASSUME NEW g \in Goroutines, Call(g) \/ Step(g), ~ SubscribeUnregister(g)
  PROVE  /\ fetched' \in {fetched, {}}
         /\ PollFanout(g) => fetched' = {}
         /\ PollSignal(g) /\ target = NoChannel => fetched' = {}
<1>1. CASE Call(g)
  BY <1>1 DEF Call, ConnectCall, DisconnectCall, KeepAliveCall, PublishCall,
     PollCall, SubscribeCall, UnsubscribeCall, Begin, PollFanout, PollSignal,
     At, eventVars, chanVars
<1>2. CASE \/ ConnectStep(g) \/ DisconnectStep(g) \/ KeepAliveStep(g)
           \/ PublishStep(g)
  BY <1>2 DEF ConnectStep, DisconnectStep, KeepAliveStep, ConnectLock,
     ConnectSend, ConnectFail, ConnectAck, DisconnectLock, DisconnectSend,
     KeepAliveLock, KeepAliveSend, PublishStep, PublishLock, PublishStore,
     PublishQuota, PublishPark, PublishRelock, PublishSend, PublishCount,
     PollFanout, PollSignal, At, Signal, eventVars, chanVars
<1>3. CASE PollFanout(g) \/ PollSignal(g)
  BY <1>3 DEF PollFanout, PollSignal, At, Signal, Panic, chanVars
<1>4. CASE PollStep(g) /\ ~ PollFanout(g) /\ ~ PollSignal(g)
  BY <1>4 DEF PollStep, PollLock, PollNothing, PollRead, PollPublish,
     PollAck, PollCredit, PollRoute, PollStore, PollPuback, PollPubcomp,
     Completed, PollPubrec, PollPubrel, PollRelease, PollResponse,
     PollPingresp, PollDisconnect, Panic, eventVars, chanVars
<1>5. CASE SubscribeStep(g) \/ UnsubscribeStep(g)
  BY <1>5 DEF SubscribeStep, UnsubscribeStep, SubscribeLock, SubscribeSend,
     SubscribeAnswer, SubscribeBind, SubscribeClose, ResponseDelete,
     UnsubscribeSend, UnsubscribeAnswer, UnsubscribeFind, UnsubscribeClose,
     UnsubscribeRemove, UnsubscribeUnlock, PollFanout, PollSignal, At, Panic,
     eventVars, chanVars
<1>6. QED
  BY <1>1, <1>2, <1>3, <1>4, <1>5 DEF Step

LEMMA AtFanout ==
  ASSUME NEW g \in Goroutines, Call(g) \/ Step(g),
         pc[g] \in {"poll_fanout", "poll_signal"}
  PROVE  PollFanout(g) \/ PollSignal(g)
<1>1. ~ Call(g) /\ ~ PublishStep(g)
  BY DEF Call, ConnectCall, DisconnectCall, KeepAliveCall, PublishCall,
     PollCall, SubscribeCall, UnsubscribeCall, Begin, At, PublishStep,
     PublishLock, PublishStore, PublishQuota, PublishPark, PublishRelock,
     PublishSend, PublishCount
<1>2. ~ ConnectStep(g) /\ ~ DisconnectStep(g) /\ ~ KeepAliveStep(g)
  BY DEF ConnectStep, DisconnectStep, KeepAliveStep, ConnectLock,
     ConnectSend, ConnectFail, ConnectAck, DisconnectLock, DisconnectSend,
     KeepAliveLock, KeepAliveSend, At
<1>3. ~ SubscribeStep(g) /\ ~ UnsubscribeStep(g)
  BY DEF SubscribeStep, UnsubscribeStep, SubscribeLock, SubscribeSend,
     SubscribeAnswer, SubscribeBind, SubscribeUnregister, SubscribeClose,
     ResponseDelete, UnsubscribeSend, UnsubscribeAnswer, UnsubscribeFind,
     UnsubscribeClose, UnsubscribeRemove, UnsubscribeUnlock, At
<1>4. QED
  BY <1>1, <1>2, <1>3 DEF Step, PollStep, PollLock, PollNothing, PollRead,
     PollPublish, PollAck, PollCredit, PollRoute, PollStore, PollPuback,
     PollPubcomp, PollPubrec, PollPubrel, PollRelease, PollResponse,
     PollPingresp, PollDisconnect, At

LEMMA OtherCalls ==
  ASSUME TypeOK, NEW g \in Goroutines, Call(g) \/ Step(g),
         NEW h \in Goroutines, h # g
  PROVE  pc'[h] = pc[h] \/ (pc[h] = "pub_parked" /\ pc'[h] = "pub_relock")
<1>1. CASE PollPuback(g) \/ PollPubcomp(g)
  BY <1>1, NobodyApart DEF PollPuback, PollPubcomp, Completed, GotoReleasing,
     Released, Parked, At
<1>2. CASE Call(g)
  BY <1>2, CallTyped DEF Call, ConnectCall, DisconnectCall, KeepAliveCall,
     PublishCall, PollCall, SubscribeCall, UnsubscribeCall, Begin, Goto
<1>3. CASE \/ ConnectStep(g) \/ DisconnectStep(g) \/ KeepAliveStep(g)
           \/ PublishStep(g)
  BY <1>3, CallTyped DEF ConnectStep, DisconnectStep, KeepAliveStep,
     ConnectLock, ConnectSend, ConnectFail, ConnectAck, ConnectReturn,
     DisconnectLock, DisconnectSend, KeepAliveLock, KeepAliveSend,
     PublishStep, PublishLock, PublishStore, PublishQuota, PublishPark,
     PublishRelock, PublishSend, PublishCount, Done, Goto
<1>4. CASE PollStep(g)
  BY <1>1, <1>4, CallTyped DEF PollStep, PollLock, PollNothing, PollRead,
     PollPublish, DisconnectWithReason, PollAck, PollCredit, PollRoute,
     PollSignal, PollStore, PollPubrec, PollPubrel, PollRelease,
     PollResponse, PollFanout, PollPingresp, PollDisconnect, Panic,
     PollReturn, Done, Goto, callVars
<1>5. CASE SubscribeStep(g) \/ UnsubscribeStep(g)
  BY <1>5, CallTyped DEF SubscribeStep, UnsubscribeStep, SubscribeLock,
     SubscribeSend, SubscribeAnswer, SubscribeBind, SubscribeUnregister,
     SubscribeClose, ResponseDelete, UnsubscribeSend, UnsubscribeAnswer,
     UnsubscribeFind, UnsubscribeClose, UnsubscribeRemove,
     UnsubscribeUnlock, ReturnSubscribe, Panic, Done, Goto, callVars
<1>6. QED
  BY <1>2, <1>3, <1>4, <1>5 DEF Step

LEMMA UnsubscribesFrame ==
  ASSUME TypeOK, NEW g \in Goroutines, Call(g) \/ Step(g),
         ~ UnsubscribeAnswer(g), pc'[g] \in Unsubscribes
  PROVE  pc[g] \in Unsubscribes
<1>1. CASE PollPuback(g) \/ PollPubcomp(g)
  <2>1. pc'[g] \in {"idle", "poll_fanout"}
    BY <1>1 DEF PollPuback, PollPubcomp, Completed, GotoReleasing
  <2>2. QED
    BY <2>1 DEF Unsubscribes
<1>2. CASE Call(g)
  BY <1>2, CallTyped DEF Call, ConnectCall, DisconnectCall, KeepAliveCall,
     PublishCall, PollCall, SubscribeCall, UnsubscribeCall, Begin, Goto,
     Unsubscribes
<1>3. CASE \/ ConnectStep(g) \/ DisconnectStep(g) \/ KeepAliveStep(g)
           \/ PublishStep(g)
  BY <1>3, CallTyped DEF ConnectStep, DisconnectStep, KeepAliveStep,
     ConnectLock, ConnectSend, ConnectFail, ConnectAck, ConnectReturn,
     DisconnectLock, DisconnectSend, KeepAliveLock, KeepAliveSend,
     PublishStep, PublishLock, PublishStore, PublishQuota, PublishPark,
     PublishRelock, PublishSend, PublishCount, Done, Goto, Unsubscribes
<1>4. CASE PollRead(g)
  BY <1>4, CallTyped DEF PollRead, Handler, PollReturn, Done, Goto,
     Unsubscribes
<1>5. CASE PollStep(g) /\ ~ PollRead(g)
  BY <1>1, <1>5, CallTyped DEF PollStep, PollLock, PollNothing,
     PollPublish, DisconnectWithReason, PollAck, PollCredit, PollRoute,
     PollSignal, PollStore, PollPubrec, PollPubrel, PollRelease,
     PollResponse, PollFanout, PollPingresp, PollDisconnect, Panic,
     PollReturn, Done, Goto, callVars, Unsubscribes
<1>6. CASE SubscribeStep(g) \/ UnsubscribeStep(g)
  BY <1>6, CallTyped DEF SubscribeStep, UnsubscribeStep, SubscribeLock,
     SubscribeSend, SubscribeAnswer, SubscribeBind, SubscribeUnregister,
     SubscribeClose, ResponseDelete, UnsubscribeSend, UnsubscribeFind,
     UnsubscribeClose, UnsubscribeRemove, UnsubscribeUnlock, ReturnSubscribe,
     Panic, Done, Goto, At, callVars, Unsubscribes
<1>7. QED
  BY <1>2, <1>3, <1>4, <1>5, <1>6 DEF Step

(* Subscribe lets a fan-out keep a channel. *)
LEMMA UnregisterFetched ==
  ASSUME TypeOK, LockInv, OneSubscriber, CarefulInv, ExchangeInv, FetchedOpen,
         NEW g \in Goroutines, SubscribeUnregister(g)
  PROVE  FetchedOpen'
<1> DEFINE c == ChannelOf(Head(topics[g]))
<1>1. /\ pc \in [Goroutines -> Points]
      /\ pc[g] = "sub_unreg" /\ pc' = [pc EXCEPT ![g] = "sub_bind"]
      /\ UNCHANGED <<answers, chanState, target>>
      /\ \/ fetched' = fetched
         \/ /\ FanningOut # {} /\ NobodyCloses
            /\ c \in eventChans /\ fetched' = fetched \cup {c}
  BY CallTyped DEF SubscribeUnregister, Goto, At, respVars
<1>2. answers = {} /\ \A h \in Goroutines : pc[h] \notin Unsubscribes
  <2>1. answers = {}
    BY <1>1, NothingUnderWay DEF SubscribePoints, Waits
  <2>2. QED
    BY <1>1, <2>1 DEF OneSubscriber, ExchangeInv, Subscribers,
       SubscribePoints, Unsubscribes
<1>3. answers' = {} /\ \A h \in Goroutines : pc'[h] \notin Unsubscribes
  BY <1>1, <1>2 DEF Unsubscribes
<1>4. FanningOut # {} => FanningOut' # {}
  BY <1>1 DEF FanningOut, At
<1>5. CASE fetched' = fetched
  BY <1>1, <1>3, <1>4, <1>5 DEF FetchedOpen
<1>6. CASE /\ FanningOut # {} /\ NobodyCloses
           /\ c \in eventChans /\ fetched' = fetched \cup {c}
  <2>1. chanState[c] = "open"
    BY <1>6 DEF OneSubscriber, CarefulInv, CarefulParts, GeneralOpen,
       NobodyCloses, TypeOK, ClientType, EventType, ChanType
  <2>2. QED
    BY <1>1, <1>3, <1>4, <1>6, <2>1 DEF FetchedOpen
<1>7. QED
  BY <1>1, <1>5, <1>6

LEMMA GoroutineFetched ==
  ASSUME TypeOK, LockInv, OneSubscriber, CarefulInv, ExchangeInv, FetchedOpen,
         NEW g \in Goroutines, Call(g) \/ Step(g)
  PROVE  FetchedOpen'
<1>1. CASE SubscribeUnregister(g)
  BY <1>1, UnregisterFetched
<1>2. CASE ~ SubscribeUnregister(g) /\ fetched' = {}
  BY <1>2 DEF FetchedOpen
<1>3. CASE ~ SubscribeUnregister(g) /\ fetched' # {}
  <2>1. fetched' = fetched /\ ~ PollFanout(g)
        /\ ~ (PollSignal(g) /\ target = NoChannel)
    BY <1>3, FetchedFrame
  <2>2. PICK p \in FanningOut : TRUE
    BY <1>3, <2>1 DEF FetchedOpen
  <2>3. /\ p \in Goroutines
        /\ \/ pc[p] = "poll_fanout"
           \/ pc[p] = "poll_signal" /\ target = NoChannel
    BY <2>2 DEF FanningOut, At
  <2>4. p # g
    BY <2>1, <2>3, AtFanout DEF PollFanout, PollSignal, At
  <2>5. pc[g] \notin PollHolds
    BY <2>3, <2>4, HandlerAlone DEF PollHolds
  <2>6. /\ answers = {}
        /\ \A h \in Goroutines : pc[h] \notin Unsubscribes
        /\ \A c \in fetched : chanState[c] = "open"
    BY <1>3, <2>1 DEF FetchedOpen
  <2>7. /\ ~ PollRoute(g) /\ ~ PollResponse(g) /\ ~ PollSignal(g)
        /\ ~ UnsubscribeAnswer(g) /\ ~ UnsubscribeFind(g)
        /\ ~ UnsubscribeClose(g) /\ ~ UnsubscribeRemove(g)
    BY <2>5, <2>6 DEF PollRoute, PollResponse, PollSignal, UnsubscribeAnswer,
       UnsubscribeFind, UnsubscribeClose, UnsubscribeRemove, At, PollHolds,
       Unsubscribes
  <2>8. answers' = {}
    BY <2>6, <2>7, AnswersFrame
  <2>9. target' = target /\ chanState' = chanState
    <3>1. CASE SubscribeCall(g) \/ SubscribeBind(g)
      BY <3>1 DEF SubscribeCall, SubscribeBind, chanVars
    <3>2. CASE Steady
      BY <3>2 DEF Steady, StillRouting, SameChannels
    <3>3. ClientType
      BY DEF TypeOK
    <3>4. QED
      BY <1>3, <2>7, <3>1, <3>2, <3>3, PublishSteady, SessionSteady,
         PollSteady, SubscribeSteady DEF Call, Step, SubscribeStep,
         UnsubscribeStep
  <2>10. pc'[p] = pc[p]
    BY <2>3, <2>4, OtherCalls
  <2>11. \A h \in Goroutines : pc'[h] \notin Unsubscribes
    <3> SUFFICES ASSUME NEW h \in Goroutines, pc'[h] \in Unsubscribes
                 PROVE  FALSE
      OBVIOUS
    <3>1. h = g
      BY <2>6, OtherCalls DEF Unsubscribes
    <3>2. QED
      BY <1>3, <2>6, <2>7, <3>1, UnsubscribesFrame
  <2>12. FanningOut' # {}
    BY <2>3, <2>9, <2>10 DEF FanningOut, At
  <2>13. QED
    BY <2>1, <2>6, <2>8, <2>9, <2>11, <2>12 DEF FetchedOpen
<1>4. QED
  BY <1>1, <1>2, <1>3

-----------------------------------------------------------------------------
(* The panics *)

(* A fan-out, under eventMutex, meets no closed channel. *)
LEMMA SignalSafe ==
  ASSUME TypeOK, OneSubscriber, CarefulInv, FetchedOpen, NobodyCloses, Signal
  PROVE  ~ crashed'
<1>1. \A c \in eventChans \cup fetched : chanState[c] = "open"
  BY DEF OneSubscriber, CarefulInv, CarefulParts, GeneralOpen, NobodyCloses,
     FetchedOpen, TypeOK, ClientType, EventType, ChanType
<1>2. QED
  BY <1>1 DEF Signal

LEMMA PanicFrame ==
  ASSUME ~ DetectsMapRaces, NEW g \in Goroutines, Call(g) \/ Step(g),
         ~ PollSignal(g), ~ PollResponse(g), ~ SubscribeAnswer(g),
         ~ UnsubscribeClose(g), ~ (NobodyCloses /\ Signal)
  PROVE  crashed' => crashed
<1>1. CASE Call(g)
  BY <1>1 DEF Call, ConnectCall, DisconnectCall, KeepAliveCall, PublishCall,
     PollCall, SubscribeCall, UnsubscribeCall, eventVars
<1>2. CASE \/ ConnectStep(g) \/ DisconnectStep(g) \/ KeepAliveStep(g)
           \/ PublishStep(g)
  BY <1>2 DEF ConnectStep, DisconnectStep, KeepAliveStep, ConnectLock,
     ConnectSend, ConnectFail, ConnectAck, DisconnectLock, DisconnectSend,
     KeepAliveLock, KeepAliveSend, PublishStep, PublishLock, PublishStore,
     PublishQuota, PublishPark, PublishRelock, PublishSend, PublishCount,
     EventMutexFree, eventVars
<1>3. CASE PollStep(g)
  BY <1>3 DEF PollStep, PollLock, PollNothing, PollRead, PollPublish,
     PollAck, PollCredit, PollRoute, PollStore, PollPuback, PollPubcomp,
     Completed, PollPubrec, PollPubrel, PollRelease, PollFanout,
     PollPingresp, PollDisconnect, eventVars
<1>4. CASE SubscribeStep(g) \/ UnsubscribeStep(g)
  BY <1>4 DEF SubscribeStep, UnsubscribeStep, SubscribeLock, SubscribeSend,
     SubscribeBind, SubscribeUnregister, SubscribeClose, ResponseDelete,
     UnsubscribeSend, UnsubscribeAnswer, UnsubscribeFind, UnsubscribeRemove,
     UnsubscribeUnlock, MapWrite, eventVars
<1>5. QED
  BY <1>1, <1>2, <1>3, <1>4 DEF Step

LEMMA GoroutinePanics ==
  ASSUME TypeOK, OneSubscriber, CarefulInv, ExchangeInv, FetchedOpen,
         ~ crashed, NEW g \in Goroutines, Call(g) \/ Step(g)
  PROVE  NoOtherPanic'
<1>1. CASE PollSignal(g) /\ crashed' /\ ~ Signal
  <2>1. target # NoChannel /\ chanState[target] = "closed" /\ Panic
        /\ pc[g] = "poll_signal"
    BY <1>1 DEF PollSignal, At
  <2>2. target \in Channels
    BY <2>1 DEF TypeOK, ClientType, EventType, LoopType, EventChannels
  <2>3. UNCHANGED <<pc, target, chanState>>
    BY <2>1 DEF Panic, callVars, chanVars, loopVars
  <2>4. QED
    BY <2>1, <2>2, <2>3 DEF NoOtherPanic, NoSignalAfterClose, At
<1>2. CASE NobodyCloses /\ Signal
  BY <1>2, SignalSafe DEF NoOtherPanic
<1>3. CASE UnsubscribeClose(g)
  <2> DEFINE c == ChannelOf(Head(topics[g]))
  <2>1. c \in Channels /\ chanState[c] # "new" /\ pc[g] = "unsub_close"
    BY <1>3 DEF UnsubscribeClose, At, CarefulInv, CarefulParts, FoundReal,
       Found, OneSubscriber
  <2>2. CASE CanClose(c)
    <3>1. ~ crashed'
      BY <1>3, <2>2 DEF UnsubscribeClose
    <3>2. QED
      BY <3>1 DEF NoOtherPanic
  <2>3. CASE ~ CanClose(c)
    <3>1. chanState[c] = "closed"
      BY <2>1, <2>3, ChannelsApart DEF CanClose, TypeOK, ClientType,
         EventType, ChanType, ChanStates
    <3>2. UNCHANGED <<pc, topics, chanState>>
      BY <1>3, <2>3 DEF UnsubscribeClose, Panic, callVars, chanVars, loopVars
    <3>3. ClosedTwice'
      BY <2>1, <3>1, <3>2 DEF ClosedTwice, At
    <3>4. QED
      BY <3>3 DEF NoOtherPanic
  <2>4. QED
    BY <2>2, <2>3
<1>4. CASE PollResponse(g) \/ SubscribeAnswer(g)
  BY <1>4, ResponseExpected, AnswerExpected DEF NoOtherPanic
<1>5. CASE PollSignal(g)
  BY <1>1, <1>2, <1>5 DEF PollSignal, NoOtherPanic
<1>6. QED
  BY <1>2, <1>3, <1>4, <1>5, PanicFrame DEF OneSubscriber, NoOtherPanic

LEMMA WorldExchange ==
  ASSUME TypeOK, ExchangeInv,
         \/ ConnLost \/ PingDeadlinePasses \/ Restart \/ UNCHANGED vars
         \/ \E c \in Channels : Application(c)
  PROVE  ExchangeInv'
<1>1. OneExchange /\ Expected /\ Responding /\ Subscribers /\ Publishers
  BY DEF ExchangeInv
<1>2. CASE Restart
  <2>1. /\ \A h \in Goroutines : pc'[h] = "idle"
        /\ toServer' = <<>> /\ toClient' = <<>> /\ answers' = {}
    BY <1>2 DEF Restart
  <2>2. Subscribers' /\ Publishers'
    BY <2>1 DEF Subscribers, Publishers, SubscribePoints, PublishPoints,
       Preparations
  <2>3. OneExchange' /\ Expected' /\ Responding'
    BY <2>1, QueueEmpty DEF OneExchange, NonePassing, Passing, Expected,
       Unasked, Responding
  <2>4. QED
    BY <2>2, <2>3 DEF ExchangeInv
<1>3. CASE ~ Restart
  <2>1. /\ UNCHANGED <<pc, arg, answers>>
        /\ \/ UNCHANGED <<toServer, toClient>>
           \/ toServer' = <<>> /\ toClient' = <<>>
    BY <1>3 DEF ConnLost, PingDeadlinePasses, vars, clientVars, clientOnly,
       callVars, wireVars, eventVars, respVars, Application,
       CreateEventChannel, CloseEventChannel, CloseEventChannelEnd,
       ReceiveEvent
  <2>2. ExchangeCalm
    BY <2>1, WireTyped, QueueFewer DEF ExchangeCalm, Passing
  <2>3. QED
    BY <1>1, <2>1, <2>2, ExchangeCalmInv
       DEF ExchangeInv, Subscribers, Publishers
<1>4. QED
  BY <1>2, <1>3

LEMMA WorldPanics ==
  ASSUME TypeOK, OneSubscriber, FetchedOpen, NoOtherPanic,
         \/ ConnLost \/ PingDeadlinePasses \/ Restart \/ UNCHANGED vars
         \/ UNCHANGED <<callVars, eventVars>>
         \/ ~ crashed /\ \E c \in Channels : Application(c)
  PROVE  FetchedOpen' /\ NoOtherPanic'
<1>1. CASE Restart
  BY <1>1 DEF Restart, FetchedOpen, NoOtherPanic
<1>2. CASE \/ ConnLost \/ PingDeadlinePasses \/ UNCHANGED vars
           \/ UNCHANGED <<callVars, eventVars>>
  <2>1. UNCHANGED <<callVars, eventVars>>
    BY <1>2 DEF ConnLost, PingDeadlinePasses, vars, clientVars, clientOnly
  <2>2. QED
    BY <2>1 DEF callVars, eventVars, chanVars, loopVars, respVars,
       FetchedOpen, FanningOut, NoOtherPanic, NoSignalAfterClose,
       ClosedTwice, At
<1>3. ASSUME ~ crashed, NEW c \in Channels, Application(c)
      PROVE  FetchedOpen' /\ NoOtherPanic'
  <2>1. CASE CloseEventChannel(c)
    <3>1. fetched' = {}
      BY <2>1 DEF CloseEventChannel, EventMutexFree
    <3>2. crashed' => \E d \in Channels : closing'[d] = "twice"
      BY <2>1, <1>3 DEF CloseEventChannel, TypeOK, ClientType, EventType,
         ChanType
    <3>3. QED
      BY <3>1, <3>2 DEF FetchedOpen, NoOtherPanic, ClosedTwice
  <2>2. CASE CreateEventChannel(c)
    BY <2>2 DEF CreateEventChannel, EventMutexFree, FetchedOpen, MapWrite,
       OneSubscriber, NoOtherPanic
  <2>3. CASE CloseEventChannelEnd(c) \/ ReceiveEvent(c)
    <3>1. /\ UNCHANGED <<pc, answers, chanState, fetched, target>>
          /\ MapWrite(Among(Routes \cup {"sub_bind", "sub_unreg", "unsub_find",
                                        "unsub_remove"}))
             \/ crashed' = crashed
      BY <2>3 DEF CloseEventChannelEnd, ReceiveEvent, callVars, chanVars,
         respVars, loopVars
    <3>3. ~ crashed'
      BY <1>3, <3>1 DEF MapWrite, OneSubscriber
    <3>2. QED
      BY <3>1, <3>3 DEF FetchedOpen, FanningOut, At, NoOtherPanic
  <2>4. QED
    BY <1>3, <2>1, <2>2, <2>3 DEF Application
<1>4. QED
  BY <1>1, <1>2, <1>3

PanicInv == ExchangeInv /\ FetchedOpen /\ NoOtherPanic

LEMMA PanicInductive ==
  Spec => [](OneSubscriber => PanicInv)
<1>1. Init => PanicInv
  BY QueueEmpty DEF Init, PanicInv, FetchedOpen, ExchangeInv, Subscribers,
     Publishers, SubscribePoints, PublishPoints, Preparations, OneExchange,
     NonePassing, Passing, Expected, Unasked, Responding, NoOtherPanic
<1>2. ASSUME TypeOK, LockInv, CarefulInv, OneSubscriber, PanicInv,
             [Next]_vars
      PROVE  PanicInv'
  <2>1. ASSUME NEW g \in Goroutines, Call(g) \/ Step(g), ~ crashed
        PROVE  PanicInv'
    BY <1>2, <2>1, GoroutineExchange, GoroutineFetched, GoroutinePanics
       DEF PanicInv
  <2>2. CASE BrokerStep
    BY <1>2, <2>2, BrokerExchange, WorldPanics DEF PanicInv
  <2>3. CASE \/ ConnLost \/ PingDeadlinePasses \/ Restart \/ UNCHANGED vars
             \/ ~ crashed /\ \E c \in Channels : Application(c)
    BY <1>2, <2>3, WorldExchange, WorldPanics DEF PanicInv
  <2>4. QED
    BY <1>2, <2>1, <2>2, <2>3 DEF Next
<1>3. /\ TypeOK /\ LockInv /\ ChannelInv /\ CarefulInv
      /\ (OneSubscriber => PanicInv) /\ [Next]_vars
      => (OneSubscriber => PanicInv)'
  BY <1>2 DEF OneSubscriber, MaySubscribe
<1>4. QED
  BY <1>1, <1>3, EventsInductive, PTL DEF Spec

(* With one goroutine that subscribes and unsubscribes, and carefully, the *)
(* program panics in two ways only: a signal to a channel that was closed  *)
(* after Poll looked it up, and a second close of a channel, by            *)
(* CloseEventChannel and Unsubscribe, which take different mutexes.  No    *)
(* fan-out meets a closed channel, although Subscribe and Unsubscribe      *)
(* change the map it goes over under another mutex; Poll passes a response *)
(* on outside the mutex that guards the map of response channels, yet      *)
(* never to a channel that Subscribe has closed; no call gets the response *)
(* of another: over losses, refused topics and restarts.                   *)
THEOREM TwoPanicsOnly == Spec => [](OneSubscriber => NoOtherPanic)
<1>1. (OneSubscriber => PanicInv) => (OneSubscriber => NoOtherPanic)
  BY DEF PanicInv
<1>2. QED
  BY <1>1, PanicInductive, PTL
=============================================================================
