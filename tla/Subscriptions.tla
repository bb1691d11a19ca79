--------------------------- MODULE Subscriptions ---------------------------
(***************************************************************************)
(* Client.Subscribe and Client.Unsubscribe (mqtt/client.go): register a    *)
(* channel for the response, send the request, wait for Poll to pass the   *)
(* response on, then bind event channels to topic filters, or close them.  *)
(* Subscribe takes connMutex and then c.mutex; Unsubscribe takes c.mutex   *)
(* only.  An empty list of topics is refused before anything happens.      *)
(***************************************************************************)
EXTENDS ClientState

FilterOf(topic) == topic[1]
ChannelOf(topic) == topic[2]
FiltersOf(ts) == {FilterOf(ts[k]) : k \in DOMAIN ts}

(* A careful application gives a channel to one topic only: it is in no    *)
(* other list, and once in its own; and not one that it is closing.        *)
Usable(c) ==
  \/ c = NoChannel
  \/ c \in eventChans /\ closing[c] = "never" /\ ~ SubscribeHas(c)
  \/ ~ Careful /\ c \in Channels /\ chanState[c] # "new"

(* One call passes a channel for one of its topics only. *)
Apart(ts) ==
  \A j, k \in DOMAIN ts :
    ChannelOf(ts[j]) = ChannelOf(ts[k]) => j = k \/ ChannelOf(ts[j]) = NoChannel

(* The call returns. *)
ReturnSubscribe(g) == Done(g) /\ topics' = [topics EXCEPT ![g] = <<>>]

NextTopic(g) == topics' = [topics EXCEPT ![g] = Tail(@)]

-----------------------------------------------------------------------------
(* Subscribe *)

SubscribeCall(g) ==
  /\ isConnected
  /\ \E ts \in TopicLists :
       /\ \A k \in DOMAIN ts : Usable(ChannelOf(ts[k]))
       /\ Careful => Apart(ts)
       /\ Begin(g, "Subscribe", "sub_lock", Packet("SUBSCRIBE", 0))
       /\ topics' = [topics EXCEPT ![g] = ts]
  /\ UNCHANGED <<lockVars, wireVars, linkVars, sendVars, recvVars, storeVars,
                 inbox, chanVars, respVars, routed, target, crashed>>

(* c.connMutex.Lock(); SetDeadline fails on a closed connection. *)
SubscribeLock(g) ==
  /\ At(g, "sub_lock")
  /\ ConnFree
  /\ \/ /\ conn = "closed"
        /\ ReturnSubscribe(g)
        /\ UNCHANGED connMutex
     \/ /\ conn # "closed"
        /\ connMutex' = g
        /\ Goto(g, "sub_send")
        /\ UNCHANGED <<arg, calls, topics>>
  /\ UNCHANGED <<mutex, readers, wireVars, linkVars, sendVars, recvVars,
                 storeVars, inbox, chanVars, respVars, routed, target, crashed>>

(* Under both mutexes: an identifier, which is not checked against those   *)
(* in use, the response channel under it, the write.  When the write fails *)
(* the response channel stays registered.                                  *)
SubscribeSend(g) ==
  /\ At(g, "sub_send")
  /\ MutexFree
  /\ \E id \in PubIds :
       /\ responseChan' = [responseChan EXCEPT ![id] = CallOf(g)]
       /\ \/ /\ conn # "open"
             /\ ReturnSubscribe(g)
             /\ UNCHANGED toServer
          \/ /\ conn = "open"
             /\ Write(About(Packet("SUBSCRIBE", id), FiltersOf(topics[g])))
             /\ arg' = [arg EXCEPT ![g].id = id]
             /\ Goto(g, "sub_wait")
             /\ UNCHANGED <<calls, topics>>
  /\ connMutex' = NoOne
  /\ UNCHANGED <<mutex, readers, conn, toClient, linkVars, sendVars, recvVars,
                 storeVars, inbox, chanVars, answers, routed, target, crashed>>

(* The response; resp.( *packets.Suback) panics if it is an UNSUBACK. *)
SubscribeAnswer(g) ==
  /\ At(g, "sub_wait")
  /\ \E a \in answers :
       /\ a.to = CallOf(g)
       /\ \/ /\ a.packet.type # "SUBACK"
             /\ Panic
          \/ /\ a.packet.type = "SUBACK"
             /\ answers' = answers \ {a}
             /\ arg' = [arg EXCEPT ![g] = a.packet]
             /\ Goto(g, "sub_bind")
             /\ UNCHANGED <<calls, lockVars, wireVars, linkVars, sendVars,
                            recvVars, storeVars, inbox, chanVars,
                            responseChan, loopVars, crashed>>

(* A loop over topicChans that is under way may come to a new entry, even  *)
(* if it has been through an old one of that filter, or miss it.           *)
MayRoute(f) ==
  routed' \in IF f \notin Bound /\ Among(Routes) # {}
              THEN {routed \ {f}, routed \cup {f}} ELSE {routed}

(* One topic: a refused one ends the call, and leaves the response channel *)
(* open and registered.  A channel is bound under c.mutex, one that is not *)
(* among the general ones as the zero EventChannel, ...                    *)
SubscribeBind(g) ==
  /\ At(g, "sub_bind")
  /\ topics[g] # <<>>
  /\ LET f == FilterOf(Head(topics[g]))
         c == ChannelOf(Head(topics[g]))
     IN \/ /\ f \notin arg[g].filters
           /\ ReturnSubscribe(g)
           /\ UNCHANGED <<mutex, topicChans, routed, crashed>>
        \/ /\ f \in arg[g].filters /\ c = NoChannel
           /\ NextTopic(g)
           /\ UNCHANGED <<callVars, mutex, topicChans, routed, crashed>>
        \/ /\ f \in arg[g].filters /\ c # NoChannel
           /\ MutexFree
           /\ mutex' = g
           /\ topicChans' = [topicChans EXCEPT
                ![f] = IF c \in eventChans THEN c ELSE NoChannel]
           /\ MayRoute(f)
           /\ MapWrite(Among(Routes))
           /\ Goto(g, "sub_unreg")
           /\ UNCHANGED <<arg, calls, topics>>
  /\ UNCHANGED <<connMutex, readers, wireVars, linkVars, sendVars, recvVars,
                 storeVars, inbox, eventChans, chanState, closing, fetched,
                 respVars, target>>

(* Faulty variant: the channel stays among the general ones. *)
SubscribeUnregisterKept(g) ==
  /\ At(g, "sub_unreg")
  /\ topics[g] # <<>>
  /\ mutex' = NoOne
  /\ NextTopic(g)
  /\ Goto(g, "sub_bind")
  /\ UNCHANGED <<arg, calls, connMutex, readers, wireVars, linkVars, sendVars,
                 recvVars, storeVars, inbox, chanVars, respVars, routed, target,
                 crashed>>

(* ... and is then removed from the general ones, which signal goes over   *)
(* under another mutex: a fan-out may have fetched the channel by then and *)
(* have its send to come, or not come to it any more.                      *)
SubscribeUnregister(g) ==
  /\ At(g, "sub_unreg")
  /\ topics[g] # <<>>
  /\ LET c == ChannelOf(Head(topics[g]))
     IN /\ eventChans' = eventChans \ {c}
        /\ \/ UNCHANGED fetched
           \/ /\ FanningOut # {} /\ NobodyCloses
              /\ c \in eventChans
              /\ fetched' = fetched \cup {c}
  /\ MapWrite(FanningOut)
  /\ mutex' = NoOne
  /\ NextTopic(g)
  /\ Goto(g, "sub_bind")
  /\ UNCHANGED <<arg, calls, connMutex, readers, wireVars, linkVars, sendVars,
                 recvVars, storeVars, inbox, chanState, closing, topicChans,
                 respVars, routed, target>>

(* close(respChan) *)
SubscribeClose(g) ==
  /\ At(g, "sub_bind")
  /\ topics[g] = <<>>
  /\ Goto(g, "sub_delete")
  /\ UNCHANGED <<arg, calls, lockVars, wireVars, linkVars, sendVars, recvVars,
                 storeVars, eventVars>>

(* The end of Subscribe, and of Unsubscribe: under c.mutex, remove what is *)
(* registered under the identifier.                                        *)
ResponseDelete(g) ==
  /\ pc[g] \in {"sub_delete", "unsub_delete"}
  /\ MutexFree
  /\ responseChan' = [responseChan EXCEPT ![arg[g].id] = NoOne]
  /\ answers' = {a \in answers : a.to # CallOf(g)}
  /\ MapWrite(Among({"poll_response"}))
  /\ ReturnSubscribe(g)
  /\ UNCHANGED <<lockVars, wireVars, linkVars, sendVars, recvVars, storeVars,
                 inbox, chanVars, routed, target>>

SubscribeStep(g) ==
  \/ SubscribeLock(g) \/ SubscribeSend(g) \/ SubscribeAnswer(g)
  \/ SubscribeBind(g) \/ SubscribeUnregister(g) \/ SubscribeClose(g)
  \/ ResponseDelete(g)

-----------------------------------------------------------------------------
(* Unsubscribe *)

UnsubscribeCall(g) ==
  /\ Careful => isConnected
  /\ \E ts \in TopicLists :
       /\ Begin(g, "Unsubscribe", "unsub_lock", Packet("UNSUBSCRIBE", 0))
       /\ topics' = [topics EXCEPT ![g] =
                       [k \in DOMAIN ts |-> <<FilterOf(ts[k]), NoChannel>>]]
  /\ UNCHANGED <<lockVars, wireVars, linkVars, sendVars, recvVars, storeVars,
                 inbox, chanVars, respVars, routed, target, crashed>>

(* Under c.mutex, and not connMutex: register, write.  The error returns   *)
(* leave c.mutex locked.                                                   *)
UnsubscribeSend(g) ==
  /\ At(g, "unsub_lock")
  /\ MutexFree
  /\ \/ /\ ~ isConnected \/ conn = "closed"
        /\ ReturnSubscribe(g)
        /\ mutex' = g
        /\ UNCHANGED <<responseChan, toServer, crashed>>
     \/ /\ isConnected /\ conn # "closed"
        /\ MapWrite(Among({"poll_response"}))
        /\ \E id \in PubIds :
             /\ responseChan' = [responseChan EXCEPT ![id] = CallOf(g)]
             /\ \/ /\ conn # "open"
                   /\ ReturnSubscribe(g)
                   /\ mutex' = g
                   /\ UNCHANGED toServer
                \/ /\ conn = "open"
                   /\ Write(About(Packet("UNSUBSCRIBE", id),
                                  FiltersOf(topics[g])))
                   /\ arg' = [arg EXCEPT ![g].id = id]
                   /\ Goto(g, "unsub_wait")
                   /\ UNCHANGED <<calls, topics, mutex>>
  /\ UNCHANGED <<connMutex, readers, conn, toClient, linkVars, sendVars,
                 recvVars, storeVars, inbox, chanVars, answers, routed, target>>

(* Any response will do, whatever its reason codes. *)
UnsubscribeAnswer(g) ==
  /\ At(g, "unsub_wait")
  /\ MutexFree
  /\ \E a \in answers :
       /\ a.to = CallOf(g)
       /\ answers' = answers \ {a}
  /\ mutex' = g
  /\ Goto(g, "unsub_find")
  /\ UNCHANGED <<arg, calls, connMutex, readers, wireVars, linkVars, sendVars,
                 recvVars, storeVars, inbox, chanVars, responseChan, loopVars,
                 crashed>>

(* Faulty variant: a filter that is not bound gives the zero EventChannel. *)
UnsubscribeFindUnchecked(g) ==
  /\ At(g, "unsub_find")
  /\ topics[g] # <<>>
  /\ LET f == FilterOf(Head(topics[g]))
     IN topics' = [topics EXCEPT ![g][1] =
                     <<f, IF f \in Bound THEN topicChans[f] ELSE NoChannel>>]
  /\ Goto(g, "unsub_close")
  /\ UNCHANGED <<arg, calls, lockVars, wireVars, linkVars, sendVars, recvVars,
                 storeVars, inbox, chanVars, respVars, routed, target, crashed>>

(* The loop over the topics: look up the channel, ... *)
UnsubscribeFind(g) ==
  /\ At(g, "unsub_find")
  /\ topics[g] # <<>>
  /\ LET f == FilterOf(Head(topics[g]))
     IN \/ /\ f \notin Bound
           /\ NextTopic(g)
           /\ UNCHANGED pc
        \/ /\ f \in Bound
           /\ topics' = [topics EXCEPT ![g][1] = <<f, topicChans[f]>>]
           /\ Goto(g, "unsub_close")
  /\ UNCHANGED <<arg, calls, lockVars, wireVars, linkVars, sendVars, recvVars,
                 storeVars, inbox, chanVars, respVars, routed, target, crashed>>

(* ... close it, without eventMutex (nil for the zero EventChannel; closed  *)
(* when CloseEventChannel came first), ...                                 *)
UnsubscribeClose(g) ==
  /\ At(g, "unsub_close")
  /\ topics[g] # <<>>
  /\ LET c == ChannelOf(Head(topics[g]))
     IN \/ /\ ~ CanClose(c)
           /\ Panic
        \/ /\ CanClose(c)
           /\ chanState' = [chanState EXCEPT ![c] = "closed"]
           /\ Goto(g, "unsub_remove")
           /\ UNCHANGED <<arg, calls, lockVars, wireVars, linkVars, sendVars,
                          recvVars, storeVars, inbox, eventChans, closing,
                          topicChans, fetched, respVars, loopVars, crashed>>

(* ... and delete it from both maps. *)
UnsubscribeRemove(g) ==
  /\ At(g, "unsub_remove")
  /\ topics[g] # <<>>
  /\ RemoveFromMaps(ChannelOf(Head(topics[g])), {})
  /\ MapWrite(Among(Routes) \cup FanningOut)
  /\ NextTopic(g)
  /\ Goto(g, "unsub_find")
  /\ UNCHANGED <<arg, calls, lockVars, wireVars, linkVars, sendVars, recvVars,
                 storeVars, inbox, chanState, closing, fetched, respVars,
                 routed, target>>

(* The end of the loop: c.mutex.Unlock() *)
UnsubscribeUnlock(g) ==
  /\ At(g, "unsub_find")
  /\ topics[g] = <<>>
  /\ mutex' = NoOne
  /\ Goto(g, "unsub_delete")
  /\ UNCHANGED <<arg, calls, connMutex, readers, wireVars, linkVars, sendVars,
                 recvVars, storeVars, eventVars>>

UnsubscribeStep(g) ==
  \/ UnsubscribeSend(g) \/ UnsubscribeAnswer(g) \/ UnsubscribeFind(g)
  \/ UnsubscribeClose(g) \/ UnsubscribeRemove(g) \/ UnsubscribeUnlock(g)
=============================================================================
