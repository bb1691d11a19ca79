------------------------------ MODULE Session ------------------------------
(***************************************************************************)
(* The methods of mqtt.Client (mqtt/client.go) that open, keep and end the *)
(* session: Connect, DisconnectWithSessionExpiry, KeepAlive; and the event *)
(* channels.  These three take c.mutex first and connMutex second.         *)
(***************************************************************************)
EXTENDS ClientState

-----------------------------------------------------------------------------
(* Connect *)

ConnectCall(g) ==
  /\ Begin(g, "Connect", "con_lock", NoPacket)
  /\ UNCHANGED <<lockVars, wireVars, linkVars, sendVars, recvVars, storeVars,
                 eventVars>>

(* c.mutex.Lock(), held until Connect returns *)
ConnectLock(g) ==
  /\ At(g, "con_lock")
  /\ MutexFree
  /\ mutex' = g
  /\ Goto(g, "con_conn")
  /\ UNCHANGED <<arg, calls, connMutex, readers, wireVars, linkVars, sendVars,
                 recvVars, storeVars, eventVars>>

(* c.connMutex.Lock(); send CONNECT *)
ConnectSend(g) ==
  /\ At(g, "con_conn")
  /\ ConnFree
  /\ \/ /\ conn # "open"
        /\ mutex' = NoOne
        /\ Done(g)
        /\ UNCHANGED <<connMutex, toServer>>
     \/ /\ conn = "open"
        /\ connMutex' = g
        /\ Write(Packet("CONNECT", 0))
        /\ Goto(g, "con_read")
        /\ UNCHANGED <<arg, calls, mutex>>
  /\ UNCHANGED <<readers, conn, toClient, linkVars, sendVars, recvVars,
                 storeVars, eventVars>>

(* Connect returns and both mutexes are unlocked. *)
ConnectReturn(g) ==
  /\ connMutex' = NoOne
  /\ mutex' = NoOne
  /\ Done(g)

(* No answer before the deadline, no connection, or an answer that is no   *)
(* CONNACK: an error.                                                      *)
ConnectFail(g) ==
  /\ At(g, "con_read")
  /\ \/ /\ conn # "open" \/ toClient = <<>>
        /\ UNCHANGED toClient
     \/ /\ conn = "open" /\ toClient # <<>>
        /\ Head(toClient).type # "CONNACK"
        /\ toClient' = Tail(toClient)
  /\ ConnectReturn(g)
  /\ UNCHANGED <<readers, conn, toServer, linkVars, sendVars, recvVars,
                 storeVars, eventVars>>

(* A CONNACK.  Reason code 128 or greater: close.  Otherwise set the       *)
(* maxima, the quotas and the ping deadline, and signal.                   *)
ConnectAck(g) ==
  /\ At(g, "con_read")
  /\ conn = "open"
  /\ toClient # <<>>
  /\ Head(toClient).type = "CONNACK"
  /\ ConnectReturn(g)
  /\ \/ /\ Head(toClient).code >= 128
        /\ conn' = "closed"
        /\ toClient' = <<>>
        /\ UNCHANGED <<linkVars, sendVars, recvVars, eventVars>>
     \/ /\ Head(toClient).code < 128
        /\ toClient' = Tail(toClient)
        /\ serverReceiveMaximum' \in ReceiveMaxima
        /\ clientReceiveMaximum' = IF PacketReceiveMaximum = 0
                                   THEN serverReceiveMaximum'
                                   ELSE PacketReceiveMaximum
        /\ sendQuota' = serverReceiveMaximum'
        /\ receiveQuota' = clientReceiveMaximum'
        /\ pingOverdue' = FALSE
        /\ isConnected' = TRUE
        /\ EventMutexFree
        /\ Signal
        /\ UNCHANGED conn
  /\ UNCHANGED <<readers, toServer, storeVars>>

ConnectStep(g) ==
  ConnectLock(g) \/ ConnectSend(g) \/ ConnectFail(g) \/ ConnectAck(g)

-----------------------------------------------------------------------------
(* Disconnect *)

DisconnectCall(g) ==
  /\ Begin(g, "Disconnect", "dis_lock", NoPacket)
  /\ UNCHANGED <<lockVars, wireVars, linkVars, sendVars, recvVars, storeVars,
                 eventVars>>

(* A client that IS connected gets ErrClientNotConnected. *)
DisconnectRefused == isConnected

DisconnectLock(g) ==
  /\ At(g, "dis_lock")
  /\ MutexFree
  /\ \/ /\ DisconnectRefused
        /\ Done(g)
        /\ UNCHANGED mutex
     \/ /\ ~ DisconnectRefused
        /\ mutex' = g
        /\ Goto(g, "dis_conn")
        /\ UNCHANGED <<arg, calls>>
  /\ UNCHANGED <<connMutex, readers, wireVars, linkVars, sendVars, recvVars,
                 storeVars, eventVars>>

(* Send DISCONNECT, close the connection, signal. *)
DisconnectSend(g) ==
  /\ At(g, "dis_conn")
  /\ ConnFree
  /\ \/ /\ conn # "open"
        /\ UNCHANGED <<wireVars, isConnected, eventVars>>
     \/ /\ conn = "open"
        /\ Write(Packet("DISCONNECT", 0))
        /\ conn' = "closed"
        /\ toClient' = <<>>
        /\ isConnected' = FALSE
        /\ EventMutexFree
        /\ Signal
  /\ mutex' = NoOne
  /\ Done(g)
  /\ UNCHANGED <<connMutex, readers, pingOverdue, sendVars, recvVars,
                 storeVars>>

DisconnectStep(g) == DisconnectLock(g) \/ DisconnectSend(g)

-----------------------------------------------------------------------------
(* KeepAlive *)

KeepAliveCall(g) ==
  /\ Begin(g, "KeepAlive", "ka_lock", NoPacket)
  /\ UNCHANGED <<lockVars, wireVars, linkVars, sendVars, recvVars, storeVars,
                 eventVars>>

(* c.mutex.RLock(), held until KeepAlive returns *)
KeepAliveLock(g) ==
  /\ At(g, "ka_lock")
  /\ ReadFree
  /\ \/ /\ ~ isConnected
        /\ Done(g)
        /\ UNCHANGED readers
     \/ /\ isConnected
        /\ readers' = readers \cup {g}
        /\ Goto(g, "ka_conn")
        /\ UNCHANGED <<arg, calls>>
  /\ UNCHANGED <<connMutex, mutex, wireVars, linkVars, sendVars, recvVars,
                 storeVars, eventVars>>

(* c.connMutex.Lock(); send PINGREQ; unlock both *)
KeepAliveSend(g) ==
  /\ At(g, "ka_conn")
  /\ ConnFree
  /\ \/ conn = "open" /\ Write(Packet("PINGREQ", 0))
     \/ conn # "open" /\ UNCHANGED toServer
  /\ readers' = readers \ {g}
  /\ Done(g)
  /\ UNCHANGED <<connMutex, mutex, conn, toClient, linkVars, sendVars,
                 recvVars, storeVars, eventVars>>

KeepAliveStep(g) == KeepAliveLock(g) \/ KeepAliveSend(g)

-----------------------------------------------------------------------------
(* Event channels.  The caller may be any goroutine of the application.    *)

CreateEventChannel(c) ==
  /\ chanState[c] = "new"
  /\ EventMutexFree
  /\ chanState' = [chanState EXCEPT ![c] = "open"]
  /\ eventChans' = eventChans \cup {c}
  /\ MapWrite(Among({"sub_bind", "sub_unreg", "unsub_remove"}))
  /\ UNCHANGED <<callVars, lockVars, wireVars, linkVars, sendVars, recvVars,
                 storeVars, inbox, closing, topicChans, fetched, respVars,
                 loopVars>>

(* c.eventMutex.Lock(); close(channel.channel), which panics if Unsubscribe *)
(* or an earlier call has closed it.                                       *)
CloseEventChannel(c) ==
  /\ chanState[c] # "new"
  /\ EventMutexFree
  /\ Careful => closing[c] = "never" /\ ~ SubscribeHas(c)
  /\ chanState' = [chanState EXCEPT ![c] = "closed"]
  /\ crashed' = (chanState[c] = "closed")
  /\ closing' = [closing EXCEPT ![c] = IF chanState[c] = "closed" THEN "twice"
                                       ELSE "closing"]
  /\ UNCHANGED <<callVars, lockVars, wireVars, linkVars, sendVars, recvVars,
                 storeVars, inbox, eventChans, topicChans, fetched, respVars,
                 loopVars>>

(* The filters that Subscribe is binding to c, under another mutex *)
BeingBound(c) == {f \in Filters : \E g \in Among({"sub_unreg"}) :
                                  Head(topics[g]) = <<f, c>>}

(* The deletes, and the unlock of eventMutex *)
CloseEventChannelEnd(c) ==
  /\ closing[c] = "closing"
  /\ closing' = [closing EXCEPT ![c] = "done"]
  /\ \E missed \in SUBSET BeingBound(c) : RemoveFromMaps(c, missed)
  /\ MapWrite(Among(Routes \cup {"sub_bind", "sub_unreg", "unsub_find",
                                "unsub_remove"}))
  /\ UNCHANGED <<callVars, lockVars, wireVars, linkVars, sendVars, recvVars,
                 storeVars, inbox, chanState, fetched, respVars, loopVars>>

(* The application receives an event. *)
ReceiveEvent(c) ==
  /\ inbox[c] > 0
  /\ inbox' = [inbox EXCEPT ![c] = @ - 1]
  /\ UNCHANGED <<callVars, lockVars, wireVars, linkVars, sendVars, recvVars,
                 storeVars, chanVars, respVars, loopVars, crashed>>
=============================================================================
