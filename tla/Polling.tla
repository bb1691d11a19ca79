------------------------------ MODULE Polling ------------------------------
(***************************************************************************)
(* Client.Poll (mqtt/client.go): read one control packet and handle it.    *)
(* connMutex is held from poll_lock until the call returns; c.mutex is     *)
(* taken where the handler takes it.  A handler that returns its error     *)
(* without unlocking c.mutex leaves mutex = g when g is idle again.        *)
(***************************************************************************)
EXTENDS ClientState

(* Faulty variant: no check of isConnected. *)
PollCallUnchecked(g) ==
  /\ At(g, "idle")
  /\ "Poll" \in May[g]
  /\ Goto(g, "poll_lock")
  /\ UNCHANGED <<arg, calls, lockVars, wireVars, linkVars, sendVars, recvVars,
                 storeVars, eventVars>>

PollCall(g) ==
  /\ At(g, "idle")
  /\ "Poll" \in May[g]
  /\ isConnected
  /\ Goto(g, "poll_lock")
  /\ UNCHANGED <<arg, calls, lockVars, wireVars, linkVars, sendVars, recvVars,
                 storeVars, eventVars>>

(* c.connMutex.Lock(), the check of pingRespDeadline, SetDeadline. *)
PollLock(g) ==
  /\ At(g, "poll_lock")
  /\ ConnFree
  /\ \/ /\ pingOverdue
        /\ isConnected' = FALSE
        /\ conn' = "closed"
        /\ toClient' = <<>>
        /\ Done(g)
        /\ UNCHANGED connMutex
     \/ /\ ~ pingOverdue /\ conn = "closed"
        /\ Done(g)
        /\ UNCHANGED <<connMutex, isConnected, conn, toClient>>
     \/ /\ ~ pingOverdue /\ conn # "closed"
        /\ connMutex' = g
        /\ Goto(g, "poll_read")
        /\ UNCHANGED <<arg, calls, isConnected, conn, toClient>>
  /\ UNCHANGED <<mutex, readers, toServer, pingOverdue, sendVars, recvVars,
                 storeVars, eventVars>>

(* The call returns and the deferred Unlock of connMutex runs. *)
PollReturn(g) == connMutex' = NoOne /\ Done(g)

(* Faulty variant: a timeout returns without the unlock. *)
PollNothingLocked(g) ==
  /\ At(g, "poll_read")
  /\ conn # "open" \/ toClient = <<>>
  /\ Done(g)
  /\ UNCHANGED <<lockVars, wireVars, linkVars, sendVars, recvVars, storeVars,
                 eventVars>>

(* No packet before the deadline of the context: nil.  A connection that   *)
(* is gone: the error.                                                     *)
PollNothing(g) ==
  /\ At(g, "poll_read")
  /\ conn # "open" \/ toClient = <<>>
  /\ PollReturn(g)
  /\ UNCHANGED <<mutex, readers, wireVars, linkVars, sendVars, recvVars,
                 storeVars, eventVars>>

(* The handler of a packet type; any other type is an error. *)
Handler ==
  [PUBLISH |-> "poll_publish", PUBACK |-> "poll_puback",
   PUBREC |-> "poll_pubrec", PUBREL |-> "poll_pubrel",
   PUBCOMP |-> "poll_pubcomp", PINGRESP |-> "poll_pingresp",
   DISCONNECT |-> "poll_disconnect", AUTH |-> "poll_fanout",
   SUBACK |-> "poll_response", UNSUBACK |-> "poll_response"]

PollRead(g) ==
  /\ At(g, "poll_read")
  /\ conn = "open"
  /\ toClient # <<>>
  /\ toClient' = Tail(toClient)
  /\ \/ /\ Head(toClient).type \in DOMAIN Handler
        /\ arg' = [arg EXCEPT ![g] = Head(toClient)]
        /\ Goto(g, Handler[Head(toClient).type])
        /\ UNCHANGED <<calls, connMutex>>
     \/ /\ Head(toClient).type \notin DOMAIN Handler
        /\ PollReturn(g)
  /\ UNCHANGED <<mutex, readers, conn, toServer, linkVars, sendVars, recvVars,
                 storeVars, eventVars>>

-----------------------------------------------------------------------------
(* PUBLISH *)

(* Faulty variant: the test of isConnected the other way round. *)
DisconnectWithReasonInverted(g) ==
  IF ~ isConnected
  THEN PollReturn(g) /\ UNCHANGED mutex
  ELSE /\ Goto(g, "poll_stuck")
       /\ mutex' = g
       /\ UNCHANGED <<arg, calls, connMutex>>

(* disconnectWithReason, called with connMutex and c.mutex held: it returns *)
(* an error when the client IS connected, and otherwise locks connMutex,   *)
(* which the caller holds.                                                 *)
DisconnectWithReason(g) ==
  IF isConnected
  THEN PollReturn(g) /\ UNCHANGED mutex
  ELSE /\ Goto(g, "poll_stuck")
       /\ mutex' = g
       /\ UNCHANGED <<arg, calls, connMutex>>

(* The quota is decremented for every PUBLISH, QoS 0 included. *)
PollPublish(g) ==
  /\ At(g, "poll_publish")
  /\ MutexFree
  /\ \/ /\ receiveQuota = 0 /\ arg[g].qos > 0
        /\ DisconnectWithReason(g)
        /\ UNCHANGED receiveQuota
     \/ /\ ~ (receiveQuota = 0 /\ arg[g].qos > 0)
        /\ receiveQuota' = Dec(receiveQuota)
        /\ Goto(g, IF arg[g].qos > 0 THEN "poll_ack" ELSE "poll_route")
        /\ UNCHANGED <<arg, calls, connMutex, mutex>>
  /\ UNCHANGED <<readers, wireVars, linkVars, sendVars, clientReceiveMaximum,
                 storeVars, eventVars>>

(* sendPuback, sendPubrec: up to the write of the acknowledgement *)
PollAck(g) ==
  /\ At(g, "poll_ack")
  /\ \/ /\ arg[g].id = 0 \/ conn # "open"
        /\ PollReturn(g)
        /\ UNCHANGED toServer
     \/ /\ arg[g].id # 0 /\ conn = "open"
        /\ \/ arg[g].qos = 1 /\ Write(Packet("PUBACK", arg[g].id))
              /\ Goto(g, "poll_credit")
           \/ arg[g].qos = 2 /\ Write(Packet("PUBREC", arg[g].id))
              /\ Goto(g, "poll_route")
        /\ UNCHANGED <<arg, calls, connMutex>>
  /\ UNCHANGED <<mutex, readers, conn, toClient, linkVars, sendVars, recvVars,
                 storeVars, eventVars>>

(* Faulty variant: the quota is not given back. *)
PollUncredited(g) ==
  /\ At(g, "poll_credit")
  /\ MutexFree
  /\ Goto(g, "poll_route")
  /\ UNCHANGED <<arg, calls, lockVars, wireVars, linkVars, sendVars, recvVars,
                 storeVars, eventVars>>

(* The end of sendPuback: c.receiveQuota++ under c.mutex *)
PollCredit(g) ==
  /\ At(g, "poll_credit")
  /\ MutexFree
  /\ receiveQuota' = Inc(receiveQuota)
  /\ Goto(g, "poll_route")
  /\ UNCHANGED <<arg, calls, lockVars, wireVars, linkVars, sendVars,
                 clientReceiveMaximum, storeVars, eventVars>>

(* The loop over topicChans, without a lock: take the channel of a filter  *)
(* that matches and that the loop has not come to.                         *)
Unrouted(g) == (Bound \cap arg[g].filters) \ routed

PollRoute(g) ==
  /\ At(g, "poll_route")
  /\ \/ /\ Unrouted(g) # {}
        /\ \E f \in Unrouted(g) :
             /\ routed' = routed \cup {f}
             /\ target' = topicChans[f]
        /\ Goto(g, "poll_signal")
     \/ /\ Unrouted(g) = {}
        /\ routed' = {}
        /\ target' = NoChannel
        /\ Goto(g, "poll_store")
  /\ UNCHANGED <<arg, calls, lockVars, wireVars, linkVars, sendVars, recvVars,
                 storeVars, inbox, chanVars, respVars, topics, crashed>>

(* signal(PUBLISH, publish, channel), under eventMutex: a nil channel means *)
(* a fan-out, a send on a closed channel panics, a full channel misses the  *)
(* message.                                                                *)
PollSignal(g) ==
  /\ At(g, "poll_signal")
  /\ NobodyCloses
  /\ \/ /\ target # NoChannel /\ chanState[target] = "closed"
        /\ Panic
     \/ /\ \/ target = NoChannel /\ Signal
           \/ /\ target # NoChannel /\ chanState[target] # "closed"
              /\ inbox' = IF inbox[target] < EventCapacity
                          THEN [inbox EXCEPT ![target] = @ + 1]
                          ELSE inbox
              /\ UNCHANGED <<chanVars, respVars, loopVars, crashed>>
        /\ Goto(g, "poll_route")
        /\ UNCHANGED <<arg, calls, lockVars, wireVars, linkVars, sendVars,
                       recvVars, storeVars>>

(* Keep a PUBREC under the identifier (for QoS 1 too); an error of Store is *)
(* ignored.                                                                *)
PollStore(g) ==
  /\ At(g, "poll_store")
  /\ ReadFree
  /\ storage' = IF arg[g].qos > 0 /\ HasStorage /\ ~ Stored(arg[g].id)
                THEN [storage EXCEPT ![arg[g].id] = "PUBREC"]
                ELSE storage
  /\ Goto(g, "poll_fanout")
  /\ UNCHANGED <<arg, calls, lockVars, wireVars, linkVars, sendVars, recvVars,
                 owed, eventVars>>

(* Faulty variant: eventMutex is not waited for. *)
PollFanoutUnlocked(g) ==
  /\ At(g, "poll_fanout")
  /\ Signal
  /\ PollReturn(g)
  /\ UNCHANGED <<mutex, readers, wireVars, linkVars, sendVars, recvVars,
                 storeVars>>

(* The end of every handler but that of PINGRESP: signal the packet to the *)
(* general channels, and return.                                           *)
PollFanout(g) ==
  /\ At(g, "poll_fanout")
  /\ NobodyCloses
  /\ Signal
  /\ PollReturn(g)
  /\ UNCHANGED <<mutex, readers, wireVars, linkVars, sendVars, recvVars,
                 storeVars>>

-----------------------------------------------------------------------------
(* PUBACK and PUBCOMP: the end of an outgoing QoS 1 or QoS 2 message *)

(* c.storage.Drop(id) fails when nothing is kept under id. *)
DropFails(id) == HasStorage /\ ~ Stored(id)

(* The goroutines that can be receiving ends of pendingSendSemaphore: the  *)
(* non-blocking receive releases one of those that wait already, if any.   *)
Parked == {p \in Goroutines : At(p, "pub_parked")}

Released == IF sendQuota < serverReceiveMaximum /\ Parked # {}
            THEN Parked ELSE {NoOne}

(* g goes on at p, and so does the released publisher. *)
GotoReleasing(g, p) ==
  \E w \in Released :
    pc' = [q \in Goroutines |-> IF q = g THEN p
                                ELSE IF q = w THEN "pub_relock" ELSE pc[q]]

(* The credit, the release of a publisher and Drop, all under c.mutex; an  *)
(* error of Drop returns without unlocking it.                             *)
Completed(g) ==
  /\ MutexFree
  /\ sendQuota' = IF sendQuota < serverReceiveMaximum
                  THEN sendQuota + 1 ELSE sendQuota
  /\ owed' = owed \ {arg[g].id}
  /\ \/ /\ DropFails(arg[g].id)
        /\ GotoReleasing(g, "idle")
        /\ arg' = [arg EXCEPT ![g] = NoPacket]
        /\ mutex' = g
        /\ connMutex' = NoOne
        /\ UNCHANGED storage
     \/ /\ ~ DropFails(arg[g].id)
        /\ storage' = [storage EXCEPT ![arg[g].id] = "none"]
        /\ GotoReleasing(g, "poll_fanout")
        /\ UNCHANGED <<arg, mutex, connMutex>>
  /\ UNCHANGED <<calls, readers, wireVars, linkVars, serverReceiveMaximum,
                 recvVars, eventVars>>

PollPuback(g) == At(g, "poll_puback") /\ Completed(g)

PollPubcomp(g) == At(g, "poll_pubcomp") /\ Completed(g)

-----------------------------------------------------------------------------
(* PUBREC: an outgoing QoS 2 message has reached the broker *)

(* "pubrec.ReasonCode > 0x80" *)
Refused(p) == p.code > 128

(* Faulty variant: the PUBLISH is dropped, the PUBREC is not stored. *)
PollPubrecUnstored(g) ==
  /\ At(g, "poll_pubrec")
  /\ MutexFree
  /\ storage' = [storage EXCEPT ![arg[g].id] = "none"]
  /\ conn = "open"
  /\ Write(Packet("PUBREL", arg[g].id))
  /\ Goto(g, "poll_fanout")
  /\ UNCHANGED <<arg, calls, lockVars, conn, toClient, linkVars, sendVars,
                 recvVars, owed, eventVars>>

(* Faulty variant: no PUBREL is sent. *)
PollPubrecUnreleased(g) ==
  /\ At(g, "poll_pubrec")
  /\ MutexFree
  /\ storage' = [storage EXCEPT ![arg[g].id] = "PUBREC"]
  /\ Goto(g, "poll_fanout")
  /\ UNCHANGED <<arg, calls, lockVars, wireVars, linkVars, sendVars, recvVars,
                 owed, eventVars>>

(* Under c.mutex: the credit for a refused message, which releases nobody; *)
(* the PUBREC replaces the PUBLISH in the storage; PUBREL is sent whatever *)
(* the reason code.  An error of Drop or of the write returns without      *)
(* unlocking c.mutex.                                                      *)
PollPubrec(g) ==
  /\ At(g, "poll_pubrec")
  /\ MutexFree
  /\ sendQuota' = IF Refused(arg[g]) /\ sendQuota < serverReceiveMaximum
                  THEN sendQuota + 1 ELSE sendQuota
  /\ storage' = IF HasStorage /\ Stored(arg[g].id)
                THEN [storage EXCEPT ![arg[g].id] = "PUBREC"] ELSE storage
  /\ owed' = IF arg[g].code >= 128 THEN owed \ {arg[g].id} ELSE owed
  /\ \/ /\ DropFails(arg[g].id) \/ conn # "open"
        /\ mutex' = g
        /\ PollReturn(g)
        /\ UNCHANGED toServer
     \/ /\ ~ DropFails(arg[g].id) /\ conn = "open"
        /\ Write(Packet("PUBREL", arg[g].id))
        /\ Goto(g, "poll_fanout")
        /\ UNCHANGED <<arg, calls, connMutex, mutex>>
  /\ UNCHANGED <<readers, conn, toClient, linkVars, serverReceiveMaximum,
                 recvVars, eventVars>>

-----------------------------------------------------------------------------
(* PUBREL: the broker releases an incoming QoS 2 message *)

(* Faulty variant: nothing is dropped. *)
PollPubrelKept(g) ==
  /\ At(g, "poll_pubrel")
  /\ MutexFree
  /\ Goto(g, "poll_release")
  /\ UNCHANGED <<arg, calls, lockVars, wireVars, linkVars, sendVars, recvVars,
                 storeVars, eventVars>>

PollPubrel(g) ==
  /\ At(g, "poll_pubrel")
  /\ MutexFree
  /\ \/ /\ DropFails(arg[g].id)
        /\ mutex' = g
        /\ PollReturn(g)
        /\ UNCHANGED storage
     \/ /\ ~ DropFails(arg[g].id)
        /\ storage' = [storage EXCEPT ![arg[g].id] = "none"]
        /\ Goto(g, "poll_release")
        /\ UNCHANGED <<arg, calls, connMutex, mutex>>
  /\ UNCHANGED <<readers, wireVars, linkVars, sendVars, recvVars, owed,
                 eventVars>>

(* Faulty variant: PUBCOMP is sent and the quota is not given back. *)
PollReleaseUncredited(g) ==
  /\ At(g, "poll_release")
  /\ conn = "open"
  /\ Write(Packet("PUBCOMP", arg[g].id))
  /\ Goto(g, "poll_fanout")
  /\ UNCHANGED <<arg, calls, lockVars, conn, toClient, linkVars, sendVars,
                 recvVars, storeVars, eventVars>>

(* Send PUBCOMP and credit the receive quota, outside c.mutex. *)
PollRelease(g) ==
  /\ At(g, "poll_release")
  /\ \/ /\ conn # "open"
        /\ PollReturn(g)
        /\ UNCHANGED <<toServer, receiveQuota>>
     \/ /\ conn = "open"
        /\ Write(Packet("PUBCOMP", arg[g].id))
        /\ receiveQuota' = IF receiveQuota < clientReceiveMaximum
                           THEN receiveQuota + 1 ELSE receiveQuota
        /\ Goto(g, "poll_fanout")
        /\ UNCHANGED <<arg, calls, connMutex>>
  /\ UNCHANGED <<mutex, readers, conn, toClient, linkVars, sendVars,
                 clientReceiveMaximum, storeVars, eventVars>>

-----------------------------------------------------------------------------
(* SUBACK and UNSUBACK *)

(* Subscribe has closed its response channel and not yet removed it. *)
ResponseClosed(call) == At(call[1], "sub_delete") /\ CallOf(call[1]) = call

Answered(call) == \E a \in answers : a.to = call

(* Faulty variant: the answer of a call is dropped. *)
PollResponseDropped(g) ==
  /\ At(g, "poll_response")
  /\ Goto(g, "poll_fanout")
  /\ UNCHANGED <<arg, calls, lockVars, wireVars, linkVars, sendVars, recvVars,
                 storeVars, eventVars>>

(* responseChan is read without c.mutex; the send to the call's channel,   *)
(* which holds one answer, blocks (with connMutex held) while it is full.  *)
PollResponse(g) ==
  /\ At(g, "poll_response")
  /\ LET call == responseChan[arg[g].id]
     IN \/ /\ call # NoOne /\ ResponseClosed(call)
           /\ Panic
        \/ /\ \/ call = NoOne /\ UNCHANGED answers
              \/ /\ call # NoOne /\ ~ ResponseClosed(call) /\ ~ Answered(call)
                 /\ answers' = answers \cup {[to |-> call, packet |-> arg[g]]}
           /\ Goto(g, "poll_fanout")
           /\ UNCHANGED <<arg, calls, lockVars, wireVars, linkVars, sendVars,
                          recvVars, storeVars, inbox, chanVars, responseChan,
                          loopVars, crashed>>

-----------------------------------------------------------------------------
(* The other packets *)

(* PINGRESP moves pingRespDeadline into the future. *)
PollPingresp(g) ==
  /\ At(g, "poll_pingresp")
  /\ pingOverdue' = FALSE
  /\ PollReturn(g)
  /\ UNCHANGED <<mutex, readers, wireVars, isConnected, sendVars, recvVars,
                 storeVars, eventVars>>

(* DISCONNECT from the broker: close; isConnected is left as it is. *)
PollDisconnect(g) ==
  /\ At(g, "poll_disconnect")
  /\ conn' = "closed"
  /\ toClient' = <<>>
  /\ Goto(g, "poll_fanout")
  /\ UNCHANGED <<arg, calls, lockVars, toServer, linkVars, sendVars, recvVars,
                 storeVars, eventVars>>

PollStep(g) ==
  \/ PollLock(g) \/ PollNothing(g) \/ PollRead(g)
  \/ PollPublish(g) \/ PollAck(g) \/ PollCredit(g)
  \/ PollRoute(g) \/ PollSignal(g) \/ PollStore(g)
  \/ PollPuback(g) \/ PollPubcomp(g) \/ PollPubrec(g)
  \/ PollPubrel(g) \/ PollRelease(g)
  \/ PollResponse(g) \/ PollPingresp(g) \/ PollDisconnect(g)
  \/ PollFanout(g)
=============================================================================
