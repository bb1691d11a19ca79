------------------------------- MODULE Broker -------------------------------
(***************************************************************************)
(* The environment of a client: an MQTT 5 broker that follows the protocol *)
(* and keeps the session over reconnects, the network between them, and    *)
(* time.  None of it is code of the repository: it is what Connect, Poll   *)
(* and the acknowledgement handlers of mqtt/client.go are written against. *)
(***************************************************************************)
EXTENDS ClientState

CONSTANTS
  BrokerCodes,          \* reason codes the broker answers a PUBLISH with
  ConnackCodes,         \* reason codes of its CONNACK
  RefusesTopics,        \* it may refuse topics of a SUBSCRIBE
  BrokerQoS,            \* QoS of the messages it publishes
  MaxMessages,          \* bound: packets it sends of its own accord
  Unprompted,           \* types it may send of its own accord, bar PUBLISH
  MaxLosses,            \* bound: losses of the connection
  PingMayBeLate         \* the ping response deadline may pass

ASSUME BrokerAssumption ==
  /\ BrokerCodes \subseteq Codes
  /\ ConnackCodes \subseteq Codes
  /\ RefusesTopics \in BOOLEAN
  /\ BrokerQoS \subseteq 0..2
  /\ MaxMessages \in Nat
  /\ Unprompted \subseteq PacketTypes
  /\ MaxLosses \in Nat
  /\ PingMayBeLate \in BOOLEAN

VARIABLES
  session,              \* the broker has accepted a CONNECT on this connection
  brokerIn,             \* QoS 2 messages of the client that await PUBREL
  brokerOut,            \* brokerOut[id]: an own message in delivery, or "free"
  redo,                 \* own messages to be sent again after a reconnect
  messages,             \* packets it may still send of its own accord
  losses                \* losses of the connection still to come

brokerVars == <<session, brokerIn, brokerOut, redo, messages, losses>>

Deliveries == {"free", "pub1", "pub2", "rel"}

(* An answer reaches the client only over an open connection. *)
Answer(p) ==
  toClient' = IF conn = "open" THEN Append(toClient, p) ELSE toClient

(* What is left of the client when the broker or the network acts *)
clientOnly == <<callVars, lockVars, linkVars, sendVars, recvVars, storeVars,
                eventVars>>

-----------------------------------------------------------------------------
(* The broker takes the oldest packet off the wire. *)
Takes(t) ==
  /\ toServer # <<>>
  /\ Head(toServer).type = t
  /\ toServer' = Tail(toServer)
  /\ UNCHANGED <<conn, clientOnly, messages, losses>>

(* A first CONNECT is accepted or refused; a second one is answered with    *)
(* DISCONNECT, as the protocol demands.                                    *)
TakeConnect ==
  /\ Takes("CONNECT")
  /\ \/ /\ session
        /\ Answer(Packet("DISCONNECT", 0))
        /\ UNCHANGED <<session, redo>>
     \/ /\ ~ session
        /\ \E code \in ConnackCodes :
             /\ Answer(Reply("CONNACK", 0, code))
             /\ session' = (code < 128)
             /\ redo' = IF code < 128
                        THEN {id \in BrokerIds : brokerOut[id] # "free"}
                        ELSE {}
  /\ UNCHANGED <<brokerIn, brokerOut>>

TakePublish ==
  /\ Takes("PUBLISH")
  /\ LET p == Head(toServer)
     IN \/ /\ p.qos = 0
           /\ UNCHANGED <<toClient, brokerIn>>
        \/ /\ p.qos = 1
           /\ \E code \in BrokerCodes : Answer(Reply("PUBACK", p.id, code))
           /\ UNCHANGED brokerIn
        \/ /\ p.qos = 2
           /\ \E code \in BrokerCodes :
                /\ Answer(Reply("PUBREC", p.id, code))
                /\ brokerIn' = IF code < 128 THEN brokerIn \cup {p.id}
                               ELSE brokerIn
  /\ UNCHANGED <<session, brokerOut, redo>>

(* 146: Packet Identifier not found *)
TakePubrel ==
  /\ Takes("PUBREL")
  /\ LET id == Head(toServer).id
     IN /\ Answer(Reply("PUBCOMP", id, IF id \in brokerIn THEN 0 ELSE 146))
        /\ brokerIn' = brokerIn \ {id}
  /\ UNCHANGED <<session, brokerOut, redo>>

TakePuback ==
  /\ Takes("PUBACK")
  /\ LET id == Head(toServer).id
     IN /\ brokerOut' = [brokerOut EXCEPT ![id] = "free"]
        /\ redo' = redo \ {id}
  /\ UNCHANGED <<toClient, session, brokerIn>>

TakePubrec ==
  /\ Takes("PUBREC")
  /\ LET id == Head(toServer).id
     IN /\ Answer(Packet("PUBREL", id))
        /\ brokerOut' = [brokerOut EXCEPT ![id] = "rel"]
        /\ redo' = redo \ {id}
  /\ UNCHANGED <<session, brokerIn>>

TakePubcomp ==
  /\ Takes("PUBCOMP")
  /\ LET id == Head(toServer).id
     IN /\ brokerOut' = [brokerOut EXCEPT ![id] = "free"]
        /\ redo' = redo \ {id}
  /\ UNCHANGED <<toClient, session, brokerIn>>

(* What the broker may grant of the filters it is asked for *)
Grants(fs) == IF RefusesTopics THEN SUBSET fs ELSE {fs}

TakeSubscribe ==
  /\ Takes("SUBSCRIBE")
  /\ \E fs \in Grants(Head(toServer).filters) :
       Answer(About(Packet("SUBACK", Head(toServer).id), fs))
  /\ UNCHANGED <<session, brokerIn, brokerOut, redo>>

TakeUnsubscribe ==
  /\ Takes("UNSUBSCRIBE")
  /\ Answer(Packet("UNSUBACK", Head(toServer).id))
  /\ UNCHANGED <<session, brokerIn, brokerOut, redo>>

TakePingreq ==
  /\ Takes("PINGREQ")
  /\ Answer(Packet("PINGRESP", 0))
  /\ UNCHANGED <<session, brokerIn, brokerOut, redo>>

TakeDisconnect ==
  /\ Takes("DISCONNECT")
  /\ session' = FALSE
  /\ UNCHANGED <<toClient, brokerIn, brokerOut, redo>>

BrokerTakes ==
  \/ TakeConnect \/ TakePublish \/ TakePubrel \/ TakePuback \/ TakePubrec
  \/ TakePubcomp \/ TakePingreq \/ TakeDisconnect \/ TakeSubscribe
  \/ TakeUnsubscribe

-----------------------------------------------------------------------------
(* The Receive Maximum of the CONNECT packet; absent, it is 65535. *)
BrokerLimit == IF PacketReceiveMaximum = 0 THEN QuotaModulus - 1
               ELSE PacketReceiveMaximum

InDelivery == {id \in BrokerIds : brokerOut[id] # "free"}

Sends(p) ==
  /\ session /\ conn = "open"
  /\ toClient' = Append(toClient, p)

(* A new message, within the client's Receive Maximum, on a topic that     *)
(* matches some of the filters; the session may have older subscriptions.  *)
BrokerPublish ==
  /\ messages > 0
  /\ messages' = messages - 1
  /\ \E q \in BrokerQoS, fs \in SUBSET Filters :
       \/ /\ q = 0
          /\ Sends(About(Publish(0, 0), fs))
          /\ UNCHANGED brokerOut
       \/ /\ q > 0
          /\ Cardinality(InDelivery) < BrokerLimit
          /\ redo = {}
          /\ \E id \in BrokerIds :
               /\ brokerOut[id] = "free"
               /\ Sends(About(Publish(id, q), fs))
               /\ brokerOut' = [brokerOut EXCEPT
                                  ![id] = IF q = 1 THEN "pub1" ELSE "pub2"]
  /\ UNCHANGED <<conn, toServer, clientOnly, session, brokerIn, redo, losses>>

(* After a reconnect: PUBLISH or PUBREL again, as the delivery stands; the *)
(* topic of a message is not kept here.                                    *)
BrokerResend ==
  \E id \in redo, fs \in SUBSET Filters :
    /\ Sends(CASE brokerOut[id] = "pub1" -> About(Publish(id, 1), fs)
               [] brokerOut[id] = "pub2" -> About(Publish(id, 2), fs)
               [] OTHER -> Packet("PUBREL", id))
    /\ redo' = redo \ {id}
    /\ UNCHANGED <<conn, toServer, clientOnly, session, brokerIn, brokerOut,
                   messages, losses>>

(* DISCONNECT, AUTH, or a packet no client expects *)
BrokerUnprompted ==
  /\ messages > 0
  /\ messages' = messages - 1
  /\ \E t \in Unprompted : Sends(Packet(t, 0))
  /\ UNCHANGED <<conn, toServer, clientOnly, session, brokerIn, brokerOut,
                 redo, losses>>

-----------------------------------------------------------------------------
(* The connection breaks: what is on the wire is lost. *)
ConnLost ==
  /\ losses > 0
  /\ conn = "open"
  /\ conn' = "lost"
  /\ toServer' = <<>>
  /\ toClient' = <<>>
  /\ session' = FALSE
  /\ losses' = losses - 1
  /\ UNCHANGED <<clientOnly, brokerIn, brokerOut, redo, messages>>

(* pingRespDeadline, set by Connect and by PINGRESP, passes. *)
PingDeadlinePasses ==
  /\ PingMayBeLate
  /\ isConnected
  /\ ~ pingOverdue
  /\ pingOverdue' = TRUE
  /\ UNCHANGED <<callVars, lockVars, wireVars, isConnected, sendVars, recvVars,
                 storeVars, eventVars, brokerVars>>
=============================================================================
