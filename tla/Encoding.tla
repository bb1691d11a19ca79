------------------------------ MODULE Encoding ------------------------------
(***************************************************************************)
(* How the packets of mqtt/packets are written: the sizes of the           *)
(* primitives, the variable byte integer, and the WriteTo of every packet  *)
(* the client sends.  A WriteTo first counts the length that it announces  *)
(* in the header, then writes the fields; that the two agree is what the   *)
(* peer's reader depends on.  Of the bytes only their structure is kept:   *)
(* a frame is the announced lengths and a sequence of items with sizes.    *)
(* A property is named by its MQTT identifier, a string by its length.     *)
(***************************************************************************)
EXTENDS Integers, Sequences, FiniteSetsExt, SequencesExt

CONSTANTS Lengths,      \* lengths of strings
          Payloads,     \* lengths of payloads
          MaxOptional,  \* bound on the optional properties of a packet
          Cuts          \* how the network cuts reads short, of AllCuts

AllCuts ==
  {"timeout",           \* a deadline passes in the middle of a header
   "short_read"}        \* Read returns fewer bytes than it was asked for

ASSUME EncodingAssumption ==
  /\ Lengths \subseteq Nat \ {0}
  /\ Payloads \subseteq Nat
  /\ MaxOptional \in Nat
  /\ Cuts \subseteq AllCuts

-----------------------------------------------------------------------------
(* Primitives *)

Base == 128
MaxVarInt == Base ^ 4 - 1

(* Faulty variant: 128 is counted as one byte. *)
LengthOffByOne(v) ==
  IF v <= Base THEN 1
  ELSE IF v < Base ^ 2 THEN 2
  ELSE IF v < Base ^ 3 THEN 3
  ELSE IF v <= MaxVarInt THEN 4 ELSE 0

(* VariableByteInt.Length(false); 0 stands for an overflow. *)
Length(v) ==
  IF v < Base THEN 1
  ELSE IF v < Base ^ 2 THEN 2
  ELSE IF v < Base ^ 3 THEN 3
  ELSE IF v <= MaxVarInt THEN 4 ELSE 0

(* VariableByteInt.WriteTo: seven bits per byte, the lowest first; `more`  *)
(* is the continuation bit.  A larger value would take a fifth byte, which *)
(* no reader takes.                                                        *)
WriteVarInt[v \in 0..MaxVarInt] ==
  IF v < Base THEN <<[digit |-> v, more |-> FALSE]>>
  ELSE <<[digit |-> v % Base, more |-> TRUE]>> \o WriteVarInt[v \div Base]

(* The type of the field that a property identifier stands for. *)
Kind(id) ==
  CASE id \in {1, 23, 25, 36, 37, 40, 41, 42} -> "byte"
    [] id \in {19, 33, 34, 35} -> "uint16"
    [] id \in {2, 17, 24, 39} -> "uint32"
    [] id = 11 -> "varint"
    [] id = 38 -> "pair"
    [] OTHER -> "string"

(* Length(false) of each primitive; the value of a varint is l too. *)
SizeOf(id, l) ==
  CASE Kind(id) = "byte" -> 1
    [] Kind(id) = "uint16" -> 2
    [] Kind(id) = "uint32" -> 4
    [] Kind(id) = "varint" -> Length(l)
    [] Kind(id) = "pair" -> 2 * (2 + l)
    [] Kind(id) = "string" -> 2 + l

(* What WriteTo writes for it. *)
WrittenSize(id, l) ==
  IF Kind(id) = "varint" THEN Len(WriteVarInt[l]) ELSE SizeOf(id, l)

(* propertiesLen: the sum of Length(true) *)
PropertiesLen(ids, l) == SumFunction([id \in ids |-> 1 + SizeOf(id, l)])

-----------------------------------------------------------------------------
(* Frames *)

Field(size) == [class |-> "field", id |-> 0, size |-> size, value |-> 0]
LengthItem(v) == [class |-> "length", id |-> 0,
                  size |-> Len(WriteVarInt[v]), value |-> v]
Property(id, l) == [class |-> "property", id |-> id,
                    size |-> 1 + WrittenSize(id, l), value |-> 0]
Renamed(item, id) == [item EXCEPT !.id = id]
Rest(size) ==
  IF size = 0 THEN <<>>
  ELSE <<[class |-> "payload", id |-> 0, size |-> size, value |-> 0]>>

(* The announced length and the properties themselves; name[id] is the     *)
(* identifier that is written for the field.                               *)
SectionAs(name, length, ids, l) ==
  LET order == SetToSeq(ids)
  IN <<LengthItem(length)>> \o
     [k \in 1..Len(order) |-> Renamed(Property(order[k], l), name[order[k]])]

Section(length, ids, l) == SectionAs([id \in ids |-> id], length, ids, l)

When(condition, items) == IF condition THEN items ELSE <<>>

Sizes(items) == [k \in DOMAIN items |-> items[k].size]
SizeSum(items) == SumFunction(Sizes(items))

Acks == {"PUBACK", "PUBREC", "PUBREL", "PUBCOMP"}

(* What of the packet its reader goes by, with the announced length *)
Frame(type, len, topic, qos, remaining, items) ==
  [type |-> type, len |-> len, topic |-> topic, qos |-> qos,
   remaining |-> remaining, items |-> items]

-----------------------------------------------------------------------------
(* WriteTo *)

WritePublish(p) ==
  LET length == PropertiesLen(p.props, p.len)
  IN Frame("PUBLISH", p.len, p.topic, p.qos,
       2 + p.topic + (IF p.qos > 0 THEN 2 ELSE 0)
         + Length(length) + length + p.payload,
       <<Field(2 + p.topic)>> \o When(p.qos > 0, <<Field(2)>>)
         \o Section(length, p.props, p.len) \o Rest(p.payload))

(* PUBACK, PUBREC, PUBREL and PUBCOMP: the reason code is left out when it *)
(* is zero and there are no properties, the length of the properties never *)
(* is.                                                                     *)
WritePuback(p) ==
  LET length == PropertiesLen(p.props, p.len)
      withCode == p.code # 0 \/ length # 0
  IN Frame(p.type, p.len, 0, 0,
       2 + (IF withCode THEN 1 ELSE 0) + Length(length) + length,
       <<Field(2)>> \o When(withCode, <<Field(1)>>)
         \o Section(length, p.props, p.len))

WriteSubscribe(p) ==
  LET length == PropertiesLen(p.props, p.len)
  IN Frame("SUBSCRIBE", p.len, 0, 0,
       2 + Length(length) + length + p.topics * (2 + p.len + 1),
       <<Field(2)>> \o Section(length, p.props, p.len)
         \o Rest(p.topics * (2 + p.len + 1)))

WriteUnsubscribe(p) ==
  LET length == PropertiesLen(p.props, p.len)
  IN Frame("UNSUBSCRIBE", p.len, 0, 0,
       2 + Length(length) + length + p.topics * (2 + p.len),
       <<Field(2)>> \o Section(length, p.props, p.len)
         \o Rest(p.topics * (2 + p.len)))

(* The reason string is written and not counted, the server reference is   *)
(* counted and not written; the length of the properties counts as 1 byte. *)
WriteDisconnect(p) ==
  LET length == PropertiesLen(p.props \ {31}, p.len)
  IN Frame("DISCONNECT", p.len, 0, 0, 2 + length,
       <<Field(1)>> \o Section(length, p.props \ {28}, p.len))

(* The authentication data goes with the method, empty or not. *)
ConnectIds(p) == p.props \cup (IF 21 \in p.props THEN {22} ELSE {})

(* CONNECT writes 0x12 for the topic alias maximum, 0x19 for the request   *)
(* for problem information, and 0x12 for the expiry of the will.           *)
ConnectId(id) == CASE id = 34 -> 18 [] id = 23 -> 25 [] OTHER -> id
WillId(id) == IF id = 2 THEN 18 ELSE id

(* The will in the payload of CONNECT: its properties, topic and message.  *)
(* The payload format (0x01) is written for every will.                    *)
WillItems(p) ==
  SectionAs([id \in p.willProps \cup {1} |-> WillId(id)],
            PropertiesLen(p.willProps, p.len), p.willProps \cup {1}, p.len)
    \o <<Field(2 + p.len), Field(2 + p.len)>>

(* What is counted for it: one byte for the length of its properties, and  *)
(* nothing for the payload format.                                         *)
WillLength(p) == 1 + 2 * (2 + p.len) + PropertiesLen(p.willProps, p.len)

(* 11 is the variable header with one byte for the length of the           *)
(* properties; `names` counts user name and password.                      *)
WriteConnect(p) ==
  LET length == PropertiesLen(ConnectIds(p), p.len)
  IN Frame("CONNECT", p.len, 0, 0,
       11 + length + (1 + p.names) * (2 + p.len)
         + (IF p.will THEN WillLength(p) ELSE 0),
       <<Field(6), Field(1), Field(1), Field(2)>>
         \o SectionAs([id \in ConnectIds(p) |-> ConnectId(id)],
                      length, ConnectIds(p), p.len)
         \o <<Field(2 + p.len)>> \o When(p.will, WillItems(p))
         \o Rest(p.names * (2 + p.len)))

(* The checks at the start of WriteTo: a topic or an alias, a topic. *)
Malformed(p) ==
  \/ p.type = "PUBLISH" /\ p.topic = 0 /\ 35 \notin p.props
  \/ p.type \in {"SUBSCRIBE", "UNSUBSCRIBE"} /\ p.topics = 0

WriteTo(p) ==
  CASE p.type = "PUBLISH" -> WritePublish(p)
    [] p.type \in Acks -> WritePuback(p)
    [] p.type = "SUBSCRIBE" -> WriteSubscribe(p)
    [] p.type = "UNSUBSCRIBE" -> WriteUnsubscribe(p)
    [] p.type = "DISCONNECT" -> WriteDisconnect(p)
    [] p.type = "CONNECT" -> WriteConnect(p)

-----------------------------------------------------------------------------
(* The packets of an instance: the properties that are set (by identifier), *)
(* one length for all strings.                                             *)

Some(ids) == UNION {kSubset(k, ids) : k \in 0..MaxOptional}

Publishes ==
  [type : {"PUBLISH"}, props : Some({2, 35, 8, 9, 38, 11, 3}), len : Lengths,
   topic : {0, 1} \cup Lengths, qos : {0, 1}, payload : Payloads]

Pubacks ==
  [type : Acks, props : Some({31, 38}), len : Lengths, code : {0, 146}]

Subscribes ==
  [type : {"SUBSCRIBE"}, props : Some({11, 38}), len : Lengths,
   topics : 0..2]
    \cup [type : {"UNSUBSCRIBE"}, props : Some({38}), len : Lengths,
          topics : 0..2]

(* The client sets no other property of DISCONNECT. *)
Disconnects ==
  [type : {"DISCONNECT"}, props : Some({17}), len : {1}]

Connects ==
  {p \in [type : {"CONNECT"}, len : Lengths, names : 0..2,
          props : Some({17, 33, 39, 34, 25, 23, 38, 21}),
          will : BOOLEAN, willProps : Some({24, 2, 3, 8, 9, 38})] :
     p.will \/ p.willProps = {}}

Packets == Publishes \cup Pubacks \cup Subscribes \cup Disconnects
             \cup Connects
=============================================================================
