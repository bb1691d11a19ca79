------------------------------ MODULE Decoding ------------------------------
(***************************************************************************)
(* How Poll (and Connect) take packets from the stream: FixedHeader, then  *)
(* the ReadFrom of the packet's type, which reads fields and properties    *)
(* until its counters say that the packet is over.  There is nothing in    *)
(* the stream to find the next packet by: if a reader takes one byte more  *)
(* or less than the packet has, all that follows is misread ("lost").      *)
(* The packets are those a broker sends, and those the client sends, read  *)
(* back as a peer that reads like this package would.                      *)
(***************************************************************************)
EXTENDS Encoding

VARIABLES frame,      \* what is in the stream
          stage,      \* what is read next
          at,         \* index of the next item of the frame
          fld,        \* index of the next field of the variable header
          remaining,  \* header.Remaining
          n,          \* bytes counted, as the n of ReadFrom
          left        \* bytes of properties to go: `remaining` of ReadFrom

vars == <<frame, stage, at, fld, remaining, n, left>>

-----------------------------------------------------------------------------
(* The packets of the broker *)

Announced(type, len, topic, qos, items) ==
  Frame(type, len, topic, qos, SizeSum(items), items)
Props(ids, l) == Section(PropertiesLen(ids, l), ids, l)

BrokerPublishes ==
  {Announced("PUBLISH", l, topic, qos,
     <<Field(2 + topic)>> \o When(qos > 0, <<Field(2)>>)
       \o Props(ids, l) \o Rest(size)) :
     l \in Lengths, topic \in {1} \cup Lengths, qos \in {0, 1},
     size \in Payloads,
     ids \in Some({1, 2, 35, 8, 9, 38, 11, 3})}

(* The reason code, and the properties with it, may be left out. *)
BrokerAcks ==
  {Announced(type, 1, 0, 0, <<Field(2)>>) : type \in Acks}
    \cup {Announced(type, 1, 0, 0, <<Field(2), Field(1)>>) : type \in Acks}
    \cup {Announced(type, l, 0, 0, <<Field(2), Field(1)>> \o Props(ids, l)) :
            type \in Acks, l \in Lengths, ids \in Some({31, 38})}
    \cup {Announced(type, l, 0, 0,
                    <<Field(2)>> \o Props(ids, l) \o Rest(size)) :
            type \in {"SUBACK", "UNSUBACK"}, l \in Lengths, size \in 1..2,
            ids \in Some({31, 38})}

BrokerSessions ==
  {Announced("CONNACK", l, 0, 0, <<Field(1), Field(1)>> \o Props(ids, l)) :
     l \in Lengths,
     ids \in Some({17, 33, 36, 37, 39, 18, 34, 31, 38, 40, 41, 42, 19, 26,
                   28, 21, 22})}
    \cup {Announced("DISCONNECT", l, 0, 0, <<Field(1)>> \o Props(ids, l)) :
            l \in Lengths, ids \in Some({31, 38, 28})}
    \cup {Announced("AUTH", l, 0, 0, <<Field(1)>> \o Props(ids, l)) :
            l \in Lengths, ids \in Some({21, 22, 31, 38})}
    \cup {Announced(type, 1, 0, 0, <<Field(1)>>) :
            type \in {"DISCONNECT", "AUTH"}}
    \cup {Announced(type, 1, 0, 0, <<>>) :
            type \in {"PINGRESP", "DISCONNECT", "AUTH"}}

BrokerFrames == BrokerPublishes \cup BrokerAcks \cup BrokerSessions

-----------------------------------------------------------------------------
(* The readers *)

(* Faulty variant: no case for the server reference. *)
DisconnectKnownIncomplete == {17, 31, 38}

(* The identifiers that the switch of each ReadFrom has a case for *)
PublishKnown == {2, 35, 8, 9, 38, 11, 3}
PubackKnown == {31, 38}
SubackKnown == {31, 38}
UnsubackKnown == {31, 38}
DisconnectKnown == {17, 31, 38, 28}
AuthKnown == {21, 22, 31, 38}
ConnackKnown ==
  {17, 33, 36, 37, 39, 18, 34, 31, 38, 40, 41, 42, 19, 26, 28, 21, 22}

Known(type) ==
  CASE type = "PUBLISH" -> PublishKnown
    [] type \in Acks -> PubackKnown
    [] type = "SUBACK" -> SubackKnown
    [] type = "UNSUBACK" -> UnsubackKnown
    [] type = "CONNACK" -> ConnackKnown
    [] type = "DISCONNECT" -> DisconnectKnown
    [] type = "AUTH" -> AuthKnown

(* PrimitiveString: the length is a uint16. *)
StringSize(l) == 2 + (l % 2 ^ 16)

(* What ReadFrom takes for a property *)
ReadSize(id, l) ==
  CASE Kind(id) = "string" -> StringSize(l)
    [] Kind(id) = "pair" -> 2 * StringSize(l)
    [] OTHER -> WrittenSize(id, l)

(* The fields before the length of the properties *)
Fields(f) ==
  CASE f.type = "PUBLISH" -> <<StringSize(f.topic)>> \o
                             When(f.qos > 0, <<2>>)
    [] f.type \in Acks -> <<2, 1>>
    [] f.type \in {"SUBACK", "UNSUBACK"} -> <<2>>
    [] f.type = "CONNACK" -> <<1, 1>>
    [] f.type \in {"DISCONNECT", "AUTH"} -> <<1>>

(* Faulty variant: the shift is eight bits. *)
ReadVarIntByBytes(bytes) ==
  LET last == Min({k \in DOMAIN bytes : ~ bytes[k].more})
  IN SumFunctionOnSet([k \in DOMAIN bytes |->
                         bytes[k].digit * 256 ^ (k - 1)], 1..last)

(* VariableByteInt.ReadFrom: bytes are added in, each seven bits higher,   *)
(* up to the first one without the continuation bit.  Four bytes at most   *)
(* come, so that the shift loses nothing.                                  *)
ReadVarInt(bytes) ==
  LET last == Min({k \in DOMAIN bytes : ~ bytes[k].more})
  IN SumFunctionOnSet([k \in DOMAIN bytes |->
                         bytes[k].digit * Base ^ (k - 1)], 1..last)

-----------------------------------------------------------------------------
(* Steps *)

Item == frame.items[at]
Here(classes, size) ==
  at <= Len(frame.items) /\ Item.class \in classes /\ Item.size = size

(* Where a read leaves the stream: it took the item, or it did not.  Read  *)
(* may return less than it was asked for, and nobody asks for the rest.    *)
After(taken, short, next) ==
  (IF taken THEN {next} ELSE {"lost"})
    \cup (IF short /\ "short_read" \in Cuts THEN {"lost"} ELSE {})

(* ReadFrom returns, and Poll with it. *)
Returns(k) == IF k > Len(frame.items) THEN "done" ELSE "lost"

Start(f) ==
  /\ frame' = f
  /\ stage' = "type"
  /\ at' = 1 /\ fld' = 1 /\ remaining' = 0 /\ n' = 0 /\ left' = 0

Nothing == Frame("PINGRESP", 1, 0, 0, 0, <<>>)

Init ==
  /\ frame = Nothing
  /\ stage = "idle"
  /\ at = 1 /\ fld = 1 /\ remaining = 0 /\ n = 0 /\ left = 0

(* The client sends a packet. *)
Send(p) == stage = "idle" /\ ~ Malformed(p) /\ Start(WriteTo(p))

(* A packet of the broker arrives. *)
Arrive(f) == stage = "idle" /\ Start(f)

(* FixedHeader.ReadFrom: the first byte.  CONNECT, SUBSCRIBE and           *)
(* UNSUBSCRIBE have no reader here.                                        *)
ReadType ==
  /\ stage = "type"
  /\ stage' = IF frame.type \in {"CONNECT", "SUBSCRIBE", "UNSUBSCRIBE"}
              THEN "done" ELSE "length"
  /\ UNCHANGED <<frame, at, fld, remaining, n, left>>

(* The deadline of Poll passes before the header is complete: "No incoming *)
(* data", and Poll returns nil.  A place that is lost stays so.            *)
Timeout ==
  /\ \/ stage \in {"idle", "type", "lost"} /\ stage' = stage
     \/ stage = "length" /\ "timeout" \in Cuts /\ stage' = "lost"
  /\ UNCHANGED <<frame, at, fld, remaining, n, left>>

(* FixedHeader.ReadFrom: the remaining length; then Poll's switch.         *)
ReadLength ==
  /\ stage = "length"
  /\ remaining' = ReadVarInt(WriteVarInt[frame.remaining])
  /\ stage' = IF frame.type = "PINGRESP" THEN Returns(at) ELSE "fields"
  /\ UNCHANGED <<frame, at, fld, n, left>>

(* All readers but that of PUBLISH test n against Remaining before every   *)
(* field but the first.                                                    *)
GoesOn == fld = 1 \/ frame.type = "PUBLISH" \/ n < remaining

ReadField ==
  /\ stage = "fields" /\ GoesOn
  /\ fld <= Len(Fields(frame))
  /\ LET size == Fields(frame)[fld]
     IN /\ stage' \in After(Here({"field", "length"}, size),
                            frame.type = "PUBLISH" /\ fld = 1, "fields")
        /\ n' = n + size
  /\ at' = at + 1 /\ fld' = fld + 1
  /\ UNCHANGED <<frame, remaining, left>>

ReturnEarly ==
  /\ stage = "fields" /\ ~ GoesOn
  /\ stage' = Returns(at)
  /\ UNCHANGED <<frame, at, fld, remaining, n, left>>

(* The readers that test n once more after the length of the properties *)
TestsAgain(type) == type \notin Acks \cup {"DISCONNECT"}

ReadPropertiesLen ==
  /\ stage = "fields" /\ GoesOn
  /\ fld > Len(Fields(frame))
  /\ IF at <= Len(frame.items) /\ Item.class = "length"
     THEN /\ n' = n + Item.size
          /\ left' = ReadVarInt(WriteVarInt[Item.value])
          /\ stage' = IF n' >= remaining /\ TestsAgain(frame.type)
                      THEN Returns(at + 1) ELSE "properties"
     ELSE stage' = "lost" /\ UNCHANGED <<n, left>>
  /\ at' = at + 1
  /\ UNCHANGED <<frame, fld, remaining>>

(* One turn of the loop.  For an identifier that the switch does not know  *)
(* nothing is read, and the counters move by a count of an earlier field.  *)
ReadProperty ==
  /\ stage = "properties" /\ left > 0
  /\ IF at <= Len(frame.items) /\ Item.class = "property"
          /\ Item.id \in Known(frame.type)
     THEN LET size == 1 + ReadSize(Item.id, frame.len)
          IN /\ n' = n + size
             /\ left' = left - size
             /\ stage' \in After(Here({"property"}, size),
                                 Kind(Item.id) \in {"string", "pair"},
                                 "properties")
     ELSE stage' = "lost" /\ UNCHANGED <<n, left>>
  /\ at' = at + 1
  /\ UNCHANGED <<frame, fld, remaining>>

(* After the properties: the payload of PUBLISH, the reason codes of       *)
(* SUBACK and UNSUBACK (an error if there are none), the end of the rest.  *)
ReadPayload ==
  /\ stage = "properties" /\ left <= 0
  /\ CASE frame.type = "PUBLISH" /\ remaining > n ->
            /\ stage' \in After(Here({"payload"}, remaining - n), TRUE,
                                Returns(at + 1))
            /\ at' = at + 1
       [] frame.type \in {"SUBACK", "UNSUBACK"} ->
            /\ stage' = IF n < remaining /\ Here({"payload"}, remaining - n)
                        THEN Returns(at + 1) ELSE "error"
            /\ at' = at + 1
       [] OTHER -> stage' = Returns(at) /\ at' = at
  /\ UNCHANGED <<frame, fld, remaining, n, left>>

(* A read fails, or what is misread is no packet: Poll returns the error.  *)
Fail ==
  /\ stage \in {"type", "length", "fields", "properties", "lost"}
  /\ stage' = "error"
  /\ UNCHANGED <<frame, at, fld, remaining, n, left>>

(* The application calls Poll again; after an error, on a new connection.  *)
Again ==
  /\ stage \in {"done", "error"}
  /\ frame' = Nothing
  /\ stage' = "idle"
  /\ at' = 1 /\ fld' = 1 /\ remaining' = 0 /\ n' = 0 /\ left' = 0

Next ==
  \/ \E p \in Packets : Send(p)
  \/ \E f \in BrokerFrames : Arrive(f)
  \/ ReadType \/ Timeout \/ ReadLength \/ ReadField \/ ReturnEarly
  \/ ReadPropertiesLen \/ ReadProperty \/ ReadPayload \/ Fail \/ Again

Spec == Init /\ [][Next]_vars

-----------------------------------------------------------------------------
(* Properties *)

(* The frame announces what it has: its remaining length is that of all    *)
(* fields, properties and payload, and each length of properties is that   *)
(* of the properties that follow it.                                       *)
Exact(f) ==
  /\ f.remaining = SizeSum(f.items)
  /\ \A k \in DOMAIN f.items :
       f.items[k].class = "length" =>
         LET run == {j \in k + 1..Len(f.items) :
                       \A i \in k + 1..j : f.items[i].class = "property"}
         IN f.items[k].value = SumFunctionOnSet(Sizes(f.items), run)

(* The CONNECTs that WriteTo announces wrongly: those with 128 bytes of    *)
(* properties or more, whose length takes a byte that the 11 of            *)
(* connect.go:76 leaves out, and those with a will, for the properties of  *)
(* which connect.go:148 counts one byte and nothing for the two of the     *)
(* payload format (315).                                                   *)
Miscounted(f) ==
  /\ f.type = "CONNECT"
  /\ \E k \in DOMAIN f.items :
       /\ f.items[k].class = "length"
       /\ k # 5 \/ f.items[k].value >= Base

(* The packets that the readers lose their place in, though they get all   *)
(* of it: PUBLISH with the payload format (0x01), which publish.go:140 has *)
(* no case for, and DISCONNECT and AUTH without a body, whose first field  *)
(* is read before the remaining length is looked at (disconnect.go:47,     *)
(* auth.go:47).                                                            *)
Unreadable(f) ==
  \/ /\ f.type = "PUBLISH"
     /\ \E k \in DOMAIN f.items :
          f.items[k].class = "property" /\ f.items[k].id = 1
  \/ f.type \in {"DISCONNECT", "AUTH"} /\ f.items = <<>>

(* Every WriteTo announces what it writes, at the lengths where a variable *)
(* byte integer grows too, but for CONNECT with a will or with 128 bytes   *)
(* of properties or more.                                                  *)
FrameExact == ~ Miscounted(frame) => Exact(frame)

(* The remaining length is read as it was written.                         *)
LengthDecoded ==
  stage \in {"fields", "properties"} => remaining = frame.remaining

(* Poll reads a header only where a packet starts: every packet is read to *)
(* its end and no further, but for PUBLISH with the payload format, and    *)
(* for DISCONNECT and AUTH without a body.                                 *)
InSync == stage = "lost" => Unreadable(frame)

(* What the comments of the code say of the exceptions.  connect.go:148    *)
(* counts for a will, it says, the byte of the payload property indicator. *)
WillCounted ==
  frame.type = "CONNECT"
    /\ (\E k \in DOMAIN frame.items :
          frame.items[k].class = "length" /\ k # 5) => Exact(frame)

(* connect.go:81: the length of properties and payload is calculated.      *)
ConnectCounted ==
  frame.type = "CONNECT"
    /\ (\A k \in DOMAIN frame.items :
          frame.items[k].class = "length" => k = 5) => Exact(frame)

(* auth.go:118: the reason code and the length of the properties can be    *)
(* omitted, and the remaining length is 0 then.                            *)
EmptyBodyRead == stage = "lost" => frame.items # <<>>

(* publish.go:186: what is read after the properties is the payload, for a *)
(* message with a payload format too, as connect.go:314 writes for a will. *)
PayloadFormatRead == stage = "lost" => frame.type # "PUBLISH"
=============================================================================
