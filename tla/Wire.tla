-------------------------------- MODULE Wire --------------------------------
(***************************************************************************)
(* What Beeton puts on the wire and what it reads from it: the payloads of   *)
(* the eight overloads of send() (Payload.cpp), the packet around them       *)
(* (buildPacket and parsePacket in core.cpp) and the table a joiner          *)
(* announces (Routing.cpp).                                                 *)
(*                                                                         *)
(* A word of two bytes is below Base^2 and so on; type bytes keep their      *)
(* values.  A device's address is its OriginSize bytes, 16 in the code; its  *)
(* text, which all devices make and read by the same rule, is left out.      *)
(***************************************************************************)
EXTENDS Widths, Sequences, SequencesExt

CONSTANTS
    OriginSize,
    Calls,     \* packets that sketches send, as [payload : BeetonPayload, ...]
    Tables,    \* the things that joiners announce, sequences of <<thing, id>>
    Foreign    \* datagrams that other programs or versions send

ASSUME OriginAssumption == OriginSize \in Nat

VARIABLES
    sent,  \* what was given to send() or announced
    raw,   \* the datagram under way
    got    \* what the receiver made of it

wireVars == <<sent, raw, got>>

Version == 1
HeaderSize == OriginSize + 8
LeaderThing == MaxThing
LeaderId == MaxByte
ActionRouting == MaxByte
ActionSerial == MaxByte - 1
AnnounceTable == 1

Code == [NONE |-> 0, BOOL |-> 1, UINT8 |-> 16, UINT16 |-> 17, UINT32 |-> 18,
         INT8 |-> 32, INT16 |-> 33, INT32 |-> 34, BYTES |-> 240]
Type == DOMAIN Code

Signed == {"INT8", "INT16", "INT32"}

Width(type) ==
    CASE type \in {"BOOL", "UINT8", "INT8"} -> 1
      [] type \in {"UINT16", "INT16"} -> 2
      [] type \in {"UINT32", "INT32"} -> 4

Span(width) ==
    CASE width = 1 -> Base
      [] width = 2 -> Base * Base
      [] width = 4 -> (Base * Base) * (Base * Base)

\* What the overloads of send() take.
Scalar == Type \ {"NONE", "BYTES"}

RangeOf(type) ==
    IF type = "BOOL" THEN 0 .. 1
    ELSE IF type \in Signed
    THEN -(Span(Width(type)) \div 2) .. Span(Width(type)) \div 2 - 1
    ELSE 0 .. Span(Width(type)) - 1

IsPayload(p) ==
    /\ p \in [type : Type, value : Int, bytes : Seq(Byte)]
    /\ p.type \in Scalar => p.value \in RangeOf(p.type)
    /\ p.type \notin Scalar => p.value = 0
    /\ p.type # "BYTES" => p.bytes = <<>>

IsAck(p) == p.flags % 2 = 1
IsControl(p) == p.thing = LeaderThing /\ p.id = LeaderId
IsRouting(p) == IsControl(p) /\ p.action = ActionRouting

\* What a sketch sends: a message for a thing, or bytes for the leader's USB.
IsCall(c) ==
    /\ c \in [origin : Seq(Byte), flags : Byte, seq : 0 .. Span(2) - 1,
               thing : 0 .. Span(2) - 1, id : Byte, action : Byte, payload : {c.payload}]
    /\ Len(c.origin) = OriginSize
    /\ IsPayload(c.payload)
    /\ ~IsAck(c)
    /\ IsControl(c) => c.action = ActionSerial /\ c.payload.type = "BYTES"

ASSUME CallsAssumption == \A c \in Calls : IsCall(c)
ASSUME TablesAssumption == Tables \subseteq Seq(Thing \X Byte)

\* Whoever sends it, a datagram is a sequence of bytes.  Only the code of a type
\* keeps its number, which a Base smaller than 256 may not reach.
IsDatagram(d) ==
    /\ d \in Seq(Nat)
    /\ \A i \in DOMAIN d : i # HeaderSize + 1 => d[i] \in Byte

ASSUME ForeignAssumption == \A d \in Foreign : IsDatagram(d)

Nothing == [what |-> "nothing"]

-----------------------------------------------------------------------------
(* Numbers and bytes.                                                       *)

\* value >> (8 * n).
Shifted(x, n) ==
    CASE n = 0 -> x
      [] n = 1 -> x \div Base
      [] n = 2 -> (x \div Base) \div Base
      [] n = 3 -> ((x \div Base) \div Base) \div Base

BytesOf(x, width) == [i \in 1 .. width |-> Shifted(x, width - i) % Base]

\* (result << 8) | byte, over the bytes.
Joined(bytes) ==
    CASE Len(bytes) = 1 -> bytes[1]
      [] Len(bytes) = 2 -> bytes[1] * Base + bytes[2]
      [] Len(bytes) = 4 ->
            ((bytes[1] * Base + bytes[2]) * Base + bytes[3]) * Base + bytes[4]

\* The cast to the unsigned type of the same width.
ToUnsigned(v, width) == v % Span(width)

\* Mutant of FromUnsigned: the largest value of the lower half counts as negative.
FromUnsigned_OffByOne(x, width) ==
    IF x >= Span(width) \div 2 - 1 THEN x - Span(width) ELSE x

\* The top bit says that Span is to be taken away.
FromUnsigned(x, width) ==
    IF x >= Span(width) \div 2 THEN x - Span(width) ELSE x

-----------------------------------------------------------------------------
(* Payloads.                                                                *)

Encode(payload) ==
    <<Code[payload.type]>>
      \o CASE payload.type = "NONE" -> <<>>
           [] payload.type = "BYTES" -> payload.bytes
           [] OTHER -> BytesOf(ToUnsigned(payload.value, Width(payload.type)),
                               Width(payload.type))

\* A payload without bytes, as a set with it.
Value(type, v) == {[type |-> type, value |-> v, bytes |-> <<>>]}

Fits(type, data) == Len(data) = Width(type)

DecodeAs(type, data) ==
    CASE type = "NONE" -> IF data = <<>> THEN Value(type, 0) ELSE {}
      [] type = "BYTES" -> {[type |-> type, value |-> 0, bytes |-> data]}
      [] OTHER ->
           IF ~Fits(type, data) THEN {}
           ELSE LET number == Joined(SubSeq(data, 1, Width(type)))
                IN  IF type \in Signed THEN Value(type, FromUnsigned(number, Width(type)))
                    ELSE IF type = "BOOL" /\ number > 1 THEN {}
                    ELSE Value(type, number)

\* decodePayload: a set with the payload, empty when it is rejected.
Decode(encoded) ==
    IF encoded = <<>> THEN {}
    ELSE UNION {DecodeAs(t, Tail(encoded)) : t \in {u \in Type : Code[u] = encoded[1]}}

-----------------------------------------------------------------------------
(* Packets.                                                                 *)

BuildPacket(p) ==
    <<Version>> \o p.origin \o <<p.flags>> \o BytesOf(p.seq, 2) \o BytesOf(p.thing, 2)
      \o <<p.id, p.action>> \o p.payload

\* A set with the packet, empty when it is not one.
ParsePacket(bytes) ==
    IF Len(bytes) < HeaderSize \/ bytes[1] # Version THEN {}
    ELSE LET At(n) == bytes[1 + OriginSize + n]
         IN  {[origin |-> SubSeq(bytes, 2, 1 + OriginSize),
               flags |-> At(1),
               seq |-> Joined(<<At(2), At(3)>>),
               thing |-> Joined(<<At(4), At(5)>>),
               id |-> At(6),
               action |-> At(7),
               payload |-> SubSeq(bytes, HeaderSize + 1, Len(bytes))]}

ThingBytes(entry) == BytesOf(entry[1], 2) \o <<entry[2]>>

\* The announcement of a table, three bytes for each thing, and what the leader
\* reads from it.
TableBytes(table) ==
    <<AnnounceTable>>
      \o [k \in 1 .. 3 * Len(table) |-> ThingBytes(table[(k + 2) \div 3])[((k - 1) % 3) + 1]]

\* Mutant of Entries: the type byte is read as part of the first thing.
Entries_FromType(payload) == {k \in 1 .. Len(payload) - 2 : k % 3 = 1}

\* Where the things of a table begin.
Entries(payload) == {k \in 2 .. Len(payload) - 2 : k % 3 = 2}

\* Mutant of Whole: a table may end within a thing.
Whole_Short(payload) == TRUE

Whole(payload) == (Len(payload) - 1) % 3 = 0

Announced(payload) ==
    IF payload = <<>> \/ payload[1] # AnnounceTable \/ ~Whole(payload) THEN {}
    ELSE {<<Joined(<<payload[i], payload[i + 1]>>), payload[i + 2]>> :
            i \in Entries(payload)}

-----------------------------------------------------------------------------
(* One datagram from a sender to a receiver.                                *)

WireInit == sent = Nothing /\ raw = <<>> /\ got = Nothing

\* Where a packet comes out: in a callback, or on the leader's USB port.
Outlet(p) == IF IsControl(p) THEN "serial" ELSE "message"

Send(call) ==
    /\ sent' = [what |-> Outlet(call), call |-> call]
    /\ raw' = BuildPacket([call EXCEPT !.payload = Encode(call.payload)])

\* sendRoutingPacket; the call gives the address and number of the packet.
Announce(call, table) ==
    /\ sent' = [what |-> "table", things |-> ToSet(table)]
    /\ raw' = BuildPacket([call EXCEPT !.thing = LeaderThing, !.id = LeaderId,
                                       !.action = ActionRouting,
                                       !.payload = TableBytes(table)])

SendForeign(datagram) ==
    /\ sent' = [what |-> "foreign"]
    /\ raw' = datagram

\* What a datagram is taken for by the device it is for, which is ready: a table
\* for the leader's routes, a message for a callback, or bytes that the leader
\* prints.  An ACK is for reliable delivery alone.
Handled(bytes) == {p \in ParsePacket(bytes) : ~IsAck(p)}

TablesIn(bytes) ==
    {[what |-> "table", things |-> Announced(p.payload)] :
        p \in {q \in Handled(bytes) : IsRouting(q)}}

\* The leader prints bytes only, and ignores its other actions.
IsTaken(p, payload) ==
    IsControl(p) => p.action = ActionSerial /\ payload.type = "BYTES"

MessagesIn(bytes) ==
    UNION {{[what |-> Outlet(p), call |-> [p EXCEPT !.payload = x]] :
               x \in {y \in Decode(p.payload) : IsTaken(p, y)}} :
             p \in {q \in Handled(bytes) : ~IsRouting(q)}}

Read(bytes) == TablesIn(bytes) \cup MessagesIn(bytes)

Receive ==
    /\ sent # Nothing /\ got = Nothing
    /\ got' = IF Read(raw) = {} THEN [what |-> "rejected"]
              ELSE CHOOSE g \in Read(raw) : TRUE
    /\ UNCHANGED <<sent, raw>>

Transmit ==
    /\ sent = Nothing
    /\ \/ \E call \in Calls : Send(call)
       \/ \E call \in Calls, table \in Tables : Announce(call, table)
       \/ \E datagram \in Foreign : SendForeign(datagram)
    /\ UNCHANGED got

WireNext == Transmit \/ Receive

WireSpec == WireInit /\ [][WireNext]_wireVars

-----------------------------------------------------------------------------
(* Properties.                                                              *)

(* A sketch's message arrives with the type, the value or the bytes, the     *)
(* address and the number it was sent with, at both ends of every range, and *)
(* what is sent to the leader's USB port comes out there with its bytes.     *)
MessageAsSent == got # Nothing /\ sent.what \in {"message", "serial"} => got = sent

(* A joiner's table arrives with its things and no others.                   *)
TableAsSent == got # Nothing /\ sent.what = "table" => got = sent

\* The datagram, header and all, is an announcement of these things and of
\* nothing else.
Announces(bytes, things) ==
    \E p \in ParsePacket(bytes) :
        /\ bytes = BuildPacket(p)
        /\ IsRouting(p) /\ ~IsAck(p)
        /\ \E table \in [1 .. (Len(p.payload) - 1) \div 3 -> things] :
              p.payload = TableBytes(table)

(* Whoever sent a datagram, a message or a table taken from it is one that a *)
(* device would have sent in these very bytes, header included: there is no  *)
(* second way to write a value, nothing is read beyond it and nothing is     *)
(* left over.  An ACK is never taken for a message or a table.               *)
OneReading ==
    /\ got.what \in {"message", "serial"} =>
          /\ ~IsAck(got.call)
          /\ raw = BuildPacket([got.call EXCEPT !.payload = Encode(got.call.payload)])
    /\ got.what = "table" /\ got.things # {} => Announces(raw, got.things)

=============================================================================
