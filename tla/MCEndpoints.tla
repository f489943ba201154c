----------------------------- MODULE MCEndpoints -----------------------------
(* An instance of Endpoints for TLC: bytes of four values and a device       *)
(* address of two bytes.                                                     *)
(*   - Files: two names, one of them written in two ways, and an empty one;  *)
(*     numbers within a byte, within a thing and beyond both.                *)
(*   - Texts: lines of every kind with the ends that terminals use, and SEND *)
(*     commands whose fields lie on and beyond every boundary.               *)
(*   - Messages of every value of every type, short tables, and datagrams    *)
(*     that are cut, ACKs, of another version, of unknown types or lengths.  *)
EXTENDS Endpoints

CONSTANTS a, b, rawA, rawUpperA, rawB, blank

LowerOf == (rawA :> a) @@ (rawUpperA :> a) @@ (rawB :> b) @@ (blank :> EmptyName)

-----------------------------------------------------------------------------

Line == <<"SEND", ",", "1", ",", "2", ",", "3", ",", "1">>

SomeLines ==
    {<<>>, <<" ">>, Line, <<" ">> \o Line \o <<" ">>, <<"getthings">>,
     <<"GETFILE", ",", " ", "f">>, <<"PACKETTEST">>, <<"send", ",", "1">>}

Ends == {<<"LF">>, <<"CR", "LF">>, <<"CR">>}

\* A terminal ends all its lines alike; the last line may be unfinished.
Sessions ==
    {l[1] \o e \o l[2] \o f :
        l \in {ls \in [1 .. 2 -> SomeLines] : ls[1] # ls[2]}, e \in Ends, f \in {<<>>, <<"LF">>}}

ByteFields == {<<"0">>, <<" ", "3", " ">>, <<"4">>, <<"0", "1", "3">>, <<"2", " ", "3">>, <<>>}

\* What stands for each field: reliable, thing, id, action, two bytes.
FieldTexts ==
    <<{<<"0">>, <<"1">>, <<"0", "1">>, <<"2">>, <<"1", "0">>, <<>>},
      {<<"1", "5">>, <<"1", "6">>, <<"2", "7", "1">>, <<"x">>},
      ByteFields, ByteFields, ByteFields, ByteFields>>

GoodFields == <<<<"1">>, <<"7">>, <<"2">>, <<"1">>, <<"0">>, <<"3">>>>

Joint(fields) ==
    FoldLeft(LAMBDA text, field : text \o <<",">> \o field, <<"SEND">>, fields) \o <<"LF">>

\* Commands of three to six fields, two of which may be anything.
Commands ==
    {Joint([k \in 1 .. n |-> IF k = i THEN f ELSE IF k = j THEN g ELSE GoodFields[k]]) :
        <<n, i, j, f, g>> \in
            UNION {{t[1]} \X {t[2]} \X {t[3]} \X FieldTexts[t[2]] \X FieldTexts[t[3]] :
                     t \in {u \in (3 .. 6) \X (1 .. 6) \X (1 .. 6) : u[2] < u[3] /\ u[3] <= u[1]}}}

\* The leader knows an owner of every thing but one.
Owned == (Thing \X Byte) \ {<<7, 0>>, <<LeaderThing, LeaderId>>}

Typing == {<<>>} \cup Sessions \cup Commands

-----------------------------------------------------------------------------

ByteArrays == UNION {[1 .. n -> Byte] : n \in 0 .. 3}

Payloads ==
    {[type |-> type, value |-> v, bytes |-> <<>>] :
        <<type, v>> \in {<<"NONE", 0>>} \cup UNION {{t} \X RangeOf(t) : t \in Scalar}}
      \cup {[type |-> "BYTES", value |-> 0, bytes |-> bytes] : bytes \in ByteArrays}

SenderBytes == <<1, 3>>

Message(flags, seq, thing, id, payload) ==
    [origin |-> SenderBytes, flags |-> flags, seq |-> seq, thing |-> thing, id |-> id,
     action |-> 1, payload |-> payload]

Sends ==
    {Message(2, seq, thing, id, p) :
        seq \in {0, 1, 14}, thing \in {0, 6, LeaderThing}, id \in {0, 1}, p \in Payloads}
      \cup {[Message(2, 14, LeaderThing, LeaderId, [type |-> "BYTES", value |-> 0, bytes |-> bytes])
               EXCEPT !.action = ActionSerial] : bytes \in ByteArrays}

HostedThings == {<<0, 1>>, <<6, 3>>, <<LeaderThing, 0>>}
Announcements == UNION {[1 .. n -> HostedThings] : n \in 0 .. 3}

\* Payloads of right and wrong types and lengths, after a header with the flags
\* and the address of a message, a table, serial bytes or another control action.
Data == UNION {[1 .. n -> {0, 1, 3}] : n \in 0 .. 5}
Types == {Code[t] : t \in Type} \cup {2, 255}
Raw(version, flags, address, payload) ==
    <<version, 1, 3, flags, 0, 1>> \o address \o payload

Addresses == {<<1, 2, 0, 1>>, <<3, 3, 3, 3>>, <<3, 3, 3, 2>>, <<3, 3, 3, 0>>}

Datagrams ==
    {Raw(Version, 2, address, <<type>> \o data) : address \in Addresses, type \in Types, data \in Data}
      \cup {Raw(Version, flags, address, <<type, 1>>) :
               flags \in {0, 1, 3}, address \in Addresses, type \in Types}
      \cup {Raw(2, 2, address, <<1, 1>>) : address \in Addresses}
      \cup {SubSeq(Raw(Version, 2, address, <<1, 1>>), 1, n) : address \in Addresses, n \in 0 .. 10}

=============================================================================
