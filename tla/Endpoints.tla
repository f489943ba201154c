------------------------------ MODULE Endpoints ------------------------------
(***************************************************************************)
(* From what people write to what devices read.  A joiner loads its mapping *)
(* files (Mappings) and announces the things in them to the leader; a       *)
(* command typed at the leader's USB port (UsbLine) goes out as a message;  *)
(* sketches send messages of every type.  All of it goes over the wire      *)
(* (Wire).                                                                  *)
(*                                                                         *)
(* The parts meet in the datagram only.  So a behaviour has the host typing, *)
(* or files being loaded, or neither, and one datagram under way at a time.  *)
(***************************************************************************)
EXTENDS Mappings, UsbLine, Wire

CONSTANTS
    Origin,       \* the address of the sender
    Destinations  \* what the leader has an owner for, pairs <<thing, id>>

ASSUME OriginBytesAssumption == Origin \in [1 .. OriginSize -> Byte]

\* The flag of a reliable packet fits the byte of the flags.
ASSUME FlagsAssumption == 2 \in Byte

\* No application hosts the address that is reserved for the leader's control.
ASSUME DestinationsAssumption ==
    Destinations \subseteq (Thing \X Byte) \ {<<LeaderThing, LeaderId>>}

endpointVars == <<mappingsVars, usbVars, wireVars>>

EndpointsInit == MappingsInit /\ UsbInit /\ WireInit

HostQuiet == typing = <<>> /\ serial = <<>> /\ heard = <<>>
FilesUnread == phase = "idle" /\ nameToThing = NoThings
WireFree == sent = Nothing \/ got # Nothing

-----------------------------------------------------------------------------
(* A joiner: files and announcement.                                        *)

LoadFiles ==
    /\ HostQuiet /\ sent = Nothing
    /\ MappingsNext
    /\ UNCHANGED <<usbVars, wireVars>>

\* Mutant of LocalTable: the last thing is left out.
LocalTable_Short ==
    [i \in 1 .. Len(localThings) - 1 |-> <<localThings[i].thing, localThings[i].id>>]

LocalTable == [i \in DOMAIN localThings |-> <<localThings[i].thing, localThings[i].id>>]

\* The header of a packet without payload.
Header(reliable) ==
    [origin |-> Origin,
     flags |-> IF reliable THEN 2 ELSE 0,
     seq |-> IF reliable THEN 1 ELSE 0,
     thing |-> 0, id |-> 0, action |-> 0, payload |-> <<>>]

\* The table may be empty: a joiner that hosts nothing announces that too.
AnnounceLocalThings ==
    /\ HostQuiet /\ sent = Nothing
    /\ phase = "idle"
    /\ Announce(Header(TRUE), LocalTable)
    /\ UNCHANGED <<mappingsVars, usbVars, got>>

-----------------------------------------------------------------------------
(* The leader: typed commands.                                              *)

HostTypes ==
    /\ FilesUnread
    /\ Arrive
    /\ UNCHANGED <<mappingsVars, wireVars>>

\* Mutant of TypedCall: the command is always sent unreliably.
TypedCall_Unreliable(command) ==
    [Header(FALSE) EXCEPT
        !.thing = command.thing, !.id = command.id, !.action = command.action,
        !.payload = [type |-> "BYTES", value |-> 0, bytes |-> command.payload]]

\* send() with a vector of bytes, a sequence number only if it is reliable.
TypedCall(command) ==
    [Header(command.reliable) EXCEPT
        !.thing = command.thing, !.id = command.id, !.action = command.action,
        !.payload = [type |-> "BYTES", value |-> 0, bytes |-> command.payload]]

\* findThingOwner: send() fails for a thing that the leader knows no owner of.
HasOwner(thing, id) == <<thing, id>> \in Destinations

\* The commands that a turn of updateUsb() sends: one at most.
TypedNow ==
    {command \in ToSet(SubSeq(answers', Len(answers) + 1, Len(answers'))) :
        command.kind = "send" /\ HasOwner(command.thing, command.id)}

ReadTyped ==
    /\ WireFree
    /\ ReadChar
    /\ IF TypedNow = {}
       THEN UNCHANGED wireVars
       ELSE /\ \E command \in TypedNow : Send(TypedCall(command))
            /\ got' = Nothing
    /\ UNCHANGED mappingsVars

-----------------------------------------------------------------------------

SketchSends ==
    /\ HostQuiet /\ FilesUnread
    /\ Transmit
    /\ UNCHANGED <<mappingsVars, usbVars>>

DeviceReceives ==
    /\ Receive
    /\ UNCHANGED <<mappingsVars, usbVars>>

EndpointsNext ==
    \/ LoadFiles
    \/ AnnounceLocalThings
    \/ HostTypes
    \/ ReadTyped
    \/ SketchSends
    \/ DeviceReceives

EndpointsSpec == EndpointsInit /\ [][EndpointsNext]_endpointVars

-----------------------------------------------------------------------------
(* Properties.                                                              *)

\* The finished lines that ask for a message to a thing with an owner.
SentLines ==
    {k \in DOMAIN Lines(heard) :
        /\ IsSend(Lines(heard)[k])
        /\ LET said == SaidBy(Lines(heard)[k]) IN HasOwner(said[2], said[3])}

(* What a device takes from a typed command is what the line says, digit by *)
(* digit and byte by byte: whether it is reliable, where it goes, what to   *)
(* do and with which bytes.  Whatever is typed, nothing but a message for a  *)
(* device gets onto the mesh: no line passes for an announcement.           *)
TypedReachesDevice ==
    got # Nothing /\ heard # <<>> =>
        /\ SentLines # {}
        /\ got.what = "message" /\ got.call.payload.type = "BYTES"
        /\ <<got.call.flags \div 2, got.call.thing, got.call.id, got.call.action>>
             \o got.call.payload.bytes = SaidBy(Lines(heard)[Max(SentLines)])

(* The leader registers the joiner for exactly the things that the joiner's *)
(* files define, by the numbers its files give their names: the name of     *)
(* each is known to the joiner, and none is left out.                       *)
HostedReachesLeader ==
    got # Nothing /\ ~FilesUnread =>
        /\ got.what = "table"
        /\ got.things = {<<localThings[i].thing, localThings[i].id>> : i \in DOMAIN localThings}
        /\ \A t \in got.things : GetThingName(t[1]) # None

=============================================================================
